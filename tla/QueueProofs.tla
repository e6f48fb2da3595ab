----------------------------- MODULE QueueProofs -----------------------------
(***************************************************************************)
(* Proofs about PriorityQueue: the linked lists of src/priority_queue.c    *)
(* stay well formed under pushes, pops and splices, an aging pass raises   *)
(* a task by one priority at most, and the queue implements LaneQueue.     *)
(* They rest on lemmas about the lists: what following next from the head  *)
(* reads off, and what the pointer updates of an insertion, a pop and a    *)
(* splice do to the lists they represent.                                  *)
(***************************************************************************)
EXTENDS PriorityQueue, PriorityLanesProofs, FiniteSetTheorems, SequenceTheorems,
        WellFoundedInduction, TLAPS

(* The provers a leaf is given to, in turn. *)
USE SMTT(10), Zenon, Z3T(20)

-------------------------------------------------------------------------------
(* What Follow returns.                                                    *)

(* A set of naturals that is not empty has a least element: what takes the *)
(* place of induction in the proofs about recursive functions.             *)
LEMMA Least ==
    ASSUME NEW S \in SUBSET Nat, S # {}
    PROVE  \E m \in S : \A k \in S : m <= k
<1> DEFINE R == OpToRel(<, Nat)
<1>1. \E m \in S : \A k \in S : ~(<<k, m>> \in R)
  BY WFMin, NatLessThanWellFounded
<1>2. PICK m \in S : \A k \in S : ~(<<k, m>> \in R)
  BY <1>1
<1>3. ASSUME NEW k \in S PROVE m <= k
  <2>1. R = {ss \in Nat \X Nat : ss[1] < ss[2]}
    BY DEF OpToRel
  <2>2. ~(k < m)
    BY <1>2, <2>1
  <2> QED BY <2>2
<1> QED BY <1>2, <1>3

(* The list s starts at h, is linked by next and ends with NULL. *)
Linked(s, h, link) ==
    /\ \A i, j \in 1 .. Len(s) : s[i] = s[j] => i = j
    /\ h = IF s = << >> THEN NULL ELSE s[1]
    /\ \A i \in 1 .. Len(s) : link[s[i]] = IF i = Len(s) THEN NULL ELSE s[i + 1]

(* A list without repetition is no longer than there are tasks. *)
LEMMA ListBounded ==
    ASSUME NEW s \in Seq(Task), \A i, j \in 1 .. Len(s) : s[i] = s[j] => i = j
    PROVE  /\ Cardinality(Task) \in Nat
           /\ Len(s) <= Cardinality(Task)
<1>1. IsFiniteSet(Task)
  BY QueueAssumption
<1>2. Cardinality(Task) \in Nat
  BY <1>1, FS_CardinalityType
<1>3. Len(s) \in Nat /\ s \in [1 .. Len(s) -> Task]
  BY LenProperties
<1>4. IsFiniteSet(1 .. Len(s)) /\ Cardinality(1 .. Len(s)) = Len(s)
  BY <1>3, FS_Interval
<1>5. ~(Cardinality(Task) < Cardinality(1 .. Len(s)))
  BY <1>1, <1>3, <1>4, FS_PigeonHole
<1> QED BY <1>2, <1>3, <1>4, <1>5

(* Following next from the head of a linked list reads off the list. *)
LEMMA FollowLinked ==
    ASSUME NEW s \in Seq(Task), NEW h, NEW link, Linked(s, h, link)
    PROVE  Follow(h, link) = s
<1> DEFINE N == Cardinality(Task) + 1
           step(f, k) == IF k = 1 THEN h
                         ELSE LET n == f[k - 1] IN IF n = NULL THEN NULL ELSE link[n]
           eqn(f) == f = [k \in 1 .. N |-> step(f, k)]
           g == [k \in 1 .. N |-> IF k <= Len(s) THEN s[k] ELSE NULL]
           node == CHOOSE f : eqn(f)
<1>1. /\ N \in Nat /\ Len(s) \in Nat /\ Len(s) < N
      /\ \A i \in 1 .. Len(s) : s[i] \in Task /\ s[i] # NULL
  BY ListBounded, LenProperties, ElementOfSeq, QueueAssumption DEF Linked
<1>2. eqn(g)
  <2>1. ASSUME NEW k \in 1 .. N PROVE g[k] = step(g, k)
    <3>1. CASE k = 1
      BY <1>1, <3>1 DEF Linked
    <3>2. CASE k # 1
      <4>1. k - 1 \in 1 .. N /\ k \in 2 .. N
        BY <1>1, <3>2
      <4>2. CASE k - 1 <= Len(s)
        BY <1>1, <4>1, <4>2 DEF Linked
      <4>3. CASE ~(k - 1 <= Len(s))
        BY <1>1, <4>1, <4>3
      <4> QED BY <4>2, <4>3
    <3> QED BY <3>1, <3>2
  <2> HIDE DEF step
  <2> QED BY <2>1
<1>3. eqn(node)
  BY <1>2, Zenon
<1> HIDE DEF node
<1>4. ASSUME NEW k \in 1 .. N PROVE node[k] = g[k]
  <2> DEFINE B == {j \in 1 .. N : node[j] # g[j]}
  <2>1. SUFFICES ASSUME B # {} PROVE FALSE
    BY <2>1
  <2>2. B \in SUBSET Nat
    BY <1>1
  <2>3. PICK m \in B : \A j \in B : m <= j
    BY <2>1, <2>2, Least
  <2>4. m \in 1 .. N /\ node[m] # g[m]
    OBVIOUS
  <2>5. node[m] = step(node, m) /\ g[m] = step(g, m)
    <3> HIDE DEF step, g
    <3> QED BY <1>2, <1>3, <2>4
  <2>6. m # 1
    BY <2>4, <2>5
  <2>7. m - 1 \in 1 .. N /\ m - 1 \notin B
    BY <1>1, <2>3, <2>4, <2>6
  <2>8. node[m - 1] = g[m - 1]
    BY <2>7
  <2> QED BY <2>4, <2>5, <2>6, <2>8
<1>5. node = g
  <2> DEFINE rhs == [k \in 1 .. N |-> step(node, k)]
  <2>1. node = rhs
    BY <1>3
  <2> HIDE DEF step, g
  <2>2. node = [k \in 1 .. N |-> node[k]]
    BY <2>1
  <2>3. g = [k \in 1 .. N |-> g[k]]
    BY DEF g
  <2> QED BY <1>4, <2>2, <2>3
<1>6. {k \in DOMAIN g : g[k] # NULL} = 1 .. Len(s)
  <2>1. DOMAIN g = 1 .. N
    OBVIOUS
  <2>2. \A k \in 1 .. N : g[k] # NULL <=> k <= Len(s)
    BY <1>1
  <2>3. \A k : k \in 1 .. Len(s) <=> k \in 1 .. N /\ k <= Len(s)
    BY <1>1
  <2> HIDE DEF g, N
  <2> QED BY <2>1, <2>2, <2>3
<1>7. Cardinality(1 .. Len(s)) = Len(s)
  <2> HIDE DEF g, N
  <2>1. Len(s) \in Nat
    BY <1>1
  <2>2. Cardinality(1 .. Len(s)) = IF 1 > Len(s) THEN 0 ELSE Len(s) - 1 + 1
    BY <2>1, FS_Interval
  <2> QED BY <2>1, <2>2
<1>8. Follow(h, link) = SubSeq(node, 1, Cardinality({k \in DOMAIN node : node[k] # NULL}))
  BY Zenon DEF Follow, node
<1>9. Follow(h, link) = SubSeq(g, 1, Len(s))
  <2> HIDE DEF g
  <2> QED BY <1>5, <1>6, <1>7, <1>8
<1>10. \A i \in 1 .. Len(s) : g[i] = s[i]
  BY <1>1
<1>11. /\ SubSeq(g, 1, Len(s)) \in Seq(Task)
       /\ Len(SubSeq(g, 1, Len(s))) = Len(s)
       /\ \A i \in 1 .. Len(s) : SubSeq(g, 1, Len(s))[i] = s[i]
  <2> HIDE DEF g
  <2>1. \A i \in 1 .. Len(s) : g[i] \in Task
    BY <1>1, <1>10
  <2>2. /\ SubSeq(g, 1, Len(s)) \in Seq(Task)
        /\ Len(SubSeq(g, 1, Len(s))) = IF 1 <= Len(s) THEN Len(s) - 1 + 1 ELSE 0
        /\ \A i \in 1 .. Len(s) - 1 + 1 : SubSeq(g, 1, Len(s))[i] = g[1 + i - 1]
    BY <1>1, <2>1, SubSeqProperties
  <2> QED BY <1>1, <1>10, <2>2
<1> HIDE DEF g
<1> QED BY <1>9, <1>11, SeqEqual

-------------------------------------------------------------------------------
(* Pointers that represent a queue, and what the list operations do to     *)
(* them.                                                                   *)

(* The pointers hd, tl, nx and the priorities pr represent list s as lane p. *)
LaneRep(s, p, hd, tl, nx, pr) ==
    /\ hd[p] = IF Len(s) = 0 THEN NULL ELSE s[1]
    /\ tl[p] = IF Len(s) = 0 THEN NULL ELSE s[Len(s)]
    /\ \A i \in 1 .. Len(s) : /\ nx[s[i]] = IF i = Len(s) THEN NULL ELSE s[i + 1]
                              /\ pr[s[i]] = p

(* ... and all the lanes of q. *)
Rep(q, hd, tl, nx, pr) ==
    /\ q \in Lanes /\ NoDup(q)
    /\ hd \in [Priority -> Task \cup {NULL}] /\ tl \in [Priority -> Task \cup {NULL}]
    /\ nx \in [Task -> Task \cup {NULL}] /\ pr \in [Task -> Priority]
    /\ \A p \in Priority : LaneRep(q[p], p, hd, tl, nx, pr)

(* The lanes that the pointers hd and nx stand for. *)
Lists(hd, nx) == [p \in Priority |-> Follow(hd[p], nx)]

(* The pointers determine the lanes they represent. *)
LEMMA RepUnique ==
    ASSUME NEW q, NEW hd, NEW tl, NEW nx, NEW pr, Rep(q, hd, tl, nx, pr)
    PROVE  /\ \A p \in Priority : Follow(hd[p], nx) = q[p]
           /\ Lists(hd, nx) = q
<1>1. ASSUME NEW p \in Priority PROVE Follow(hd[p], nx) = q[p]
  <2>1. q[p] \in Seq(Task)
    BY DEF Rep, Lanes
  <2>2. NoDup(q) /\ LaneRep(q[p], p, hd, tl, nx, pr)
    BY DEF Rep
  <2>3. \A i, j \in 1 .. Len(q[p]) : q[p][i] = q[p][j] => i = j
    BY <2>2, Zenon DEF NoDup
  <2>4. hd[p] = IF q[p] = << >> THEN NULL ELSE q[p][1]
    BY <2>1, <2>2, EmptySeq DEF LaneRep
  <2>5. Linked(q[p], hd[p], nx)
    BY <2>2, <2>3, <2>4 DEF Linked, LaneRep
  <2> QED BY <2>1, <2>5, FollowLinked
<1>2. q = [p \in Priority |-> q[p]]
  BY DEF Rep, Lanes
<1> QED BY <1>1, <1>2 DEF Lists

(* _pq_insert_locked appends to the lane the pointers represent. *)
LEMMA InsertRep ==
    ASSUME NEW q, NEW hd, NEW tl, NEW nx, NEW pr, Rep(q, hd, tl, nx, pr),
           NEW t \in Task, NEW p \in Priority, ~In(q, t),
           NEW hd2, hd2 = [hd EXCEPT ![p] = IF tl[p] = NULL THEN t ELSE @],
           NEW tl2, tl2 = [tl EXCEPT ![p] = t],
           NEW nx2, nx2 = IF tl[p] = NULL THEN [nx EXCEPT ![t] = NULL]
                          ELSE [nx EXCEPT ![t] = NULL, ![tl[p]] = t],
           NEW pr2, pr2 = [pr EXCEPT ![t] = p]
    PROVE  Rep(Insert(q, t, p), hd2, tl2, nx2, pr2)
<1> DEFINE q2 == Insert(q, t, p)
<1>1. q \in Lanes /\ NoDup(q) /\ NULL \notin Task
  BY QueueAssumption DEF Rep
<1>2. q2 \in Lanes /\ NoDup(q2)
  BY <1>1, InsertFacts
<1>3. ASSUME NEW r \in Priority
      PROVE  /\ Len(q[r]) \in Nat
             /\ \A i \in 1 .. Len(q[r]) : q[r][i] \in Task /\ q[r][i] # t /\ q[r][i] # NULL
  BY <1>1, LenProperties, ElementOfSeq DEF In, Lanes
<1>4. /\ Len(q2[p]) = Len(q[p]) + 1
      /\ q2[p][Len(q[p]) + 1] = t
      /\ \A i \in 1 .. Len(q[p]) : q2[p][i] = q[p][i]
      /\ \A r \in Priority \ {p} : q2[r] = q[r]
  BY <1>1 DEF Lanes, Insert
<1>5. hd2 \in [Priority -> Task \cup {NULL}] /\ tl2 \in [Priority -> Task \cup {NULL}]
  BY DEF Rep
<1>6. nx2 \in [Task -> Task \cup {NULL}] /\ pr2 \in [Task -> Priority]
  BY DEF Rep
<1>7. tl[p] = IF Len(q[p]) = 0 THEN NULL ELSE q[p][Len(q[p])]
  BY DEF Rep, LaneRep
<1>8. /\ nx2[t] = NULL
      /\ Len(q[p]) # 0 => nx2[q[p][Len(q[p])]] = t
      /\ \A u \in Task : u # t /\ (Len(q[p]) # 0 => u # q[p][Len(q[p])]) => nx2[u] = nx[u]
  <2>1. nx \in [Task -> Task \cup {NULL}]
    BY DEF Rep
  <2>2. CASE Len(q[p]) = 0
    BY <1>7, <2>1, <2>2
  <2>3. CASE Len(q[p]) # 0
    <3>1. q[p][Len(q[p])] \in Task /\ q[p][Len(q[p])] # t /\ q[p][Len(q[p])] # NULL
      BY <1>3, <2>3
    <3> QED BY <1>7, <2>1, <2>3, <3>1
  <2> QED BY <2>2, <2>3
<1>9. pr2[t] = p /\ \A u \in Task : u # t => pr2[u] = pr[u]
  BY DEF Rep
<1>10. ASSUME NEW r \in Priority, r # p
       PROVE  LaneRep(q2[r], r, hd2, tl2, nx2, pr2)
  <2>1. q2[r] = q[r] /\ hd2[r] = hd[r] /\ tl2[r] = tl[r]
    BY <1>4, <1>10 DEF Rep
  <2>2. ASSUME NEW i \in 1 .. Len(q[r]) PROVE nx2[q[r][i]] = nx[q[r][i]] /\ pr2[q[r][i]] = pr[q[r][i]]
    <3>1. Len(q[p]) # 0 => q[r][i] # q[p][Len(q[p])]
      <4>1. Len(q[p]) # 0 => Len(q[p]) \in 1 .. Len(q[p])
        BY <1>3
      <4> QED BY <1>1, <1>10, <4>1 DEF NoDup
    <3> QED BY <1>3, <1>8, <1>9, <3>1
  <2>3. LaneRep(q[r], r, hd, tl, nx, pr)
    BY DEF Rep
  <2> HIDE DEF q2
  <2>4. LaneRep(q[r], r, hd2, tl2, nx2, pr2)
    BY <2>1, <2>2, <2>3, Zenon DEF LaneRep
  <2> QED BY <2>1, <2>4
<1>11. /\ hd2[p] = IF Len(q2[p]) = 0 THEN NULL ELSE q2[p][1]
       /\ tl2[p] = IF Len(q2[p]) = 0 THEN NULL ELSE q2[p][Len(q2[p])]
  <2>1. hd2[p] = IF Len(q[p]) = 0 THEN t ELSE q[p][1]
    <3>1. hd[p] = IF Len(q[p]) = 0 THEN NULL ELSE q[p][1]
      BY DEF Rep, LaneRep
    <3>2. Len(q[p]) # 0 => tl[p] # NULL
      BY <1>3, <1>7
    <3>3. hd2[p] = IF tl[p] = NULL THEN t ELSE hd[p]
      BY DEF Rep
    <3> QED BY <1>7, <3>1, <3>2, <3>3
  <2>2. tl2[p] = t
    BY DEF Rep
  <2> HIDE DEF q2
  <2> QED BY <1>3, <1>4, <2>1, <2>2
<1>12. ASSUME NEW i \in 1 .. Len(q2[p])
       PROVE  /\ nx2[q2[p][i]] = IF i = Len(q2[p]) THEN NULL ELSE q2[p][i + 1]
              /\ pr2[q2[p][i]] = p
  <2> HIDE DEF q2
  <2>1. CASE i = Len(q[p]) + 1
    BY <1>3, <1>4, <1>8, <1>9, <2>1
  <2>2. CASE i \in 1 .. Len(q[p])
    <3>1. q2[p][i] = q[p][i] /\ q[p][i] \in Task /\ q[p][i] # t /\ i # Len(q2[p])
      BY <1>3, <1>4, <2>2
    <3>2. pr2[q[p][i]] = p
      BY <1>9, <2>2, <3>1 DEF Rep, LaneRep
    <3>3. CASE i = Len(q[p])
      BY <1>3, <1>4, <1>8, <3>1, <3>2, <3>3
    <3>4. CASE i # Len(q[p])
      <4>1. i + 1 \in 1 .. Len(q[p]) /\ q2[p][i + 1] = q[p][i + 1]
        BY <1>3, <1>4, <2>2, <3>4
      <4>2. Len(q[p]) \in 1 .. Len(q[p])
        BY <1>3, <2>2
      <4>3. q[p][i] # q[p][Len(q[p])]
        BY <1>1, <2>2, <3>4, <4>2 DEF NoDup
      <4>4. nx2[q[p][i]] = nx[q[p][i]]
        BY <1>8, <3>1, <4>3
      <4>5. nx[q[p][i]] = q[p][i + 1]
        BY <2>2, <3>4 DEF Rep, LaneRep
      <4> QED BY <3>1, <3>2, <4>1, <4>4, <4>5
    <3> QED BY <3>3, <3>4
  <2> QED BY <1>3, <1>4, <2>1, <2>2
<1> HIDE DEF q2
<1>13. LaneRep(q2[p], p, hd2, tl2, nx2, pr2)
  BY <1>11, <1>12 DEF LaneRep
<1>14. Rep(q2, hd2, tl2, nx2, pr2)
  BY <1>2, <1>5, <1>6, <1>10, <1>13 DEF Rep
<1> QED BY <1>14 DEF q2

(* Positions of a list that has a first node, and maybe a second one. *)
LEMMA Positions ==
    ASSUME NEW n \in Nat, n >= 1
    PROVE  /\ n # 1 => 2 \in 1 .. n /\ 1 \in 1 .. n - 1
           /\ n - 1 # 0 => n - 1 \in 1 .. n - 1
           /\ n - 1 + 1 = n
OBVIOUS

(* The assignments of _pq_pop_locked when it takes t off lane p. *)
Popped(t, p, hd, tl, nx, pr, hd2, tl2, nx2, pr2) ==
    /\ hd2 = [hd EXCEPT ![p] = nx[t]]
    /\ tl2 = [tl EXCEPT ![p] = IF nx[t] = NULL THEN NULL ELSE @]
    /\ nx2 = [nx EXCEPT ![t] = NULL]
    /\ pr2 = [pr EXCEPT ![t] = LOW]

(* _pq_pop_locked takes the first task off the lane the pointers represent. *)
LEMMA RemoveRep ==
    ASSUME NEW q, NEW hd, NEW tl, NEW nx, NEW pr, Rep(q, hd, tl, nx, pr), Ready(q) # {},
           NEW p, p = Highest(Ready(q)), NEW t, t = hd[p],
           NEW hd2, NEW tl2, NEW nx2, NEW pr2,
           Popped(t, p, hd, tl, nx, pr, hd2, tl2, nx2, pr2)
    PROVE  /\ Rep(RemoveFirst(q), hd2, tl2, nx2, pr2)
           /\ t = First(q)
           /\ nx[t] = NULL <=> RemoveFirst(q)[p] = << >>
<1> DEFINE q2 == RemoveFirst(q)
<1>1. q \in Lanes /\ NoDup(q) /\ NULL \notin Task
  BY QueueAssumption DEF Rep
<1>2. q2 \in Lanes /\ NoDup(q2)
  BY <1>1, RemoveFacts
<1>3. p \in Priority /\ q[p] \in Seq(Task) /\ q[p] # << >>
  BY <1>1, HighestFacts DEF Lanes
<1>4. ASSUME NEW r \in Priority
      PROVE  /\ q[r] \in Seq(Task) /\ Len(q[r]) \in Nat
             /\ \A i \in 1 .. Len(q[r]) : q[r][i] \in Task /\ q[r][i] # NULL
             /\ LaneRep(q[r], r, hd, tl, nx, pr)
  BY <1>1, LenProperties, ElementOfSeq DEF Rep, Lanes
<1>5. Len(q[p]) # 0
  BY <1>3, EmptySeq
<1>l. Len(q[p]) \in Nat /\ Len(q[p]) >= 1
  BY <1>3, <1>4, <1>5
<1>e. \A i \in 1 .. Len(q[p]) : q[p][i] \in Task /\ q[p][i] # NULL
  BY <1>3, <1>4
<1>r. LaneRep(q[p], p, hd, tl, nx, pr)
  BY <1>3, <1>4
<1>6. 1 \in 1 .. Len(q[p])
  BY <1>l
<1>7. /\ t = q[p][1] /\ t \in Task
      /\ nx[t] = IF Len(q[p]) = 1 THEN NULL ELSE q[p][2]
  <2>1. t = q[p][1]
    BY <1>l, <1>r DEF LaneRep
  <2>2. nx[q[p][1]] = IF 1 = Len(q[p]) THEN NULL ELSE q[p][1 + 1]
    BY <1>6, <1>r DEF LaneRep
  <2> QED BY <1>6, <1>e, <2>1, <2>2
<1>8. t = First(q)
  BY <1>3, <1>7 DEF First
<1>9. q2[p] = Tail(q[p]) /\ \A r \in Priority \ {p} : q2[r] = q[r]
  BY <1>1, <1>3 DEF Lanes, RemoveFirst
<1>10. /\ Len(q2[p]) = Len(q[p]) - 1
       /\ \A i \in 1 .. Len(q[p]) - 1 : q2[p][i] = q[p][i + 1]
       /\ q2[p] \in Seq(Task)
  BY <1>3, <1>9, HeadTailProperties
<1> HIDE DEF q2
<1>11. nx[t] = NULL <=> Len(q2[p]) = 0
  <2>1. Len(q[p]) # 1 => 2 \in 1 .. Len(q[p])
    BY <1>l, Positions
  <2> QED BY <1>l, <1>e, <1>7, <1>10, <2>1
<1>12. Len(q2[p]) = 0 <=> q2[p] = << >>
  BY <1>10, EmptySeq
<1>13. /\ hd2 \in [Priority -> Task \cup {NULL}] /\ tl2 \in [Priority -> Task \cup {NULL}]
       /\ nx2 \in [Task -> Task \cup {NULL}] /\ pr2 \in [Task -> Priority]
  <2>1. LOW \in Priority
    BY DEF LOW, Priority, HIGH
  <2> QED BY <1>3, <1>7, <2>1 DEF Rep, Popped
<1>14. \A u \in Task : u # t => nx2[u] = nx[u] /\ pr2[u] = pr[u]
  BY DEF Rep, Popped
<1>15. ASSUME NEW r \in Priority, r # p PROVE LaneRep(q2[r], r, hd2, tl2, nx2, pr2)
  <2>1. q2[r] = q[r] /\ hd2[r] = hd[r] /\ tl2[r] = tl[r]
    BY <1>9, <1>15 DEF Rep, Popped
  <2>2. ASSUME NEW i \in 1 .. Len(q[r])
        PROVE  nx2[q[r][i]] = nx[q[r][i]] /\ pr2[q[r][i]] = pr[q[r][i]]
    <3>1. q[r][i] # t
      BY <1>1, <1>3, <1>6, <1>7, <1>15, SamePlace
    <3> QED BY <1>4, <1>14, <3>1
  <2>3. LaneRep(q[r], r, hd2, tl2, nx2, pr2)
    BY <1>4, <2>1, <2>2 DEF LaneRep
  <2> QED BY <2>1, <2>3
<1>16. LaneRep(q2[p], p, hd2, tl2, nx2, pr2)
  <2>1. hd2[p] = nx[t] /\ tl2[p] = IF nx[t] = NULL THEN NULL ELSE tl[p]
    BY <1>3 DEF Rep, Popped
  <2>2. hd2[p] = IF Len(q2[p]) = 0 THEN NULL ELSE q2[p][1]
    <3>1. Len(q[p]) # 1 => 1 \in 1 .. Len(q[p]) - 1
      BY <1>l, Positions
    <3>2. Len(q[p]) # 1 => q2[p][1] = q[p][2]
      BY <1>10, <3>1
    <3> QED BY <1>l, <1>7, <1>10, <2>1, <3>2
  <2>3. tl2[p] = IF Len(q2[p]) = 0 THEN NULL ELSE q2[p][Len(q2[p])]
    <3>1. tl[p] = q[p][Len(q[p])]
      BY <1>l, <1>r DEF LaneRep
    <3>2. Len(q2[p]) # 0 => q2[p][Len(q2[p])] = q[p][Len(q[p])]
      <4>1. Len(q2[p]) # 0 => Len(q2[p]) \in 1 .. Len(q[p]) - 1 /\ Len(q2[p]) + 1 = Len(q[p])
        BY <1>l, <1>10, Positions
      <4> QED BY <1>10, <4>1
    <3> QED BY <1>11, <2>1, <3>1, <3>2
  <2>4. ASSUME NEW i \in 1 .. Len(q2[p])
        PROVE  /\ nx2[q2[p][i]] = IF i = Len(q2[p]) THEN NULL ELSE q2[p][i + 1]
               /\ pr2[q2[p][i]] = p
    <3>1. i + 1 \in 1 .. Len(q[p]) /\ q2[p][i] = q[p][i + 1] /\ i + 1 # 1
      BY <1>l, <1>10
    <3>2. q[p][i + 1] # t
      <4>1. ASSUME q[p][i + 1] = q[p][1] PROVE i + 1 = 1
        BY <1>1, <1>3, <1>6, <3>1, <4>1, SamePlace
      <4> QED BY <1>7, <3>1, <4>1
    <3>3. nx2[q2[p][i]] = nx[q[p][i + 1]] /\ pr2[q2[p][i]] = pr[q[p][i + 1]]
      BY <1>e, <1>14, <3>1, <3>2
    <3>4. /\ nx[q[p][i + 1]] = IF i + 1 = Len(q[p]) THEN NULL ELSE q[p][i + 1 + 1]
          /\ pr[q[p][i + 1]] = p
      BY <1>r, <3>1 DEF LaneRep
    <3>5. i # Len(q2[p]) => i + 1 \in 1 .. Len(q[p]) - 1
      BY <1>l, <1>10
    <3>6. i # Len(q2[p]) => q2[p][i + 1] = q[p][i + 1 + 1]
      BY <1>10, <3>5
    <3>7. i = Len(q2[p]) <=> i + 1 = Len(q[p])
      BY <1>l, <1>10
    <3> QED BY <3>3, <3>4, <3>6, <3>7
  <2> QED BY <2>2, <2>3, <2>4 DEF LaneRep
<1>17. Rep(q2, hd2, tl2, nx2, pr2)
  BY <1>2, <1>13, <1>15, <1>16 DEF Rep
<1> QED BY <1>8, <1>11, <1>12, <1>17 DEF q2

(* The lanes after a promotion, position by position. *)
LEMMA PromoteLanes ==
    ASSUME NEW q \in Lanes, NEW src \in Priority, NEW dst \in Priority, src # dst,
           NEW n \in 1 .. Len(q[src])
    PROVE  LET q2 == Promote(q, src, dst, n) IN
           /\ Len(q2[src]) = Len(q[src]) - n
           /\ \A i \in 1 .. Len(q[src]) - n : q2[src][i] = q[src][i + n]
           /\ Len(q2[dst]) = n + Len(q[dst])
           /\ \A i \in 1 .. n : q2[dst][i] = q[src][i]
           /\ \A i \in 1 .. Len(q[dst]) : q2[dst][i + n] = q[dst][i]
           /\ \A r \in Priority \ {src, dst} : q2[r] = q[r]
<1> DEFINE a == q[src]
           b == q[dst]
           u == SubSeq(a, n + 1, Len(a))
           v == SubSeq(a, 1, n)
           q2 == Promote(q, src, dst, n)
<1>1. a \in Seq(Task) /\ b \in Seq(Task) /\ Len(a) \in Nat /\ Len(b) \in Nat
  BY LenProperties DEF Lanes
<1>2. q2[src] = u /\ q2[dst] = v \o b /\ \A r \in Priority \ {src, dst} : q2[r] = q[r]
  BY DEF Promote, Lanes
<1> HIDE DEF q2
<1>3. Len(u) = Len(a) - n /\ \A i \in 1 .. Len(a) - n : u[i] = a[i + n]
  <2>1. \A i \in n + 1 .. Len(a) : a[i] \in Task
    BY <1>1, ElementOfSeq
  <2>2. /\ Len(u) = IF n + 1 <= Len(a) THEN Len(a) - (n + 1) + 1 ELSE 0
        /\ \A i \in 1 .. Len(a) - (n + 1) + 1 : u[i] = a[n + 1 + i - 1]
    <3> HIDE DEF a
    <3> QED BY <1>1, <2>1, SubSeqProperties
  <2> HIDE DEF a, u
  <2> QED BY <1>1, <2>2 DEF a
<1>4. v \in Seq(Task) /\ Len(v) = n /\ \A i \in 1 .. n : v[i] = a[i]
  <2>1. \A i \in 1 .. n : a[i] \in Task
    BY <1>1, ElementOfSeq
  <2>2. /\ v \in Seq(Task)
        /\ Len(v) = IF 1 <= n THEN n - 1 + 1 ELSE 0
        /\ \A i \in 1 .. n - 1 + 1 : v[i] = a[1 + i - 1]
    <3> HIDE DEF a
    <3> QED BY <1>1, <2>1, SubSeqProperties
  <2> HIDE DEF v
  <2> QED BY <1>1, <2>2
<1> HIDE DEF u, v
<1>5. /\ Len(v \o b) = n + Len(b)
      /\ \A i \in 1 .. n + Len(b) : (v \o b)[i] = IF i <= n THEN v[i] ELSE b[i - n]
  BY <1>1, <1>4, ConcatProperties
<1> HIDE DEF b
<1>6. \A i \in 1 .. n : (v \o b)[i] = a[i]
  BY <1>1, <1>4, <1>5
<1>7. \A i \in 1 .. Len(b) : (v \o b)[i + n] = b[i]
  <2>1. ASSUME NEW i \in 1 .. Len(b)
        PROVE  i + n \in 1 .. n + Len(b) /\ ~(i + n <= n) /\ i + n - n = i
    BY <1>1
  <2> QED BY <1>5, <2>1
<1> QED BY <1>2, <1>3, <1>5, <1>6, <1>7 DEF q2, a, b

(* The assignments of the splice in pq_aging_promote_prefix. *)
Spliced(q, src, dst, n, hd, tl, nx, pr, hd2, tl2, nx2, pr2) ==
    LET last == q[src][n]
        after == nx[last]
    IN
    /\ hd2 = [hd EXCEPT ![src] = after, ![dst] = q[src][1]]
    /\ tl2 = [tl EXCEPT ![src] = IF after = NULL THEN NULL ELSE @,
                        ![dst] = IF @ = NULL THEN last ELSE @]
    /\ nx2 = [nx EXCEPT ![last] = hd[dst]]
    /\ pr2 = [t \in Task |-> IF \E i \in 1 .. n : q[src][i] = t THEN dst ELSE pr[t]]

(* The splice moves a prefix of the lane the pointers represent. *)
LEMMA PromoteRep ==
    ASSUME NEW q, NEW hd, NEW tl, NEW nx, NEW pr, Rep(q, hd, tl, nx, pr),
           NEW src \in Priority, NEW dst \in Priority, src # dst, NEW n \in 1 .. Len(q[src]),
           NEW hd2, NEW tl2, NEW nx2, NEW pr2,
           Spliced(q, src, dst, n, hd, tl, nx, pr, hd2, tl2, nx2, pr2)
    PROVE  /\ Rep(Promote(q, src, dst, n), hd2, tl2, nx2, pr2)
           /\ nx[q[src][n]] = NULL <=> Len(Promote(q, src, dst, n)[src]) = 0
<1> DEFINE q2 == Promote(q, src, dst, n)
           m == Len(q[src])
           d == Len(q[dst])
           last == q[src][n]
<1>1. q \in Lanes /\ NoDup(q) /\ NULL \notin Task
  BY QueueAssumption DEF Rep
<1>2. q2 \in Lanes /\ NoDup(q2)
  BY <1>1, PromoteFacts
<1>3. /\ Len(q2[src]) = m - n
      /\ \A i \in 1 .. m - n : q2[src][i] = q[src][i + n]
      /\ Len(q2[dst]) = n + d
      /\ \A i \in 1 .. n : q2[dst][i] = q[src][i]
      /\ \A i \in 1 .. d : q2[dst][i + n] = q[dst][i]
      /\ \A r \in Priority \ {src, dst} : q2[r] = q[r]
  BY <1>1, PromoteLanes
<1> HIDE DEF q2
<1>4. ASSUME NEW r \in Priority
      PROVE  /\ Len(q[r]) \in Nat
             /\ \A i \in 1 .. Len(q[r]) : q[r][i] \in Task /\ q[r][i] # NULL
             /\ LaneRep(q[r], r, hd, tl, nx, pr)
  BY <1>1, LenProperties, ElementOfSeq DEF Rep, Lanes
<1>5. m \in Nat /\ d \in Nat /\ n \in 1 .. m /\ m \in 1 .. m /\ 1 \in 1 .. m
  BY <1>4
<1>6. last \in Task /\ nx[last] = IF n = m THEN NULL ELSE q[src][n + 1]
  BY <1>4, <1>5 DEF LaneRep
<1>7. n # m => n + 1 \in 1 .. m /\ q[src][n + 1] # NULL
  BY <1>4, <1>5
<1>8. nx[last] = NULL <=> n = m
  BY <1>6, <1>7
<1>t. /\ hd \in [Priority -> Task \cup {NULL}] /\ tl \in [Priority -> Task \cup {NULL}]
      /\ nx \in [Task -> Task \cup {NULL}] /\ pr \in [Task -> Priority]
  BY DEF Rep
<1>9. /\ hd2[src] = nx[last] /\ hd2[dst] = q[src][1]
      /\ tl2[src] = (IF nx[last] = NULL THEN NULL ELSE tl[src])
      /\ tl2[dst] = (IF tl[dst] = NULL THEN last ELSE tl[dst])
      /\ \A r \in Priority \ {src, dst} : hd2[r] = hd[r] /\ tl2[r] = tl[r]
  BY <1>t DEF Spliced
<1>10. /\ nx2[last] = hd[dst]
       /\ \A u \in Task : u # last => nx2[u] = nx[u]
  BY <1>t, <1>6 DEF Spliced
<1>11. \A u \in Task : pr2[u] = IF \E i \in 1 .. n : q[src][i] = u THEN dst ELSE pr[u]
  BY DEF Spliced
<1>12. /\ hd2 \in [Priority -> Task \cup {NULL}] /\ tl2 \in [Priority -> Task \cup {NULL}]
       /\ nx2 \in [Task -> Task \cup {NULL}] /\ pr2 \in [Task -> Priority]
  <2>1. q[src][1] \in Task
    BY <1>4, <1>5
  <2>2. hd2 \in [Priority -> Task \cup {NULL}]
    BY <1>t, <1>6, <2>1 DEF Spliced
  <2>3. tl2 \in [Priority -> Task \cup {NULL}]
    BY <1>t, <1>6 DEF Spliced
  <2>4. nx2 \in [Task -> Task \cup {NULL}]
    BY <1>t DEF Spliced
  <2>5. pr2 \in [Task -> Priority]
    BY <1>t DEF Spliced
  <2> QED BY <2>2, <2>3, <2>4, <2>5
<1>13. ASSUME NEW r \in Priority, NEW i \in 1 .. Len(q[r]), r # src \/ i > n
       PROVE  nx2[q[r][i]] = nx[q[r][i]] /\ pr2[q[r][i]] = pr[q[r][i]]
  <2>1. ASSUME NEW k \in 1 .. n, q[src][k] = q[r][i] PROVE FALSE
    <3>1. k \in 1 .. m
      BY <1>5
    <3>2. src = r /\ k = i
      BY <1>1, <2>1, <3>1, SamePlace
    <3> QED BY <1>5, <1>13, <3>2
  <2>2. q[r][i] \in Task /\ q[r][i] # last
    BY <1>4, <1>5, <2>1
  <2> QED BY <1>10, <1>11, <2>1, <2>2
<1>14. ASSUME NEW r \in Priority, r # src, r # dst PROVE LaneRep(q2[r], r, hd2, tl2, nx2, pr2)
  <2>1. q2[r] = q[r] /\ hd2[r] = hd[r] /\ tl2[r] = tl[r]
    BY <1>3, <1>9, <1>14
  <2>2. \A i \in 1 .. Len(q[r]) : nx2[q[r][i]] = nx[q[r][i]] /\ pr2[q[r][i]] = pr[q[r][i]]
    BY <1>13, <1>14
  <2>3. LaneRep(q[r], r, hd, tl, nx, pr)
    BY <1>4
  <2>4. LaneRep(q[r], r, hd2, tl2, nx2, pr2)
    BY <2>1, <2>2, <2>3, Zenon DEF LaneRep
  <2> QED BY <2>1, <2>4
<1>15. LaneRep(q2[src], src, hd2, tl2, nx2, pr2)
  <2> HIDE DEF m, d, last
  <2>1. hd2[src] = IF Len(q2[src]) = 0 THEN NULL ELSE q2[src][1]
    <3>1. n # m => 1 \in 1 .. m - n /\ 1 + n = n + 1
      BY <1>5
    <3>2. n # m => q2[src][1] = q[src][n + 1]
      BY <1>3, <3>1
    <3>3. Len(q2[src]) = 0 <=> n = m
      BY <1>3, <1>5
    <3> QED BY <1>6, <1>9, <3>2, <3>3
  <2>2. tl2[src] = IF Len(q2[src]) = 0 THEN NULL ELSE q2[src][Len(q2[src])]
    <3>1. n # m => m - n \in 1 .. m - n /\ m - n + n = m
      BY <1>5
    <3>2. n # m => q2[src][Len(q2[src])] = q[src][m]
      BY <1>3, <3>1
    <3>3. Len(q2[src]) = 0 <=> n = m
      BY <1>3, <1>5
    <3>4. tl[src] = q[src][m]
      BY <1>4, <1>5 DEF LaneRep, m
    <3> QED BY <1>8, <1>9, <3>2, <3>3, <3>4
  <2>3. ASSUME NEW i \in 1 .. Len(q2[src])
        PROVE  /\ nx2[q2[src][i]] = IF i = Len(q2[src]) THEN NULL ELSE q2[src][i + 1]
               /\ pr2[q2[src][i]] = src
    <3>1. i \in 1 .. m - n /\ i + n \in 1 .. m /\ i + n > n /\ (i = m - n <=> i + n = m)
      BY <1>3, <1>5
    <3>2. q2[src][i] = q[src][i + n]
      BY <1>3, <3>1
    <3>3. nx2[q[src][i + n]] = nx[q[src][i + n]] /\ pr2[q[src][i + n]] = pr[q[src][i + n]]
      BY <1>13, <3>1 DEF m
    <3>4. /\ nx[q[src][i + n]] = IF i + n = m THEN NULL ELSE q[src][i + n + 1]
          /\ pr[q[src][i + n]] = src
      BY <1>4, <3>1 DEF LaneRep, m
    <3>5. i # m - n => i + 1 \in 1 .. m - n /\ i + 1 + n = i + n + 1
      BY <1>5, <3>1
    <3>6. i # m - n => q2[src][i + 1] = q[src][i + n + 1]
      BY <1>3, <3>5
    <3> QED BY <1>3, <3>1, <3>2, <3>3, <3>4, <3>6
  <2> QED BY <2>1, <2>2, <2>3 DEF LaneRep
<1>16. LaneRep(q2[dst], dst, hd2, tl2, nx2, pr2)
  <2> HIDE DEF m, d, last
  <2>h. hd[dst] = IF d = 0 THEN NULL ELSE q[dst][1]
    BY <1>4 DEF LaneRep, d
  <2>l. tl[dst] = IF d = 0 THEN NULL ELSE q[dst][d]
    BY <1>4 DEF LaneRep, d
  <2>d. d # 0 => d \in 1 .. d /\ 1 \in 1 .. d /\ d + n = n + d /\ 1 + n = n + 1
    BY <1>5
  <2>s. Len(q2[dst]) # 0 /\ 1 \in 1 .. n /\ n \in 1 .. n
    BY <1>3, <1>5
  <2>1. hd2[dst] = q2[dst][1]
    BY <1>3, <1>9, <2>s
  <2>2. tl2[dst] = q2[dst][Len(q2[dst])]
    <3>1. CASE d = 0
      <4>1. Len(q2[dst]) = n
        BY <1>3, <1>5, <3>1
      <4> QED BY <1>3, <1>9, <2>l, <2>s, <3>1, <4>1 DEF last
    <3>2. CASE d # 0
      <4>1. q2[dst][Len(q2[dst])] = q2[dst][d + n]
        BY <1>3, <2>d, <3>2
      <4>2. q2[dst][d + n] = q[dst][d]
        BY <1>3, <2>d, <3>2
      <4>3. q[dst][d] # NULL
        BY <1>4, <2>d, <3>2 DEF d
      <4> QED BY <1>9, <2>l, <3>2, <4>1, <4>2, <4>3
    <3> QED BY <3>1, <3>2
  <2>3. ASSUME NEW i \in 1 .. n
        PROVE  /\ nx2[q2[dst][i]] = IF i = Len(q2[dst]) THEN NULL ELSE q2[dst][i + 1]
               /\ pr2[q2[dst][i]] = dst
    <3>1. q2[dst][i] = q[src][i] /\ i \in 1 .. m
      BY <1>3, <1>5
    <3>2. q[src][i] \in Task
      BY <1>4, <3>1 DEF m
    <3>3. pr2[q[src][i]] = dst
      BY <1>11, <3>2
    <3>4. CASE i = n
      <4>1. i = Len(q2[dst]) <=> d = 0
        BY <1>3, <1>5, <3>4
      <4>2. d # 0 => q2[dst][i + 1] = q[dst][1]
        BY <1>3, <2>d, <3>4
      <4> QED BY <1>10, <2>h, <3>1, <3>3, <3>4, <4>1, <4>2 DEF last
    <3>5. CASE i # n
      <4>1. i + 1 \in 1 .. n /\ i # Len(q2[dst]) /\ i # m
        BY <1>3, <1>5, <3>5
      <4>2. q2[dst][i + 1] = q[src][i + 1]
        BY <1>3, <4>1
      <4>3. nx[q[src][i]] = q[src][i + 1]
        BY <1>4, <3>1, <4>1 DEF LaneRep, m
      <4>4. q[src][i] # last
        BY <1>1, <1>5, <3>1, <3>5, SamePlace DEF m, last
      <4>5. nx2[q[src][i]] = nx[q[src][i]]
        BY <1>10, <3>2, <4>4
      <4> QED BY <3>1, <3>3, <4>1, <4>2, <4>3, <4>5
    <3> QED BY <3>4, <3>5
  <2>4. ASSUME NEW j \in 1 .. d
        PROVE  /\ nx2[q2[dst][j + n]] = IF j + n = Len(q2[dst]) THEN NULL ELSE q2[dst][j + n + 1]
               /\ pr2[q2[dst][j + n]] = dst
    <3>1. q2[dst][j + n] = q[dst][j]
      BY <1>3
    <3>2. nx2[q[dst][j]] = nx[q[dst][j]] /\ pr2[q[dst][j]] = pr[q[dst][j]]
      BY <1>13 DEF d
    <3>3. nx[q[dst][j]] = (IF j = d THEN NULL ELSE q[dst][j + 1]) /\ pr[q[dst][j]] = dst
      BY <1>4 DEF LaneRep, d
    <3>4. j + n = Len(q2[dst]) <=> j = d
      <4>1. j \in Nat /\ n \in Nat /\ d \in Nat /\ Len(q2[dst]) = n + d
        BY <1>3, <1>5
      <4> QED BY <4>1
    <3>5. j # d => j + 1 \in 1 .. d /\ j + 1 + n = j + n + 1
      BY <1>5
    <3>6. j # d => q2[dst][j + n + 1] = q[dst][j + 1]
      BY <1>3, <3>5
    <3> QED BY <3>1, <3>2, <3>3, <3>4, <3>6
  <2>5. ASSUME NEW i \in 1 .. Len(q2[dst])
        PROVE  /\ nx2[q2[dst][i]] = IF i = Len(q2[dst]) THEN NULL ELSE q2[dst][i + 1]
               /\ pr2[q2[dst][i]] = dst
    <3>1. CASE i <= n
      <4>1. i \in 1 .. n
        BY <1>3, <1>5, <3>1
      <4> QED BY <2>3, <4>1
    <3>2. CASE ~(i <= n)
      <4>1. i - n \in 1 .. d /\ i - n + n = i
        BY <1>3, <1>5, <3>2
      <4> QED BY <2>4, <4>1
    <3> QED BY <3>1, <3>2
  <2> QED BY <2>s, <2>1, <2>2, <2>5 DEF LaneRep
<1>17. \A r \in Priority : LaneRep(q2[r], r, hd2, tl2, nx2, pr2)
  BY <1>14, <1>15, <1>16
<1>18. Rep(q2, hd2, tl2, nx2, pr2)
  BY <1>2, <1>12, <1>17 DEF Rep
<1>19. Len(q2[src]) = 0 <=> n = m
  BY <1>3, <1>5
<1> QED BY <1>8, <1>18, <1>19 DEF q2

-------------------------------------------------------------------------------
(* The queue.                                                              *)

(* The lanes the list pointers stand for. *)
Queue == Lists(heads, next)

(* The inductive invariant: the pointers represent these lanes, the mask   *)
(* and the counters agree with them, and what the first half of an aging   *)
(* pass promoted is still queued at the highest priority.                  *)
IInv ==
    /\ Rep(Queue, heads, tails, next, priority)
    /\ ready_mask = Ready(Queue)
    /\ size = Size(Queue) /\ depth = size
    /\ \A t \in promoted : t \in Task /\ priority[t] = HIGH /\ In(Queue, t)

(* Pointers that represent lanes q after a step re-establish the invariant. *)
LEMMA Represents ==
    ASSUME NEW q, Rep(q, heads', tails', next', priority'),
           ready_mask' = Ready(q), size' = Size(q), depth' = size',
           \A t \in promoted' : t \in Task /\ priority'[t] = HIGH /\ In(q, t)
    PROVE  IInv' /\ Queue' = q
<1>1. Queue' = q
  BY RepUnique DEF Queue
<1> QED BY <1>1 DEF IInv

(* The lanes as LaneQueue sees them, and as the guards of the code do. *)
LEMMA QueueFacts ==
    ASSUME IInv
    PROVE  /\ Queue \in Lanes /\ NoDup(Queue)
           /\ \A p \in Priority : LaneOf(p) = Queue[p]
           /\ [p \in Priority |-> LaneOf(p)] = Queue
           /\ \A t : InQueue(t) <=> In(Queue, t)
<1>1. Queue \in Lanes /\ NoDup(Queue)
  BY DEF IInv, Rep
<1>2. \A p \in Priority : LaneOf(p) = Queue[p]
  BY DEF Queue, Lists, LaneOf
<1>3. [p \in Priority |-> LaneOf(p)] = Queue
  BY DEF Queue, Lists, LaneOf
<1>4. \A p \in Priority : DOMAIN Queue[p] = 1 .. Len(Queue[p])
  BY <1>1, LenProperties DEF Lanes
<1>5. \A t : InQueue(t) <=> In(Queue, t)
  BY <1>2, <1>4, Zenon DEF InQueue, In
<1> QED BY <1>1, <1>2, <1>3, <1>5

(* pq_init leaves an empty queue. *)
LEMMA InitIInv == Init => IInv /\ Queue = EmptyLanes
<1> SUFFICES ASSUME Init PROVE IInv /\ Queue = EmptyLanes
  OBVIOUS
<1>1. EmptyLanes \in Lanes /\ Size(EmptyLanes) = 0
  <2>1. PICK q \in Lanes : q = EmptyLanes
    BY EmptySeq DEF Lanes, EmptyLanes
  <2> QED BY <2>1, SizeFacts
<1>2. \A p \in Priority : EmptyLanes[p] = << >> /\ Len(EmptyLanes[p]) = 0
  BY DEF EmptyLanes
<1>3. NoDup(EmptyLanes)
  BY <1>2 DEF NoDup
<1>4. \A p \in Priority : LaneRep(EmptyLanes[p], p, heads, tails, next, priority)
  BY <1>2 DEF Init, LaneRep
<1>5. LOW \in Priority
  BY DEF LOW, HIGH, Priority
<1>6. Rep(EmptyLanes, heads, tails, next, priority)
  BY <1>1, <1>3, <1>4, <1>5 DEF Init, Rep
<1>7. Queue = EmptyLanes
  BY <1>6, RepUnique DEF Queue
<1>8. Ready(EmptyLanes) = {}
  BY <1>2 DEF Ready
<1> QED BY <1>1, <1>6, <1>7, <1>8 DEF Init, IInv

(* pq_push and pq_try_push append the task to its lane. *)
LEMMA PushStep ==
    ASSUME IInv, NEW t \in Task, NEW p \in Priority, NEW stamp, Push(t, p, stamp)
    PROVE  IInv' /\ Queue' = Insert(Queue, t, p) /\ ~In(Queue, t)
<1>1. ~In(Queue, t) /\ Queue \in Lanes
  BY QueueFacts DEF Push
<1>2. Rep(Queue, heads, tails, next, priority)
  BY DEF IInv
<1>3. InsertLocked(t, p) /\ promoted' = promoted
  BY DEF Push
<1>4. Rep(Insert(Queue, t, p), heads', tails', next', priority')
  BY <1>1, <1>2, <1>3, InsertRep DEF InsertLocked
<1>5. /\ Size(Insert(Queue, t, p)) = Size(Queue) + 1
      /\ \A u : In(Insert(Queue, t, p), u) <=> In(Queue, u) \/ u = t
  BY <1>1, InsertFacts
<1>6. Ready(Insert(Queue, t, p)) = Ready(Queue) \cup {p}
  <2>1. /\ \A r \in Priority : r # p => Insert(Queue, t, p)[r] = Queue[r]
        /\ Insert(Queue, t, p)[p] = Append(Queue[p], t)
    BY <1>1 DEF Insert, Lanes
  <2>2. Append(Queue[p], t) # << >>
    BY <1>1 DEF Lanes
  <2> QED BY <2>1, <2>2 DEF Ready
<1>7. /\ ready_mask' = Ready(Insert(Queue, t, p))
      /\ size' = Size(Insert(Queue, t, p)) /\ depth' = size'
  BY <1>3, <1>5, <1>6 DEF IInv, InsertLocked
<1>8. \A u \in promoted' : u \in Task /\ priority'[u] = HIGH /\ In(Insert(Queue, t, p), u)
  BY <1>1, <1>2, <1>3, <1>5 DEF IInv, InsertLocked, Rep
<1> QED BY <1>1, <1>4, <1>7, <1>8, Represents

(* A pop takes the first task of the highest lane that has one. *)
LEMMA PopStep ==
    ASSUME IInv, Pop
    PROVE  IInv' /\ Queue' = RemoveFirst(Queue) /\ Ready(Queue) # {}
<1> DEFINE p == Highest(Ready(Queue))
           t == heads[p]
           q2 == RemoveFirst(Queue)
<1>1. Queue \in Lanes /\ NoDup(Queue) /\ Rep(Queue, heads, tails, next, priority)
  BY QueueFacts DEF IInv
<1>2. Ready(Queue) # {} /\ PopLocked(p)
  BY DEF Pop, IInv
<1>3. /\ Rep(q2, heads', tails', next', priority')
      /\ t = First(Queue)
      /\ next[t] = NULL <=> q2[p] = << >>
  <2>1. Popped(t, p, heads, tails, next, priority, heads', tails', next', priority')
    BY <1>2 DEF PopLocked, Popped
  <2>2. p = Highest(Ready(Queue)) /\ t = heads[p]
    OBVIOUS
  <2> HIDE DEF p, t, q2
  <2>3. Rep(Queue, heads, tails, next, priority)
    BY <1>1
  <2>4. Ready(Queue) # {}
    BY <1>2
  <2> QED BY <2>1, <2>2, <2>3, <2>4, RemoveRep DEF q2
<1>4. /\ Size(q2) = Size(Queue) - 1
      /\ \A u : In(q2, u) <=> In(Queue, u) /\ u # First(Queue)
  BY <1>1, <1>2, RemoveFacts
<1>5. p \in Priority /\ Queue[p] # << >>
  BY <1>1, <1>2, HighestFacts
<1>6. \A r \in Priority \ {p} : q2[r] = Queue[r]
  BY <1>1 DEF RemoveFirst, Lanes
<1>7. ready_mask' = Ready(q2)
  <2>1. ready_mask' = IF q2[p] = << >> THEN Ready(Queue) \ {p} ELSE Ready(Queue)
    BY <1>2, <1>3 DEF PopLocked, IInv
  <2> HIDE DEF p, q2
  <2> QED BY <1>5, <1>6, <2>1 DEF Ready
<1>8. size' = Size(q2) /\ depth' = size'
  BY <1>2, <1>4 DEF PopLocked, IInv
<1>9. \A u \in promoted' : u \in Task /\ priority'[u] = HIGH /\ In(q2, u)
  <2>1. promoted' = promoted \ {t} /\ priority' = [priority EXCEPT ![t] = LOW]
    BY <1>2 DEF PopLocked
  <2>2. priority \in [Task -> Priority]
    BY <1>1 DEF Rep
  <2> HIDE DEF t, q2
  <2> QED BY <1>3, <1>4, <2>1, <2>2 DEF IInv
<1> HIDE DEF q2
<1>10. IInv' /\ Queue' = q2
  BY <1>3, <1>7, <1>8, <1>9, Represents
<1> QED BY <1>2, <1>10 DEF q2

(* pq_destroy leaves an empty queue. *)
LEMMA DestroyStep ==
    ASSUME IInv, Destroy
    PROVE  IInv' /\ Queue' = EmptyLanes
<1>1. EmptyLanes \in Lanes /\ Size(EmptyLanes) = 0
  BY QueueFacts, SizeFacts
<1>2. \A p \in Priority : EmptyLanes[p] = << >> /\ Len(EmptyLanes[p]) = 0
  BY DEF EmptyLanes
<1>3. NoDup(EmptyLanes)
  BY <1>2 DEF NoDup
<1>4. \A p \in Priority : LaneRep(EmptyLanes[p], p, heads', tails', next', priority')
  BY <1>2 DEF Destroy, LaneRep
<1>5. LOW \in Priority
  BY DEF LOW, HIGH, Priority
<1>6. Rep(EmptyLanes, heads', tails', next', priority')
  BY <1>1, <1>3, <1>4, <1>5 DEF Destroy, Rep
<1>7. Ready(EmptyLanes) = {}
  BY <1>2 DEF Ready
<1>8. ready_mask' = {} /\ size' = 0 /\ depth' = 0 /\ promoted' = {}
  BY DEF Destroy
<1> QED BY <1>1, <1>6, <1>7, <1>8, Represents

(* Steps that leave the lists, the counters and promoted alone. *)
LEMMA FrameStep ==
    ASSUME IInv, UNCHANGED listVars, UNCHANGED <<size, depth>>,
           \A t \in promoted' : t \in promoted
    PROVE  IInv' /\ Queue' = Queue
<1>1. Rep(Queue, heads', tails', next', priority')
  BY DEF IInv, listVars
<1>2. ready_mask' = Ready(Queue) /\ size' = Size(Queue) /\ depth' = size'
  BY DEF IInv, listVars
<1>3. \A t \in promoted' : t \in Task /\ priority'[t] = HIGH /\ In(Queue, t)
  BY DEF IInv, listVars
<1> QED BY <1>1, <1>2, <1>3, Represents

(* A half of an aging pass that moves something splices the first n nodes  *)
(* of lane src to the front of lane dst, and raises these only.            *)
LEMMA PromoteStep ==
    ASSUME IInv, NEW src \in Priority, NEW dst \in Priority, src # dst,
           NEW n \in 1 .. Len(LaneOf(src)), NEW s, s = SubSeq(LaneOf(src), 1, n),
           Splice(s, src, dst), size' = size, depth' = depth,
           \A t \in promoted' : t \in Task /\ priority'[t] # priority[t] /\ dst = HIGH
    PROVE  /\ IInv' /\ Queue' = Promote(Queue, src, dst, n)
           /\ \A t \in Task : priority'[t] # priority[t] => priority[t] = src
<1> DEFINE q2 == Promote(Queue, src, dst, n)
<1>1. Queue \in Lanes /\ NoDup(Queue) /\ Rep(Queue, heads, tails, next, priority)
  BY QueueFacts DEF IInv
<1>2. LaneOf(src) = Queue[src] /\ Queue[src] \in Seq(Task) /\ n \in 1 .. Len(Queue[src])
  BY <1>1, QueueFacts DEF Lanes
<1>l. Len(Queue[src]) \in Nat /\ n \in Nat /\ n >= 1
  BY <1>2, LenProperties
<1>3. s \in Seq(Task) /\ Len(s) = n /\ \A i \in 1 .. n : s[i] = Queue[src][i]
  <2>1. \A i \in 1 .. n : Queue[src][i] \in Task
    BY <1>2, <1>l, ElementOfSeq
  <2>2. /\ s \in Seq(Task)
        /\ Len(s) = IF 1 <= n THEN n - 1 + 1 ELSE 0
        /\ \A i \in 1 .. n - 1 + 1 : s[i] = Queue[src][1 + i - 1]
    BY <1>2, <1>l, <2>1, SubSeqProperties
  <2> QED BY <1>l, <2>2
<1>4. DOMAIN s = 1 .. n /\ s[1] = Queue[src][1] /\ s[Len(s)] = Queue[src][n]
  BY <1>l, <1>3, LenProperties
<1>5. Spliced(Queue, src, dst, n, heads, tails, next, priority, heads', tails', next', priority')
  <2> DEFINE last == Queue[src][n]
             after == next[last]
  <2>1. heads' = [heads EXCEPT ![src] = after, ![dst] = Queue[src][1]]
    BY <1>4, Zenon DEF Splice
  <2>2. tails' = [tails EXCEPT ![src] = IF after = NULL THEN NULL ELSE @,
                               ![dst] = IF @ = NULL THEN last ELSE @]
    BY <1>4, Zenon DEF Splice
  <2>3. next' = [next EXCEPT ![last] = heads[dst]]
    BY <1>4, Zenon DEF Splice
  <2>4. priority' = [t \in Task |-> IF \E i \in 1 .. n : Queue[src][i] = t THEN dst ELSE priority[t]]
    <3>1. priority' = [t \in Task |-> IF \E i \in 1 .. n : s[i] = t THEN dst ELSE priority[t]]
      BY <1>4, Zenon DEF Splice
    <3>2. \A t \in Task : (\E i \in 1 .. n : s[i] = t) <=> (\E i \in 1 .. n : Queue[src][i] = t)
      BY <1>3, Zenon
    <3> QED BY <3>1, <3>2
  <2> QED BY <2>1, <2>2, <2>3, <2>4, Zenon DEF Spliced
<1>6. /\ Rep(q2, heads', tails', next', priority')
      /\ next[Queue[src][n]] = NULL <=> Len(q2[src]) = 0
  BY <1>1, <1>2, <1>5, PromoteRep
<1>7. q2 \in Lanes /\ Size(q2) = Size(Queue) /\ \A u : In(q2, u) <=> In(Queue, u)
  BY <1>1, <1>2, PromoteFacts
<1>8. /\ Len(q2[dst]) = n + Len(Queue[dst])
      /\ \A r \in Priority \ {src, dst} : q2[r] = Queue[r]
  BY <1>1, <1>2, PromoteLanes
<1>9. ready_mask' = Ready(q2)
  <2>1. ready_mask' = (IF Len(q2[src]) = 0 THEN Ready(Queue) \ {src} ELSE Ready(Queue)) \cup {dst}
    BY <1>4, <1>6 DEF Splice, IInv
  <2> HIDE DEF q2
  <2>2. q2[src] \in Seq(Task) /\ q2[dst] \in Seq(Task) /\ Queue[dst] \in Seq(Task)
    BY <1>1, <1>7 DEF Lanes
  <2>3. Len(q2[src]) = 0 <=> q2[src] = << >>
    BY <2>2, EmptySeq
  <2>4. q2[dst] # << >>
    <3>1. Len(q2[dst]) # 0
      BY <1>l, <1>8, <2>2, LenProperties
    <3> QED BY <3>1, EmptySeq
  <2>5. Queue[src] # << >>
    BY <1>2, <1>l, EmptySeq
  <2> QED BY <1>8, <2>1, <2>3, <2>4, <2>5 DEF Ready
<1>10. size' = Size(q2) /\ depth' = size'
  BY <1>7 DEF IInv
<1>11. ASSUME NEW t \in Task, priority'[t] # priority[t]
       PROVE  \E i \in 1 .. Len(Queue[src]) : Queue[src][i] = t /\ priority[t] = src /\ priority'[t] = dst
  <2>1. \E i \in 1 .. n : Queue[src][i] = t
    BY <1>5, <1>11 DEF Spliced
  <2>2. priority'[t] = dst
    BY <1>5, <2>1 DEF Spliced
  <2>3. PICK i \in 1 .. n : Queue[src][i] = t
    BY <2>1
  <2>4. i \in 1 .. Len(Queue[src])
    BY <1>2, <1>l
  <2>5. priority[Queue[src][i]] = src
    BY <1>1, <2>4 DEF Rep, LaneRep
  <2> QED BY <2>2, <2>3, <2>4, <2>5
<1>12. \A t \in promoted' : t \in Task /\ priority'[t] = HIGH /\ In(q2, t)
  <2> HIDE DEF q2
  <2>1. \A t \in Task : priority'[t] # priority[t] => In(Queue, t)
    BY <1>11 DEF In
  <2> QED BY <1>7, <1>11, <2>1
<1> HIDE DEF q2
<1>13. IInv' /\ Queue' = q2
  BY <1>6, <1>9, <1>10, <1>12, Represents
<1> QED BY <1>11, <1>13 DEF q2

(* A half of an aging pass leaves the lists alone or promotes a prefix; it *)
(* changes the priority of tasks of lane src only.                         *)
LEMMA PromotePrefixStep ==
    ASSUME IInv, NEW src \in Priority, NEW dst \in Priority, src # dst,
           PromotePrefix(src, dst), size' = size, depth' = depth,
           \A t \in promoted' : t \in Task /\ priority'[t] # priority[t] /\ dst = HIGH
    PROVE  /\ IInv'
           /\ \/ Queue' = Queue
              \/ \E n \in 1 .. Len(Queue[src]) : Queue' = Promote(Queue, src, dst, n)
           /\ \A t \in Task : priority'[t] # priority[t] => priority[t] = src
<1>1. CASE UNCHANGED listVars
  <2>1. priority' = priority
    BY <1>1 DEF listVars
  <2>2. IInv' /\ Queue' = Queue
    BY <1>1, <2>1, FrameStep
  <2> QED BY <2>1, <2>2
<1>2. CASE \E now \in 1 .. clock :
             /\ heads[src] # NULL /\ HasPassed(heads[src], now)
             /\ \E n \in 1 .. Len(LaneOf(src)) :
                   LET s == SubSeq(LaneOf(src), 1, n)
                   IN  AgedPrefix(s, src, now) /\ Splice(s, src, dst)
  <2>1. PICK n \in 1 .. Len(LaneOf(src)) : Splice(SubSeq(LaneOf(src), 1, n), src, dst)
    BY <1>2
  <2>2. /\ IInv' /\ Queue' = Promote(Queue, src, dst, n)
        /\ \A t \in Task : priority'[t] # priority[t] => priority[t] = src
    BY <2>1, PromoteStep
  <2>3. n \in 1 .. Len(Queue[src])
    BY QueueFacts
  <2> QED BY <2>2, <2>3
<1> QED BY <1>1, <1>2 DEF PromotePrefix

(* The lanes that pq_aging names, in its order. *)
LEMMA PassFacts ==
    /\ PassOrder[1][1] = MEDIUM /\ PassOrder[1][2] = HIGH
    /\ PassOrder[2][1] = LOW /\ PassOrder[2][2] = MEDIUM
    /\ LOW \in Priority /\ MEDIUM \in Priority /\ HIGH \in Priority
    /\ LOW # MEDIUM /\ MEDIUM # HIGH /\ LOW # HIGH
BY DEF PassOrder, LOW, MEDIUM, HIGH, Priority

LEMMA AgingFirstStep ==
    ASSUME IInv, AgingFirst
    PROVE  /\ IInv'
           /\ \/ Queue' = Queue
              \/ \E n \in 1 .. Len(Queue[MEDIUM]) : Queue' = Promote(Queue, MEDIUM, HIGH, n)
<1>1. PromotePrefix(MEDIUM, HIGH) /\ size' = size /\ depth' = depth
  BY PassFacts DEF AgingFirst
<1>2. \A t \in promoted' : t \in Task /\ priority'[t] # priority[t] /\ HIGH = HIGH
  BY DEF AgingFirst
<1> QED BY <1>1, <1>2, PassFacts, PromotePrefixStep

LEMMA AgingSecondStep ==
    ASSUME IInv, AgingSecond
    PROVE  /\ IInv'
           /\ \/ Queue' = Queue
              \/ \E n \in 1 .. Len(Queue[LOW]) : Queue' = Promote(Queue, LOW, MEDIUM, n)
           /\ \A t \in Task : priority'[t] # priority[t] => priority[t] = LOW
<1>1. PromotePrefix(LOW, MEDIUM) /\ size' = size /\ depth' = depth
  BY PassFacts DEF AgingSecond
<1>2. \A t \in promoted' : t \in Task /\ priority'[t] # priority[t] /\ MEDIUM = HIGH
  BY DEF AgingSecond
<1> QED BY <1>1, <1>2, PassFacts, PromotePrefixStep

-------------------------------------------------------------------------------
(* The invariant is inductive. *)
LEMMA NextIInv == IInv /\ [Next]_vars => IInv'
<1> SUFFICES ASSUME IInv, [Next]_vars PROVE IInv'
  OBVIOUS
<1>1. ASSUME NEW t \in Task, NEW p \in Priority, NEW stamp \in 0 .. clock,
             Push(t, p, stamp) \/ TryPush(t, p, stamp)
      PROVE  IInv'
  <2>1. Push(t, p, stamp)
    BY <1>1 DEF TryPush
  <2> QED BY <2>1, PushStep
<1>2. CASE Pop
  BY <1>2, PopStep
<1>3. CASE SetMax
  BY <1>3, FrameStep DEF SetMax
<1>4. CASE Destroy
  BY <1>4, DestroyStep
<1>5. CASE AgingFirst
  BY <1>5, AgingFirstStep
<1>6. CASE AgingSecond
  BY <1>6, AgingSecondStep
<1>7. CASE Tick
  BY <1>7, FrameStep DEF Tick
<1>8. CASE UNCHANGED vars
  <2>1. UNCHANGED listVars /\ UNCHANGED <<size, depth>> /\ promoted' = promoted
    BY <1>8 DEF vars
  <2> QED BY <2>1, FrameStep
<1> QED BY <1>1, <1>2, <1>3, <1>4, <1>5, <1>6, <1>7, <1>8 DEF Next

(* The pointers of the queue represent lanes in every reachable state. *)
THEOREM Inductive == Spec => []IInv
<1>1. Init => IInv
  BY InitIInv
<1> QED BY <1>1, NextIInv, PTL DEF Spec

(* Whatever pushes, pops and splices have happened, the lists are well     *)
(* formed: tails, mask, size, depth and every node's priority agree with   *)
(* what following next from the heads finds.                               *)
THEOREM ListsWellFormed == Spec => []WellFormed
<1>1. IInv => WellFormed
  <2> SUFFICES ASSUME IInv PROVE WellFormed
    OBVIOUS
  <2>1. Queue \in Lanes /\ NoDup(Queue) /\ \A p \in Priority : LaneOf(p) = Queue[p]
    BY QueueFacts
  <2>2. ASSUME NEW p \in Priority
        PROVE  /\ Queue[p] \in Seq(Task) /\ Len(Queue[p]) \in Nat
               /\ DOMAIN Queue[p] = 1 .. Len(Queue[p])
               /\ Queue[p] = << >> <=> Len(Queue[p]) = 0
    BY <2>1, EmptySeq, LenProperties DEF Lanes
  <2>3. ASSUME NEW p \in Priority PROVE LaneRep(Queue[p], p, heads, tails, next, priority)
    BY DEF IInv, Rep
  <2>4. ASSUME NEW p \in Priority
        PROVE  LET s == LaneOf(p) IN
               /\ tails[p] = IF s = << >> THEN NULL ELSE s[Len(s)]
               /\ s # << >> => next[s[Len(s)]] = NULL
               /\ \A i, j \in DOMAIN s : s[i] = s[j] => i = j
               /\ \A i \in DOMAIN s : priority[s[i]] = p
    <3>1. tails[p] = IF Queue[p] = << >> THEN NULL ELSE Queue[p][Len(Queue[p])]
      BY <2>2, <2>3 DEF LaneRep
    <3>2. Queue[p] # << >> => next[Queue[p][Len(Queue[p])]] = NULL
      <4>1. Queue[p] # << >> => Len(Queue[p]) \in 1 .. Len(Queue[p])
        BY <2>2
      <4> QED BY <2>3, <4>1 DEF LaneRep
    <3>3. \A i, j \in DOMAIN Queue[p] : Queue[p][i] = Queue[p][j] => i = j
      <4>1. ASSUME NEW i \in 1 .. Len(Queue[p]), NEW j \in 1 .. Len(Queue[p]),
                   Queue[p][i] = Queue[p][j]
            PROVE  i = j
        BY <2>1, <4>1, SamePlace
      <4> QED BY <2>2, <4>1, Zenon
    <3>4. \A i \in DOMAIN Queue[p] : priority[Queue[p][i]] = p
      BY <2>2, <2>3 DEF LaneRep
    <3> QED BY <2>1, <3>1, <3>2, <3>3, <3>4, Zenon
  <2>5. ready_mask = {p \in Priority : heads[p] # NULL}
    <3>1. ASSUME NEW p \in Priority PROVE Queue[p] # << >> <=> heads[p] # NULL
      <4>1. Len(Queue[p]) # 0 => 1 \in 1 .. Len(Queue[p])
        BY <2>2
      <4>2. Len(Queue[p]) # 0 => Queue[p][1] \in Task
        BY <2>2, <4>1, ElementOfSeq
      <4> QED BY <2>2, <2>3, <4>2, QueueAssumption DEF LaneRep
    <3>2. ready_mask = Ready(Queue)
      BY DEF IInv
    <3> QED BY <3>1, <3>2, Zenon DEF Ready
  <2>6. size = Len(LaneOf(LOW)) + Len(LaneOf(MEDIUM)) + Len(LaneOf(HIGH)) /\ depth = size
    BY <2>1, PassFacts DEF IInv, Size
  <2> QED BY <2>4, <2>5, <2>6 DEF WellFormed
<1> QED BY <1>1, Inductive, PTL

(* One pass of pq_aging raises a task by at most one priority: whatever is *)
(* pushed, popped or destroyed between its halves, the second half leaves  *)
(* alone what the first one promoted.                                      *)
THEOREM AgingRaisesOnce == Spec => OneLevelPerPass
<1> DEFINE A == pass = "low" =>
                   \A t \in promoted : pass' = "idle" => priority'[t] = priority[t]
<1>1. IInv /\ [Next]_vars => [A]_vars
  <2> SUFFICES ASSUME IInv, Next, pass = "low", pass' = "idle", NEW t \in promoted
               PROVE  priority'[t] = priority[t]
    BY Zenon
  <2>1. AgingSecond
    BY DEF Next, Push, TryPush, Pop, SetMax, Destroy, AgingFirst, Tick
  <2>2. t \in Task /\ priority[t] = HIGH
    BY DEF IInv
  <2>3. priority'[t] # priority[t] => priority[t] = LOW
    BY <2>1, <2>2, AgingSecondStep
  <2> QED BY <2>2, <2>3, PassFacts
<1>2. Spec => [][A]_vars
  BY <1>1, Inductive, PTL DEF Spec
<1> QED BY <1>2 DEF OneLevelPerPass

-------------------------------------------------------------------------------
(* The lanes as LaneQueue sees them. *)
lanes == [p \in Priority |-> LaneOf(p)]

(* The operators LaneQueue is built from are those of PriorityLanes. *)
LEMMA SameOperators ==
    /\ \A q, t, p : Abstract!Insert(q, t, p) = Insert(q, t, p)
    /\ \A q : Abstract!RemoveFirst(q) = RemoveFirst(q) /\ Abstract!Ready(q) = Ready(q)
    /\ \A q, a, b, n : Abstract!Promote(q, a, b, n) = Promote(q, a, b, n)
    /\ Abstract!EmptyLanes = EmptyLanes
    /\ Abstract!Priority = Priority
    /\ Abstract!PromotionPairs = {<<MEDIUM, HIGH>>, <<LOW, MEDIUM>>}
<1>1. Abstract!Priority = Priority
  BY DEF Abstract!Priority, Priority, Abstract!LOW, LOW, Abstract!HIGH, HIGH
<1>2. \A q : Abstract!Ready(q) = Ready(q)
  BY <1>1 DEF Abstract!Ready, Ready
<1>3. \A ready : Abstract!Highest(ready) = Highest(ready)
  BY Zenon DEF Abstract!Highest, Highest
<1>4. \A q : Abstract!RemoveFirst(q) = RemoveFirst(q)
  BY <1>2, <1>3, Zenon DEF Abstract!RemoveFirst, RemoveFirst
<1>5. \A q, t, p : Abstract!Insert(q, t, p) = Insert(q, t, p)
  BY Zenon DEF Abstract!Insert, Insert
<1>6. \A q, a, b, n : Abstract!Promote(q, a, b, n) = Promote(q, a, b, n)
  BY Zenon DEF Abstract!Promote, Promote
<1>7. Abstract!EmptyLanes = EmptyLanes
  BY <1>1, Zenon DEF Abstract!EmptyLanes, EmptyLanes
<1>8. Abstract!PromotionPairs = {<<MEDIUM, HIGH>>, <<LOW, MEDIUM>>}
  BY DEF Abstract!PromotionPairs, Abstract!LOW, Abstract!MEDIUM, Abstract!HIGH, LOW, MEDIUM, HIGH
<1> QED BY <1>1, <1>2, <1>4, <1>5, <1>6, <1>7, <1>8

(* Every step of the linked lists is a step of LaneQueue on the lanes they *)
(* represent, or changes neither the lanes nor the capacity.               *)
LEMMA StepRefines ==
    ASSUME IInv, [Next]_vars
    PROVE  [Abstract!Next]_<<lanes, max_tasks>>
<1>1. lanes = Queue
  BY DEF lanes, Queue, Lists, LaneOf
<1>2. lanes' = Queue'
  BY DEF lanes, Queue, Lists, LaneOf
<1>3. ASSUME NEW t \in Task, NEW p \in Priority, NEW stamp, Push(t, p, stamp)
      PROVE  Abstract!Next
  <2>1. lanes' = Insert(lanes, t, p) /\ ~In(lanes, t) /\ max_tasks' = max_tasks
    BY <1>1, <1>2, <1>3, PushStep DEF Push
  <2>2. t \notin Abstract!Queued(lanes)
    BY <2>1, SameOperators, Zenon DEF Abstract!Queued, In
  <2>3. Abstract!Push(t, p)
    BY <2>1, <2>2, SameOperators DEF Abstract!Push, lanes
  <2> QED BY <2>3, SameOperators DEF Abstract!Next
<1>4. CASE Pop
  <2>1. lanes' = RemoveFirst(lanes) /\ Ready(lanes) # {} /\ max_tasks' = max_tasks
    BY <1>1, <1>2, <1>4, PopStep DEF Pop
  <2>2. Abstract!Pop
    BY <2>1, SameOperators DEF Abstract!Pop, lanes
  <2> QED BY <2>2 DEF Abstract!Next
<1>5. CASE Destroy
  <2>1. lanes' = EmptyLanes /\ max_tasks' = max_tasks
    BY <1>2, <1>5, DestroyStep DEF Destroy
  <2>2. Abstract!Destroy
    BY <2>1, SameOperators DEF Abstract!Destroy, lanes
  <2> QED BY <2>2 DEF Abstract!Next
<1>6. CASE SetMax
  <2>1. lanes' = lanes /\ max_tasks' \in Caps
    BY <1>1, <1>2, <1>6, FrameStep DEF SetMax
  <2>2. Abstract!SetMax
    BY <2>1 DEF Abstract!SetMax, lanes
  <2> QED BY <2>2 DEF Abstract!Next
<1>7. ASSUME NEW a, NEW b, <<a, b>> \in {<<MEDIUM, HIGH>>, <<LOW, MEDIUM>>}, max_tasks' = max_tasks,
             \/ Queue' = Queue
             \/ \E n \in 1 .. Len(Queue[a]) : Queue' = Promote(Queue, a, b, n)
      PROVE  Abstract!Next \/ UNCHANGED <<lanes, max_tasks>>
  <2>1. CASE Queue' = Queue
    BY <1>1, <1>2, <1>7, <2>1
  <2>2. CASE \E n \in 1 .. Len(Queue[a]) : Queue' = Promote(Queue, a, b, n)
    <3>1. \E n \in 1 .. Len(lanes[a]) : lanes' = Abstract!Promote(lanes, a, b, n)
      BY <1>1, <1>2, <2>2, SameOperators
    <3>2. <<a, b>> \in Abstract!PromotionPairs /\ <<a, b>>[1] = a /\ <<a, b>>[2] = b
      BY <1>7, SameOperators
    <3>3. \E pair \in Abstract!PromotionPairs : \E n \in 1 .. Len(lanes[pair[1]]) :
             lanes' = Abstract!Promote(lanes, pair[1], pair[2], n)
      BY <3>1, <3>2, Zenon
    <3>4. Abstract!Age
      BY <1>7, <3>3, Zenon DEF Abstract!Age, lanes
    <3> QED BY <3>4 DEF Abstract!Next
  <2> QED BY <1>7, <2>1, <2>2
<1>8. CASE AgingFirst
  BY <1>7, <1>8, AgingFirstStep DEF AgingFirst
<1>9. CASE AgingSecond
  BY <1>7, <1>9, AgingSecondStep DEF AgingSecond
<1>10. CASE Tick
  BY <1>1, <1>2, <1>10, FrameStep DEF Tick
<1>11. CASE UNCHANGED vars
  <2>1. UNCHANGED listVars /\ UNCHANGED <<size, depth>> /\ promoted' = promoted /\ max_tasks' = max_tasks
    BY <1>11 DEF vars
  <2> QED BY <1>1, <1>2, <2>1, FrameStep
<1> QED
  BY <1>3, <1>4, <1>5, <1>6, <1>8, <1>9, <1>10, <1>11 DEF Next, TryPush

(* The linked lists implement LaneQueue: one FIFO per priority, pops from  *)
(* the highest that is not empty, promotions of whole prefixes.            *)
THEOREM Refinement == Spec => ImplementsLaneQueue
<1>1. Init => Abstract!Init
  <2> SUFFICES ASSUME Init PROVE Abstract!Init
    OBVIOUS
  <2>1. lanes = EmptyLanes
    BY InitIInv DEF lanes, Queue, Lists, LaneOf
  <2>2. max_tasks = 0
    BY DEF Init
  <2> QED BY <2>1, <2>2, SameOperators DEF Abstract!Init, lanes
<1>2. IInv /\ [Next]_vars => [Abstract!Next]_<<lanes, max_tasks>>
  BY StepRefines
<1>3. Spec => Abstract!Init /\ [][Abstract!Next]_<<lanes, max_tasks>>
  BY <1>1, <1>2, Inductive, PTL DEF Spec
<1> QED BY <1>3, PTL DEF ImplementsLaneQueue, Abstract!Spec, lanes
=============================================================================
