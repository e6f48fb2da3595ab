------------------------- MODULE PriorityLanesProofs -------------------------
(***************************************************************************)
(* What the lane operations keep and change, for any set of tasks: which   *)
(* tasks are queued, how many, and that no task is queued twice.           *)
(***************************************************************************)
EXTENDS PriorityLanes, TLAPS

(* The size of a queue is a natural number, 0 exactly when all lanes are   *)
(* empty.                                                                  *)
LEMMA SizeFacts ==
    ASSUME NEW q \in Lanes
    PROVE  /\ Size(q) \in Nat
           /\ Size(q) = 0 <=> \A t : ~In(q, t)
           /\ Ready(q) = {} <=> Size(q) = 0
           /\ Size(EmptyLanes) = 0
           /\ EmptyLanes \in Lanes
<1>1. \A p \in Priority : q[p] \in Seq(Task) /\ Len(q[p]) \in Nat
  BY DEF Lanes
<1>2. Priority = {LOW, MEDIUM, HIGH}
  BY DEF Priority, LOW, MEDIUM, HIGH
<1>3. Size(q) \in Nat
  BY DEF Size, Lanes, Priority, LOW, MEDIUM, HIGH
<1>4. Size(q) = 0 <=> \A p \in Priority : Len(q[p]) = 0
  BY DEF Size, Lanes, Priority, LOW, MEDIUM, HIGH
<1>5. (\A p \in Priority : Len(q[p]) = 0) <=> (\A t : ~In(q, t))
  <2>1. ASSUME NEW p \in Priority, Len(q[p]) # 0 PROVE \E t : In(q, t)
    <3>1. 1 \in 1 .. Len(q[p])
      BY <1>1, <2>1
    <3>2. In(q, q[p][1])
      BY <3>1 DEF In
    <3>. QED BY <3>2
  <2>2. ASSUME NEW t, In(q, t) PROVE \E p \in Priority : Len(q[p]) # 0
    BY <1>1, <2>2 DEF In
  <2>. QED BY <2>1, <2>2
<1>6. Ready(q) = {} <=> \A p \in Priority : Len(q[p]) = 0
  BY <1>1 DEF Ready
<1>7. Size(EmptyLanes) = 0 /\ EmptyLanes \in Lanes
  BY <1>2 DEF EmptyLanes, Lanes, Size
<1>. QED BY <1>3, <1>4, <1>5, <1>6, <1>7

(* _pq_insert_locked adds exactly the inserted task. *)
LEMMA InsertFacts ==
    ASSUME NEW q \in Lanes, NEW t \in Task, NEW p \in Priority
    PROVE  /\ Insert(q, t, p) \in Lanes
           /\ Size(Insert(q, t, p)) = Size(q) + 1
           /\ \A u : In(Insert(q, t, p), u) <=> In(q, u) \/ u = t
           /\ NoDup(q) /\ ~In(q, t) => NoDup(Insert(q, t, p))
<1>1. \A x \in Priority : q[x] \in Seq(Task) /\ Len(q[x]) \in Nat
  BY DEF Lanes
<1>0. Insert(q, t, p) \in Lanes
  BY DEF Insert, Lanes
<1>. PICK r \in Lanes : r = Insert(q, t, p)
  BY <1>0
<1>2. r[p] = Append(q[p], t) /\ \A x \in Priority \ {p} : r[x] = q[x]
  BY <1>1 DEF Insert, Lanes
<1>3. /\ Len(r[p]) = Len(q[p]) + 1
      /\ r[p][Len(q[p]) + 1] = t
      /\ \A i \in 1 .. Len(q[p]) : r[p][i] = q[p][i]
  BY <1>1, <1>2
<1>4. \A x \in Priority : r[x] \in Seq(Task) /\ Len(r[x]) \in Nat
  BY DEF Lanes
<1>5. Size(r) = Size(q) + 1
  <2>. USE DEF Size, Lanes, Priority, LOW, MEDIUM, HIGH
  <2>1. CASE p = LOW
    <3>1. Len(r[LOW]) = Len(q[LOW]) + 1 /\ r[MEDIUM] = q[MEDIUM] /\ r[HIGH] = q[HIGH]
      BY <1>2, <1>3, <2>1
    <3>. QED BY <3>1
  <2>2. CASE p = MEDIUM
    <3>1. Len(r[MEDIUM]) = Len(q[MEDIUM]) + 1 /\ r[LOW] = q[LOW] /\ r[HIGH] = q[HIGH]
      BY <1>2, <1>3, <2>2
    <3>. QED BY <3>1
  <2>3. CASE p = HIGH
    <3>1. Len(r[HIGH]) = Len(q[HIGH]) + 1 /\ r[LOW] = q[LOW] /\ r[MEDIUM] = q[MEDIUM]
      BY <1>2, <1>3, <2>3
    <3>. QED BY <3>1
  <2>. QED BY <2>1, <2>2, <2>3
<1>8. ASSUME NEW a \in Priority, NEW i \in 1 .. Len(r[a])
      PROVE  \/ a = p /\ i = Len(q[p]) + 1 /\ r[a][i] = t
             \/ i \in 1 .. Len(q[a]) /\ r[a][i] = q[a][i]
  <2>1. CASE a = p
    BY <1>1, <1>3, <1>4, <2>1
  <2>2. CASE a # p
    BY <1>2, <2>2
  <2>. QED BY <2>1, <2>2
<1>9. ASSUME NEW a \in Priority, NEW i \in 1 .. Len(q[a])
      PROVE  i \in 1 .. Len(r[a]) /\ r[a][i] = q[a][i]
  <2>1. CASE a = p
    BY <1>1, <1>3, <1>4, <2>1
  <2>2. CASE a # p
    BY <1>2, <2>2
  <2>. QED BY <2>1, <2>2
<1>6. ASSUME NEW u PROVE In(r, u) <=> In(q, u) \/ u = t
  <2>1. ASSUME In(q, u) PROVE In(r, u)
    BY <1>9, <2>1 DEF In
  <2>2. In(r, t)
    BY <1>1, <1>3 DEF In
  <2>3. ASSUME In(r, u), u # t PROVE In(q, u)
    BY <1>8, <2>3 DEF In
  <2>. QED BY <2>1, <2>2, <2>3
<1>7. ASSUME NoDup(q), ~In(q, t) PROVE NoDup(r)
  <2>. SUFFICES ASSUME NEW a \in Priority, NEW b \in Priority,
                       NEW i \in 1 .. Len(r[a]), NEW j \in 1 .. Len(r[b]),
                       r[a][i] = r[b][j]
                PROVE  a = b /\ i = j
    BY DEF NoDup
  <2>0. \A x \in Priority : \A k \in 1 .. Len(q[x]) : q[x][k] # t
    BY <1>7 DEF In
  <2>1. \/ a = p /\ i = Len(q[p]) + 1 /\ r[a][i] = t
        \/ i \in 1 .. Len(q[a]) /\ r[a][i] = q[a][i]
    BY <1>8
  <2>2. \/ b = p /\ j = Len(q[p]) + 1 /\ r[b][j] = t
        \/ j \in 1 .. Len(q[b]) /\ r[b][j] = q[b][j]
    BY <1>8
  <2>3. CASE r[a][i] = t
    BY <2>0, <2>1, <2>2, <2>3, Zenon
  <2>4. CASE r[a][i] # t
    <3>1. /\ i \in 1 .. Len(q[a]) /\ j \in 1 .. Len(q[b])
          /\ q[a][i] = q[b][j]
      BY <2>1, <2>2, <2>4, Zenon
    <3>. QED BY <3>1, <1>7 DEF NoDup
  <2>. QED BY <2>3, <2>4
<1>. QED BY <1>5, <1>6, <1>7

(* In a queue without duplicates a task has one place. *)
LEMMA SamePlace ==
    ASSUME NEW q, NoDup(q), NEW a \in Priority, NEW b \in Priority,
           NEW k \in 1 .. Len(q[a]), NEW l \in 1 .. Len(q[b]), q[a][k] = q[b][l]
    PROVE  a = b /\ k = l
BY Zenon DEF NoDup

(* _get_highest_priority returns a lane that is not empty. *)
LEMMA HighestFacts ==
    ASSUME NEW q \in Lanes, Ready(q) # {}
    PROVE  /\ Highest(Ready(q)) \in Priority
           /\ q[Highest(Ready(q))] # << >>
<1>1. Ready(q) \subseteq {0, 1, 2}
  BY DEF Ready, Priority, LOW, HIGH
<1>2. \E p \in Ready(q) : \A r \in Ready(q) : r <= p
  <2>1. CASE 2 \in Ready(q)
    BY <1>1, <2>1
  <2>2. CASE 2 \notin Ready(q) /\ 1 \in Ready(q)
    BY <1>1, <2>2
  <2>3. CASE 2 \notin Ready(q) /\ 1 \notin Ready(q)
    BY <1>1, <2>3
  <2>. QED BY <2>1, <2>2, <2>3
<1>3. Highest(Ready(q)) \in Ready(q)
  BY <1>2 DEF Highest
<1>. QED BY <1>3 DEF Ready

(* A pop removes exactly the task it returns. *)
LEMMA RemoveFacts ==
    ASSUME NEW q \in Lanes, Ready(q) # {}
    PROVE  /\ First(q) \in Task
           /\ In(q, First(q))
           /\ RemoveFirst(q) \in Lanes
           /\ Size(RemoveFirst(q)) = Size(q) - 1
           /\ NoDup(q) => /\ NoDup(RemoveFirst(q))
                          /\ \A u : In(RemoveFirst(q), u) <=> In(q, u) /\ u # First(q)
<1>. PICK p \in Priority : p = Highest(Ready(q)) /\ q[p] # << >>
  BY HighestFacts
<1>1. \A x \in Priority : q[x] \in Seq(Task) /\ Len(q[x]) \in Nat
  BY DEF Lanes
<1>2. Len(q[p]) \in Nat \ {0} /\ First(q) = q[p][1] /\ First(q) \in Task
  BY <1>1 DEF First
<1>3. In(q, First(q))
  BY <1>2 DEF In
<1>4. RemoveFirst(q) \in Lanes
  BY <1>1 DEF RemoveFirst, Lanes
<1>. PICK r \in Lanes : r = RemoveFirst(q)
  BY <1>4
<1>5. \A x \in Priority : r[x] \in Seq(Task) /\ Len(r[x]) \in Nat
  BY DEF Lanes
<1>6. r[p] = Tail(q[p]) /\ \A x \in Priority \ {p} : r[x] = q[x]
  BY <1>1 DEF RemoveFirst, Lanes
<1>7. /\ Len(r[p]) = Len(q[p]) - 1
      /\ \A i \in 1 .. Len(r[p]) : r[p][i] = q[p][i + 1]
  BY <1>1, <1>2, <1>6
<1>8. Size(r) = Size(q) - 1
  <2>. USE DEF Size, Lanes, Priority, LOW, MEDIUM, HIGH
  <2>1. CASE p = LOW
    <3>1. Len(r[LOW]) = Len(q[LOW]) - 1 /\ r[MEDIUM] = q[MEDIUM] /\ r[HIGH] = q[HIGH]
      BY <1>6, <1>7, <2>1
    <3>. QED BY <3>1
  <2>2. CASE p = MEDIUM
    <3>1. Len(r[MEDIUM]) = Len(q[MEDIUM]) - 1 /\ r[LOW] = q[LOW] /\ r[HIGH] = q[HIGH]
      BY <1>6, <1>7, <2>2
    <3>. QED BY <3>1
  <2>3. CASE p = HIGH
    <3>1. Len(r[HIGH]) = Len(q[HIGH]) - 1 /\ r[LOW] = q[LOW] /\ r[MEDIUM] = q[MEDIUM]
      BY <1>6, <1>7, <2>1, <2>3
    <3>. QED BY <3>1 DEF Size, Lanes, Priority, LOW, MEDIUM, HIGH
  <2>. QED BY <2>1, <2>2, <2>3
<1>9. ASSUME NEW a \in Priority, NEW i \in 1 .. Len(r[a])
      PROVE  LET k == IF a = p THEN i + 1 ELSE i
             IN  k \in 1 .. Len(q[a]) /\ r[a][i] = q[a][k] /\ ~(a = p /\ k = 1)
  <2>1. CASE a = p
    BY <1>1, <1>5, <1>7, <2>1
  <2>2. CASE a # p
    BY <1>6, <2>2
  <2>. QED BY <2>1, <2>2
<1>10. ASSUME NEW a \in Priority, NEW k \in 1 .. Len(q[a]), ~(a = p /\ k = 1)
       PROVE  \E i \in 1 .. Len(r[a]) : r[a][i] = q[a][k]
  <2>1. CASE a = p
    <3>1. k - 1 \in 1 .. Len(r[a]) /\ r[a][k - 1] = q[a][(k - 1) + 1]
      BY <1>1, <1>5, <1>7, <1>10, <2>1
    <3>2. (k - 1) + 1 = k
      BY <1>1
    <3>. QED BY <3>1, <3>2
  <2>2. CASE a # p
    BY <1>6, <2>2
  <2>. QED BY <2>1, <2>2
<1>11. ASSUME NoDup(q) PROVE NoDup(r)
  <2>. SUFFICES ASSUME NEW a \in Priority, NEW b \in Priority,
                       NEW i \in 1 .. Len(r[a]), NEW j \in 1 .. Len(r[b]),
                       r[a][i] = r[b][j]
                PROVE  a = b /\ i = j
    BY DEF NoDup
  <2>. PICK k \in 1 .. Len(q[a]) : r[a][i] = q[a][k] /\ k = (IF a = p THEN i + 1 ELSE i)
    BY <1>9
  <2>. PICK l \in 1 .. Len(q[b]) : r[b][j] = q[b][l] /\ l = (IF b = p THEN j + 1 ELSE j)
    BY <1>9
  <2>0. q[a][k] = q[b][l]
    OBVIOUS
  <2>3. a = b /\ k = l
    BY <2>0, <1>11, SamePlace
  <2>2. Len(r[a]) \in Nat
    BY <1>5
  <2>. QED BY <2>2, <2>3
<1>12. ASSUME NoDup(q), NEW u PROVE In(r, u) <=> In(q, u) /\ u # First(q)
  <2>1. ASSUME In(r, u) PROVE In(q, u) /\ u # First(q)
    <3>. PICK a \in Priority : \E i \in 1 .. Len(r[a]) : r[a][i] = u
      BY <2>1 DEF In
    <3>. PICK i \in 1 .. Len(r[a]) : r[a][i] = u
      OBVIOUS
    <3>. PICK k \in 1 .. Len(q[a]) : u = q[a][k] /\ ~(a = p /\ k = 1)
      BY <1>9
    <3>1. 1 \in 1 .. Len(q[p])
      BY <1>2
    <3>. QED BY <3>1, <1>2, <1>12 DEF In, NoDup
  <2>2. ASSUME In(q, u), u # First(q) PROVE In(r, u)
    BY <1>2, <1>10, <2>2 DEF In
  <2>. QED BY <2>1, <2>2
<1>. QED BY <1>2, <1>3, <1>8, <1>11, <1>12

(* The size of the queue is the sum over the three lanes, in any order. *)
LEMMA SizeSplit ==
    ASSUME NEW q \in Lanes, NEW x \in Priority, NEW y \in Priority, NEW z \in Priority,
           x # y, y # z, x # z
    PROVE  Size(q) = Len(q[x]) + Len(q[y]) + Len(q[z])
<1>1. PICK n \in [{0, 1, 2} -> Nat] : \A p \in {0, 1, 2} : n[p] = Len(q[p])
  <2>. DEFINE f == [p \in {0, 1, 2} |-> Len(q[p])]
  <2>1. f \in [{0, 1, 2} -> Nat]
    BY DEF Lanes, Priority, LOW, HIGH
  <2>. QED BY <2>1
<1>2. x \in {0, 1, 2} /\ y \in {0, 1, 2} /\ z \in {0, 1, 2}
  BY DEF Priority, LOW, HIGH
<1>3. Size(q) = n[0] + n[1] + n[2]
  BY <1>1 DEF Size, LOW, MEDIUM, HIGH
<1>4. n[x] + n[y] + n[z] = n[0] + n[1] + n[2]
  BY <1>2
<1>. QED BY <1>1, <1>2, <1>3, <1>4

(* What joining two sequences gives. *)
LEMMA ConcatFacts ==
    ASSUME NEW S, NEW a \in Seq(S), NEW b \in Seq(S)
    PROVE  /\ a \o b \in Seq(S)
           /\ Len(a \o b) = Len(a) + Len(b)
           /\ \A i \in 1 .. Len(a) + Len(b) :
                 (a \o b)[i] = IF i <= Len(a) THEN a[i] ELSE b[i - Len(a)]
OBVIOUS

(* An aging promotion only moves tasks: the same tasks are queued, none    *)
(* twice, and the size is the same.                                        *)
LEMMA PromoteFacts ==
    ASSUME NEW q \in Lanes, NEW src \in Priority, NEW dst \in Priority, src # dst,
           NEW n \in 1 .. Len(q[src])
    PROVE  /\ Promote(q, src, dst, n) \in Lanes
           /\ Size(Promote(q, src, dst, n)) = Size(q)
           /\ \A u : In(Promote(q, src, dst, n), u) <=> In(q, u)
           /\ NoDup(q) => NoDup(Promote(q, src, dst, n))
<1>1. \A x \in Priority : q[x] \in Seq(Task) /\ Len(q[x]) \in Nat
  BY DEF Lanes
<1> DEFINE rest == SubSeq(q[src], n + 1, Len(q[src]))
           front == SubSeq(q[src], 1, n)
<1>2. /\ rest \in Seq(Task) /\ Len(rest) = Len(q[src]) - n
      /\ \A i \in 1 .. Len(rest) : rest[i] = q[src][i + n]
  BY <1>1
<1>3. /\ front \in Seq(Task) /\ Len(front) = n
      /\ \A i \in 1 .. n : front[i] = q[src][i]
  BY <1>1
<1>4. /\ front \o q[dst] \in Seq(Task) /\ Len(front \o q[dst]) = n + Len(q[dst])
      /\ \A i \in 1 .. n + Len(q[dst]) :
            (front \o q[dst])[i] = IF i <= n THEN q[src][i] ELSE q[dst][i - n]
  <2>. HIDE DEF front
  <2>1. q[dst] \in Seq(Task)
    BY <1>1
  <2>2. /\ front \o q[dst] \in Seq(Task) /\ Len(front \o q[dst]) = Len(front) + Len(q[dst])
        /\ \A i \in 1 .. Len(front) + Len(q[dst]) :
              (front \o q[dst])[i] = IF i <= Len(front) THEN front[i] ELSE q[dst][i - Len(front)]
    BY <1>3, <2>1, ConcatFacts
  <2>3. ASSUME NEW i \in 1 .. n + Len(q[dst]), i <= n PROVE front[i] = q[src][i]
    BY <1>1, <1>3, <2>3
  <2>. QED BY <1>3, <2>2, <2>3
<1>5. Promote(q, src, dst, n) \in Lanes
  <2>. HIDE DEF front, rest
  <2>1. Promote(q, src, dst, n) = [q EXCEPT ![src] = rest, ![dst] = front \o q[dst]]
    BY DEF Promote, front, rest, Lanes
  <2>. QED BY <2>1, <1>2, <1>4 DEF Lanes
<1>. PICK r \in Lanes : r = Promote(q, src, dst, n)
  BY <1>5
<1>6. r[src] = rest /\ r[dst] = front \o q[dst] /\ \A x \in Priority \ {src, dst} : r[x] = q[x]
  BY DEF Promote, Lanes
<1>. HIDE DEF front, rest
<1>7. /\ Len(r[src]) = Len(q[src]) - n
      /\ \A i \in 1 .. Len(r[src]) : r[src][i] = q[src][i + n]
      /\ Len(r[dst]) = n + Len(q[dst])
      /\ \A i \in 1 .. Len(r[dst]) : r[dst][i] = IF i <= n THEN q[src][i] ELSE q[dst][i - n]
  BY <1>2, <1>4, <1>6
<1>8. Size(r) = Size(q)
  <2>. PICK z \in Priority : z # src /\ z # dst
    BY DEF Priority, LOW, HIGH
  <2>1. Size(q) = Len(q[src]) + Len(q[dst]) + Len(q[z])
    BY SizeSplit
  <2>2. Size(r) = Len(r[src]) + Len(r[dst]) + Len(r[z])
    BY SizeSplit
  <2>3. r[z] = q[z]
    BY <1>6
  <2>. PICK f \in [Priority -> Nat] : \A x \in Priority : f[x] = Len(q[x])
    <3>1. [x \in Priority |-> Len(q[x])] \in [Priority -> Nat]
      BY <1>1
    <3>. QED BY <3>1
  <2>4. Size(q) = f[src] + f[dst] + f[z]
    BY <2>1
  <2>5. Size(r) = (f[src] - n) + (n + f[dst]) + f[z]
    BY <1>7, <2>2, <2>3
  <2>6. n \in 1 .. f[src]
    OBVIOUS
  <2>7. ASSUME NEW k \in 1 .. f[src]
        PROVE  (f[src] - k) + (k + f[dst]) + f[z] = f[src] + f[dst] + f[z]
    OBVIOUS
  <2>. QED BY <2>4, <2>5, <2>6, <2>7
<1>. DEFINE lane(a, i) == IF a = dst /\ i <= n THEN src ELSE a
            place(a, i) == IF a = src THEN i + n
                           ELSE IF a = dst /\ i > n THEN i - n ELSE i
<1>9. ASSUME NEW a \in Priority, NEW i \in 1 .. Len(r[a])
      PROVE  /\ lane(a, i) \in Priority
             /\ place(a, i) \in 1 .. Len(q[lane(a, i)])
             /\ r[a][i] = q[lane(a, i)][place(a, i)]
  <2>1. CASE a = src
    BY <1>1, <1>7, <2>1
  <2>2. CASE a = dst /\ i <= n
    BY <1>1, <1>7, <2>2
  <2>3. CASE a = dst /\ i > n
    BY <1>1, <1>7, <2>3
  <2>4. CASE a # src /\ a # dst
    BY <1>6, <2>4
  <2>. QED BY <2>1, <2>2, <2>3, <2>4
<1>10. ASSUME NEW a \in Priority, NEW k \in 1 .. Len(q[a])
       PROVE  In(r, q[a][k])
  <2>1. CASE a = src /\ k <= n
    <3>1. k \in 1 .. Len(r[dst]) /\ r[dst][k] = q[a][k]
      BY <1>1, <1>7, <2>1
    <3>. QED BY <3>1 DEF In
  <2>2. CASE a = src /\ k > n
    <3>1. k - n \in 1 .. Len(r[src]) /\ r[src][k - n] = q[src][(k - n) + n]
      BY <1>1, <1>7, <2>2
    <3>2. (k - n) + n = k
      BY <1>1
    <3>. QED BY <3>1, <3>2, <2>2 DEF In
  <2>3. CASE a = dst
    <3>0. Len(q[dst]) \in Nat /\ k \in 1 .. Len(q[dst]) /\ n \in Nat \ {0}
      BY <1>1, <2>3
    <3>1. k + n \in 1 .. Len(r[dst]) /\ ~(k + n <= n)
      BY <1>7, <3>0
    <3>3. r[dst][k + n] = q[dst][(k + n) - n]
      BY <1>7, <3>1
    <3>2. (k + n) - n = k
      BY <1>1
    <3>. QED BY <3>1, <3>2, <3>3, <2>3 DEF In
  <2>4. CASE a # src /\ a # dst
    BY <1>6, <2>4 DEF In
  <2>. QED BY <1>1, <2>1, <2>2, <2>3, <2>4
<1>11. ASSUME NEW u PROVE In(r, u) <=> In(q, u)
  <2>1. ASSUME In(r, u) PROVE In(q, u)
    <3>. PICK a \in Priority : \E i \in 1 .. Len(r[a]) : r[a][i] = u
      BY <2>1 DEF In
    <3>. PICK i \in 1 .. Len(r[a]) : r[a][i] = u
      OBVIOUS
    <3>. HIDE DEF lane, place
    <3>. QED BY <1>9, Zenon DEF In
  <2>2. ASSUME In(q, u) PROVE In(r, u)
    <3>. PICK a \in Priority : \E k \in 1 .. Len(q[a]) : q[a][k] = u
      BY <2>2 DEF In
    <3>. QED BY <1>10
  <2>. QED BY <2>1, <2>2
<1>12. ASSUME NoDup(q) PROVE NoDup(r)
  <2>. SUFFICES ASSUME NEW a \in Priority, NEW b \in Priority,
                       NEW i \in 1 .. Len(r[a]), NEW j \in 1 .. Len(r[b]),
                       r[a][i] = r[b][j]
                PROVE  a = b /\ i = j
    BY DEF NoDup
  <2>. HIDE DEF lane, place
  <2>1. lane(a, i) = lane(b, j) /\ place(a, i) = place(b, j)
    <3>0. ASSUME NEW e \in Priority, NEW m \in 1 .. Len(r[e])
          PROVE  \E x, k : /\ x \in Priority /\ k \in 1 .. Len(q[x])
                           /\ x = lane(e, m) /\ k = place(e, m)
                           /\ r[e][m] = q[x][k]
      <4>1. /\ lane(e, m) \in Priority
            /\ place(e, m) \in 1 .. Len(q[lane(e, m)])
            /\ r[e][m] = q[lane(e, m)][place(e, m)]
        BY <1>9
      <4>. WITNESS lane(e, m), place(e, m)
      <4>. QED BY <4>1
    <3>1. PICK x, k : /\ x \in Priority /\ k \in 1 .. Len(q[x])
                      /\ x = lane(a, i) /\ k = place(a, i)
                      /\ r[a][i] = q[x][k]
      BY <3>0
    <3>2. PICK y, l : /\ y \in Priority /\ l \in 1 .. Len(q[y])
                      /\ y = lane(b, j) /\ l = place(b, j)
                      /\ r[b][j] = q[y][l]
      BY <3>0
    <3>3. q[x][k] = q[y][l]
      BY <3>1, <3>2
    <3>4. x = y /\ k = l
      BY <3>1, <3>2, <3>3, <1>12 DEF NoDup
    <3>. QED BY <3>1, <3>2, <3>4
  <2>2. Len(r[a]) \in Nat /\ Len(r[b]) \in Nat /\ n \in Nat
    BY <1>1 DEF Lanes
  <2>. QED BY <2>1, <2>2 DEF lane, place
<1>. QED BY <1>8, <1>11, <1>12
=============================================================================
