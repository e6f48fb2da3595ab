--------------------------- MODULE ServerClientProofs --------------------------
(***************************************************************************)
(* The admin clients of DemoServer, for any scenarios, connections,        *)
(* subscribers and monitor threads: what sse_send_all does to the table,   *)
(* who owns which descriptor, what a round of the broadcaster sends; and   *)
(* with that the types of all variables.                                   *)
(***************************************************************************)
EXTENDS ServerProofs, SequenceTheorems, WellFoundedInduction

(* The provers a leaf is given to, in turn. *)
USE SMTT(10), Zenon, Z3T(20)

-------------------------------------------------------------------------------
(* The walk of sse_send_all *)

(* A set of naturals that is not empty has a least element: what takes the *)
(* place of induction over the steps of the walk.                          *)
LEMMA Least ==
    ASSUME NEW S \in SUBSET Nat, S # {}
    PROVE  \E m \in S : \A k \in S : m <= k
<1> DEFINE R == OpToRel(<, Nat)
<1>1. PICK m \in S : \A k \in S : ~(<<k, m>> \in R)
    BY WFMin, NatLessThanWellFounded
<1>2. ASSUME NEW k \in S
      PROVE  m <= k
  <2>1. R = {ss \in Nat \X Nat : ss[1] < ss[2]}
      BY DEF OpToRel
  <2>2. ~(k < m)
      BY <1>1, <2>1
  <2> QED
      BY <2>2
<1> QED
    BY <1>2

(* One step of the walk, and what it means that f is the walk up to k. *)
Start == [fds |-> table, n |-> 0, wrote |-> {}, closed |-> {}]

Stride(w, i, dead) ==
    IF w.fds[i] \in dead
    THEN [fds |-> w.fds, n |-> w.n, wrote |-> w.wrote, closed |-> w.closed \cup {w.fds[i]}]
    ELSE [fds |-> [w.fds EXCEPT ![w.n + 1] = w.fds[i]], n |-> w.n + 1,
          wrote |-> w.wrote \cup {w.fds[i]}, closed |-> w.closed]

Walked(f, k, dead) ==
    \A i \in 0 .. k : f[i] = (IF i = 0 THEN Start ELSE Stride(f[i - 1], i, dead))

LEMMA WalkExists ==
    ASSUME NEW dead, NEW m \in Nat
    PROVE  \E f : Walked(f, m, dead)
<1> DEFINE B == {k \in Nat : ~\E f : Walked(f, k, dead)}
<1>1. SUFFICES ASSUME B # {} PROVE FALSE
    OBVIOUS
<1>2. PICK k \in B : \A j \in B : k <= j
    BY <1>1, Least
<1>3. CASE k = 0
  <2>1. Walked([i \in {0} |-> Start], 0, dead)
      BY DEF Walked
  <2> QED
      BY <1>2, <1>3, <2>1
<1>4. CASE k # 0
  <2>1. k - 1 \in Nat /\ k - 1 \notin B
      BY <1>2, <1>4
  <2>2. PICK f : Walked(f, k - 1, dead)
      BY <2>1
  <2> DEFINE g == [i \in 0 .. k |-> IF i < k THEN f[i] ELSE Stride(f[k - 1], k, dead)]
  <2>3. ASSUME NEW i \in 0 .. k
        PROVE  g[i] = (IF i = 0 THEN Start ELSE Stride(g[i - 1], i, dead))
    <3>1. CASE i = k
        BY <1>4, <2>1, <3>1
    <3>2. CASE i # k
      <4>1. i \in 0 .. k - 1 /\ g[i] = f[i] /\ (i # 0 => g[i - 1] = f[i - 1])
          BY <3>2
      <4> HIDE DEF g
      <4> QED
          BY <2>2, <4>1 DEF Walked
    <3> QED
        BY <3>1, <3>2
  <2> HIDE DEF g
  <2>4. Walked(g, k, dead)
      BY <2>3 DEF Walked
  <2> QED
      BY <1>2, <2>4
<1> QED
    BY <1>3, <1>4

LEMMA SendWalkSteps ==
    ASSUME NEW dead, table \in Seq(Subs)
    PROVE  \E f : Walked(f, Len(table), dead) /\ SendWalk(dead) = f[Len(table)]
<1> DEFINE N == Len(table)
           step(f, i) == IF i = 0 THEN [fds |-> table, n |-> 0, wrote |-> {}, closed |-> {}]
                         ELSE LET w == f[i - 1] IN
                              IF w.fds[i] \in dead
                              THEN [fds |-> w.fds, n |-> w.n, wrote |-> w.wrote,
                                    closed |-> w.closed \cup {w.fds[i]}]
                              ELSE [fds |-> [w.fds EXCEPT ![w.n + 1] = w.fds[i]], n |-> w.n + 1,
                                    wrote |-> w.wrote \cup {w.fds[i]}, closed |-> w.closed]
           eqn(f) == f = [i \in 0 .. N |-> step(f, i)]
           walk == CHOOSE f : eqn(f)
<1>1. PICK f : Walked(f, N, dead)
    BY WalkExists
<1> DEFINE g == [i \in 0 .. N |-> f[i]]
<1>2. eqn(g)
  <2>1. ASSUME NEW i \in 0 .. N
        PROVE  f[i] = step(g, i)
    <3>1. f[i] = (IF i = 0 THEN Start ELSE Stride(f[i - 1], i, dead))
        BY <1>1 DEF Walked
    <3>2. i # 0 => g[i - 1] = f[i - 1]
        OBVIOUS
    <3> QED
        BY <3>1, <3>2 DEF Stride, Start
  <2> HIDE DEF step
  <2> QED
      BY <2>1
<1>3. eqn(walk)
    BY <1>2, Zenon
<1>4. SendWalk(dead) = walk[N]
    BY Zenon DEF SendWalk, walk
<1> HIDE DEF walk
<1>5. Walked(walk, N, dead)
  <2>1. ASSUME NEW i \in 0 .. N
        PROVE  walk[i] = step(walk, i)
    <3> HIDE DEF step
    <3> QED
        BY <1>3
  <2> QED
      BY <2>1 DEF Walked, Stride, Start
<1> QED
    BY <1>4, <1>5

(* After i steps the first n entries are the clients kept among the first  *)
(* i, in their order, and the entries from i + 1 on are still the old ones;*)
(* each of the first i clients has been written to or closed.              *)
Distinct(fds) == \A i, j \in 1 .. Len(fds) : fds[i] = fds[j] => i = j

Served(w, i, dead) ==
    /\ w.wrote = {table[p] : p \in 1 .. i} \ dead
    /\ w.closed = {table[p] : p \in 1 .. i} \cap dead

Kept(w, i, dead) ==
    /\ w.n \in 0 .. i /\ w.fds \in [1 .. Len(table) -> Subs]
    /\ \A j \in i + 1 .. Len(table) : w.fds[j] = table[j]
    /\ \A a \in 1 .. w.n : w.fds[a] \notin dead /\ \E p \in 1 .. i : w.fds[a] = table[p]
    /\ \A p \in 1 .. i : table[p] \notin dead => \E a \in 1 .. w.n : w.fds[a] = table[p]
    /\ \A a, b \in 1 .. w.n : \A p, q \in 1 .. i :
          a < b /\ w.fds[a] = table[p] /\ w.fds[b] = table[q] => p < q
    /\ Served(w, i, dead)

LEMMA StrideServes ==
    ASSUME NEW dead, NEW w, NEW i \in Nat \ {0}, w.fds[i] = table[i], Served(w, i - 1, dead)
    PROVE  Served(Stride(w, i, dead), i, dead)
<1> DEFINE Old == {table[p] : p \in 1 .. i - 1}
           New == {table[p] : p \in 1 .. i}
           v == Stride(w, i, dead)
<1>1. New = Old \cup {table[i]}
  <2>1. 1 .. i = (1 .. i - 1) \cup {i}
      OBVIOUS
  <2> QED
      BY <2>1
<1>2. w.wrote = Old \ dead /\ w.closed = Old \cap dead
    BY DEF Served
<1>3. /\ table[i] \in dead => v.wrote = w.wrote /\ v.closed = w.closed \cup {table[i]}
      /\ table[i] \notin dead => v.wrote = w.wrote \cup {table[i]} /\ v.closed = w.closed
    BY DEF Stride
<1> HIDE DEF Old, New, v
<1>4. v.wrote = New \ dead /\ v.closed = New \cap dead
    BY <1>1, <1>2, <1>3
<1> QED
    BY <1>4 DEF Served, New, v

LEMMA StrideKeeps ==
    ASSUME table \in Seq(Subs), Distinct(table), NEW dead, NEW w, NEW i \in 1 .. Len(table),
           Kept(w, i - 1, dead)
    PROVE  Kept(Stride(w, i, dead), i, dead)
<1> DEFINE N == Len(table)
<1>t. /\ N \in Nat /\ i \in 1 .. N /\ i - 1 \in 0 .. N
      /\ \A p \in 1 .. N : table[p] \in Subs
      /\ \A p, q \in 1 .. N : table[p] = table[q] => p = q
    BY DEF Distinct
<1>1. w.n \in 0 .. i - 1 /\ w.fds \in [1 .. N -> Subs] /\ w.n + 1 \in 1 .. i
    BY <1>t DEF Kept
<1>2. \A j \in i .. N : w.fds[j] = table[j]
    BY <1>t DEF Kept
<1>3. \A a \in 1 .. w.n : w.fds[a] \notin dead /\ \E p \in 1 .. i - 1 : w.fds[a] = table[p]
    BY DEF Kept
<1>4. \A p \in 1 .. i - 1 : table[p] \notin dead => \E a \in 1 .. w.n : w.fds[a] = table[p]
    BY DEF Kept
<1>5. \A a, b \in 1 .. w.n : \A p, q \in 1 .. i - 1 :
          a < b /\ w.fds[a] = table[p] /\ w.fds[b] = table[q] => p < q
    BY DEF Kept
<1>6. ASSUME NEW a \in 1 .. w.n, NEW p \in 1 .. i, w.fds[a] = table[p]
      PROVE  p \in 1 .. i - 1
  <2>1. PICK q \in 1 .. i - 1 : w.fds[a] = table[q]
      BY <1>3
  <2>2. p \in 1 .. N /\ q \in 1 .. N
      BY <1>t
  <2> QED
      BY <1>6, <1>t, <2>1, <2>2
<1>7. w.fds[i] = table[i]
    BY <1>t, <1>2
<1>s. Served(Stride(w, i, dead), i, dead)
  <2>1. i \in Nat \ {0} /\ Served(w, i - 1, dead)
      BY <1>t DEF Kept
  <2> QED
      BY <1>7, <2>1, StrideServes
<1>8. CASE w.fds[i] \in dead
  <2> DEFINE v == Stride(w, i, dead)
  <2>1. v.fds = w.fds /\ v.n = w.n
      BY <1>8 DEF Stride
  <2>2. \A j \in i + 1 .. N : w.fds[j] = table[j]
      BY <1>t, <1>2
  <2>3. \A a \in 1 .. w.n : w.fds[a] \notin dead /\ \E p \in 1 .. i : w.fds[a] = table[p]
      BY <1>t, <1>3
  <2>4. \A p \in 1 .. i : table[p] \notin dead => \E a \in 1 .. w.n : w.fds[a] = table[p]
      BY <1>t, <1>4, <1>7, <1>8
  <2>5. \A a, b \in 1 .. w.n : \A p, q \in 1 .. i :
            a < b /\ w.fds[a] = table[p] /\ w.fds[b] = table[q] => p < q
      BY <1>5, <1>6
  <2>6. w.n \in 0 .. i
      BY <1>t, <1>1
  <2> QED
      BY <1>1, <1>s, <2>1, <2>2, <2>3, <2>4, <2>5, <2>6 DEF Kept
<1>9. CASE w.fds[i] \notin dead
  <2> DEFINE fds == [w.fds EXCEPT ![w.n + 1] = w.fds[i]]
             n == w.n + 1
             v == Stride(w, i, dead)
  <2>1. v.fds = fds /\ v.n = n
      BY <1>9 DEF Stride
  <2>2. /\ fds \in [1 .. N -> Subs] /\ n \in 1 .. i /\ fds[n] = table[i]
        /\ \A a \in 1 .. w.n : fds[a] = w.fds[a]
        /\ \A j \in i + 1 .. N : fds[j] = table[j]
      BY <1>t, <1>1, <1>2, <1>7
  <2>3. \A a \in 1 .. n : a \in 1 .. w.n \/ a = n
      BY <1>1
  <2> HIDE DEF fds, n, v
  <2>n. n = w.n + 1 /\ w.n \in Nat
      BY <1>1 DEF n
  <2>4. \A a \in 1 .. n : fds[a] \notin dead /\ \E p \in 1 .. i : fds[a] = table[p]
    <3>1. ASSUME NEW a \in 1 .. w.n
          PROVE  fds[a] \notin dead /\ \E p \in 1 .. i : fds[a] = table[p]
        BY <1>t, <1>3, <2>2
    <3>2. fds[n] \notin dead /\ fds[n] = table[i] /\ i \in 1 .. i
        BY <1>t, <1>7, <1>9, <2>2
    <3> QED
        BY <2>3, <3>1, <3>2
  <2>5. ASSUME NEW p \in 1 .. i, table[p] \notin dead
        PROVE  \E a \in 1 .. n : fds[a] = table[p]
    <3>1. CASE p = i
      <4>1. n \in 1 .. n
          BY <2>n
      <4> QED
          BY <2>2, <3>1, <4>1
    <3>2. CASE p # i
      <4>1. PICK a \in 1 .. w.n : w.fds[a] = table[p]
          BY <1>t, <1>4, <2>5, <3>2
      <4>2. a \in 1 .. n /\ fds[a] = table[p]
          BY <2>2, <2>n, <4>1
      <4> QED
          BY <4>2
    <3> QED
        BY <3>1, <3>2
  <2>6. ASSUME NEW a \in 1 .. n, NEW b \in 1 .. n, NEW p \in 1 .. i, NEW q \in 1 .. i,
               a < b, fds[a] = table[p], fds[b] = table[q]
        PROVE  p < q
    <3>1. a \in 1 .. w.n /\ fds[a] = w.fds[a]
        BY <2>2, <2>6, <2>n
    <3>2. p \in 1 .. i - 1
        BY <1>6, <2>6, <3>1
    <3>3. CASE b = n
      <4>1. table[q] = table[i] /\ q \in 1 .. N /\ i \in 1 .. N
          BY <1>t, <2>2, <2>6, <3>3
      <4>2. q = i
          BY <1>t, <4>1
      <4> QED
          BY <1>t, <3>2, <4>2
    <3>4. CASE b # n
      <4>1. b \in 1 .. w.n /\ fds[b] = w.fds[b]
          BY <2>2, <2>3, <3>4
      <4>2. q \in 1 .. i - 1
          BY <1>6, <2>6, <4>1
      <4> QED
          BY <1>5, <2>6, <3>1, <3>2, <4>1, <4>2
    <3> QED
        BY <3>3, <3>4
  <2>7. Kept(v, i, dead)
    <3>1. n \in 0 .. i
        BY <1>t, <2>2
    <3> QED
        BY <1>s, <2>1, <2>2, <2>4, <2>5, <2>6, <3>1 DEF Kept, v
  <2> QED
      BY <2>7 DEF v
<1> QED
    BY <1>8, <1>9

LEMMA SendWalkKeeps ==
    ASSUME table \in Seq(Subs), Distinct(table), NEW dead
    PROVE  Kept(SendWalk(dead), Len(table), dead)
<1> DEFINE N == Len(table)
<1>1. PICK f : Walked(f, N, dead) /\ SendWalk(dead) = f[N]
    BY SendWalkSteps
<1>2. N \in Nat
    OBVIOUS
<1> DEFINE B == {i \in 0 .. N : ~Kept(f[i], i, dead)}
<1>3. B = {}
  <2>1. SUFFICES ASSUME B # {} PROVE FALSE
      OBVIOUS
  <2>2. PICK i \in B : \A j \in B : i <= j
    <3>1. B \in SUBSET Nat
        BY <1>2
    <3> QED
        BY <2>1, <3>1, Least
  <2>3. i \in 0 .. N /\ ~Kept(f[i], i, dead)
      OBVIOUS
  <2>4. CASE i = 0
    <3>1. f[0] = Start
        BY <1>1, <1>2 DEF Walked
    <3>2. f[0].fds = table /\ f[0].n = 0 /\ f[0].wrote = {} /\ f[0].closed = {}
        BY <3>1 DEF Start
    <3>3. Served(f[0], 0, dead)
        BY <3>2 DEF Served
    <3>4. Kept(f[0], 0, dead)
        BY <1>2, <3>2, <3>3 DEF Kept
    <3> QED
        BY <2>3, <2>4, <3>4
  <2>5. CASE i # 0
    <3>1. i \in 1 .. N /\ i - 1 \in 0 .. N /\ i - 1 \notin B
        BY <1>2, <2>2, <2>3, <2>5
    <3>2. Kept(f[i - 1], i - 1, dead)
        BY <3>1
    <3>3. f[i] = Stride(f[i - 1], i, dead)
        BY <1>1, <2>3, <2>5 DEF Walked
    <3> HIDE DEF B
    <3>4. Kept(f[i], i, dead)
        BY <3>1, <3>2, <3>3, StrideKeeps
    <3> QED
        BY <2>3, <3>4
  <2> QED
      BY <2>4, <2>5
<1>4. N \in 0 .. N /\ N \notin B
    BY <1>2, <1>3
<1> QED
    BY <1>1, <1>4
Prefixed(new, fds, n, S) ==
    new \in Seq(S) /\ Len(new) = n /\ \A i \in 1 .. n : new[i] = fds[i]

LEMMA Prefix ==
    ASSUME NEW S, NEW fds, NEW n \in Nat, \A i \in 1 .. n : fds[i] \in S
    PROVE  Prefixed(SubSeq(fds, 1, n), fds, n, S)
<1>1. /\ SubSeq(fds, 1, n) \in Seq(S)
      /\ Len(SubSeq(fds, 1, n)) = IF 1 <= n THEN n - 1 + 1 ELSE 0
      /\ \A i \in 1 .. n - 1 + 1 : SubSeq(fds, 1, n)[i] = fds[1 + i - 1]
    BY SubSeqProperties
<1> DEFINE new == SubSeq(fds, 1, n)
<1> HIDE DEF new
<1>2. /\ new \in Seq(S) /\ Len(new) = IF 1 <= n THEN n - 1 + 1 ELSE 0
      /\ \A i \in 1 .. n - 1 + 1 : new[i] = fds[1 + i - 1]
    BY <1>1 DEF new
<1>3. Prefixed(new, fds, n, S)
    BY <1>2 DEF Prefixed
<1> QED
    BY <1>3 DEF new

Entries(fds) == {fds[i] : i \in 1 .. Len(fds)}

(* What sse_send_all leaves in the table: the clients that are not dropped *)
(* each in one place and in the order they had; and whom it has written to *)
(* and closed.                                                             *)
LEMMA SendWalkTable ==
    ASSUME table \in Seq(Subs), Distinct(table), NEW dead,
           NEW new, new = SubSeq(SendWalk(dead).fds, 1, SendWalk(dead).n)
    PROVE  /\ new \in Seq(Subs) /\ Distinct(new)
           /\ Entries(new) = Entries(table) \ dead
           /\ \A s, t \in Entries(table) \ dead : Before(table, s, t) => Before(new, s, t)
           /\ SendWalk(dead).wrote = Entries(table) \ dead
           /\ SendWalk(dead).closed = Entries(table) \cap dead
<1> DEFINE w == SendWalk(dead)
           N == Len(table)
           n == w.n
           fds == w.fds
<1>1. Kept(w, N, dead)
    BY SendWalkKeeps
<1> HIDE DEF w
<1>t. N \in Nat /\ n \in 0 .. N /\ fds \in [1 .. N -> Subs]
    BY <1>1 DEF Kept
<1>2. \A a \in 1 .. n : fds[a] \notin dead /\ \E p \in 1 .. N : fds[a] = table[p]
    BY <1>1 DEF Kept
<1>3. \A p \in 1 .. N : table[p] \notin dead => \E a \in 1 .. n : fds[a] = table[p]
    BY <1>1 DEF Kept
<1>4. \A a, b \in 1 .. n : \A p, q \in 1 .. N :
          a < b /\ fds[a] = table[p] /\ fds[b] = table[q] => p < q
    BY <1>1 DEF Kept
<1>5. new = SubSeq(fds, 1, n)
    BY DEF w
<1>11. SendWalk(dead).wrote = Entries(table) \ dead /\ SendWalk(dead).closed = Entries(table) \cap dead
    BY <1>1 DEF Kept, Served, Entries, w
<1> HIDE DEF n, fds, N
<1>6. new \in Seq(Subs) /\ Len(new) = n /\ \A a \in 1 .. n : new[a] = fds[a]
  <2>1. n \in Nat /\ \A a \in 1 .. n : fds[a] \in Subs
      BY <1>t
  <2>2. Prefixed(new, fds, n, Subs)
      BY <1>5, <2>1, Prefix
  <2> QED
      BY <2>2 DEF Prefixed
<1>7. ASSUME NEW a \in 1 .. n, NEW b \in 1 .. n, a < b, fds[a] = fds[b]
      PROVE  FALSE
  <2>1. PICK p \in 1 .. N : fds[a] = table[p]
      BY <1>2
  <2>2. p < p
      BY <1>4, <1>7, <2>1
  <2> QED
      BY <1>t, <2>2
<1>8. Distinct(new)
  <2> SUFFICES ASSUME NEW a \in 1 .. n, NEW b \in 1 .. n, new[a] = new[b]
               PROVE  a = b
      BY <1>6 DEF Distinct
  <2>1. fds[a] = fds[b] /\ a \in Nat /\ b \in Nat
      BY <1>t, <1>6
  <2>2. ~(a < b) /\ ~(b < a)
      BY <1>7, <2>1
  <2> QED
      BY <2>1, <2>2
<1>9. Entries(new) = Entries(table) \ dead
  <2>1. ASSUME NEW x \in Entries(new)
        PROVE  x \in Entries(table) \ dead
    <3>1. PICK a \in 1 .. Len(new) : x = new[a]
        BY <2>1 DEF Entries
    <3>2. a \in 1 .. n /\ x = fds[a]
        BY <1>6, <3>1
    <3> QED
        BY <1>2, <3>2 DEF Entries, N
  <2>2. ASSUME NEW x \in Entries(table) \ dead
        PROVE  x \in Entries(new)
    <3>1. PICK p \in 1 .. N : x = table[p]
        BY <2>2 DEF Entries, N
    <3>2. PICK a \in 1 .. n : fds[a] = x
        BY <1>3, <2>2, <3>1
    <3> QED
        BY <1>6, <3>2 DEF Entries
  <2> QED
      BY <2>1, <2>2
<1>10. ASSUME NEW s \in Entries(table) \ dead, NEW t \in Entries(table) \ dead,
              Before(table, s, t)
       PROVE  Before(new, s, t)
  <2>1. PICK i \in 1 .. N : \E j \in i .. N : table[i] = s /\ table[j] = t
      BY <1>10 DEF Before, N
  <2>2. PICK j \in i .. N : table[i] = s /\ table[j] = t
      BY <2>1
  <2>3. j \in 1 .. N /\ i <= j
      BY <1>t, <2>2
  <2>4. PICK a \in 1 .. n : fds[a] = s
      BY <1>3, <2>2
  <2>5. PICK b \in 1 .. n : fds[b] = t
      BY <1>3, <2>2, <2>3
  <2>6. ~(b < a)
      BY <1>t, <1>4, <2>2, <2>3, <2>4, <2>5
  <2>7. b \in a .. n
      BY <1>t, <2>6
  <2> QED
      BY <1>6, <2>4, <2>5, <2>7 DEF Before
<1> QED
    BY <1>6, <1>8, <1>9, <1>10, <1>11
-------------------------------------------------------------------------------
(* The admin clients: who owns their descriptors *)

(* Where the admin listener has a client in hand. *)
AtClient == SnapPC \cup {"recv", "frame", "register"}

Owned(f, c, fds) == \A s \in Subs : f[s] = "open" <=> (s = c \/ s \in Entries(fds))

Clients ==
    /\ table \in Seq(Subs) /\ Distinct(table)
    /\ fd \in [Subs -> {"none", "open", "closed"}] /\ gone \subseteq Subs
    /\ IF pc["admin"] \in AtClient THEN cli \in Subs ELSE cli = None
    /\ Owned(fd, cli, table)
    /\ cli \notin Entries(table)
    /\ pc["main"] \in BeforeAdmin \cup Closed => table = <<>>

LEMMA NoClient == ASSUME table \in Seq(Subs) PROVE None \notin Subs /\ None \notin Entries(table)
<1>1. None \notin Subs
    BY ServerAssumption
<1> QED
    BY <1>1 DEF Entries

LEMMA InitClients == Init => Clients
<1> SUFFICES ASSUME Init PROVE Clients
    OBVIOUS
<1>1. /\ pc["admin"] = "off" /\ cli = None /\ table = <<>> /\ gone = {}
      /\ fd = [s \in Subs |-> "none"]
    BY DEF Init, Threads
<1>2. Entries(table) = {} /\ Distinct(table) /\ table \in Seq(Subs)
    BY <1>1 DEF Entries, Distinct
<1>3. pc["admin"] \notin AtClient
    BY <1>1 DEF AtClient, SnapPC
<1>4. Owned(fd, cli, table)
    BY <1>1, <1>2, NoClient DEF Owned
<1> QED
    BY <1>1, <1>2, <1>3, <1>4 DEF Clients

LEMMA FrameClients ==
    ASSUME Clients, UNCHANGED <<table, fd, cli>>, gone' \subseteq Subs,
           pc'["admin"] \in AtClient <=> pc["admin"] \in AtClient,
           pc'["main"] \in BeforeAdmin \cup Closed => pc["main"] \in BeforeAdmin \cup Closed
    PROVE  Clients'
<1>1. Owned(fd, cli, table)' /\ Distinct(table)' /\ (cli \notin Entries(table))'
    BY DEF Clients, Owned, Distinct, Entries
<1> QED
    BY <1>1 DEF Clients

(* main empties the table when everybody else has returned. *)
LEMMA CloseSseClients ==
    ASSUME Control, Clients, MainCloseSse
    PROVE  Clients'
<1>t. pc \in [Threads -> ThreadPC]
    BY DEF Control
<1>1. /\ pc["main"] = "sse_close" /\ pc'["admin"] = pc["admin"]
      /\ fd' = [s \in Subs |-> IF s \in Entries(table) THEN "closed" ELSE fd[s]]
      /\ table' = <<>> /\ cli' = cli /\ gone' = gone
    BY <1>t DEF MainCloseSse, Go, Threads, Registered, Entries, adminVars
<1>2. pc["admin"] \notin AtClient
    BY <1>1 DEF Control, Order, Over, AfterAdmin, AfterKey, AfterBcast, AtClient, SnapPC
<1>3. cli' = None /\ Entries(table)' = {} /\ Distinct(table)' /\ table' \in Seq(Subs)
    BY <1>1, <1>2 DEF Clients, Entries, Distinct
<1>4. fd' \in [Subs -> {"none", "open", "closed"}]
    BY <1>1 DEF Clients
<1>5. Owned(fd, cli, table)'
  <2> SUFFICES ASSUME NEW s \in Subs PROVE fd'[s] # "open" /\ s # cli' /\ s \notin Entries(table')
      BY DEF Owned
  <2>1. s # None /\ (fd[s] = "open" <=> s \in Entries(table))
      BY <1>2, ServerAssumption DEF Clients, Owned
  <2>2. fd'[s] # "open"
      BY <1>1, <2>1
  <2> QED
      BY <1>3, <2>1, <2>2
<1> QED
    BY <1>1, <1>2, <1>3, <1>4, <1>5 DEF Clients

LEMMA MainClients ==
    ASSUME Control, Clients, Forward, MainActs
    PROVE  Clients'
<1>1. CASE MainCloseSse
    BY <1>1, CloseSseClients
<1>2. CASE ~MainCloseSse
  <2>1. UNCHANGED sseVars /\ cli' = cli
      BY <1>2, MainEffect DEF sseVars, adminVars
  <2>t. pc \in [Threads -> ThreadPC] /\ (pc["main"] = "s_admin" => pc["admin"] = "off")
      BY DEF Control, Order, BeforeAdmin
  <2>2. pc["main"] = "sse_close" => pc'["main"] = "sse_close"
    <3>1. CASE MainStartAdmin \/ MainNotify \/ MainWakeBroadcaster
        BY <3>1 DEF MainStartAdmin, MainNotify, MainWakeBroadcaster
    <3>2. CASE MainStarts("key") \/ MainStarts("bcast")
        BY <3>2 DEF MainStarts, MainStart
    <3>3. CASE MainGoes \/ pc' = pc
        BY <3>3 DEF MainGoes, Go
    <3> QED
        BY <1>2, <3>1, <3>2, <3>3, MainPath
  <2>3. pc'["admin"] = pc["admin"] \/ (pc["admin"] = "off" /\ pc'["admin"] = "top")
    <3>2. CASE MainStartAdmin
        BY <2>t, <3>2 DEF MainStartAdmin, Threads
    <3>3. CASE MainStarts("key") \/ MainStarts("bcast")
        BY <2>t, <3>3 DEF MainStarts, MainStart, Threads
    <3>4. CASE MainNotify \/ MainWakeBroadcaster
        BY <2>t, <3>4 DEF MainNotify, MainWakeBroadcaster, NotifyEvent, Woken, Threads
    <3>5. CASE MainGoes \/ pc' = pc
        BY <2>t, <3>5 DEF MainGoes, Go, Threads
    <3> QED
        BY <1>2, <3>2, <3>3, <3>4, <3>5, MainPath
  <2>4. pc'["admin"] \in AtClient <=> pc["admin"] \in AtClient
      BY <2>3 DEF AtClient, SnapPC
  <2>5. pc'["main"] \in BeforeAdmin \cup Closed => pc["main"] \in BeforeAdmin \cup Closed
      BY <2>2 DEF Forward, BeforeAdmin, BeforeKey, Closed, Detached
  <2>6. UNCHANGED <<table, fd, cli>> /\ gone' \subseteq Subs
      BY <2>1 DEF sseVars, Clients
  <2> QED
      BY <2>4, <2>5, <2>6, FrameClients
<1> QED
    BY <1>1, <1>2

(* sse_send_all closes whom it takes out of the table. *)
LEMMA SendAllClients ==
    ASSUME Clients, NEW dead \in SUBSET (Registered \cap gone),
           table' = SubSeq(SendWalk(dead).fds, 1, SendWalk(dead).n),
           fd' = [s \in Subs |-> IF s \in SendWalk(dead).closed THEN "closed" ELSE fd[s]],
           UNCHANGED <<gone, cli>>,
           pc'["admin"] = pc["admin"],
           pc'["main"] \notin BeforeAdmin \cup Closed
    PROVE  Clients'
<1>t. table \in Seq(Subs) /\ Distinct(table)
    BY DEF Clients
<1>1. /\ table' \in Seq(Subs) /\ Distinct(table') /\ Entries(table') = Entries(table) \ dead
      /\ SendWalk(dead).closed = Entries(table) \cap dead
    BY <1>t, SendWalkTable
<1>2. dead \subseteq Entries(table) /\ cli \notin Entries(table)
    BY DEF Registered, Entries, Clients
<1>3. Owned(fd', cli', table')
  <2> SUFFICES ASSUME NEW s \in Subs PROVE fd'[s] = "open" <=> (s = cli \/ s \in Entries(table) \ dead)
      BY <1>1 DEF Owned
  <2>1. fd[s] = "open" <=> (s = cli \/ s \in Entries(table))
      BY DEF Clients, Owned
  <2>2. fd'[s] = IF s \in Entries(table) \cap dead THEN "closed" ELSE fd[s]
      BY <1>1
  <2> QED
      BY <1>2, <2>1, <2>2
<1>4. fd' \in [Subs -> {"none", "open", "closed"}]
    BY DEF Clients
<1>5. cli' \notin Entries(table')
    BY <1>1, <1>2
<1> QED
    BY <1>1, <1>3, <1>4, <1>5 DEF Clients

LEMMA BroadcastClients ==
    ASSUME Control, Clients, BroadcastActs
    PROVE  Clients'
<1>1. Moves("bcast") /\ cli' = cli
    BY BroadcastEffect
<1>2. pc'["main"] = pc["main"] /\ pc'["admin"] = pc["admin"] /\ ~Over("bcast")
    BY <1>1 DEF Moves, Threads
<1>3. CASE UNCHANGED sseVars
  <2>1. UNCHANGED <<table, fd, cli>> /\ gone' \subseteq Subs
      BY <1>1, <1>3 DEF sseVars, Clients
  <2> QED
      BY <1>2, <2>1, FrameClients
<1>4. CASE \E seen : SendAll(seen)
  <2>1. PICK dead \in SUBSET (Registered \cap gone) :
            /\ table' = SubSeq(SendWalk(dead).fds, 1, SendWalk(dead).n)
            /\ fd' = [s \in Subs |-> IF s \in SendWalk(dead).closed THEN "closed" ELSE fd[s]]
            /\ gone' = gone
      BY <1>4 DEF SendAll
  <2>2. pc'["main"] \notin BeforeAdmin \cup Closed
      BY <1>2 DEF Control, Order, Over, AfterBcast, BeforeBcast
  <2> QED
      BY <1>1, <1>2, <2>1, <2>2, SendAllClients
<1>5. UNCHANGED sseVars \/ \E seen : SendAll(seen)
    BY DEF BroadcastActs, BroadcastStep, BroadcastTop, BroadcastWait, BroadcastCheck, Snapshot,
           BroadcastSend, BroadcastTimeout, BroadcastSpurious, Awake, data
<1> QED
    BY <1>3, <1>4, <1>5

LEMMA AppendTable ==
    ASSUME table \in Seq(Subs), Distinct(table), NEW s \in Subs, s \notin Entries(table),
           NEW new, new = Append(table, s)
    PROVE  new \in Seq(Subs) /\ Distinct(new) /\ Entries(new) = Entries(table) \cup {s}
<1> DEFINE N == Len(table)
<1>1. /\ new \in Seq(Subs) /\ Len(new) = N + 1 /\ N \in Nat
      /\ new[N + 1] = s /\ \A i \in 1 .. N : new[i] = table[i]
    OBVIOUS
<1>2. \A i \in 1 .. N : table[i] # s
    BY DEF Entries
<1> HIDE DEF N
<1>3. 1 .. N + 1 = 1 .. N \cup {N + 1}
    BY <1>1
<1>4. Entries(new) = Entries(table) \cup {s}
    BY <1>1, <1>3 DEF Entries, N
<1>5. \A i, j \in 1 .. N : table[i] = table[j] => i = j
    BY DEF Distinct, N
<1>6. Distinct(new)
  <2> SUFFICES ASSUME NEW i \in 1 .. N + 1, NEW j \in 1 .. N + 1, new[i] = new[j]
               PROVE  i = j
      BY <1>1 DEF Distinct
  <2>1. CASE i \in 1 .. N /\ j \in 1 .. N
      BY <1>1, <1>5, <2>1
  <2>2. CASE i = N + 1 \/ j = N + 1
      BY <1>1, <1>2, <1>3, <2>2
  <2> QED
      BY <1>3, <2>1, <2>2
<1> QED
    BY <1>1, <1>4, <1>6

LEMMA AdminCloseClients ==
    ASSUME Control, Clients, pc'["main"] = pc["main"], pc["admin"] \in AtClient,
           pc'["admin"] \notin AtClient, fd' = [fd EXCEPT ![cli] = "closed"], cli' = None,
           UNCHANGED <<table, gone>>
    PROVE  Clients'
<1>t. /\ table \in Seq(Subs) /\ Distinct(table) /\ fd \in [Subs -> {"none", "open", "closed"}]
      /\ cli \in Subs /\ cli \notin Entries(table)
    BY DEF Clients
<1>1. Owned(fd', cli', table')
  <2> SUFFICES ASSUME NEW s \in Subs PROVE fd'[s] = "open" <=> (s = None \/ s \in Entries(table))
      BY DEF Owned
  <2>1. fd[s] = "open" <=> (s = cli \/ s \in Entries(table))
      BY DEF Clients, Owned
  <2>2. fd'[s] = (IF s = cli THEN "closed" ELSE fd[s]) /\ s # None
      BY <1>t, NoClient
  <2> QED
      BY <1>t, <2>1, <2>2
<1>2. fd' \in [Subs -> {"none", "open", "closed"}] /\ cli' \notin Entries(table')
    BY <1>t, NoClient
<1> QED
    BY <1>1, <1>2 DEF Clients

LEMMA AdminAcceptClients ==
    ASSUME Control, Clients, pc'["main"] = pc["main"], pc["admin"] \notin AtClient,
           pc'["admin"] \in AtClient, NEW s \in Subs, fd[s] = "none",
           fd' = [fd EXCEPT ![s] = "open"], cli' = s, UNCHANGED <<table, gone>>
    PROVE  Clients'
<1>t. /\ table \in Seq(Subs) /\ Distinct(table) /\ fd \in [Subs -> {"none", "open", "closed"}]
      /\ cli = None
    BY DEF Clients
<1>1. s \notin Entries(table)
    BY DEF Clients, Owned
<1>2. Owned(fd', cli', table')
  <2> SUFFICES ASSUME NEW t \in Subs PROVE fd'[t] = "open" <=> (t = s \/ t \in Entries(table))
      BY DEF Owned
  <2>1. fd[t] = "open" <=> (t = cli \/ t \in Entries(table))
      BY DEF Clients, Owned
  <2>2. fd'[t] = (IF t = s THEN "open" ELSE fd[t]) /\ t # None
      BY <1>t, NoClient
  <2> QED
      BY <1>t, <2>1, <2>2
<1>3. fd' \in [Subs -> {"none", "open", "closed"}]
    BY <1>t
<1> QED
    BY <1>1, <1>2, <1>3 DEF Clients

LEMMA AdminRegisterClients ==
    ASSUME Control, Clients, pc'["main"] = pc["main"], pc["admin"] \in AtClient,
           pc["main"] \notin BeforeAdmin \cup Closed,
           pc'["admin"] \notin AtClient, table' = Append(table, cli), cli' = None,
           UNCHANGED <<fd, gone>>
    PROVE  Clients'
<1>t. /\ table \in Seq(Subs) /\ Distinct(table) /\ fd \in [Subs -> {"none", "open", "closed"}]
      /\ cli \in Subs /\ cli \notin Entries(table)
    BY DEF Clients
<1>1. table' \in Seq(Subs) /\ Distinct(table') /\ Entries(table') = Entries(table) \cup {cli}
    BY <1>t, AppendTable
<1>2. None \notin Subs /\ None \notin Entries(table)
    BY <1>t, NoClient
<1>3. Owned(fd', cli', table')
    BY <1>1, <1>2 DEF Clients, Owned
<1>4. cli' \notin Entries(table')
    BY <1>t, <1>1, <1>2
<1> QED
    BY <1>1, <1>3, <1>4 DEF Clients

LEMMA AdminClients ==
    ASSUME Control, Clients, AdminStep
    PROVE  Clients'
<1>1. Moves("admin") /\ gone' = gone
    BY AdminEffect
<1>2. pc'["main"] = pc["main"] /\ ~Over("admin") /\ pc \in [Threads -> ThreadPC]
    BY <1>1 DEF Moves, Threads, Control
<1>3. pc["main"] \notin BeforeAdmin \cup Closed
    BY <1>2 DEF Control, Order, Over, AfterAdmin, AfterKey, AfterBcast
<1>g. ASSUME NEW from, NEW to, Go("admin", from, to)
      PROVE  pc["admin"] = from /\ pc'["admin"] = to
    BY <1>2, <1>g DEF Go, Threads
<1>p. /\ Polling \notin AtClient /\ {"poll", "top"} \cap AtClient = {} /\ SnapStart \in AtClient
      /\ SnapPC \cup {"recv", "frame", "register"} \subseteq AtClient
    BY DEF Polling, AtClient, SnapPC, SnapStart
<1>f. ASSUME UNCHANGED <<table, fd, cli>>, pc'["admin"] \in AtClient <=> pc["admin"] \in AtClient
      PROVE  Clients'
    BY <1>1, <1>2, <1>f, FrameClients DEF Clients
<1>c. ASSUME NEW from \in AtClient, AdminClose(from)
      PROVE  Clients'
  <2>1. pc["admin"] \in AtClient /\ pc'["admin"] \notin AtClient
      BY <1>g, <1>p, <1>c DEF AdminClose
  <2>2. fd' = [fd EXCEPT ![cli] = "closed"] /\ cli' = None /\ UNCHANGED <<table, gone>>
      BY <1>c DEF AdminClose
  <2> QED
      BY <1>2, <2>1, <2>2, AdminCloseClients
<1>4. CASE AdminTop \/ AdminTick \/ AdminAcceptFails
  <2>1. pc["admin"] \in {"poll", "top"} /\ pc'["admin"] \in {Polling, "exit"}
      BY <1>4, <1>g DEF AdminTop, AdminTick, AdminAcceptFails
  <2>2. pc["admin"] \notin AtClient /\ pc'["admin"] \notin AtClient
      BY <1>p, <2>1 DEF AtClient, SnapPC
  <2>3. UNCHANGED <<table, fd, cli>>
      BY <1>4 DEF AdminTop, AdminTick, AdminAcceptFails, data, adminVars, sseVars
  <2> QED
      BY <1>f, <2>2, <2>3
<1>5. CASE AdminAccept
  <2>1. PICK s \in scen.subs : fd[s] = "none" /\ fd' = [fd EXCEPT ![s] = "open"] /\ cli' = s
      BY <1>5 DEF AdminAccept
  <2>2. s \in Subs
      BY <2>1, ScenarioFacts
  <2>3. pc["admin"] \notin AtClient /\ pc'["admin"] \in AtClient /\ table' = table
      BY <1>5, <1>g, <1>p DEF AdminAccept
  <2> QED
      BY <1>1, <1>2, <2>1, <2>2, <2>3, AdminAcceptClients
<1>6. CASE AdminRecv
  <2>1. CASE Go("admin", "recv", SnapStart) /\ UNCHANGED data
    <3>1. pc["admin"] \in AtClient /\ pc'["admin"] \in AtClient
        BY <1>g, <1>p, <2>1
    <3>2. UNCHANGED <<table, fd, cli>>
        BY <2>1 DEF data, adminVars, sseVars
    <3> QED
        BY <1>f, <3>1, <3>2
  <2> QED
      BY <1>6, <1>c, <1>p, <2>1 DEF AdminRecv
<1>7. CASE Snapshot("admin", "frame")
  <2>1. pc["admin"] \in AtClient /\ pc'["admin"] \in AtClient
      BY <1>7, <1>g DEF Snapshot, AtClient, SnapPC
  <2>2. UNCHANGED <<table, fd, cli>>
      BY <1>7 DEF Snapshot, sseVars
  <2> QED
      BY <1>f, <2>1, <2>2
<1>8. CASE AdminFrame
  <2>1. CASE Go("admin", "frame", "register") /\ UNCHANGED <<table, fd, cli>>
      BY <1>f, <1>g, <1>p, <2>1
  <2> QED
      BY <1>8, <1>c, <1>p, <2>1 DEF AdminFrame
<1>9. CASE AdminRegister
  <2>1. CASE /\ Go("admin", "register", Polling)
             /\ table' = Append(table, cli) /\ cli' = None /\ fd' = fd
    <3>1. pc["admin"] \in AtClient /\ pc'["admin"] \notin AtClient
        BY <1>g, <1>p, <2>1
    <3> QED
        BY <1>1, <1>2, <1>3, <2>1, <3>1, AdminRegisterClients
  <2> QED
      BY <1>9, <1>c, <1>p, <2>1 DEF AdminRegister
<1> QED
    BY <1>4, <1>5, <1>6, <1>7, <1>8, <1>9 DEF AdminStep, AdminRuns

LEMMA NextClients == Control /\ Clients /\ [Next]_vars => Clients'
<1> SUFFICES ASSUME Control, Clients, [Next]_vars PROVE Clients'
    OBVIOUS
<1>1. CASE HandlerActs \/ KeyStep
  <2>1. UNCHANGED <<adminVars, sseVars>> /\ pc'["main"] = pc["main"] /\ pc'["admin"] = pc["admin"]
      BY <1>1, HandlerEffect, KeyEffect DEF Wakes, Moves, Threads
  <2>2. UNCHANGED <<table, fd, cli>> /\ gone' \subseteq Subs
      BY <2>1 DEF adminVars, sseVars, Clients
  <2> QED
      BY <2>1, <2>2, FrameClients
<1>2. CASE OutsideActs
  <2>1. UNCHANGED <<pc, adminVars, table, fd>>
      BY <1>2, OutsideEffect
  <2>2. gone \subseteq Subs
      BY DEF Clients
  <2>3. gone' \subseteq Subs
      BY <1>2, <2>2 DEF OutsideActs, Interrupt, HangUp, MonitorThread, sseVars, vars, data
  <2>4. cli' = cli
      BY <2>1 DEF adminVars
  <2> QED
      BY <2>1, <2>3, <2>4, FrameClients
<1> QED
    BY <1>1, <1>2, WhoActs, StepForward, MainClients, BroadcastClients, AdminClients

(* The descriptors of the admin clients, in every state of DemoServer: the *)
(* one in the listener's hand and the ones in the table are the open ones, *)
(* and no client is in the table twice.                                    *)
THEOREM ClientsInvariant == Spec => []Clients
<1>1. Spec => Init /\ [][Next]_vars
    BY DEF Spec
<1> QED
    BY <1>1, InitClients, NextClients, ControlInvariant, PTL

(* Every open descriptor of an admin client has one owner, the admin       *)
(* listener or the table of sse_clients, and when main returns all are     *)
(* closed.                                                                 *)
THEOREM OneOwner == Spec => []DescriptorsOwned
<1>1. Control /\ Clients => DescriptorsOwned
  <2> SUFFICES ASSUME Control, Clients PROVE DescriptorsOwned
      OBVIOUS
  <2>1. Registered = Entries(table)
      BY DEF Registered, Entries
  <2>2. ASSUME pc["main"] = "exit", NEW s \in Subs
        PROVE  fd[s] # "open"
    <3>1. table = <<>> /\ pc["admin"] \notin AtClient
        BY <2>2 DEF Clients, Control, Order, Over, AtClient, SnapPC, AfterAdmin, AfterKey,
                    AfterBcast, Closed, Detached
    <3>2. cli = None /\ Entries(table) = {} /\ s # None
        BY <3>1, NoClient DEF Clients, Entries
    <3> QED
        BY <3>2 DEF Clients, Owned
  <2> QED
      BY <2>1, <2>2 DEF DescriptorsOwned, Clients, Owned, Distinct
<1> QED
    BY <1>1, ControlInvariant, ClientsInvariant, PTL

(* Only the end of BroadcastSend leaves "send". *)
LEMMA SendLeaves ==
    ASSUME Control, [Next]_vars, pc["bcast"] = "send", pc'["bcast"] # "send"
    PROVE  BroadcastSend
<1>t. pc \in [Threads -> ThreadPC]
    BY DEF Control
<1>1. CASE BroadcastActs
  <2> USE DEF Go
  <2>1. pc["bcast"] \notin {"top", "wait", "asleep", "check"} \cup SnapPC
      BY DEF SnapPC
  <2> QED
      BY <1>1, <2>1 DEF BroadcastActs, BroadcastStep, BroadcastTop, BroadcastWait, BroadcastCheck,
             Snapshot, BroadcastTimeout, BroadcastSpurious, Awake, SnapPC
<1>2. CASE AdminStep \/ KeyStep \/ OutsideActs \/ HandlerActs
  <2>1. pc'["bcast"] = pc["bcast"]
      BY <1>2, AdminEffect, KeyEffect, OutsideEffect, HandlerEffect DEF Moves, Wakes, Threads
  <2> QED
      BY <2>1
<1>3. CASE MainActs
  <2>1. pc["main"] \notin BeforeBcast
      BY DEF Control, Order
  <2>2. CASE MainNotify \/ MainWakeBroadcaster
      BY <1>t, <2>2 DEF MainNotify, MainWakeBroadcaster, NotifyEvent, Woken, Threads
  <2>3. CASE MainCloseSse \/ MainGoes \/ pc' = pc
      BY <1>t, <2>3 DEF MainCloseSse, MainGoes, Go, Threads
  <2>4. ~MainStartAdmin /\ ~MainStarts("key") /\ ~MainStarts("bcast")
      BY <2>1 DEF MainStartAdmin, MainStarts, MainStart, BeforeBcast, BeforeAdmin, BeforeKey
  <2> QED
      BY <1>3, <2>2, <2>3, <2>4, MainPath
<1> QED
    BY <1>1, <1>2, <1>3, WhoActs

(* A round of the broadcaster loses nobody: the subscribers that are there *)
(* stay in the table, in their order, and get the new payload.             *)
THEOREM NobodyLost == Spec => FrameReachesAll
<1> DEFINE Round == pc["bcast"] = "send" /\ pc'["bcast"] # "send" =>
              /\ Registered' \subseteq Registered
              /\ \A s, t \in Registered \ gone : Before(table, s, t) => Before(table', s, t)
              /\ last' # last => \A s \in Registered \ gone : view'[s] = last'
<1>1. Control /\ Clients /\ [Next]_vars => Round
  <2> SUFFICES ASSUME Control, Clients, [Next]_vars, pc["bcast"] = "send", pc'["bcast"] # "send"
               PROVE  /\ Registered' \subseteq Registered
                      /\ \A s, t \in Registered \ gone : Before(table, s, t) => Before(table', s, t)
                      /\ last' # last => \A s \in Registered \ gone : view'[s] = last'
      OBVIOUS
  <2>t. table \in Seq(Subs) /\ Distinct(table) /\ Registered \subseteq Subs
      BY DEF Clients, Registered
  <2>1. BroadcastSend
      BY SendLeaves
  <2>2. last' = snap["bcast"]
      BY <2>1 DEF BroadcastSend
  <2>3. CASE UNCHANGED sseVars /\ last' = last
      BY <2>3 DEF sseVars, Registered
  <2>4. ASSUME NEW seen, SendAll(seen), last' # last => \A s \in Subs : seen[s] = last'
        PROVE  /\ Registered' \subseteq Registered
               /\ \A s, t \in Registered \ gone : Before(table, s, t) => Before(table', s, t)
               /\ last' # last => \A s \in Registered \ gone : view'[s] = last'
    <3>1. PICK dead \in SUBSET (Registered \cap gone) :
              /\ table' = SubSeq(SendWalk(dead).fds, 1, SendWalk(dead).n)
              /\ view' = [s \in Subs |-> IF s \in SendWalk(dead).wrote \ gone THEN seen[s] ELSE view[s]]
        BY <2>4 DEF SendAll
    <3>2. /\ Entries(table') = Entries(table) \ dead
          /\ \A s, t \in Entries(table) \ dead : Before(table, s, t) => Before(table', s, t)
          /\ SendWalk(dead).wrote = Entries(table) \ dead
        BY <2>t, <3>1, SendWalkTable
    <3>3. Registered = Entries(table) /\ Registered' = Entries(table')
        BY DEF Registered, Entries
    <3>4. ASSUME last' # last, NEW s \in Registered \ gone
          PROVE  view'[s] = last'
      <4>1. s \in SendWalk(dead).wrote \ gone /\ s \in Subs
          BY <2>t, <3>1, <3>2, <3>3, <3>4
      <4> QED
          BY <2>4, <3>1, <3>4, <4>1
    <3> QED
        BY <3>1, <3>2, <3>3, <3>4
  <2>5. CASE snap["bcast"] # last
    <3> DEFINE all == [s \in Subs |-> snap["bcast"]]
    <3>1. SendAll(all) /\ \A s \in Subs : all[s] = last'
        BY <2>1, <2>2, <2>5 DEF BroadcastSend
    <3> HIDE DEF all
    <3> QED
        BY <2>4, <3>1
  <2>6. CASE snap["bcast"] = last
    <3>1. last' = last /\ (SendAll(view) \/ UNCHANGED sseVars)
        BY <2>1, <2>2, <2>6 DEF BroadcastSend
    <3> QED
        BY <2>3, <2>4, <3>1
  <2> QED
      BY <2>5, <2>6
<1>2. Spec => [][Next]_vars
    BY DEF Spec
<1>3. Control /\ Clients /\ [Next]_vars => [Round]_vars
    BY <1>1
<1> QED
    BY <1>2, <1>3, ControlInvariant, ClientsInvariant, PTL DEF FrameReachesAll
-------------------------------------------------------------------------------
(* The frames, and the types of all variables *)

Frames ==
    /\ unseen \in BOOLEAN /\ timed_out \in BOOLEAN /\ last \in Payload \cup {None}
    /\ snap \in [{"bcast", "admin"} -> Payload]
    /\ view \in [Subs -> Payload \cup {None}]

(* What the gauges and counters show is never more than all connections. *)
LEMMA GaugesBounded ==
    ASSUME Control, Connections
    PROVE  /\ Cardinality(Conns) \in Nat
           /\ NumWorking \in 0 .. Cardinality(Conns) /\ InSystem \in 0 .. Cardinality(Conns)
           /\ active \in 0 .. Cardinality(Conns) /\ served \in 0 .. Cardinality(Conns)
<1> DEFINE N == Cardinality(Conns)
<1>1. N \in Nat /\ \A S : Cardinality(At(hpc, S)) \in 0 .. N
    BY AtFacts
<1> HIDE DEF N
<1>2. NumWorking = Cardinality(At(hpc, Busy)) \/ NumWorking = 0
    BY DEF NumWorking, At
<1>3. InSystem = Cardinality(At(hpc, Busy \cup {"queued", "dec"})) \/ InSystem = 0
    BY DEF InSystem, At
<1>4. NumWorking \in 0 .. N /\ InSystem \in 0 .. N
    BY <1>1, <1>2, <1>3
<1>5. active \in 0 .. N
    BY <1>1 DEF Connections
<1>6. served \in 0 .. N
  <2>1. /\ served \in Nat /\ served <= Cardinality(At(hpc, PastPC))
        /\ Cardinality(At(hpc, PastPC)) \in 0 .. N
      BY <1>1 DEF Connections
  <2> QED
      BY <1>1, <2>1
<1> QED
    BY <1>1, <1>4, <1>5, <1>6 DEF N

LEMMA NoStatsPayload == ASSUME Control, Connections PROVE NoStats \in Payload
<1>1. 0 \in 0 .. Cardinality(Conns)
    BY GaugesBounded
<1> QED
    BY <1>1 DEF NoStats, Payload

LEMMA InitFrames == Init => Frames
<1> SUFFICES ASSUME Init PROVE Frames
    OBVIOUS
<1>1. NoStats \in Payload
    BY InitControl, InitConnections, NoStatsPayload
<1>2. /\ unseen = FALSE /\ timed_out = FALSE /\ last = None
      /\ snap = [t \in {"bcast", "admin"} |-> NoStats] /\ view = [s \in Subs |-> None]
    BY DEF Init
<1> QED
    BY <1>1, <1>2 DEF Frames

LEMMA SnapshotFrames ==
    ASSUME Control, Connections, Frames, NEW t \in {"bcast", "admin"}, NEW next, Snapshot(t, next)
    PROVE  Frames'
<1> DEFINE N == Cardinality(Conns)
           p == snap[t]
           q == snap'[t]
<1>1. /\ N \in Nat /\ NumWorking \in 0 .. N /\ InSystem \in 0 .. N
      /\ active \in 0 .. N /\ served \in 0 .. N
    BY GaugesBounded
<1>t. /\ snap \in [{"bcast", "admin"} -> Payload]
      /\ p \in [busy : 0 .. N, total : 0 .. N, depth : 0 .. N, active : 0 .. N, served : 0 .. N]
    BY DEF Frames, Payload
<1>2. Monus(p.total, NumWorking) \in 0 .. N
    BY <1>1, <1>t DEF Monus
<1>3. \/ snap' = [snap EXCEPT ![t].busy = NumWorking]
      \/ snap' = [snap EXCEPT ![t].total = InSystem]
      \/ snap' = [snap EXCEPT ![t].depth = Monus(p.total, NumWorking), ![t].total = 0]
      \/ snap' = [snap EXCEPT ![t].active = active]
      \/ snap' = [snap EXCEPT ![t].served = served]
    BY DEF Snapshot
<1> HIDE DEF p
<1>4. \/ snap' = [snap EXCEPT ![t] = [p EXCEPT !.busy = NumWorking]]
      \/ snap' = [snap EXCEPT ![t] = [p EXCEPT !.total = InSystem]]
      \/ snap' = [snap EXCEPT ![t] = [p EXCEPT !.depth = Monus(p.total, NumWorking), !.total = 0]]
      \/ snap' = [snap EXCEPT ![t] = [p EXCEPT !.active = active]]
      \/ snap' = [snap EXCEPT ![t] = [p EXCEPT !.served = served]]
    BY <1>t, <1>3 DEF p
<1> HIDE DEF N
<1>5. \E x \in Payload : snap' = [snap EXCEPT ![t] = x]
  <2>1. /\ [p EXCEPT !.busy = NumWorking] \in Payload
        /\ [p EXCEPT !.total = InSystem] \in Payload
        /\ [p EXCEPT !.active = active] \in Payload
        /\ [p EXCEPT !.served = served] \in Payload
      BY <1>1, <1>t DEF Payload, N
  <2>2. [p EXCEPT !.depth = Monus(p.total, NumWorking), !.total = 0] \in Payload
    <3>1. 0 \in 0 .. N
        BY <1>1
    <3> QED
        BY <1>2, <1>t, <3>1 DEF Payload, N
  <2> QED
      BY <1>4, <2>1, <2>2
<1>6. snap' \in [{"bcast", "admin"} -> Payload]
    BY <1>t, <1>5
<1>7. UNCHANGED <<unseen, timed_out, last, view>>
    BY DEF Snapshot, bcastVars, sseVars
<1> QED
    BY <1>6, <1>7 DEF Frames, Payload

LEMMA BroadcastFrames ==
    ASSUME Control, Connections, Frames, BroadcastActs
    PROVE  Frames'
<1>t. /\ unseen \in BOOLEAN /\ timed_out \in BOOLEAN /\ last \in Payload \cup {None}
      /\ snap \in [{"bcast", "admin"} -> Payload] /\ view \in [Subs -> Payload \cup {None}]
    BY DEF Frames
<1>p. Payload' = Payload
    BY DEF Payload
<1>1. CASE Snapshot("bcast", "send")
    BY <1>1, SnapshotFrames
<1>2. CASE BroadcastSend
  <2>1. NoStats \in Payload /\ snap["bcast"] \in Payload
      BY <1>t, NoStatsPayload
  <2>2. /\ last' = snap["bcast"] /\ timed_out' = FALSE /\ unseen' = unseen
        /\ snap' = [snap EXCEPT !["bcast"] = NoStats]
      BY <1>2 DEF BroadcastSend
  <2>3. view' \in [Subs -> Payload \cup {None}]
    <3>1. ASSUME NEW seen \in [Subs -> Payload \cup {None}], SendAll(seen)
          PROVE  view' \in [Subs -> Payload \cup {None}]
      <4>1. PICK got : view' = [s \in Subs |-> IF s \in got THEN seen[s] ELSE view[s]]
          BY <3>1 DEF SendAll
      <4> QED
          BY <1>t, <3>1, <4>1
    <3>2. [s \in Subs |-> snap["bcast"]] \in [Subs -> Payload \cup {None}]
        BY <2>1
    <3>3. SendAll([s \in Subs |-> snap["bcast"]]) \/ SendAll(view) \/ view' = view
        BY <1>2 DEF BroadcastSend, sseVars
    <3> QED
        BY <1>t, <3>1, <3>2, <3>3
  <2> QED
      BY <1>t, <1>p, <2>1, <2>2, <2>3 DEF Frames
<1>3. CASE BroadcastTop \/ BroadcastWait \/ BroadcastCheck \/ BroadcastTimeout \/ BroadcastSpurious
  <2>1. UNCHANGED <<last, snap, view>>
      BY <1>3 DEF BroadcastTop, BroadcastWait, BroadcastCheck, BroadcastTimeout,
                  BroadcastSpurious, Awake, data, bcastVars, adminVars, sseVars
  <2>2. UNCHANGED <<unseen, timed_out>> \/ (unseen' = FALSE /\ timed_out' = ~unseen)
      BY <1>3 DEF BroadcastTop, BroadcastWait, BroadcastCheck, BroadcastTimeout,
                  BroadcastSpurious, Awake, data, bcastVars
  <2>3. unseen' \in BOOLEAN /\ timed_out' \in BOOLEAN
      BY <1>t, <2>2
  <2> QED
      BY <1>t, <1>p, <2>1, <2>3 DEF Frames
<1> QED
    BY <1>1, <1>2, <1>3 DEF BroadcastActs, BroadcastStep

LEMMA AdminFrames ==
    ASSUME Control, Connections, Clients, Frames, AdminStep
    PROVE  Frames'
<1>t. /\ unseen \in BOOLEAN /\ timed_out \in BOOLEAN /\ last \in Payload \cup {None}
      /\ snap \in [{"bcast", "admin"} -> Payload] /\ view \in [Subs -> Payload \cup {None}]
    BY DEF Frames
<1>p. Payload' = Payload
    BY DEF Payload
<1>b. UNCHANGED <<unseen, timed_out, last>>
    BY AdminEffect DEF bcastVars
<1>n. NoStats \in Payload
    BY NoStatsPayload
<1>1. CASE Snapshot("admin", "frame")
    BY <1>1, SnapshotFrames
<1>2. CASE ~Snapshot("admin", "frame")
  <2>1. /\ snap' = snap \/ snap' = [snap EXCEPT !["admin"] = NoStats]
        /\ view' = view \/ view' = [view EXCEPT ![cli] = snap["admin"]]
    <3>1. CASE AdminTop \/ AdminTick \/ AdminAccept \/ AdminAcceptFails
        BY <3>1 DEF AdminTop, AdminTick, AdminAccept, AdminAcceptFails, data, adminVars, sseVars
    <3>2. CASE AdminRecv
        BY <3>2 DEF AdminRecv, AdminClose, data, adminVars, sseVars
    <3>3. CASE AdminFrame
        BY <3>3 DEF AdminFrame, AdminClose
    <3>4. CASE AdminRegister
        BY <3>4 DEF AdminRegister, AdminClose
    <3> QED
        BY <1>2, <3>1, <3>2, <3>3, <3>4 DEF AdminStep, AdminRuns
  <2>3. snap' \in [{"bcast", "admin"} -> Payload]
      BY <1>t, <1>n, <2>1
  <2>4. view' \in [Subs -> Payload \cup {None}]
      BY <1>t, <2>1
  <2> QED
      BY <1>t, <1>p, <1>b, <2>3, <2>4 DEF Frames
<1> QED
    BY <1>1, <1>2

LEMMA NextFrames == Control /\ Connections /\ Clients /\ Frames /\ [Next]_vars => Frames'
<1> SUFFICES ASSUME Control, Connections, Clients, Frames, [Next]_vars PROVE Frames'
    OBVIOUS
<1>t. /\ unseen \in BOOLEAN /\ timed_out \in BOOLEAN /\ last \in Payload \cup {None}
      /\ snap \in [{"bcast", "admin"} -> Payload] /\ view \in [Subs -> Payload \cup {None}]
    BY DEF Frames
<1>p. Payload' = Payload
    BY DEF Payload
<1>f. ASSUME UNCHANGED <<timed_out, last, snap>>, unseen' \in {unseen, TRUE},
             view' \in [Subs -> Payload \cup {None}]
      PROVE  Frames'
  <2>1. unseen' \in BOOLEAN
      BY <1>t, <1>f
  <2> QED
      BY <1>t, <1>p, <1>f, <2>1 DEF Frames
<1>1. CASE MainActs
  <2>1. UNCHANGED <<timed_out, last, snap, view>>
      BY <1>1, MainEffect DEF adminVars
  <2>2. unseen' = unseen \/ unseen' = TRUE
      BY <1>1, MainEffect
  <2>3. unseen' \in {unseen, TRUE}
      BY <2>2
  <2>4. view' \in [Subs -> Payload \cup {None}]
      BY <1>t, <2>1
  <2> QED
      BY <1>f, <2>1, <2>3, <2>4
<1>2. CASE HandlerActs
  <2>1. UNCHANGED <<timed_out, last, snap, view>>
      BY <1>2, HandlerEffect DEF adminVars, sseVars
  <2>2. unseen' = unseen \/ unseen' = TRUE
      BY <1>2 DEF HandlerActs, HandlerStep, TaskStart, HandlerNotify, HandlerRecv, HandlerCount,
             HandlerLog, HandlerPrint, HandlerReturn, NotifyEvent, bcastVars
  <2>3. unseen' \in {unseen, TRUE}
      BY <2>2
  <2>4. view' \in [Subs -> Payload \cup {None}]
      BY <1>t, <2>1
  <2> QED
      BY <1>f, <2>1, <2>3, <2>4
<1>3. CASE KeyStep
  <2>1. UNCHANGED <<unseen, timed_out, last, snap, view>>
      BY <1>3, KeyEffect DEF bcastVars, adminVars, sseVars
  <2> QED
      BY <1>t, <1>f, <2>1
<1>4. CASE OutsideActs
  <2>1. UNCHANGED <<unseen, timed_out, last, snap>>
      BY <1>4, OutsideEffect DEF bcastVars, adminVars
  <2>2. view' = view \/ \E s \in Subs : view' = [view EXCEPT ![s] = None]
      BY <1>4 DEF OutsideActs, Interrupt, HangUp, MonitorThread, sseVars, vars, data
  <2>3. view' \in [Subs -> Payload \cup {None}]
      BY <1>t, <2>2
  <2> QED
      BY <1>f, <2>1, <2>3
<1> QED
    BY <1>1, <1>2, <1>3, <1>4, WhoActs, BroadcastFrames, AdminFrames

(* Every variable of DemoServer has its type; in particular                *)
(* active_connections, an unsigned counter, never wraps below 0, and no    *)
(* statistic shown exceeds the number of connections.                      *)
THEOREM TypeCorrect == Spec => []TypeOK
<1>1. Spec => Init /\ [][Next]_vars
    BY DEF Spec
<1>2. Spec => []Frames
    BY <1>1, InitFrames, NextFrames, ControlInvariant, CountersExact, ClientsInvariant, PTL
<1>3. Control /\ Connections /\ LogRing /\ Terminal /\ Clients /\ Frames => TypeOK
  <2> SUFFICES ASSUME Control, Connections, LogRing, Terminal, Clients, Frames PROVE TypeOK
      OBVIOUS
  <2>1. active \in 0 .. Cardinality(Conns) /\ served \in 0 .. Cardinality(Conns)
      BY GaugesBounded
  <2>2. cli \in Subs \cup {None}
      BY DEF Clients
  <2>3. /\ scen \in Scenarios /\ pc \in [Threads -> ThreadPC]
        /\ running \in BOOLEAN /\ sigint \in BOOLEAN /\ listening \in BOOLEAN
      BY DEF Control
  <2>4. cur \in Conns \cup {None} /\ hpc \in [Conns -> HandlerPC] /\ queue \in Seq(Conns)
      BY DEF Connections
  <2>5. ring \in RingType /\ logged \in Seq(Conns)
      BY DEF LogRing
  <2>6. /\ log_mtx \in Conns \cup {"key", None} /\ hinted \in BOOLEAN
        /\ mon \in [MonThreads -> MonPC]
        /\ attached \in BOOLEAN /\ ever_init \in BOOLEAN /\ tid_valid \in BOOLEAN
        /\ tid \in MonThreads \cup {NoThread} /\ paused \in BOOLEAN
      BY DEF Terminal, MonType
  <2>7. /\ table \in Seq(Subs) /\ fd \in [Subs -> {"none", "open", "closed"}]
        /\ gone \subseteq Subs
      BY DEF Clients
  <2>8. /\ unseen \in BOOLEAN /\ timed_out \in BOOLEAN /\ last \in Payload \cup {None}
        /\ snap \in [{"bcast", "admin"} -> Payload] /\ view \in [Subs -> Payload \cup {None}]
      BY DEF Frames
  <2> QED
      BY <2>1, <2>2, <2>3, <2>4, <2>5, <2>6, <2>7, <2>8, Zenon DEF TypeOK, RingType
<1>4. Spec => []LogRing
    BY <1>1, InitLogRing, NextLogRing, ControlInvariant, PTL
<1> QED
    BY <1>2, <1>3, <1>4, ControlInvariant, CountersExact, TerminalInvariant, ClientsInvariant, PTL
=============================================================================
