---------------------------- MODULE PriorityLanes ----------------------------
(***************************************************************************)
(* The three-lane priority queue of src/priority_queue.c as a value: one   *)
(* FIFO sequence of tasks per priority.  The other modules build on these  *)
(* operators: PriorityQueue shows that the linked lists of the code        *)
(* implement them, ThreadPool uses them for the shared queue.              *)
(***************************************************************************)
EXTENDS Integers, Sequences

CONSTANT Task          \* the tasks (struct task_t) of the run

LOW    == 0
MEDIUM == 1
HIGH   == 2
Priority == LOW .. HIGH

Lanes == [Priority -> Seq(Task)]

EmptyLanes == [p \in Priority |-> << >>]

Size(q) == Len(q[LOW]) + Len(q[MEDIUM]) + Len(q[HIGH])

(* A task is linked into some lane; no task is linked in twice. *)
In(q, t) == \E p \in Priority : \E i \in 1 .. Len(q[p]) : q[p][i] = t

NoDup(q) ==
    \A p, r \in Priority : \A i \in 1 .. Len(q[p]), j \in 1 .. Len(q[r]) :
        q[p][i] = q[r][j] => p = r /\ i = j

(* The lanes whose ready_mask bit is set. *)
Ready(q) == {p \in Priority : q[p] # << >>}

(* _get_highest_priority: the top set bit of the mask. *)
Highest(ready) == CHOOSE p \in ready : \A r \in ready : r <= p

(* _pq_insert_locked: append to the tail of the task's lane. *)
Insert(q, t, p) == [q EXCEPT ![p] = Append(@, t)]

(* _pq_pop_locked on the highest ready lane. *)
First(q) == Head(q[Highest(Ready(q))])

(* Mutated RemoveFirst: the head of the lane is not advanced. *)
KeepFirst(q) == q

RemoveFirst(q) == [q EXCEPT ![Highest(Ready(q))] = Tail(@)]

(* Mutated Promote: the moved tasks stay linked in their old lane. *)
PromoteCopies(q, src, dst, n) == [q EXCEPT ![dst] = SubSeq(q[src], 1, n) \o @]

(* pq_aging_promote_prefix: the first n tasks of lane src move, in order,  *)
(* to the FRONT of lane dst.                                               *)
Promote(q, src, dst, n) ==
    [q EXCEPT ![src] = SubSeq(@, n + 1, Len(@)),
              ![dst] = SubSeq(q[src], 1, n) \o @]

(* pq_aging promotes MEDIUM to HIGH and LOW to MEDIUM. *)
PromotionPairs == {<<MEDIUM, HIGH>>, <<LOW, MEDIUM>>}

(* The capacity test of pq_try_push and pq_is_full_approx; cap 0 means     *)
(* unbounded.                                                              *)
AtCapacity(size, cap) == cap # 0 /\ size >= cap
=============================================================================
