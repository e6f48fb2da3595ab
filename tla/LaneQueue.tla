------------------------------ MODULE LaneQueue ------------------------------
(***************************************************************************)
(* What src/priority_queue.c promises: a FIFO per priority, pops from the  *)
(* highest non-empty one, a capacity whose changes drop nothing, and aging *)
(* that moves a prefix of a lane to the front of the next one.             *)
(***************************************************************************)
EXTENDS PriorityLanes

CONSTANT Caps

VARIABLES lanes, cap

Queued(q) == UNION {{q[p][i] : i \in 1 .. Len(q[p])} : p \in Priority}

Init == lanes = EmptyLanes /\ cap = 0

(* pq_push, or pq_try_push when the queue has room. *)
Push(t, p) ==
    /\ t \notin Queued(lanes)
    /\ lanes' = Insert(lanes, t, p)
    /\ cap' = cap

Pop ==
    /\ Ready(lanes) # {}
    /\ lanes' = RemoveFirst(lanes)
    /\ cap' = cap

Age ==
    /\ \E pair \in PromotionPairs : \E n \in 1 .. Len(lanes[pair[1]]) :
          lanes' = Promote(lanes, pair[1], pair[2], n)
    /\ cap' = cap

SetMax == cap' \in Caps /\ lanes' = lanes

Destroy == lanes' = EmptyLanes /\ cap' = cap

Next ==
    \/ \E t \in Task, p \in Priority : Push(t, p)
    \/ Pop \/ Age \/ SetMax \/ Destroy

Spec == Init /\ [][Next]_<<lanes, cap>>
=============================================================================
