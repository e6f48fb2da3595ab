---------------------------- MODULE PriorityQueue ----------------------------
(***************************************************************************)
(* src/priority_queue.c at the level of its pointers: heads, tails and     *)
(* next, the ready mask, the size and its lockless mirror depth.  Every    *)
(* operation is one critical section under pq->mutex.  PriorityQueue       *)
(* implements LaneQueue, with each lane read off by following next from    *)
(* its head.                                                               *)
(***************************************************************************)
EXTENDS PriorityLanes, FiniteSets

CONSTANTS
    NULL,           \* the NULL pointer
    Caps,           \* the capacities pq_set_max_tasks is called with
    PromoteTime,    \* promote_time_ms, in clock ticks
    MaxClock        \* bound on the clock

ASSUME QueueAssumption ==
    /\ IsFiniteSet(Task) /\ NULL \notin Task
    /\ Caps \subseteq Nat
    /\ PromoteTime \in Nat \ {0} /\ MaxClock \in Nat \ {0}

VARIABLES
    heads, tails,   \* [Priority -> Task or NULL]
    next,           \* task_t.next
    priority,       \* task_t.priority
    submit_time,    \* task_t.submit_time in ticks; 0 is the zero timespec
    ready_mask,     \* the set of priorities whose bit is set
    size, depth,
    max_tasks,
    clock,          \* CLOCK_MONOTONIC
    pass,           \* pq_aging: "idle", or "low" between its two halves
    promoted        \* history: tasks promoted by the first half of the pass

listVars == <<heads, tails, next, priority, ready_mask>>
vars == <<listVars, submit_time, size, depth, max_tasks, clock, pass, promoted>>

(* pq_init: everything zero. *)
Init ==
    /\ heads = [p \in Priority |-> NULL]
    /\ tails = [p \in Priority |-> NULL]
    /\ next = [t \in Task |-> NULL]
    /\ priority = [t \in Task |-> LOW]
    /\ submit_time = [t \in Task |-> 0]
    /\ ready_mask = {}
    /\ size = 0
    /\ depth = 0
    /\ max_tasks = 0
    /\ clock = 1
    /\ pass = "idle"
    /\ promoted = {}

-------------------------------------------------------------------------------
(* The list that starts at node h, in order: at most every task is on it. *)
Follow(h, link) ==
    LET node[k \in 1 .. Cardinality(Task) + 1] ==
            IF k = 1 THEN h
            ELSE LET n == node[k - 1] IN IF n = NULL THEN NULL ELSE link[n]
    IN  SubSeq(node, 1, Cardinality({k \in DOMAIN node : node[k] # NULL}))

LaneOf(p) == Follow(heads[p], next)

(* A task some lane holds; the caller owns all others. *)
InQueue(t) == \E p \in Priority : \E i \in DOMAIN LaneOf(p) : LaneOf(p)[i] = t

-------------------------------------------------------------------------------
(* Mutated insert: new tasks go to the head of the lane. *)
InsertAtHead(t, p) ==
    /\ heads' = [heads EXCEPT ![p] = t]
    /\ tails' = [tails EXCEPT ![p] = IF @ = NULL THEN t ELSE @]
    /\ next' = [next EXCEPT ![t] = heads[p]]
    /\ priority' = [priority EXCEPT ![t] = p]
    /\ ready_mask' = ready_mask \cup {p}
    /\ size' = size + 1
    /\ depth' = depth + 1

(* _pq_insert_locked *)
InsertLocked(t, p) ==
    /\ heads' = [heads EXCEPT ![p] = IF tails[p] = NULL THEN t ELSE @]
    /\ tails' = [tails EXCEPT ![p] = t]
    /\ next' = IF tails[p] = NULL
               THEN [next EXCEPT ![t] = NULL]
               ELSE [next EXCEPT ![t] = NULL, ![tails[p]] = t]
    /\ priority' = [priority EXCEPT ![t] = p]
    /\ ready_mask' = ready_mask \cup {p}
    /\ size' = size + 1
    /\ depth' = depth + 1

(* pq_push of a task stamped at some earlier moment, or not at all. *)
Push(t, p, stamp) ==
    /\ ~InQueue(t)
    /\ InsertLocked(t, p)
    /\ submit_time' = [submit_time EXCEPT ![t] = stamp]
    /\ UNCHANGED <<max_tasks, clock, pass, promoted>>

(* pq_try_push; at capacity it returns false and changes nothing. *)
TryPush(t, p, stamp) ==
    /\ ~AtCapacity(size, max_tasks)
    /\ Push(t, p, stamp)

(* _pq_pop_locked.  The popped task is the caller's, who frees it; its     *)
(* other fields go back to what task_create will set them to.              *)
PopLocked(p) ==
    LET t == heads[p] IN
    /\ heads' = [heads EXCEPT ![p] = next[t]]
    /\ tails' = [tails EXCEPT ![p] = IF next[t] = NULL THEN NULL ELSE @]
    /\ ready_mask' = IF next[t] = NULL THEN ready_mask \ {p} ELSE ready_mask
    /\ next' = [next EXCEPT ![t] = NULL]
    /\ size' = size - 1
    /\ depth' = depth - 1
    /\ priority' = [priority EXCEPT ![t] = LOW]
    /\ submit_time' = [submit_time EXCEPT ![t] = 0]
    /\ promoted' = promoted \ {t}

(* pq_pop_nonblock, and pq_pop_until_shutdown, once there is a task. *)
Pop ==
    /\ ready_mask # {}
    /\ PopLocked(Highest(ready_mask))
    /\ UNCHANGED <<max_tasks, clock, pass>>

SetMax ==
    /\ max_tasks' \in Caps
    /\ UNCHANGED <<listVars, submit_time, size, depth, clock, pass, promoted>>

(* pq_destroy frees every queued task, and with it the task's fields. *)
Destroy ==
    /\ heads' = [p \in Priority |-> NULL]
    /\ tails' = [p \in Priority |-> NULL]
    /\ ready_mask' = {}
    /\ size' = 0
    /\ depth' = 0
    /\ next' = [t \in Task |-> NULL]
    /\ priority' = [t \in Task |-> LOW]
    /\ submit_time' = [t \in Task |-> 0]
    /\ promoted' = {}
    /\ UNCHANGED <<max_tasks, clock, pass>>

-------------------------------------------------------------------------------
(* has_passed_ms: an unstamped task never ages. *)
HasPassed(t, now) == submit_time[t] # 0 /\ now - submit_time[t] >= PromoteTime

(* The scan of pq_aging_promote_prefix: s lists the longest aged prefix of *)
(* lane src.                                                               *)
AgedPrefix(s, src, now) ==
    /\ s # << >> /\ s[1] = heads[src]
    /\ \A i \in DOMAIN s : s[i] # NULL /\ HasPassed(s[i], now)
    /\ \A i \in 1 .. Len(s) - 1 : s[i + 1] = next[s[i]]
    /\ LET after == next[s[Len(s)]] IN after # NULL => ~HasPassed(after, now)

(* Mutated splice: the tail of an empty destination lane is not set. *)
SpliceNoTail(s, src, dst) ==
    LET first == s[1]
        last == s[Len(s)]
        after == next[last]
    IN
    /\ heads' = [heads EXCEPT ![src] = after, ![dst] = first]
    /\ tails' = [tails EXCEPT ![src] = IF after = NULL THEN NULL ELSE @]
    /\ ready_mask' = (IF after = NULL THEN ready_mask \ {src} ELSE ready_mask) \cup {dst}
    /\ priority' = [t \in Task |-> IF \E i \in DOMAIN s : s[i] = t THEN dst ELSE priority[t]]
    /\ next' = [next EXCEPT ![last] = heads[dst]]

(* The splice: the prefix goes to the front of lane dst. *)
Splice(s, src, dst) ==
    LET first == s[1]
        last == s[Len(s)]
        after == next[last]
    IN
    /\ heads' = [heads EXCEPT ![src] = after, ![dst] = first]
    /\ tails' = [tails EXCEPT ![src] = IF after = NULL THEN NULL ELSE @,
                              ![dst] = IF @ = NULL THEN last ELSE @]
    /\ ready_mask' = (IF after = NULL THEN ready_mask \ {src} ELSE ready_mask) \cup {dst}
    /\ priority' = [t \in Task |-> IF \E i \in DOMAIN s : s[i] = t THEN dst ELSE priority[t]]
    /\ next' = [next EXCEPT ![last] = heads[dst]]

(* pq_aging_promote_prefix: it reads the clock before it takes the lock,   *)
(* and does nothing when shutdown is requested by then.                    *)
PromotePrefix(src, dst) ==
    \/ UNCHANGED listVars
    \/ \E now \in 1 .. clock :
          /\ heads[src] # NULL /\ HasPassed(heads[src], now)
          /\ \E n \in 1 .. Len(LaneOf(src)) :
                LET s == SubSeq(LaneOf(src), 1, n)
                IN  AgedPrefix(s, src, now) /\ Splice(s, src, dst)

(* pq_aging: MEDIUM to HIGH, then LOW to MEDIUM. *)
LowFirst == <<<<LOW, MEDIUM>>, <<MEDIUM, HIGH>>>>       \* mutated PassOrder
PassOrder == <<<<MEDIUM, HIGH>>, <<LOW, MEDIUM>>>>

AgingFirst ==
    /\ pass = "idle"
    /\ PromotePrefix(PassOrder[1][1], PassOrder[1][2])
    /\ promoted' = {t \in Task : priority'[t] # priority[t]}
    /\ pass' = "low"
    /\ UNCHANGED <<submit_time, size, depth, max_tasks, clock>>

AgingSecond ==
    /\ pass = "low"
    /\ PromotePrefix(PassOrder[2][1], PassOrder[2][2])
    /\ promoted' = {}
    /\ pass' = "idle"
    /\ UNCHANGED <<submit_time, size, depth, max_tasks, clock>>

Tick ==
    /\ clock < MaxClock
    /\ clock' = clock + 1
    /\ UNCHANGED <<listVars, submit_time, size, depth, max_tasks, pass, promoted>>

Next ==
    \/ \E t \in Task, p \in Priority, stamp \in 0 .. clock :
          Push(t, p, stamp) \/ TryPush(t, p, stamp)
    \/ Pop \/ SetMax \/ Destroy \/ AgingFirst \/ AgingSecond \/ Tick

Spec == Init /\ [][Next]_vars

-------------------------------------------------------------------------------
(* The lists stay well formed, whatever splices and pops have happened:    *)
(* each tail is the last node of its lane, no node is in two lanes or      *)
(* twice in one, every node carries its lane's priority, the mask has a    *)
(* bit exactly for the non-empty lanes, and size and depth count the nodes.*)
WellFormed ==
    /\ \A p \in Priority :
          LET s == LaneOf(p) IN
          /\ tails[p] = IF s = << >> THEN NULL ELSE s[Len(s)]
          /\ s # << >> => next[s[Len(s)]] = NULL
          /\ \A i, j \in DOMAIN s : s[i] = s[j] => i = j
          /\ \A i \in DOMAIN s : priority[s[i]] = p
    /\ ready_mask = {p \in Priority : heads[p] # NULL}
    /\ size = Len(LaneOf(LOW)) + Len(LaneOf(MEDIUM)) + Len(LaneOf(HIGH))
    /\ depth = size

(* One aging pass raises a task by at most one priority: what the second   *)
(* half promotes, the first half did not.                                  *)
OneLevelPerPass ==
    [][pass = "low" =>
          \A t \in promoted : pass' = "idle" => priority'[t] = priority[t]]_vars

(* PriorityQueue implements LaneQueue. *)
Abstract == INSTANCE LaneQueue WITH
    lanes <- [p \in Priority |-> LaneOf(p)], cap <- max_tasks

ImplementsLaneQueue == Abstract!Spec
=============================================================================
