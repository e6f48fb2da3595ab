------------------------------ MODULE ThreadPool ------------------------------
(***************************************************************************)
(* The concurrent core of src/thread_pool.c: worker_func, submit, pause,   *)
(* resume, wait, set_max_tasks and destroy, over the shared queue of       *)
(* src/priority_queue.c.                                                   *)
(*                                                                         *)
(* One step is one access to an atomic, or one critical section.  A        *)
(* condition variable is the set of threads whose pc is its waiting        *)
(* label: signal moves at most one of them back to its re-check, broadcast *)
(* moves all, and a spurious wakeup moves one at any time.                 *)
(***************************************************************************)
EXTENDS PriorityLanes, FiniteSets

CONSTANTS
    Workers,        \* the worker threads
    Submitters,     \* threads that call thread_pool_submit
    Waiters,        \* threads that call thread_pool_wait
    Pausers,        \* threads that call thread_pool_pause and _resume
    Cappers,        \* threads that call thread_pool_set_max_tasks
    Monitors,       \* the pausers that are the pool's own monitor thread
    Overlapping,    \* threads whose calls may overlap thread_pool_destroy
    Caps,           \* the capacities the cappers choose from
    TaskPriority,   \* the priority each task is submitted with
    Aging,          \* whether the pool's aging thread runs
    NoTask          \* a NULL struct task_t *

Clients == Submitters \cup Waiters \cup Pausers \cup Cappers

ASSUME ThreadAssumption ==
    /\ IsFiniteSet(Workers) /\ Workers # {}
    /\ IsFiniteSet(Clients) /\ Workers \cap Clients = {}
    /\ Monitors \subseteq Pausers
    /\ Overlapping \subseteq Clients

ASSUME TaskAssumption ==
    /\ TaskPriority \in [Task -> Priority]
    /\ NoTask \notin Task
    /\ Caps \subseteq Nat
    /\ Aging \in BOOLEAN

VARIABLES
    wpc,            \* where each worker is in worker_func
    cpc,            \* where each client is in the call it makes, or "idle"
    dpc,            \* where the one call of thread_pool_destroy is
    shutdown,
    paused,
    in_flight,      \* in_flight_submits
    total,          \* total_task_in_system
    lanes,          \* pq: heads, tails, ready_mask, size and depth
    max_tasks,      \* pq.max_tasks
    limit,          \* pq_try_push: max, as loaded by each client in its critical section
    busy,           \* worker_t.busy
    task,           \* the local variable task of each worker and submitter
    called,         \* history: the tasks some submit call was made for
    accepted,       \* history: the tasks pq_try_push took
    runs,           \* history: how often each task's function returned
    finished        \* history: tasks each worker finished in this pause

flagVars    == <<shutdown, paused>>
counterVars == <<in_flight, total>>
queueVars   == <<lanes, max_tasks, limit>>
historyVars == <<called, accepted, runs, finished>>
vars == <<wpc, cpc, dpc, flagVars, counterVars, queueVars, busy, task, historyVars>>

WorkerPC == {"top", "pause", "paused", "pop", "waiting", "begin", "run",
             "dec", "signal", "exit"}
SubmitPC == {"s_enter", "s_check", "s_full", "s_create", "s_push", "s_insert",
             "s_signal", "s_undo", "s_leave"}
WaitPC   == {"t_resume", "t_wake", "t_drain", "t_waiting"}
ClientPC == {"idle", "p_wake", "r_wake", "left"} \cup SubmitPC \cup WaitPC
DestroyPC == {"idle", "d_unpause", "d_spin", "d_wake_pq", "d_wake_pause",
              "d_aging", "d_drain", "d_waiting", "d_monitor", "d_stopping",
              "d_join", "d_free", "freed"}

(* thread_pool_init: all workers spawned, queue empty, nobody in a call. *)
Init ==
    /\ wpc = [w \in Workers |-> "top"]
    /\ cpc = [c \in Clients |-> "idle"]
    /\ dpc = "idle"
    /\ shutdown = FALSE
    /\ paused = FALSE
    /\ in_flight = 0
    /\ total = 0
    /\ lanes = EmptyLanes
    /\ max_tasks = 0
    /\ limit = [c \in Clients |-> 0]
    /\ busy = [w \in Workers |-> FALSE]
    /\ task = [x \in Workers \cup Submitters |-> NoTask]
    /\ called = {}
    /\ accepted = {}
    /\ runs = [t \in Task |-> 0]
    /\ finished = [w \in Workers |-> 0]

-------------------------------------------------------------------------------
(* pq->mutex is held by a submitter between its load of the capacity and   *)
(* its insertion; the other critical sections are single steps.            *)
PqFree == \A c \in Clients : cpc[c] # "s_insert"

(* Wakeups.  Each operator gives the next value of the pc of the woken     *)
(* threads.                                                                *)

(* pthread_cond_signal on pq->not_empty. *)
SignalNotEmpty ==
    IF \E w \in Workers : wpc[w] = "waiting"
    THEN \E w \in Workers : /\ wpc[w] = "waiting"
                            /\ wpc' = [wpc EXCEPT ![w] = "pop"]
    ELSE wpc' = wpc

(* pq_wake_all: broadcast on pq->not_empty, under pq->mutex. *)
WakeAll ==
    /\ PqFree
    /\ wpc' = [w \in Workers |-> IF wpc[w] = "waiting" THEN "pop" ELSE wpc[w]]

(* thread_pool_wake_pause: broadcast on pause_cond. *)
WakePause ==
    wpc' = [w \in Workers |-> IF wpc[w] = "paused" THEN "pause" ELSE wpc[w]]

(* pthread_cond_signal on drain_cond: one of the callers blocked in        *)
(* thread_pool_wait or thread_pool_destroy.                                *)
DrainWaiters == {c \in Clients : cpc[c] = "t_waiting"}

SignalDrain ==
    \/ \E c \in DrainWaiters :
          cpc' = [cpc EXCEPT ![c] = "t_drain"] /\ dpc' = dpc
    \/ dpc = "d_waiting" /\ dpc' = "d_drain" /\ cpc' = cpc
    \/ DrainWaiters = {} /\ dpc # "d_waiting" /\ UNCHANGED <<cpc, dpc>>

-------------------------------------------------------------------------------
(* worker_func *)

(* Mutated WorkerTop: the pause test is missing. *)
WorkerTopUnpaused(w) ==
    /\ wpc[w] = "top"
    /\ wpc' = [wpc EXCEPT ![w] = "pop"]
    /\ UNCHANGED <<cpc, dpc, flagVars, counterVars, queueVars, busy, task, historyVars>>

WorkerTop(w) ==
    /\ wpc[w] = "top"
    /\ wpc' = [wpc EXCEPT ![w] = IF paused THEN "pause" ELSE "pop"]
    /\ UNCHANGED <<cpc, dpc, flagVars, counterVars, queueVars, busy, task, historyVars>>

(* The pause loop re-reads paused under pause_mutex; it does not look at   *)
(* shutdown.                                                               *)
WorkerPause(w) ==
    /\ wpc[w] = "pause"
    /\ wpc' = [wpc EXCEPT ![w] = IF paused THEN "paused" ELSE "pop"]
    /\ UNCHANGED <<cpc, dpc, flagVars, counterVars, queueVars, busy, task, historyVars>>

(* pq_pop_until_shutdown: one pass of its loop under pq->mutex. *)
WorkerPop(w) ==
    /\ wpc[w] = "pop" /\ PqFree
    /\ IF Ready(lanes) # {}
       THEN /\ wpc' = [wpc EXCEPT ![w] = "begin"]
            /\ task' = [task EXCEPT ![w] = First(lanes)]
            /\ lanes' = RemoveFirst(lanes)
       ELSE /\ wpc' = [wpc EXCEPT ![w] = IF shutdown THEN "exit" ELSE "waiting"]
            /\ UNCHANGED <<task, lanes>>
    /\ UNCHANGED <<cpc, dpc, flagVars, counterVars, max_tasks, limit, busy, historyVars>>

WorkerBegin(w) ==
    /\ wpc[w] = "begin"
    /\ wpc' = [wpc EXCEPT ![w] = "run"]
    /\ busy' = [busy EXCEPT ![w] = TRUE]
    /\ UNCHANGED <<cpc, dpc, flagVars, counterVars, queueVars, task, historyVars>>

(* Mutated WorkerFinish: busy stays set. *)
WorkerFinishStaysBusy(w) ==
    /\ wpc[w] = "run"
    /\ wpc' = [wpc EXCEPT ![w] = "dec"]
    /\ task' = [task EXCEPT ![w] = NoTask]
    /\ runs' = [runs EXCEPT ![task[w]] = @ + 1]
    /\ finished' = [finished EXCEPT ![w] = IF paused THEN @ + 1 ELSE @]
    /\ UNCHANGED <<cpc, dpc, flagVars, counterVars, queueVars, busy, called, accepted>>

(* The task's function returns, the task is freed, busy is cleared. *)
WorkerFinish(w) ==
    /\ wpc[w] = "run"
    /\ wpc' = [wpc EXCEPT ![w] = "dec"]
    /\ busy' = [busy EXCEPT ![w] = FALSE]
    /\ task' = [task EXCEPT ![w] = NoTask]
    /\ runs' = [runs EXCEPT ![task[w]] = @ + 1]
    /\ finished' = [finished EXCEPT ![w] = IF paused THEN @ + 1 ELSE @]
    /\ UNCHANGED <<cpc, dpc, flagVars, counterVars, queueVars, called, accepted>>

WorkerDec(w) ==
    /\ wpc[w] = "dec"
    /\ total' = total - 1
    /\ wpc' = [wpc EXCEPT ![w] = IF total' = 0 THEN "signal" ELSE "top"]
    /\ UNCHANGED <<cpc, dpc, flagVars, in_flight, queueVars, busy, task, historyVars>>

WorkerSignal(w) ==
    /\ wpc[w] = "signal"
    /\ wpc' = [wpc EXCEPT ![w] = "top"]
    /\ SignalDrain
    /\ UNCHANGED <<flagVars, counterVars, queueVars, busy, task, historyVars>>

WorkerStep(w) ==
    \/ WorkerTop(w) \/ WorkerPause(w) \/ WorkerPop(w) \/ WorkerBegin(w)
    \/ WorkerFinish(w) \/ WorkerDec(w) \/ WorkerSignal(w)

-------------------------------------------------------------------------------
(* Which calls the program makes.  A client in Overlapping may call while  *)
(* thread_pool_destroy runs, until the pool is freed; the monitor thread   *)
(* may until monitor_stop has joined it; the others are done by then.      *)
MayCall(c) ==
    /\ cpc[c] = "idle"
    /\ \/ dpc = "idle"
       \/ c \in Overlapping /\ dpc # "freed"
       \/ c \in Monitors /\ dpc \notin {"d_join", "d_free", "freed"}

(* thread_pool_submit *)

SubmitCall(c) ==
    /\ MayCall(c)
    /\ \E t \in Task \ called :
          /\ called' = called \cup {t}
          /\ task' = [task EXCEPT ![c] = t]
    /\ cpc' = [cpc EXCEPT ![c] = "s_enter"]
    /\ UNCHANGED <<wpc, dpc, flagVars, counterVars, queueVars, busy, accepted, runs, finished>>

SubmitEnter(c) ==
    /\ cpc[c] = "s_enter"
    /\ in_flight' = in_flight + 1
    /\ cpc' = [cpc EXCEPT ![c] = "s_check"]
    /\ UNCHANGED <<wpc, dpc, flagVars, total, queueVars, busy, task, historyVars>>

(* Mutated SubmitCheckShutdown: the ESHUTDOWN return forgets to decrement  *)
(* in_flight_submits.                                                      *)
SubmitCheckShutdownLeaky(c) ==
    /\ cpc[c] = "s_check"
    /\ cpc' = [cpc EXCEPT ![c] = IF shutdown THEN "idle" ELSE "s_full"]
    /\ task' = [task EXCEPT ![c] = IF shutdown THEN NoTask ELSE @]
    /\ UNCHANGED <<wpc, dpc, flagVars, counterVars, queueVars, busy, historyVars>>

SubmitCheckShutdown(c) ==
    /\ cpc[c] = "s_check"
    /\ cpc' = [cpc EXCEPT ![c] = IF shutdown THEN "s_leave" ELSE "s_full"]
    /\ UNCHANGED <<wpc, dpc, flagVars, counterVars, queueVars, busy, task, historyVars>>

(* pq_is_full_approx; depth mirrors the size of the queue.  A store between *)
(* its two loads can only turn the call away, as a failing malloc does.    *)
SubmitFullApprox(c) ==
    /\ cpc[c] = "s_full"
    /\ cpc' = [cpc EXCEPT ![c] =
                  IF AtCapacity(Size(lanes), max_tasks) THEN "s_leave" ELSE "s_create"]
    /\ UNCHANGED <<wpc, dpc, flagVars, counterVars, queueVars, busy, task, historyVars>>

(* Mutated SubmitCreate: the task is never counted. *)
SubmitCreateUncounted(c) ==
    /\ cpc[c] = "s_create"
    /\ cpc' = [cpc EXCEPT ![c] = "s_push"]
    /\ UNCHANGED <<wpc, dpc, flagVars, counterVars, queueVars, busy, task, historyVars>>

(* task_create returns NULL when malloc fails; otherwise the task counts   *)
(* as in the system before it is queued.                                   *)
SubmitCreate(c) ==
    /\ cpc[c] = "s_create"
    /\ \/ /\ cpc' = [cpc EXCEPT ![c] = "s_leave"]
          /\ total' = total
       \/ /\ cpc' = [cpc EXCEPT ![c] = "s_push"]
          /\ total' = total + 1
    /\ UNCHANGED <<wpc, dpc, flagVars, in_flight, queueVars, busy, task, historyVars>>

(* Mutated SubmitTryPush: the capacity is tested before pq->mutex is       *)
(* taken.                                                                  *)
SubmitTryPushUnlocked(c) ==
    /\ cpc[c] = "s_push"
    /\ IF AtCapacity(Size(lanes), max_tasks)
       THEN cpc' = [cpc EXCEPT ![c] = "s_undo"] /\ limit' = limit
       ELSE cpc' = [cpc EXCEPT ![c] = "s_insert"] /\ limit' = [limit EXCEPT ![c] = max_tasks]
    /\ UNCHANGED <<wpc, dpc, flagVars, counterVars, lanes, max_tasks, busy, task, historyVars>>

(* pq_try_push takes pq->mutex, loads the capacity and tests it.  It keeps *)
(* the mutex when there is room; pq_set_max_tasks does not need it.        *)
SubmitTryPush(c) ==
    /\ cpc[c] = "s_push" /\ PqFree
    /\ IF AtCapacity(Size(lanes), max_tasks)
       THEN cpc' = [cpc EXCEPT ![c] = "s_undo"] /\ limit' = limit
       ELSE cpc' = [cpc EXCEPT ![c] = "s_insert"] /\ limit' = [limit EXCEPT ![c] = max_tasks]
    /\ UNCHANGED <<wpc, dpc, flagVars, counterVars, lanes, max_tasks, busy, task, historyVars>>

(* The insertion, and the release of pq->mutex. *)
SubmitInsert(c) ==
    /\ cpc[c] = "s_insert"
    /\ cpc' = [cpc EXCEPT ![c] = "s_signal"]
    /\ lanes' = Insert(lanes, task[c], TaskPriority[task[c]])
    /\ limit' = [limit EXCEPT ![c] = 0]
    /\ accepted' = accepted \cup {task[c]}
    /\ UNCHANGED <<wpc, dpc, flagVars, counterVars, max_tasks, busy, task, called, runs, finished>>

(* Mutated SubmitSignal: signal only when the queue has just become        *)
(* non-empty.                                                              *)
SubmitSignalFirstOnly(c) ==
    /\ cpc[c] = "s_signal"
    /\ IF Size(lanes) <= 1 THEN SignalNotEmpty ELSE wpc' = wpc
    /\ cpc' = [cpc EXCEPT ![c] = "s_leave"]
    /\ UNCHANGED <<dpc, flagVars, counterVars, queueVars, busy, task, historyVars>>

(* pq_try_push signals not_empty after it has released pq->mutex. *)
SubmitSignal(c) ==
    /\ cpc[c] = "s_signal"
    /\ SignalNotEmpty
    /\ cpc' = [cpc EXCEPT ![c] = "s_leave"]
    /\ UNCHANGED <<dpc, flagVars, counterVars, queueVars, busy, task, historyVars>>

(* Mutated SubmitUndo: the rejected task stays counted. *)
SubmitUndoForgets(c) ==
    /\ cpc[c] = "s_undo"
    /\ cpc' = [cpc EXCEPT ![c] = "s_leave"]
    /\ UNCHANGED <<wpc, dpc, flagVars, counterVars, queueVars, busy, task, historyVars>>

(* The rejected push takes the task out of the count, without a signal on  *)
(* drain_cond.                                                             *)
SubmitUndo(c) ==
    /\ cpc[c] = "s_undo"
    /\ total' = total - 1
    /\ cpc' = [cpc EXCEPT ![c] = "s_leave"]
    /\ UNCHANGED <<wpc, dpc, flagVars, in_flight, queueVars, busy, task, historyVars>>

SubmitLeave(c) ==
    /\ cpc[c] = "s_leave"
    /\ in_flight' = in_flight - 1
    /\ task' = [task EXCEPT ![c] = NoTask]
    /\ cpc' = [cpc EXCEPT ![c] = "idle"]
    /\ UNCHANGED <<wpc, dpc, flagVars, total, queueVars, busy, historyVars>>

SubmitStep(c) ==
    \/ SubmitEnter(c) \/ SubmitCheckShutdown(c) \/ SubmitFullApprox(c)
    \/ SubmitCreate(c) \/ SubmitTryPush(c) \/ SubmitInsert(c) \/ SubmitSignal(c)
    \/ SubmitUndo(c) \/ SubmitLeave(c)

-------------------------------------------------------------------------------
(* thread_pool_pause, thread_pool_resume, thread_pool_set_max_tasks *)

(* Where the call returns to.  A monitor thread that has handled a key     *)
(* finds running cleared by monitor_stop and leaves.                       *)
Back(c) == IF c \in Monitors /\ dpc = "d_stopping" THEN "left" ELSE "idle"

PauseCall(c) ==
    /\ MayCall(c)
    /\ paused' = TRUE
    /\ finished' = IF paused THEN finished ELSE [w \in Workers |-> 0]
    /\ cpc' = [cpc EXCEPT ![c] = "p_wake"]
    /\ UNCHANGED <<wpc, dpc, shutdown, counterVars, queueVars, busy, task, called, accepted, runs>>

PauseWakeAll(c) ==
    /\ cpc[c] = "p_wake"
    /\ WakeAll
    /\ cpc' = [cpc EXCEPT ![c] = Back(c)]
    /\ UNCHANGED <<dpc, flagVars, counterVars, queueVars, busy, task, historyVars>>

ResumeCall(c) ==
    /\ MayCall(c)
    /\ paused' = FALSE
    /\ cpc' = [cpc EXCEPT ![c] = "r_wake"]
    /\ UNCHANGED <<wpc, dpc, shutdown, counterVars, queueVars, busy, task, historyVars>>

(* Mutated ResumeWakePause: the flag is cleared and nobody is woken. *)
ResumeSilently(c) ==
    /\ cpc[c] = "r_wake"
    /\ cpc' = [cpc EXCEPT ![c] = Back(c)]
    /\ UNCHANGED <<wpc, dpc, flagVars, counterVars, queueVars, busy, task, historyVars>>

ResumeWakePause(c) ==
    /\ cpc[c] = "r_wake"
    /\ WakePause
    /\ cpc' = [cpc EXCEPT ![c] = Back(c)]
    /\ UNCHANGED <<dpc, flagVars, counterVars, queueVars, busy, task, historyVars>>

SetMaxTasks(c) ==
    /\ MayCall(c)
    /\ max_tasks' \in Caps
    /\ UNCHANGED <<wpc, cpc, dpc, flagVars, counterVars, lanes, limit, busy, task, historyVars>>

(* thread_pool_wait *)

WaitCall(c) ==
    /\ MayCall(c)
    /\ cpc' = [cpc EXCEPT ![c] = IF paused THEN "t_resume" ELSE "t_drain"]
    /\ UNCHANGED <<wpc, dpc, flagVars, counterVars, queueVars, busy, task, historyVars>>

WaitResume(c) ==
    /\ cpc[c] = "t_resume"
    /\ paused' = FALSE
    /\ cpc' = [cpc EXCEPT ![c] = "t_wake"]
    /\ UNCHANGED <<wpc, dpc, shutdown, counterVars, queueVars, busy, task, historyVars>>

(* Mutated WaitWakePause: the flag is cleared and nobody is woken. *)
WaitResumeSilently(c) ==
    /\ cpc[c] = "t_wake"
    /\ cpc' = [cpc EXCEPT ![c] = "t_drain"]
    /\ UNCHANGED <<wpc, dpc, flagVars, counterVars, queueVars, busy, task, historyVars>>

WaitWakePause(c) ==
    /\ cpc[c] = "t_wake"
    /\ WakePause
    /\ cpc' = [cpc EXCEPT ![c] = "t_drain"]
    /\ UNCHANGED <<dpc, flagVars, counterVars, queueVars, busy, task, historyVars>>

(* Mutated WaitDrain: waits for an empty queue instead of total = 0. *)
WaitDrainQueue(c) ==
    /\ cpc[c] = "t_drain"
    /\ cpc' = [cpc EXCEPT ![c] = IF Size(lanes) > 0 THEN "t_waiting" ELSE "idle"]
    /\ UNCHANGED <<wpc, dpc, flagVars, counterVars, queueVars, busy, task, historyVars>>

(* One pass of the drain loop under drain_mutex. *)
WaitDrain(c) ==
    /\ cpc[c] = "t_drain"
    /\ cpc' = [cpc EXCEPT ![c] = IF total > 0 THEN "t_waiting" ELSE "idle"]
    /\ UNCHANGED <<wpc, dpc, flagVars, counterVars, queueVars, busy, task, historyVars>>

ControlStep(c) ==
    \/ PauseWakeAll(c) \/ ResumeWakePause(c)
    \/ WaitResume(c) \/ WaitWakePause(c) \/ WaitDrain(c)

-------------------------------------------------------------------------------
(* thread_pool_destroy *)

DestroyShutdown ==
    /\ dpc = "idle"
    /\ \A c \in Clients \ (Overlapping \cup Monitors) : cpc[c] = "idle"
    /\ shutdown' = TRUE
    /\ dpc' = "d_unpause"
    /\ UNCHANGED <<wpc, cpc, paused, counterVars, queueVars, busy, task, historyVars>>

DestroyUnpause ==
    /\ dpc = "d_unpause"
    /\ paused' = FALSE
    /\ dpc' = "d_spin"
    /\ UNCHANGED <<wpc, cpc, shutdown, counterVars, queueVars, busy, task, historyVars>>

(* Mutated DestroySpin: does not wait for in_flight_submits. *)
DestroySpinDropped ==
    /\ dpc = "d_spin"
    /\ dpc' = "d_wake_pq"
    /\ UNCHANGED <<wpc, cpc, flagVars, counterVars, queueVars, busy, task, historyVars>>

DestroySpin ==
    /\ dpc = "d_spin"
    /\ in_flight = 0
    /\ dpc' = "d_wake_pq"
    /\ UNCHANGED <<wpc, cpc, flagVars, counterVars, queueVars, busy, task, historyVars>>

(* Mutated DestroyWakeAll: the sleeping workers are not woken. *)
DestroyWakesNobody ==
    /\ dpc = "d_wake_pq"
    /\ dpc' = "d_wake_pause"
    /\ UNCHANGED <<wpc, cpc, flagVars, counterVars, queueVars, busy, task, historyVars>>

DestroyWakeAll ==
    /\ dpc = "d_wake_pq"
    /\ WakeAll
    /\ dpc' = "d_wake_pause"
    /\ UNCHANGED <<cpc, flagVars, counterVars, queueVars, busy, task, historyVars>>

DestroyWakePause ==
    /\ dpc = "d_wake_pause"
    /\ WakePause
    /\ dpc' = "d_aging"
    /\ UNCHANGED <<cpc, flagVars, counterVars, queueVars, busy, task, historyVars>>

(* thread_pool_disable_aging: without aging it returns at once; with       *)
(* aging it wakes the paused workers once more and joins the aging thread. *)
DestroyDisableAging ==
    /\ dpc = "d_aging"
    /\ IF Aging THEN WakePause ELSE wpc' = wpc
    /\ dpc' = "d_drain"
    /\ UNCHANGED <<cpc, flagVars, counterVars, queueVars, busy, task, historyVars>>

(* Mutated DestroyDrain: waits for an empty queue instead of total = 0. *)
DestroyDrainQueue ==
    /\ dpc = "d_drain"
    /\ dpc' = IF Size(lanes) > 0 THEN "d_waiting" ELSE "d_monitor"
    /\ UNCHANGED <<wpc, cpc, flagVars, counterVars, queueVars, busy, task, historyVars>>

(* One pass of the drain loop under drain_mutex. *)
DestroyDrain ==
    /\ dpc = "d_drain"
    /\ dpc' = IF total > 0 THEN "d_waiting" ELSE "d_monitor"
    /\ UNCHANGED <<wpc, cpc, flagVars, counterVars, queueVars, busy, task, historyVars>>

(* monitor_stop clears running and joins the monitor thread, which may     *)
(* still handle the key of the round it is in.                             *)
DestroyMonitorStop ==
    /\ dpc = "d_monitor"
    /\ dpc' = "d_stopping"
    /\ UNCHANGED <<wpc, cpc, flagVars, counterVars, queueVars, busy, task, historyVars>>

DestroyMonitorJoin ==
    /\ dpc = "d_stopping"
    /\ \A c \in Monitors : cpc[c] \in {"idle", "left"}
    /\ dpc' = "d_join"
    /\ UNCHANGED <<wpc, cpc, flagVars, counterVars, queueVars, busy, task, historyVars>>

DestroyJoin ==
    /\ dpc = "d_join"
    /\ \A w \in Workers : wpc[w] = "exit"
    /\ dpc' = "d_free"
    /\ UNCHANGED <<wpc, cpc, flagVars, counterVars, queueVars, busy, task, historyVars>>

(* pq_destroy frees whatever is still queued; then the pool is freed. *)
DestroyFree ==
    /\ dpc = "d_free"
    /\ lanes' = EmptyLanes
    /\ dpc' = "freed"
    /\ UNCHANGED <<wpc, cpc, flagVars, counterVars, max_tasks, limit, busy, task, historyVars>>

DestroyStep ==
    \/ DestroyUnpause \/ DestroySpin \/ DestroyWakeAll \/ DestroyWakePause
    \/ DestroyDisableAging \/ DestroyDrain \/ DestroyMonitorStop
    \/ DestroyMonitorJoin \/ DestroyJoin \/ DestroyFree

-------------------------------------------------------------------------------
(* The aging thread, seen from the queue: until thread_pool_destroy has    *)
(* joined it, a pass moves some prefix of a lane one priority up and then  *)
(* broadcasts not_empty.                                                   *)
AgingPromote ==
    /\ Aging
    /\ dpc \in {"idle", "d_unpause", "d_spin", "d_wake_pq", "d_wake_pause", "d_aging"}
    /\ \E pair \in PromotionPairs : \E n \in 1 .. Len(lanes[pair[1]]) :
          lanes' = Promote(lanes, pair[1], pair[2], n)
    /\ WakeAll
    /\ UNCHANGED <<cpc, dpc, flagVars, counterVars, max_tasks, limit, busy, task, historyVars>>

(* pthread_cond_wait may return without a signal. *)
SpuriousWakeup ==
    \/ /\ \E w \in Workers :
             \/ wpc[w] = "waiting" /\ wpc' = [wpc EXCEPT ![w] = "pop"]
             \/ wpc[w] = "paused" /\ wpc' = [wpc EXCEPT ![w] = "pause"]
       /\ UNCHANGED <<cpc, dpc>>
       /\ UNCHANGED <<flagVars, counterVars, queueVars, busy, task, historyVars>>
    \/ /\ \E c \in DrainWaiters : cpc' = [cpc EXCEPT ![c] = "t_drain"]
       /\ UNCHANGED <<wpc, dpc>>
       /\ UNCHANGED <<flagVars, counterVars, queueVars, busy, task, historyVars>>
    \/ /\ dpc = "d_waiting" /\ dpc' = "d_drain"
       /\ UNCHANGED <<wpc, cpc>>
       /\ UNCHANGED <<flagVars, counterVars, queueVars, busy, task, historyVars>>

-------------------------------------------------------------------------------
(* A step a client takes inside a call after the pool is freed is a use    *)
(* after free; the model stops that client instead of choosing an outcome. *)
ClientStep(c) ==
    /\ dpc # "freed"
    /\ \/ c \in Submitters /\ SubmitStep(c)
       \/ ControlStep(c)

ClientCall(c) ==
    \/ c \in Submitters /\ SubmitCall(c)
    \/ c \in Waiters /\ WaitCall(c)
    \/ c \in Pausers /\ (PauseCall(c) \/ ResumeCall(c))
    \/ c \in Cappers /\ SetMaxTasks(c)

Next ==
    \/ \E w \in Workers : WorkerStep(w)
    \/ \E c \in Clients : ClientStep(c) \/ ClientCall(c)
    \/ DestroyShutdown
    \/ DestroyStep
    \/ AgingPromote
    \/ SpuriousWakeup

Spec == Init /\ [][Next]_vars

(* The scheduler runs every thread that can run, a mutex is handed on, and *)
(* a task's function returns.  Nothing obliges a client to make a call or  *)
(* a spurious wakeup to happen.                                            *)
Fairness ==
    /\ \A w \in Workers : WF_vars(WorkerStep(w))
    /\ \A c \in Clients : WF_vars(ClientStep(c))
    /\ WF_vars(DestroyStep)

FairSpec == Spec /\ Fairness

-------------------------------------------------------------------------------
(* Properties *)

TypeOK ==
    /\ wpc \in [Workers -> WorkerPC]
    /\ cpc \in [Clients -> ClientPC]
    /\ dpc \in DestroyPC
    /\ shutdown \in BOOLEAN
    /\ paused \in BOOLEAN
    /\ in_flight \in Nat
    /\ total \in Nat
    /\ lanes \in Lanes
    /\ max_tasks \in Nat
    /\ limit \in [Clients -> Nat]
    /\ busy \in [Workers -> BOOLEAN]
    /\ task \in [Workers \cup Submitters -> Task \cup {NoTask}]
    /\ called \in SUBSET Task
    /\ accepted \in SUBSET Task
    /\ runs \in [Task -> Nat]
    /\ finished \in [Workers -> Nat]

(* The submitters that have counted their task and not yet queued or       *)
(* uncounted it, and the workers whose task is popped and still counted.   *)
Pushing == {c \in Clients : cpc[c] \in {"s_push", "s_insert", "s_undo"}}
Holding == {w \in Workers : wpc[w] \in {"begin", "run", "dec"}}

(* total_task_in_system counts each task from before it is queued until    *)
(* after its worker has finished it: at no moment is a queued or running   *)
(* task uncounted, so the drain loops of wait and destroy cannot see 0     *)
(* early (the premature drain that test_deadlock.c looks for).             *)
TotalExact ==
    total = Cardinality(Pushing) + Size(lanes) + Cardinality(Holding)

(* in_flight_submits counts the submit calls between their increment and   *)
(* their decrement, on every return path of thread_pool_submit.            *)
InFlight == {c \in Clients : cpc[c] \in SubmitPC \ {"s_enter"}}
InFlightExact == in_flight = Cardinality(InFlight)

(* Once thread_pool_destroy has left its in_flight spin, no submitter is   *)
(* past the shutdown check: nobody will count, queue or signal a task      *)
(* again, although calls may still begin and be turned away.               *)
PastSpin == dpc \in DestroyPC \ {"idle", "d_unpause", "d_spin"}
SubmissionClosed ==
    PastSpin => \A c \in Clients :
        cpc[c] \notin {"s_full", "s_create", "s_push", "s_insert", "s_signal", "s_undo"}

(* A task that pq_try_push took and that has not run yet is in exactly one  *)
(* place: linked once into one lane, or held by one worker.  Nobody else    *)
(* frees it or runs it, so task_destroy in worker_func is its only free.    *)
Working(w) == wpc[w] \in {"begin", "run"}
OneOwner ==
    /\ NoDup(lanes)
    /\ \A t \in Task : In(lanes, t) =>
          t \in accepted /\ runs[t] = 0 /\ \A w \in Workers : Working(w) => task[w] # t
    /\ \A w \in Workers : Working(w) => task[w] \in accepted /\ runs[task[w]] = 0
    /\ \A v, w \in Workers : Working(v) /\ Working(w) /\ task[v] = task[w] => v = w
    /\ \A t \in accepted : runs[t] = 0 =>
          In(lanes, t) \/ \E w \in Workers : Working(w) /\ task[w] = t

(* No task runs twice, and none runs that pq_try_push did not take. *)
RunsAtMostOnce ==
    \A t \in Task : runs[t] <= 1 /\ (runs[t] = 1 => t \in accepted)

(* From the moment thread_pool_destroy leaves its drain loop, every        *)
(* accepted task has run: pq_destroy never frees a queued task.            *)
NothingDropped ==
    dpc \in {"d_monitor", "d_stopping", "d_join", "d_free", "freed"}
        => \A t \in accepted : runs[t] = 1

(* When thread_pool_wait returns, every task accepted up to that moment    *)
(* has run and no worker is shown busy.                                    *)
WaitReturnsDrained ==
    [][\A c \in Waiters :
          cpc[c] = "t_drain" /\ cpc'[c] = "idle"
              => /\ \A t \in accepted : runs[t] = 1
                 /\ \A w \in Workers : ~busy[w]]_vars

(* While the pool stays paused each worker finishes at most one task, the  *)
(* bound test_thread_pool.c:302 asserts.  It may be one submitted after    *)
(* the pause: see PauseHolds.                                              *)
PauseBound == paused => \A w \in Workers : finished[w] <= 1

(* Once thread_pool_pause has returned, and until the pool is resumed, no  *)
(* worker takes a task: "only tasks already running at pause time may      *)
(* complete" (test_thread_pool.c:301).                                     *)
PauseHolds ==
    [][paused /\ paused' /\ (\A c \in Pausers : cpc[c] # "p_wake")
           => \A w \in Workers : wpc[w] = "pop" => wpc'[w] # "begin"]_vars

(* A worker asleep on not_empty is not forgotten: the queued tasks are     *)
(* never more than the workers that are awake (each will look at the queue *)
(* again before it sleeps) and the signals still to come.                  *)
Awake == {w \in Workers : wpc[w] \notin {"waiting", "exit"}}
Signalling == {c \in Clients : cpc[c] = "s_signal"}
NoLostWakeup ==
    (\E w \in Workers : wpc[w] = "waiting")
        => Size(lanes) <= Cardinality(Awake) + Cardinality(Signalling)

(* The capacity a push has tested stays respected until the push is done:  *)
(* however many submitters passed the lockless test before, and whatever   *)
(* pq_set_max_tasks stores meanwhile, an insertion never takes the queue   *)
(* above the capacity loaded in the same critical section (priority_queue.c*)
(* line 104: "no TOCTOU").  A capacity stored after that load does not     *)
(* bind it.                                                                *)
CapacityRespected ==
    [][Size(lanes') > Size(lanes) =>
         \E c \in Submitters : /\ cpc[c] = "s_insert" /\ cpc'[c] = "s_signal"
                               /\ limit[c] = 0 \/ Size(lanes') <= limit[c]]_vars

(* thread_pool_destroy returns. *)
DestroyTerminates == (dpc # "idle") ~> (dpc = "freed")

(* thread_pool_wait returns. *)
WaitReturns == \A c \in Waiters : (cpc[c] \in WaitPC) ~> (cpc[c] = "idle")

(* Once nobody pauses the pool any more, every accepted task runs: neither *)
(* a signal on not_empty nor the broadcast of a resume gets lost.          *)
TasksRun ==
    <>[]~paused => \A t \in Task : t \in accepted ~> runs[t] = 1

-------------------------------------------------------------------------------
(* The inductive invariant of the proofs in ThreadPoolProofs. *)

(* A submit call in progress has a task of its own, which nobody else has  *)
(* queued.                                                                 *)
Callers ==
    /\ accepted \subseteq called
    /\ \A c \in Clients : cpc[c] \in SubmitPC =>
          /\ c \in Submitters /\ task[c] \in called
          /\ cpc[c] \in {"s_enter", "s_check", "s_full", "s_create", "s_push", "s_insert"}
                => task[c] \notin accepted
    /\ \A c, d \in Clients :
          cpc[c] \in SubmitPC /\ cpc[d] \in SubmitPC /\ task[c] = task[d] => c = d

(* thread_pool_destroy is what sets shutdown. *)
Shut == dpc # "idle" <=> shutdown

(* Past its drain loop, thread_pool_destroy has seen total = 0 for good. *)
Drained ==
    dpc \in {"d_monitor", "d_stopping", "d_join", "d_free", "freed"} => total = 0

(* busy is set around the call of the task's function. *)
BusyShown == \A w \in Workers : busy[w] <=> wpc[w] = "run"

(* pq->mutex admits one submitter, and while it holds the mutex the queue  *)
(* stays below the capacity it has loaded.                                 *)
Inserting ==
    /\ \A c, d \in Clients : cpc[c] = "s_insert" /\ cpc[d] = "s_insert" => c = d
    /\ \A c \in Clients : cpc[c] = "s_insert" => ~AtCapacity(Size(lanes), limit[c])

(* Together with the counts, the closed door and the single owner these    *)
(* are preserved by every step of every thread.                            *)
IInv ==
    /\ TypeOK /\ TotalExact /\ InFlightExact /\ SubmissionClosed
    /\ Callers /\ Inserting /\ Shut /\ Drained /\ BusyShown
    /\ OneOwner /\ RunsAtMostOnce
=============================================================================
