---------------------------- MODULE PoolLifecycle ----------------------------
(***************************************************************************)
(* What src/thread_pool.c sets up and takes down: thread_pool_init with    *)
(* its error labels, the aging thread from thread_pool_enable_aging to     *)
(* thread_pool_disable_aging, and thread_pool_destroy.  No task is ever    *)
(* submitted here (module ThreadPool has them); the workers wait out a     *)
(* pause and sleep in the empty queue until shutdown.                      *)
(*                                                                         *)
(* One step is one access to an atomic or one critical section.            *)
(* aging_mutex is held by an aging thread whose pc is in Holding.          *)
(***************************************************************************)
EXTENDS Naturals, Sequences, FiniteSets

CONSTANTS
    Owner,          \* the thread that creates and destroys the pool
    Callers,        \* the threads that call the pool's functions, Owner among them
    NumWorkers,     \* num_workers
    AgingThreads,   \* ids pthread_create hands out for aging_worker
    NoThread        \* aging_tid before it is written

ASSUME LifecycleAssumption ==
    /\ Owner \in Callers /\ IsFiniteSet(Callers)
    /\ NumWorkers \in Nat \ {0}
    /\ NoThread \notin AgingThreads

VARIABLES
    pc,             \* where each caller is, "idle" between two calls
    held,           \* the resources that are allocated or initialised
    wpc,            \* the workers
    apc,            \* the aging threads
    shutdown,
    paused,
    aging_enable,
    aging_tid,
    passes,         \* history: aging passes since the pool was last paused
    undefined,      \* history: a thread id was joined that was not joinable
    overlap         \* history: two callers were in the critical part at once

vars == <<pc, held, wpc, apc, shutdown, paused, aging_enable, aging_tid, passes,
          undefined, overlap>>

Workers == 1 .. NumWorkers

(* In the order thread_pool_init acquires them. *)
Resources == <<"pool", "pq_mutex", "pq_cond", "drain_mutex", "drain_cond", "aging_mutex",
               "aging_cond", "pause_mutex", "pause_cond", "workers">>
AllResources == {Resources[i] : i \in 1 .. Len(Resources)}

(* Where a step of thread_pool_init goes that cannot get its resource, and *)
(* what the error labels destroy before they fall through to the next.     *)
(* "pq_undo" is the failure of the second step of pq_init, which undoes    *)
(* the first; without the pool itself there is nothing to undo.            *)

(* Mutated ErrorLabel: the goto of one step names the label below its own. *)
ErrorLabelBelow ==
    [pool |-> "failed", pq_mutex |-> "err_free_pool", pq_cond |-> "pq_undo",
     drain_mutex |-> "err_pq", drain_cond |-> "err_drain_mutex",
     aging_mutex |-> "err_drain_cond", aging_cond |-> "err_drain_cond",
     pause_mutex |-> "err_aging_cond", pause_cond |-> "err_pause_mutex",
     workers |-> "err_pause_cond"]

ErrorLabel ==
    [pool |-> "failed", pq_mutex |-> "err_free_pool", pq_cond |-> "pq_undo",
     drain_mutex |-> "err_pq", drain_cond |-> "err_drain_mutex",
     aging_mutex |-> "err_drain_cond", aging_cond |-> "err_aging_mutex",
     pause_mutex |-> "err_aging_cond", pause_cond |-> "err_pause_mutex",
     workers |-> "err_pause_cond"]

Destroys ==
    [err_workers |-> {"workers"}, err_pause_cond |-> {"pause_cond"},
     err_pause_mutex |-> {"pause_mutex"}, err_aging_cond |-> {"aging_cond"},
     err_aging_mutex |-> {"aging_mutex"}, err_drain_cond |-> {"drain_cond"},
     err_drain_mutex |-> {"drain_mutex"}, err_pq |-> {"pq_cond", "pq_mutex"},
     pq_undo |-> {"pq_mutex"}, err_free_pool |-> {"pool"}]

FallsTo ==
    [err_workers |-> "err_pause_cond", err_pause_cond |-> "err_pause_mutex",
     err_pause_mutex |-> "err_aging_cond", err_aging_cond |-> "err_aging_mutex",
     err_aging_mutex |-> "err_drain_cond", err_drain_cond |-> "err_drain_mutex",
     err_drain_mutex |-> "err_pq", err_pq |-> "err_free_pool",
     pq_undo |-> "err_free_pool", err_free_pool |-> "failed"]

ErrorLabels == {"err_workers", "err_pause_cond", "err_pause_mutex", "err_aging_cond",
                "err_aging_mutex", "err_drain_cond", "err_drain_mutex", "err_pq", "pq_undo",
                "err_free_pool"}

CallerPC == {"idle", "i_acquire", "i_spawn", "i_wake", "i_join", "failed",
             "p_wake", "r_wake", "e_lock", "e_create", "e_undo", "x_test", "x_clear",
             "x_signal", "x_wake", "x_join", "d_unpause", "d_wake_pq", "d_wake_pause",
             "d_join", "d_free", "freed"} \cup ErrorLabels
AgingPC  == {"none", "lock", "top", "p_test", "p_wait", "relock", "test", "timed",
             "wake", "pass", "exit"}
Holding  == {"top", "test", "pass"}

(* Between the store of aging_enable and the last use of aging_tid. *)
Critical == {"e_create", "e_undo", "x_clear", "x_signal", "x_wake", "x_join"}

Init ==
    /\ pc = [c \in Callers |-> IF c = Owner THEN "i_acquire" ELSE "idle"]
    /\ held = {}
    /\ wpc = [w \in Workers |-> "none"]
    /\ apc = [a \in AgingThreads |-> "none"]
    /\ shutdown = FALSE
    /\ paused = FALSE
    /\ aging_enable = FALSE
    /\ aging_tid = NoThread
    /\ passes = 0
    /\ undefined = FALSE
    /\ overlap = FALSE

Go(c, from, to) == pc[c] = from /\ pc' = [pc EXCEPT ![c] = to]

WakeWorkers == [w \in Workers |-> IF wpc[w] = "asleep" THEN "look" ELSE wpc[w]]
ResumeWorkers == [w \in Workers |-> IF wpc[w] = "paused" THEN "pause" ELSE wpc[w]]
WakePaused == [a \in AgingThreads |-> IF apc[a] = "p_wait" THEN "p_test" ELSE apc[a]]
(* The aging threads that exist, as seen by pthread_join. *)
Aging == {a \in AgingThreads : apc[a] # "none"}
AgingMutexFree == \A a \in AgingThreads : apc[a] \notin Holding
Exited == \A w \in Workers : wpc[w] \in {"none", "exit"}

-------------------------------------------------------------------------------
(* thread_pool_init *)

(* The next resource is acquired, or cannot be.  The attribute object of   *)
(* aging_cond is local to its step, which destroys it either way.          *)
InitAcquire ==
    /\ \E i \in 1 .. Len(Resources) :
          /\ Cardinality(held) = i - 1
          /\ \/ /\ held' = held \cup {Resources[i]}
                /\ Go(Owner, "i_acquire", IF i = Len(Resources) THEN "i_spawn" ELSE "i_acquire")
             \/ /\ held' = held
                /\ Go(Owner, "i_acquire", ErrorLabel[Resources[i]])
    /\ UNCHANGED <<wpc, apc, shutdown, paused, aging_enable, aging_tid, passes, undefined>>

(* The next worker is created; when that fails the others are told to stop. *)
InitSpawn ==
    LET next == CHOOSE w \in Workers : wpc[w] = "none" /\ \A v \in 1 .. w - 1 : wpc[v] # "none"
    IN
    /\ pc[Owner] = "i_spawn"
    /\ \/ /\ wpc' = [wpc EXCEPT ![next] = "top"]
          /\ Go(Owner, "i_spawn", IF next = NumWorkers THEN "idle" ELSE "i_spawn")
          /\ shutdown' = shutdown
       \/ Go(Owner, "i_spawn", "i_wake") /\ shutdown' = TRUE /\ wpc' = wpc
    /\ UNCHANGED <<held, apc, paused, aging_enable, aging_tid, passes, undefined>>

InitWakeAll ==
    /\ Go(Owner, "i_wake", "i_join")
    /\ wpc' = WakeWorkers
    /\ UNCHANGED <<held, apc, shutdown, paused, aging_enable, aging_tid, passes, undefined>>

InitJoin ==
    /\ Exited
    /\ Go(Owner, "i_join", "err_workers")
    /\ wpc' = [w \in Workers |-> "none"]
    /\ UNCHANGED <<held, apc, shutdown, paused, aging_enable, aging_tid, passes, undefined>>

(* The error labels. *)
InitRelease ==
    /\ pc[Owner] \in ErrorLabels
    /\ Go(Owner, pc[Owner], FallsTo[pc[Owner]])
    /\ held' = held \ Destroys[pc[Owner]]
    /\ UNCHANGED <<wpc, apc, shutdown, paused, aging_enable, aging_tid, passes, undefined>>

InitStep == InitAcquire \/ InitSpawn \/ InitWakeAll \/ InitJoin \/ InitRelease

-------------------------------------------------------------------------------
(* worker_func *)

WorkerGo(w, from, to) ==
    /\ wpc[w] = from
    /\ wpc' = [wpc EXCEPT ![w] = to]
    /\ UNCHANGED <<pc, held, apc, shutdown, paused, aging_enable, aging_tid, passes,
                   undefined>>

WorkerTop(w) == WorkerGo(w, "top", IF paused THEN "pause" ELSE "look")

(* The pause loop, under pause_mutex. *)
WorkerPause(w) == WorkerGo(w, "pause", IF paused THEN "paused" ELSE "look")

(* pq_pop_until_shutdown finds no task. *)
WorkerLook(w) == WorkerGo(w, "look", IF shutdown THEN "exit" ELSE "asleep")

WorkerStep(w) == WorkerTop(w) \/ WorkerPause(w) \/ WorkerLook(w)

(* A wait on pause_cond or not_empty may end without a broadcast. *)
WorkerSpurious(w) == WorkerGo(w, "paused", "pause") \/ WorkerGo(w, "asleep", "look")

-------------------------------------------------------------------------------
(* aging_worker *)

AgingGo(a, from, to) ==
    /\ apc[a] = from
    /\ apc' = [apc EXCEPT ![a] = to]
    /\ UNCHANGED <<pc, held, wpc, shutdown, paused, aging_enable, aging_tid, undefined>>

AgingLock(a) == AgingMutexFree /\ AgingGo(a, "lock", "top") /\ UNCHANGED passes

(* Mutated AgingTop: the pause test is missing. *)
AgingTopUnpaused(a) == AgingGo(a, "top", "test") /\ UNCHANGED passes

AgingTop(a) == AgingGo(a, "top", IF paused THEN "p_test" ELSE "test") /\ UNCHANGED passes

(* Mutated AgingPauseTest: only a resume ends the pause loop. *)
AgingPauseTestResume(a) ==
    AgingGo(a, "p_test", IF paused THEN "p_wait" ELSE "relock") /\ UNCHANGED passes

(* The pause loop, under pause_mutex. *)
AgingPauseTest(a) ==
    /\ AgingGo(a, "p_test",
               IF paused /\ ~shutdown /\ aging_enable THEN "p_wait" ELSE "relock")
    /\ UNCHANGED passes

AgingRelock(a) == AgingMutexFree /\ AgingGo(a, "relock", "test") /\ UNCHANGED passes

(* The two tests and, unless the thread leaves, the timed wait. *)
AgingTest(a) ==
    /\ AgingGo(a, "test", IF shutdown \/ ~aging_enable THEN "exit" ELSE "timed")
    /\ UNCHANGED passes

(* The interval is over. *)
AgingTimeout(a) == AgingGo(a, "timed", "wake") /\ UNCHANGED passes

AgingWake(a) == AgingMutexFree /\ AgingGo(a, "wake", "pass") /\ UNCHANGED passes

(* pq_aging; two stands for more. *)
AgingPass(a) ==
    /\ AgingGo(a, "pass", "top")
    /\ passes' = IF paused /\ passes < 2 THEN passes + 1 ELSE passes

AgingStep(a) ==
    \/ AgingLock(a) \/ AgingTop(a) \/ AgingPauseTest(a) \/ AgingRelock(a) \/ AgingTest(a)
    \/ AgingTimeout(a) \/ AgingWake(a) \/ AgingPass(a)

(* A wait on pause_cond may end without a broadcast. *)
AgingSpurious(a) == AgingGo(a, "p_wait", "p_test") /\ UNCHANGED passes

-------------------------------------------------------------------------------
(* The calls.  Only the owner's call of destroy ends the pool, and nobody  *)
(* begins another call then.                                               *)
Alive == held = AllResources /\ pc[Owner] # "i_spawn" /\ ~shutdown

(* thread_pool_pause and thread_pool_resume *)
PauseCall(c) ==
    /\ Alive /\ Go(c, "idle", "p_wake")
    /\ paused' = TRUE
    /\ passes' = IF paused THEN passes ELSE 0
    /\ UNCHANGED <<held, wpc, apc, shutdown, aging_enable, aging_tid, undefined>>

PauseWakeAll(c) ==
    /\ Go(c, "p_wake", "idle")
    /\ wpc' = WakeWorkers
    /\ UNCHANGED <<held, apc, shutdown, paused, aging_enable, aging_tid, passes, undefined>>

ResumeCall(c) ==
    /\ Alive /\ Go(c, "idle", "r_wake")
    /\ paused' = FALSE
    /\ UNCHANGED <<held, wpc, apc, shutdown, aging_enable, aging_tid, passes, undefined>>

(* Mutated WakePause: nobody is woken. *)
WakePauseSilent(c, from, to) ==
    /\ Go(c, from, to)
    /\ UNCHANGED <<held, wpc, apc, shutdown, paused, aging_enable, aging_tid, passes,
                   undefined>>

(* thread_pool_wake_pause *)
WakePause(c, from, to) ==
    /\ Go(c, from, to)
    /\ apc' = WakePaused
    /\ wpc' = ResumeWorkers
    /\ UNCHANGED <<held, shutdown, paused, aging_enable, aging_tid, passes, undefined>>

(* thread_pool_enable_aging and, in a program, thread_pool_disable_aging   *)
(* begin.                                                                  *)
AgingCall(c) ==
    /\ Alive
    /\ Go(c, "idle", "e_lock") \/ Go(c, "idle", "x_test")
    /\ UNCHANGED <<held, wpc, apc, shutdown, paused, aging_enable, aging_tid, passes,
                   undefined>>

EnableLock(c) ==
    /\ AgingMutexFree
    /\ Go(c, "e_lock", IF aging_enable THEN "idle" ELSE "e_create")
    /\ aging_enable' = TRUE
    /\ UNCHANGED <<held, wpc, apc, shutdown, paused, aging_tid, passes, undefined>>

EnableCreate(c) ==
    /\ \/ /\ Go(c, "e_create", "idle")
          /\ \E a \in AgingThreads :
                /\ apc[a] = "none"
                /\ apc' = [apc EXCEPT ![a] = "lock"]
                /\ aging_tid' = a
       \/ Go(c, "e_create", "e_undo") /\ UNCHANGED <<apc, aging_tid>>
    /\ UNCHANGED <<held, wpc, shutdown, paused, aging_enable, passes, undefined>>

StoreDisabled(c, from, to) ==
    /\ Go(c, from, to)
    /\ aging_enable' = FALSE
    /\ UNCHANGED <<held, wpc, apc, shutdown, paused, aging_tid, passes, undefined>>

(* Where disable_aging returns to: destroy calls it too. *)
Return(c) == IF shutdown /\ c = Owner THEN "d_join" ELSE "idle"

(* Mutated DisableTest: disable_aging does not look whether it is enabled. *)
DisableTestAlways(c) ==
    /\ Go(c, "x_test", "x_clear")
    /\ UNCHANGED <<held, wpc, apc, shutdown, paused, aging_enable, aging_tid, passes,
                   undefined>>

DisableTest(c) ==
    /\ Go(c, "x_test", IF aging_enable THEN "x_clear" ELSE Return(c))
    /\ UNCHANGED <<held, wpc, apc, shutdown, paused, aging_enable, aging_tid, passes,
                   undefined>>

(* The signal on aging_cond, under aging_mutex. *)
DisableSignal(c) ==
    /\ AgingMutexFree
    /\ Go(c, "x_signal", "x_wake")
    /\ IF \E a \in AgingThreads : apc[a] = "timed"
       THEN \E a \in AgingThreads : apc[a] = "timed" /\ apc' = [apc EXCEPT ![a] = "wake"]
       ELSE apc' = apc
    /\ UNCHANGED <<held, wpc, shutdown, paused, aging_enable, aging_tid, passes, undefined>>

(* pthread_join.  An id that was never written, or whose thread has been   *)
(* joined, is undefined behaviour; the call is taken to return.            *)
DisableJoin(c) ==
    /\ Go(c, "x_join", Return(c))
    /\ \/ /\ aging_tid \in AgingThreads
          /\ apc[aging_tid] = "exit"
          /\ apc' = [apc EXCEPT ![aging_tid] = "none"]
          /\ undefined' = undefined
       \/ /\ aging_tid \notin Aging
          /\ apc' = apc
          /\ undefined' = TRUE
    /\ UNCHANGED <<held, wpc, shutdown, paused, aging_enable, aging_tid, passes>>

AgingCallStep(c) ==
    \/ EnableLock(c) \/ EnableCreate(c) \/ StoreDisabled(c, "e_undo", "idle")
    \/ DisableTest(c) \/ StoreDisabled(c, "x_clear", "x_signal") \/ DisableSignal(c)
    \/ WakePause(c, "x_wake", "x_join") \/ DisableJoin(c)

-------------------------------------------------------------------------------
(* thread_pool_destroy, once the calls of the other threads have returned. *)

DestroyCall ==
    /\ Alive /\ Go(Owner, "idle", "d_unpause")
    /\ \A c \in Callers : pc[c] = "idle"
    /\ shutdown' = TRUE
    /\ UNCHANGED <<held, wpc, apc, paused, aging_enable, aging_tid, passes, undefined>>

DestroyUnpause ==
    /\ Go(Owner, "d_unpause", "d_wake_pq")
    /\ paused' = FALSE
    /\ UNCHANGED <<held, wpc, apc, shutdown, aging_enable, aging_tid, passes, undefined>>

DestroyWakeAll ==
    /\ Go(Owner, "d_wake_pq", "d_wake_pause")
    /\ wpc' = WakeWorkers
    /\ UNCHANGED <<held, apc, shutdown, paused, aging_enable, aging_tid, passes, undefined>>

DestroyJoin ==
    /\ Exited
    /\ Go(Owner, "d_join", "d_free")
    /\ wpc' = [w \in Workers |-> "none"]
    /\ UNCHANGED <<held, apc, shutdown, paused, aging_enable, aging_tid, passes, undefined>>

DestroyFree ==
    /\ Go(Owner, "d_free", "freed")
    /\ held' = held \ {"pq_cond", "pq_mutex", "workers", "drain_cond", "pause_cond",
                       "aging_cond", "drain_mutex", "pause_mutex", "aging_mutex", "pool"}
    /\ UNCHANGED <<wpc, apc, shutdown, paused, aging_enable, aging_tid, passes, undefined>>

DestroyStep ==
    \/ DestroyUnpause \/ DestroyWakeAll \/ WakePause(Owner, "d_wake_pause", "x_test")
    \/ DestroyJoin \/ DestroyFree

-------------------------------------------------------------------------------
CallStep(c) ==
    PauseWakeAll(c) \/ WakePause(c, "r_wake", "idle") \/ AgingCallStep(c)

Step ==
    \/ InitStep \/ DestroyCall \/ DestroyStep
    \/ \E w \in Workers : WorkerStep(w) \/ WorkerSpurious(w)
    \/ \E a \in AgingThreads : AgingStep(a) \/ AgingSpurious(a)
    \/ \E c \in Callers : PauseCall(c) \/ ResumeCall(c) \/ AgingCall(c) \/ CallStep(c)

Over == pc[Owner] \in {"failed", "freed"}

(* A step, with the history of overlapping calls.  Two calls that overlap  *)
(* may leave aging_tid with the wrong thread; nothing is said of what      *)
(* happens then.                                                           *)
Noted(A) ==
    ~overlap /\ A /\ overlap' =
        (\E c, d \in Callers : c # d /\ pc'[c] \in Critical /\ pc'[d] \in Critical)

Next ==
    \/ Noted(Step)
    \/ (Over \/ overlap) /\ UNCHANGED vars

(* Every thread runs on and an interval ends.  A caller that waits for     *)
(* aging_mutex gets it although the aging thread takes it in every round.  *)
Fairness ==
    /\ WF_vars(Noted(InitStep)) /\ WF_vars(Noted(DestroyStep))
    /\ \A w \in Workers : WF_vars(Noted(WorkerStep(w)))
    /\ \A a \in AgingThreads : WF_vars(Noted(AgingStep(a)))
    /\ \A c \in Callers : SF_vars(Noted(CallStep(c)))

Spec == Init /\ [][Next]_vars /\ Fairness

-------------------------------------------------------------------------------
(* Properties *)

(* Calls of enable_aging and disable_aging that do not overlap between the *)
(* store of aging_enable and the last use of aging_tid keep one aging      *)
(* thread at most, aging_tid is its id, and every pthread_join is of a     *)
(* thread that runs or has just left: a second enable, a second disable    *)
(* and a failed pthread_create in any order are harmless.                  *)
JoinsValid ==
    ~overlap => /\ ~undefined
                /\ Aging \subseteq {aging_tid}
                /\ \A c \in Callers : pc[c] \in Critical \ {"e_create", "e_undo"} =>
                       aging_tid \in Aging

(* While a worker or the aging thread is there, everything thread_pool_init*)
(* acquires is there; the error label init has jumped to finds what it     *)
(* destroys; and when init has failed, at whichever step, or destroy has   *)
(* returned, no thread and no resource is left.                            *)
NothingLeft ==
    ~overlap =>
        /\ Aging # {} \/ (\E w \in Workers : wpc[w] # "none") => held = AllResources
        /\ pc[Owner] \in ErrorLabels => Destroys[pc[Owner]] \subseteq held
        /\ Over => held = {} /\ Aging = {} /\ \A w \in Workers : wpc[w] = "none"

(* A paused pool ages its queue at most once more, for a thread that has   *)
(* tested paused before; enabling aging in a paused pool starts no pass.   *)
OnePassPerPause == ~overlap => passes <= 1

(* init returns, with a pool or, when pthread_create fails, once the       *)
(* workers it has started have left.  enable_aging, disable_aging and      *)
(* destroy return, whether the aging thread sleeps out its interval,       *)
(* works, or waits like a worker for a paused pool to be resumed.          *)
CallsReturn ==
    [](~overlap) =>
        /\ <>(pc[Owner] \in {"idle", "failed"})
        /\ \A c \in Callers : [](pc[c] \in {"e_lock", "x_test"} => <>(pc[c] \in {"idle", "d_join"}))
        /\ [](pc[Owner] = "d_unpause" => <>(pc[Owner] = "freed"))

(* As long as aging stays enabled in a pool that is not paused, one pass   *)
(* follows another: no wakeup of the aging thread is lost when the pool is *)
(* paused and resumed.                                                     *)
AgingGoesOn ==
    [](~overlap) =>
        (<>[](aging_enable /\ ~paused /\ ~shutdown) => []<>(\E a \in AgingThreads : apc[a] = "pass"))
=============================================================================
