----------------------------- MODULE BaselinePool -----------------------------
(***************************************************************************)
(* The comparison pool of src/baseline/baseline.c: one FIFO queue, no      *)
(* priorities, no pause, no capacity.  Its protocol differs from           *)
(* thread_pool.c in three places: submit reads shutdown before it counts   *)
(* itself, shutdown wakes the workers before it spins on in_flight_submits *)
(* and the last worker broadcasts drain_cond.                              *)
(*                                                                         *)
(* One step is one access to an atomic, or one critical section.  A        *)
(* condition variable is the set of threads whose pc is its waiting label. *)
(***************************************************************************)
EXTENDS Integers, Sequences, FiniteSets

CONSTANTS
    Workers,        \* the worker threads baseline_pool_init creates
    Submitters,     \* threads that call baseline_pool_submit
    Waiters,        \* threads that call baseline_pool_wait
    Overlaps,       \* the choices of the variable overlapping
    Task,           \* one member for each call of submit
    NoTask          \* a NULL struct baseline_task_t *

Clients == Submitters \cup Waiters

ASSUME BaselineAssumption ==
    /\ IsFiniteSet(Workers) /\ Workers # {}
    /\ IsFiniteSet(Clients) /\ Workers \cap Clients = {}
    /\ Submitters \cap Waiters = {}
    /\ Overlaps \subseteq SUBSET Clients
    /\ NoTask \notin Task

VARIABLES
    wpc,            \* where each worker is in worker_func
    cpc,            \* where each client is in the call it makes, or "idle"
    opc,            \* where the owner of the pool is in init or shutdown
    shutdown,
    in_flight,      \* in_flight_submits
    total,          \* total_task_in_system
    queue,          \* the list from queue.head to queue.tail
    task,           \* the local variable task of each worker and submitter
    overlapping,    \* the threads whose calls may overlap baseline_pool_shutdown
    called,         \* history: the tasks some submit call was made for
    accepted,       \* history: the tasks q_push took, in its order
    started,        \* history: the tasks q_pop_until_shutdown gave, in its order
    done            \* history: the tasks whose function has returned

historyVars == <<overlapping, called, accepted, started, done>>
vars == <<wpc, cpc, opc, shutdown, in_flight, total, queue, task, historyVars>>

WorkerPC == {"none", "pop", "waiting", "run", "dec", "wake", "exit"}
SubmitPC == {"s_check", "s_enter", "s_create", "s_push", "s_signal", "s_leave"}
WaitPC   == {"t_drain", "t_waiting"}
ClientPC == {"idle"} \cup SubmitPC \cup WaitPC
OwnerPC  == {"i_alloc", "i_spawn", "i_wake", "i_join", "failed", "ready", "d_wake",
             "d_spin", "d_drain", "d_waiting", "d_join", "d_free", "freed"}

Init ==
    /\ wpc = [w \in Workers |-> "none"]
    /\ cpc = [c \in Clients |-> "idle"]
    /\ opc = "i_alloc"
    /\ shutdown = FALSE
    /\ in_flight = 0
    /\ total = 0
    /\ queue = <<>>
    /\ task = [x \in Workers \cup Submitters |-> NoTask]
    /\ overlapping \in Overlaps
    /\ called = {}
    /\ accepted = <<>>
    /\ started = <<>>
    /\ done = {}

-------------------------------------------------------------------------------
(* Wakeups *)

(* pthread_cond_signal on q_cond. *)
SignalQueue ==
    IF \E w \in Workers : wpc[w] = "waiting"
    THEN \E w \in Workers : /\ wpc[w] = "waiting"
                            /\ wpc' = [wpc EXCEPT ![w] = "pop"]
    ELSE wpc' = wpc

(* q_wake_all: broadcast on q_cond. *)
WakeAll ==
    wpc' = [w \in Workers |-> IF wpc[w] = "waiting" THEN "pop" ELSE wpc[w]]

(* Mutated BroadcastDrain: wakes one of those who wait on drain_cond. *)
SignalDrain ==
    \/ \E c \in Clients : /\ cpc[c] = "t_waiting"
                          /\ cpc' = [cpc EXCEPT ![c] = "t_drain"]
                          /\ opc' = opc
    \/ opc = "d_waiting" /\ opc' = "d_drain" /\ cpc' = cpc
    \/ /\ opc # "d_waiting" /\ \A c \in Clients : cpc[c] # "t_waiting"
       /\ UNCHANGED <<cpc, opc>>

(* pthread_cond_broadcast on drain_cond. *)
BroadcastDrain ==
    /\ cpc' = [c \in Clients |-> IF cpc[c] = "t_waiting" THEN "t_drain" ELSE cpc[c]]
    /\ opc' = IF opc = "d_waiting" THEN "d_drain" ELSE opc

-------------------------------------------------------------------------------
(* baseline_pool_init *)

(* Allocation and the mutexes and conditions, any of which may fail before *)
(* a thread exists.                                                        *)
InitAlloc ==
    /\ opc = "i_alloc"
    /\ opc' \in {"i_spawn", "failed"}
    /\ UNCHANGED <<wpc, cpc, shutdown, in_flight, total, queue, task, historyVars>>

InitSpawn ==
    /\ opc = "i_spawn"
    /\ \E w \in Workers :
          /\ wpc[w] = "none"
          /\ wpc' = [wpc EXCEPT ![w] = "pop"]
          /\ opc' = IF \E v \in Workers \ {w} : wpc[v] = "none" THEN "i_spawn" ELSE "ready"
    /\ UNCHANGED <<cpc, shutdown, in_flight, total, queue, task, historyVars>>

(* pthread_create fails: the workers created before it are told to leave. *)
InitSpawnFails ==
    /\ opc = "i_spawn"
    /\ shutdown' = TRUE
    /\ opc' = "i_wake"
    /\ UNCHANGED <<wpc, cpc, in_flight, total, queue, task, historyVars>>

(* Mutated InitWake: joins without waking. *)
InitWakesNobody ==
    /\ opc = "i_wake"
    /\ opc' = "i_join"
    /\ UNCHANGED <<wpc, cpc, shutdown, in_flight, total, queue, task, historyVars>>

InitWake ==
    /\ opc = "i_wake"
    /\ WakeAll
    /\ opc' = "i_join"
    /\ UNCHANGED <<cpc, shutdown, in_flight, total, queue, task, historyVars>>

InitJoin ==
    /\ opc = "i_join"
    /\ \A w \in Workers : wpc[w] \in {"none", "exit"}
    /\ opc' = "failed"
    /\ UNCHANGED <<wpc, cpc, shutdown, in_flight, total, queue, task, historyVars>>

InitStep == InitAlloc \/ InitSpawn \/ InitSpawnFails \/ InitWake \/ InitJoin

-------------------------------------------------------------------------------
(* worker_func *)

(* Mutated WorkerPop: leaves also when nothing is in the system. *)
WorkerPopLeavesIdle(w) ==
    /\ wpc[w] = "pop"
    /\ IF queue # <<>>
       THEN /\ wpc' = [wpc EXCEPT ![w] = "run"]
            /\ task' = [task EXCEPT ![w] = Head(queue)]
            /\ queue' = Tail(queue)
            /\ started' = Append(started, Head(queue))
       ELSE /\ wpc' = [wpc EXCEPT ![w] = IF shutdown \/ total = 0 THEN "exit" ELSE "waiting"]
            /\ UNCHANGED <<task, queue, started>>
    /\ UNCHANGED <<cpc, opc, shutdown, in_flight, total, overlapping, called, accepted, done>>

(* q_pop_until_shutdown: one pass of its loop under q_mutex. *)
WorkerPop(w) ==
    /\ wpc[w] = "pop"
    /\ IF queue # <<>>
       THEN /\ wpc' = [wpc EXCEPT ![w] = "run"]
            /\ task' = [task EXCEPT ![w] = Head(queue)]
            /\ queue' = Tail(queue)
            /\ started' = Append(started, Head(queue))
       ELSE /\ wpc' = [wpc EXCEPT ![w] = IF shutdown THEN "exit" ELSE "waiting"]
            /\ UNCHANGED <<task, queue, started>>
    /\ UNCHANGED <<cpc, opc, shutdown, in_flight, total, overlapping, called, accepted, done>>

(* The task's function returns and the task is freed. *)
WorkerRun(w) ==
    /\ wpc[w] = "run"
    /\ wpc' = [wpc EXCEPT ![w] = "dec"]
    /\ task' = [task EXCEPT ![w] = NoTask]
    /\ done' = done \cup {task[w]}
    /\ UNCHANGED <<cpc, opc, shutdown, in_flight, total, queue, overlapping, called, accepted,
                   started>>

WorkerDec(w) ==
    /\ wpc[w] = "dec"
    /\ total' = total - 1
    /\ wpc' = [wpc EXCEPT ![w] = IF total' <= 0 THEN "wake" ELSE "pop"]
    /\ UNCHANGED <<cpc, opc, shutdown, in_flight, queue, task, historyVars>>

WorkerWake(w) ==
    /\ wpc[w] = "wake"
    /\ wpc' = [wpc EXCEPT ![w] = "pop"]
    /\ BroadcastDrain
    /\ UNCHANGED <<shutdown, in_flight, total, queue, task, historyVars>>

WorkerStep(w) == WorkerPop(w) \/ WorkerRun(w) \/ WorkerDec(w) \/ WorkerWake(w)

-------------------------------------------------------------------------------
(* A client calls once it has been given the pool; one in overlapping may  *)
(* do so while baseline_pool_shutdown runs, until the pool is freed.       *)
MayCall(c) ==
    /\ cpc[c] = "idle"
    /\ \/ opc = "ready"
       \/ c \in overlapping /\ opc \in {"d_wake", "d_spin", "d_drain", "d_waiting", "d_join", "d_free"}

(* baseline_pool_submit *)

SubmitCall(c) ==
    /\ MayCall(c)
    /\ \E t \in Task \ called :
          /\ called' = called \cup {t}
          /\ task' = [task EXCEPT ![c] = t]
    /\ cpc' = [cpc EXCEPT ![c] = "s_check"]
    /\ UNCHANGED <<wpc, opc, shutdown, in_flight, total, queue, overlapping, accepted, started, done>>

SubmitCheckShutdown(c) ==
    /\ cpc[c] = "s_check"
    /\ cpc' = [cpc EXCEPT ![c] = IF shutdown THEN "idle" ELSE "s_enter"]
    /\ UNCHANGED <<wpc, opc, shutdown, in_flight, total, queue, task, historyVars>>

SubmitEnter(c) ==
    /\ cpc[c] = "s_enter"
    /\ in_flight' = in_flight + 1
    /\ cpc' = [cpc EXCEPT ![c] = "s_create"]
    /\ UNCHANGED <<wpc, opc, shutdown, total, queue, task, historyVars>>

(* Mutated SubmitCreate: the task is counted before malloc may fail. *)
SubmitCountFirst(c) ==
    /\ cpc[c] = "s_create"
    /\ total' = total + 1
    /\ \E next \in {"s_leave", "s_push"} : cpc' = [cpc EXCEPT ![c] = next]
    /\ UNCHANGED <<wpc, opc, shutdown, in_flight, queue, task, historyVars>>

(* Mutated SubmitCreate: when malloc fails the call is not uncounted. *)
SubmitCreateLeaky(c) ==
    /\ cpc[c] = "s_create"
    /\ \/ cpc' = [cpc EXCEPT ![c] = "idle"] /\ total' = total
       \/ cpc' = [cpc EXCEPT ![c] = "s_push"] /\ total' = total + 1
    /\ UNCHANGED <<wpc, opc, shutdown, in_flight, queue, task, historyVars>>

(* malloc fails, or the new task is counted. *)
SubmitCreate(c) ==
    /\ cpc[c] = "s_create"
    /\ \/ cpc' = [cpc EXCEPT ![c] = "s_leave"] /\ total' = total
       \/ cpc' = [cpc EXCEPT ![c] = "s_push"] /\ total' = total + 1
    /\ UNCHANGED <<wpc, opc, shutdown, in_flight, queue, task, historyVars>>

(* q_push, under q_mutex. *)
SubmitPush(c) ==
    /\ cpc[c] = "s_push"
    /\ queue' = Append(queue, task[c])
    /\ accepted' = Append(accepted, task[c])
    /\ cpc' = [cpc EXCEPT ![c] = "s_signal"]
    /\ UNCHANGED <<wpc, opc, shutdown, in_flight, total, task, overlapping, called, started, done>>

(* Mutated SubmitSignal: signals only when the pushed task is the only one *)
(* queued, as if the worker woken for an earlier task would take them all. *)
SubmitSignalFirst(c) ==
    /\ cpc[c] = "s_signal"
    /\ IF Len(queue) = 1 THEN SignalQueue ELSE wpc' = wpc
    /\ cpc' = [cpc EXCEPT ![c] = "s_leave"]
    /\ UNCHANGED <<opc, shutdown, in_flight, total, queue, task, historyVars>>

(* q_push signals q_cond after it has released q_mutex. *)
SubmitSignal(c) ==
    /\ cpc[c] = "s_signal"
    /\ SignalQueue
    /\ cpc' = [cpc EXCEPT ![c] = "s_leave"]
    /\ UNCHANGED <<opc, shutdown, in_flight, total, queue, task, historyVars>>

SubmitLeave(c) ==
    /\ cpc[c] = "s_leave"
    /\ in_flight' = in_flight - 1
    /\ cpc' = [cpc EXCEPT ![c] = "idle"]
    /\ UNCHANGED <<wpc, opc, shutdown, total, queue, task, historyVars>>

SubmitStep(c) ==
    \/ SubmitCheckShutdown(c) \/ SubmitEnter(c) \/ SubmitCreate(c)
    \/ SubmitPush(c) \/ SubmitSignal(c) \/ SubmitLeave(c)

(* baseline_pool_wait *)

WaitCall(c) ==
    /\ MayCall(c)
    /\ cpc' = [cpc EXCEPT ![c] = "t_drain"]
    /\ UNCHANGED <<wpc, opc, shutdown, in_flight, total, queue, task, historyVars>>

(* One pass of the drain loop under drain_mutex. *)
WaitDrain(c) ==
    /\ cpc[c] = "t_drain"
    /\ cpc' = [cpc EXCEPT ![c] = IF total # 0 THEN "t_waiting" ELSE "idle"]
    /\ UNCHANGED <<wpc, opc, shutdown, in_flight, total, queue, task, historyVars>>

-------------------------------------------------------------------------------
(* baseline_pool_shutdown *)

ShutdownSet ==
    /\ opc = "ready"
    /\ \A c \in Clients \ overlapping : cpc[c] = "idle"
    /\ shutdown' = TRUE
    /\ opc' = "d_wake"
    /\ UNCHANGED <<wpc, cpc, in_flight, total, queue, task, historyVars>>

(* Mutated ShutdownWake: the sleeping workers are not woken. *)
ShutdownWakesNobody ==
    /\ opc = "d_wake"
    /\ opc' = "d_spin"
    /\ UNCHANGED <<wpc, cpc, shutdown, in_flight, total, queue, task, historyVars>>

ShutdownWake ==
    /\ opc = "d_wake"
    /\ WakeAll
    /\ opc' = "d_spin"
    /\ UNCHANGED <<cpc, shutdown, in_flight, total, queue, task, historyVars>>

ShutdownSpin ==
    /\ opc = "d_spin"
    /\ in_flight = 0
    /\ opc' = "d_drain"
    /\ UNCHANGED <<wpc, cpc, shutdown, in_flight, total, queue, task, historyVars>>

(* Mutated ShutdownDrain: waits for an empty queue instead of total = 0. *)
ShutdownDrainQueue ==
    /\ opc = "d_drain"
    /\ opc' = IF queue # <<>> THEN "d_waiting" ELSE "d_join"
    /\ UNCHANGED <<wpc, cpc, shutdown, in_flight, total, queue, task, historyVars>>

(* One pass of the drain loop under drain_mutex. *)
ShutdownDrain ==
    /\ opc = "d_drain"
    /\ opc' = IF total # 0 THEN "d_waiting" ELSE "d_join"
    /\ UNCHANGED <<wpc, cpc, shutdown, in_flight, total, queue, task, historyVars>>

ShutdownJoin ==
    /\ opc = "d_join"
    /\ \A w \in Workers : wpc[w] = "exit"
    /\ opc' = "d_free"
    /\ UNCHANGED <<wpc, cpc, shutdown, in_flight, total, queue, task, historyVars>>

(* The mutexes, the conditions and the pool go; a task still queued leaks. *)
ShutdownFree ==
    /\ opc = "d_free"
    /\ opc' = "freed"
    /\ UNCHANGED <<wpc, cpc, shutdown, in_flight, total, queue, task, historyVars>>

ShutdownStep ==
    ShutdownWake \/ ShutdownSpin \/ ShutdownDrain \/ ShutdownJoin \/ ShutdownFree

-------------------------------------------------------------------------------
(* pthread_cond_wait may return without a signal. *)
SpuriousWakeup ==
    \/ /\ \E w \in Workers : wpc[w] = "waiting" /\ wpc' = [wpc EXCEPT ![w] = "pop"]
       /\ UNCHANGED <<cpc, opc, shutdown, in_flight, total, queue, task, historyVars>>
    \/ /\ \E c \in Clients : cpc[c] = "t_waiting" /\ cpc' = [cpc EXCEPT ![c] = "t_drain"]
       /\ UNCHANGED <<wpc, opc, shutdown, in_flight, total, queue, task, historyVars>>
    \/ /\ opc = "d_waiting" /\ opc' = "d_drain"
       /\ UNCHANGED <<wpc, cpc, shutdown, in_flight, total, queue, task, historyVars>>

(* A step inside a call after the pool is freed is a use after free; the   *)
(* model stops that client instead of choosing an outcome.                 *)
ClientStep(c) ==
    /\ opc # "freed"
    /\ \/ c \in Submitters /\ SubmitStep(c)
       \/ c \in Waiters /\ WaitDrain(c)

ClientCall(c) ==
    \/ c \in Submitters /\ SubmitCall(c)
    \/ c \in Waiters /\ WaitCall(c)

Next ==
    \/ InitStep
    \/ \E w \in Workers : WorkerStep(w)
    \/ \E c \in Clients : ClientStep(c) \/ ClientCall(c)
    \/ ShutdownSet
    \/ ShutdownStep
    \/ SpuriousWakeup

Spec == Init /\ [][Next]_vars

(* The scheduler runs every thread that can run, a mutex is handed on and  *)
(* a task's function returns.  Nobody has to make a call.                  *)
Fairness ==
    /\ WF_vars(InitStep)
    /\ \A w \in Workers : WF_vars(WorkerStep(w))
    /\ \A c \in Clients : WF_vars(ClientStep(c))
    /\ WF_vars(ShutdownStep)

FairSpec == Spec /\ Fairness

-------------------------------------------------------------------------------
(* Properties *)

TypeOK ==
    /\ wpc \in [Workers -> WorkerPC]
    /\ cpc \in [Clients -> ClientPC]
    /\ opc \in OwnerPC
    /\ shutdown \in BOOLEAN
    /\ in_flight \in Nat
    /\ total \in Nat
    /\ queue \in Seq(Task)
    /\ task \in [Workers \cup Submitters -> Task \cup {NoTask}]
    /\ overlapping \in SUBSET Clients
    /\ called \in SUBSET Task
    /\ accepted \in Seq(Task)
    /\ started \in Seq(Task)
    /\ done \in SUBSET Task

(* total_task_in_system counts the tasks that are counted and not yet      *)
(* pushed, the queued ones and those a worker has taken and not yet        *)
(* uncounted, on every path of submit, the failing malloc included.        *)
Pushing == {c \in Clients : cpc[c] = "s_push"}
Holding == {w \in Workers : wpc[w] \in {"run", "dec"}}
TotalExact ==
    total = Cardinality(Pushing) + Len(queue) + Cardinality(Holding)

(* q_push signals after it has released q_mutex, so a worker may take the  *)
(* task, or other pushes may follow, before the signal.  Still no worker   *)
(* sleeps on while a task waits for it: the queued tasks are never more    *)
(* than the workers about to look at the queue and the signals to come.    *)
Looking == {w \in Workers : wpc[w] = "pop"}
Signalling == {c \in Clients : cpc[c] = "s_signal"}
NoLostWakeup ==
    (\E w \in Workers : wpc[w] = "waiting")
        => Len(queue) <= Cardinality(Looking) + Cardinality(Signalling)

(* When no call overlaps baseline_pool_shutdown, every accepted task has   *)
(* run once it has left its drain loop.  A submit that has passed its test *)
(* of shutdown and is not yet in in_flight_submits is outside this: its    *)
(* task may be queued when no worker is left.                              *)
AllRun == \A i \in 1 .. Len(accepted) : accepted[i] \in done
DrainExact == overlapping = {} /\ opc \in {"d_join", "d_free", "freed"} => AllRun

(* baseline_pool_init returns, also when pthread_create fails after some   *)
(* workers have gone to sleep on the empty queue.                          *)
InitReturns == <>(opc \notin {"i_alloc", "i_spawn", "i_wake", "i_join"})

(* When no call overlaps baseline_pool_shutdown every accepted task runs:  *)
(* no signal on q_cond is lost.                                            *)
TasksRun ==
    overlapping = {} =>
        \A t \in Task : (\E i \in 1 .. Len(accepted) : accepted[i] = t) ~> t \in done

(* baseline_pool_wait returns to each of its callers, however many wait:   *)
(* the last worker wakes them all.                                         *)
WaitReturns ==
    overlapping = {} =>
        \A c \in Waiters : (cpc[c] \in WaitPC) ~> (cpc[c] = "idle")

(* baseline_pool_shutdown returns. *)
ShutdownReturns == overlapping = {} => ((opc = "d_wake") ~> (opc = "freed"))

-------------------------------------------------------------------------------
(* The inductive invariant of the proofs in BaselineProofs. *)

(* in_flight_submits counts the submit calls past their increment. *)
InFlight == {c \in Clients : cpc[c] \in {"s_create", "s_push", "s_signal", "s_leave"}}
InFlightExact == in_flight = Cardinality(InFlight)

(* What was taken, followed by what is queued, is what was pushed. *)
FifoOrder == accepted = started \o queue

(* A submit call in progress and a running worker have a task. *)
Owners ==
    /\ \A c \in Clients : cpc[c] \in SubmitPC => c \in Submitters /\ task[c] \in Task
    /\ \A w \in Workers : wpc[w] = "run" => task[w] \in Task

(* A task that was taken from the queue has run, or some worker runs it. *)
TakenRuns ==
    \A i \in 1 .. Len(started) :
        \/ started[i] \in done
        \/ \E w \in Workers : wpc[w] = "run" /\ task[w] = started[i]

(* When no call overlaps baseline_pool_shutdown nobody is in a call while  *)
(* it runs, and past its drain loop nothing is counted.                    *)
Quiet ==
    overlapping = {} =>
        /\ opc \in {"d_wake", "d_spin", "d_drain", "d_waiting", "d_join", "d_free", "freed"}
              => \A c \in Clients : cpc[c] = "idle"
        /\ opc \in {"d_join", "d_free", "freed"} => total = 0

IInv ==
    /\ TypeOK /\ TotalExact /\ InFlightExact /\ FifoOrder
    /\ Owners /\ TakenRuns /\ Quiet
===============================================================================
