--------------------------- MODULE ThreadPoolProofs ---------------------------
(***************************************************************************)
(* The safety of ThreadPool for any number of workers, clients and tasks.  *)
(* The inductive invariant IInv comes first, conjunct by conjunct: the     *)
(* types, the exact counters total_task_in_system and in_flight_submits,   *)
(* the door that destroy's spin closes, what its drain loop saw, the task  *)
(* of each submit call and the single owner of every task.  The safety     *)
(* properties follow from it; the last part is about how the pool sleeps   *)
(* and wakes.                                                              *)
(***************************************************************************)
EXTENDS ThreadPool, PriorityLanesProofs, FiniteSetTheorems, TLAPS

(* The provers a leaf is given to, in turn. *)
USE SMTT(10), Zenon, Z3T(20)

(* Counting one element more or less. *)
LEMMA CardStep ==
    ASSUME NEW A, IsFiniteSet(A), NEW B, NEW c
    PROVE  /\ Cardinality(A) \in Nat
           /\ Cardinality(A) = 0 <=> A = {}
           /\ B = A \cup {c} /\ c \notin A => Cardinality(B) = Cardinality(A) + 1
           /\ B = A \ {c} /\ c \in A => Cardinality(B) = Cardinality(A) - 1
<1>1. Cardinality(A) \in Nat /\ (Cardinality(A) = 0 <=> A = {})
  BY FS_CardinalityType, FS_EmptySet
<1>2. ASSUME B = A \cup {c}, c \notin A PROVE Cardinality(B) = Cardinality(A) + 1
  BY <1>2, FS_AddElement
<1>3. ASSUME B = A \ {c}, c \in A PROVE Cardinality(B) = Cardinality(A) - 1
  BY <1>3, FS_RemoveElement
<1>. QED BY <1>1, <1>2, <1>3

(* The three sets that are counted are finite. *)
LEMMA FiniteCounts ==
    /\ IsFiniteSet(Pushing) /\ IsFiniteSet(Holding) /\ IsFiniteSet(InFlight)
    /\ Cardinality(Pushing) \in Nat /\ Cardinality(Holding) \in Nat
    /\ Cardinality(InFlight) \in Nat
<1>1. Pushing \subseteq Clients /\ Holding \subseteq Workers /\ InFlight \subseteq Clients
  BY DEF Pushing, Holding, InFlight
<1>2. IsFiniteSet(Pushing) /\ IsFiniteSet(Holding) /\ IsFiniteSet(InFlight)
  BY <1>1, ThreadAssumption, FS_Subset
<1>. QED BY <1>2, FS_CardinalityType

(* What the steps of a thread leave alone. *)

LEMMA SubmitEffect ==
    ASSUME NEW c, SubmitStep(c)
    PROVE  /\ UNCHANGED <<dpc, flagVars, max_tasks, busy, called, runs, finished>>
           /\ SignalNotEmpty \/ wpc' = wpc
           /\ \/ UNCHANGED <<lanes, accepted>>
              \/ SubmitInsert(c)
           /\ task' = task \/ task' = [task EXCEPT ![c] = NoTask]
<1>. USE DEF flagVars, counterVars, queueVars, historyVars
<1>1. CASE SubmitEnter(c) \/ SubmitCheckShutdown(c) \/ SubmitFullApprox(c) \/ SubmitCreate(c)
  <2>1. UNCHANGED <<wpc, dpc, flagVars, queueVars, busy, task, historyVars>>
    BY <1>1 DEF SubmitEnter, SubmitCheckShutdown, SubmitFullApprox, SubmitCreate
  <2>. QED BY <2>1
<1>2. CASE SubmitTryPush(c)
  <2>1. UNCHANGED <<wpc, dpc, flagVars, lanes, max_tasks, busy, task, historyVars>>
    BY <1>2 DEF SubmitTryPush
  <2>. QED BY <2>1
<1>3. CASE SubmitSignal(c) \/ SubmitUndo(c)
  <2>1. UNCHANGED <<dpc, flagVars, queueVars, busy, task, historyVars>>
    BY <1>3 DEF SubmitSignal, SubmitUndo
  <2>2. SignalNotEmpty \/ wpc' = wpc
    BY <1>3 DEF SubmitSignal, SubmitUndo
  <2>. QED BY <2>1, <2>2
<1>4. CASE SubmitLeave(c)
  BY <1>4 DEF SubmitLeave
<1>5. CASE SubmitInsert(c)
  BY <1>5 DEF SubmitInsert
<1>. QED BY <1>1, <1>2, <1>3, <1>4, <1>5 DEF SubmitStep

LEMMA ControlEffect ==
    ASSUME NEW c, ControlStep(c)
    PROVE  /\ UNCHANGED <<dpc, shutdown, counterVars, queueVars, busy, task, historyVars>>
           /\ WakeAll \/ WakePause \/ wpc' = wpc
           /\ paused' = paused \/ paused' = FALSE
BY DEF ControlStep, PauseWakeAll, ResumeWakePause, WaitResume, WaitWakePause, WaitDrain, flagVars

LEMMA CallEffect ==
    ASSUME NEW c, ClientCall(c)
    PROVE  /\ UNCHANGED <<wpc, dpc, shutdown, counterVars, lanes, limit, busy, accepted, runs>>
           /\ cpc[c] = "idle"
           /\ task' = task \/ \E t : task' = [task EXCEPT ![c] = t]
BY DEF ClientCall, SubmitCall, WaitCall, PauseCall, ResumeCall, SetMaxTasks, MayCall, flagVars,
   queueVars, historyVars

LEMMA DestroyEffect ==
    ASSUME DestroyShutdown \/ DestroyStep
    PROVE  /\ UNCHANGED <<cpc, counterVars, max_tasks, limit, busy, task, historyVars>>
           /\ WakeAll \/ WakePause \/ wpc' = wpc
           /\ paused' = paused \/ paused' = FALSE
           /\ lanes' = lanes \/ DestroyFree
<1>. USE DEF flagVars, queueVars
<1>1. CASE DestroyShutdown \/ DestroyUnpause \/ DestroySpin \/ DestroyWakeAll \/ DestroyWakePause
  BY <1>1 DEF DestroyShutdown, DestroyUnpause, DestroySpin, DestroyWakeAll, DestroyWakePause
<1>2. CASE DestroyDisableAging \/ DestroyDrain \/ DestroyMonitorStop \/ DestroyMonitorJoin
  BY <1>2 DEF DestroyDisableAging, DestroyDrain, DestroyMonitorStop, DestroyMonitorJoin
<1>3. CASE DestroyJoin \/ DestroyFree
  BY <1>3 DEF DestroyJoin, DestroyFree
<1>. QED BY <1>1, <1>2, <1>3 DEF DestroyStep

(* A wakeup moves no worker into its task or out of it. *)
LEMMA WakeKeeps ==
    ASSUME wpc \in [Workers -> WorkerPC],
           WakeAll \/ WakePause \/ SignalNotEmpty \/ wpc' = wpc
    PROVE  \A w \in Workers : Working(w)' <=> Working(w)
BY DEF WakeAll, WakePause, SignalNotEmpty, Working

(* thread_pool_init establishes the invariant. *)
LEMMA InitIInv == Init => IInv
<1>. SUFFICES ASSUME Init PROVE IInv
  OBVIOUS
<1>. USE DEF Init
<1>1. EmptyLanes \in Lanes /\ Size(EmptyLanes) = 0
  BY DEF EmptyLanes, Lanes, Size, Priority, LOW, MEDIUM, HIGH
<1>2. \A t : ~In(EmptyLanes, t)
  BY <1>1, SizeFacts
<1>3. NoDup(EmptyLanes)
  BY DEF EmptyLanes, NoDup
<1>4. TypeOK
  BY <1>1 DEF TypeOK, WorkerPC, ClientPC, DestroyPC
<1>5. Pushing = {} /\ Holding = {} /\ InFlight = {}
  BY DEF Pushing, Holding, InFlight, SubmitPC
<1>6. TotalExact /\ InFlightExact
  BY <1>1, <1>5, FS_EmptySet DEF TotalExact, InFlightExact
<1>7. SubmissionClosed /\ Shut /\ Drained /\ BusyShown
  BY DEF SubmissionClosed, PastSpin, Shut, Drained, BusyShown
<1>8. Callers /\ Inserting /\ RunsAtMostOnce
  BY DEF Callers, Inserting, SubmitPC, RunsAtMostOnce
<1>9. OneOwner
  BY <1>2, <1>3 DEF OneOwner, Working
<1>. QED BY <1>4, <1>6, <1>7, <1>8, <1>9 DEF IInv

(* An aging pass moves tasks between lanes and changes nothing else about   *)
(* the queue.                                                              *)
LEMMA AgingFacts ==
    ASSUME TypeOK, AgingPromote
    PROVE  /\ lanes' \in Lanes
           /\ Size(lanes') = Size(lanes)
           /\ \A u : In(lanes', u) <=> In(lanes, u)
           /\ NoDup(lanes) => NoDup(lanes')
<1>1. lanes \in Lanes /\ \A p \in Priority : Len(lanes[p]) \in Nat
  BY DEF TypeOK, Lanes
<1>. PICK pair \in PromotionPairs, n \in Nat :
        n \in 1 .. Len(lanes[pair[1]]) /\ lanes' = Promote(lanes, pair[1], pair[2], n)
  BY <1>1 DEF AgingPromote, PromotionPairs, Priority, LOW, MEDIUM, HIGH
<1>2. pair[1] \in Priority /\ pair[2] \in Priority /\ pair[1] # pair[2]
  BY DEF PromotionPairs, Priority, LOW, MEDIUM, HIGH
<1>. QED BY <1>1, <1>2, PromoteFacts

(* Every step keeps the types; the counters stay natural numbers because   *)
(* each decrement undoes an increment that is still counted.               *)
LEMMA TypeStep == IInv /\ Next => TypeOK'
<1>. SUFFICES ASSUME IInv, Next PROVE TypeOK'
  OBVIOUS
<1>. USE TaskAssumption DEF TypeOK, IInv, vars, flagVars, counterVars, queueVars, historyVars,
     WorkerPC, ClientPC, SubmitPC, WaitPC, DestroyPC
<1>1. ASSUME NEW w \in Workers, WorkerStep(w) PROVE TypeOK'
  <2>1. CASE WorkerTop(w)
    BY <2>1 DEF WorkerTop
  <2>2. CASE WorkerPause(w)
    BY <2>2 DEF WorkerPause
  <2>3. CASE WorkerPop(w)
    <3>1. Ready(lanes) # {} => First(lanes) \in Task /\ RemoveFirst(lanes) \in Lanes
      BY RemoveFacts
    <3>. QED BY <2>3, <3>1 DEF WorkerPop
  <2>4. CASE WorkerBegin(w)
    BY <2>4 DEF WorkerBegin
  <2>5. CASE WorkerFinish(w)
    <3>1. task[w] \in Task
      BY <2>5 DEF WorkerFinish, OneOwner, Working
    <3>. QED BY <2>5, <3>1 DEF WorkerFinish
  <2>6. CASE WorkerDec(w)
    <3>1. Cardinality(Holding) # 0
      <4>1. w \in Holding
        BY <2>6 DEF WorkerDec, Holding
      <4>. QED BY <4>1, FiniteCounts, CardStep
    <3>2. total - 1 \in Nat
      BY <3>1, FiniteCounts, SizeFacts DEF TotalExact
    <3>. QED BY <2>6, <3>2 DEF WorkerDec
  <2>7. CASE WorkerSignal(w)
    BY <2>7 DEF WorkerSignal, SignalDrain, DrainWaiters
  <2>. QED BY <1>1, <2>1, <2>2, <2>3, <2>4, <2>5, <2>6, <2>7 DEF WorkerStep
<1>2. ASSUME NEW c \in Submitters, SubmitStep(c) PROVE TypeOK'
  <2>0. c \in Clients
    BY DEF Clients
  <2>1. CASE SubmitEnter(c)
    BY <2>0, <2>1 DEF SubmitEnter
  <2>2. CASE SubmitCheckShutdown(c)
    BY <2>0, <2>2 DEF SubmitCheckShutdown
  <2>3. CASE SubmitFullApprox(c)
    BY <2>0, <2>3 DEF SubmitFullApprox
  <2>4. CASE SubmitCreate(c)
    BY <2>0, <2>4 DEF SubmitCreate
  <2>5. CASE SubmitTryPush(c)
    BY <2>0, <2>5 DEF SubmitTryPush
  <2>9. CASE SubmitInsert(c)
    <3>1. task[c] \in Task
      BY <2>0, <2>9 DEF SubmitInsert, Callers
    <3>2. Insert(lanes, task[c], TaskPriority[task[c]]) \in Lanes
      BY <3>1, InsertFacts
    <3>. QED BY <2>0, <2>9, <3>1, <3>2 DEF SubmitInsert
  <2>6. CASE SubmitSignal(c)
    BY <2>0, <2>6 DEF SubmitSignal, SignalNotEmpty
  <2>7. CASE SubmitUndo(c)
    <3>1. Cardinality(Pushing) # 0
      <4>1. c \in Pushing
        BY <2>0, <2>7 DEF SubmitUndo, Pushing
      <4>. QED BY <4>1, FiniteCounts, CardStep
    <3>2. total - 1 \in Nat
      BY <3>1, FiniteCounts, SizeFacts DEF TotalExact
    <3>. QED BY <2>0, <2>7, <3>2 DEF SubmitUndo
  <2>8. CASE SubmitLeave(c)
    <3>1. Cardinality(InFlight) # 0
      <4>1. c \in InFlight
        BY <2>0, <2>8 DEF SubmitLeave, InFlight
      <4>. QED BY <4>1, FiniteCounts, CardStep
    <3>2. in_flight - 1 \in Nat
      BY <3>1, FiniteCounts DEF InFlightExact
    <3>. QED BY <2>0, <2>8, <3>2 DEF SubmitLeave
  <2>. QED BY <1>2, <2>1, <2>2, <2>3, <2>4, <2>5, <2>6, <2>7, <2>8, <2>9 DEF SubmitStep
<1>3. ASSUME NEW c \in Clients, ControlStep(c) PROVE TypeOK'
  <2>1. CASE PauseWakeAll(c)
    BY <2>1 DEF PauseWakeAll, WakeAll, Back
  <2>2. CASE ResumeWakePause(c) \/ WaitWakePause(c)
    BY <2>2 DEF ResumeWakePause, WaitWakePause, WakePause, Back
  <2>3. CASE WaitResume(c) \/ WaitDrain(c)
    BY <2>3 DEF WaitResume, WaitDrain
  <2>. QED BY <1>3, <2>1, <2>2, <2>3 DEF ControlStep
<1>4. ASSUME NEW c \in Clients, ClientCall(c) PROVE TypeOK'
  <2>1. CASE c \in Submitters /\ SubmitCall(c)
    BY <2>1 DEF SubmitCall
  <2>2. CASE WaitCall(c)
    BY <2>2 DEF WaitCall
  <2>3. CASE PauseCall(c)
    BY <2>3 DEF PauseCall
  <2>4. CASE ResumeCall(c)
    BY <2>4 DEF ResumeCall
  <2>5. CASE SetMaxTasks(c)
    BY <2>5 DEF SetMaxTasks
  <2>. QED BY <1>4, <2>1, <2>2, <2>3, <2>4, <2>5 DEF ClientCall
<1>5. CASE DestroyShutdown \/ DestroyStep
  BY <1>5, SizeFacts DEF DestroyShutdown, DestroyStep, DestroyUnpause, DestroySpin, DestroyWakeAll,
     DestroyWakePause, DestroyDisableAging, DestroyDrain, DestroyMonitorStop,
     DestroyMonitorJoin, DestroyJoin, DestroyFree, WakeAll, WakePause
<1>6. CASE AgingPromote
  BY <1>6, AgingFacts DEF AgingPromote, WakeAll
<1>7. CASE SpuriousWakeup
  BY <1>7 DEF SpuriousWakeup, DrainWaiters
<1>. QED BY <1>1, <1>2, <1>3, <1>4, <1>5, <1>6, <1>7 DEF Next, ClientStep

(* The count of the tasks in the system follows every task from submit to  *)
(* the end of its worker's turn.                                           *)
LEMMA TotalStep == IInv /\ Next => TotalExact'
<1>. SUFFICES ASSUME IInv, Next PROVE TotalExact'
  OBVIOUS
<1>. USE DEF TypeOK, IInv, flagVars, counterVars, queueVars, historyVars
<1>0. ASSUME Pushing' = Pushing, Holding' = Holding, Size(lanes') = Size(lanes), total' = total
      PROVE  TotalExact'
  BY <1>0 DEF TotalExact
<1>a. Size(lanes) \in Nat
  BY SizeFacts
<1>1. ASSUME NEW w \in Workers, WorkerStep(w) PROVE TotalExact'
  <2>1. CASE WorkerPop(w) /\ Ready(lanes) # {}
    <3>1. Pushing' = Pushing /\ Holding' = Holding \cup {w} /\ w \notin Holding
      BY <2>1 DEF WorkerPop, Pushing, Holding
    <3>2. Cardinality(Holding') = Cardinality(Holding) + 1
      BY <3>1, FiniteCounts, CardStep
    <3>3. Size(lanes') = Size(lanes) - 1 /\ total' = total
      BY <2>1, RemoveFacts DEF WorkerPop
    <3>. QED BY <1>a, <3>1, <3>2, <3>3, FiniteCounts DEF TotalExact
  <2>2. CASE WorkerDec(w)
    <3>1. Pushing' = Pushing /\ Holding' = Holding \ {w} /\ w \in Holding
      BY <2>2 DEF WorkerDec, Pushing, Holding
    <3>2. Cardinality(Holding') = Cardinality(Holding) - 1
      BY <3>1, FiniteCounts, CardStep
    <3>3. lanes' = lanes /\ total' = total - 1
      BY <2>2 DEF WorkerDec
    <3>. QED BY <1>a, <3>1, <3>2, <3>3, FiniteCounts DEF TotalExact
  <2>3. CASE WorkerSignal(w)
    <3>1. Pushing' = Pushing
      BY <2>3 DEF WorkerSignal, SignalDrain, DrainWaiters, Pushing
    <3>2. Holding' = Holding
      BY <2>3 DEF WorkerSignal, Holding
    <3>. QED BY <1>0, <2>3, <3>1, <3>2 DEF WorkerSignal
  <2>4. CASE \/ WorkerTop(w) \/ WorkerPause(w) \/ (WorkerPop(w) /\ Ready(lanes) = {})
             \/ WorkerBegin(w) \/ WorkerFinish(w)
    <3>1. Pushing' = Pushing /\ Holding' = Holding
      BY <2>4 DEF WorkerTop, WorkerPause, WorkerPop, WorkerBegin, WorkerFinish, Pushing, Holding
    <3>2. lanes' = lanes /\ total' = total
      BY <2>4 DEF WorkerTop, WorkerPause, WorkerPop, WorkerBegin, WorkerFinish
    <3>. QED BY <1>0, <3>1, <3>2
  <2>. QED BY <1>1, <2>1, <2>2, <2>3, <2>4 DEF WorkerStep
<1>2. ASSUME NEW c \in Submitters, SubmitStep(c) PROVE TotalExact'
  <2>0. c \in Clients
    BY DEF Clients
  <2>1. CASE SubmitCreate(c)
    <3>1. CASE total' = total
      <4>1. Pushing' = Pushing /\ Holding' = Holding /\ lanes' = lanes
        BY <2>0, <2>1, <3>1 DEF SubmitCreate, Pushing, Holding
      <4>. QED BY <1>0, <3>1, <4>1
    <3>2. CASE total' = total + 1
      <4>1. Pushing' = Pushing \cup {c} /\ c \notin Pushing /\ Holding' = Holding /\ lanes' = lanes
        BY <2>0, <2>1, <3>2 DEF SubmitCreate, Pushing, Holding
      <4>2. Cardinality(Pushing') = Cardinality(Pushing) + 1
        BY <4>1, FiniteCounts, CardStep
      <4>. QED BY <1>a, <3>2, <4>1, <4>2, FiniteCounts DEF TotalExact
    <3>. QED BY <2>1, <3>1, <3>2 DEF SubmitCreate
  <2>2. CASE SubmitInsert(c)
    <3>1. Pushing' = Pushing \ {c} /\ c \in Pushing /\ Holding' = Holding /\ total' = total
      BY <2>0, <2>2 DEF SubmitInsert, Pushing, Holding
    <3>2. Cardinality(Pushing') = Cardinality(Pushing) - 1
      BY <3>1, FiniteCounts, CardStep
    <3>3. task[c] \in Task /\ TaskPriority[task[c]] \in Priority
      BY <2>0, <2>2, TaskAssumption DEF SubmitInsert, Callers, SubmitPC
    <3>4. Size(lanes') = Size(lanes) + 1
      BY <2>2, <3>3, InsertFacts DEF SubmitInsert
    <3>. QED BY <1>a, <3>1, <3>2, <3>4, FiniteCounts DEF TotalExact
  <2>3. CASE SubmitUndo(c)
    <3>1. Pushing' = Pushing \ {c} /\ c \in Pushing /\ Holding' = Holding
      BY <2>0, <2>3 DEF SubmitUndo, Pushing, Holding
    <3>2. Cardinality(Pushing') = Cardinality(Pushing) - 1
      BY <3>1, FiniteCounts, CardStep
    <3>3. lanes' = lanes /\ total' = total - 1
      BY <2>3 DEF SubmitUndo
    <3>. QED BY <1>a, <3>1, <3>2, <3>3, FiniteCounts DEF TotalExact
  <2>4. CASE SubmitSignal(c)
    <3>1. Pushing' = Pushing
      BY <2>0, <2>4 DEF SubmitSignal, Pushing
    <3>2. Holding' = Holding
      BY <2>4 DEF SubmitSignal, SignalNotEmpty, Holding
    <3>. QED BY <1>0, <2>4, <3>1, <3>2 DEF SubmitSignal
  <2>5. CASE \/ SubmitEnter(c) \/ SubmitCheckShutdown(c) \/ SubmitFullApprox(c)
             \/ SubmitTryPush(c) \/ SubmitLeave(c)
    <3>1. Pushing' = Pushing /\ Holding' = Holding
      BY <2>0, <2>5 DEF SubmitEnter, SubmitCheckShutdown, SubmitFullApprox, SubmitTryPush,
         SubmitLeave, Pushing, Holding
    <3>2. lanes' = lanes /\ total' = total
      BY <2>5 DEF SubmitEnter, SubmitCheckShutdown, SubmitFullApprox, SubmitTryPush, SubmitLeave
    <3>. QED BY <1>0, <3>1, <3>2
  <2>. QED BY <1>2, <2>1, <2>2, <2>3, <2>4, <2>5 DEF SubmitStep
<1>3. ASSUME NEW c \in Clients, ControlStep(c) \/ ClientCall(c) PROVE TotalExact'
  <2>1. Pushing' = Pushing
    BY <1>3 DEF ControlStep, PauseWakeAll, ResumeWakePause, WaitResume, WaitWakePause,
       WaitDrain, ClientCall, MayCall, SubmitCall, WaitCall, PauseCall, ResumeCall,
       SetMaxTasks, Pushing, Back
  <2>2. Holding' = Holding
    BY <1>3 DEF ControlStep, PauseWakeAll, ResumeWakePause, WaitResume, WaitWakePause,
       WaitDrain, ClientCall, MayCall, SubmitCall, WaitCall, PauseCall, ResumeCall,
       SetMaxTasks, Holding, WakeAll, WakePause
  <2>3. lanes' = lanes /\ total' = total
    BY <1>3 DEF ControlStep, PauseWakeAll, ResumeWakePause, WaitResume, WaitWakePause,
       WaitDrain, ClientCall, SubmitCall, WaitCall, PauseCall, ResumeCall, SetMaxTasks
  <2>. QED BY <1>0, <2>1, <2>2, <2>3
<1>4. CASE DestroyShutdown \/ DestroyStep
  <2>1. Pushing' = Pushing /\ total' = total
    BY <1>4 DEF DestroyShutdown, DestroyStep, DestroyUnpause, DestroySpin, DestroyWakeAll,
       DestroyWakePause, DestroyDisableAging, DestroyDrain, DestroyMonitorStop,
       DestroyMonitorJoin, DestroyJoin, DestroyFree, Pushing
  <2>2. Holding' = Holding
    BY <1>4 DEF DestroyShutdown, DestroyStep, DestroyUnpause, DestroySpin, DestroyWakeAll,
       DestroyWakePause, DestroyDisableAging, DestroyDrain, DestroyMonitorStop,
       DestroyMonitorJoin, DestroyJoin, DestroyFree, WakeAll, WakePause, Holding
  <2>3. Size(lanes') = Size(lanes)
    <3>1. CASE DestroyFree
      <4>1. Size(lanes) = 0
        BY <1>a, <3>1, FiniteCounts DEF DestroyFree, Drained, TotalExact
      <4>. QED BY <3>1, <4>1, SizeFacts DEF DestroyFree
    <3>2. CASE ~DestroyFree
      BY <1>4, <3>2 DEF DestroyShutdown, DestroyStep, DestroyUnpause, DestroySpin, DestroyWakeAll,
         DestroyWakePause, DestroyDisableAging, DestroyDrain, DestroyMonitorStop,
         DestroyMonitorJoin, DestroyJoin
    <3>. QED BY <3>1, <3>2
  <2>. QED BY <1>0, <2>1, <2>2, <2>3
<1>5. CASE AgingPromote
  <2>1. Pushing' = Pushing /\ total' = total
    BY <1>5 DEF AgingPromote, Pushing
  <2>2. Holding' = Holding
    BY <1>5 DEF AgingPromote, WakeAll, Holding
  <2>3. Size(lanes') = Size(lanes)
    BY <1>5, AgingFacts
  <2>. QED BY <1>0, <2>1, <2>2, <2>3
<1>6. CASE SpuriousWakeup
  <2>1. Pushing' = Pushing
    BY <1>6 DEF SpuriousWakeup, DrainWaiters, Pushing
  <2>2. Holding' = Holding
    BY <1>6 DEF SpuriousWakeup, Holding
  <2>. QED BY <1>0, <1>6, <2>1, <2>2 DEF SpuriousWakeup
<1>. QED BY <1>1, <1>2, <1>3, <1>4, <1>5, <1>6 DEF Next, ClientStep

-------------------------------------------------------------------------------
(* The submit protocol. *)

(* in_flight_submits is given back on every return path. *)
LEMMA InFlightStep == IInv /\ Next => InFlightExact'
<1>. SUFFICES ASSUME IInv, Next PROVE InFlightExact'
  OBVIOUS
<1>. USE DEF TypeOK, IInv, flagVars, counterVars, queueVars, historyVars, SubmitPC
<1>0. ASSUME InFlight' = InFlight, in_flight' = in_flight PROVE InFlightExact'
  BY <1>0 DEF InFlightExact
<1>1. ASSUME NEW w \in Workers, WorkerStep(w) PROVE InFlightExact'
  <2>1. InFlight' = InFlight
    BY <1>1 DEF WorkerStep, WorkerTop, WorkerPause, WorkerPop, WorkerBegin, WorkerFinish,
       WorkerDec, WorkerSignal, SignalDrain, DrainWaiters, InFlight
  <2>2. in_flight' = in_flight
    BY <1>1 DEF WorkerStep, WorkerTop, WorkerPause, WorkerPop, WorkerBegin, WorkerFinish,
       WorkerDec, WorkerSignal
  <2>. QED BY <1>0, <2>1, <2>2
<1>2. ASSUME NEW c \in Submitters, SubmitStep(c) PROVE InFlightExact'
  <2>0. c \in Clients
    BY DEF Clients
  <2>1. CASE SubmitEnter(c)
    <3>1. InFlight' = InFlight \cup {c} /\ c \notin InFlight /\ in_flight' = in_flight + 1
      BY <2>0, <2>1 DEF SubmitEnter, InFlight
    <3>2. Cardinality(InFlight') = Cardinality(InFlight) + 1
      BY <3>1, FiniteCounts, CardStep
    <3>. QED BY <3>1, <3>2 DEF InFlightExact
  <2>2. CASE SubmitLeave(c)
    <3>1. InFlight' = InFlight \ {c} /\ c \in InFlight /\ in_flight' = in_flight - 1
      BY <2>0, <2>2 DEF SubmitLeave, InFlight
    <3>2. Cardinality(InFlight') = Cardinality(InFlight) - 1
      BY <3>1, FiniteCounts, CardStep
    <3>. QED BY <3>1, <3>2 DEF InFlightExact
  <2>3. CASE \/ SubmitCheckShutdown(c) \/ SubmitFullApprox(c) \/ SubmitCreate(c)
             \/ SubmitTryPush(c) \/ SubmitInsert(c) \/ SubmitSignal(c) \/ SubmitUndo(c)
    <3>1. InFlight' = InFlight
      BY <2>0, <2>3 DEF SubmitCheckShutdown, SubmitFullApprox, SubmitCreate, SubmitTryPush,
         SubmitInsert, SubmitSignal, SubmitUndo, InFlight
    <3>2. in_flight' = in_flight
      BY <2>3 DEF SubmitCheckShutdown, SubmitFullApprox, SubmitCreate, SubmitTryPush,
         SubmitInsert, SubmitSignal, SubmitUndo
    <3>. QED BY <1>0, <3>1, <3>2
  <2>. QED BY <1>2, <2>1, <2>2, <2>3 DEF SubmitStep
<1>3. ASSUME NEW c \in Clients, ControlStep(c) \/ ClientCall(c) PROVE InFlightExact'
  <2>1. InFlight' = InFlight
    BY <1>3 DEF ControlStep, PauseWakeAll, ResumeWakePause, WaitResume, WaitWakePause,
       WaitDrain, ClientCall, MayCall, SubmitCall, WaitCall, PauseCall, ResumeCall,
       SetMaxTasks, InFlight, Back
  <2>2. in_flight' = in_flight
    BY <1>3 DEF ControlStep, PauseWakeAll, ResumeWakePause, WaitResume, WaitWakePause,
       WaitDrain, ClientCall, SubmitCall, WaitCall, PauseCall, ResumeCall, SetMaxTasks
  <2>. QED BY <1>0, <2>1, <2>2
<1>4. CASE DestroyShutdown \/ DestroyStep \/ AgingPromote
  <2>1. cpc' = cpc /\ in_flight' = in_flight
    BY <1>4 DEF DestroyShutdown, DestroyStep, DestroyUnpause, DestroySpin, DestroyWakeAll,
       DestroyWakePause, DestroyDisableAging, DestroyDrain, DestroyMonitorStop,
       DestroyMonitorJoin, DestroyJoin, DestroyFree, AgingPromote
  <2>2. InFlight' = InFlight
    BY <2>1 DEF InFlight
  <2>. QED BY <1>0, <2>1, <2>2
<1>5. CASE SpuriousWakeup
  <2>1. InFlight' = InFlight
    BY <1>5 DEF SpuriousWakeup, DrainWaiters, InFlight
  <2>. QED BY <1>0, <1>5, <2>1 DEF SpuriousWakeup
<1>. QED BY <1>1, <1>2, <1>3, <1>4, <1>5 DEF Next, ClientStep

(* Past the in_flight spin nobody passes the shutdown check. *)
LEMMA ClosedStep == IInv /\ Next => SubmissionClosed' /\ Shut'
<1>. SUFFICES ASSUME IInv, Next PROVE SubmissionClosed' /\ Shut'
  OBVIOUS
<1>t. /\ cpc \in [Clients -> ClientPC] /\ dpc \in DestroyPC /\ shutdown \in BOOLEAN
      /\ SubmissionClosed /\ Shut /\ InFlightExact
  BY DEF IInv, TypeOK
<1>. HIDE DEF IInv
<1>. USE <1>t DEF flagVars, counterVars, queueVars, historyVars, DestroyPC, PastSpin,
     SubmissionClosed, Shut
<1>0. ASSUME UNCHANGED <<cpc, shutdown>>, PastSpin' => PastSpin, dpc' = "idle" <=> dpc = "idle"
      PROVE  SubmissionClosed' /\ Shut'
  BY <1>0
<1>1. ASSUME NEW w \in Workers, WorkerStep(w) PROVE SubmissionClosed' /\ Shut'
  <2>1. CASE WorkerSignal(w)
    BY <2>1 DEF WorkerSignal, SignalDrain, DrainWaiters
  <2>2. CASE ~WorkerSignal(w)
    BY <1>0, <1>1, <2>2 DEF WorkerStep, WorkerTop, WorkerPause, WorkerPop, WorkerBegin,
       WorkerFinish, WorkerDec
  <2>. QED BY <2>1, <2>2
<1>2. ASSUME NEW c \in Submitters, SubmitStep(c) PROVE SubmissionClosed' /\ Shut'
  <2>0. c \in Clients
    BY DEF Clients
  <2>1. CASE SubmitEnter(c)
    BY <2>0, <2>1 DEF SubmitEnter
  <2>2. CASE SubmitCheckShutdown(c)
    BY <2>0, <2>2 DEF SubmitCheckShutdown
  <2>3. CASE SubmitFullApprox(c) \/ SubmitCreate(c)
    BY <2>0, <2>3 DEF SubmitFullApprox, SubmitCreate
  <2>4. CASE SubmitTryPush(c) \/ SubmitInsert(c)
    BY <2>0, <2>4 DEF SubmitTryPush, SubmitInsert
  <2>5. CASE SubmitSignal(c) \/ SubmitUndo(c) \/ SubmitLeave(c)
    BY <2>0, <2>5 DEF SubmitSignal, SubmitUndo, SubmitLeave
  <2>. QED BY <1>2, <2>1, <2>2, <2>3, <2>4, <2>5 DEF SubmitStep
<1>3. ASSUME NEW c \in Clients, ControlStep(c) \/ ClientCall(c) PROVE SubmissionClosed' /\ Shut'
  BY <1>3 DEF ControlStep, PauseWakeAll, ResumeWakePause, WaitResume, WaitWakePause,
     WaitDrain, ClientCall, SubmitCall, WaitCall, PauseCall, ResumeCall, SetMaxTasks, Back
<1>4. CASE DestroySpin
  <2>1. InFlight = {}
    BY <1>4, FiniteCounts, CardStep DEF DestroySpin, InFlightExact
  <2>. QED BY <1>4, <2>1 DEF DestroySpin, InFlight, SubmitPC
<1>5. CASE DestroyShutdown
  BY <1>5 DEF DestroyShutdown
<1>6. CASE DestroyStep /\ ~DestroySpin
  BY <1>0, <1>6 DEF DestroyStep, DestroyUnpause, DestroyWakeAll, DestroyWakePause,
     DestroyDisableAging, DestroyDrain, DestroyMonitorStop, DestroyMonitorJoin, DestroyJoin,
     DestroyFree
<1>7. CASE AgingPromote
  BY <1>0, <1>7 DEF AgingPromote
<1>8. CASE SpuriousWakeup
  BY <1>8 DEF SpuriousWakeup, DrainWaiters
<1>. QED BY <1>1, <1>2, <1>3, <1>4, <1>5, <1>6, <1>7, <1>8 DEF Next, ClientStep

(* Once the drain loop of thread_pool_destroy has ended, the count is zero *)
(* and nobody is left who could change it.                                 *)
LEMMA DrainedStep == IInv /\ Next => Drained'
<1>. SUFFICES ASSUME IInv, Next PROVE Drained'
  OBVIOUS
<1>t. /\ cpc \in [Clients -> ClientPC] /\ total \in Nat /\ lanes \in Lanes
      /\ SubmissionClosed /\ Drained /\ TotalExact
  BY DEF IInv, TypeOK
<1>. USE DEF flagVars, counterVars, queueVars, historyVars
<1>. DEFINE After == {"d_monitor", "d_stopping", "d_join", "d_free", "freed"}
<1>0. ASSUME dpc' \in After => dpc \in After, total' = total PROVE Drained'
  BY <1>0, <1>t DEF Drained
<1>. HIDE DEF After
<1>a. /\ After \subseteq DestroyPC \ {"idle", "d_unpause", "d_spin"}
      /\ {"d_unpause", "d_spin", "d_wake_pq", "d_wake_pause", "d_aging", "d_drain", "d_waiting"}
            \cap After = {}
      /\ {"d_monitor", "d_stopping", "d_join", "d_free"} \subseteq After
  BY DEF After, DestroyPC
<1>1. ASSUME NEW w \in Workers, WorkerStep(w) PROVE Drained'
  <2>1. CASE WorkerDec(w)
    <3>1. w \in Holding
      BY <2>1 DEF WorkerDec, Holding
    <3>2. Cardinality(Holding) # 0
      BY <3>1, FiniteCounts, CardStep
    <3>3. total # 0
      BY <1>t, <3>2, FiniteCounts, SizeFacts DEF TotalExact
    <3>4. dpc \notin After
      BY <1>t, <3>3 DEF Drained, After
    <3>5. dpc' = dpc
      BY <2>1 DEF WorkerDec
    <3>. QED BY <3>4, <3>5 DEF Drained, After
  <2>2. CASE WorkerSignal(w)
    BY <1>0, <1>a, <2>2 DEF WorkerSignal, SignalDrain
  <2>3. CASE ~(WorkerDec(w) \/ WorkerSignal(w))
    BY <1>0, <1>1, <2>3 DEF WorkerStep, WorkerTop, WorkerPause, WorkerPop, WorkerBegin,
       WorkerFinish
  <2>. QED BY <2>1, <2>2, <2>3
<1>2. ASSUME NEW c \in Submitters, SubmitStep(c) PROVE Drained'
  <2>0. c \in Clients
    BY DEF Clients
  <2>1. CASE SubmitCreate(c) \/ SubmitUndo(c)
    <3>1. cpc[c] \in {"s_create", "s_undo"} /\ dpc' = dpc
      BY <2>1 DEF SubmitCreate, SubmitUndo
    <3>2. dpc \notin After
      BY <1>a, <1>t, <2>0, <3>1 DEF SubmissionClosed, PastSpin
    <3>. QED BY <3>1, <3>2 DEF Drained, After
  <2>2. CASE ~(SubmitCreate(c) \/ SubmitUndo(c))
    BY <1>0, <1>2, <2>2 DEF SubmitStep, SubmitEnter, SubmitCheckShutdown, SubmitFullApprox,
       SubmitTryPush, SubmitInsert, SubmitSignal, SubmitLeave
  <2>. QED BY <2>1, <2>2
<1>3. ASSUME NEW c \in Clients, ControlStep(c) \/ ClientCall(c) PROVE Drained'
  BY <1>0, <1>3 DEF ControlStep, PauseWakeAll, ResumeWakePause, WaitResume, WaitWakePause,
     WaitDrain, ClientCall, SubmitCall, WaitCall, PauseCall, ResumeCall, SetMaxTasks
<1>4. CASE DestroyDrain
  BY <1>4, <1>t DEF DestroyDrain, Drained
<1>5. CASE (DestroyShutdown \/ DestroyStep) /\ ~DestroyDrain
  <2>1. total' = total
    BY <1>5 DEF DestroyShutdown, DestroyStep, DestroyUnpause, DestroySpin, DestroyWakeAll,
       DestroyWakePause, DestroyDisableAging, DestroyMonitorStop, DestroyMonitorJoin,
       DestroyJoin, DestroyFree
  <2>2. dpc' \in After => dpc \in After
    BY <1>a, <1>5 DEF DestroyShutdown, DestroyStep, DestroyUnpause, DestroySpin, DestroyWakeAll,
       DestroyWakePause, DestroyDisableAging, DestroyMonitorStop, DestroyMonitorJoin,
       DestroyJoin, DestroyFree
  <2>. QED BY <1>0, <2>1, <2>2
<1>6. CASE AgingPromote
  BY <1>0, <1>6 DEF AgingPromote
<1>7. CASE SpuriousWakeup
  <2>1. total' = total /\ (dpc' = dpc \/ dpc' = "d_drain")
    BY <1>7 DEF SpuriousWakeup
  <2>. QED BY <1>0, <1>a, <2>1
<1>. QED BY <1>1, <1>2, <1>3, <1>4, <1>5, <1>6, <1>7 DEF Next, ClientStep

(* busy follows the call of the task's function. *)
LEMMA BusyStep == IInv /\ Next => BusyShown'
<1>. SUFFICES ASSUME IInv, Next PROVE BusyShown'
  OBVIOUS
<1>t. wpc \in [Workers -> WorkerPC] /\ busy \in [Workers -> BOOLEAN] /\ BusyShown
  BY DEF IInv, TypeOK
<1>. USE DEF flagVars, counterVars, queueVars, historyVars
<1>0. ASSUME busy' = busy, \A w \in Workers : wpc'[w] = "run" <=> wpc[w] = "run"
      PROVE  BusyShown'
  BY <1>0, <1>t DEF BusyShown
<1>m. ASSUME NEW w \in Workers, NEW to, to # "run", wpc[w] # "run", busy' = busy,
             wpc' = [wpc EXCEPT ![w] = to]
      PROVE  BusyShown'
  BY <1>0, <1>t, <1>m
<1>w. ASSUME busy' = busy, SignalNotEmpty \/ WakeAll \/ WakePause \/ wpc' = wpc
      PROVE  BusyShown'
  <2>1. CASE SignalNotEmpty \/ wpc' = wpc
    BY <1>0, <1>m, <1>w, <2>1 DEF SignalNotEmpty
  <2>2. CASE WakeAll
    BY <1>0, <1>w, <2>2 DEF WakeAll
  <2>3. CASE WakePause
    BY <1>0, <1>w, <2>3 DEF WakePause
  <2>. QED BY <1>w, <2>1, <2>2, <2>3
<1>1. ASSUME NEW w \in Workers, WorkerStep(w) PROVE BusyShown'
  <2>1. CASE WorkerTop(w) \/ WorkerPause(w)
    BY <1>m, <2>1 DEF WorkerTop, WorkerPause
  <2>2. CASE WorkerPop(w)
    BY <1>m, <2>2 DEF WorkerPop
  <2>3. CASE WorkerBegin(w)
    BY <1>t, <2>3 DEF WorkerBegin, BusyShown
  <2>4. CASE WorkerFinish(w)
    BY <1>t, <2>4 DEF WorkerFinish, BusyShown
  <2>5. CASE WorkerDec(w) \/ WorkerSignal(w)
    BY <1>m, <2>5 DEF WorkerDec, WorkerSignal
  <2>. QED BY <1>1, <2>1, <2>2, <2>3, <2>4, <2>5 DEF WorkerStep
<1>2. ASSUME NEW c \in Clients, ClientStep(c) \/ ClientCall(c) PROVE BusyShown'
  <2>1. busy' = busy /\ (SignalNotEmpty \/ WakeAll \/ WakePause \/ wpc' = wpc)
    BY <1>2, SubmitEffect, ControlEffect, CallEffect DEF ClientStep
  <2>. QED BY <1>w, <2>1
<1>3. CASE DestroyShutdown \/ DestroyStep
  <2>1. busy' = busy /\ (WakeAll \/ WakePause \/ wpc' = wpc)
    BY <1>3, DestroyEffect
  <2>. QED BY <1>w, <2>1
<1>4. CASE AgingPromote
  BY <1>w, <1>4 DEF AgingPromote
<1>5. CASE SpuriousWakeup
  BY <1>m, <1>w, <1>5 DEF SpuriousWakeup
<1>. QED BY <1>1, <1>2, <1>3, <1>4, <1>5 DEF Next

(* Each submit call keeps a task of its own until it queues it. *)
LEMMA CallersStep == IInv /\ Next => Callers'
<1>. SUFFICES ASSUME IInv, Next PROVE Callers'
  OBVIOUS
<1>. USE DEF TypeOK, IInv, flagVars, counterVars, queueVars, historyVars, SubmitPC
<1>. DEFINE Early == {"s_enter", "s_check", "s_full", "s_create", "s_push", "s_insert"}
<1>0. ASSUME UNCHANGED <<called, accepted>>,
             \A c \in Clients : cpc'[c] \in SubmitPC =>
                /\ cpc[c] \in SubmitPC
                /\ cpc'[c] \in Early => cpc[c] \in Early
                /\ c \in Submitters => task'[c] = task[c]
      PROVE  Callers'
  BY <1>0 DEF Callers
<1>1. ASSUME NEW w \in Workers, WorkerStep(w) PROVE Callers'
  <2>1. UNCHANGED <<called, accepted>>
    BY <1>1 DEF WorkerStep, WorkerTop, WorkerPause, WorkerPop, WorkerBegin, WorkerFinish,
       WorkerDec, WorkerSignal
  <2>2. \A c \in Submitters : task'[c] = task[c]
    BY <1>1, ThreadAssumption DEF WorkerStep, WorkerTop, WorkerPause, WorkerPop, WorkerBegin,
       WorkerFinish, WorkerDec, WorkerSignal, Clients
  <2>3. \A c \in Clients : cpc'[c] \in SubmitPC => cpc'[c] = cpc[c]
    BY <1>1 DEF WorkerStep, WorkerTop, WorkerPause, WorkerPop, WorkerBegin, WorkerFinish,
       WorkerDec, WorkerSignal, SignalDrain, DrainWaiters
  <2>. QED BY <1>0, <2>1, <2>2, <2>3
<1>2. ASSUME NEW c \in Submitters, SubmitStep(c) PROVE Callers'
  <2>0. c \in Clients
    BY DEF Clients
  <2>1. CASE SubmitInsert(c)
    BY <2>0, <2>1 DEF SubmitInsert, Callers
  <2>2. CASE SubmitTryPush(c)
    BY <1>0, <2>0, <2>2 DEF SubmitTryPush
  <2>3. CASE SubmitLeave(c)
    BY <1>0, <2>0, <2>3 DEF SubmitLeave
  <2>4. CASE \/ SubmitEnter(c) \/ SubmitCheckShutdown(c) \/ SubmitFullApprox(c)
             \/ SubmitCreate(c) \/ SubmitSignal(c) \/ SubmitUndo(c)
    BY <1>0, <2>0, <2>4 DEF SubmitEnter, SubmitCheckShutdown, SubmitFullApprox, SubmitCreate,
       SubmitSignal, SubmitUndo
  <2>. QED BY <1>2, <2>1, <2>2, <2>3, <2>4 DEF SubmitStep
<1>3. ASSUME NEW c \in Clients, ControlStep(c) PROVE Callers'
  BY <1>0, <1>3 DEF ControlStep, PauseWakeAll, ResumeWakePause, WaitResume, WaitWakePause,
     WaitDrain, Back
<1>4. ASSUME NEW c \in Clients, ClientCall(c) PROVE Callers'
  <2>1. CASE c \in Submitters /\ SubmitCall(c)
    BY <2>1 DEF SubmitCall, MayCall, Callers
  <2>2. CASE WaitCall(c) \/ PauseCall(c) \/ ResumeCall(c) \/ SetMaxTasks(c)
    BY <1>0, <2>2 DEF WaitCall, PauseCall, ResumeCall, SetMaxTasks
  <2>. QED BY <1>4, <2>1, <2>2 DEF ClientCall
<1>5. CASE DestroyShutdown \/ DestroyStep \/ AgingPromote
  <2>1. UNCHANGED <<cpc, called, accepted, task>>
    BY <1>5, DestroyEffect DEF AgingPromote
  <2>. QED BY <1>0, <2>1
<1>6. CASE SpuriousWakeup
  BY <1>0, <1>6 DEF SpuriousWakeup, DrainWaiters
<1>. HIDE DEF TypeOK, IInv
<1>. QED BY <1>1, <1>2, <1>3, <1>4, <1>5, <1>6 DEF Next, ClientStep

(* While a submitter holds pq->mutex for its insertion nobody else enters   *)
(* pq_try_push or makes the queue longer.                                  *)
LEMMA InsertingStep == IInv /\ Next => Inserting'
<1>. SUFFICES ASSUME IInv, Next PROVE Inserting'
  OBVIOUS
<1>t. /\ cpc \in [Clients -> ClientPC] /\ limit \in [Clients -> Nat]
      /\ Inserting /\ SubmissionClosed
  BY DEF IInv, TypeOK
<1>. USE <1>t DEF flagVars, counterVars, queueVars, historyVars
<1>0. ASSUME UNCHANGED <<lanes, limit>>,
             \A c \in Clients : cpc'[c] = "s_insert" => cpc[c] = "s_insert"
      PROVE  Inserting'
  BY <1>0 DEF Inserting
<1>f. ASSUME PqFree, cpc' = cpc PROVE Inserting'
  BY <1>f DEF PqFree, Inserting
<1>1. ASSUME NEW w \in Workers, WorkerStep(w) PROVE Inserting'
  <2>1. CASE WorkerPop(w)
    BY <1>f, <2>1 DEF WorkerPop
  <2>2. CASE WorkerSignal(w)
    BY <1>0, <2>2 DEF WorkerSignal, SignalDrain, DrainWaiters
  <2>3. CASE ~(WorkerPop(w) \/ WorkerSignal(w))
    BY <1>0, <1>1, <2>3 DEF WorkerStep, WorkerTop, WorkerPause, WorkerBegin, WorkerFinish, WorkerDec
  <2>. QED BY <2>1, <2>2, <2>3
<1>2. ASSUME NEW c \in Submitters, SubmitStep(c) PROVE Inserting'
  <2>0. c \in Clients
    BY DEF Clients
  <2>1. CASE SubmitTryPush(c)
    <3>1. CASE AtCapacity(Size(lanes), max_tasks)
      BY <1>0, <2>0, <2>1, <3>1 DEF SubmitTryPush
    <3>2. CASE ~AtCapacity(Size(lanes), max_tasks)
      <4>1. \A d \in Clients : cpc'[d] = "s_insert" => d = c
        BY <2>0, <2>1 DEF SubmitTryPush, PqFree
      <4>2. lanes' = lanes /\ limit'[c] = max_tasks
        BY <2>0, <2>1, <3>2 DEF SubmitTryPush
      <4>. QED BY <3>2, <4>1, <4>2 DEF Inserting
    <3>. QED BY <3>1, <3>2
  <2>2. CASE SubmitInsert(c)
    <3>1. \A d \in Clients : cpc'[d] # "s_insert"
      BY <2>0, <2>2 DEF SubmitInsert, Inserting
    <3>. QED BY <3>1 DEF Inserting
  <2>3. CASE SubmitEnter(c) \/ SubmitCheckShutdown(c) \/ SubmitFullApprox(c) \/ SubmitCreate(c)
    BY <1>0, <2>0, <2>3 DEF SubmitEnter, SubmitCheckShutdown, SubmitFullApprox, SubmitCreate
  <2>4. CASE SubmitSignal(c) \/ SubmitUndo(c) \/ SubmitLeave(c)
    BY <1>0, <2>0, <2>4 DEF SubmitSignal, SubmitUndo, SubmitLeave
  <2>. QED BY <1>2, <2>1, <2>2, <2>3, <2>4 DEF SubmitStep
<1>3. ASSUME NEW c \in Clients, ControlStep(c) PROVE Inserting'
  BY <1>0, <1>3 DEF ControlStep, PauseWakeAll, ResumeWakePause, WaitResume, WaitWakePause,
     WaitDrain, Back
<1>4. ASSUME NEW c \in Clients, ClientCall(c) PROVE Inserting'
  <2>1. UNCHANGED <<lanes, limit>>
    BY <1>4, CallEffect
  <2>2. \A d \in Clients : cpc'[d] = "s_insert" => cpc[d] = "s_insert"
    BY <1>4 DEF ClientCall, SubmitCall, WaitCall, PauseCall, ResumeCall, SetMaxTasks
  <2>. QED BY <1>0, <2>1, <2>2
<1>5. CASE DestroyShutdown \/ DestroyStep
  <2>1. cpc' = cpc /\ limit' = limit /\ (lanes' = lanes \/ DestroyFree)
    BY <1>5, DestroyEffect
  <2>2. CASE DestroyFree
    <3>1. PqFree
      BY <2>2 DEF DestroyFree, SubmissionClosed, PastSpin, DestroyPC, PqFree
    <3>. QED BY <1>f, <2>1, <3>1
  <2>. QED BY <1>0, <2>1, <2>2
<1>6. CASE AgingPromote
  BY <1>f, <1>6 DEF AgingPromote, WakeAll
<1>7. CASE SpuriousWakeup
  BY <1>0, <1>7 DEF SpuriousWakeup, DrainWaiters
<1>. QED BY <1>1, <1>2, <1>3, <1>4, <1>5, <1>6, <1>7 DEF Next, ClientStep

-------------------------------------------------------------------------------
(* Owners.                                                                 *)

(* A task changes hands: from the submitter to the queue, from the queue   *)
(* to one worker, and from that worker to the tasks that have run.         *)
LEMMA OwnerStep == IInv /\ Next => OneOwner' /\ RunsAtMostOnce'
<1>. SUFFICES ASSUME IInv, Next PROVE OneOwner' /\ RunsAtMostOnce'
  OBVIOUS
<1>t. /\ wpc \in [Workers -> WorkerPC] /\ cpc \in [Clients -> ClientPC] /\ lanes \in Lanes
      /\ task \in [Workers \cup Submitters -> Task \cup {NoTask}] /\ max_tasks \in Nat
      /\ accepted \in SUBSET Task /\ runs \in [Task -> Nat] /\ called \in SUBSET Task
  BY DEF IInv, TypeOK
<1>i. OneOwner /\ RunsAtMostOnce
  BY DEF IInv
<1>. USE <1>t, <1>i DEF flagVars, counterVars, queueVars, historyVars
<1>0. ASSUME UNCHANGED <<accepted, runs>>, NoDup(lanes'),
             \A u \in Task : In(lanes', u) <=> In(lanes, u),
             \A w \in Workers : /\ Working(w)' <=> Working(w)
                                /\ task'[w] = task[w]
      PROVE  OneOwner' /\ RunsAtMostOnce'
  <2>1. RunsAtMostOnce'
    BY <1>0 DEF RunsAtMostOnce
  <2>2. OneOwner'
    BY <1>0 DEF OneOwner
  <2>. QED BY <2>1, <2>2
<1>1. ASSUME NEW w \in Workers, WorkerStep(w) PROVE OneOwner' /\ RunsAtMostOnce'
  <2>1. CASE WorkerPop(w) /\ Ready(lanes) # {}
    <3>. PICK t \in Task : t = First(lanes)
      BY <2>1, RemoveFacts
    <3>1. /\ In(lanes, t) /\ NoDup(lanes')
          /\ \A u : In(lanes', u) <=> In(lanes, u) /\ u # t
      BY <2>1, RemoveFacts DEF WorkerPop, OneOwner
    <3>2. t \in accepted /\ runs[t] = 0 /\ \A v \in Workers : Working(v) => task[v] # t
      BY <3>1 DEF OneOwner
    <3>3. UNCHANGED <<accepted, runs>> /\ task'[w] = t /\ Working(w)' /\ ~Working(w)
      BY <2>1 DEF WorkerPop, Working
    <3>4. \A v \in Workers \ {w} : (Working(v)' <=> Working(v)) /\ task'[v] = task[v]
      BY <2>1 DEF WorkerPop, Working
    <3>5. RunsAtMostOnce'
      BY <3>3 DEF RunsAtMostOnce
    <3>6. \A u \in Task : In(lanes', u) =>
             u \in accepted /\ runs[u] = 0 /\ \A v \in Workers : Working(v)' => task'[v] # u
      BY <3>1, <3>3, <3>4 DEF OneOwner
    <3>7. \A v \in Workers : Working(v)' => task'[v] \in accepted /\ runs[task'[v]] = 0
      BY <3>2, <3>3, <3>4 DEF OneOwner
    <3>8. \A v, x \in Workers : Working(v)' /\ Working(x)' /\ task'[v] = task'[x] => v = x
      BY <3>2, <3>3, <3>4 DEF OneOwner
    <3>9. ASSUME NEW u \in accepted, runs[u] = 0
          PROVE  In(lanes', u) \/ \E v \in Workers : Working(v)' /\ task'[v] = u
      <4>1. CASE u = t
        BY <3>3, <4>1
      <4>2. CASE u # t
        <5>1. In(lanes, u) \/ \E v \in Workers : Working(v) /\ task[v] = u
          BY <3>9 DEF OneOwner
        <5>. QED BY <3>1, <3>3, <3>4, <4>2, <5>1
      <4>. QED BY <4>1, <4>2
    <3>. QED BY <3>1, <3>3, <3>5, <3>6, <3>7, <3>8, <3>9 DEF OneOwner
  <2>2. CASE WorkerFinish(w)
    <3>. PICK t \in Task : t = task[w]
      BY <2>2 DEF WorkerFinish, OneOwner, Working
    <3>1. UNCHANGED <<accepted, lanes>> /\ Working(w) /\ ~Working(w)'
      BY <2>2 DEF WorkerFinish, Working
    <3>2. t \in accepted /\ runs[t] = 0 /\ ~In(lanes, t)
      BY <3>1 DEF OneOwner
    <3>3. runs'[t] = 1 /\ \A u \in Task \ {t} : runs'[u] = runs[u]
      BY <2>2, <3>2 DEF WorkerFinish
    <3>4. \A v \in Workers \ {w} : (Working(v)' <=> Working(v)) /\ task'[v] = task[v]
      BY <2>2 DEF WorkerFinish, Working
    <3>5. \A v \in Workers \ {w} : Working(v) => task[v] # t
      BY <3>1 DEF OneOwner
    <3>6. RunsAtMostOnce'
      BY <3>1, <3>2, <3>3 DEF RunsAtMostOnce
    <3>7. OneOwner'
      BY <3>1, <3>2, <3>3, <3>4, <3>5 DEF OneOwner
    <3>. QED BY <3>6, <3>7
  <2>3. CASE \/ WorkerTop(w) \/ WorkerPause(w) \/ (WorkerPop(w) /\ Ready(lanes) = {})
             \/ WorkerBegin(w) \/ WorkerDec(w) \/ WorkerSignal(w)
    <3>1. UNCHANGED <<accepted, runs, lanes, task>>
      BY <2>3 DEF WorkerTop, WorkerPause, WorkerPop, WorkerBegin, WorkerDec, WorkerSignal
    <3>2. \A v \in Workers : Working(v)' <=> Working(v)
      BY <2>3 DEF WorkerTop, WorkerPause, WorkerPop, WorkerBegin, WorkerDec, WorkerSignal, Working
    <3>. QED BY <1>0, <3>1, <3>2 DEF OneOwner
  <2>. QED BY <1>1, <2>1, <2>2, <2>3 DEF WorkerStep
<1>2. ASSUME NEW c \in Submitters, SubmitStep(c) PROVE OneOwner' /\ RunsAtMostOnce'
  <2>0. c \in Clients /\ c \notin Workers
    BY ThreadAssumption DEF Clients
  <2>1. CASE SubmitInsert(c)
    <3>. PICK t \in Task : t = task[c] /\ t \notin accepted
      BY <2>0, <2>1 DEF SubmitInsert, Callers, SubmitPC, IInv
    <3>1. lanes' = Insert(lanes, t, TaskPriority[t]) /\ TaskPriority[t] \in Priority
      BY <2>1, TaskAssumption DEF SubmitInsert
    <3>2. ~In(lanes, t) /\ runs[t] = 0 /\ \A v \in Workers : Working(v) => task[v] # t
      BY DEF OneOwner, RunsAtMostOnce
    <3>3. NoDup(lanes') /\ \A u : In(lanes', u) <=> In(lanes, u) \/ u = t
      BY <3>1, <3>2, InsertFacts DEF OneOwner
    <3>4. accepted' = accepted \cup {t} /\ runs' = runs /\ task' = task
      BY <2>1 DEF SubmitInsert
    <3>5. \A v \in Workers : Working(v)' <=> Working(v)
      BY <2>1 DEF SubmitInsert, Working
    <3>6. RunsAtMostOnce'
      BY <3>4 DEF RunsAtMostOnce
    <3>7. OneOwner'
      BY <3>2, <3>3, <3>4, <3>5 DEF OneOwner
    <3>. QED BY <3>6, <3>7
  <2>2. CASE ~SubmitInsert(c)
    <3>1. UNCHANGED <<accepted, runs, lanes>>
      BY <1>2, <2>2, SubmitEffect
    <3>2. \A v \in Workers : Working(v)' <=> Working(v)
      BY <1>2, SubmitEffect, WakeKeeps
    <3>3. \A v \in Workers : task'[v] = task[v]
      BY <1>2, <2>0, SubmitEffect
    <3>. QED BY <1>0, <3>1, <3>2, <3>3 DEF OneOwner
  <2>. QED BY <2>1, <2>2
<1>3. ASSUME NEW c \in Clients, ControlStep(c) \/ ClientCall(c)
      PROVE  OneOwner' /\ RunsAtMostOnce'
  <2>1. UNCHANGED <<accepted, runs, lanes>>
    BY <1>3, ControlEffect, CallEffect
  <2>2. \A v \in Workers : Working(v)' <=> Working(v)
    BY <1>3, ControlEffect, CallEffect, WakeKeeps
  <2>3. \A v \in Workers : task'[v] = task[v]
    <3>1. c \notin Workers
      BY ThreadAssumption
    <3>2. CASE ControlStep(c)
      BY <3>2, ControlEffect
    <3>3. CASE ClientCall(c)
      BY <3>1, <3>3, CallEffect
    <3>. QED BY <1>3, <3>2, <3>3
  <2>. QED BY <1>0, <2>1, <2>2, <2>3 DEF OneOwner
<1>4. CASE DestroyShutdown \/ DestroyStep
  <2>1. UNCHANGED <<accepted, runs, task>>
    BY <1>4, DestroyEffect
  <2>2. \A v \in Workers : Working(v)' <=> Working(v)
    BY <1>4, DestroyEffect, WakeKeeps
  <2>3. NoDup(lanes') /\ \A u \in Task : In(lanes', u) <=> In(lanes, u)
    <3>1. CASE DestroyFree
      <4>1. Size(lanes) = 0 /\ lanes' = EmptyLanes
        BY <3>1, FiniteCounts, SizeFacts DEF DestroyFree, Drained, TotalExact, IInv
      <4>2. NoDup(EmptyLanes)
        BY DEF EmptyLanes, NoDup
      <4>3. Size(EmptyLanes) = 0 /\ EmptyLanes \in Lanes
        BY SizeFacts
      <4>4. \A u : ~In(EmptyLanes, u) /\ ~In(lanes, u)
        BY <4>1, <4>3, SizeFacts
      <4>. QED BY <4>1, <4>2, <4>4
    <3>2. CASE ~DestroyFree
      <4>1. lanes' = lanes
        BY <1>4, <3>2, DestroyEffect
      <4>. QED BY <4>1 DEF OneOwner
    <3>. QED BY <3>1, <3>2
  <2>. QED BY <1>0, <2>1, <2>2, <2>3
<1>5. CASE AgingPromote
  <2>1. UNCHANGED <<accepted, runs, task>>
    BY <1>5 DEF AgingPromote
  <2>2. \A v \in Workers : Working(v)' <=> Working(v)
    BY <1>5 DEF AgingPromote, WakeAll, Working
  <2>3. NoDup(lanes') /\ \A u \in Task : In(lanes', u) <=> In(lanes, u)
    BY <1>5, AgingFacts DEF OneOwner, IInv
  <2>. QED BY <1>0, <2>1, <2>2, <2>3
<1>6. CASE SpuriousWakeup
  <2>1. UNCHANGED <<accepted, runs, lanes, task>>
    BY <1>6 DEF SpuriousWakeup
  <2>2. \A v \in Workers : Working(v)' <=> Working(v)
    BY <1>6 DEF SpuriousWakeup, Working
  <2>. QED BY <1>0, <2>1, <2>2 DEF OneOwner
<1>. QED BY <1>1, <1>2, <1>3, <1>4, <1>5, <1>6 DEF Next, ClientStep

(* The inductive invariant holds in every reachable state. *)
THEOREM Inductive == Spec => []IInv
<1>1. IInv /\ [Next]_vars => IInv'
  <2>. SUFFICES ASSUME IInv, [Next]_vars PROVE IInv'
    OBVIOUS
  <2>1. CASE Next
    <3>1. TypeOK' /\ TotalExact'
      BY <2>1, TypeStep, TotalStep
    <3>2. InFlightExact' /\ SubmissionClosed' /\ Shut' /\ Callers' /\ Inserting'
      BY <2>1, InFlightStep, ClosedStep, CallersStep, InsertingStep
    <3>3. Drained' /\ BusyShown'
      BY <2>1, DrainedStep, BusyStep
    <3>4. OneOwner' /\ RunsAtMostOnce'
      BY <2>1, OwnerStep
    <3>. QED BY <3>1, <3>2, <3>3, <3>4 DEF IInv
  <2>2. CASE UNCHANGED vars
    <3>. USE <2>2 DEF vars, flagVars, counterVars, queueVars, historyVars
    <3>1. TypeOK' /\ BusyShown' /\ Shut' /\ Drained'
      BY DEF IInv, TypeOK, BusyShown, Shut, Drained
    <3>2. TotalExact' /\ InFlightExact'
      BY DEF IInv, TotalExact, InFlightExact, Pushing, Holding, InFlight
    <3>3. SubmissionClosed' /\ Callers' /\ Inserting' /\ RunsAtMostOnce'
      BY DEF IInv, SubmissionClosed, PastSpin, Callers, Inserting, RunsAtMostOnce
    <3>4. OneOwner'
      BY DEF IInv, OneOwner, Working
    <3>. QED BY <3>1, <3>2, <3>3, <3>4 DEF IInv
  <2>. QED BY <2>1, <2>2
<1>. QED BY InitIInv, <1>1, PTL DEF Spec

(* Every variable keeps its type; total_task_in_system and                 *)
(* in_flight_submits never become negative.                                *)
THEOREM TypeCorrect == Spec => []TypeOK
<1>1. IInv => TypeOK
  BY DEF IInv
<1>. QED BY Inductive, <1>1, PTL

(* total_task_in_system is the number of tasks being pushed, queued or     *)
(* held by a worker.                                                       *)
THEOREM TotalCorrect == Spec => []TotalExact
<1>1. IInv => TotalExact
  BY DEF IInv
<1>. QED BY Inductive, <1>1, PTL

(* in_flight_submits is the number of submit calls between their first and *)
(* their last atomic operation.                                            *)
THEOREM InFlightCorrect == Spec => []InFlightExact
<1>1. IInv => InFlightExact
  BY DEF IInv
<1>. QED BY Inductive, <1>1, PTL

(* After the spin of thread_pool_destroy no submit call can queue a task. *)
THEOREM SubmissionCloses == Spec => []SubmissionClosed
<1>1. IInv => SubmissionClosed
  BY DEF IInv
<1>. QED BY Inductive, <1>1, PTL

(* A task that waits or runs has one owner. *)
THEOREM SingleOwner == Spec => []OneOwner
<1>1. IInv => OneOwner
  BY DEF IInv
<1>. QED BY Inductive, <1>1, PTL

(* No task's function is called twice, or without its push accepted. *)
THEOREM AtMostOnce == Spec => []RunsAtMostOnce
<1>1. IInv => RunsAtMostOnce
  BY DEF IInv
<1>. QED BY Inductive, <1>1, PTL

(* When the count is zero, every accepted task has run and no worker is    *)
(* busy: what the drain loops of wait and destroy rely on.                 *)
LEMMA ZeroMeansDone ==
    ASSUME IInv, total = 0
    PROVE  (\A t \in accepted : runs[t] = 1) /\ (\A w \in Workers : ~busy[w])
<1>. USE DEF IInv, TypeOK
<1>1. Size(lanes) = 0 /\ Cardinality(Holding) = 0
  BY FiniteCounts, SizeFacts DEF TotalExact
<1>2. \A t : ~In(lanes, t)
  BY <1>1, SizeFacts
<1>3. Holding = {}
  BY <1>1, FiniteCounts, CardStep
<1>4. \A w \in Workers : ~Working(w) /\ wpc[w] # "run"
  BY <1>3 DEF Holding, Working
<1>5. \A t \in accepted : runs[t] # 0
  BY <1>2, <1>4 DEF OneOwner
<1>6. \A t \in accepted : runs[t] \in Nat /\ runs[t] <= 1
  BY DEF RunsAtMostOnce
<1>7. \A t \in accepted : runs[t] = 1
  BY <1>5, <1>6
<1>. QED BY <1>4, <1>7 DEF BusyShown

(* thread_pool_destroy frees the pool only when every accepted task has    *)
(* run: none is dropped.                                                   *)
THEOREM DropsNothing == Spec => []NothingDropped
<1>1. IInv => NothingDropped
  BY ZeroMeansDone DEF NothingDropped, IInv, Drained
<1>. QED BY Inductive, <1>1, PTL

(* thread_pool_wait returns only when every task accepted so far has run   *)
(* and no worker is shown busy.                                            *)
THEOREM WaitIsExact == Spec => WaitReturnsDrained
<1>1. IInv /\ [Next]_vars =>
        [\A c \in Waiters :
            cpc[c] = "t_drain" /\ cpc'[c] = "idle"
                => /\ \A t \in accepted : runs[t] = 1
                   /\ \A w \in Workers : ~busy[w]]_vars
  <2>. SUFFICES ASSUME IInv, Next, NEW c \in Waiters, cpc[c] = "t_drain", cpc'[c] = "idle"
                PROVE  total = 0
    BY ZeroMeansDone
  <2>t. cpc \in [Clients -> ClientPC] /\ total \in Nat
    BY DEF IInv, TypeOK
  <2>. USE <2>t DEF flagVars, counterVars, queueVars, historyVars
  <2>0. c \in Clients
    BY DEF Clients
  <2>1. ASSUME NEW w \in Workers, WorkerStep(w) PROVE FALSE
    BY <2>0, <2>1 DEF WorkerStep, WorkerTop, WorkerPause, WorkerPop, WorkerBegin, WorkerFinish,
       WorkerDec, WorkerSignal, SignalDrain, DrainWaiters
  <2>2. ASSUME NEW d \in Clients, ClientStep(d) PROVE total = 0
    <3>1. CASE WaitDrain(d)
      <4>1. CASE total = 0
        BY <4>1
      <4>2. CASE total # 0
        <5>0. total > 0
          BY <4>2
        <5>1. cpc' = [cpc EXCEPT ![d] = "t_waiting"]
          BY <3>1, <5>0 DEF WaitDrain
        <5>. QED BY <2>0, <5>1
      <4>. QED BY <4>1, <4>2
    <3>2. CASE SubmitStep(d)
      <4>1. cpc[d] # "t_drain" /\ \E to : cpc' = [cpc EXCEPT ![d] = to]
        BY <3>2 DEF SubmitStep, SubmitEnter, SubmitCheckShutdown, SubmitFullApprox,
           SubmitCreate, SubmitTryPush, SubmitInsert, SubmitSignal, SubmitUndo, SubmitLeave
      <4>. QED BY <2>0, <4>1
    <3>3. CASE ControlStep(d) /\ ~WaitDrain(d)
      BY <2>0, <3>3 DEF ControlStep, PauseWakeAll, ResumeWakePause, WaitResume, WaitWakePause
    <3>. QED BY <2>2, <3>1, <3>2, <3>3 DEF ClientStep
  <2>3. ASSUME NEW d \in Clients, ClientCall(d) PROVE FALSE
    BY <2>0, <2>3 DEF ClientCall, MayCall, SubmitCall, WaitCall, PauseCall, ResumeCall, SetMaxTasks
  <2>4. CASE DestroyShutdown \/ DestroyStep \/ AgingPromote
    BY <2>4, DestroyEffect DEF AgingPromote
  <2>5. CASE SpuriousWakeup
    BY <2>0, <2>5 DEF SpuriousWakeup, DrainWaiters
  <2>. QED BY <2>1, <2>2, <2>3, <2>4, <2>5 DEF Next
<1>. QED BY Inductive, <1>1, PTL DEF Spec, WaitReturnsDrained

(* An accepted push links one task. *)
LEMMA PushGrows ==
    ASSUME IInv, NEW c \in Submitters, SubmitInsert(c)
    PROVE  Size(lanes') = Size(lanes) + 1
<1>1. c \in Clients /\ cpc[c] = "s_insert"
  BY DEF SubmitInsert, Clients
<1>2. task[c] \in called /\ called \subseteq Task /\ lanes \in Lanes
  BY <1>1 DEF IInv, Callers, SubmitPC, TypeOK
<1>3. task[c] \in Task /\ TaskPriority[task[c]] \in Priority
  BY <1>2, TaskAssumption
<1>4. lanes' = Insert(lanes, task[c], TaskPriority[task[c]])
  BY DEF SubmitInsert
<1>. QED BY <1>2, <1>3, <1>4, InsertFacts

(* The insertion of pq_try_push is the only step that makes the queue      *)
(* longer.  It keeps the capacity loaded under the same pq->mutex, because *)
(* whoever else inserts waits for that mutex, and it does so even when     *)
(* pq_set_max_tasks has stored another capacity in between.                *)
THEOREM CapacityKept == Spec => CapacityRespected
<1>1. IInv /\ [Next]_vars =>
        [Size(lanes') > Size(lanes) =>
           \E c \in Submitters : /\ cpc[c] = "s_insert" /\ cpc'[c] = "s_signal"
                                 /\ limit[c] = 0 \/ Size(lanes') <= limit[c]]_vars
  <2>. DEFINE Within(c) == /\ cpc[c] = "s_insert" /\ cpc'[c] = "s_signal"
                           /\ limit[c] = 0 \/ Size(lanes') <= limit[c]
  <2>. SUFFICES ASSUME IInv, Next, Size(lanes') > Size(lanes)
                PROVE  \E c \in Submitters : Within(c)
    OBVIOUS
  <2>. USE DEF flagVars, counterVars, queueVars, historyVars
  <2>t. lanes \in Lanes /\ lanes' \in Lanes
        /\ cpc \in [Clients -> ClientPC] /\ limit \in [Clients -> Nat]
    BY TypeStep DEF IInv, TypeOK
  <2>0. Size(lanes) \in Nat /\ Size(lanes') \in Nat /\ lanes' # lanes
    BY <2>t, SizeFacts
  <2>1. ASSUME NEW c \in Submitters, SubmitInsert(c) PROVE Within(c)
    <3>1. Size(lanes') = Size(lanes) + 1
      BY <2>1, PushGrows
    <3>2. c \in Clients /\ cpc[c] = "s_insert" /\ cpc'[c] = "s_signal"
      BY <2>t, <2>1 DEF SubmitInsert, Clients
    <3>3. ~AtCapacity(Size(lanes), limit[c])
      BY <3>2 DEF IInv, Inserting
    <3>. QED BY <2>t, <2>0, <3>1, <3>2, <3>3 DEF AtCapacity
  <2>2. ASSUME NEW c \in Submitters, SubmitStep(c), ~SubmitInsert(c) PROVE FALSE
    BY <2>0, <2>2, SubmitEffect
  <2>3. ASSUME NEW c \in Clients, ControlStep(c) \/ ClientCall(c) PROVE FALSE
    BY <2>0, <2>3, ControlEffect, CallEffect
  <2>4. ASSUME NEW w \in Workers, WorkerStep(w) PROVE FALSE
    <3>1. CASE WorkerPop(w) /\ Ready(lanes) # {}
      BY <2>t, <2>0, <3>1, RemoveFacts DEF WorkerPop
    <3>2. CASE ~(WorkerPop(w) /\ Ready(lanes) # {})
      BY <2>0, <2>4, <3>2 DEF WorkerStep, WorkerTop, WorkerPause, WorkerPop, WorkerBegin,
         WorkerFinish, WorkerDec, WorkerSignal
    <3>. QED BY <3>1, <3>2
  <2>5. CASE DestroyShutdown \/ DestroyStep
    <3>1. Size(EmptyLanes) = 0
      BY <2>t, SizeFacts
    <3>2. lanes' = lanes \/ lanes' = EmptyLanes
      BY <2>5, DestroyEffect DEF DestroyFree
    <3>. QED BY <2>0, <3>1, <3>2
  <2>6. CASE AgingPromote
    <3>1. Size(lanes') = Size(lanes)
      BY <2>6, AgingFacts DEF IInv
    <3>. QED BY <2>0, <3>1
  <2>7. CASE SpuriousWakeup
    BY <2>0, <2>7 DEF SpuriousWakeup
  <2>. QED BY <2>1, <2>2, <2>3, <2>4, <2>5, <2>6, <2>7 DEF Next, ClientStep
<1>. QED BY Inductive, <1>1, PTL DEF Spec, CapacityRespected

-------------------------------------------------------------------------------
(* How the pool sleeps and wakes: during a pause each worker finishes at   *)
(* most one task, and no worker sleeps on not_empty next to a task that    *)
(* nobody is awake or signalled for.                                       *)

(* A worker that has finished a task in the current pause is on its way to *)
(* the pause loop, or in it.                                               *)
PauseInv ==
    /\ TypeOK
    /\ paused => \A w \in Workers :
          \/ finished[w] = 0
          \/ finished[w] = 1 /\ wpc[w] \in {"dec", "signal", "top", "pause", "paused"}

(* While the pool stays paused no worker finishes a second task. *)
THEOREM PauseBounded == Spec => []PauseBound
<1>. USE DEF flagVars, counterVars, queueVars, historyVars
<1>1. Init => PauseInv
  BY InitIInv DEF IInv, PauseInv, Init
<1>2. PauseInv /\ TypeOK' /\ [Next]_vars => PauseInv'
  <2>. SUFFICES ASSUME PauseInv, TypeOK', [Next]_vars PROVE PauseInv'
    OBVIOUS
  <2>. USE DEF PauseInv, TypeOK
  <2>1. ASSUME NEW w \in Workers, WorkerStep(w) PROVE PauseInv'
    <3>1. CASE WorkerTop(w) \/ WorkerPause(w)
      BY <3>1 DEF WorkerTop, WorkerPause
    <3>2. CASE WorkerPop(w)
      BY <3>2 DEF WorkerPop
    <3>3. CASE WorkerBegin(w) \/ WorkerFinish(w)
      BY <3>3 DEF WorkerBegin, WorkerFinish
    <3>4. CASE WorkerDec(w)
      BY <3>4 DEF WorkerDec
    <3>5. CASE WorkerSignal(w)
      BY <3>5 DEF WorkerSignal
    <3>. HIDE DEF PauseInv
    <3>. QED BY <2>1, <3>1, <3>2, <3>3, <3>4, <3>5 DEF WorkerStep
  <2>. DEFINE Quiet == \A w \in Workers :
                         \/ wpc'[w] = wpc[w]
                         \/ wpc[w] = "waiting"
                         \/ wpc[w] = "paused" /\ wpc'[w] = "pause"
  <2>0. ASSUME Quiet, finished' = finished, paused' => paused PROVE PauseInv'
    BY <2>0
  <2>a. WakeAll \/ WakePause \/ SignalNotEmpty \/ wpc' = wpc => Quiet
    BY DEF WakeAll, WakePause, SignalNotEmpty
  <2>. HIDE DEF PauseInv, TypeOK
  <2>p. ASSUME paused' = paused \/ paused' = FALSE PROVE paused' => paused
    BY <2>p
  <2>2. ASSUME NEW c \in Clients, ClientStep(c) PROVE PauseInv'
    <3>0. finished' = finished /\ (paused' = paused \/ paused' = FALSE)
      BY <2>2, SubmitEffect, ControlEffect DEF ClientStep
    <3>1. finished' = finished /\ (paused' => paused)
      BY <2>p, <3>0
    <3>2. WakeAll \/ WakePause \/ SignalNotEmpty \/ wpc' = wpc
      BY <2>2, SubmitEffect, ControlEffect DEF ClientStep
    <3>. QED BY <2>0, <2>a, <3>1, <3>2
  <2>3. ASSUME NEW c \in Clients, ClientCall(c) PROVE PauseInv'
    BY <2>3 DEF ClientCall, SubmitCall, WaitCall, PauseCall, ResumeCall, SetMaxTasks, PauseInv,
       TypeOK
  <2>4. CASE DestroyShutdown \/ DestroyStep
    <3>0. finished' = finished /\ (paused' = paused \/ paused' = FALSE)
      BY <2>4, DestroyEffect
    <3>1. finished' = finished /\ (paused' => paused)
      BY <2>p, <3>0
    <3>2. WakeAll \/ WakePause \/ wpc' = wpc
      BY <2>4, DestroyEffect
    <3>. QED BY <2>0, <2>a, <3>1, <3>2
  <2>5. CASE AgingPromote
    BY <2>0, <2>a, <2>5 DEF AgingPromote
  <2>6. CASE SpuriousWakeup
    <3>1. wpc \in [Workers -> WorkerPC]
      BY DEF PauseInv, TypeOK
    <3>2. Quiet
      BY <2>6, <3>1 DEF SpuriousWakeup
    <3>3. finished' = finished /\ paused' = paused
      BY <2>6 DEF SpuriousWakeup
    <3>. HIDE DEF Quiet
    <3>. QED BY <2>0, <3>2, <3>3
  <2>7. CASE UNCHANGED vars
    BY <2>0, <2>7 DEF vars
  <2>. QED BY <2>1, <2>2, <2>3, <2>4, <2>5, <2>6, <2>7 DEF Next
<1>3. PauseInv => PauseBound
  BY DEF PauseInv, TypeOK, PauseBound
<1>. QED BY <1>1, <1>2, <1>3, TypeCorrect, PTL DEF Spec

(* A task is never left in the queue with every worker asleep: each step   *)
(* that queues a task owes a signal, and each signal wakes a sleeper.      *)
LEMMA WakeupStep == IInv /\ NoLostWakeup /\ Next => NoLostWakeup'
<1>. SUFFICES ASSUME IInv, NoLostWakeup, Next, NEW z \in Workers, wpc'[z] = "waiting"
              PROVE  Size(lanes') <= Cardinality(Awake)' + Cardinality(Signalling)'
  BY DEF NoLostWakeup
<1>. DEFINE Goal == Size(lanes') <= Cardinality(Awake)' + Cardinality(Signalling)'
<1>. USE DEF flagVars, counterVars, queueVars, historyVars
<1>t. wpc \in [Workers -> WorkerPC] /\ cpc \in [Clients -> ClientPC] /\ lanes \in Lanes
  BY DEF IInv, TypeOK
<1>u. wpc' \in [Workers -> WorkerPC] /\ lanes' \in Lanes
  BY TypeStep DEF IInv, TypeOK
<1>. USE <1>t
<1>a. IsFiniteSet(Awake) /\ IsFiniteSet(Signalling) /\ IsFiniteSet(Awake') /\ IsFiniteSet(Signalling')
  <2>1. Awake \subseteq Workers /\ Signalling \subseteq Clients
    BY DEF Awake, Signalling
  <2>2. Awake' \subseteq Workers /\ Signalling' \subseteq Clients
    BY DEF Awake, Signalling
  <2>. QED BY <2>1, <2>2, ThreadAssumption, FS_Subset
<1>b. /\ Cardinality(Awake) \in Nat /\ Cardinality(Signalling) \in Nat
      /\ Cardinality(Awake') \in Nat /\ Cardinality(Signalling') \in Nat
  BY <1>a, FS_CardinalityType
<1>c. Size(lanes) \in Nat /\ Size(lanes') \in Nat
  BY <1>u, SizeFacts
<1>0. ASSUME Awake' = Awake, Signalling' = Signalling, Size(lanes') = Size(lanes),
             wpc[z] = "waiting"
      PROVE  Goal
  BY <1>0 DEF NoLostWakeup
<1>1. ASSUME NEW w \in Workers, WorkerStep(w) PROVE Goal
  <2>1. CASE WorkerPop(w) /\ Ready(lanes) # {}
    <3>1. Awake' = Awake /\ Signalling' = Signalling /\ wpc[z] = "waiting"
      BY <2>1 DEF WorkerPop, Awake, Signalling
    <3>2. Size(lanes') = Size(lanes) - 1
      BY <2>1, RemoveFacts DEF WorkerPop
    <3>. QED BY <1>b, <1>c, <3>1, <3>2 DEF NoLostWakeup
  <2>2. CASE WorkerPop(w) /\ Ready(lanes) = {}
    <3>1. Size(lanes') = 0
      BY <2>2, SizeFacts DEF WorkerPop
    <3>. QED BY <1>b, <3>1
  <2>3. CASE \/ WorkerTop(w) \/ WorkerPause(w) \/ WorkerBegin(w) \/ WorkerFinish(w)
             \/ WorkerDec(w)
    <3>1. Awake' = Awake /\ Signalling' = Signalling /\ lanes' = lanes /\ wpc[z] = "waiting"
      BY <2>3 DEF WorkerTop, WorkerPause, WorkerBegin, WorkerFinish, WorkerDec, Awake, Signalling
    <3>. QED BY <1>0, <3>1
  <2>4. CASE WorkerSignal(w)
    <3>1. Awake' = Awake /\ lanes' = lanes /\ wpc[z] = "waiting"
      BY <2>4 DEF WorkerSignal, Awake
    <3>2. Signalling' = Signalling
      BY <2>4 DEF WorkerSignal, SignalDrain, DrainWaiters, Signalling
    <3>. QED BY <1>0, <3>1, <3>2
  <2>. QED BY <1>1, <2>1, <2>2, <2>3, <2>4 DEF WorkerStep
<1>2. ASSUME NEW c \in Submitters, SubmitStep(c) PROVE Goal
  <2>0. c \in Clients
    BY DEF Clients
  <2>1. CASE SubmitInsert(c)
    <3>1. Awake' = Awake /\ wpc[z] = "waiting"
      BY <2>1 DEF SubmitInsert, Awake
    <3>2. Signalling' = Signalling \cup {c} /\ c \notin Signalling
      BY <2>0, <2>1 DEF SubmitInsert, Signalling
    <3>3. Cardinality(Signalling') = Cardinality(Signalling) + 1
      BY <1>a, <3>2, CardStep
    <3>4. Size(lanes') = Size(lanes) + 1
      BY <2>1, PushGrows
    <3>. QED BY <1>b, <1>c, <3>1, <3>3, <3>4 DEF NoLostWakeup
  <2>2. CASE SubmitSignal(c)
    <3>. PICK w \in Workers : wpc[w] = "waiting" /\ wpc' = [wpc EXCEPT ![w] = "pop"]
      BY <2>2 DEF SubmitSignal, SignalNotEmpty
    <3>1. Awake' = Awake \cup {w} /\ w \notin Awake
      BY DEF Awake
    <3>2. Cardinality(Awake') = Cardinality(Awake) + 1
      BY <1>a, <3>1, CardStep
    <3>3. Signalling' = Signalling \ {c} /\ c \in Signalling
      BY <2>0, <2>2 DEF SubmitSignal, Signalling
    <3>4. Cardinality(Signalling') = Cardinality(Signalling) - 1
      BY <1>a, <3>3, CardStep
    <3>5. lanes' = lanes
      BY <2>2 DEF SubmitSignal
    <3>. QED BY <1>b, <1>c, <3>2, <3>4, <3>5 DEF NoLostWakeup
  <2>3. CASE \/ SubmitEnter(c) \/ SubmitCheckShutdown(c) \/ SubmitFullApprox(c)
             \/ SubmitCreate(c) \/ SubmitTryPush(c)
             \/ SubmitUndo(c) \/ SubmitLeave(c)
    <3>1. \E to \in ClientPC \ {"s_signal"} :
             cpc[c] # "s_signal" /\ cpc' = [cpc EXCEPT ![c] = to]
      <4>1. CASE SubmitEnter(c) \/ SubmitCheckShutdown(c) \/ SubmitFullApprox(c)
        BY <4>1 DEF SubmitEnter, SubmitCheckShutdown, SubmitFullApprox, ClientPC, SubmitPC
      <4>2. CASE SubmitCreate(c) \/ SubmitUndo(c) \/ SubmitLeave(c)
        BY <4>2 DEF SubmitCreate, SubmitUndo, SubmitLeave, ClientPC, SubmitPC
      <4>3. CASE SubmitTryPush(c)
        BY <4>3 DEF SubmitTryPush, ClientPC, SubmitPC
      <4>. QED BY <2>3, <4>1, <4>2, <4>3
    <3>2. Signalling' = Signalling
      BY <2>0, <3>1 DEF Signalling
    <3>3. wpc' = wpc /\ lanes' = lanes
      <4>1. CASE SubmitEnter(c) \/ SubmitCheckShutdown(c) \/ SubmitFullApprox(c)
        BY <4>1 DEF SubmitEnter, SubmitCheckShutdown, SubmitFullApprox
      <4>2. CASE SubmitCreate(c) \/ SubmitUndo(c) \/ SubmitLeave(c)
        BY <4>2 DEF SubmitCreate, SubmitUndo, SubmitLeave
      <4>3. CASE SubmitTryPush(c)
        BY <4>3 DEF SubmitTryPush
      <4>. QED BY <2>3, <4>1, <4>2, <4>3
    <3>4. Awake' = Awake
      BY <3>3 DEF Awake
    <3>5. wpc[z] = "waiting"
      BY <3>3
    <3>. QED BY <1>0, <3>2, <3>3, <3>4, <3>5
  <2>. QED BY <1>2, <2>1, <2>2, <2>3 DEF SubmitStep
<1>3. CASE WakeAll
  BY <1>3 DEF WakeAll
<1>d. WakePause => Awake' = Awake /\ wpc[z] = "waiting"
  BY DEF WakePause, Awake
<1>4. ASSUME NEW c \in Clients, ControlStep(c) PROVE Goal
  <2>1. Signalling' = Signalling /\ lanes' = lanes
    BY <1>4 DEF ControlStep, PauseWakeAll, ResumeWakePause, WaitResume, WaitWakePause,
       WaitDrain, Signalling, Back
  <2>2. WakeAll \/ WakePause \/ wpc' = wpc
    BY <1>4, ControlEffect
  <2>3. wpc' = wpc => Awake' = Awake
    BY DEF Awake
  <2>. QED BY <1>0, <1>3, <1>d, <2>1, <2>2, <2>3
<1>5. ASSUME NEW c \in Clients, ClientCall(c) PROVE Goal
  <2>1. Signalling' = Signalling /\ lanes' = lanes /\ wpc' = wpc
    BY <1>5 DEF ClientCall, MayCall, SubmitCall, WaitCall, PauseCall, ResumeCall, SetMaxTasks,
       Signalling
  <2>2. Awake' = Awake
    BY <2>1 DEF Awake
  <2>. QED BY <1>0, <2>1, <2>2
<1>6. CASE DestroyFree
  <2>1. Size(lanes') = 0
    BY <1>6, SizeFacts DEF DestroyFree
  <2>. QED BY <1>b, <2>1
<1>7. CASE (DestroyShutdown \/ DestroyStep) /\ ~DestroyFree
  <2>1. cpc' = cpc /\ lanes' = lanes
    BY <1>7, DestroyEffect
  <2>2. WakeAll \/ WakePause \/ wpc' = wpc
    BY <1>7, DestroyEffect
  <2>3. Signalling' = Signalling /\ (wpc' = wpc => Awake' = Awake)
    BY <2>1 DEF Signalling, Awake
  <2>. QED BY <1>0, <1>3, <1>d, <2>1, <2>2, <2>3
<1>8. CASE AgingPromote
  BY <1>3, <1>8 DEF AgingPromote
<1>9. CASE SpuriousWakeup
  <2>1. Signalling' = Signalling /\ lanes' = lanes /\ wpc[z] = "waiting"
    BY <1>9 DEF SpuriousWakeup, DrainWaiters, Signalling
  <2>2. Awake' = Awake \/ \E w \in Workers : Awake' = Awake \cup {w} /\ w \notin Awake
    BY <1>9 DEF SpuriousWakeup, Awake
  <2>3. Cardinality(Awake') >= Cardinality(Awake)
    <3>1. ASSUME NEW w \in Workers, Awake' = Awake \cup {w}, w \notin Awake
          PROVE  Cardinality(Awake') = Cardinality(Awake) + 1
      BY <1>a, <3>1, CardStep
    <3>. QED BY <1>b, <2>2, <3>1
  <2>. QED BY <1>b, <1>c, <2>1, <2>3 DEF NoLostWakeup
<1>. QED BY <1>1, <1>2, <1>4, <1>5, <1>6, <1>7, <1>8, <1>9 DEF Next, ClientStep

(* A worker sleeps on not_empty only while the others and the signals      *)
(* under way suffice for the queued tasks.                                 *)
THEOREM NoWakeupLost == Spec => []NoLostWakeup
<1>1. Init => NoLostWakeup
  BY DEF Init, NoLostWakeup
<1>2. IInv /\ NoLostWakeup /\ [Next]_vars => NoLostWakeup'
  <2>1. ASSUME NoLostWakeup, UNCHANGED vars PROVE NoLostWakeup'
    BY <2>1 DEF vars, queueVars, NoLostWakeup, Awake, Signalling
  <2>. QED BY <2>1, WakeupStep
<1>. QED BY Inductive, <1>1, <1>2, PTL DEF Spec
=============================================================================
