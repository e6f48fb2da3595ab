---------------------------- MODULE BaselineProofs ----------------------------
(***************************************************************************)
(* The counters of baseline.c are exact and no wakeup of its queue is lost *)
(* for any number of threads and tasks and any overlap of the calls;       *)
(* when no call overlaps baseline_pool_shutdown, it drops no task.         *)
(***************************************************************************)
EXTENDS BaselinePool, FiniteSetTheorems, SequenceTheorems, TLAPS

(* The provers a leaf is given to, in turn. *)
USE SMTT(10), Zenon, Z3T(20)

(* Counting one element more or less. *)
LEMMA Counting ==
    ASSUME NEW A, IsFiniteSet(A), NEW B, NEW c
    PROVE  /\ Cardinality(A) \in Nat
           /\ Cardinality(A) = 0 => A = {}
           /\ B = A \cup {c} /\ c \notin A => Cardinality(B) = Cardinality(A) + 1
           /\ B = A \ {c} /\ c \in A => Cardinality(B) = Cardinality(A) - 1
<1>1. Cardinality(A) \in Nat /\ (Cardinality(A) = 0 => A = {})
  BY FS_CardinalityType, FS_EmptySet
<1>2. ASSUME B = A \cup {c}, c \notin A PROVE Cardinality(B) = Cardinality(A) + 1
  BY <1>2, FS_AddElement
<1>3. ASSUME B = A \ {c}, c \in A PROVE Cardinality(B) = Cardinality(A) - 1
  BY <1>3, FS_RemoveElement
<1>. QED BY <1>1, <1>2, <1>3

LEMMA Counted ==
    /\ IsFiniteSet(Pushing) /\ IsFiniteSet(Holding) /\ IsFiniteSet(InFlight)
    /\ Cardinality(Pushing) \in Nat /\ Cardinality(Holding) \in Nat
    /\ Cardinality(InFlight) \in Nat
<1>1. Pushing \subseteq Clients /\ Holding \subseteq Workers /\ InFlight \subseteq Clients
  BY DEF Pushing, Holding, InFlight
<1>2. IsFiniteSet(Pushing) /\ IsFiniteSet(Holding) /\ IsFiniteSet(InFlight)
  BY <1>1, BaselineAssumption, FS_Subset
<1>. QED BY <1>2, FS_CardinalityType

(* Taking the first task of the queue. *)
LEMMA PopFacts ==
    ASSUME NEW s \in Seq(Task), NEW q \in Seq(Task), q # <<>>
    PROVE  /\ Head(q) \in Task /\ Tail(q) \in Seq(Task)
           /\ Len(Tail(q)) = Len(q) - 1
           /\ Append(s, Head(q)) \o Tail(q) = s \o q
<1>1. Head(q) \in Task /\ Tail(q) \in Seq(Task) /\ Len(Tail(q)) = Len(q) - 1
  BY HeadTailProperties
<1>2. 1 \in 1 .. Len(q) /\ Len(q) \in 1 .. Len(q) /\ Head(q) = q[1]
  OBVIOUS
<1>3. q = <<q[1]>> \o SubSeq(q, 1 + 1, Len(q))
  BY <1>2, SubSeqRecursiveFirst, SubSeqFull
<1>4. Tail(q) = SubSeq(q, 2, Len(q))
  BY TailIsSubSeq
<1>5. q = <<Head(q)>> \o Tail(q)
  BY <1>2, <1>3, <1>4
<1>6. Append(s, Head(q)) = s \o <<Head(q)>> /\ <<Head(q)>> \in Seq(Task)
  BY <1>1, AppendIsConcat
<1>7. (s \o <<Head(q)>>) \o Tail(q) = s \o (<<Head(q)>> \o Tail(q))
  BY <1>1, <1>6, ConcatAssociative
<1>. QED BY <1>1, <1>5, <1>6, <1>7

(* Adding a task at the end of the queue. *)
LEMMA PushFacts ==
    ASSUME NEW s \in Seq(Task), NEW q \in Seq(Task), NEW t \in Task
    PROVE  /\ Append(q, t) \in Seq(Task) /\ Len(Append(q, t)) = Len(q) + 1
           /\ Append(s \o q, t) = s \o Append(q, t)
<1>1. Append(q, t) \in Seq(Task) /\ Len(Append(q, t)) = Len(q) + 1
  BY AppendProperties
<1>2. s \o q \in Seq(Task) /\ <<t>> \in Seq(Task)
  BY ConcatProperties
<1>a. \A r \in Seq(Task) : Append(r, t) = r \o <<t>>
  BY AppendIsConcat
<1>3. Append(s \o q, t) = (s \o q) \o <<t>> /\ Append(q, t) = q \o <<t>>
  BY <1>2, <1>a
<1>4. (s \o q) \o <<t>> = s \o (q \o <<t>>)
  BY <1>2, ConcatAssociative
<1>. QED BY <1>1, <1>3, <1>4

(* Before baseline_pool_init has created a thread the invariant holds. *)
LEMMA InitIInv == Init => IInv
<1>. SUFFICES ASSUME Init PROVE IInv
  OBVIOUS
<1>1. TypeOK
  <2>1. wpc \in [Workers -> WorkerPC] /\ opc \in OwnerPC
    BY DEF Init, WorkerPC, OwnerPC
  <2>2. cpc \in [Clients -> ClientPC]
    BY DEF Init, ClientPC
  <2>3. task \in [Workers \cup Submitters -> Task \cup {NoTask}]
    BY DEF Init
  <2>4. queue \in Seq(Task) /\ accepted \in Seq(Task) /\ started \in Seq(Task)
    BY DEF Init
  <2>5. /\ shutdown \in BOOLEAN /\ in_flight \in Nat /\ total \in Nat
        /\ called \in SUBSET Task /\ done \in SUBSET Task
    BY DEF Init
  <2>6. overlapping \in SUBSET Clients
    BY BaselineAssumption DEF Init
  <2>. QED BY <2>1, <2>2, <2>3, <2>4, <2>5, <2>6 DEF TypeOK
<1>2. Pushing = {} /\ Holding = {} /\ InFlight = {}
  BY DEF Init, Pushing, Holding, InFlight
<1>3. TotalExact /\ InFlightExact
  BY <1>2, FS_EmptySet DEF Init, TotalExact, InFlightExact
<1>4. FifoOrder /\ TakenRuns
  BY DEF Init, FifoOrder, TakenRuns
<1>5. Owners /\ Quiet
  BY DEF Init, Owners, Quiet, SubmitPC
<1>. QED BY <1>1, <1>3, <1>4, <1>5 DEF IInv

(* The steps of the owner and the spurious wakeups move threads between    *)
(* labels at which nothing is counted, held or being submitted.            *)
OwnerFrame ==
    /\ Pushing' = Pushing /\ Holding' = Holding /\ InFlight' = InFlight
    /\ UNCHANGED <<in_flight, total, queue, task, overlapping, called, accepted, started, done>>
    /\ \A c \in Clients : cpc'[c] = cpc[c] \/ (cpc[c] = "t_waiting" /\ cpc'[c] = "t_drain")
    /\ \A w \in Workers : wpc'[w] = "run" <=> wpc[w] = "run"

LEMMA OwnerSteps ==
    TypeOK /\ (InitStep \/ ShutdownSet \/ ShutdownStep \/ SpuriousWakeup)
        => TypeOK' /\ OwnerFrame
<1>. SUFFICES ASSUME TypeOK, InitStep \/ ShutdownSet \/ ShutdownStep \/ SpuriousWakeup
              PROVE  TypeOK' /\ OwnerFrame
  OBVIOUS
<1>. USE DEF TypeOK, historyVars
<1>0. /\ UNCHANGED <<in_flight, total, queue, task, overlapping, called, accepted, started, done>>
      /\ shutdown' \in BOOLEAN
  BY DEF InitStep, InitAlloc, InitSpawn, InitSpawnFails, InitWake, InitJoin, ShutdownSet,
     ShutdownStep, ShutdownWake, ShutdownSpin, ShutdownDrain, ShutdownJoin, ShutdownFree,
     SpuriousWakeup
<1>1. opc' \in OwnerPC
  BY DEF InitStep, InitAlloc, InitSpawn, InitSpawnFails, InitWake, InitJoin, ShutdownSet,
     ShutdownStep, ShutdownWake, ShutdownSpin, ShutdownDrain, ShutdownJoin, ShutdownFree,
     SpuriousWakeup, OwnerPC
<1>2. \/ wpc' = wpc
      \/ \E w \in Workers : wpc[w] \in {"none", "waiting"} /\ wpc' = [wpc EXCEPT ![w] = "pop"]
      \/ WakeAll
  BY DEF InitStep, InitAlloc, InitSpawn, InitSpawnFails, InitWake, InitJoin, ShutdownSet,
     ShutdownStep, ShutdownWake, ShutdownSpin, ShutdownDrain, ShutdownJoin, ShutdownFree,
     SpuriousWakeup
<1>3. \/ cpc' = cpc
      \/ \E c \in Clients : cpc[c] = "t_waiting" /\ cpc' = [cpc EXCEPT ![c] = "t_drain"]
  BY DEF InitStep, InitAlloc, InitSpawn, InitSpawnFails, InitWake, InitJoin, ShutdownSet,
     ShutdownStep, ShutdownWake, ShutdownSpin, ShutdownDrain, ShutdownJoin, ShutdownFree,
     SpuriousWakeup
<1>. HIDE DEF TypeOK
<1>t. wpc \in [Workers -> WorkerPC] /\ cpc \in [Clients -> ClientPC]
  BY DEF TypeOK
<1>4. /\ wpc' \in [Workers -> WorkerPC]
      /\ \A w \in Workers : wpc'[w] = wpc[w]
                            \/ (wpc[w] \in {"none", "waiting"} /\ wpc'[w] = "pop")
  BY <1>t, <1>2 DEF WorkerPC, WakeAll
<1>5. /\ cpc' \in [Clients -> ClientPC]
      /\ \A c \in Clients : cpc'[c] = cpc[c] \/ (cpc[c] = "t_waiting" /\ cpc'[c] = "t_drain")
  BY <1>t, <1>3 DEF ClientPC, WaitPC
<1>6. TypeOK'
  BY <1>0, <1>1, <1>4, <1>5 DEF TypeOK
<1>7. Holding' = Holding
  BY <1>4 DEF Holding
<1>8. Pushing' = Pushing /\ InFlight' = InFlight
  BY <1>5 DEF Pushing, InFlight
<1>9. \A w \in Workers : wpc'[w] = "run" <=> wpc[w] = "run"
  BY <1>4
<1>. QED BY <1>0, <1>5, <1>6, <1>7, <1>8, <1>9 DEF OwnerFrame

(* Every step keeps the types; the counters stay natural because they are  *)
(* exact.                                                                  *)
LEMMA TypeStep == IInv /\ Next => TypeOK'
<1>. SUFFICES ASSUME IInv, Next PROVE TypeOK'
  OBVIOUS
<1>t. TypeOK /\ Owners /\ TotalExact /\ InFlightExact
  BY DEF IInv
<1>l. Len(queue) \in Nat
  BY <1>t DEF TypeOK
<1>1. ASSUME NEW w \in Workers, WorkerStep(w) PROVE TypeOK'
  <2>. USE DEF TypeOK, historyVars
  <2>1. CASE WorkerPop(w) /\ queue # <<>>
    <3>1. Head(queue) \in Task /\ Tail(queue) \in Seq(Task)
      BY <1>t, <2>1, PopFacts
    <3>2. Append(started, Head(queue)) \in Seq(Task)
      BY <1>t, <3>1, AppendProperties
    <3>. QED BY <1>t, <2>1, <3>1, <3>2 DEF WorkerPop, WorkerPC
  <2>2. CASE WorkerPop(w) /\ queue = <<>>
    BY <1>t, <2>2 DEF WorkerPop, WorkerPC
  <2>3. CASE WorkerRun(w)
    BY <1>t, <2>3 DEF WorkerRun, WorkerPC, Owners
  <2>4. CASE WorkerDec(w)
    <3>1. w \in Holding
      BY <2>4 DEF WorkerDec, Holding
    <3>2. Cardinality(Holding) \in Nat \ {0}
      BY <3>1, Counted, Counting
    <3>3. total' \in Nat
      BY <1>t, <1>l, <2>4, <3>2, Counted DEF WorkerDec, TotalExact
    <3>. QED BY <1>t, <2>4, <3>3 DEF WorkerDec, WorkerPC
  <2>5. CASE WorkerWake(w)
    <3>1. cpc' \in [Clients -> ClientPC] /\ opc' \in OwnerPC
      BY <1>t, <2>5 DEF WorkerWake, BroadcastDrain, ClientPC, WaitPC, OwnerPC
    <3>. QED BY <1>t, <2>5, <3>1 DEF WorkerWake, WorkerPC
  <2>. QED BY <1>1, <2>1, <2>2, <2>3, <2>4, <2>5 DEF WorkerStep
<1>2. ASSUME NEW c \in Submitters, SubmitStep(c) PROVE TypeOK'
  <2>. USE DEF TypeOK, historyVars
  <2>0. c \in Clients
    BY DEF Clients
  <2>1. CASE SubmitCheckShutdown(c) \/ SubmitEnter(c)
    BY <1>t, <2>0, <2>1 DEF SubmitCheckShutdown, SubmitEnter, ClientPC, SubmitPC
  <2>2. CASE SubmitCreate(c)
    BY <1>t, <2>0, <2>2 DEF SubmitCreate, ClientPC, SubmitPC
  <2>3. CASE SubmitPush(c)
    <3>1. task[c] \in Task
      BY <1>t, <2>0, <2>3 DEF SubmitPush, Owners, SubmitPC
    <3>2. Append(queue, task[c]) \in Seq(Task) /\ Append(accepted, task[c]) \in Seq(Task)
      BY <1>t, <3>1, AppendProperties
    <3>. QED BY <1>t, <2>0, <2>3, <3>2 DEF SubmitPush, ClientPC, SubmitPC
  <2>4. CASE SubmitSignal(c)
    <3>1. wpc' \in [Workers -> WorkerPC]
      BY <1>t, <2>4 DEF SubmitSignal, SignalQueue, WorkerPC
    <3>. QED BY <1>t, <2>0, <2>4, <3>1 DEF SubmitSignal, ClientPC, SubmitPC
  <2>5. CASE SubmitLeave(c)
    <3>1. c \in InFlight
      BY <2>0, <2>5 DEF SubmitLeave, InFlight
    <3>2. Cardinality(InFlight) \in Nat \ {0}
      BY <3>1, Counted, Counting
    <3>3. in_flight' \in Nat
      BY <1>t, <2>5, <3>2 DEF SubmitLeave, InFlightExact
    <3>. QED BY <1>t, <2>0, <2>5, <3>3 DEF SubmitLeave, ClientPC
  <2>. QED BY <1>2, <2>1, <2>2, <2>3, <2>4, <2>5 DEF SubmitStep
<1>3. ASSUME NEW c \in Clients, ClientCall(c) \/ WaitDrain(c) PROVE TypeOK'
  <2>1. CASE c \in Submitters /\ SubmitCall(c)
    BY <1>t, <2>1 DEF SubmitCall, ClientPC, SubmitPC, TypeOK, historyVars
  <2>2. CASE WaitCall(c) \/ WaitDrain(c)
    <3>1. \E to \in WaitPC \cup {"idle"} : cpc' = [cpc EXCEPT ![c] = to]
      BY <2>2 DEF WaitCall, WaitDrain, WaitPC
    <3>2. cpc' \in [Clients -> ClientPC]
      BY <1>t, <3>1 DEF ClientPC, TypeOK
    <3>3. UNCHANGED <<wpc, opc, shutdown, in_flight, total, queue, task, historyVars>>
      BY <2>2 DEF WaitCall, WaitDrain
    <3>. QED BY <1>t, <3>2, <3>3 DEF TypeOK, historyVars
  <2>. QED BY <1>3, <2>1, <2>2 DEF ClientCall
<1>4. CASE InitStep \/ ShutdownSet \/ ShutdownStep \/ SpuriousWakeup
  BY <1>t, <1>4, OwnerSteps
<1>. QED BY <1>1, <1>2, <1>3, <1>4 DEF Next, ClientStep

(* total_task_in_system follows each task from its count to its uncount. *)
LEMMA TotalStep == IInv /\ Next => TotalExact'
<1>. SUFFICES ASSUME IInv, Next PROVE TotalExact'
  OBVIOUS
<1>. USE DEF historyVars
<1>t. TypeOK /\ Owners /\ TotalExact
  BY DEF IInv
<1>l. /\ Len(queue) \in Nat /\ total \in Int
      /\ wpc \in [Workers -> WorkerPC] /\ cpc \in [Clients -> ClientPC]
  BY <1>t DEF TypeOK
<1>0. ASSUME Pushing' = Pushing, Holding' = Holding, queue' = queue, total' = total
      PROVE  TotalExact'
  BY <1>t, <1>0 DEF TotalExact
<1>1. ASSUME NEW w \in Workers, WorkerStep(w) PROVE TotalExact'
  <2>1. CASE WorkerPop(w) /\ queue # <<>>
    <3>1. Pushing' = Pushing /\ Holding' = Holding \cup {w} /\ w \notin Holding
      BY <1>l, <2>1 DEF WorkerPop, Pushing, Holding
    <3>2. Cardinality(Holding') = Cardinality(Holding) + 1
      BY <3>1, Counted, Counting
    <3>3. Len(queue') = Len(queue) - 1 /\ total' = total
      BY <1>t, <2>1, PopFacts DEF WorkerPop, TypeOK
    <3>. QED BY <1>t, <1>l, <3>1, <3>2, <3>3, Counted DEF TotalExact
  <2>2. CASE WorkerDec(w)
    <3>1. Pushing' = Pushing /\ Holding' = Holding \ {w} /\ w \in Holding
      BY <1>l, <2>2 DEF WorkerDec, Pushing, Holding
    <3>2. Cardinality(Holding') = Cardinality(Holding) - 1
      BY <3>1, Counted, Counting
    <3>3. queue' = queue /\ total' = total - 1
      BY <2>2 DEF WorkerDec
    <3>. QED BY <1>t, <1>l, <3>1, <3>2, <3>3, Counted DEF TotalExact
  <2>3. CASE WorkerWake(w)
    <3>1. Pushing' = Pushing
      BY <1>l, <2>3 DEF WorkerWake, BroadcastDrain, Pushing
    <3>2. Holding' = Holding
      BY <1>l, <2>3 DEF WorkerWake, Holding
    <3>. QED BY <1>0, <2>3, <3>1, <3>2 DEF WorkerWake
  <2>4. CASE (WorkerPop(w) /\ queue = <<>>) \/ WorkerRun(w)
    <3>1. Pushing' = Pushing /\ Holding' = Holding
      BY <1>l, <2>4 DEF WorkerPop, WorkerRun, Pushing, Holding
    <3>2. queue' = queue /\ total' = total
      BY <2>4 DEF WorkerPop, WorkerRun
    <3>. QED BY <1>0, <3>1, <3>2
  <2>. QED BY <1>1, <2>1, <2>2, <2>3, <2>4 DEF WorkerStep
<1>2. ASSUME NEW c \in Submitters, SubmitStep(c) PROVE TotalExact'
  <2>0. c \in Clients
    BY DEF Clients
  <2>1. CASE SubmitCreate(c) /\ cpc'[c] = "s_push"
    <3>1. Pushing' = Pushing \cup {c} /\ c \notin Pushing /\ Holding' = Holding
      BY <1>l, <2>0, <2>1 DEF SubmitCreate, Pushing, Holding
    <3>2. Cardinality(Pushing') = Cardinality(Pushing) + 1
      BY <3>1, Counted, Counting
    <3>3. queue' = queue /\ total' = total + 1
      BY <1>l, <2>0, <2>1 DEF SubmitCreate
    <3>. QED BY <1>t, <1>l, <3>1, <3>2, <3>3, Counted DEF TotalExact
  <2>2. CASE SubmitPush(c)
    <3>1. Pushing' = Pushing \ {c} /\ c \in Pushing /\ Holding' = Holding
      BY <1>l, <2>0, <2>2 DEF SubmitPush, Pushing, Holding
    <3>2. Cardinality(Pushing') = Cardinality(Pushing) - 1
      BY <3>1, Counted, Counting
    <3>3. task[c] \in Task
      BY <1>t, <2>0, <2>2 DEF SubmitPush, Owners, SubmitPC
    <3>4. Len(queue') = Len(queue) + 1 /\ total' = total
      BY <1>t, <2>2, <3>3, PushFacts DEF SubmitPush, TypeOK
    <3>. QED BY <1>t, <1>l, <3>1, <3>2, <3>4, Counted DEF TotalExact
  <2>3. CASE SubmitSignal(c)
    <3>1. Pushing' = Pushing
      BY <1>l, <2>0, <2>3 DEF SubmitSignal, Pushing
    <3>2. Holding' = Holding
      BY <1>l, <2>3 DEF SubmitSignal, SignalQueue, Holding
    <3>. QED BY <1>0, <2>3, <3>1, <3>2 DEF SubmitSignal
  <2>4. CASE \/ SubmitCheckShutdown(c) \/ SubmitEnter(c) \/ SubmitLeave(c)
             \/ (SubmitCreate(c) /\ cpc'[c] # "s_push")
    <3>1. Pushing' = Pushing /\ Holding' = Holding
      BY <1>l, <2>0, <2>4 DEF SubmitCheckShutdown, SubmitEnter, SubmitLeave, SubmitCreate,
         Pushing, Holding
    <3>2. queue' = queue /\ total' = total
      BY <1>l, <2>0, <2>4 DEF SubmitCheckShutdown, SubmitEnter, SubmitLeave, SubmitCreate
    <3>. QED BY <1>0, <3>1, <3>2
  <2>. QED BY <1>2, <2>1, <2>2, <2>3, <2>4 DEF SubmitStep
<1>3. ASSUME NEW c \in Clients, ClientCall(c) \/ WaitDrain(c) PROVE TotalExact'
  <2>1. Pushing' = Pushing /\ Holding' = Holding
    BY <1>l, <1>3 DEF ClientCall, MayCall, SubmitCall, WaitCall, WaitDrain, Pushing, Holding
  <2>2. queue' = queue /\ total' = total
    BY <1>3 DEF ClientCall, SubmitCall, WaitCall, WaitDrain
  <2>. QED BY <1>0, <2>1, <2>2
<1>4. CASE InitStep \/ ShutdownSet \/ ShutdownStep \/ SpuriousWakeup
  BY <1>t, <1>0, <1>4, OwnerSteps DEF OwnerFrame
<1>. QED BY <1>1, <1>2, <1>3, <1>4 DEF Next, ClientStep

(* in_flight_submits is given back on every path past its increment. *)
LEMMA InFlightStep == IInv /\ Next => InFlightExact'
<1>. SUFFICES ASSUME IInv, Next PROVE InFlightExact'
  OBVIOUS
<1>. USE DEF historyVars
<1>t. TypeOK /\ InFlightExact
  BY DEF IInv
<1>l. cpc \in [Clients -> ClientPC]
  BY <1>t DEF TypeOK
<1>0. ASSUME InFlight' = InFlight, in_flight' = in_flight PROVE InFlightExact'
  BY <1>t, <1>0 DEF InFlightExact
<1>1. ASSUME NEW w \in Workers, WorkerStep(w) PROVE InFlightExact'
  <2>1. InFlight' = InFlight
    BY <1>l, <1>1 DEF WorkerStep, WorkerPop, WorkerRun, WorkerDec, WorkerWake, BroadcastDrain,
       InFlight
  <2>2. in_flight' = in_flight
    BY <1>1 DEF WorkerStep, WorkerPop, WorkerRun, WorkerDec, WorkerWake
  <2>. QED BY <1>0, <2>1, <2>2
<1>2. ASSUME NEW c \in Submitters, SubmitStep(c) PROVE InFlightExact'
  <2>0. c \in Clients
    BY DEF Clients
  <2>1. CASE SubmitEnter(c)
    <3>1. InFlight' = InFlight \cup {c} /\ c \notin InFlight
      BY <1>l, <2>0, <2>1 DEF SubmitEnter, InFlight
    <3>2. Cardinality(InFlight') = Cardinality(InFlight) + 1
      BY <3>1, Counted, Counting
    <3>. QED BY <1>t, <2>1, <3>2 DEF SubmitEnter, InFlightExact
  <2>2. CASE SubmitLeave(c)
    <3>1. InFlight' = InFlight \ {c} /\ c \in InFlight
      BY <1>l, <2>0, <2>2 DEF SubmitLeave, InFlight
    <3>2. Cardinality(InFlight') = Cardinality(InFlight) - 1
      BY <3>1, Counted, Counting
    <3>. QED BY <1>t, <2>2, <3>2 DEF SubmitLeave, InFlightExact
  <2>3. CASE SubmitCheckShutdown(c) \/ SubmitCreate(c) \/ SubmitPush(c) \/ SubmitSignal(c)
    <3>1. InFlight' = InFlight
      BY <1>l, <2>0, <2>3 DEF SubmitCheckShutdown, SubmitCreate, SubmitPush, SubmitSignal, InFlight
    <3>2. in_flight' = in_flight
      BY <2>3 DEF SubmitCheckShutdown, SubmitCreate, SubmitPush, SubmitSignal
    <3>. QED BY <1>0, <3>1, <3>2
  <2>. QED BY <1>2, <2>1, <2>2, <2>3 DEF SubmitStep
<1>3. ASSUME NEW c \in Clients, ClientCall(c) \/ WaitDrain(c) PROVE InFlightExact'
  <2>1. InFlight' = InFlight
    BY <1>l, <1>3 DEF ClientCall, MayCall, SubmitCall, WaitCall, WaitDrain, InFlight
  <2>2. in_flight' = in_flight
    BY <1>3 DEF ClientCall, SubmitCall, WaitCall, WaitDrain
  <2>. QED BY <1>0, <2>1, <2>2
<1>4. CASE InitStep \/ ShutdownSet \/ ShutdownStep \/ SpuriousWakeup
  BY <1>t, <1>0, <1>4, OwnerSteps DEF OwnerFrame
<1>. QED BY <1>1, <1>2, <1>3, <1>4 DEF Next, ClientStep

(* What is taken is what was pushed first, and whoever took it runs it. *)
LEMMA FifoStep == IInv /\ Next => FifoOrder' /\ TakenRuns'
<1>. SUFFICES ASSUME IInv, Next PROVE FifoOrder' /\ TakenRuns'
  OBVIOUS
<1>. USE DEF historyVars
<1>t. TypeOK /\ Owners /\ FifoOrder /\ TakenRuns
  BY DEF IInv
<1>l. /\ queue \in Seq(Task) /\ started \in Seq(Task) /\ wpc \in [Workers -> WorkerPC]
      /\ task \in [Workers \cup Submitters -> Task \cup {NoTask}]
  BY <1>t DEF TypeOK
<1>0. ASSUME UNCHANGED <<queue, accepted>>, UNCHANGED <<started, done>>,
             \A w \in Workers : wpc[w] = "run" => wpc'[w] = "run" /\ task'[w] = task[w]
      PROVE  FifoOrder' /\ TakenRuns'
  BY <1>t, <1>0 DEF FifoOrder, TakenRuns
<1>1. ASSUME NEW w \in Workers, WorkerStep(w) PROVE FifoOrder' /\ TakenRuns'
  <2>1. CASE WorkerPop(w) /\ queue # <<>>
    <3>1. /\ Head(queue) \in Task
          /\ Append(started, Head(queue)) \o Tail(queue) = started \o queue
      BY <1>l, <2>1, PopFacts
    <3>2. FifoOrder'
      BY <1>t, <2>1, <3>1 DEF WorkerPop, FifoOrder
    <3>3. /\ Len(started') = Len(started) + 1 /\ started'[Len(started) + 1] = Head(queue)
          /\ \A i \in 1 .. Len(started) : started'[i] = started[i]
      BY <1>l, <2>1, <3>1, AppendProperties DEF WorkerPop
    <3>4. wpc'[w] = "run" /\ task'[w] = Head(queue) /\ done' = done
      BY <1>l, <2>1 DEF WorkerPop
    <3>5. \A v \in Workers : wpc[v] = "run" => wpc'[v] = "run" /\ task'[v] = task[v]
      BY <1>l, <2>1 DEF WorkerPop
    <3>6. ASSUME NEW i \in 1 .. Len(started')
          PROVE  started'[i] \in done'
                 \/ \E v \in Workers : wpc'[v] = "run" /\ task'[v] = started'[i]
      <4>1. CASE i = Len(started) + 1
        BY <3>3, <3>4, <4>1
      <4>2. CASE i \in 1 .. Len(started)
        <5>1. started[i] \in done \/ \E v \in Workers : wpc[v] = "run" /\ task[v] = started[i]
          BY <1>t, <4>2 DEF TakenRuns
        <5>. QED BY <3>3, <3>4, <3>5, <4>2, <5>1
      <4>. QED BY <1>l, <3>3, <4>1, <4>2
    <3>. QED BY <3>2, <3>6 DEF TakenRuns
  <2>2. CASE WorkerRun(w)
    <3>1. UNCHANGED <<queue, accepted, started>> /\ done' = done \cup {task[w]}
      BY <2>2 DEF WorkerRun
    <3>2. \A v \in Workers \ {w} : wpc'[v] = wpc[v] /\ task'[v] = task[v]
      BY <1>l, <2>2 DEF WorkerRun
    <3>3. FifoOrder'
      BY <1>t, <3>1 DEF FifoOrder
    <3>4. TakenRuns'
      BY <1>t, <3>1, <3>2 DEF TakenRuns
    <3>. QED BY <3>3, <3>4
  <2>3. CASE (WorkerPop(w) /\ queue = <<>>) \/ WorkerDec(w) \/ WorkerWake(w)
    <3>1. UNCHANGED <<queue, accepted, started, done, task>>
      BY <2>3 DEF WorkerPop, WorkerDec, WorkerWake
    <3>2. \A v \in Workers : wpc[v] = "run" => wpc'[v] = "run"
      BY <1>l, <2>3 DEF WorkerPop, WorkerDec, WorkerWake
    <3>. QED BY <1>0, <3>1, <3>2
  <2>. QED BY <1>1, <2>1, <2>2, <2>3 DEF WorkerStep
<1>2. ASSUME NEW c \in Submitters, SubmitStep(c) PROVE FifoOrder' /\ TakenRuns'
  <2>0. c \in Clients /\ c \notin Workers
    BY BaselineAssumption DEF Clients
  <2>1. CASE SubmitPush(c)
    <3>1. task[c] \in Task
      BY <1>t, <2>0, <2>1 DEF SubmitPush, Owners, SubmitPC
    <3>2. Append(started \o queue, task[c]) = started \o Append(queue, task[c])
      BY <1>l, <3>1, PushFacts
    <3>3. FifoOrder'
      BY <1>t, <2>1, <3>2 DEF SubmitPush, FifoOrder
    <3>4. UNCHANGED <<started, done, wpc, task>>
      BY <2>1 DEF SubmitPush
    <3>5. TakenRuns'
      BY <1>t, <3>4 DEF TakenRuns
    <3>. QED BY <3>3, <3>5
  <2>2. CASE ~SubmitPush(c)
    <3>1. UNCHANGED <<queue, accepted, started, done, task>>
      BY <1>2, <2>2 DEF SubmitStep, SubmitCheckShutdown, SubmitEnter, SubmitCreate,
         SubmitSignal, SubmitLeave
    <3>2. \A v \in Workers : wpc[v] = "run" => wpc'[v] = "run"
      BY <1>l, <1>2, <2>2 DEF SubmitStep, SubmitCheckShutdown, SubmitEnter, SubmitCreate,
         SubmitSignal, SubmitLeave, SignalQueue
    <3>. QED BY <1>0, <3>1, <3>2
  <2>. QED BY <2>1, <2>2
<1>3. ASSUME NEW c \in Clients, ClientCall(c) \/ WaitDrain(c) PROVE FifoOrder' /\ TakenRuns'
  <2>1. UNCHANGED <<queue, accepted, started, done, wpc>>
    BY <1>3 DEF ClientCall, SubmitCall, WaitCall, WaitDrain
  <2>2. \A w \in Workers : task'[w] = task[w]
    BY <1>l, <1>3, BaselineAssumption DEF ClientCall, SubmitCall, WaitCall, WaitDrain, Clients
  <2>. QED BY <1>0, <2>1, <2>2
<1>4. CASE InitStep \/ ShutdownSet \/ ShutdownStep \/ SpuriousWakeup
  BY <1>t, <1>0, <1>4, OwnerSteps DEF OwnerFrame
<1>. QED BY <1>1, <1>2, <1>3, <1>4 DEF Next, ClientStep

(* A submit keeps its task; a worker runs what it took from the queue. *)
LEMMA OwnersStep == IInv /\ Next => Owners'
<1>. SUFFICES ASSUME IInv, Next PROVE Owners'
  OBVIOUS
<1>. USE DEF historyVars
<1>t. TypeOK /\ Owners
  BY DEF IInv
<1>l. /\ queue \in Seq(Task) /\ wpc \in [Workers -> WorkerPC] /\ cpc \in [Clients -> ClientPC]
      /\ task \in [Workers \cup Submitters -> Task \cup {NoTask}]
  BY <1>t DEF TypeOK
<1>0. ASSUME \A c \in Clients : cpc'[c] \in SubmitPC =>
                cpc[c] \in SubmitPC /\ (c \in Submitters => task'[c] = task[c]),
             \A w \in Workers : wpc'[w] = "run" => wpc[w] = "run" /\ task'[w] = task[w]
      PROVE  Owners'
  BY <1>t, <1>0 DEF Owners
<1>1. ASSUME NEW w \in Workers, WorkerStep(w) PROVE Owners'
  <2>1. \A c \in Clients : cpc'[c] \in SubmitPC => cpc'[c] = cpc[c]
    BY <1>l, <1>1 DEF WorkerStep, WorkerPop, WorkerRun, WorkerDec, WorkerWake, BroadcastDrain,
       SubmitPC
  <2>2. \A c \in Submitters : task'[c] = task[c]
    BY <1>l, <1>1, BaselineAssumption DEF WorkerStep, WorkerPop, WorkerRun, WorkerDec, WorkerWake,
       Clients
  <2>3. CASE WorkerPop(w) /\ queue # <<>>
    <3>1. Head(queue) \in Task
      BY <1>l, <2>3, HeadTailProperties
    <3>2. \A v \in Workers : wpc'[v] = "run" => task'[v] \in Task
      BY <1>l, <1>t, <2>3, <3>1 DEF WorkerPop, Owners
    <3>. QED BY <1>t, <2>1, <2>2, <3>2 DEF Owners
  <2>4. CASE ~(WorkerPop(w) /\ queue # <<>>)
    <3>1. \A v \in Workers : wpc'[v] = "run" => wpc[v] = "run" /\ task'[v] = task[v]
      BY <1>l, <1>1, <2>4 DEF WorkerStep, WorkerPop, WorkerRun, WorkerDec, WorkerWake
    <3>. QED BY <1>0, <2>1, <2>2, <3>1
  <2>. QED BY <2>3, <2>4
<1>2. ASSUME NEW c \in Submitters, SubmitStep(c) PROVE Owners'
  <2>0. c \in Clients
    BY DEF Clients
  <2>1. task' = task
    BY <1>2 DEF SubmitStep, SubmitCheckShutdown, SubmitEnter, SubmitCreate, SubmitPush,
       SubmitSignal, SubmitLeave
  <2>2. \A d \in Clients : cpc'[d] \in SubmitPC => cpc[d] \in SubmitPC
    BY <1>l, <1>2, <2>0 DEF SubmitStep, SubmitCheckShutdown, SubmitEnter, SubmitCreate, SubmitPush,
       SubmitSignal, SubmitLeave, SubmitPC
  <2>3. \A v \in Workers : wpc'[v] = "run" => wpc[v] = "run"
    BY <1>l, <1>2 DEF SubmitStep, SubmitCheckShutdown, SubmitEnter, SubmitCreate, SubmitPush,
       SubmitSignal, SubmitLeave, SignalQueue
  <2>. QED BY <1>0, <2>1, <2>2, <2>3
<1>3. ASSUME NEW c \in Clients, ClientCall(c) \/ WaitDrain(c) PROVE Owners'
  <2>1. CASE c \in Submitters /\ SubmitCall(c)
    <3>1. \A w \in Workers : wpc'[w] = wpc[w] /\ task'[w] = task[w]
      BY <1>l, <2>1, BaselineAssumption DEF SubmitCall, Clients
    <3>2. task'[c] \in Task
      BY <1>l, <2>1 DEF SubmitCall
    <3>3. \A d \in Clients \ {c} : cpc'[d] = cpc[d] /\ (d \in Submitters => task'[d] = task[d])
      BY <1>l, <2>1 DEF SubmitCall
    <3>. QED BY <1>t, <2>1, <3>1, <3>2, <3>3 DEF Owners
  <2>2. CASE WaitCall(c) \/ WaitDrain(c)
    <3>1. UNCHANGED <<wpc, task>>
      BY <2>2 DEF WaitCall, WaitDrain
    <3>2. \A d \in Clients : cpc'[d] \in SubmitPC => cpc[d] \in SubmitPC
      BY <1>l, <2>2 DEF WaitCall, WaitDrain, SubmitPC
    <3>. QED BY <1>0, <3>1, <3>2
  <2>. QED BY <1>3, <2>1, <2>2 DEF ClientCall
<1>4. CASE InitStep \/ ShutdownSet \/ ShutdownStep \/ SpuriousWakeup
  <2>1. OwnerFrame
    BY <1>t, <1>4, OwnerSteps
  <2>. QED BY <1>t, <2>1 DEF OwnerFrame, Owners, SubmitPC
<1>. QED BY <1>1, <1>2, <1>3, <1>4 DEF Next, ClientStep

(* Which calls may overlap shutdown never changes. *)
LEMMA OverlapKept == Next => overlapping' = overlapping
<1>. SUFFICES ASSUME Next PROVE overlapping' = overlapping
  OBVIOUS
<1>. USE DEF historyVars
<1>1. ASSUME NEW w \in Workers, WorkerStep(w) PROVE overlapping' = overlapping
  BY <1>1 DEF WorkerStep, WorkerPop, WorkerRun, WorkerDec, WorkerWake
<1>2. ASSUME NEW c \in Clients, ClientStep(c) PROVE overlapping' = overlapping
  BY <1>2 DEF ClientStep, SubmitStep, SubmitCheckShutdown, SubmitEnter, SubmitCreate, SubmitPush,
     SubmitSignal, SubmitLeave, WaitDrain
<1>3. ASSUME NEW c \in Clients, ClientCall(c) PROVE overlapping' = overlapping
  BY <1>3 DEF ClientCall, SubmitCall, WaitCall
<1>4. CASE InitStep \/ ShutdownSet \/ ShutdownStep \/ SpuriousWakeup
  BY <1>4 DEF InitStep, InitAlloc, InitSpawn, InitSpawnFails, InitWake, InitJoin, ShutdownSet,
     ShutdownStep, ShutdownWake, ShutdownSpin, ShutdownDrain, ShutdownJoin, ShutdownFree,
     SpuriousWakeup
<1>. QED BY <1>1, <1>2, <1>3, <1>4 DEF Next

(* Without an overlapping call nobody counts a task once shutdown is set,  *)
(* so what the drain loop saw stays true.                                  *)
LEMMA QuietStep == IInv /\ Next => Quiet'
<1>. DEFINE Closing == {"d_wake", "d_spin", "d_drain", "d_waiting", "d_join", "d_free", "freed"}
            Drained == {"d_join", "d_free", "freed"}
<1>. SUFFICES ASSUME IInv, Next, overlapping' = {}
              PROVE  /\ opc' \in Closing => \A c \in Clients : cpc'[c] = "idle"
                     /\ opc' \in Drained => total' = 0
  BY DEF Quiet
<1>. USE DEF historyVars
<1>o. overlapping = {}
  BY OverlapKept
<1>q. /\ opc \in Closing => \A c \in Clients : cpc[c] = "idle"
      /\ opc \in Drained => total = 0
  BY <1>o DEF IInv, Quiet
<1>t. TypeOK /\ TotalExact
  BY DEF IInv
<1>l. cpc \in [Clients -> ClientPC] /\ Len(queue) \in Nat
  BY <1>t DEF TypeOK
<1>1. ASSUME NEW w \in Workers, WorkerStep(w)
      PROVE  /\ opc' \in Closing => \A c \in Clients : cpc'[c] = "idle"
             /\ opc' \in Drained => total' = 0
  <2>1. CASE WorkerDec(w)
    <3>1. w \in Holding
      BY <2>1 DEF WorkerDec, Holding
    <3>2. Cardinality(Holding) \in Nat \ {0}
      BY <3>1, Counted, Counting
    <3>3. total # 0
      BY <1>t, <1>l, <3>2, Counted DEF TotalExact
    <3>. QED BY <1>q, <2>1, <3>3 DEF WorkerDec
  <2>2. CASE WorkerWake(w)
    <3>1. total' = total /\ (opc' \in Drained => opc \in Drained)
      BY <2>2 DEF WorkerWake, BroadcastDrain
    <3>2. opc' \in Closing => opc \in Closing
      BY <2>2 DEF WorkerWake, BroadcastDrain
    <3>3. \A c \in Clients : cpc[c] = "idle" => cpc'[c] = "idle"
      BY <2>2 DEF WorkerWake, BroadcastDrain
    <3>. QED BY <1>q, <3>1, <3>2, <3>3
  <2>3. CASE WorkerPop(w) \/ WorkerRun(w)
    <3>1. UNCHANGED <<opc, cpc, total>>
      BY <2>3 DEF WorkerPop, WorkerRun
    <3>. QED BY <1>q, <3>1
  <2>. QED BY <1>1, <2>1, <2>2, <2>3 DEF WorkerStep
<1>2. ASSUME NEW c \in Clients, ClientStep(c) \/ ClientCall(c)
      PROVE  opc' \notin Closing
  <2>1. opc' = opc
    BY <1>2 DEF ClientStep, SubmitStep, SubmitCheckShutdown, SubmitEnter, SubmitCreate, SubmitPush,
       SubmitSignal, SubmitLeave, WaitDrain, ClientCall, SubmitCall, WaitCall
  <2>2. CASE ClientStep(c)
    <3>1. cpc[c] # "idle"
      BY <2>2 DEF ClientStep, SubmitStep, SubmitCheckShutdown, SubmitEnter, SubmitCreate,
         SubmitPush, SubmitSignal, SubmitLeave, WaitDrain
    <3>. QED BY <1>q, <2>1, <3>1
  <2>3. CASE ClientCall(c)
    <3>1. opc = "ready"
      BY <2>3 DEF ClientCall, SubmitCall, WaitCall, MayCall
    <3>. QED BY <2>1, <3>1
  <2>. QED BY <1>2, <2>2, <2>3
<1>3. CASE InitStep
  <2>1. opc' \notin Closing
    BY <1>3 DEF InitStep, InitAlloc, InitSpawn, InitSpawnFails, InitWake, InitJoin
  <2>. QED BY <2>1
<1>4. CASE ShutdownSet
  BY <1>4 DEF ShutdownSet
<1>5. CASE ShutdownStep
  <2>1. UNCHANGED <<cpc, total>> /\ opc \in Closing
    BY <1>5 DEF ShutdownStep, ShutdownWake, ShutdownSpin, ShutdownDrain, ShutdownJoin, ShutdownFree
  <2>2. opc' \in Drained => opc \in Drained \/ total = 0
    BY <1>5 DEF ShutdownStep, ShutdownWake, ShutdownSpin, ShutdownDrain, ShutdownJoin, ShutdownFree
  <2>. QED BY <1>q, <2>1, <2>2
<1>6. CASE SpuriousWakeup
  <2>1. total' = total /\ (opc' \in Closing => opc \in Closing)
    BY <1>6 DEF SpuriousWakeup
  <2>2. opc' \in Drained => opc \in Drained
    BY <1>6 DEF SpuriousWakeup
  <2>3. \A c \in Clients : cpc[c] = "idle" => cpc'[c] = "idle"
    BY <1>l, <1>6 DEF SpuriousWakeup
  <2>. QED BY <1>q, <2>1, <2>2, <2>3
<1>. QED BY <1>1, <1>2, <1>3, <1>4, <1>5, <1>6 DEF Next

(* IInv holds in every reachable state of the baseline pool. *)
THEOREM Inductive == Spec => []IInv
<1>1. IInv /\ [Next]_vars => IInv'
  <2>. SUFFICES ASSUME IInv, [Next]_vars PROVE IInv'
    OBVIOUS
  <2>1. CASE Next
    <3>1. TypeOK' /\ TotalExact' /\ InFlightExact'
      BY <2>1, TypeStep, TotalStep, InFlightStep
    <3>2. FifoOrder' /\ TakenRuns' /\ Owners' /\ Quiet'
      BY <2>1, FifoStep, OwnersStep, QuietStep
    <3>. QED BY <3>1, <3>2 DEF IInv
  <2>2. CASE UNCHANGED vars
    <3>. USE <2>2 DEF vars, historyVars, IInv
    <3>1. TypeOK' /\ TotalExact' /\ InFlightExact'
      BY DEF TypeOK, TotalExact, InFlightExact, Pushing, Holding, InFlight
    <3>2. FifoOrder' /\ TakenRuns' /\ Owners' /\ Quiet'
      BY DEF FifoOrder, TakenRuns, Owners, Quiet
    <3>. QED BY <3>1, <3>2
  <2>. QED BY <2>1, <2>2
<1>. QED BY InitIInv, <1>1, PTL DEF Spec

(* total_task_in_system is exact, whatever overlaps shutdown. *)
THEOREM TotalCorrect == Spec => []TotalExact
<1>1. IInv => TotalExact
  BY DEF IInv
<1>. QED BY Inductive, <1>1, PTL

(* A push owes a signal and a signal wakes a sleeper; a worker falls       *)
(* asleep only on an empty queue, and a broadcast leaves no sleeper.       *)
LEMMA WakeupStep == IInv /\ NoLostWakeup /\ Next => NoLostWakeup'
<1>. SUFFICES ASSUME IInv, NoLostWakeup, Next, NEW z \in Workers, wpc'[z] = "waiting"
              PROVE  Len(queue') <= Cardinality(Looking') + Cardinality(Signalling')
  BY DEF NoLostWakeup
<1>. DEFINE Goal == Len(queue') <= Cardinality(Looking') + Cardinality(Signalling')
<1>. USE DEF historyVars
<1>t. wpc \in [Workers -> WorkerPC] /\ cpc \in [Clients -> ClientPC] /\ queue \in Seq(Task)
  BY DEF IInv, TypeOK
<1>o. Owners
  BY DEF IInv
<1>. USE <1>t
<1>a. /\ IsFiniteSet(Looking) /\ IsFiniteSet(Signalling)
      /\ IsFiniteSet(Looking') /\ IsFiniteSet(Signalling')
  <2>1. Looking \subseteq Workers /\ Signalling \subseteq Clients
    BY DEF Looking, Signalling
  <2>2. Looking' \subseteq Workers /\ Signalling' \subseteq Clients
    BY DEF Looking, Signalling
  <2>. QED BY <2>1, <2>2, BaselineAssumption, FS_Subset
<1>b. /\ Cardinality(Looking) \in Nat /\ Cardinality(Signalling) \in Nat
      /\ Cardinality(Looking') \in Nat /\ Cardinality(Signalling') \in Nat
  BY <1>a, FS_CardinalityType
<1>c. Len(queue) \in Nat
  OBVIOUS
<1>0. ASSUME Looking' = Looking, Signalling' = Signalling, queue' = queue, wpc[z] = "waiting"
      PROVE  Goal
  BY <1>0 DEF NoLostWakeup
<1>w. ASSUME wpc' = wpc PROVE Looking' = Looking /\ wpc[z] = "waiting"
  BY <1>w DEF Looking
<1>1. ASSUME NEW w \in Workers, WorkerStep(w) PROVE Goal
  <2>1. CASE WorkerPop(w) /\ queue # <<>>
    <3>1. Looking' = Looking \ {w} /\ w \in Looking /\ Signalling' = Signalling
      BY <2>1 DEF WorkerPop, Looking, Signalling
    <3>2. wpc[z] = "waiting"
      BY <2>1 DEF WorkerPop
    <3>3. Cardinality(Looking') = Cardinality(Looking) - 1
      BY <1>a, <3>1, Counting
    <3>4. Len(queue') = Len(queue) - 1
      BY <2>1, PopFacts DEF WorkerPop
    <3>5. Len(queue) <= Cardinality(Looking) + Cardinality(Signalling)
      BY <3>2 DEF NoLostWakeup
    <3>. QED BY <1>b, <1>c, <3>1, <3>3, <3>4, <3>5
  <2>2. CASE WorkerPop(w) /\ queue = <<>>
    <3>1. Len(queue') = 0
      BY <2>2 DEF WorkerPop
    <3>. QED BY <1>b, <3>1
  <2>3. CASE WorkerRun(w)
    <3>1. Looking' = Looking /\ Signalling' = Signalling /\ queue' = queue /\ wpc[z] = "waiting"
      BY <2>3 DEF WorkerRun, Looking, Signalling
    <3>. QED BY <1>0, <3>1
  <2>4. CASE WorkerDec(w) \/ WorkerWake(w)
    <3>1. Signalling' = Signalling /\ queue' = queue
      BY <2>4 DEF WorkerDec, WorkerWake, BroadcastDrain, Signalling
    <3>2. wpc[z] = "waiting" /\ w \notin Looking
      BY <2>4 DEF WorkerDec, WorkerWake, Looking
    <3>3. Looking' = Looking \/ Looking' = Looking \cup {w}
      BY <2>4 DEF WorkerDec, WorkerWake, Looking
    <3>4. Cardinality(Looking') >= Cardinality(Looking)
      BY <1>a, <1>b, <3>2, <3>3, Counting
    <3>5. Len(queue) <= Cardinality(Looking) + Cardinality(Signalling)
      BY <3>2 DEF NoLostWakeup
    <3>. QED BY <1>b, <1>c, <3>1, <3>4, <3>5
  <2>. QED BY <1>1, <2>1, <2>2, <2>3, <2>4 DEF WorkerStep
<1>2. ASSUME NEW c \in Clients, SubmitPush(c) PROVE Goal
  <2>1. Signalling' = Signalling \cup {c} /\ c \notin Signalling
    BY <1>2 DEF SubmitPush, Signalling
  <2>2. Cardinality(Signalling') = Cardinality(Signalling) + 1
    BY <1>a, <2>1, Counting
  <2>3. task[c] \in Task
    BY <1>o, <1>2 DEF Owners, SubmitPush, SubmitPC
  <2>4. Len(queue') = Len(queue) + 1
    BY <1>2, <2>3 DEF SubmitPush
  <2>5. Looking' = Looking /\ wpc[z] = "waiting"
    BY <1>2, <1>w DEF SubmitPush
  <2>6. Len(queue) <= Cardinality(Looking) + Cardinality(Signalling)
    BY <2>5 DEF NoLostWakeup
  <2>. QED BY <1>b, <1>c, <2>2, <2>4, <2>5, <2>6
<1>3. ASSUME NEW c \in Clients, SubmitSignal(c) PROVE Goal
  <2>. PICK w \in Workers : wpc[w] = "waiting" /\ wpc' = [wpc EXCEPT ![w] = "pop"]
    BY <1>3 DEF SubmitSignal, SignalQueue
  <2>1. Looking' = Looking \cup {w} /\ w \notin Looking
    BY DEF Looking
  <2>2. Cardinality(Looking') = Cardinality(Looking) + 1
    BY <1>a, <2>1, Counting
  <2>3. Signalling' = Signalling \ {c} /\ c \in Signalling
    BY <1>3 DEF SubmitSignal, Signalling
  <2>4. Cardinality(Signalling') = Cardinality(Signalling) - 1
    BY <1>a, <2>3, Counting
  <2>5. queue' = queue
    BY <1>3 DEF SubmitSignal
  <2>6. Len(queue) <= Cardinality(Looking) + Cardinality(Signalling)
    BY DEF NoLostWakeup
  <2>. QED BY <1>b, <1>c, <2>2, <2>4, <2>5, <2>6
<1>4. ASSUME NEW c \in Clients,
             \/ SubmitCheckShutdown(c) \/ SubmitEnter(c) \/ SubmitCreate(c) \/ SubmitLeave(c)
             \/ WaitDrain(c) \/ ClientCall(c)
      PROVE  Goal
  <2>1. wpc' = wpc /\ queue' = queue
    BY <1>4 DEF SubmitCheckShutdown, SubmitEnter, SubmitCreate, SubmitLeave, WaitDrain,
       ClientCall, SubmitCall, WaitCall
  <2>2. Signalling' = Signalling
    BY <1>4 DEF SubmitCheckShutdown, SubmitEnter, SubmitCreate, SubmitLeave, WaitDrain,
       ClientCall, MayCall, SubmitCall, WaitCall, Signalling
  <2>. QED BY <1>0, <1>w, <2>1, <2>2
<1>5. CASE InitStep \/ ShutdownSet \/ ShutdownStep \/ SpuriousWakeup
  <2>1. queue' = queue
    BY <1>5, OwnerSteps DEF IInv, OwnerFrame
  <2>2. Signalling' = Signalling
    <3>1. \A c \in Clients : cpc'[c] = cpc[c] \/ (cpc[c] = "t_waiting" /\ cpc'[c] = "t_drain")
      BY <1>5, OwnerSteps DEF IInv, OwnerFrame
    <3>. QED BY <3>1 DEF Signalling
  <2>3. \/ wpc' = wpc
        \/ \E w \in Workers : wpc[w] \in {"none", "waiting"} /\ wpc' = [wpc EXCEPT ![w] = "pop"]
        \/ WakeAll
    BY <1>5 DEF InitStep, InitAlloc, InitSpawn, InitSpawnFails, InitWake, InitJoin, ShutdownSet,
       ShutdownStep, ShutdownWake, ShutdownSpin, ShutdownDrain, ShutdownJoin, ShutdownFree,
       SpuriousWakeup
  <2>4. CASE wpc' = wpc
    BY <1>0, <1>w, <2>1, <2>2, <2>4
  <2>5. ASSUME NEW w \in Workers, wpc[w] \in {"none", "waiting"},
               wpc' = [wpc EXCEPT ![w] = "pop"]
        PROVE  Goal
    <3>1. Looking' = Looking \cup {w} /\ w \notin Looking /\ wpc[z] = "waiting"
      BY <2>5 DEF Looking
    <3>2. Cardinality(Looking') = Cardinality(Looking) + 1
      BY <1>a, <3>1, Counting
    <3>3. Len(queue) <= Cardinality(Looking) + Cardinality(Signalling)
      BY <3>1 DEF NoLostWakeup
    <3>. QED BY <1>b, <1>c, <2>1, <2>2, <3>2, <3>3
  <2>6. CASE WakeAll
    BY <2>6 DEF WakeAll
  <2>. QED BY <2>3, <2>4, <2>5, <2>6
<1>. QED BY <1>1, <1>2, <1>3, <1>4, <1>5 DEF Next, ClientStep, SubmitStep

(* However late the signals of q_push come, no task is left to a worker    *)
(* that sleeps on q_cond, whatever overlaps shutdown.                      *)
THEOREM NoWakeupLost == Spec => []NoLostWakeup
<1>1. Init => NoLostWakeup
  BY DEF Init, NoLostWakeup
<1>2. IInv /\ NoLostWakeup /\ [Next]_vars => NoLostWakeup'
  <2>1. IInv /\ NoLostWakeup /\ UNCHANGED vars => NoLostWakeup'
    BY DEF vars, NoLostWakeup, Looking, Signalling
  <2>. QED BY <2>1, WakeupStep
<1>. QED BY <1>1, <1>2, Inductive, PTL DEF Spec

(* When no call overlaps baseline_pool_shutdown, every accepted task has   *)
(* run when it leaves its drain loop.                                      *)
THEOREM DrainCorrect == Spec => []DrainExact
<1>1. IInv => DrainExact
  <2>. SUFFICES ASSUME IInv, overlapping = {}, opc \in {"d_join", "d_free", "freed"} PROVE AllRun
    BY DEF DrainExact
  <2>t. TypeOK /\ TotalExact /\ FifoOrder /\ TakenRuns
    BY DEF IInv
  <2>1. total = 0
    BY DEF IInv, Quiet
  <2>l. queue \in Seq(Task) /\ Len(queue) \in Nat /\ started \in Seq(Task)
    BY <2>t DEF TypeOK
  <2>2. Len(queue) = 0 /\ Cardinality(Holding) = 0
    BY <2>t, <2>l, <2>1, Counted DEF TotalExact
  <2>3. Holding = {}
    BY <2>2, Counted, Counting
  <2>4. queue = <<>>
    BY <2>l, <2>2
  <2>5. accepted = started
    BY <2>t, <2>l, <2>4, ConcatEmptySeq DEF FifoOrder
  <2>6. \A w \in Workers : wpc[w] # "run"
    BY <2>3 DEF Holding
  <2>. QED BY <2>t, <2>5, <2>6 DEF TakenRuns, AllRun
<1>. QED BY Inductive, <1>1, PTL
===============================================================================
