--------------------------- MODULE LifecycleProofs ---------------------------
(***************************************************************************)
(* JoinsValid, OnePassPerPause and NothingLeft of PoolLifecycle, for any   *)
(* callers, workers and thread ids.                                        *)
(***************************************************************************)
EXTENDS PoolLifecycle, FiniteSetTheorems, TLAPS

(* The provers a leaf is given to, in turn. *)
USE SMTT(10), Zenon, Z3T(20)

(* The first n resources thread_pool_init acquires, and how many of them   *)
(* an error label finds.                                                   *)
FirstOf(n) == {Resources[i] : i \in 1 .. n}
Depth ==
    [err_workers |-> 10, err_pause_cond |-> 9, err_pause_mutex |-> 8, err_aging_cond |-> 7,
     err_aging_mutex |-> 6, err_drain_cond |-> 5, err_drain_mutex |-> 4, err_pq |-> 3,
     pq_undo |-> 2, err_free_pool |-> 1, failed |-> 0]

(* Resources names ten different things. *)
LEMMA ResourceFacts ==
    /\ Len(Resources) = 10
    /\ \A i, j \in 1 .. 10 : Resources[i] = Resources[j] => i = j
    /\ AllResources = FirstOf(10)
    /\ AllResources = {"pq_cond", "pq_mutex", "workers", "drain_cond", "pause_cond", "aging_cond",
                       "drain_mutex", "pause_mutex", "aging_mutex", "pool"}
<1>1. Len(Resources) = 10
    BY DEF Resources
<1>2. \A i, j \in 1 .. 10 : Resources[i] = Resources[j] => i = j
    BY DEF Resources
<1>3. AllResources = FirstOf(10)
    BY <1>1 DEF AllResources, FirstOf
<1>4. 1 .. 10 = {1, 2, 3, 4, 5, 6, 7, 8, 9, 10}
    OBVIOUS
<1>5. FirstOf(10) = {Resources[1], Resources[2], Resources[3], Resources[4], Resources[5],
                     Resources[6], Resources[7], Resources[8], Resources[9], Resources[10]}
    BY <1>4 DEF FirstOf
<1>6. FirstOf(10) = {"pq_cond", "pq_mutex", "workers", "drain_cond", "pause_cond", "aging_cond",
                     "drain_mutex", "pause_mutex", "aging_mutex", "pool"}
    BY <1>5 DEF Resources
<1> QED
    BY <1>1, <1>2, <1>3, <1>6

(* The n-th step of thread_pool_init jumps to the label that undoes the    *)
(* n - 1 steps before it, and each label leaves to the next one what that  *)
(* one undoes.                                                             *)
LEMMA LabelFacts ==
    /\ \A n \in 1 .. 10 : /\ ErrorLabel[Resources[n]] \in ErrorLabels \cup {"failed"}
                          /\ Depth[ErrorLabel[Resources[n]]] = n - 1
                          /\ ErrorLabel[Resources[n]] = "failed" <=> n = 1
    /\ \A l \in ErrorLabels :
           /\ Depth[l] \in 1 .. 10
           /\ FallsTo[l] \in ErrorLabels \cup {"failed"}
           /\ FallsTo[l] = "failed" <=> l = "err_free_pool"
           /\ Depth[FallsTo[l]] < Depth[l]
           /\ \A i \in 1 .. 10 : Resources[i] \in Destroys[l] <=> i <= Depth[l] /\ i > Depth[FallsTo[l]]
           /\ Destroys[l] \subseteq AllResources
<1>1. \A n \in 1 .. 10 : /\ ErrorLabel[Resources[n]] \in ErrorLabels \cup {"failed"}
                         /\ Depth[ErrorLabel[Resources[n]]] = n - 1
                         /\ ErrorLabel[Resources[n]] = "failed" <=> n = 1
    BY DEF ErrorLabel, ErrorLabels, Resources, Depth
<1>2. ASSUME NEW l \in ErrorLabels
      PROVE  /\ Depth[l] \in 1 .. 10
             /\ FallsTo[l] \in ErrorLabels \cup {"failed"}
             /\ FallsTo[l] = "failed" <=> l = "err_free_pool"
             /\ Depth[FallsTo[l]] < Depth[l]
    BY <1>2 DEF ErrorLabels, Depth, FallsTo
<1>3. ASSUME NEW l \in ErrorLabels, NEW i \in 1 .. 10
      PROVE  Resources[i] \in Destroys[l] <=> i <= Depth[l] /\ i > Depth[FallsTo[l]]
    BY <1>3 DEF ErrorLabels, Depth, FallsTo, Destroys, Resources
<1>4. ASSUME NEW l \in ErrorLabels
      PROVE  Destroys[l] \subseteq AllResources
    BY <1>4, ResourceFacts DEF ErrorLabels, Destroys
<1> QED
    BY <1>1, <1>2, <1>3, <1>4

(* The variables JoinsValid depends on. *)
Types ==
    /\ pc \in [Callers -> CallerPC]
    /\ apc \in [AgingThreads -> AgingPC]
    /\ aging_enable \in BOOLEAN

(* What aging_enable says of the aging thread depends on who is between    *)
(* its store and the last use of aging_tid: nobody, an enable_aging that   *)
(* has still to create the thread, a disable_aging that has seen it        *)
(* enabled, or one that has cleared the flag and has still to join.        *)
Alone == \A c, d \in Callers : c # d => ~(pc[c] \in Critical /\ pc[d] \in Critical)
Settled == (\A c \in Callers : pc[c] \notin Critical) => (aging_enable <=> aging_tid \in Aging)
Creating == \A c \in Callers : pc[c] \in {"e_create", "e_undo"} => aging_enable /\ Aging = {}
Clearing == \A c \in Callers : pc[c] = "x_clear" => aging_enable /\ aging_tid \in Aging
Joining ==
    \A c \in Callers : pc[c] \in {"x_signal", "x_wake", "x_join"} =>
        ~aging_enable /\ aging_tid \in Aging

IInv ==
    ~overlap => /\ Types
                /\ ~undefined
                /\ Aging \subseteq {aging_tid}
                /\ Alone /\ Settled /\ Creating /\ Clearing /\ Joining

-------------------------------------------------------------------------------
LEMMA InitIInv == Init => IInv
<1> SUFFICES ASSUME Init PROVE IInv
    OBVIOUS
<1>1. Types
    BY DEF Init, Types, CallerPC, AgingPC
<1>2. Aging = {} /\ ~aging_enable /\ ~undefined /\ aging_tid = NoThread
    BY DEF Init, Aging
<1>3. \A c \in Callers : pc[c] \in {"i_acquire", "idle"}
    BY DEF Init
<1> QED
    BY <1>1, <1>2, <1>3 DEF IInv, Alone, Settled, Creating, Clearing, Joining, Critical

(* The facts about aging_tid are kept by a step that leaves the aging      *)
(* threads and the flag as they are and moves no caller into or out of the *)
(* critical part.                                                          *)
Outside(c) == pc[c] \notin Critical /\ pc'[c] \notin Critical
Within(c) == {pc[c], pc'[c]} \subseteq {"x_signal", "x_wake", "x_join"}

LEMMA Frame ==
    ASSUME IInv, ~overlap, Types', Alone', Aging' = Aging,
           UNCHANGED <<aging_enable, aging_tid, undefined>>,
           \A c \in Callers : pc'[c] = pc[c] \/ Outside(c) \/ Within(c)
    PROVE  IInv'
<1>1. ~undefined /\ Aging \subseteq {aging_tid} /\ Settled /\ Creating /\ Clearing /\ Joining
    BY DEF IInv
<1>2. (~undefined /\ Aging \subseteq {aging_tid})'
    BY <1>1
<1>3. Settled'
  <2>1. ASSUME \A c \in Callers : pc'[c] \notin Critical
        PROVE  \A c \in Callers : pc[c] \notin Critical
      BY <2>1 DEF Outside, Within, Critical
  <2> QED
      BY <1>1, <2>1 DEF Settled
<1>4. Creating'
    BY <1>1 DEF Creating, Outside, Within, Critical
<1>5. Clearing'
    BY <1>1 DEF Clearing, Outside, Within, Critical
<1>6. Joining'
    BY <1>1 DEF Joining, Outside, Within, Critical
<1> QED
    BY <1>2, <1>3, <1>4, <1>5, <1>6 DEF IInv

(* A step that moves one caller, and not the flag nor the threads. *)
LEMMA FrameGo ==
    ASSUME IInv, ~overlap, Alone', NEW c \in Callers, NEW from, NEW to \in CallerPC,
           Go(c, from, to), Aging' = Aging, apc' \in [AgingThreads -> AgingPC],
           UNCHANGED <<aging_enable, aging_tid, undefined>>,
           \/ from \notin Critical /\ to \notin Critical
           \/ {from, to} \subseteq {"x_signal", "x_wake", "x_join"}
    PROVE  IInv'
<1>1. pc \in [Callers -> CallerPC] /\ aging_enable \in BOOLEAN
    BY DEF IInv, Types
<1>2. pc[c] = from /\ pc' = [pc EXCEPT ![c] = to]
    BY DEF Go
<1>3. Types'
    BY <1>1, <1>2 DEF Types
<1>4. \A d \in Callers : pc'[d] = pc[d] \/ Outside(d) \/ Within(d)
    BY <1>1, <1>2 DEF Outside, Within
<1> QED
    BY <1>3, <1>4, Frame

(* A step of an aging thread that exists and goes on existing. *)
LEMMA FrameAging ==
    ASSUME IInv, ~overlap, Alone', NEW a \in AgingThreads,
           NEW from \in AgingPC \ {"none"}, NEW to \in AgingPC \ {"none"}, AgingGo(a, from, to)
    PROVE  IInv'
<1>1. pc' = pc /\ UNCHANGED <<aging_enable, aging_tid, undefined>>
    BY DEF AgingGo
<1>2. apc \in [AgingThreads -> AgingPC] /\ apc[a] = from /\ apc' = [apc EXCEPT ![a] = to]
    BY DEF IInv, Types, AgingGo
<1>3. Aging' = Aging
    BY <1>2 DEF Aging
<1>4. Types'
    BY <1>1, <1>2 DEF IInv, Types
<1> QED
    BY <1>1, <1>3, <1>4, Frame

-------------------------------------------------------------------------------
(* The steps outside the calls of enable_aging and disable_aging. *)
Elsewhere ==
    \/ InitStep \/ DestroyCall \/ DestroyUnpause \/ DestroyWakeAll \/ DestroyJoin \/ DestroyFree
    \/ \E c \in Callers : PauseCall(c) \/ PauseWakeAll(c) \/ ResumeCall(c) \/ AgingCall(c)

LEMMA ElsewhereFrame ==
    ASSUME Elsewhere
    PROVE  /\ UNCHANGED <<apc, aging_enable, aging_tid, undefined>>
           /\ \E c \in Callers : \E from, to \in CallerPC \ Critical : Go(c, from, to)
<1> USE LifecycleAssumption DEF CallerPC, Critical
<1>1. CASE InitStep
  <2>1. CASE InitAcquire
    <3>1. PICK to : Go(Owner, "i_acquire", to) /\ to \in {"i_spawn", "i_acquire", "failed"} \cup ErrorLabels
      <4>1. PICK i \in 1 .. 10 :
                \/ Go(Owner, "i_acquire", IF i = 10 THEN "i_spawn" ELSE "i_acquire")
                \/ Go(Owner, "i_acquire", ErrorLabel[Resources[i]])
          BY <2>1, ResourceFacts DEF InitAcquire
      <4>2. ErrorLabel[Resources[i]] \in ErrorLabels \cup {"failed"}
          BY LabelFacts
      <4> QED
          BY <4>1, <4>2
    <3> QED
        BY <2>1, <3>1 DEF InitAcquire, ErrorLabels
  <2>2. CASE InitSpawn
      BY <2>2 DEF InitSpawn
  <2>3. CASE InitWakeAll
      BY <2>3 DEF InitWakeAll
  <2>4. CASE InitJoin
      BY <2>4 DEF InitJoin, ErrorLabels
  <2>5. CASE InitRelease
    <3>1. FallsTo[pc[Owner]] \in ErrorLabels \cup {"failed"}
        BY <2>5, LabelFacts DEF InitRelease
    <3> QED
        BY <2>5, <3>1 DEF InitRelease, ErrorLabels
  <2> QED
      BY <1>1, <2>1, <2>2, <2>3, <2>4, <2>5 DEF InitStep
<1>2. CASE DestroyCall
    BY <1>2 DEF DestroyCall
<1>3. CASE DestroyUnpause
    BY <1>3 DEF DestroyUnpause
<1>4. CASE DestroyWakeAll
    BY <1>4 DEF DestroyWakeAll
<1>5. CASE DestroyJoin
    BY <1>5 DEF DestroyJoin
<1>6. CASE DestroyFree
    BY <1>6 DEF DestroyFree
<1>7. ASSUME NEW c \in Callers, PauseCall(c) \/ PauseWakeAll(c) \/ ResumeCall(c) \/ AgingCall(c)
      PROVE  /\ UNCHANGED <<apc, aging_enable, aging_tid, undefined>>
             /\ \E from, to \in CallerPC \ Critical : Go(c, from, to)
    BY <1>7 DEF PauseCall, PauseWakeAll, ResumeCall, AgingCall
<1> QED
    BY <1>1, <1>2, <1>3, <1>4, <1>5, <1>6, <1>7 DEF Elsewhere

LEMMA ElsewhereIInv == IInv /\ ~overlap /\ Elsewhere /\ Alone' => IInv'
<1> SUFFICES ASSUME IInv, ~overlap, Elsewhere, Alone' PROVE IInv'
    OBVIOUS
<1>1. UNCHANGED <<apc, aging_enable, aging_tid, undefined>>
    BY ElsewhereFrame
<1>2. PICK c \in Callers : \E from, to \in CallerPC \ Critical : Go(c, from, to)
    BY ElsewhereFrame
<1>3. PICK from \in CallerPC \ Critical, to \in CallerPC \ Critical : Go(c, from, to)
    BY <1>2
<1>4. Aging' = Aging /\ apc' \in [AgingThreads -> AgingPC]
    BY <1>1 DEF Aging, IInv, Types
<1> QED
    BY <1>1, <1>3, <1>4, FrameGo

LEMMA AgingIInv ==
    ASSUME IInv, ~overlap, Alone', NEW a \in AgingThreads, AgingStep(a) \/ AgingSpurious(a)
    PROVE  IInv'
<1>1. \E from, to \in AgingPC \ {"none"} : AgingGo(a, from, to)
  <2> USE DEF AgingPC
  <2>1. CASE AgingLock(a)
      BY <2>1 DEF AgingLock
  <2>2. CASE AgingTop(a)
      BY <2>2 DEF AgingTop
  <2>3. CASE AgingPauseTest(a)
      BY <2>3 DEF AgingPauseTest
  <2>4. CASE AgingRelock(a)
      BY <2>4 DEF AgingRelock
  <2>5. CASE AgingTest(a)
      BY <2>5 DEF AgingTest
  <2>6. CASE AgingTimeout(a)
      BY <2>6 DEF AgingTimeout
  <2>7. CASE AgingWake(a)
      BY <2>7 DEF AgingWake
  <2>8. CASE AgingPass(a)
      BY <2>8 DEF AgingPass
  <2>9. CASE AgingSpurious(a)
      BY <2>9 DEF AgingSpurious
  <2> QED
      BY <2>1, <2>2, <2>3, <2>4, <2>5, <2>6, <2>7, <2>8, <2>9 DEF AgingStep
<1>2. PICK from \in AgingPC \ {"none"}, to \in AgingPC \ {"none"} : AgingGo(a, from, to)
    BY <1>1
<1> QED
    BY <1>2, FrameAging

(* thread_pool_wake_pause wakes threads; it ends none. *)
LEMMA WakePauseIInv ==
    ASSUME IInv, ~overlap, Alone', NEW c \in Callers, NEW from, NEW to \in CallerPC,
           WakePause(c, from, to),
           \/ from \notin Critical /\ to \notin Critical
           \/ {from, to} \subseteq {"x_signal", "x_wake", "x_join"}
    PROVE  IInv'
<1>1. Go(c, from, to) /\ apc' = WakePaused /\ UNCHANGED <<aging_enable, aging_tid, undefined>>
    BY DEF WakePause
<1>2. apc \in [AgingThreads -> AgingPC]
    BY DEF IInv, Types
<1>3. apc' \in [AgingThreads -> AgingPC]
    BY <1>1, <1>2 DEF WakePaused, AgingPC
<1>4. Aging' = Aging
    BY <1>1, <1>2 DEF WakePaused, Aging
<1> QED
    BY <1>1, <1>3, <1>4, FrameGo

-------------------------------------------------------------------------------
(* The calls.  When a caller is in the critical part and no two are, the   *)
(* others are outside.                                                     *)

LEMMA EnableIInv ==
    ASSUME IInv, ~overlap, Alone', NEW c \in Callers,
           EnableLock(c) \/ EnableCreate(c) \/ StoreDisabled(c, "e_undo", "idle")
    PROVE  IInv'
<1>t. pc \in [Callers -> CallerPC] /\ apc \in [AgingThreads -> AgingPC] /\ aging_enable \in BOOLEAN
    BY DEF IInv, Types
<1>i. ~undefined /\ Aging \subseteq {aging_tid} /\ Settled /\ Creating /\ Clearing /\ Joining
    BY DEF IInv
<1>a. ASSUME pc'[c] \in Critical, NEW d \in Callers, d # c
      PROVE  pc'[d] \notin Critical
    BY <1>a DEF Alone
<1>1. CASE EnableLock(c)
  <2>1. CASE aging_enable
    <3>1. Go(c, "e_lock", "idle") /\ UNCHANGED <<apc, aging_enable, aging_tid, undefined>>
        BY <1>1, <2>1 DEF EnableLock
    <3>2. Aging' = Aging
        BY <3>1 DEF Aging
    <3> QED
        BY <1>t, <3>1, <3>2, FrameGo DEF CallerPC, Critical
  <2>2. CASE ~aging_enable
    <3>1. pc[c] = "e_lock" /\ pc' = [pc EXCEPT ![c] = "e_create"] /\ aging_enable' = TRUE
        BY <1>1, <2>2 DEF EnableLock, Go
    <3>2. UNCHANGED <<apc, aging_tid, undefined>>
        BY <1>1 DEF EnableLock
    <3>3. \A d \in Callers : d # c => pc'[d] = pc[d] /\ pc[d] \notin Critical
        BY <1>a, <1>t, <3>1 DEF Critical
    <3>4. \A d \in Callers : pc[d] \notin Critical
        BY <3>1, <3>3 DEF Critical
    <3>5. Aging = {} /\ Aging' = {}
        BY <1>i, <2>2, <3>2, <3>4 DEF Settled, Aging
    <3>6. Types'
        BY <1>t, <3>1, <3>2 DEF Types, CallerPC
    <3>7. pc'[c] = "e_create"
        BY <1>t, <3>1
    <3>8. Settled' /\ Creating' /\ Clearing' /\ Joining'
        BY <3>1, <3>3, <3>5, <3>7 DEF Settled, Creating, Clearing, Joining, Critical
    <3> QED
        BY <1>i, <3>2, <3>5, <3>6, <3>8 DEF IInv
  <2> QED
      BY <1>t, <2>1, <2>2
<1>2. CASE EnableCreate(c)
  <2>1. pc[c] = "e_create" /\ UNCHANGED <<aging_enable, undefined>>
      BY <1>2 DEF EnableCreate, Go
  <2>2. aging_enable /\ Aging = {}
      BY <1>i, <2>1 DEF Creating
  <2>3. CASE Go(c, "e_create", "e_undo") /\ UNCHANGED <<apc, aging_tid>>
    <3>1. pc' = [pc EXCEPT ![c] = "e_undo"] /\ pc'[c] = "e_undo"
        BY <1>t, <2>3 DEF Go
    <3>2. Aging' = {}
        BY <2>2, <2>3 DEF Aging
    <3>3. \A d \in Callers : d # c => pc'[d] \notin Critical
        BY <1>a, <3>1 DEF Critical
    <3>4. Types'
        BY <1>t, <2>1, <2>3, <3>1 DEF Types, CallerPC
    <3>5. Settled' /\ Creating' /\ Clearing' /\ Joining'
        BY <2>1, <2>2, <3>1, <3>2, <3>3 DEF Settled, Creating, Clearing, Joining, Critical
    <3> QED
        BY <1>i, <2>1, <3>2, <3>4, <3>5 DEF IInv
  <2>4. ASSUME NEW a \in AgingThreads, Go(c, "e_create", "idle"),
               apc' = [apc EXCEPT ![a] = "lock"], aging_tid' = a
        PROVE  IInv'
    <3>1. pc' = [pc EXCEPT ![c] = "idle"]
        BY <2>4 DEF Go
    <3>2. Aging' = {a}
        BY <1>t, <2>2, <2>4 DEF Aging
    <3>3. \A d \in Callers : pc'[d] \notin Critical
      <4>1. \A d \in Callers : d # c => pc[d] \notin Critical
          BY <2>1 DEF IInv, Alone, Critical
      <4> QED
          BY <1>t, <3>1, <4>1 DEF Critical
    <3>4. Types'
        BY <1>t, <2>1, <2>4, <3>1 DEF Types, CallerPC, AgingPC
    <3>5. Settled' /\ Creating' /\ Clearing' /\ Joining'
        BY <2>1, <2>2, <2>4, <3>2, <3>3 DEF Settled, Creating, Clearing, Joining, Critical
    <3> QED
        BY <1>i, <2>1, <2>4, <3>2, <3>4, <3>5 DEF IInv
  <2> QED
      BY <1>2, <2>3, <2>4 DEF EnableCreate
<1>3. CASE StoreDisabled(c, "e_undo", "idle")
  <2>1. pc[c] = "e_undo" /\ pc' = [pc EXCEPT ![c] = "idle"] /\ aging_enable' = FALSE
      BY <1>3 DEF StoreDisabled, Go
  <2>2. UNCHANGED <<apc, aging_tid, undefined>>
      BY <1>3 DEF StoreDisabled
  <2>3. Aging = {} /\ Aging' = {}
      BY <1>i, <2>1, <2>2 DEF Creating, Aging
  <2>4. \A d \in Callers : pc'[d] \notin Critical
    <3>1. \A d \in Callers : d # c => pc[d] \notin Critical
        BY <2>1 DEF IInv, Alone, Critical
    <3> QED
        BY <1>t, <2>1, <3>1 DEF Critical
  <2>5. Types'
      BY <1>t, <2>1, <2>2 DEF Types, CallerPC
  <2>6. Settled' /\ Creating' /\ Clearing' /\ Joining'
      BY <2>1, <2>3, <2>4 DEF Settled, Creating, Clearing, Joining, Critical
  <2> QED
      BY <1>i, <2>2, <2>3, <2>5, <2>6 DEF IInv
<1> QED
    BY <1>1, <1>2, <1>3

LEMMA DisableIInv ==
    ASSUME IInv, ~overlap, Alone', NEW c \in Callers,
           \/ DisableTest(c) \/ StoreDisabled(c, "x_clear", "x_signal")
           \/ DisableSignal(c) \/ DisableJoin(c)
    PROVE  IInv'
<1>t. pc \in [Callers -> CallerPC] /\ apc \in [AgingThreads -> AgingPC] /\ aging_enable \in BOOLEAN
    BY DEF IInv, Types
<1>i. ~undefined /\ Aging \subseteq {aging_tid} /\ Settled /\ Creating /\ Clearing /\ Joining
    BY DEF IInv
<1>a. ASSUME pc'[c] \in Critical, NEW d \in Callers, d # c
      PROVE  pc'[d] \notin Critical
    BY <1>a DEF Alone
<1>r. Return(c) \in CallerPC \ Critical
    BY DEF Return, CallerPC, Critical
<1>1. CASE DisableTest(c)
  <2>1. pc[c] = "x_test" /\ UNCHANGED <<apc, aging_enable, aging_tid, undefined>>
      BY <1>1 DEF DisableTest, Go
  <2>2. Aging' = Aging
      BY <2>1 DEF Aging
  <2>3. CASE ~aging_enable
    <3>1. Go(c, "x_test", Return(c))
        BY <1>1, <2>3 DEF DisableTest
    <3>2. "x_test" \notin Critical
        BY DEF Critical
    <3> QED
        BY <1>r, <1>t, <2>1, <2>2, <3>1, <3>2, FrameGo
  <2>4. CASE aging_enable
    <3>1. pc' = [pc EXCEPT ![c] = "x_clear"] /\ pc'[c] = "x_clear"
        BY <1>1, <1>t, <2>4 DEF DisableTest, Go
    <3>2. \A d \in Callers : d # c => pc'[d] = pc[d] /\ pc'[d] \notin Critical
        BY <1>a, <1>t, <3>1 DEF Critical
    <3>3. \A d \in Callers : pc[d] \notin Critical
        BY <2>1, <3>2 DEF Critical
    <3>4. aging_tid \in Aging
        BY <1>i, <2>4, <3>3 DEF Settled
    <3>5. Types'
        BY <1>t, <2>1, <3>1 DEF Types, CallerPC
    <3>6. Settled' /\ Creating' /\ Clearing' /\ Joining'
        BY <2>1, <2>2, <2>4, <3>1, <3>2, <3>4 DEF Settled, Creating, Clearing, Joining, Critical
    <3> QED
        BY <1>i, <2>1, <2>2, <3>5, <3>6 DEF IInv
  <2> QED
      BY <1>t, <2>3, <2>4
<1>2. CASE StoreDisabled(c, "x_clear", "x_signal")
  <2>1. pc[c] = "x_clear" /\ pc' = [pc EXCEPT ![c] = "x_signal"] /\ aging_enable' = FALSE
      BY <1>2 DEF StoreDisabled, Go
  <2>2. UNCHANGED <<apc, aging_tid, undefined>>
      BY <1>2 DEF StoreDisabled
  <2>3. aging_tid \in Aging /\ Aging' = Aging
      BY <1>i, <2>1, <2>2 DEF Clearing, Aging
  <2>4. pc'[c] = "x_signal" /\ \A d \in Callers : d # c => pc'[d] \notin Critical
      BY <1>a, <1>t, <2>1 DEF Critical
  <2>5. Types'
      BY <1>t, <2>1, <2>2 DEF Types, CallerPC
  <2>6. Settled' /\ Creating' /\ Clearing' /\ Joining'
      BY <2>1, <2>2, <2>3, <2>4 DEF Settled, Creating, Clearing, Joining, Critical
  <2> QED
      BY <1>i, <2>2, <2>3, <2>5, <2>6 DEF IInv
<1>3. CASE DisableSignal(c)
  <2>1. Go(c, "x_signal", "x_wake") /\ UNCHANGED <<aging_enable, aging_tid, undefined>>
      BY <1>3 DEF DisableSignal
  <2>2. \/ apc' = apc
        \/ \E a \in AgingThreads : apc[a] = "timed" /\ apc' = [apc EXCEPT ![a] = "wake"]
      BY <1>3 DEF DisableSignal
  <2>3. apc' \in [AgingThreads -> AgingPC]
      BY <1>t, <2>2 DEF AgingPC
  <2>4. Aging' = Aging
      BY <1>t, <2>2 DEF Aging
  <2> QED
      BY <2>1, <2>3, <2>4, FrameGo DEF CallerPC
<1>4. CASE DisableJoin(c)
  <2>1. pc[c] = "x_join" /\ pc' = [pc EXCEPT ![c] = Return(c)] /\ UNCHANGED <<aging_enable, aging_tid>>
      BY <1>4 DEF DisableJoin, Go
  <2>2. ~aging_enable /\ aging_tid \in Aging
      BY <1>i, <2>1 DEF Joining
  <2>3. apc' = [apc EXCEPT ![aging_tid] = "none"] /\ undefined' = undefined
      BY <1>4, <2>2 DEF DisableJoin
  <2>4. Aging' = {}
      BY <1>i, <1>t, <2>2, <2>3 DEF Aging
  <2>5. \A d \in Callers : pc'[d] \notin Critical
    <3>1. \A d \in Callers : d # c => pc[d] \notin Critical
        BY <2>1 DEF IInv, Alone, Critical
    <3> QED
        BY <1>r, <1>t, <2>1, <3>1
  <2>6. Types'
      BY <1>r, <1>t, <2>1, <2>3 DEF Types, AgingPC
  <2>7. Settled' /\ Creating' /\ Clearing' /\ Joining'
      BY <2>1, <2>2, <2>4, <2>5 DEF Settled, Creating, Clearing, Joining, Critical
  <2> QED
      BY <1>i, <2>3, <2>4, <2>6, <2>7 DEF IInv
<1> QED
    BY <1>1, <1>2, <1>3, <1>4

-------------------------------------------------------------------------------
LEMMA WorkerIInv ==
    ASSUME IInv, ~overlap, Alone', NEW w \in Workers, WorkerStep(w) \/ WorkerSpurious(w)
    PROVE  IInv'
<1>1. UNCHANGED <<pc, apc, aging_enable, aging_tid, undefined>>
    BY DEF WorkerStep, WorkerSpurious, WorkerTop, WorkerPause, WorkerLook, WorkerGo
<1>2. Types' /\ Aging' = Aging
    BY <1>1 DEF IInv, Types, Aging
<1> QED
    BY <1>1, <1>2, Frame

LEMMA StepIInv ==
    ASSUME IInv, ~overlap, Step, Alone'
    PROVE  IInv'
<1>1. CASE Elsewhere
    BY <1>1, ElsewhereIInv
<1>2. CASE WakePause(Owner, "d_wake_pause", "x_test")
    BY <1>2, WakePauseIInv, LifecycleAssumption DEF CallerPC, Critical
<1>3. CASE \E w \in Workers : WorkerStep(w) \/ WorkerSpurious(w)
    BY <1>3, WorkerIInv
<1>4. CASE \E a \in AgingThreads : AgingStep(a) \/ AgingSpurious(a)
    BY <1>4, AgingIInv
<1>5. ASSUME NEW c \in Callers, CallStep(c), ~PauseWakeAll(c)
      PROVE  IInv'
  <2>1. CASE WakePause(c, "r_wake", "idle")
      BY <2>1, WakePauseIInv DEF CallerPC, Critical
  <2>2. CASE WakePause(c, "x_wake", "x_join")
      BY <2>2, WakePauseIInv DEF CallerPC, Critical
  <2>3. CASE EnableLock(c) \/ EnableCreate(c) \/ StoreDisabled(c, "e_undo", "idle")
      BY <2>3, EnableIInv
  <2>4. CASE \/ DisableTest(c) \/ StoreDisabled(c, "x_clear", "x_signal")
             \/ DisableSignal(c) \/ DisableJoin(c)
      BY <2>4, DisableIInv
  <2> QED
      BY <1>5, <2>1, <2>2, <2>3, <2>4 DEF CallStep, AgingCallStep
<1> QED
    BY <1>1, <1>2, <1>3, <1>4, <1>5 DEF Step, Elsewhere, DestroyStep, CallStep

LEMMA NextIInv == IInv /\ [Next]_vars => IInv'
<1> SUFFICES ASSUME IInv, [Next]_vars PROVE IInv'
    OBVIOUS
<1>1. CASE Noted(Step)
  <2>1. ~overlap /\ Step
      BY <1>1 DEF Noted
  <2>2. overlap' = (\E c, d \in Callers : c # d /\ pc'[c] \in Critical /\ pc'[d] \in Critical)
      BY <1>1 DEF Noted
  <2>3. CASE Alone'
      BY <2>1, <2>3, StepIInv
  <2>4. CASE ~Alone'
    <3>1. overlap'
        BY <2>2, <2>4 DEF Alone
    <3> QED
        BY <3>1 DEF IInv
  <2> QED
      BY <2>3, <2>4
<1>2. CASE UNCHANGED vars
    BY <1>2 DEF vars, IInv, Types, Aging, Alone, Settled, Creating, Clearing, Joining
<1> QED
    BY <1>1, <1>2 DEF Next

(* Whatever calls of enable_aging and disable_aging have been made, as     *)
(* long as no two of them were between the store of aging_enable and the   *)
(* last use of aging_tid at once, aging_enable tells whether the aging     *)
(* thread exists and aging_tid is its id.                                  *)
THEOREM Inductive == Spec => []IInv
<1>1. Spec => Init /\ [][Next]_vars
    BY DEF Spec
<1> QED
    BY <1>1, InitIInv, NextIInv, PTL

(* Calls of enable_aging and disable_aging that do not overlap keep at     *)
(* most one aging thread and join only a thread that exists, for any       *)
(* number of callers, workers and aging threads.                           *)
THEOREM JoinsCorrect == Spec => []JoinsValid
<1>1. IInv => JoinsValid
    BY DEF IInv, JoinsValid, Clearing, Joining, Critical
<1> QED
    BY <1>1, Inductive, PTL

-------------------------------------------------------------------------------
(* Aging passes in a paused pool.                                          *)

(* An aging thread that will test paused, or shutdown and aging_enable to  *)
(* its disadvantage, before its next pass.                                 *)
Quiet(a) ==
    \/ apc[a] \in {"none", "lock", "top", "p_test", "p_wait", "exit"}
    \/ apc[a] \in {"relock", "test"} /\ (shutdown \/ ~aging_enable)

PassInv ==
    ~overlap => /\ passes \in {0, 1}
                /\ paused /\ passes = 1 => \A a \in AgingThreads : Quiet(a)

(* A step that makes no thread a threat leaves the bound as it is. *)
LEMMA PassFrame ==
    ASSUME PassInv, ~overlap, passes' = passes,
           paused' => paused /\ \A a \in AgingThreads : Quiet(a) => Quiet(a)'
    PROVE  PassInv'
BY DEF PassInv

LEMMA PassAging ==
    ASSUME IInv, PassInv, ~overlap, NEW a \in AgingThreads, AgingStep(a) \/ AgingSpurious(a)
    PROVE  PassInv'
<1>t. apc \in [AgingThreads -> AgingPC]
    BY DEF IInv, Types
<1>0. ASSUME NEW from, NEW to, AgingGo(a, from, to)
      PROVE  /\ apc[a] = from /\ apc'[a] = to
             /\ UNCHANGED <<shutdown, paused, aging_enable>>
             /\ \A b \in AgingThreads : b # a => apc'[b] = apc[b]
    BY <1>t, <1>0 DEF AgingGo
<1>1. CASE AgingLock(a)
    BY <1>0, <1>1, PassFrame DEF AgingLock, Quiet
<1>2. CASE AgingTop(a)
    BY <1>0, <1>2, PassFrame DEF AgingTop, Quiet
<1>3. CASE AgingPauseTest(a)
    BY <1>0, <1>3, PassFrame DEF AgingPauseTest, Quiet
<1>4. CASE AgingRelock(a)
    BY <1>0, <1>4, PassFrame DEF AgingRelock, Quiet
<1>5. CASE AgingTest(a)
    BY <1>0, <1>5, PassFrame DEF AgingTest, Quiet
<1>6. CASE AgingTimeout(a)
    BY <1>0, <1>6, PassFrame DEF AgingTimeout, Quiet
<1>7. CASE AgingWake(a)
    BY <1>0, <1>7, PassFrame DEF AgingWake, Quiet
<1>8. CASE AgingPass(a)
  <2>1. /\ apc[a] = "pass" /\ apc'[a] = "top" /\ paused' = paused
        /\ \A b \in AgingThreads : b # a => apc'[b] = apc[b]
        /\ passes' = IF paused /\ passes < 2 THEN passes + 1 ELSE passes
      BY <1>0, <1>8 DEF AgingPass
  <2>2. paused => passes = 0
      BY <2>1 DEF PassInv, Quiet
  <2>3. \A b \in AgingThreads : b # a => apc[b] = "none"
    <3>1. Aging \subseteq {aging_tid}
        BY DEF IInv
    <3> QED
        BY <2>1, <3>1 DEF Aging
  <2>4. \A b \in AgingThreads : Quiet(b)'
      BY <2>1, <2>3 DEF Quiet
  <2>5. passes' \in {0, 1}
      BY <2>1, <2>2 DEF PassInv
  <2> QED
      BY <2>4, <2>5 DEF PassInv
<1>9. CASE AgingSpurious(a)
    BY <1>0, <1>9, PassFrame DEF AgingSpurious, Quiet
<1> QED
    BY <1>1, <1>2, <1>3, <1>4, <1>5, <1>6, <1>7, <1>8, <1>9 DEF AgingStep

(* Neither a pause nor enable_aging gives a thread that is past its test   *)
(* of paused a second pass: the pause counts afresh, and enable_aging      *)
(* finds no thread when it turns the flag on.                              *)
LEMMA PassCalls ==
    ASSUME IInv, PassInv, ~overlap, Alone', NEW c \in Callers, PauseCall(c) \/ CallStep(c)
    PROVE  PassInv'
<1>t. pc \in [Callers -> CallerPC] /\ apc \in [AgingThreads -> AgingPC] /\ aging_enable \in BOOLEAN
    BY DEF IInv, Types
<1>1. CASE PauseCall(c)
    BY <1>1 DEF PauseCall, PassInv, Quiet
<1>2. CASE PauseWakeAll(c)
    BY <1>2, PassFrame DEF PauseWakeAll, Quiet
<1>3. ASSUME NEW from, NEW to, WakePause(c, from, to)
      PROVE  PassInv'
    BY <1>t, <1>3, PassFrame DEF WakePause, WakePaused, Quiet
<1>4. CASE EnableLock(c)
  <2>1. CASE aging_enable
      BY <1>4, <2>1, PassFrame DEF EnableLock, Quiet
  <2>2. CASE ~aging_enable
    <3>1. pc[c] = "e_lock" /\ pc' = [pc EXCEPT ![c] = "e_create"]
        BY <1>4, <2>2 DEF EnableLock, Go
    <3>2. \A d \in Callers : pc[d] \notin Critical
        BY <1>t, <3>1 DEF Alone, Critical
    <3>3. Aging = {}
        BY <2>2, <3>2 DEF IInv, Settled
    <3>4. \A a \in AgingThreads : apc'[a] = "none"
        BY <1>4, <3>3 DEF EnableLock, Aging
    <3> QED
        BY <1>4, <3>4, PassFrame DEF EnableLock, Quiet
  <2> QED
      BY <1>t, <2>1, <2>2
<1>5. CASE EnableCreate(c)
    BY <1>t, <1>5, PassFrame DEF EnableCreate, Quiet
<1>6. ASSUME NEW from, NEW to, StoreDisabled(c, from, to)
      PROVE  PassInv'
    BY <1>6, PassFrame DEF StoreDisabled, Quiet
<1>7. CASE DisableTest(c)
    BY <1>7, PassFrame DEF DisableTest, Quiet
<1>8. CASE DisableSignal(c)
  <2>1. \/ apc' = apc
        \/ \E a \in AgingThreads : apc[a] = "timed" /\ apc' = [apc EXCEPT ![a] = "wake"]
      BY <1>8 DEF DisableSignal
  <2>2. \A a \in AgingThreads : apc'[a] = apc[a] \/ apc[a] = "timed"
      BY <1>t, <2>1
  <2> QED
      BY <1>8, <2>2, PassFrame DEF DisableSignal, Quiet
<1>9. CASE DisableJoin(c)
    BY <1>t, <1>9, PassFrame DEF DisableJoin, Quiet
<1> QED
    BY <1>1, <1>2, <1>3, <1>4, <1>5, <1>6, <1>7, <1>8, <1>9 DEF CallStep, AgingCallStep

(* The other steps start no pass and make no thread run. *)
LEMMA PassElsewhere ==
    ASSUME IInv, PassInv, ~overlap,
           \/ InitStep \/ DestroyCall \/ DestroyStep
           \/ \E w \in Workers : WorkerStep(w) \/ WorkerSpurious(w)
           \/ \E c \in Callers : ResumeCall(c) \/ AgingCall(c)
    PROVE  PassInv'
<1>t. apc \in [AgingThreads -> AgingPC]
    BY DEF IInv, Types
<1>1. CASE WakePause(Owner, "d_wake_pause", "x_test")
    BY <1>t, <1>1, PassFrame DEF WakePause, WakePaused, Quiet
<1>2. CASE ~WakePause(Owner, "d_wake_pause", "x_test")
  <2>1. passes' = passes /\ apc' = apc /\ aging_enable' = aging_enable /\ (paused' => paused)
    <3>1. CASE InitStep
        BY <3>1 DEF InitStep, InitAcquire, InitSpawn, InitWakeAll, InitJoin, InitRelease
    <3>2. CASE DestroyCall \/ DestroyStep
        BY <1>2, <3>2 DEF DestroyCall, DestroyStep, DestroyUnpause, DestroyWakeAll, DestroyJoin, DestroyFree
    <3>3. CASE \E w \in Workers : WorkerStep(w) \/ WorkerSpurious(w)
        BY <3>3 DEF WorkerStep, WorkerSpurious, WorkerTop, WorkerPause, WorkerLook, WorkerGo
    <3>4. CASE \E c \in Callers : ResumeCall(c) \/ AgingCall(c)
        BY <3>4 DEF ResumeCall, AgingCall
    <3> QED
        BY <3>1, <3>2, <3>3, <3>4
  <2>2. shutdown => shutdown'
    <3>1. CASE InitStep
        BY <3>1 DEF InitStep, InitAcquire, InitSpawn, InitWakeAll, InitJoin, InitRelease
    <3>2. CASE DestroyCall \/ DestroyStep
        BY <1>2, <3>2 DEF DestroyCall, DestroyStep, DestroyUnpause, DestroyWakeAll, DestroyJoin, DestroyFree
    <3>3. CASE \E w \in Workers : WorkerStep(w) \/ WorkerSpurious(w)
        BY <3>3 DEF WorkerStep, WorkerSpurious, WorkerTop, WorkerPause, WorkerLook, WorkerGo
    <3>4. CASE \E c \in Callers : ResumeCall(c) \/ AgingCall(c)
        BY <3>4 DEF ResumeCall, AgingCall
    <3> QED
        BY <3>1, <3>2, <3>3, <3>4
  <2> QED
      BY <2>1, <2>2, PassFrame DEF Quiet
<1> QED
    BY <1>1, <1>2

LEMMA NextPassInv == IInv /\ PassInv /\ [Next]_vars => PassInv'
<1> SUFFICES ASSUME IInv, PassInv, [Next]_vars PROVE PassInv'
    OBVIOUS
<1>1. CASE Noted(Step)
  <2>1. ~overlap /\ Step
      BY <1>1 DEF Noted
  <2>2. overlap' = (\E c, d \in Callers : c # d /\ pc'[c] \in Critical /\ pc'[d] \in Critical)
      BY <1>1 DEF Noted
  <2>3. CASE Alone'
      BY <2>1, <2>3, PassAging, PassCalls, PassElsewhere DEF Step
  <2>4. CASE ~Alone'
    <3>1. overlap'
        BY <2>2, <2>4 DEF Alone
    <3> QED
        BY <3>1 DEF PassInv
  <2> QED
      BY <2>3, <2>4
<1>2. CASE UNCHANGED vars
    BY <1>2 DEF vars, PassInv, Quiet
<1> QED
    BY <1>1, <1>2 DEF Next

(* After thread_pool_pause, aging_worker goes through pq_aging at most     *)
(* once before the pool is resumed, however often aging is disabled and    *)
(* enabled in between.                                                     *)
THEOREM PausedPassesBounded == Spec => []OnePassPerPause
<1>1. Init => PassInv
    BY DEF Init, PassInv
<1>2. Spec => Init /\ [][Next]_vars
    BY DEF Spec
<1>3. Spec => []PassInv
    BY <1>1, <1>2, Inductive, NextPassInv, PTL
<1>4. PassInv => OnePassPerPause
    BY DEF PassInv, OnePassPerPause
<1> QED
    BY <1>3, <1>4, PTL

-------------------------------------------------------------------------------
(* The phases of the pool's life.                                          *)

(* The owner is in thread_pool_init, or past the point of thread_pool_destroy*)
(* where the aging thread has been stopped.                                *)
Starting == {"i_acquire", "i_spawn", "i_wake", "i_join", "failed"} \cup ErrorLabels
Ending == {"d_join", "d_free", "freed"}

Phases ==
    /\ pc[Owner] \notin {"i_acquire", "failed", "freed"} \cup ErrorLabels => held = AllResources
    /\ pc[Owner] = "i_acquire" => \E n \in 0 .. 9 : held = FirstOf(n)
    /\ pc[Owner] \in ErrorLabels =>
           held = FirstOf(Depth[pc[Owner]]) /\ (Depth[pc[Owner]] < 10 \/ shutdown)
    /\ pc[Owner] \in {"failed", "freed"} => held = {}
    /\ pc[Owner] \in {"i_acquire", "failed", "d_free", "freed"} \cup ErrorLabels =>
           \A w \in Workers : wpc[w] = "none"
    /\ pc[Owner] \in Starting \cup Ending => ~aging_enable /\ Aging = {}
    /\ pc[Owner] \in Starting \/ shutdown => \A c \in Callers \ {Owner} : pc[c] = "idle"
    /\ pc[Owner] \in {"i_wake", "i_join", "d_unpause", "d_wake_pq", "d_wake_pause"} \cup Ending => shutdown
    /\ shutdown => pc[Owner] \notin {"idle", "p_wake", "r_wake", "e_lock", "e_create", "e_undo",
                                     "i_acquire", "i_spawn"}

LifeInv == ~overlap => Phases

(* How many resources are held tells which ones they are. *)
LEMMA FirstFacts ==
    ASSUME NEW n \in 0 .. 10
    PROVE  /\ Cardinality(FirstOf(n)) = n
           /\ n = 0 => FirstOf(n) = {}
           /\ n < 10 => FirstOf(n) # AllResources
           /\ n < 10 => FirstOf(n) \cup {Resources[n + 1]} = FirstOf(n + 1)
<1> DEFINE f == [i \in 1 .. n |-> Resources[i]]
<1>d. \A i, j \in 1 .. 10 : Resources[i] = Resources[j] => i = j
    BY ResourceFacts
<1>1. Cardinality(FirstOf(n)) = n
  <2>1. IsFiniteSet(1 .. n) /\ Cardinality(1 .. n) = n
    <3>1. n \in Int /\ 1 \in Int
        OBVIOUS
    <3>2. IsFiniteSet(1 .. n) /\ Cardinality(1 .. n) = IF 1 > n THEN 0 ELSE n - 1 + 1
        BY <3>1, FS_Interval
    <3> QED
        BY <3>2
  <2>2. f \in Surjection(1 .. n, FirstOf(n))
      BY DEF Surjection, FirstOf
  <2>3. IsFiniteSet(FirstOf(n)) /\ Cardinality(FirstOf(n)) <= Cardinality(1 .. n)
      BY <2>1, <2>2, FS_Surjection
  <2>4. f \in [1 .. n -> FirstOf(n)] /\ \A i, j \in 1 .. n : f[i] = f[j] => i = j
      BY <1>d DEF FirstOf
  <2>5. ~(Cardinality(FirstOf(n)) < Cardinality(1 .. n))
    <3> HIDE DEF f
    <3> QED
        BY <2>1, <2>3, <2>4, FS_PigeonHole
  <2>6. Cardinality(FirstOf(n)) \in Nat
      BY <2>3, FS_CardinalityType
  <2> QED
      BY <2>1, <2>3, <2>5, <2>6
<1>2. n = 0 => FirstOf(n) = {}
    BY DEF FirstOf
<1>3. n < 10 => FirstOf(n) # AllResources
  <2>1. Resources[10] \in AllResources
      BY ResourceFacts DEF FirstOf
  <2>2. n < 10 => Resources[10] \notin FirstOf(n)
      BY <1>d DEF FirstOf
  <2> QED
      BY <2>1, <2>2
<1>4. n < 10 => FirstOf(n) \cup {Resources[n + 1]} = FirstOf(n + 1)
  <2>1. 1 .. n + 1 = (1 .. n) \cup {n + 1}
      OBVIOUS
  <2> QED
      BY <2>1 DEF FirstOf
<1> QED
    BY <1>1, <1>2, <1>3, <1>4

(* An error label destroys what it finds and leaves what the next finds. *)
LEMMA UnwindFacts ==
    ASSUME NEW l \in ErrorLabels
    PROVE  /\ Destroys[l] \subseteq FirstOf(Depth[l])
           /\ FirstOf(Depth[l]) \ Destroys[l] = FirstOf(Depth[FallsTo[l]])
<1>1. /\ Depth[l] \in 1 .. 10 /\ Depth[FallsTo[l]] \in 0 .. 10 /\ Depth[FallsTo[l]] < Depth[l]
      /\ \A i \in 1 .. 10 : Resources[i] \in Destroys[l] <=> i <= Depth[l] /\ i > Depth[FallsTo[l]]
      /\ Destroys[l] \subseteq FirstOf(10)
  <2>1. Depth["failed"] = 0
      BY DEF Depth
  <2> QED
      BY <2>1, LabelFacts, ResourceFacts
<1> QED
    BY <1>1 DEF FirstOf

(* No call begins during thread_pool_init and none after the one of        *)
(* thread_pool_destroy.                                                    *)
LEMMA NotAlive == Phases /\ (pc[Owner] \in Starting \/ shutdown) => ~Alive
<1> SUFFICES ASSUME Phases, pc[Owner] \in Starting, ~shutdown PROVE ~Alive
    BY DEF Alive
<1>1. CASE pc[Owner] = "i_acquire"
  <2>1. PICK n \in 0 .. 9 : held = FirstOf(n)
      BY <1>1 DEF Phases
  <2> QED
      BY <2>1, FirstFacts DEF Alive
<1>2. CASE pc[Owner] \in ErrorLabels
  <2>1. PICK n \in 0 .. 10 : held = FirstOf(n) /\ n < 10
      BY <1>2, LabelFacts DEF Phases
  <2> QED
      BY <2>1, FirstFacts DEF Alive
<1>3. CASE pc[Owner] = "failed"
    BY <1>3, ResourceFacts DEF Phases, Alive
<1>4. CASE pc[Owner] \in {"i_wake", "i_join"}
    BY <1>4 DEF Phases
<1>5. CASE pc[Owner] = "i_spawn"
    BY <1>5 DEF Alive
<1> QED
    BY <1>1, <1>2, <1>3, <1>4, <1>5 DEF Starting

(* Steps that leave the owner where it is. *)
LEMMA PhaseFrame ==
    ASSUME Phases, pc'[Owner] = pc[Owner], UNCHANGED <<held, shutdown>>,
           pc[Owner] \in Starting \cup Ending \/ shutdown =>
               /\ (\A w \in Workers : wpc[w] = "none") => \A w \in Workers : wpc'[w] = "none"
               /\ aging_enable' = aging_enable /\ Aging' = Aging
               /\ \A c \in Callers : pc'[c] = pc[c]
    PROVE  Phases'
<1>1. pc[Owner] \in {"d_free", "freed"} => pc[Owner] \in Ending
    BY DEF Ending
<1>2. pc[Owner] \in {"i_acquire", "failed"} \cup ErrorLabels => pc[Owner] \in Starting
    BY DEF Starting
<1> QED
    BY <1>1, <1>2 DEF Phases

LEMMA PhaseAside ==
    ASSUME IInv, ~overlap, Phases,
           \/ \E w \in Workers : WorkerStep(w) \/ WorkerSpurious(w)
           \/ \E a \in AgingThreads : AgingStep(a) \/ AgingSpurious(a)
           \/ \E c \in Callers \ {Owner} : PauseCall(c) \/ ResumeCall(c) \/ AgingCall(c) \/ CallStep(c)
    PROVE  Phases'
<1>t. pc \in [Callers -> CallerPC] /\ apc \in [AgingThreads -> AgingPC]
    BY DEF IInv, Types
<1>1. ASSUME NEW w \in Workers, WorkerStep(w) \/ WorkerSpurious(w)
      PROVE  Phases'
  <2>1. /\ wpc[w] # "none"
        /\ UNCHANGED <<pc, held, apc, shutdown, aging_enable>>
      BY <1>1 DEF WorkerStep, WorkerSpurious, WorkerTop, WorkerPause, WorkerLook, WorkerGo
  <2>2. Aging' = Aging
      BY <2>1 DEF Aging
  <2> QED
      BY <2>1, <2>2, PhaseFrame
<1>2. ASSUME NEW a \in AgingThreads, AgingStep(a) \/ AgingSpurious(a)
      PROVE  Phases'
  <2>1. \E from, to : AgingGo(a, from, to) /\ from # "none"
      BY <1>2 DEF AgingStep, AgingLock, AgingTop, AgingPauseTest, AgingRelock, AgingTest, AgingTimeout,
                  AgingWake, AgingPass, AgingSpurious
  <2>2. /\ apc[a] # "none"
        /\ UNCHANGED <<pc, held, wpc, shutdown, aging_enable>>
      BY <2>1 DEF AgingGo
  <2>3. \E to : apc' = [apc EXCEPT ![a] = to] /\ to # "none"
      BY <1>2 DEF AgingStep, AgingLock, AgingTop, AgingPauseTest, AgingRelock, AgingTest, AgingTimeout,
                  AgingWake, AgingPass, AgingSpurious, AgingGo
  <2>4. Aging' = Aging
      BY <1>t, <2>2, <2>3 DEF Aging
  <2> QED
      BY <2>2, <2>4, PhaseFrame
<1>3. ASSUME NEW c \in Callers \ {Owner}, PauseCall(c) \/ ResumeCall(c) \/ AgingCall(c) \/ CallStep(c)
      PROVE  Phases'
  <2>1. /\ \E from, to : Go(c, from, to) /\ (from # "idle" \/ Alive)
        /\ UNCHANGED <<held, shutdown>>
    <3>1. CASE PauseCall(c) \/ ResumeCall(c) \/ AgingCall(c)
        BY <3>1 DEF PauseCall, ResumeCall, AgingCall
    <3>2. CASE PauseWakeAll(c) \/ WakePause(c, "r_wake", "idle") \/ WakePause(c, "x_wake", "x_join")
        BY <3>2 DEF PauseWakeAll, WakePause
    <3>3. CASE EnableLock(c) \/ EnableCreate(c) \/ StoreDisabled(c, "e_undo", "idle")
        BY <3>3 DEF EnableLock, EnableCreate, StoreDisabled
    <3>4. CASE \/ DisableTest(c) \/ StoreDisabled(c, "x_clear", "x_signal")
               \/ DisableSignal(c) \/ DisableJoin(c)
        BY <3>4 DEF DisableTest, StoreDisabled, DisableSignal, DisableJoin
    <3> QED
        BY <1>3, <3>1, <3>2, <3>3, <3>4 DEF CallStep, AgingCallStep
  <2>2. pc[c] # "idle" \/ Alive
      BY <2>1 DEF Go
  <2>3. pc'[Owner] = pc[Owner]
      BY <1>t, <2>1, LifecycleAssumption DEF Go
  <2>4. ~(pc[Owner] \in Starting \/ shutdown)
      BY <2>2, NotAlive DEF Phases
  <2>5. pc[Owner] \notin Ending
      BY <2>4 DEF Phases
  <2>6. UNCHANGED <<held, shutdown>>
      BY <2>1
  <2>7. ~(pc[Owner] \in Starting \cup Ending \/ shutdown)
      BY <2>4, <2>5
  <2> QED
      BY <2>3, <2>6, <2>7, PhaseFrame
<1> QED
    BY <1>1, <1>2, <1>3

(* A step of the owner's calls that does not end thread_pool_destroy. *)
LEMMA PhaseGo ==
    ASSUME IInv, ~overlap, Phases, NEW from, NEW to, Go(Owner, from, to),
           UNCHANGED <<held, shutdown>>, {from, to} \cap (Starting \cup Ending) = {},
           to \in {"d_unpause", "d_wake_pq", "d_wake_pause"} => shutdown,
           to \in {"idle", "p_wake", "r_wake", "e_lock", "e_create", "e_undo"} => ~shutdown
    PROVE  Phases'
<1>1. pc \in [Callers -> CallerPC] /\ Owner \in Callers
    BY LifecycleAssumption DEF IInv, Types
<1>2. /\ pc[Owner] = from /\ pc'[Owner] = to
      /\ \A c \in Callers \ {Owner} : pc'[c] = pc[c]
    BY <1>1 DEF Go
<1>3. held = AllResources
    BY <1>2 DEF Phases, Starting, Ending, ErrorLabels
<1>4. shutdown => \A c \in Callers \ {Owner} : pc[c] = "idle"
    BY DEF Phases
<1>5. /\ to \notin {"i_acquire", "i_spawn", "i_wake", "i_join", "failed"} \cup ErrorLabels
      /\ to \notin {"d_join", "d_free", "freed"}
    BY DEF Starting, Ending, ErrorLabels
<1>6. to \notin Starting \cup Ending
    OBVIOUS
<1> QED
    BY <1>2, <1>3, <1>4, <1>5, <1>6 DEF Phases

(* disable_aging returns into thread_pool_destroy without an aging thread. *)
LEMMA PhaseStopped ==
    ASSUME IInv, IInv', ~overlap, ~overlap', Phases, shutdown, NEW from, Go(Owner, from, "d_join"),
           from \notin Starting \cup Ending, UNCHANGED <<held, shutdown>>, ~aging_enable'
    PROVE  Phases'
<1>1. pc \in [Callers -> CallerPC] /\ Owner \in Callers
    BY LifecycleAssumption DEF IInv, Types
<1>2. /\ pc[Owner] = from /\ pc'[Owner] = "d_join"
      /\ \A c \in Callers \ {Owner} : pc'[c] = pc[c]
    BY <1>1 DEF Go
<1>3. held = AllResources
    BY <1>2 DEF Phases, Starting, Ending, ErrorLabels
<1>4. \A c \in Callers \ {Owner} : pc'[c] = "idle"
    BY <1>2 DEF Phases
<1>5. \A c \in Callers : pc'[c] \notin Critical
    BY <1>2, <1>4 DEF Critical
<1>6. Aging' = {}
  <2>1. Settled' /\ (Aging \subseteq {aging_tid})'
      BY DEF IInv
  <2> QED
      BY <1>5, <2>1 DEF Settled
<1> QED
    BY <1>2, <1>3, <1>4, <1>6 DEF Phases, Starting, Ending, ErrorLabels

LEMMA PhaseOwnerCalls ==
    ASSUME IInv, IInv', ~overlap, ~overlap', Phases,
           \/ PauseCall(Owner) \/ ResumeCall(Owner) \/ AgingCall(Owner) \/ CallStep(Owner)
           \/ DestroyUnpause \/ DestroyWakeAll \/ WakePause(Owner, "d_wake_pause", "x_test")
    PROVE  Phases'
<1> USE DEF Starting, Ending, ErrorLabels
<1>1. CASE PauseCall(Owner)
    BY <1>1, PhaseGo DEF PauseCall, Alive
<1>2. CASE ResumeCall(Owner)
    BY <1>2, PhaseGo DEF ResumeCall, Alive
<1>3. CASE AgingCall(Owner)
    BY <1>3, PhaseGo DEF AgingCall, Alive
<1>s. ASSUME pc[Owner] \in {"p_wake", "r_wake", "e_lock", "e_create", "e_undo"} PROVE ~shutdown
    BY <1>s DEF Phases
<1>4. CASE PauseWakeAll(Owner)
  <2>1. Go(Owner, "p_wake", "idle") /\ UNCHANGED <<held, shutdown>> /\ ~shutdown
      BY <1>4, <1>s DEF PauseWakeAll, Go
  <2> QED
      BY <2>1, PhaseGo
<1>5. CASE WakePause(Owner, "r_wake", "idle")
  <2>1. Go(Owner, "r_wake", "idle") /\ UNCHANGED <<held, shutdown>> /\ ~shutdown
      BY <1>5, <1>s DEF WakePause, Go
  <2> QED
      BY <2>1, PhaseGo
<1>6. CASE EnableLock(Owner) \/ EnableCreate(Owner) \/ StoreDisabled(Owner, "e_undo", "idle")
  <2>1. \E from \in {"e_lock", "e_create", "e_undo"}, to \in {"idle", "e_create", "e_undo"} :
            Go(Owner, from, to)
      BY <1>6 DEF EnableLock, EnableCreate, StoreDisabled
  <2>2. PICK from \in {"e_lock", "e_create", "e_undo"}, to \in {"idle", "e_create", "e_undo"} :
            Go(Owner, from, to)
      BY <2>1
  <2>3. UNCHANGED <<held, shutdown>> /\ ~shutdown
      BY <1>6, <1>s, <2>2 DEF EnableLock, EnableCreate, StoreDisabled, Go
  <2> QED
      BY <2>2, <2>3, PhaseGo
<1>7. CASE DisableTest(Owner)
  <2>1. UNCHANGED <<held, shutdown, aging_enable>>
      BY <1>7 DEF DisableTest
  <2>2. CASE aging_enable
    <3>1. Go(Owner, "x_test", "x_clear")
        BY <1>7, <2>2 DEF DisableTest
    <3> QED
        BY <2>1, <3>1, PhaseGo
  <2>3. CASE ~aging_enable
    <3>1. Go(Owner, "x_test", IF shutdown THEN "d_join" ELSE "idle")
        BY <1>7, <2>3 DEF DisableTest, Return
    <3>2. CASE shutdown
        BY <2>1, <2>3, <3>1, <3>2, PhaseStopped
    <3>3. CASE ~shutdown
        BY <2>1, <3>1, <3>3, PhaseGo
    <3> QED
        BY <3>2, <3>3
  <2> QED
      BY <2>2, <2>3
<1>8. CASE StoreDisabled(Owner, "x_clear", "x_signal")
    BY <1>8, PhaseGo DEF StoreDisabled
<1>9. CASE DisableSignal(Owner)
    BY <1>9, PhaseGo DEF DisableSignal
<1>10. CASE WakePause(Owner, "x_wake", "x_join")
    BY <1>10, PhaseGo DEF WakePause
<1>11. CASE DisableJoin(Owner)
  <2>1. /\ Go(Owner, "x_join", IF shutdown THEN "d_join" ELSE "idle")
        /\ UNCHANGED <<held, shutdown, aging_enable>>
      BY <1>11 DEF DisableJoin, Return
  <2>2. ~aging_enable
      BY <2>1, LifecycleAssumption DEF IInv, Joining, Go
  <2>3. CASE shutdown
      BY <2>1, <2>2, <2>3, PhaseStopped
  <2>4. CASE ~shutdown
      BY <2>1, <2>4, PhaseGo
  <2> QED
      BY <2>3, <2>4
<1>d. ASSUME pc[Owner] \in {"d_unpause", "d_wake_pq", "d_wake_pause"} PROVE shutdown
    BY <1>d DEF Phases
<1>12. CASE DestroyUnpause
  <2>1. Go(Owner, "d_unpause", "d_wake_pq") /\ UNCHANGED <<held, shutdown>> /\ shutdown
      BY <1>12, <1>d DEF DestroyUnpause, Go
  <2> QED
      BY <2>1, PhaseGo
<1>13. CASE DestroyWakeAll
  <2>1. Go(Owner, "d_wake_pq", "d_wake_pause") /\ UNCHANGED <<held, shutdown>> /\ shutdown
      BY <1>13, <1>d DEF DestroyWakeAll, Go
  <2> QED
      BY <2>1, PhaseGo
<1>14. CASE WakePause(Owner, "d_wake_pause", "x_test")
    BY <1>14, PhaseGo DEF WakePause
<1> QED
    BY <1>1, <1>2, <1>3, <1>4, <1>5, <1>6, <1>7, <1>8, <1>9, <1>10, <1>11, <1>12, <1>13, <1>14
    DEF CallStep, AgingCallStep

(* thread_pool_init: what is held are always the first resources, and the  *)
(* error labels give them back one by one.                                 *)
LEMMA PhaseInit ==
    ASSUME IInv, ~overlap, Phases, InitStep
    PROVE  Phases'
<1>t. pc \in [Callers -> CallerPC] /\ Owner \in Callers
    BY LifecycleAssumption DEF IInv, Types
<1>0. ASSUME NEW from, NEW to, Go(Owner, from, to)
      PROVE  /\ pc[Owner] = from /\ pc'[Owner] = to
             /\ \A c \in Callers \ {Owner} : pc'[c] = pc[c]
    BY <1>t, <1>0 DEF Go
<1>1. UNCHANGED <<apc, aging_enable>> /\ pc[Owner] \in Starting
    BY DEF InitStep, InitAcquire, InitSpawn, InitWakeAll, InitJoin, InitRelease, Go, Starting
<1>2. ~aging_enable' /\ Aging' = {}
    BY <1>1 DEF Phases, Aging
<1>3. \A c \in Callers \ {Owner} : pc[c] = "idle"
    BY <1>1 DEF Phases
<1>4. CASE InitAcquire
  <2>0. pc[Owner] = "i_acquire" /\ UNCHANGED <<wpc, shutdown>>
      BY <1>4 DEF InitAcquire, Go
  <2>1. pc[Owner] = "i_acquire" /\ ~shutdown' /\ \A w \in Workers : wpc'[w] = "none"
      BY <2>0 DEF Phases
  <2>2. PICK n \in 0 .. 9 : held = FirstOf(n)
      BY <2>1 DEF Phases
  <2>3. Cardinality(held) = n /\ held \cup {Resources[n + 1]} = FirstOf(n + 1)
      BY <2>2, FirstFacts
  <2>4. CASE held' = held \cup {Resources[n + 1]} /\ n = 9 /\ Go(Owner, "i_acquire", "i_spawn")
    <3>1. held' = AllResources
        BY <2>3, <2>4, ResourceFacts
    <3>2. pc'[Owner] = "i_spawn" /\ \A c \in Callers \ {Owner} : pc'[c] = "idle"
        BY <1>0, <1>3, <2>4
    <3> QED
        BY <1>2, <2>1, <3>1, <3>2 DEF Phases, Starting, Ending, ErrorLabels
  <2>5. CASE held' = held \cup {Resources[n + 1]} /\ n # 9 /\ Go(Owner, "i_acquire", "i_acquire")
    <3>1. n + 1 \in 0 .. 9 /\ held' = FirstOf(n + 1)
        BY <2>3, <2>5
    <3>2. pc'[Owner] = "i_acquire" /\ \A c \in Callers \ {Owner} : pc'[c] = "idle"
        BY <1>0, <1>3, <2>5
    <3> QED
        BY <1>2, <2>1, <3>1, <3>2 DEF Phases, Starting, Ending, ErrorLabels
  <2>6. CASE held' = held /\ Go(Owner, "i_acquire", ErrorLabel[Resources[n + 1]])
    <3> DEFINE l == ErrorLabel[Resources[n + 1]]
    <3>1. l \in ErrorLabels \cup {"failed"} /\ Depth[l] = n /\ (l = "failed" <=> n = 0)
        BY LabelFacts
    <3>2. pc'[Owner] = l /\ \A c \in Callers \ {Owner} : pc'[c] = "idle"
        BY <1>0, <1>3, <2>6
    <3>3. n = 0 => held' = {}
        BY <2>2, <2>6, FirstFacts
    <3> HIDE DEF l
    <3>4. CASE l = "failed"
        BY <1>2, <2>1, <3>1, <3>2, <3>3, <3>4 DEF Phases, Starting, Ending, ErrorLabels
    <3>5. CASE l \in ErrorLabels
      <4>1. l \notin {"i_acquire", "i_spawn", "i_wake", "i_join", "failed", "freed", "d_join", "d_free",
                      "d_unpause", "d_wake_pq", "d_wake_pause"}
          BY <3>5 DEF ErrorLabels
      <4> QED
          BY <1>2, <2>1, <2>2, <2>6, <3>1, <3>2, <3>5, <4>1 DEF Phases, Ending
    <3> QED
        BY <3>1, <3>4, <3>5
  <2> QED
      BY <1>4, <2>3, <2>4, <2>5, <2>6, ResourceFacts DEF InitAcquire
<1>5. CASE InitSpawn
  <2>1. pc[Owner] = "i_spawn" /\ held' = AllResources
      BY <1>5 DEF InitSpawn, Phases, ErrorLabels
  <2>2. /\ \A c \in Callers \ {Owner} : pc'[c] = "idle"
        /\ \/ pc'[Owner] \in {"idle", "i_spawn"} /\ shutdown' = shutdown
           \/ pc'[Owner] = "i_wake" /\ shutdown'
      BY <1>0, <1>3, <1>5 DEF InitSpawn
  <2>3. ~shutdown
      BY <2>1 DEF Phases
  <2> QED
      BY <1>2, <2>1, <2>2, <2>3 DEF Phases, Starting, Ending, ErrorLabels
<1>6. CASE InitWakeAll
  <2>1. /\ pc[Owner] = "i_wake" /\ pc'[Owner] = "i_join" /\ UNCHANGED <<held, shutdown>>
        /\ \A c \in Callers \ {Owner} : pc'[c] = "idle"
      BY <1>0, <1>3, <1>6 DEF InitWakeAll
  <2>2. held' = AllResources /\ shutdown'
      BY <2>1 DEF Phases, ErrorLabels
  <2> QED
      BY <1>2, <2>1, <2>2 DEF Phases, Starting, Ending, ErrorLabels
<1>7. CASE InitJoin
  <2>1. /\ pc[Owner] = "i_join" /\ pc'[Owner] = "err_workers" /\ UNCHANGED <<held, shutdown>>
        /\ \A c \in Callers \ {Owner} : pc'[c] = "idle"
      BY <1>0, <1>3, <1>7 DEF InitJoin
  <2>2. held' = FirstOf(Depth["err_workers"]) /\ shutdown'
      BY <2>1, ResourceFacts DEF Phases, Depth, ErrorLabels
  <2>3. \A w \in Workers : wpc'[w] = "none"
      BY <1>7 DEF InitJoin
  <2> QED
      BY <1>2, <2>1, <2>2, <2>3 DEF Phases, Starting, Ending, ErrorLabels
<1>8. CASE InitRelease
  <2> DEFINE l == pc[Owner]
             m == FallsTo[l]
  <2>1. /\ l \in ErrorLabels /\ shutdown' = shutdown /\ held' = held \ Destroys[l]
        /\ pc'[Owner] = m /\ \A c \in Callers \ {Owner} : pc'[c] = "idle"
        /\ \A w \in Workers : wpc'[w] = "none"
      BY <1>0, <1>3, <1>8 DEF InitRelease, Phases
  <2>2. m \in ErrorLabels \cup {"failed"} /\ Depth[m] \in 0 .. 10 /\ Depth[m] < 10
    <3>1. Depth["failed"] = 0
        BY DEF Depth
    <3> QED
        BY <2>1, <3>1, LabelFacts
  <2>3. held' = FirstOf(Depth[m])
      BY <2>1, UnwindFacts DEF Phases
  <2>4. shutdown => m # "i_acquire"
      BY <2>2 DEF ErrorLabels
  <2> HIDE DEF m
  <2>5. CASE m = "failed"
    <3>1. held' = {}
        BY <2>3, <2>5, FirstFacts DEF Depth
    <3> QED
        BY <1>2, <2>1, <2>5, <3>1 DEF Phases, Starting, Ending, ErrorLabels
  <2>6. CASE m \in ErrorLabels
    <3>1. m \notin {"i_acquire", "i_spawn", "i_wake", "i_join", "failed", "freed", "d_join", "d_free",
                    "d_unpause", "d_wake_pq", "d_wake_pause", "idle", "p_wake", "r_wake", "e_lock",
                    "e_create", "e_undo"}
        BY <2>6 DEF ErrorLabels
    <3> QED
        BY <1>2, <2>1, <2>2, <2>3, <2>6, <3>1 DEF Phases, Ending
  <2> QED
      BY <2>2, <2>5, <2>6
<1> QED
    BY <1>4, <1>5, <1>6, <1>7, <1>8 DEF InitStep

LEMMA PhaseDestroy ==
    ASSUME IInv, ~overlap, Phases, DestroyCall \/ DestroyJoin \/ DestroyFree
    PROVE  Phases'
<1>t. pc \in [Callers -> CallerPC] /\ Owner \in Callers
    BY LifecycleAssumption DEF IInv, Types
<1>0. ASSUME NEW from, NEW to, Go(Owner, from, to)
      PROVE  /\ pc[Owner] = from /\ pc'[Owner] = to
             /\ \A c \in Callers \ {Owner} : pc'[c] = pc[c]
    BY <1>t, <1>0 DEF Go
<1>1. CASE DestroyCall
  <2>1. /\ pc'[Owner] = "d_unpause" /\ shutdown' /\ held' = AllResources
        /\ \A c \in Callers \ {Owner} : pc'[c] = "idle"
      BY <1>0, <1>1 DEF DestroyCall, Alive
  <2> QED
      BY <2>1 DEF Phases, Starting, Ending, ErrorLabels
<1>2. CASE DestroyJoin
  <2>1. /\ pc[Owner] = "d_join" /\ pc'[Owner] = "d_free"
        /\ \A c \in Callers \ {Owner} : pc'[c] = pc[c]
        /\ UNCHANGED <<held, apc, shutdown, aging_enable>>
        /\ \A w \in Workers : wpc'[w] = "none"
      BY <1>0, <1>2 DEF DestroyJoin
  <2>2. ~aging_enable' /\ Aging' = {} /\ held' = AllResources /\ shutdown'
      BY <2>1 DEF Phases, Ending, Aging, ErrorLabels
  <2>3. \A c \in Callers \ {Owner} : pc'[c] = "idle"
      BY <2>1, <2>2 DEF Phases
  <2> QED
      BY <2>1, <2>2, <2>3 DEF Phases, Starting, Ending, ErrorLabels
<1>3. CASE DestroyFree
  <2>1. /\ pc[Owner] = "d_free" /\ pc'[Owner] = "freed"
        /\ \A c \in Callers \ {Owner} : pc'[c] = pc[c]
        /\ UNCHANGED <<wpc, apc, shutdown, aging_enable>>
      BY <1>0, <1>3 DEF DestroyFree
  <2>2. ~aging_enable' /\ Aging' = {} /\ held = AllResources /\ shutdown'
      BY <2>1 DEF Phases, Ending, Aging, ErrorLabels
  <2>3. held' = {}
      BY <1>3, <2>2, ResourceFacts DEF DestroyFree
  <2>4. \A w \in Workers : wpc'[w] = "none"
      BY <2>1 DEF Phases
  <2>5. \A c \in Callers \ {Owner} : pc'[c] = "idle"
      BY <2>1, <2>2 DEF Phases
  <2> QED
      BY <2>1, <2>2, <2>3, <2>4, <2>5 DEF Phases, Starting, Ending, ErrorLabels
<1> QED
    BY <1>1, <1>2, <1>3

LEMMA NextLifeInv == IInv /\ LifeInv /\ [Next]_vars => LifeInv'
<1> SUFFICES ASSUME IInv, LifeInv, [Next]_vars, ~overlap' PROVE Phases'
    BY DEF LifeInv
<1>1. CASE Noted(Step)
  <2>1. ~overlap /\ Step /\ Phases
      BY <1>1 DEF Noted, LifeInv
  <2>2. IInv'
      BY NextIInv
  <2>3. CASE InitStep
      BY <2>1, <2>3, PhaseInit
  <2>4. CASE DestroyCall \/ DestroyStep
      BY <2>1, <2>2, <2>4, PhaseDestroy, PhaseOwnerCalls DEF DestroyStep
  <2>5. CASE \/ \E w \in Workers : WorkerStep(w) \/ WorkerSpurious(w)
             \/ \E a \in AgingThreads : AgingStep(a) \/ AgingSpurious(a)
      BY <2>1, <2>5, PhaseAside
  <2>6. ASSUME NEW c \in Callers, PauseCall(c) \/ ResumeCall(c) \/ AgingCall(c) \/ CallStep(c)
        PROVE  Phases'
    <3>1. CASE c = Owner
        BY <2>1, <2>2, <2>6, <3>1, PhaseOwnerCalls
    <3>2. CASE c # Owner
        BY <2>1, <2>6, <3>2, PhaseAside
    <3> QED
        BY <3>1, <3>2
  <2> QED
      BY <2>1, <2>3, <2>4, <2>5, <2>6 DEF Step
<1>2. CASE UNCHANGED vars
    BY <1>2 DEF vars, LifeInv, Phases, Aging
<1> QED
    BY <1>1, <1>2 DEF Next

(* While a worker or the aging thread is there everything thread_pool_init *)
(* acquires is there, the error labels of init destroy nothing that is not *)
(* there, and when init has failed, at whichever step, or destroy has      *)
(* returned, no thread and no resource is left.                            *)
THEOREM NothingLeaks == Spec => []NothingLeft
<1>1. Init => LifeInv
  <2> SUFFICES ASSUME Init PROVE Phases
      BY DEF LifeInv
  <2>1. pc[Owner] = "i_acquire" /\ \A c \in Callers \ {Owner} : pc[c] = "idle"
      BY LifecycleAssumption DEF Init
  <2>2. held = FirstOf(0) /\ 0 \in 0 .. 9
      BY FirstFacts DEF Init
  <2>3. Aging = {} /\ ~aging_enable /\ ~shutdown /\ \A w \in Workers : wpc[w] = "none"
      BY DEF Init, Aging
  <2> QED
      BY <2>1, <2>2, <2>3 DEF Phases, Starting, Ending, ErrorLabels
<1>2. Spec => Init /\ [][Next]_vars
    BY DEF Spec
<1>3. Spec => []LifeInv
    BY <1>1, <1>2, Inductive, NextLifeInv, PTL
<1>4. LifeInv => NothingLeft
  <2> SUFFICES ASSUME Phases, ~overlap PROVE NothingLeft
      BY DEF LifeInv, NothingLeft
  <2>1. pc[Owner] \in ErrorLabels => Destroys[pc[Owner]] \subseteq held
      BY UnwindFacts DEF Phases
  <2>2. Aging # {} \/ (\E w \in Workers : wpc[w] # "none") => held = AllResources
      BY DEF Phases, Starting, Ending, ErrorLabels
  <2>3. Over => held = {} /\ Aging = {} /\ \A w \in Workers : wpc[w] = "none"
      BY DEF Phases, Over, Starting, Ending, ErrorLabels
  <2> QED
      BY <2>1, <2>2, <2>3 DEF NothingLeft
<1> QED
    BY <1>3, <1>4, PTL
=============================================================================
