----------------------------- MODULE ServerProofs -----------------------------
(***************************************************************************)
(* What the two dashboards of DemoServer show, for any scenarios,          *)
(* connections, subscribers and monitor threads: the broadcaster announces *)
(* every change of the counters, and the terminal has one user at a time.  *)
(***************************************************************************)
EXTENDS ServerStateProofs

(* The provers a leaf is given to, in turn. *)
USE SMTT(10), Zenon, Z3T(20)

(* The variables ChangesAnnounced depends on. *)
Types ==
    /\ pc = [t \in Threads |-> pc[t]]
    /\ hpc = [c \in Conns |-> hpc[c]]
    /\ snap \in [{"bcast", "admin"} -> AnyPayload]
    /\ active \in Int /\ served \in Int
    /\ unseen \in BOOLEAN

(* The broadcaster is the last thread main creates. *)
StartPC == {"s_pool", "s_monitor", "s_key", "s_admin", "s_bcast"}
Starting == pc["main"] \in StartPC => pc["bcast"] = "off"

(* Nothing is announced or about to be. *)
Quiet == ~unseen /\ ~Announcing

(* What the broadcaster knows when it is quiet.  Before it has looked it   *)
(* knows what it has sent last; while it formats, what it has read so far; *)
(* between waking up and reading it knows nothing.                         *)
Shown ==
    IF last = None THEN active = 0 /\ served = 0
    ELSE last.active = active /\ last.served = served

Knows ==
    /\ pc["bcast"] \in {"off", "top", "wait", "asleep"} => Shown
    /\ pc["bcast"] \in {"s_served", "send"} => snap["bcast"].active = active
    /\ pc["bcast"] = "send" => snap["bcast"].served = served

IInv == Types /\ Starting /\ (Quiet => Knows)

-------------------------------------------------------------------------------
LEMMA InitIInv == Init => IInv
<1> SUFFICES ASSUME Init PROVE IInv
    OBVIOUS
<1>1. pc = [t \in Threads |-> IF t = "main" THEN "s_pool" ELSE "off"]
    BY DEF Init
<1>2. snap = [t \in {"bcast", "admin"} |-> NoStats] /\ NoStats \in AnyPayload
    BY DEF Init, NoStats, AnyPayload
<1>3. Types
  <2>1. hpc = [c \in Conns |-> "none"] /\ active = 0 /\ served = 0 /\ unseen = FALSE
      BY DEF Init
  <2>2. pc = [t \in Threads |-> pc[t]] /\ hpc = [c \in Conns |-> hpc[c]]
      BY <1>1, <2>1
  <2>3. snap \in [{"bcast", "admin"} -> AnyPayload]
      BY <1>2
  <2>4. active \in Int /\ served \in Int
      BY <2>1
  <2> QED
      BY <2>1, <2>2, <2>3, <2>4 DEF Types
<1>4. pc["bcast"] = "off" /\ Shown
    BY <1>1 DEF Init, Threads, Shown
<1> QED
    BY <1>3, <1>4 DEF IInv, Starting, Knows

(* A step after which something is announced, or about to be. *)
LEMMA LoudIInv ==
    ASSUME Types', Starting', ~Quiet'
    PROVE  IInv'
    BY DEF IInv

(* A step that leaves the broadcaster and the counters alone and announces *)
(* nothing.                                                                *)
LEMMA Frame ==
    ASSUME IInv, Types', Starting', Announcing => Announcing',
           UNCHANGED <<unseen, last, active, served>>,
           pc'["bcast"] = pc["bcast"], snap'["bcast"] = snap["bcast"]
    PROVE  IInv'
<1>1. Quiet' => Quiet
    BY DEF Quiet
<1>2. Knows => Knows'
    BY DEF Knows, Shown
<1> QED
    BY <1>1, <1>2 DEF IInv

(* A step of another thread: it may move main, but not into or out of an   *)
(* announcement.                                                           *)
Aside ==
    /\ UNCHANGED <<hpc, unseen, last, active, served>>
    /\ pc' = [t \in Threads |-> pc'[t]]
    /\ pc'["bcast"] = pc["bcast"]
    /\ pc["main"] \in {"submit", "notify"} => pc'["main"] \in {"submit", "notify"}
    /\ Starting'
    /\ snap' \in [{"bcast", "admin"} -> AnyPayload]
    /\ snap'["bcast"] = snap["bcast"]

LEMMA AsideIInv ==
    ASSUME IInv, Aside
    PROVE  IInv'
<1>1. Types'
    BY DEF IInv, Types, Aside
<1>2. Announcing => Announcing'
    BY DEF Announcing, Aside
<1> QED
    BY <1>1, <1>2, Frame DEF Aside

(* Steps that leave the snapshots alone. *)
LEMMA GoAside ==
    ASSUME IInv, NEW t \in Threads \ {"bcast"}, NEW from, NEW to, Go(t, from, to),
           UNCHANGED <<connVars, bcastVars, snap>>,
           t = "main" => /\ from \notin {"submit", "notify"}
                         /\ to \in StartPC => from \in StartPC
    PROVE  IInv'
<1>1. pc = [u \in Threads |-> pc[u]] /\ snap \in [{"bcast", "admin"} -> AnyPayload] /\ Starting
    BY DEF IInv, Types
<1>2. pc[t] = from /\ pc' = [pc EXCEPT ![t] = to]
    BY DEF Go
<1>3. pc' = [u \in Threads |-> pc'[u]] /\ pc'[t] = to /\ \A u \in Threads \ {t} : pc'[u] = pc[u]
    BY <1>1, <1>2
<1>4. "bcast" \in Threads /\ "main" \in Threads
    BY DEF Threads
<1>5. pc'["bcast"] = pc["bcast"] /\ Starting'
    BY <1>1, <1>2, <1>3, <1>4 DEF Starting
<1>6. pc["main"] \in {"submit", "notify"} => pc'["main"] \in {"submit", "notify"}
    BY <1>2, <1>3, <1>4
<1> QED
    BY <1>1, <1>3, <1>5, <1>6, AsideIInv DEF Aside, connVars, bcastVars

(* notify_event *)
LEMMA NotifyIInv ==
    ASSUME IInv, NEW p, NotifyEvent(p), p = [t \in Threads |-> p[t]], p["bcast"] = pc["bcast"],
           p["main"] \in StartPC => pc["main"] \in StartPC,
           hpc' = [c \in Conns |-> hpc'[c]], UNCHANGED <<active, served, snap>>
    PROVE  IInv'
<1>1. unseen' = TRUE /\ pc' = Woken(p)
    BY DEF NotifyEvent
<1>2. "bcast" \in Threads /\ "main" \in Threads
    BY DEF Threads
<1>3. pc' = [t \in Threads |-> pc'[t]] /\ pc'["main"] = p["main"]
    BY <1>1, <1>2 DEF Woken
<1>4. pc["bcast"] = "off" => pc'["bcast"] = "off"
    BY <1>1, <1>2 DEF Woken
<1>5. Starting'
    BY <1>3, <1>4 DEF IInv, Starting
<1>6. Types'
  <2>1. active' \in Int /\ served' \in Int /\ snap' \in [{"bcast", "admin"} -> AnyPayload]
      BY DEF IInv, Types
  <2> QED
      BY <1>1, <1>3, <2>1 DEF Types
<1> QED
    BY <1>1, <1>5, <1>6, LoudIInv DEF Quiet

-------------------------------------------------------------------------------
(* main *)

LEMMA StartIInv ==
    ASSUME IInv, pc["main"] \in StartPC, pc' = [u \in Threads |-> pc'[u]],
           pc'["main"] \in StartPC, pc'["bcast"] = pc["bcast"],
           UNCHANGED <<connVars, bcastVars, snap>>
    PROVE  IInv'
<1>1. snap \in [{"bcast", "admin"} -> AnyPayload] /\ Starting
    BY DEF IInv, Types
<1>2. Starting' /\ pc["main"] \notin {"submit", "notify"}
    BY <1>1 DEF Starting, StartPC
<1> QED
    BY <1>1, <1>2, AsideIInv DEF Aside, connVars, bcastVars

(* The broadcaster is created: it has sent nothing yet. *)
LEMMA StartBroadcasterIInv ==
    ASSUME IInv, MainStart("bcast", "s_bcast", "loop", IF scen.bcast THEN "top" ELSE "off")
    PROVE  IInv'
<1>1. pc = [u \in Threads |-> pc[u]] /\ pc["main"] = "s_bcast" /\ pc["bcast"] = "off"
    BY DEF IInv, Types, MainStart, Starting, StartPC
<1>2. UNCHANGED <<hpc, unseen, last, active, served, snap>>
    BY DEF MainStart, data, connVars, bcastVars, adminVars
<1>3. /\ pc' = [u \in Threads |-> pc'[u]]
      /\ pc'["main"] = "loop" /\ pc'["bcast"] \in {"off", "top"}
    BY <1>1 DEF MainStart, Threads
<1>4. Types'
    BY <1>2, <1>3 DEF IInv, Types
<1>5. Starting'
    BY <1>3 DEF Starting, StartPC
<1>6. Quiet' => Quiet
    BY <1>1, <1>2, <1>3 DEF Quiet, Announcing
<1>7. Knows => Knows'
    BY <1>1, <1>2, <1>3 DEF Knows, Shown
<1> QED
    BY <1>4, <1>5, <1>6, <1>7 DEF IInv

(* Starting and shutting down, without the broadcaster. *)
LEMMA MainSetupIInv ==
    ASSUME IInv,
           \/ MainInitPool \/ MainStartMonitor \/ MainStartAdmin
           \/ MainStart("key", "s_key", "s_admin", "top")
           \/ MainStart("key", "s_key", "s_admin", "off")
    PROVE  IInv'
<1>1. CASE MainInitPool
    BY <1>1, GoAside DEF MainInitPool, Threads, StartPC, adminVars
<1>2. CASE MainStartMonitor
    BY <1>2, GoAside DEF MainStartMonitor, Threads, StartPC, adminVars
<1>t. pc = [u \in Threads |-> pc[u]]
    BY DEF IInv, Types
<1>3. CASE MainStartAdmin
  <2>1. pc["main"] = "s_admin" /\ UNCHANGED <<connVars, bcastVars, snap>>
      BY <1>3 DEF MainStartAdmin, adminVars
  <2>2. /\ pc' = [u \in Threads |-> pc'[u]]
        /\ pc'["main"] = "s_bcast" /\ pc'["bcast"] = pc["bcast"]
      BY <1>3, <1>t DEF MainStartAdmin, Threads
  <2> QED
      BY <2>1, <2>2, StartIInv DEF StartPC
<1>4. ASSUME NEW first, MainStart("key", "s_key", "s_admin", first)
      PROVE  IInv'
  <2>1. pc["main"] = "s_key" /\ UNCHANGED <<connVars, bcastVars, snap>>
      BY <1>4 DEF MainStart, data, adminVars
  <2>2. /\ pc' = [u \in Threads |-> pc'[u]]
        /\ pc'["main"] = "s_admin" /\ pc'["bcast"] = pc["bcast"]
      BY <1>4, <1>t DEF MainStart, Threads
  <2> QED
      BY <2>1, <2>2, StartIInv DEF StartPC
<1> QED
    BY <1>1, <1>2, <1>3, <1>4

(* The steps of main that are a Go and nothing the broadcaster reads. *)
MainElse ==
    \/ MainLoop \/ MainAcceptFails \/ MainClose \/ MainJoin("admin", "join_admin", "join_key")
    \/ MainJoin("key", "join_key", "wake") \/ MainJoin("bcast", "join_bcast", "sse_close")
    \/ MainCloseSse \/ MainIfAttached \/ MainDetach
    \/ MainMonitor("detach_join", "unpause", MonitorJoin)
    \/ MainMonitor("unpause", "drain", DestroyUnpause) \/ MainDrain
    \/ MainMonitor("stop", "stop_join", MonitorClear)
    \/ MainMonitor("stop_join", "exit", MonitorJoin)

LEMMA MainElseIInv ==
    ASSUME IInv, MainElse
    PROVE  IInv'
<1>1. UNCHANGED <<connVars, bcastVars, snap>>
    BY DEF MainElse, MainLoop, MainAcceptFails, MainClose, MainJoin, MainCloseSse,
           MainIfAttached, MainDetach, MainMonitor, MainDrain, data, adminVars
<1>2. \E from, to : /\ Go("main", from, to)
                    /\ from \notin {"submit", "notify"} /\ to \notin StartPC
  <2> USE DEF StartPC
  <2>1. CASE MainLoop
      BY <2>1 DEF MainLoop
  <2>2. CASE MainAcceptFails
      BY <2>2 DEF MainAcceptFails
  <2>3. CASE MainClose
      BY <2>3 DEF MainClose
  <2>5. CASE MainCloseSse
      BY <2>5 DEF MainCloseSse
  <2>6. CASE MainIfAttached
      BY <2>6 DEF MainIfAttached
  <2>7. CASE MainDetach
      BY <2>7 DEF MainDetach
  <2>8. CASE \/ MainMonitor("detach_join", "unpause", MonitorJoin)
             \/ MainMonitor("unpause", "drain", DestroyUnpause)
             \/ MainMonitor("stop", "stop_join", MonitorClear)
             \/ MainMonitor("stop_join", "exit", MonitorJoin)
      BY <2>8 DEF MainMonitor
  <2>9. CASE MainDrain
      BY <2>9 DEF MainDrain
  <2>4. CASE \/ MainJoin("admin", "join_admin", "join_key")
              \/ MainJoin("key", "join_key", "wake")
              \/ MainJoin("bcast", "join_bcast", "sse_close")
      BY <2>4 DEF MainJoin
  <2> QED
      BY <2>1, <2>2, <2>3, <2>5, <2>6, <2>7, <2>8, <2>9, <2>4 DEF MainElse
<1> QED
    BY <1>1, <1>2, GoAside DEF Threads

LEMMA MainAcceptIInv ==
    ASSUME IInv, MainAccept
    PROVE  IInv'
<1>1. /\ pc = [u \in Threads |-> pc[u]] /\ hpc = [d \in Conns |-> hpc[d]]
      /\ active \in Int /\ served \in Int /\ unseen \in BOOLEAN
      /\ snap \in [{"bcast", "admin"} -> AnyPayload]
    BY DEF IInv, Types
<1>2. UNCHANGED <<served, unseen, last, snap>>
    BY DEF MainAccept, bcastVars, adminVars
<1>3. PICK c \in scen.conns :
          /\ hpc[c] = "none"
          /\ \/ Go("main", "accept", "submit") /\ active' = active + 1
                /\ hpc' = [hpc EXCEPT ![c] = "accepted"]
             \/ Go("main", "accept", "loop") /\ active' = active
                /\ hpc' = [hpc EXCEPT ![c] = "done"]
    BY DEF MainAccept
<1>4. pc["main"] = "accept" /\ \E to \in {"submit", "loop"} : pc' = [pc EXCEPT !["main"] = to]
    BY <1>3 DEF Go
<1>5. /\ pc' = [u \in Threads |-> pc'[u]] /\ pc'["bcast"] = pc["bcast"]
      /\ pc'["main"] \in {"submit", "loop"}
    BY <1>1, <1>4 DEF Threads
<1>6. Starting'
    BY <1>5 DEF Starting, StartPC
<1>7. hpc' = [d \in Conns |-> hpc'[d]] /\ active' \in Int
    BY <1>1, <1>3
<1>8. Types'
    BY <1>1, <1>2, <1>5, <1>7 DEF Types
<1>9. CASE pc'["main"] = "submit"
    BY <1>6, <1>8, <1>9, LoudIInv DEF Quiet, Announcing
<1>10. CASE pc'["main"] = "loop"
  <2>1. active' = active /\ hpc' = [hpc EXCEPT ![c] = "done"]
      BY <1>1, <1>3, <1>10 DEF Go, Threads
  <2>2. \A d \in Conns : hpc[d] \in {"count", "notify_log", "notify_end"} => hpc'[d] = hpc[d]
      BY <1>1, <1>3, <2>1
  <2>3. Announcing => Announcing'
      BY <1>4, <2>2 DEF Announcing
  <2> QED
      BY <1>2, <1>5, <1>6, <1>8, <2>1, <2>3, Frame
<1> QED
    BY <1>5, <1>9, <1>10

LEMMA MainSubmitIInv ==
    ASSUME IInv, MainSubmit
    PROVE  IInv'
<1>1. /\ pc = [u \in Threads |-> pc[u]] /\ hpc = [d \in Conns |-> hpc[d]]
      /\ active \in Int /\ served \in Int /\ unseen \in BOOLEAN
      /\ snap \in [{"bcast", "admin"} -> AnyPayload]
    BY DEF IInv, Types
<1>2. UNCHANGED <<served, unseen, snap>> /\ Go("main", "submit", "notify")
    BY DEF MainSubmit, bcastVars, adminVars
<1>3. hpc' = [d \in Conns |-> hpc'[d]] /\ active' \in Int
    BY <1>1 DEF MainSubmit
<1>4. pc' = [u \in Threads |-> pc'[u]] /\ pc'["main"] = "notify"
    BY <1>1, <1>2 DEF Go, Threads
<1>5. Types'
    BY <1>1, <1>2, <1>3, <1>4 DEF Types
<1> QED
    BY <1>4, <1>5, LoudIInv DEF Quiet, Announcing, Starting, StartPC

LEMMA MainNotifyIInv ==
    ASSUME IInv, MainNotify \/ MainWakeBroadcaster
    PROVE  IInv'
<1>1. /\ pc = [u \in Threads |-> pc[u]] /\ hpc = [d \in Conns |-> hpc[d]]
    BY DEF IInv, Types
<1>2. UNCHANGED <<hpc, active, served, last, snap>>
    BY DEF MainNotify, MainWakeBroadcaster, connVars, adminVars
<1>3. ASSUME NEW to \in {"loop", "join_bcast"}, NotifyEvent([pc EXCEPT !["main"] = to])
      PROVE  IInv'
  <2> DEFINE p == [pc EXCEPT !["main"] = to]
  <2>1. p = [u \in Threads |-> p[u]] /\ p["bcast"] = pc["bcast"] /\ p["main"] \notin StartPC
      BY <1>1 DEF Threads, StartPC
  <2>2. NotifyEvent(p)
      BY <1>3
  <2> HIDE DEF p
  <2> QED
      BY <1>1, <1>2, <2>1, <2>2, NotifyIInv
<1>4. CASE Go("main", "wake", "join_bcast") /\ unseen' = unseen
  <2>1. /\ pc' = [u \in Threads |-> pc'[u]] /\ pc'["bcast"] = pc["bcast"]
        /\ pc["main"] = "wake" /\ pc'["main"] = "join_bcast"
      BY <1>1, <1>4 DEF Go, Threads
  <2>2. Types' /\ Starting'
      BY <1>2, <1>4, <2>1 DEF IInv, Types, Starting, StartPC
  <2>3. Announcing => Announcing'
      BY <1>2, <2>1 DEF Announcing
  <2> QED
      BY <1>2, <1>4, <2>1, <2>2, <2>3, Frame
<1> QED
    BY <1>3, <1>4 DEF MainNotify, MainWakeBroadcaster, Go

LEMMA MainSignalIInv ==
    ASSUME IInv, MainSignal
    PROVE  IInv'
<1>1. UNCHANGED <<connVars, bcastVars, snap>>
    BY DEF MainSignal, adminVars
<1>2. CASE Go("main", "accept", "loop")
    BY <1>1, <1>2, GoAside DEF Threads, StartPC
<1>3. CASE pc' = pc
  <2>1. Types' /\ Starting'
      BY <1>1, <1>3 DEF IInv, Types, Starting, connVars, bcastVars
  <2>2. Announcing' = Announcing
      BY <1>1, <1>3 DEF Announcing, connVars
  <2> QED
      BY <1>1, <1>3, <2>1, <2>2, Frame DEF connVars, bcastVars
<1> QED
    BY <1>2, <1>3 DEF MainSignal

LEMMA MainIInv ==
    ASSUME IInv, MainStep
    PROVE  IInv'
    BY MainSetupIInv, StartBroadcasterIInv, MainElseIInv, MainSubmitIInv, MainNotifyIInv,
       MainSignalIInv DEF MainStep, MainElse

-------------------------------------------------------------------------------
(* The handlers *)

LEMMA HandlerAside ==
    ASSUME IInv, NEW c, NEW from, NEW to, Handler(c, from, to),
           from \notin {"count", "notify_log", "notify_end"},
           UNCHANGED <<pc, unseen, last, active, served, snap>>
    PROVE  IInv'
<1>1. hpc = [d \in Conns |-> hpc[d]] /\ hpc[c] = from /\ hpc' = [hpc EXCEPT ![c] = to]
    BY DEF IInv, Types, Handler
<1>2. /\ hpc' = [d \in Conns |-> hpc'[d]]
      /\ \A d \in Conns : hpc[d] \in {"count", "notify_log", "notify_end"} => hpc'[d] = hpc[d]
    BY <1>1
<1>3. Types' /\ Starting'
    BY <1>2 DEF IInv, Types, Starting
<1>4. Announcing => Announcing'
    BY <1>2 DEF Announcing
<1> QED
    BY <1>3, <1>4, Frame

(* A handler that has changed a counter and will announce it. *)
LEMMA HandlerLoud ==
    ASSUME IInv, NEW c \in Conns, NEW from, NEW to \in {"count", "notify_log", "notify_end"},
           Handler(c, from, to), active' \in Int, served' \in Int, UNCHANGED <<pc, unseen, snap>>
    PROVE  IInv'
<1>1. hpc = [d \in Conns |-> hpc[d]] /\ hpc' = [hpc EXCEPT ![c] = to]
    BY DEF IInv, Types, Handler
<1>2. hpc' = [d \in Conns |-> hpc'[d]] /\ hpc'[c] = to
    BY <1>1
<1>3. Types' /\ Starting'
    BY <1>2 DEF IInv, Types, Starting
<1> QED
    BY <1>2, <1>3, LoudIInv DEF Quiet, Announcing

LEMMA HandlerIInv ==
    ASSUME IInv, NEW c \in Conns, HandlerStep(c)
    PROVE  IInv'
<1>t. active \in Int /\ served \in Int /\ pc = [u \in Threads |-> pc[u]]
      /\ hpc = [d \in Conns |-> hpc[d]]
    BY DEF IInv, Types
<1>1. CASE HandlerNotify(c)
  <2>1. NotifyEvent(pc) /\ UNCHANGED <<active, served, snap>>
      BY <1>1 DEF HandlerNotify, adminVars
  <2>2. hpc' = [d \in Conns |-> hpc'[d]]
      BY <1>1, <1>t DEF HandlerNotify, Handler
  <2> QED
      BY <1>t, <2>1, <2>2, NotifyIInv
<1>2. CASE HandlerRecv(c)
  <2>1. active' \in Int /\ served' \in Int /\ UNCHANGED <<pc, unseen, snap>>
      BY <1>2, <1>t DEF HandlerRecv, bcastVars, adminVars
  <2>2. \E to \in {"count", "notify_log", "notify_end"} : Handler(c, "recv", to)
      BY <1>2 DEF HandlerRecv
  <2> QED
      BY <2>1, <2>2, HandlerLoud
<1>3. CASE HandlerCount(c)
  <2>1. active' \in Int /\ served' \in Int /\ UNCHANGED <<pc, unseen, snap>>
      BY <1>3, <1>t DEF HandlerCount, bcastVars, adminVars
  <2>2. Handler(c, "count", "notify_log")
      BY <1>3 DEF HandlerCount
  <2> QED
      BY <2>1, <2>2, HandlerLoud
<1>4. CASE HandlerLog(c) \/ HandlerPrint(c) \/ HandlerReturn(c)
  <2>1. UNCHANGED <<pc, unseen, last, active, served, snap>>
      BY <1>4 DEF HandlerLog, HandlerPrint, HandlerReturn, bcastVars, adminVars
  <2>2. \E to : \E from \in {"log", "lock", "puts", "finish", "dec"} : Handler(c, from, to)
      BY <1>4 DEF HandlerLog, HandlerPrint, HandlerReturn
  <2> QED
      BY <2>1, <2>2, HandlerAside
<1> QED
    BY <1>1, <1>2, <1>3, <1>4 DEF HandlerStep

LEMMA TaskStartIInv ==
    ASSUME IInv, TaskStart
    PROVE  IInv'
<1>1. UNCHANGED <<pc, unseen, last, active, served, snap>>
    BY DEF TaskStart, bcastVars, adminVars
<1>2. Handler(Head(queue), "queued", "started")
    BY DEF TaskStart
<1> QED
    BY <1>1, <1>2, HandlerAside

-------------------------------------------------------------------------------
(* The statistics *)

LEMMA GaugeTypes == NumWorking \in Int /\ InSystem \in Int
<1>1. ASSUME NEW S \in SUBSET Conns
      PROVE  Cardinality(S) \in Int
    BY ServerAssumption, FS_Subset, FS_CardinalityType
<1> QED
    BY <1>1 DEF NumWorking, InSystem

LEMMA SnapshotTypes ==
    ASSUME IInv, NEW t \in {"bcast", "admin"}, NEW next, Snapshot(t, next)
    PROVE  /\ snap' \in [{"bcast", "admin"} -> AnyPayload]
           /\ \A u \in {"bcast", "admin"} \ {t} : snap'[u] = snap[u]
           /\ UNCHANGED <<hpc, unseen, last, active, served>>
<1>1. /\ snap \in [{"bcast", "admin"} -> [busy : Int, total : Int, depth : Int, active : Int, served : Int]]
      /\ active \in Int /\ served \in Int
    BY DEF IInv, Types, AnyPayload
<1>2. NumWorking \in Int /\ Monus(snap[t].total, NumWorking) \in Int /\ InSystem \in Int
    BY <1>1, GaugeTypes DEF Monus
<1>3. UNCHANGED <<hpc, unseen, last, active, served>>
    BY DEF Snapshot, connVars, bcastVars
<1>4. \/ snap' = [snap EXCEPT ![t].busy = NumWorking]
      \/ snap' = [snap EXCEPT ![t].total = InSystem]
      \/ snap' = [snap EXCEPT ![t].depth = Monus(snap[t].total, NumWorking), ![t].total = 0]
      \/ snap' = [snap EXCEPT ![t].active = active]
      \/ snap' = [snap EXCEPT ![t].served = served]
    BY DEF Snapshot
<1>5. \A u \in {"bcast", "admin"} \ {t} : snap'[u] = snap[u]
    BY <1>1, <1>4
<1>6. snap' \in [{"bcast", "admin"} -> AnyPayload]
    BY <1>1, <1>2, <1>4 DEF AnyPayload
<1> QED
    BY <1>3, <1>5, <1>6

-------------------------------------------------------------------------------
(* The broadcaster *)

(* A step of the broadcaster is judged by where it leads. *)
LEMMA BroadcastGo ==
    ASSUME IInv, NEW from, NEW to, Go("bcast", from, to), from # "off",
           snap' \in [{"bcast", "admin"} -> AnyPayload], unseen' \in BOOLEAN,
           UNCHANGED <<hpc, active, served>>, Quiet' => Knows'
    PROVE  IInv'
<1>1. pc = [u \in Threads |-> pc[u]] /\ hpc = [d \in Conns |-> hpc[d]] /\ Starting
      /\ active \in Int /\ served \in Int
    BY DEF IInv, Types
<1>2. pc["bcast"] = from /\ pc' = [pc EXCEPT !["bcast"] = to]
    BY DEF Go
<1>3. pc' = [u \in Threads |-> pc'[u]] /\ pc'["main"] = pc["main"]
    BY <1>1, <1>2 DEF Threads
<1>4. Types' /\ Starting'
    BY <1>1, <1>2, <1>3 DEF Types, Starting
<1> QED
    BY <1>4 DEF IInv

(* It moves, and neither what is quiet nor what it knows changes. *)
LEMMA BroadcastMove ==
    ASSUME IInv, NEW from, NEW to, Go("bcast", from, to), from # "off",
           UNCHANGED <<hpc, active, served, unseen, last, snap>>,
           \/ {from, to} \subseteq {"off", "top", "wait", "asleep"}
           \/ to \in {"exit", "check", "s_busy", "s_total", "s_depth", "s_active"}
    PROVE  IInv'
<1>1. pc = [u \in Threads |-> pc[u]] /\ snap \in [{"bcast", "admin"} -> AnyPayload]
      /\ unseen \in BOOLEAN /\ (Quiet => Knows)
    BY DEF IInv, Types
<1>2. pc["bcast"] = from /\ pc'["bcast"] = to /\ pc'["main"] = pc["main"]
    BY <1>1 DEF Go, Threads
<1>3. Quiet' => Quiet
    BY <1>2 DEF Quiet, Announcing
<1>4. Knows => Knows'
    BY <1>2 DEF Knows, Shown
<1> QED
    BY <1>1, <1>3, <1>4, BroadcastGo

LEMMA AwakeIInv ==
    ASSUME IInv, NEW from \in {"wait", "asleep"}, Awake(from)
    PROVE  IInv'
<1>1. Go("bcast", from, "check") /\ unseen' = FALSE /\ UNCHANGED <<hpc, active, served, snap>>
    BY DEF Awake, connVars, adminVars
<1>2. pc = [u \in Threads |-> pc[u]] /\ snap \in [{"bcast", "admin"} -> AnyPayload]
    BY DEF IInv, Types
<1>3. pc'["bcast"] = "check"
    BY <1>1, <1>2 DEF Go, Threads
<1>4. Knows'
    BY <1>3 DEF Knows
<1> QED
    BY <1>1, <1>2, <1>4, BroadcastGo

LEMMA BroadcastSnapshotIInv ==
    ASSUME IInv, Snapshot("bcast", "send")
    PROVE  IInv'
<1>1. /\ pc = [u \in Threads |-> pc[u]] /\ unseen \in BOOLEAN /\ (Quiet => Knows)
      /\ snap \in [{"bcast", "admin"} -> [busy : Int, total : Int, depth : Int, active : Int, served : Int]]
    BY DEF IInv, Types, AnyPayload
<1>2. /\ snap' \in [{"bcast", "admin"} -> AnyPayload]
      /\ UNCHANGED <<hpc, unseen, last, active, served>>
    BY SnapshotTypes
<1>3. ASSUME NEW from \in SnapPC, NEW to, Go("bcast", from, to)
      PROVE  /\ pc["bcast"] = from /\ pc'["bcast"] = to
             /\ Quiet' => Quiet
    BY <1>1, <1>2, <1>3 DEF Go, Threads, Quiet, Announcing
<1>4. ASSUME NEW from \in SnapPC, NEW to \in {"s_total", "s_depth", "s_active"}, Go("bcast", from, to)
      PROVE  IInv'
  <2>1. Knows'
      BY <1>3, <1>4 DEF Knows
  <2> QED
      BY <1>1, <1>2, <1>4, <2>1, BroadcastGo DEF SnapPC
<1>5. CASE Go("bcast", "s_active", "s_served") /\ snap' = [snap EXCEPT !["bcast"].active = active]
  <2>1. snap'["bcast"].active = active
      BY <1>1, <1>5
  <2>2. Knows'
      BY <1>2, <1>3, <1>5, <2>1 DEF Knows, SnapPC
  <2> QED
      BY <1>1, <1>2, <1>5, <2>2, BroadcastGo
<1>6. CASE Go("bcast", "s_served", "send") /\ snap' = [snap EXCEPT !["bcast"].served = served]
  <2>1. snap'["bcast"].served = served /\ snap'["bcast"].active = snap["bcast"].active
      BY <1>1, <1>6
  <2>2. Quiet' => snap["bcast"].active = active
      BY <1>1, <1>3, <1>6 DEF Knows, SnapPC
  <2>3. Quiet' => Knows'
      BY <1>2, <1>3, <1>6, <2>1, <2>2 DEF Knows, SnapPC
  <2> QED
      BY <1>1, <1>2, <1>6, <2>3, BroadcastGo
<1> QED
    BY <1>4, <1>5, <1>6 DEF Snapshot, SnapPC

LEMMA BroadcastSendIInv ==
    ASSUME IInv, BroadcastSend
    PROVE  IInv'
<1>1. /\ pc = [u \in Threads |-> pc[u]] /\ unseen \in BOOLEAN /\ (Quiet => Knows)
      /\ snap \in [{"bcast", "admin"} -> AnyPayload]
    BY DEF IInv, Types
<1>2. /\ last' = snap["bcast"] /\ snap' = [snap EXCEPT !["bcast"] = NoStats]
      /\ UNCHANGED <<hpc, unseen, active, served>>
    BY DEF BroadcastSend, connVars
<1>3. PICK to \in {"wait", "exit"} : Go("bcast", "send", to)
    BY DEF BroadcastSend
<1>4. /\ pc["bcast"] = "send" /\ pc'["bcast"] = to /\ pc'["main"] = pc["main"]
    BY <1>1, <1>3 DEF Go, Threads
<1>5. Quiet' => Quiet
    BY <1>2, <1>4 DEF Quiet, Announcing
<1>6. last' # None
    BY <1>1, <1>2, ServerAssumption
<1>7. Quiet' => Knows'
    BY <1>1, <1>2, <1>4, <1>5, <1>6 DEF Knows, Shown
<1>8. snap' \in [{"bcast", "admin"} -> AnyPayload]
    BY <1>1, <1>2 DEF NoStats, AnyPayload
<1> QED
    BY <1>1, <1>2, <1>3, <1>7, <1>8, BroadcastGo

LEMMA BroadcastIInv ==
    ASSUME IInv, BroadcastStep \/ BroadcastTimeout \/ BroadcastSpurious
    PROVE  IInv'
<1>1. CASE BroadcastTop \/ BroadcastCheck \/ BroadcastSpurious
  <2>1. UNCHANGED <<hpc, active, served, unseen, last, snap>>
      BY <1>1 DEF BroadcastTop, BroadcastCheck, BroadcastSpurious, data, connVars, bcastVars, adminVars
  <2> QED
      BY <1>1, <2>1, BroadcastMove DEF BroadcastTop, BroadcastCheck, BroadcastSpurious, SnapStart
<1>2. CASE BroadcastWait
  <2>1. CASE Go("bcast", "wait", "asleep") /\ UNCHANGED data
      BY <2>1, BroadcastMove DEF data, connVars, bcastVars, adminVars
  <2> QED
      BY <1>2, <2>1, AwakeIInv DEF BroadcastWait
<1>3. CASE BroadcastTimeout
    BY <1>3, AwakeIInv DEF BroadcastTimeout
<1> QED
    BY <1>1, <1>2, <1>3, BroadcastSnapshotIInv, BroadcastSendIInv DEF BroadcastStep

-------------------------------------------------------------------------------
(* The other threads *)

(* The admin listener moves and may change its own snapshot. *)
LEMMA AdminGo ==
    ASSUME IInv, NEW from, NEW to, Go("admin", from, to), UNCHANGED <<connVars, bcastVars>>,
           snap' \in [{"bcast", "admin"} -> AnyPayload], snap'["bcast"] = snap["bcast"]
    PROVE  IInv'
<1>1. pc = [u \in Threads |-> pc[u]] /\ Starting
    BY DEF IInv, Types
<1>2. /\ pc' = [u \in Threads |-> pc'[u]]
      /\ pc'["main"] = pc["main"] /\ pc'["bcast"] = pc["bcast"]
    BY <1>1 DEF Go, Threads
<1>3. Starting'
    BY <1>1, <1>2 DEF Starting
<1> QED
    BY <1>2, <1>3, AsideIInv DEF Aside, connVars, bcastVars

LEMMA AdminIInv ==
    ASSUME IInv, AdminStep
    PROVE  IInv'
<1>t. snap \in [{"bcast", "admin"} -> AnyPayload] /\ NoStats \in AnyPayload
    BY DEF IInv, Types, NoStats, AnyPayload
<1>e. /\ [snap EXCEPT !["admin"] = NoStats] \in [{"bcast", "admin"} -> AnyPayload]
      /\ [snap EXCEPT !["admin"] = NoStats]["bcast"] = snap["bcast"]
    BY <1>t
<1>c. ASSUME NEW from, AdminClose(from)
      PROVE  IInv'
    BY <1>c, <1>e, AdminGo DEF AdminClose
<1>1. CASE AdminTop \/ AdminTick \/ AdminAcceptFails
    BY <1>1, <1>t, AdminGo DEF AdminTop, AdminTick, AdminAcceptFails, data, adminVars
<1>2. CASE AdminAccept
    BY <1>2, <1>t, AdminGo DEF AdminAccept
<1>3. CASE AdminRecv
    BY <1>3, <1>c, <1>t, AdminGo DEF AdminRecv, data, adminVars
<1>4. CASE AdminFrame
    BY <1>4, <1>c, <1>e, AdminGo DEF AdminFrame
<1>5. CASE AdminRegister
    BY <1>5, <1>c, <1>t, AdminGo DEF AdminRegister
<1>6. CASE Snapshot("admin", "frame")
  <2>1. snap' \in [{"bcast", "admin"} -> AnyPayload] /\ snap'["bcast"] = snap["bcast"]
      BY <1>6, SnapshotTypes
  <2>2. UNCHANGED <<connVars, bcastVars>> /\ \E from, to : Go("admin", from, to)
      BY <1>6 DEF Snapshot
  <2> QED
      BY <2>1, <2>2, AdminGo
<1> QED
    BY <1>1, <1>2, <1>3, <1>4, <1>5, <1>6 DEF AdminStep, AdminRuns

LEMMA KeyIInv ==
    ASSUME IInv, KeyStep
    PROVE  IInv'
<1>1. UNCHANGED <<connVars, bcastVars, snap>>
    BY DEF KeyStep, KeyTop, KeyTest, KeyHint, KeyRead, KeyLock, KeyReattach, KeyKill, data,
           adminVars
<1>2. \E from, to : Go("key", from, to)
    BY DEF KeyStep, KeyTop, KeyTest, KeyHint, KeyRead, KeyLock, KeyReattach, KeyKill
<1> QED
    BY <1>1, <1>2, GoAside DEF Threads

(* Ctrl-C, a subscriber that hangs up, the monitor, and stuttering. *)
LEMMA StillIInv ==
    ASSUME IInv, UNCHANGED <<pc, connVars, bcastVars, snap>>
    PROVE  IInv'
<1>1. UNCHANGED <<pc, hpc, active, served, unseen, last, snap>>
    BY DEF connVars, bcastVars
<1>2. Types' /\ Starting' /\ Announcing' = Announcing
    BY <1>1 DEF IInv, Types, Starting, Announcing
<1> QED
    BY <1>1, <1>2, Frame

LEMMA NextIInv == IInv /\ [Next]_vars => IInv'
<1> SUFFICES ASSUME IInv, [Next]_vars PROVE IInv'
    OBVIOUS
<1>1. CASE Interrupt
    BY <1>1, StillIInv DEF Interrupt, adminVars
<1>2. CASE \E s \in Subs : HangUp(s)
    BY <1>2, StillIInv DEF HangUp, adminVars
<1>3. CASE \E m \in MonThreads : MonitorThread(m)
    BY <1>3, StillIInv DEF MonitorThread, adminVars
<1>4. CASE UNCHANGED vars
    BY <1>4, StillIInv DEF vars, data, adminVars
<1>5. CASE \E c \in Conns : HandlerStep(c)
    BY <1>5, HandlerIInv
<1> QED
    BY <1>1, <1>2, <1>3, <1>4, <1>5, MainIInv, MainAcceptIInv, TaskStartIInv, BroadcastIInv,
       AdminIInv, KeyIInv DEF Next

(* When nothing is announced, nor about to be, the broadcaster knows the   *)
(* counters of the server: what it has sent last before it looks, what it  *)
(* has read while it formats.                                              *)
THEOREM Inductive == Spec => []IInv
<1>1. Spec => Init /\ [][Next]_vars
    BY DEF Spec
<1> QED
    BY <1>1, InitIInv, NextIInv, PTL

(* The broadcaster never sleeps over a change of active_connections or     *)
(* total_served, for any number of connections, subscribers and workers.   *)
THEOREM BroadcastCorrect == Spec => []ChangesAnnounced
<1>1. IInv => ChangesAnnounced
    BY DEF IInv, Quiet, Knows, Shown, ChangesAnnounced
<1> QED
    BY <1>1, Inductive, PTL

-------------------------------------------------------------------------------
(* The terminal: tid is the only monitor thread there is; while main has   *)
(* not detached it, it draws and reads only when attached; the key         *)
(* listener looks at the keyboard only when it is not.                     *)

Using == {"init", "draw", "key"}
Looking == {"hint", "read", "lock", "reattach"}

MonType ==
    /\ mon \in [MonThreads -> MonPC]
    /\ attached \in BOOLEAN /\ ever_init \in BOOLEAN /\ tid_valid \in BOOLEAN
    /\ tid \in MonThreads \cup {NoThread} /\ paused \in BOOLEAN

OneMonitor ==
    /\ \A m \in MonThreads : mon[m] # "none" => tid_valid /\ tid = m
    /\ tid_valid => tid \in MonThreads

Terminal ==
    /\ MonType /\ OneMonitor
    /\ log_mtx \in Conns \cup {"key", None} /\ hinted \in BOOLEAN
    /\ pc["main"] \in {"s_pool", "s_monitor"} => ~attached /\ ~tid_valid
    /\ pc["main"] \notin Detached => \A m \in MonThreads : mon[m] \in Using => attached
    /\ pc["key"] \in Looking => ~attached
    /\ pc["key"] = "reattach" => log_mtx = "key"
    /\ \A c \in Conns : hpc[c] = "puts" => log_mtx = c /\ ~attached

LEMMA InitTerminal == Init => Terminal
<1> SUFFICES ASSUME Init PROVE Terminal
    OBVIOUS
<1>1. /\ mon = [m \in MonThreads |-> "none"] /\ attached = FALSE /\ ever_init = FALSE
      /\ tid = NoThread /\ tid_valid = FALSE /\ paused = FALSE
      /\ log_mtx = None /\ hinted = FALSE /\ hpc = [c \in Conns |-> "none"] /\ pc["key"] = "off"
    BY DEF Init, MonitorInit, Threads
<1>2. MonType /\ OneMonitor
    BY <1>1 DEF MonType, OneMonitor, MonPC
<1> QED
    BY <1>1, <1>2 DEF Terminal, Using, Looking

(* Nobody comes to the terminal. *)
LEMMA FrameTerminal ==
    ASSUME Terminal, Forward, UNCHANGED <<monVars, log_mtx>>, hinted' \in BOOLEAN,
           pc'["key"] \in Looking => pc["key"] \in Looking,
           pc'["key"] = "reattach" => pc["key"] = "reattach",
           \A c \in Conns : hpc'[c] = "puts" => hpc[c] = "puts"
    PROVE  Terminal'
<1>1. UNCHANGED <<mon, attached, ever_init, tid, tid_valid, paused, log_mtx>>
    BY DEF monVars
<1>2. MonType' /\ OneMonitor'
    BY <1>1 DEF Terminal, MonType, OneMonitor
<1> QED
    BY <1>1, <1>2 DEF Terminal, Forward

(* monitor_thread *)
LEMMA MonitorTerminal ==
    ASSUME Control, Terminal, NEW m \in MonThreads, MonitorThread(m)
    PROVE  Terminal'
<1>t. MonType /\ OneMonitor
    BY DEF Terminal
<1>f. UNCHANGED <<pc, hpc, log_mtx, hinted>>
    BY DEF MonitorThread, connVars, logVars
<1>g. ASSUME NEW from, NEW to \in MonPC, MonitorGo(m, from, to), from # "none"
      PROVE  /\ mon' \in [MonThreads -> MonPC] /\ mon[m] = from /\ mon'[m] = to
             /\ tid_valid /\ tid = m
             /\ \A n \in MonThreads \ {m} : mon[n] = "none" /\ mon'[n] = "none"
    BY <1>t, <1>g DEF MonitorGo, MonType, OneMonitor
<1>1. ASSUME NEW from, NEW to \in MonPC, MonitorGo(m, from, to), from # "none",
             to \in Using => from \in Using \/ attached,
             ever_init' \in BOOLEAN, UNCHANGED <<attached, tid, tid_valid, paused>>
      PROVE  Terminal'
  <2>1. MonType' /\ OneMonitor'
      BY <1>t, <1>1, <1>g DEF MonType, OneMonitor
  <2>2. pc["main"] \notin Detached => \A n \in MonThreads : mon'[n] \in Using => attached'
      BY <1>1, <1>g DEF Terminal, Using
  <2> QED
      BY <1>1, <1>f, <2>1, <2>2 DEF Terminal
<1>2. CASE MonitorEnter(m) \/ MonitorTest(m) \/ MonitorDraw(m) \/ MonitorLeave(m)
  <2>1. ever_init' \in BOOLEAN
      BY <1>t, <1>2 DEF MonType, MonitorEnter, MonitorTest, MonitorDraw, MonitorLeave
  <2>2. UNCHANGED <<attached, tid, tid_valid, paused>>
      BY <1>2 DEF MonitorEnter, MonitorTest, MonitorDraw, MonitorLeave
  <2>3. \E from, to \in MonPC : /\ MonitorGo(m, from, to) /\ from # "none"
                                /\ to \in Using => from \in Using \/ attached
      BY <1>2 DEF MonitorEnter, MonitorTest, MonitorDraw, MonitorLeave, MonPC, Using
  <2> QED
      BY <1>1, <2>1, <2>2, <2>3
<1>3. CASE MonitorKey(m)
  <2>1. MonitorGo(m, "key", "test") /\ UNCHANGED <<ever_init, tid, tid_valid>>
      BY <1>3 DEF MonitorKey
  <2>2. paused' \in BOOLEAN
      BY <1>t, <1>3 DEF MonType, MonitorKey
  <2>3. attached' = attached \/ attached' = FALSE
      BY <1>3 DEF MonitorKey
  <2>4. attached' \in BOOLEAN /\ (attached' => attached)
    <3>1. CASE attached' = attached
        BY <1>t, <3>1 DEF MonType
    <3>2. CASE attached' = FALSE
        BY <3>2
    <3> QED
        BY <2>3, <3>1, <3>2
  <2>5. /\ mon' \in [MonThreads -> MonPC] /\ mon'[m] = "test" /\ tid_valid /\ tid = m
        /\ \A n \in MonThreads \ {m} : mon'[n] = "none"
      BY <1>g, <2>1 DEF MonPC
  <2>6. MonType' /\ OneMonitor'
      BY <1>t, <2>1, <2>2, <2>4, <2>5 DEF MonType, OneMonitor
  <2>7. \A n \in MonThreads : mon'[n] \notin Using
      BY <2>5 DEF Using
  <2> QED
      BY <1>f, <2>1, <2>4, <2>6, <2>7 DEF Terminal
<1> QED
    BY <1>2, <1>3 DEF MonitorThread, MonitorStep

(* The calls: when there is no thread yet, or it has been joined, one is   *)
(* created at most.                                                        *)
LEMMA CreateOne ==
    ASSUME MonType, NEW ms \in [MonThreads -> MonPC], \A m \in MonThreads : ms[m] = "none",
           Create(ms, FALSE), UNCHANGED <<ever_init, paused>>
    PROVE  /\ MonType' /\ OneMonitor'
           /\ \A m \in MonThreads : mon'[m] \in Using => attached'
<1>1. CASE \E m \in MonThreads : /\ mon' = [ms EXCEPT ![m] = "init"] /\ tid' = m
                                 /\ tid_valid' = TRUE /\ attached' = TRUE
  <2>1. PICK m \in MonThreads : /\ mon' = [ms EXCEPT ![m] = "init"] /\ tid' = m
                                /\ tid_valid' = TRUE /\ attached' = TRUE
      BY <1>1
  <2>2. mon' \in [MonThreads -> MonPC] /\ \A n \in MonThreads \ {m} : mon'[n] = "none"
      BY <2>1 DEF MonPC
  <2> QED
      BY <2>1, <2>2 DEF MonType, OneMonitor
<1>2. CASE mon' = ms /\ attached' = FALSE /\ tid' = tid /\ tid_valid' = FALSE
    BY <1>2 DEF MonType, OneMonitor, Using
<1> QED
    BY <1>1, <1>2 DEF Create

LEMMA JoinedNone ==
    ASSUME MonType, OneMonitor
    PROVE  Joined \in [MonThreads -> MonPC] /\ \A m \in MonThreads : Joined[m] = "none"
<1>1. CASE tid_valid
    BY <1>1 DEF Joined, MonType, OneMonitor, MonPC
<1>2. CASE ~tid_valid
    BY <1>2 DEF Joined, MonType, OneMonitor
<1> QED
    BY <1>1, <1>2

LEMMA JoinTerminal ==
    ASSUME MonType, OneMonitor, MonitorJoin
    PROVE  MonType' /\ OneMonitor' /\ attached' = attached
<1>1. mon' = Joined /\ tid_valid' = FALSE /\ UNCHANGED <<attached, ever_init, tid, paused>>
    BY DEF MonitorJoin
<1> QED
    BY <1>1, JoinedNone DEF MonType, OneMonitor

(* key_listener *)
LEMMA KeyTerminal ==
    ASSUME Control, Terminal, Forward, KeyStep
    PROVE  Terminal'
<1>t. /\ MonType /\ OneMonitor /\ hinted \in BOOLEAN
      /\ None # "key" /\ None \notin Conns /\ "key" \notin Conns
    BY ServerAssumption DEF Terminal
<1>m. hpc' = hpc /\ pc'["main"] = pc["main"]
    BY KeyEffect DEF Moves, Threads, connVars
<1>g. ASSUME NEW from, NEW to, Go("key", from, to)
      PROVE  pc["key"] = from /\ pc'["key"] = to
    BY <1>g DEF Go, Control, Threads
<1>1. CASE KeyTop \/ KeyRead \/ KeyKill
  <2>1. UNCHANGED <<monVars, log_mtx, hinted>>
      BY <1>1 DEF KeyTop, KeyRead, KeyKill, data, logVars
  <2>2. /\ pc'["key"] \in Looking => pc["key"] \in Looking
        /\ pc'["key"] # "reattach"
      BY <1>1, <1>g DEF KeyTop, KeyRead, KeyKill, Looking
  <2> QED
      BY <1>t, <1>m, <2>1, <2>2, FrameTerminal
<1>2. CASE KeyTest
  <2>1. UNCHANGED <<mon, attached, ever_init, tid, tid_valid, paused, log_mtx>>
        /\ hinted' = (hinted /\ ~attached)
      BY <1>2 DEF KeyTest, monVars
  <2>2. pc'["key"] = (IF attached THEN "top" ELSE IF hinted THEN "read" ELSE "hint")
      BY <1>2, <1>g DEF KeyTest
  <2>3. (pc'["key"] \in Looking => ~attached) /\ pc'["key"] # "reattach"
      BY <2>2 DEF Looking
  <2>4. MonType' /\ OneMonitor'
      BY <1>t, <2>1 DEF MonType, OneMonitor
  <2>5. hinted' \in BOOLEAN
      BY <2>1
  <2> QED
      BY <1>m, <2>1, <2>3, <2>4, <2>5 DEF Terminal
<1>3. CASE KeyHint
  <2>1. UNCHANGED <<monVars, log_mtx>> /\ hinted' = TRUE
      BY <1>3 DEF KeyHint
  <2>2. pc["key"] \in Looking /\ pc'["key"] = "read"
      BY <1>3, <1>g DEF KeyHint, Looking
  <2> QED
      BY <1>m, <2>1, <2>2, FrameTerminal
<1>4. CASE KeyLock
  <2>1. /\ UNCHANGED <<mon, attached, ever_init, tid, tid_valid, paused, hinted>>
        /\ log_mtx = None /\ log_mtx' = "key"
      BY <1>4 DEF KeyLock, monVars
  <2>2. pc["key"] \in Looking /\ pc'["key"] = "reattach"
      BY <1>4, <1>g DEF KeyLock, Looking
  <2>3. \A c \in Conns : hpc[c] # "puts"
      BY <1>t, <2>1 DEF Terminal
  <2>4. MonType' /\ OneMonitor'
      BY <1>t, <2>1 DEF MonType, OneMonitor
  <2> QED
      BY <1>m, <2>1, <2>2, <2>3, <2>4 DEF Terminal
<1>5. CASE KeyReattach
  <2>1. MonitorReattach /\ log_mtx' = None /\ hinted' = hinted /\ UNCHANGED <<ever_init, paused>>
      BY <1>5 DEF KeyReattach, MonitorReattach
  <2>2. pc["key"] = "reattach" /\ pc'["key"] = "top"
      BY <1>5, <1>g DEF KeyReattach
  <2>3. /\ pc["key"] \in Looking /\ pc'["key"] \notin Looking /\ log_mtx = "key" /\ ~attached
      BY <2>2 DEF Terminal, Looking
  <2>4. \A c \in Conns : hpc[c] # "puts"
      BY <1>t, <2>3 DEF Terminal
  <2>5. pc["main"] \notin {"s_pool", "s_monitor"}
      BY <2>2 DEF Control, Order, BeforeKey
  <2>6. CASE UNCHANGED <<mon, attached, tid, tid_valid>>
    <3>1. MonType' /\ OneMonitor'
        BY <1>t, <2>1, <2>6 DEF MonType, OneMonitor
    <3> QED
        BY <1>m, <2>1, <2>2, <2>3, <2>4, <2>6, <3>1 DEF Terminal
  <2>7. CASE Create(Joined, FALSE)
    <3>1. /\ MonType' /\ OneMonitor'
          /\ \A m \in MonThreads : mon'[m] \in Using => attached'
        BY <1>t, <2>1, <2>7, JoinedNone, CreateOne
    <3> QED
        BY <1>m, <2>1, <2>2, <2>3, <2>4, <2>5, <3>1 DEF Terminal
  <2> QED
      BY <2>1, <2>6, <2>7 DEF MonitorReattach
<1> QED
    BY <1>1, <1>2, <1>3, <1>4, <1>5 DEF KeyStep

(* log_request *)
LEMMA PrintTerminal ==
    ASSUME Control, Connections, Terminal, Forward, NEW c \in Conns, HandlerPrint(c)
    PROVE  Terminal'
<1>t. /\ MonType /\ OneMonitor /\ hinted \in BOOLEAN /\ hpc \in [Conns -> HandlerPC]
      /\ None # "key" /\ None \notin Conns /\ "key" \notin Conns
    BY ServerAssumption DEF Terminal, Connections
<1>f. UNCHANGED <<pc, hinted, mon, attached, ever_init, tid, tid_valid, paused>>
    BY DEF HandlerPrint, monVars
<1>m. MonType' /\ OneMonitor'
    BY <1>t, <1>f DEF MonType, OneMonitor
<1>g. ASSUME NEW from, NEW to, Handler(c, from, to)
      PROVE  hpc[c] = from /\ hpc'[c] = to /\ \A d \in Conns \ {c} : hpc'[d] = hpc[d]
    BY <1>t, <1>g DEF Handler
<1>r. Return # "puts"
    BY DEF Return
<1>1. CASE log_mtx = None /\ Handler(c, "lock", Return) /\ log_mtx' = None
  <2>1. \A d \in Conns : hpc'[d] = "puts" => hpc[d] = "puts"
      BY <1>1, <1>g, <1>r
  <2> QED
      BY <1>1, <1>f, <1>t, <2>1, FrameTerminal DEF monVars
<1>2. CASE log_mtx = None /\ ~attached /\ Handler(c, "lock", "puts") /\ log_mtx' = c
  <2>1. pc["key"] # "reattach" /\ \A d \in Conns : hpc[d] # "puts"
      BY <1>2, <1>t DEF Terminal
  <2>2. \A d \in Conns : hpc'[d] = "puts" => d = c
      BY <1>2, <1>g, <2>1
  <2> QED
      BY <1>2, <1>f, <1>m, <1>t, <2>1, <2>2 DEF Terminal
<1>3. CASE Handler(c, "puts", Return) /\ log_mtx' = None
  <2>1. log_mtx = c
      BY <1>3, <1>g DEF Terminal
  <2>2. pc["key"] # "reattach" /\ \A d \in Conns \ {c} : hpc[d] # "puts"
      BY <1>t, <2>1 DEF Terminal
  <2>3. \A d \in Conns : hpc'[d] # "puts"
      BY <1>3, <1>g, <1>r, <2>2
  <2> QED
      BY <1>3, <1>f, <1>m, <1>t, <2>2, <2>3 DEF Terminal
<1> QED
    BY <1>1, <1>2, <1>3 DEF HandlerPrint

LEMMA HandlerTerminal ==
    ASSUME Control, Connections, Terminal, Forward, HandlerActs
    PROVE  Terminal'
<1>t. hpc \in [Conns -> HandlerPC] /\ hinted \in BOOLEAN /\ queue \in Seq(Conns)
    BY DEF Connections, Terminal
<1>e. UNCHANGED <<hinted, monVars>> /\ pc'["key"] = pc["key"]
    BY HandlerEffect DEF Wakes, Threads
<1>1. ASSUME NEW c \in Conns, NEW from, NEW to, Handler(c, from, to), to # "puts", log_mtx' = log_mtx
      PROVE  Terminal'
  <2>1. \A d \in Conns : hpc'[d] = "puts" => hpc[d] = "puts"
      BY <1>1, <1>t DEF Handler
  <2> QED
      BY <1>1, <1>e, <1>t, <2>1, FrameTerminal
<1>2. CASE TaskStart
  <2>1. Head(queue) \in Conns /\ log_mtx' = log_mtx /\ Handler(Head(queue), "queued", "started")
      BY <1>2, <1>t DEF TaskStart, logVars
  <2> QED
      BY <1>1, <2>1
<1>3. ASSUME NEW c \in Conns,
             HandlerNotify(c) \/ HandlerRecv(c) \/ HandlerCount(c) \/ HandlerLog(c) \/ HandlerReturn(c)
      PROVE  Terminal'
  <2>1. log_mtx' = log_mtx
      BY <1>3 DEF HandlerNotify, HandlerRecv, HandlerCount, HandlerLog, HandlerReturn, logVars
  <2>2. \E from, to : Handler(c, from, to) /\ to # "puts"
      BY <1>3 DEF HandlerNotify, HandlerRecv, HandlerCount, HandlerLog, HandlerReturn, Return
  <2> QED
      BY <1>1, <2>1, <2>2
<1> QED
    BY <1>2, <1>3, PrintTerminal DEF HandlerActs, HandlerStep

(* main *)
LEMMA MainTerminal ==
    ASSUME Control, Connections, Terminal, Forward, MainActs
    PROVE  Terminal'
<1>t. /\ MonType /\ OneMonitor /\ hinted \in BOOLEAN /\ hpc \in [Conns -> HandlerPC]
      /\ pc \in [Threads -> ThreadPC]
    BY DEF Terminal, Connections, Control
<1>l. UNCHANGED <<log_mtx, hinted>>
    BY MainEffect DEF logVars
<1>g. ASSUME NEW from, NEW to, Go("main", from, to)
      PROVE  pc["main"] = from /\ pc'["main"] = to /\ pc'["key"] = pc["key"]
    BY <1>t, <1>g DEF Go, Threads
<1>1. CASE MainStartMonitor
  <2>1. /\ pc["main"] = "s_monitor" /\ pc'["main"] = "s_key" /\ pc'["key"] = pc["key"]
        /\ MonitorStart /\ UNCHANGED <<ever_init, paused, hpc>>
      BY <1>1, <1>g DEF MainStartMonitor, MonitorStart, connVars
  <2>2. pc["key"] = "off" /\ \A c \in Conns : hpc[c] = "none"
      BY <2>1 DEF Control, Order, Connections, Stages, BeforeBcast, BeforeAdmin, BeforeKey
  <2>3. attached = FALSE /\ tid_valid = FALSE
      BY <1>t, <2>1 DEF Terminal, MonType
  <2>4. mon \in [MonThreads -> MonPC] /\ \A m \in MonThreads : mon[m] = "none"
      BY <1>t, <2>3 DEF MonType, OneMonitor
  <2>5. Create(mon, FALSE)
      BY <2>1, <2>3 DEF MonitorStart
  <2>6. MonType' /\ OneMonitor' /\ \A m \in MonThreads : mon'[m] \in Using => attached'
      BY <1>t, <2>1, <2>4, <2>5, CreateOne
  <2> QED
      BY <1>l, <2>1, <2>2, <2>6 DEF Terminal, Looking
<1>2. ASSUME NEW from, NEW to \in Detached, Go("main", from, to), hpc' = hpc,
             MonitorJoin \/ MonitorClear \/ DestroyUnpause
      PROVE  Terminal'
  <2>1. pc'["main"] \in Detached /\ pc'["main"] \notin {"s_pool", "s_monitor"}
        /\ pc'["key"] = pc["key"]
      BY <1>2, <1>g DEF Detached
  <2>2. MonType' /\ OneMonitor' /\ (attached' = attached \/ attached' = FALSE)
    <3>1. CASE MonitorJoin
        BY <1>t, <3>1, JoinTerminal
    <3>2. CASE MonitorClear
        BY <1>t, <3>2 DEF MonitorClear, MonType, OneMonitor
    <3>3. CASE DestroyUnpause
        BY <1>t, <3>3 DEF DestroyUnpause, MonType, OneMonitor
    <3> QED
        BY <1>2, <3>1, <3>2, <3>3
  <2>3. UNCHANGED <<log_mtx, hinted, hpc>> /\ (attached' => attached)
    <3>1. attached' => attached
        BY <2>2
    <3> QED
        BY <1>2, <1>l, <3>1
  <2>4. /\ log_mtx' \in Conns \cup {"key", None} /\ hinted' \in BOOLEAN
        /\ pc'["key"] \in Looking => ~attached'
        /\ pc'["key"] = "reattach" => log_mtx' = "key"
        /\ \A c \in Conns : hpc'[c] = "puts" => log_mtx' = c /\ ~attached'
      BY <2>1, <2>3 DEF Terminal
  <2> QED
      BY <2>1, <2>2, <2>4 DEF Terminal
<1>3. CASE \/ MainMonitor("detach_join", "unpause", MonitorJoin)
           \/ MainMonitor("unpause", "drain", DestroyUnpause)
           \/ MainMonitor("stop", "stop_join", MonitorClear)
           \/ MainMonitor("stop_join", "exit", MonitorJoin)
           \/ MainDetach /\ attached
    BY <1>2, <1>3 DEF MainMonitor, MainDetach, Detached, connVars
<1>4. CASE UNCHANGED monVars
  <2>1. pc'["key"] \in Looking => pc["key"] \in Looking /\ pc'["key"] = pc["key"]
    <3>1. CASE MainStarts("key")
        BY <1>t, <3>1 DEF MainStarts, MainStart, Looking, Threads
    <3>2. CASE MainStartAdmin \/ MainStarts("bcast")
        BY <1>t, <3>2 DEF MainStartAdmin, MainStarts, MainStart, Threads
    <3>3. CASE MainNotify \/ MainWakeBroadcaster
        BY <1>t, <3>3 DEF MainNotify, MainWakeBroadcaster, NotifyEvent, Woken, Threads
    <3>4. CASE MainCloseSse \/ MainGoes \/ pc' = pc
        BY <1>g, <3>4 DEF MainCloseSse, MainGoes
    <3> QED
        BY <3>1, <3>2, <3>3, <3>4, MainPath
  <2>2. \A c \in Conns : hpc'[c] = "puts" => hpc[c] = "puts"
    <3>1. hpc' = hpc \/ \E c, to : hpc' = [hpc EXCEPT ![c] = to] /\ to # "puts"
      <4>1. CASE MainAccept
          BY <4>1 DEF MainAccept
      <4>2. CASE MainSubmit
        <5>1. \/ hpc' = [hpc EXCEPT ![cur] = IF scen.pool THEN "queued" ELSE "started"]
              \/ hpc' = [hpc EXCEPT ![cur] = "done"]
            BY <4>2 DEF MainSubmit
        <5>2. (IF scen.pool THEN "queued" ELSE "started") # "puts" /\ "done" # "puts"
            OBVIOUS
        <5> QED
            BY <5>1, <5>2, Zenon
      <4>3. CASE UNCHANGED connVars
          BY <4>3 DEF connVars
      <4> QED
          BY <4>1, <4>2, <4>3, MainEffect
    <3>2. ASSUME NEW c, NEW to, to # "puts", hpc' = [hpc EXCEPT ![c] = to], NEW d \in Conns,
                 hpc'[d] = "puts"
          PROVE  hpc[d] = "puts"
        BY <1>t, <3>2
    <3> QED
        BY <3>1, <3>2
  <2> QED
      BY <1>4, <1>l, <1>t, <2>1, <2>2, FrameTerminal DEF Looking
<1>5. MainStartMonitor \/ UNCHANGED monVars
      \/ MainMonitor("detach_join", "unpause", MonitorJoin)
      \/ MainMonitor("unpause", "drain", DestroyUnpause)
      \/ MainMonitor("stop", "stop_join", MonitorClear)
      \/ MainMonitor("stop_join", "exit", MonitorJoin)
      \/ (MainDetach /\ attached)
  <2>1. MainDetach /\ ~attached => UNCHANGED monVars
      BY DEF MainDetach
  <2> QED
      BY <2>1, MainEffect DEF MainMonitors
<1> QED
    BY <1>1, <1>3, <1>4, <1>5

LEMMA NextTerminal == Control /\ Connections /\ Terminal /\ [Next]_vars => Terminal'
<1> SUFFICES ASSUME Control, Connections, Terminal, [Next]_vars PROVE Terminal'
    OBVIOUS
<1>1. Forward
    BY StepForward
<1>2. CASE BroadcastActs \/ AdminStep
  <2>1. UNCHANGED <<monVars, logVars, connVars>> /\ pc'["key"] = pc["key"]
      BY <1>2, BroadcastEffect, AdminEffect DEF Moves, Threads
  <2>2. UNCHANGED <<log_mtx, hinted, hpc>> /\ hinted \in BOOLEAN
      BY <2>1 DEF logVars, connVars, Terminal
  <2> QED
      BY <1>1, <2>1, <2>2, FrameTerminal
<1>3. CASE OutsideActs
  <2>1. CASE \E m \in MonThreads : MonitorThread(m)
      BY <2>1, MonitorTerminal
  <2>2. CASE Interrupt \/ (\E s \in Subs : HangUp(s)) \/ UNCHANGED vars
    <3>1. UNCHANGED <<monVars, logVars, connVars, pc>>
        BY <2>2 DEF Interrupt, HangUp, vars, data
    <3>2. UNCHANGED <<log_mtx, hinted, hpc>> /\ hinted \in BOOLEAN
        BY <3>1 DEF logVars, connVars, Terminal
    <3> QED
        BY <1>1, <3>1, <3>2, FrameTerminal
  <2> QED
      BY <1>3, <2>1, <2>2 DEF OutsideActs
<1> QED
    BY <1>1, <1>2, <1>3, WhoActs, MainTerminal, HandlerTerminal, KeyTerminal

(* Who uses the terminal, in every state of DemoServer: at most one        *)
(* monitor thread at a time; until main detaches it for good it uses the   *)
(* terminal only while attached; and neither the key listener that looks   *)
(* at stdin nor a handler that prints finds it attached.                   *)
THEOREM TerminalInvariant == Spec => []Terminal
<1>1. Spec => Init /\ [][Next]_vars
    BY DEF Spec
<1> QED
    BY <1>1, InitTerminal, NextTerminal, ControlInvariant, CountersExact, PTL

(* The key listener and the dashboard never read stdin at once: whoever    *)
(* reads a key found the monitor detached, and only the key listener can   *)
(* attach it again.                                                        *)
THEOREM StdinExclusive == Spec => []OneReader
<1>1. Control /\ Terminal => OneReader
  <2> SUFFICES ASSUME Control, Terminal, pc["key"] = "read"
               PROVE  \A m \in MonThreads : mon[m] # "key"
      BY DEF OneReader
  <2>1. ~attached /\ pc["main"] \notin Detached
      BY DEF Terminal, Looking, Control, Order, Over, AfterKey, AfterBcast, Closed
  <2> QED
      BY <2>1 DEF Terminal, Using
<1> QED
    BY <1>1, ControlInvariant, TerminalInvariant, PTL

(* A request line is printed only while the monitor is detached, however   *)
(* the key listener, the dashboard and the shutdown move.                  *)
THEOREM PrintedDetached == Spec => []PrintsDetached
<1>1. Terminal => PrintsDetached
    BY DEF Terminal, PrintsDetached
<1> QED
    BY <1>1, TerminalInvariant, PTL
===============================================================================
