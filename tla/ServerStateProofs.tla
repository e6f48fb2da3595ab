--------------------------- MODULE ServerStateProofs ---------------------------
(***************************************************************************)
(* The safety of DemoServer, for any scenarios, connections, subscribers   *)
(* and monitor threads: the order in which main starts and joins the       *)
(* threads, the counters of the connections and the log ring.              *)
(***************************************************************************)
EXTENDS DemoServer, FiniteSetTheorems, TLAPS

(* The provers a leaf is given to, in turn. *)
USE SMTT(10), Zenon, Z3T(20)

(* The stages of main: what is not created yet and what is joined. *)
BeforeKey == {"s_pool", "s_monitor", "s_key"}
BeforeAdmin == BeforeKey \cup {"s_admin"}
BeforeBcast == BeforeAdmin \cup {"s_bcast"}
Detached == {"detach_join", "unpause", "drain", "stop", "stop_join", "exit"}
Closed == Detached \cup {"attached", "detach"}
AfterBcast == Closed \cup {"sse_close"}
AfterKey == AfterBcast \cup {"wake", "join_bcast"}
AfterAdmin == AfterKey \cup {"join_key"}
Ended == AfterAdmin \cup {"close", "join_admin"}

Order ==
    /\ pc["main"] \in BeforeKey => pc["key"] = "off"
    /\ pc["main"] \in BeforeAdmin => pc["admin"] = "off"
    /\ pc["main"] \in BeforeBcast => pc["bcast"] = "off"
    /\ pc["main"] \in AfterAdmin => Over("admin")
    /\ pc["main"] \in AfterKey => Over("key")
    /\ pc["main"] \in AfterBcast => Over("bcast")
    /\ running /\ pc["main"] # "exit" => listening /\ pc["main"] \notin Ended

Control ==
    /\ scen \in Scenarios
    /\ pc \in [Threads -> ThreadPC]
    /\ running \in BOOLEAN /\ sigint \in BOOLEAN /\ listening \in BOOLEAN
    /\ Order

-------------------------------------------------------------------------------
(* Who acts, and what else stays as it is *)

LEMMA ScenarioFacts ==
    ASSUME Control
    PROVE  /\ scen.pool \in BOOLEAN /\ scen.dashboard \in BOOLEAN /\ scen.bcast \in BOOLEAN
           /\ scen.conns \subseteq Conns /\ scen.subs \subseteq Subs
    BY ServerAssumption DEF Control

LEMMA GoMoves ==
    ASSUME Control, NEW t \in Threads, NEW from, NEW to \in ThreadPC, Go(t, from, to)
    PROVE  /\ pc' \in [Threads -> ThreadPC]
           /\ pc[t] = from /\ pc'[t] = to
           /\ \A u \in Threads \ {t} : pc'[u] = pc[u]
    BY DEF Control, Go

(* Thread t moves on; it has been created and has not returned. *)
Moves(t) ==
    /\ pc' \in [Threads -> ThreadPC]
    /\ ~Over(t)
    /\ \A u \in Threads \ {t} : pc'[u] = pc[u]

LEMMA GoIsMove ==
    ASSUME Control, NEW t \in Threads, NEW from, NEW to \in ThreadPC, Go(t, from, to),
           from \notin {"off", "exit"}
    PROVE  Moves(t)
    BY GoMoves DEF Moves, Over

BroadcastActs == BroadcastStep \/ BroadcastTimeout \/ BroadcastSpurious

LEMMA BroadcastEffect ==
    ASSUME Control, BroadcastActs
    PROVE  Moves("bcast") /\ UNCHANGED <<procVars, connVars, logVars, cli, monVars>>
<1>1. UNCHANGED <<procVars, connVars, logVars, cli, monVars>>
    BY DEF BroadcastActs, BroadcastStep, BroadcastTimeout, BroadcastSpurious, BroadcastTop,
           BroadcastWait, BroadcastCheck, BroadcastSend, Snapshot, Awake, data, adminVars
<1>2. "bcast" \in Threads
    BY DEF Threads
<1>3. \E from, to : Go("bcast", from, to) /\ from \notin {"off", "exit"} /\ to \in ThreadPC
  <2> USE DEF ThreadPC, MainPC, SnapPC
  <2>1. CASE BroadcastTop
      BY <2>1 DEF BroadcastTop
  <2>2. CASE BroadcastWait \/ BroadcastTimeout \/ BroadcastSpurious
      BY <2>2 DEF BroadcastWait, BroadcastTimeout, BroadcastSpurious, Awake
  <2>3. CASE BroadcastCheck
      BY <2>3 DEF BroadcastCheck, SnapStart
  <2>4. CASE Snapshot("bcast", "send")
      BY <2>4 DEF Snapshot
  <2>5. CASE BroadcastSend
      BY <2>5 DEF BroadcastSend
  <2> QED
      BY <2>1, <2>2, <2>3, <2>4, <2>5 DEF BroadcastActs, BroadcastStep
<1> QED
    BY <1>1, <1>2, <1>3, GoIsMove

LEMMA AdminEffect ==
    ASSUME Control, AdminStep
    PROVE  /\ Moves("admin")
           /\ UNCHANGED <<procVars, connVars, logVars, bcastVars, gone, monVars>>
<1>1. UNCHANGED <<procVars, connVars, logVars, bcastVars, gone, monVars>>
    BY DEF AdminStep, AdminRuns, AdminTop, AdminTick, AdminAccept, AdminAcceptFails, AdminRecv,
           AdminFrame, AdminRegister, AdminClose, Snapshot, data, sseVars
<1>2. "admin" \in Threads
    BY DEF Threads
<1>3. \E from, to : Go("admin", from, to) /\ from \notin {"off", "exit"} /\ to \in ThreadPC
  <2> USE DEF ThreadPC, MainPC, SnapPC
  <2>1. CASE AdminTop \/ AdminTick \/ AdminAccept \/ AdminAcceptFails
      BY <2>1 DEF AdminTop, AdminTick, AdminAccept, AdminAcceptFails, Polling
  <2>2. CASE AdminRecv
      BY <2>2 DEF AdminRecv, AdminClose, Polling, SnapStart
  <2>3. CASE Snapshot("admin", "frame")
      BY <2>3 DEF Snapshot
  <2>4. CASE AdminFrame \/ AdminRegister
      BY <2>4 DEF AdminFrame, AdminRegister, AdminClose, Polling
  <2> QED
      BY <2>1, <2>2, <2>3, <2>4 DEF AdminStep, AdminRuns
<1> QED
    BY <1>1, <1>2, <1>3, GoIsMove

LEMMA KeyEffect ==
    ASSUME Control, KeyStep
    PROVE  /\ Moves("key")
           /\ UNCHANGED <<scen, listening, connVars, ring, logged, bcastVars, adminVars, sseVars>>
           /\ running' \in BOOLEAN /\ sigint' \in BOOLEAN /\ (running' => running)
<1>1. UNCHANGED <<scen, listening, connVars, ring, logged, bcastVars, adminVars, sseVars>>
    BY DEF KeyStep, KeyTop, KeyTest, KeyHint, KeyRead, KeyLock, KeyReattach, KeyKill, data,
           procVars, logVars
<1>2. running' \in BOOLEAN /\ sigint' \in BOOLEAN /\ (running' => running)
  <2>1. running \in BOOLEAN /\ sigint \in BOOLEAN
      BY DEF Control
  <2>2. CASE KeyRead \/ KeyKill
    <3>1. running' = running \/ running' = FALSE
        BY <2>2 DEF KeyRead, KeyKill
    <3>2. sigint' = sigint \/ sigint' = TRUE
        BY <2>2 DEF KeyRead, KeyKill
    <3>3. running' \in BOOLEAN /\ (running' => running)
      <4>1. CASE running' = running
          BY <2>1, <4>1
      <4>2. CASE running' = FALSE
          BY <4>2
      <4> QED
          BY <3>1, <4>1, <4>2
    <3>4. sigint' \in BOOLEAN
        BY <2>1, <3>2
    <3> QED
        BY <3>3, <3>4
  <2>3. CASE KeyTop \/ KeyTest \/ KeyHint \/ KeyLock \/ KeyReattach
    <3>1. UNCHANGED <<running, sigint>>
        BY <2>3 DEF KeyTop, KeyTest, KeyHint, KeyLock, KeyReattach, data, procVars
    <3> QED
        BY <2>1, <3>1
  <2> QED
      BY <2>2, <2>3 DEF KeyStep
<1>3. "key" \in Threads
    BY DEF Threads
<1>4. \E from, to : Go("key", from, to) /\ from \notin {"off", "exit"} /\ to \in ThreadPC
  <2> USE DEF ThreadPC, MainPC, SnapPC
  <2>1. CASE KeyTop \/ KeyTest
      BY <2>1 DEF KeyTop, KeyTest
  <2>2. CASE KeyHint \/ KeyRead \/ KeyLock \/ KeyReattach \/ KeyKill
      BY <2>2 DEF KeyHint, KeyRead, KeyLock, KeyReattach, KeyKill
  <2> QED
      BY <2>1, <2>2 DEF KeyStep
<1> QED
    BY <1>1, <1>2, <1>3, <1>4, GoIsMove

(* notify_event moves the broadcaster out of its sleep, and nobody else. *)
Wakes ==
    /\ pc' \in [Threads -> ThreadPC]
    /\ \A u \in Threads \ {"bcast"} : pc'[u] = pc[u]
    /\ pc'["bcast"] # pc["bcast"] => pc["bcast"] = "asleep" /\ pc'["bcast"] = "wait"

HandlerActs == TaskStart \/ \E c \in Conns : HandlerStep(c)

LEMMA HandlerEffect ==
    ASSUME Control, HandlerActs
    PROVE  /\ Wakes
           /\ UNCHANGED <<procVars, cur, hinted, timed_out, last, adminVars, sseVars, monVars>>
<1>1. UNCHANGED <<procVars, cur, hinted, timed_out, last, adminVars, sseVars, monVars>>
    BY DEF HandlerActs, HandlerStep, TaskStart, HandlerNotify, HandlerRecv, HandlerCount,
           HandlerLog, HandlerPrint, HandlerReturn, logVars, bcastVars
<1>2. pc' = pc \/ pc' = Woken(pc)
    BY DEF HandlerActs, HandlerStep, TaskStart, HandlerNotify, HandlerRecv, HandlerCount,
           HandlerLog, HandlerPrint, HandlerReturn, NotifyEvent
<1>3. pc \in [Threads -> ThreadPC] /\ "wait" \in ThreadPC
    BY DEF Control, ThreadPC
<1> QED
    BY <1>1, <1>2, <1>3 DEF Wakes, Woken, Threads

(* Ctrl-C, a subscriber that hangs up, the monitor, and the end. *)
OutsideActs ==
    \/ Interrupt \/ (\E s \in Subs : HangUp(s)) \/ (\E m \in MonThreads : MonitorThread(m))
    \/ UNCHANGED vars

LEMMA OutsideEffect ==
    ASSUME Control, OutsideActs
    PROVE  /\ UNCHANGED <<pc, scen, running, listening, connVars, logVars, bcastVars, adminVars,
                          table, fd>>
           /\ sigint' \in BOOLEAN
<1>1. sigint \in BOOLEAN
    BY DEF Control
<1> QED
    BY <1>1 DEF OutsideActs, Interrupt, HangUp, MonitorThread, procVars, sseVars, vars, data

MainActs == MainStep \/ MainAccept

(* The steps of main by what they do besides moving on: nothing, a step of *)
(* the monitor, or something of their own.                                 *)
MainMoves ==
    \/ MainStart("key", "s_key", "s_admin", "top") \/ MainStart("key", "s_key", "s_admin", "off")
    \/ MainStart("bcast", "s_bcast", "loop", IF scen.bcast THEN "top" ELSE "off")
    \/ MainLoop \/ MainAcceptFails \/ MainIfAttached \/ MainDrain
    \/ MainJoin("admin", "join_admin", "join_key") \/ MainJoin("key", "join_key", "wake")
    \/ MainJoin("bcast", "join_bcast", "sse_close")

MainMonitors ==
    \/ MainStartMonitor \/ MainDetach
    \/ MainMonitor("detach_join", "unpause", MonitorJoin)
    \/ MainMonitor("unpause", "drain", DestroyUnpause)
    \/ MainMonitor("stop", "stop_join", MonitorClear)
    \/ MainMonitor("stop_join", "exit", MonitorJoin)

MainOwn ==
    \/ MainInitPool \/ MainStartAdmin \/ MainSignal \/ MainClose \/ MainAccept \/ MainSubmit
    \/ MainNotify \/ MainWakeBroadcaster \/ MainCloseSse

LEMMA MainKinds == MainActs => MainMoves \/ MainMonitors \/ MainOwn
BY DEF MainActs, MainStep, MainMoves, MainMonitors, MainOwn

(* What main changes. *)
LEMMA MainEffect ==
    ASSUME MainActs
    PROVE  /\ UNCHANGED <<logVars, timed_out, last, adminVars, gone, view>>
           /\ MainAccept \/ MainSubmit \/ UNCHANGED connVars
           /\ MainCloseSse \/ UNCHANGED <<table, fd>>
           /\ MainMonitors \/ UNCHANGED monVars
           /\ running' = running \/ running' = FALSE
           /\ unseen' = unseen \/ unseen' = TRUE
<1> USE DEF procVars, bcastVars, sseVars
<1>1. CASE MainMoves
  <2>1. UNCHANGED data
      BY <1>1 DEF MainMoves, MainStart, MainLoop, MainAcceptFails, MainIfAttached, MainDrain,
             MainJoin
  <2> QED
      BY <2>1 DEF data
<1>2. CASE MainMonitors
  <2>1. UNCHANGED <<procVars, connVars, logVars, bcastVars, adminVars, sseVars>>
      BY <1>2 DEF MainMonitors, MainStartMonitor, MainDetach, MainMonitor
  <2> QED
      BY <1>2, <2>1
<1>3. CASE MainInitPool \/ MainStartAdmin \/ MainSignal \/ MainClose
    BY <1>3 DEF MainInitPool, MainStartAdmin, MainSignal, MainClose
<1>4. CASE MainAccept
    BY <1>4 DEF MainAccept
<1>5. CASE MainSubmit
    BY <1>5 DEF MainSubmit
<1>6. CASE MainNotify \/ MainWakeBroadcaster
    BY <1>6 DEF MainNotify, MainWakeBroadcaster, NotifyEvent
<1>7. CASE MainCloseSse
    BY <1>7 DEF MainCloseSse
<1> QED
    BY <1>1, <1>2, <1>3, <1>4, <1>5, <1>6, <1>7, MainKinds DEF MainOwn

(* How main moves on. *)
MainStarts(t) ==
    \E from \in {"s_key", "s_bcast"} : \E to : \E first \in {"top", "off"} :
        MainStart(t, from, to, first)

MainGoes == \E from, to : Go("main", from, to) /\ from # "sse_close"

LEMMA MainPath ==
    ASSUME MainActs
    PROVE  \/ MainStartAdmin \/ MainStarts("key") \/ MainStarts("bcast")
           \/ MainNotify \/ MainWakeBroadcaster
           \/ MainCloseSse \/ MainGoes \/ pc' = pc
<1>1. CASE MainMoves
  <2>1. CASE \/ MainStart("key", "s_key", "s_admin", "top")
             \/ MainStart("key", "s_key", "s_admin", "off")
      BY <2>1 DEF MainStarts
  <2>2. CASE MainStart("bcast", "s_bcast", "loop", IF scen.bcast THEN "top" ELSE "off")
    <3>1. (IF scen.bcast THEN "top" ELSE "off") \in {"top", "off"}
        OBVIOUS
    <3> QED
        BY <2>2, <3>1 DEF MainStarts
  <2>3. CASE MainLoop \/ MainAcceptFails \/ MainIfAttached \/ MainDrain
      BY <2>3 DEF MainLoop, MainAcceptFails, MainIfAttached, MainDrain, MainGoes
  <2>4. CASE \/ MainJoin("admin", "join_admin", "join_key") \/ MainJoin("key", "join_key", "wake")
             \/ MainJoin("bcast", "join_bcast", "sse_close")
      BY <2>4 DEF MainJoin, MainGoes
  <2> QED
      BY <1>1, <2>1, <2>2, <2>3, <2>4 DEF MainMoves
<1>2. CASE MainMonitors
    BY <1>2 DEF MainMonitors, MainStartMonitor, MainDetach, MainMonitor, MainGoes
<1>3. CASE MainInitPool
    BY <1>3 DEF MainInitPool, MainGoes
<1>4. CASE MainSignal \/ MainClose
    BY <1>4 DEF MainSignal, MainClose, MainGoes
<1>5. CASE MainAccept \/ MainSubmit
    BY <1>5 DEF MainAccept, MainSubmit, MainGoes
<1> QED
    BY <1>1, <1>2, <1>3, <1>4, <1>5, MainKinds DEF MainOwn

LEMMA WhoActs ==
    ASSUME [Next]_vars
    PROVE  MainActs \/ HandlerActs \/ BroadcastActs \/ AdminStep \/ KeyStep \/ OutsideActs
    BY DEF Next, MainActs, HandlerActs, BroadcastActs, OutsideActs
-------------------------------------------------------------------------------
(* Control *)

LEMMA InitControl == Init => Control
<1> SUFFICES ASSUME Init PROVE Control
    OBVIOUS
<1>1. /\ pc = [t \in Threads |-> IF t = "main" THEN "s_pool" ELSE "off"]
      /\ scen \in Scenarios /\ running = TRUE /\ sigint = FALSE /\ listening = TRUE
    BY DEF Init
<1>2. {"s_pool", "off"} \subseteq ThreadPC
    BY DEF ThreadPC, MainPC
<1>3. pc \in [Threads -> ThreadPC]
    BY <1>1, <1>2
<1>4. pc["main"] = "s_pool" /\ pc["bcast"] = "off" /\ pc["admin"] = "off" /\ pc["key"] = "off"
    BY <1>1 DEF Threads
<1>5. Order
    BY <1>1, <1>4 DEF Order, AfterAdmin, AfterKey, AfterBcast, Closed, Detached, Ended
<1> QED
    BY <1>1, <1>3, <1>5 DEF Control

(* A step of another thread than main leaves a thread that is over alone. *)
LEMMA ElsewhereControl ==
    ASSUME Control, pc' \in [Threads -> ThreadPC], pc'["main"] = pc["main"],
           \A t \in Threads : Over(t) => pc'[t] = pc[t],
           UNCHANGED <<scen, listening>>, running' \in BOOLEAN, sigint' \in BOOLEAN,
           running' => running
    PROVE  Control'
<1>1. Order'
    BY DEF Control, Order, Over, Threads
<1> QED
    BY <1>1 DEF Control

LEMMA OthersControl ==
    ASSUME Control, HandlerActs \/ BroadcastActs \/ AdminStep \/ KeyStep \/ OutsideActs
    PROVE  Control'
<1>t. pc \in [Threads -> ThreadPC] /\ running \in BOOLEAN /\ sigint \in BOOLEAN
    BY DEF Control
<1>m. ASSUME NEW t \in Threads \ {"main"}, Moves(t)
      PROVE  /\ pc' \in [Threads -> ThreadPC] /\ pc'["main"] = pc["main"]
             /\ \A u \in Threads : Over(u) => pc'[u] = pc[u]
    BY <1>m DEF Moves, Threads
<1>1. CASE HandlerActs
  <2>1. UNCHANGED procVars /\ Wakes
      BY <1>1, HandlerEffect
  <2>2. pc' \in [Threads -> ThreadPC] /\ pc'["main"] = pc["main"]
        /\ \A u \in Threads : Over(u) => pc'[u] = pc[u]
      BY <2>1 DEF Wakes, Over, Threads
  <2> QED
      BY <1>t, <2>1, <2>2, ElsewhereControl DEF procVars
<1>2. CASE BroadcastActs
    BY <1>t, <1>m, <1>2, BroadcastEffect, ElsewhereControl DEF procVars, Threads
<1>3. CASE AdminStep
    BY <1>t, <1>m, <1>3, AdminEffect, ElsewhereControl DEF procVars, Threads
<1>4. CASE KeyStep
    BY <1>t, <1>m, <1>4, KeyEffect, ElsewhereControl DEF procVars, Threads
<1>5. CASE OutsideActs
    BY <1>t, <1>5, OutsideEffect, ElsewhereControl
<1> QED
    BY <1>1, <1>2, <1>3, <1>4, <1>5
LEMMA MainGoControl ==
    ASSUME Control, NEW from, NEW to \in ThreadPC, Go("main", from, to), scen' = scen,
           /\ to \in BeforeKey => from \in BeforeKey
           /\ to \in BeforeAdmin => from \in BeforeAdmin
           /\ to \in BeforeBcast => from \in BeforeBcast
           /\ to \in AfterAdmin => Over("admin")
           /\ to \in AfterKey => Over("key")
           /\ to \in AfterBcast => Over("bcast"),
           running' \in BOOLEAN, sigint' \in BOOLEAN, listening' \in BOOLEAN,
           running' /\ to # "exit" => listening' /\ to \notin Ended
    PROVE  Control'
<1>1. "main" \in Threads
    BY DEF Threads
<1>2. /\ pc' \in [Threads -> ThreadPC] /\ pc["main"] = from /\ pc'["main"] = to
      /\ \A u \in Threads \ {"main"} : pc'[u] = pc[u]
    BY <1>1, GoMoves
<1>3. /\ pc'["key"] = pc["key"] /\ pc'["admin"] = pc["admin"] /\ pc'["bcast"] = pc["bcast"]
    BY <1>2 DEF Threads
<1>4. Order'
    BY <1>2, <1>3 DEF Control, Order, Over
<1> QED
    BY <1>2, <1>4 DEF Control

(* main creates thread t, or does not get it. *)
LEMMA MainCreateControl ==
    ASSUME Control, NEW t \in {"key", "admin", "bcast"}, NEW to \in {"s_admin", "s_bcast", "loop"},
           NEW first \in {"off", "top"},
           pc["main"] = (IF t = "key" THEN "s_key" ELSE IF t = "admin" THEN "s_admin" ELSE "s_bcast"),
           to = (IF t = "key" THEN "s_admin" ELSE IF t = "admin" THEN "s_bcast" ELSE "loop"),
           pc' = [pc EXCEPT !["main"] = to, ![t] = first],
           UNCHANGED <<scen, sigint>>,
           running' \in BOOLEAN, listening' \in BOOLEAN, running' => running /\ listening'
    PROVE  Control'
<1>1. {"s_admin", "s_bcast", "loop", "off", "top"} \subseteq ThreadPC /\ pc \in [Threads -> ThreadPC]
    BY DEF ThreadPC, MainPC, Control
<1>2. pc' \in [Threads -> ThreadPC] /\ pc'["main"] = to /\ pc'[t] = first
      /\ \A u \in {"key", "admin", "bcast"} \ {t} : pc'[u] = pc[u]
    BY <1>1 DEF Threads
<1>3. pc'["main"] \notin Ended \cup AfterAdmin \cup AfterKey \cup AfterBcast
    BY <1>2 DEF Ended, AfterAdmin, AfterKey, AfterBcast, Closed, Detached
<1>4. Order'
    BY <1>2, <1>3 DEF Control, Order, BeforeKey, BeforeAdmin, BeforeBcast
<1> QED
    BY <1>2, <1>4 DEF Control

LEMMA MainStartControl ==
    ASSUME Control,
           \/ MainStartAdmin
           \/ MainStart("key", "s_key", "s_admin", "top") \/ MainStart("key", "s_key", "s_admin", "off")
           \/ MainStart("bcast", "s_bcast", "loop", IF scen.bcast THEN "top" ELSE "off")
    PROVE  Control'
<1>t. /\ running \in BOOLEAN /\ listening \in BOOLEAN
      /\ running /\ pc["main"] # "exit" => listening
      /\ pc \in [Threads -> ThreadPC]
    BY DEF Control, Order
<1>1. CASE MainStartAdmin
  <2>1. pc["main"] = "s_admin" /\ UNCHANGED <<scen, sigint>> /\ pc["admin"] = "off"
      BY <1>1 DEF MainStartAdmin, Control, Order, BeforeAdmin
  <2>2. CASE pc' = [pc EXCEPT !["main"] = "s_bcast", !["admin"] = "top"] /\ UNCHANGED <<running, listening>>
      BY <1>t, <2>1, <2>2, MainCreateControl
  <2>3. CASE pc' = [pc EXCEPT !["main"] = "s_bcast"] /\ running' = FALSE /\ listening' = FALSE
    <3>1. pc' = [pc EXCEPT !["main"] = "s_bcast", !["admin"] = "off"]
        BY <1>t, <2>1, <2>3 DEF Threads
    <3> QED
        BY <2>1, <2>3, <3>1, MainCreateControl
  <2> QED
      BY <1>1, <2>2, <2>3 DEF MainStartAdmin
<1>2. ASSUME NEW first \in {"off", "top"}, MainStart("key", "s_key", "s_admin", first)
      PROVE  Control'
    BY <1>t, <1>2, MainCreateControl DEF MainStart, data, procVars
<1>3. ASSUME NEW first \in {"off", "top"}, MainStart("bcast", "s_bcast", "loop", first)
      PROVE  Control'
    BY <1>t, <1>3, MainCreateControl DEF MainStart, data, procVars
<1> QED
    BY <1>1, <1>2, <1>3
(* main before it shuts down, and after it has joined its threads *)
Serving == {"loop", "accept", "submit", "notify"}

LEMMA MainServesControl ==
    ASSUME Control, NEW from, NEW to \in Serving, Go("main", from, to),
           from \in Serving, UNCHANGED procVars
    PROVE  Control'
<1>1. to \in ThreadPC /\ to # "exit"
    BY DEF Serving, ThreadPC, MainPC
<1>2. to \notin Ended \cup BeforeBcast /\ from \notin {"exit"} \cup Ended
    BY DEF Serving, Ended, AfterAdmin, AfterKey, AfterBcast, Closed, Detached, BeforeBcast,
           BeforeAdmin, BeforeKey
<1>3. running' => listening'
    BY <1>2 DEF Control, Order, procVars, Go
<1> QED
    BY <1>1, <1>2, <1>3, MainGoControl
       DEF Control, procVars, Ended, AfterAdmin, AfterKey, AfterBcast, BeforeAdmin, BeforeBcast

LEMMA MainDestroysControl ==
    ASSUME Control, NEW from \in AfterBcast, NEW to \in AfterBcast, Go("main", from, to),
           from # "exit", UNCHANGED procVars
    PROVE  Control'
<1>1. to \in ThreadPC /\ to \notin BeforeBcast
    BY DEF AfterBcast, Closed, Detached, ThreadPC, MainPC, BeforeBcast, BeforeAdmin, BeforeKey
<1>2. Over("admin") /\ Over("key") /\ Over("bcast") /\ ~running
    BY DEF Control, Order, AfterKey, AfterAdmin, Ended, Go
<1>3. ~running' /\ running' \in BOOLEAN /\ sigint' \in BOOLEAN /\ listening' \in BOOLEAN /\ scen' = scen
    BY <1>2 DEF Control, procVars
<1> QED
    BY <1>1, <1>2, <1>3, MainGoControl DEF BeforeAdmin, BeforeBcast

(* The steps of main that only move it. *)
LEMMA MainMovesControl ==
    ASSUME Control,
           \/ MainStartMonitor \/ MainLoop \/ MainAccept \/ MainAcceptFails \/ MainSubmit
           \/ MainJoin("admin", "join_admin", "join_key") \/ MainJoin("key", "join_key", "wake")
           \/ MainJoin("bcast", "join_bcast", "sse_close") \/ MainCloseSse
           \/ MainIfAttached \/ MainDetach
           \/ MainMonitor("detach_join", "unpause", MonitorJoin)
           \/ MainMonitor("unpause", "drain", DestroyUnpause) \/ MainDrain
           \/ MainMonitor("stop", "stop_join", MonitorClear)
           \/ MainMonitor("stop_join", "exit", MonitorJoin)
    PROVE  Control'
<1>p. UNCHANGED procVars
    BY DEF MainStartMonitor, MainLoop, MainAccept, MainAcceptFails, MainSubmit, MainJoin,
           MainCloseSse, MainIfAttached, MainDetach, MainMonitor, MainDrain, data
<1>t. /\ running' \in BOOLEAN /\ sigint' \in BOOLEAN /\ listening' \in BOOLEAN /\ scen' = scen
      /\ running' = running /\ listening' = listening
    BY <1>p DEF Control, procVars
<1> USE DEF Serving
<1>1. CASE MainStartMonitor
  <2>1. Go("main", "s_monitor", "s_key")
      BY <1>1 DEF MainStartMonitor
  <2>2. "s_key" \in ThreadPC /\ "s_key" \notin Ended
      BY DEF ThreadPC, MainPC, Ended, AfterAdmin, AfterKey, AfterBcast, Closed, Detached
  <2>3. {"s_key", "s_monitor"} \subseteq BeforeKey
      BY DEF BeforeKey
  <2>4. running' => listening'
      BY <1>t, <2>1 DEF Control, Order, Go
  <2> QED
      BY <1>t, <2>1, <2>2, <2>3, <2>4, MainGoControl
         DEF BeforeAdmin, BeforeBcast, Ended, AfterAdmin, AfterKey, AfterBcast
<1>2. CASE MainAccept \/ MainSubmit
  <2>1. \E from \in Serving, to \in Serving : Go("main", from, to)
      BY <1>2 DEF MainAccept, MainSubmit
  <2> QED
      BY <1>p, <2>1, MainServesControl
<1>3. CASE MainLoop \/ MainAcceptFails
  <2>1. CASE \E from \in Serving, to \in Serving : Go("main", from, to)
      BY <1>p, <2>1, MainServesControl
  <2>2. CASE ~running /\ \E from \in Serving : Go("main", from, "close")
    <3>1. "close" \in ThreadPC \ (AfterAdmin \cup AfterKey \cup AfterBcast \cup BeforeBcast
                                  \cup BeforeAdmin \cup BeforeKey)
        BY DEF ThreadPC, MainPC, AfterAdmin, AfterKey, AfterBcast, Closed, Detached, BeforeBcast,
               BeforeAdmin, BeforeKey
    <3> QED
        BY <1>t, <2>2, <3>1, MainGoControl
  <2>3. MainAcceptFails => ~running
      BY DEF MainAcceptFails, Control, Order, Go
  <2> QED
      BY <1>3, <2>1, <2>2, <2>3 DEF MainLoop, MainAcceptFails
<1>4. CASE \/ MainJoin("admin", "join_admin", "join_key") \/ MainJoin("key", "join_key", "wake")
           \/ MainJoin("bcast", "join_bcast", "sse_close")
  <2>1. PICK t \in {"admin", "key", "bcast"} :
            /\ Over(t)
            /\ Go("main", IF t = "admin" THEN "join_admin" ELSE IF t = "key" THEN "join_key" ELSE "join_bcast",
                          IF t = "admin" THEN "join_key" ELSE IF t = "key" THEN "wake" ELSE "sse_close")
      BY <1>4 DEF MainJoin
  <2>2. {"join_key", "wake", "sse_close"} \subseteq ThreadPC \ BeforeBcast
      BY DEF ThreadPC, MainPC, BeforeBcast, BeforeAdmin, BeforeKey
  <2>3. /\ "join_key" \notin AfterKey \cup AfterBcast /\ "wake" \notin AfterBcast
        /\ {"join_admin", "join_key", "join_bcast"} \subseteq Ended
        /\ {"join_key", "join_bcast"} \subseteq AfterAdmin /\ "join_bcast" \in AfterKey
      BY DEF Ended, AfterAdmin, AfterKey, AfterBcast, Closed, Detached
  <2>4. /\ ~running
        /\ t \in {"key", "bcast"} => Over("admin")
        /\ t = "bcast" => Over("key")
      BY <2>1, <2>3 DEF Control, Order, Go
  <2> QED
      BY <1>t, <2>1, <2>2, <2>3, <2>4, MainGoControl DEF BeforeAdmin, BeforeBcast
<1>5. CASE \/ MainCloseSse \/ MainIfAttached \/ MainDetach
           \/ MainMonitor("detach_join", "unpause", MonitorJoin)
           \/ MainMonitor("unpause", "drain", DestroyUnpause) \/ MainDrain
           \/ MainMonitor("stop", "stop_join", MonitorClear)
           \/ MainMonitor("stop_join", "exit", MonitorJoin)
  <2>1. \E from \in AfterBcast, to \in AfterBcast : Go("main", from, to) /\ from # "exit"
      BY <1>5 DEF MainCloseSse, MainIfAttached, MainDetach, MainMonitor, MainDrain, AfterBcast,
                  Closed, Detached
  <2> QED
      BY <1>p, <2>1, MainDestroysControl
<1> QED
    BY <1>1, <1>2, <1>3, <1>4, <1>5
(* notify_event, called by main on its way to another place *)
LEMMA NotifyControl ==
    ASSUME Control, NEW to \in {"loop", "join_bcast"}, NotifyEvent([pc EXCEPT !["main"] = to]),
           pc["main"] = (IF to = "loop" THEN "notify" ELSE "wake"), UNCHANGED procVars
    PROVE  Control'
<1>1. pc \in [Threads -> ThreadPC] /\ {"loop", "join_bcast", "wait"} \subseteq ThreadPC
    BY DEF Control, ThreadPC, MainPC
<1>2. /\ pc' \in [Threads -> ThreadPC] /\ pc'["main"] = to
      /\ pc'["key"] = pc["key"] /\ pc'["admin"] = pc["admin"]
    BY <1>1 DEF NotifyEvent, Woken, Threads
<1>3. to \notin AfterBcast \cup BeforeBcast /\ "loop" \notin Ended
    BY DEF AfterBcast, Closed, Detached, BeforeBcast, BeforeAdmin, BeforeKey, Ended, AfterKey,
           AfterAdmin
<1>4. to = "join_bcast" => Over("key") /\ Over("admin") /\ ~running
    BY DEF Control, Order, AfterKey, AfterAdmin, Ended
<1>5. running => listening
    BY DEF Control, Order
<1>6. Order'
    BY <1>2, <1>3, <1>4, <1>5
       DEF Order, Over, procVars, BeforeAdmin, BeforeBcast, Ended, AfterAdmin, AfterKey
<1> QED
    BY <1>2, <1>6 DEF Control, procVars

LEMMA MainRestControl ==
    ASSUME Control,
           MainInitPool \/ MainNotify \/ MainSignal \/ MainClose \/ MainWakeBroadcaster
    PROVE  Control'
<1>t. /\ pc \in [Threads -> ThreadPC] /\ Order
      /\ running \in BOOLEAN /\ sigint \in BOOLEAN /\ listening \in BOOLEAN
    BY DEF Control
<1>1. CASE MainInitPool
  <2>1. pc["main"] = "s_pool" /\ UNCHANGED <<scen, running, sigint>>
      BY <1>1 DEF MainInitPool, Go
  <2>2. pc["key"] = "off" /\ pc["admin"] = "off" /\ pc["bcast"] = "off" /\ (running => listening)
      BY <1>t, <2>1 DEF Order, BeforeKey, BeforeAdmin, BeforeBcast
  <2>3. Over("key") /\ Over("admin") /\ Over("bcast")
      BY <2>2 DEF Over
  <2>4. {"s_monitor", "s_admin", "exit"} \subseteq ThreadPC
        /\ {"s_monitor", "s_admin"} \cap Ended = {}
        /\ "s_pool" \in BeforeKey \cap BeforeAdmin \cap BeforeBcast
      BY DEF ThreadPC, MainPC, Ended, AfterAdmin, AfterKey, AfterBcast, Closed, Detached,
             BeforeKey, BeforeAdmin, BeforeBcast
  <2>5. PICK to \in {"s_monitor", "s_admin", "exit"} :
            /\ Go("main", "s_pool", to)
            /\ \/ listening' = listening
               \/ listening' = FALSE /\ to = "exit"
      BY <1>1 DEF MainInitPool
  <2>6. listening' \in BOOLEAN /\ (running' /\ to # "exit" => listening')
    <3>1. CASE listening' = listening
        BY <1>t, <2>1, <2>2, <3>1
    <3>2. CASE listening' = FALSE /\ to = "exit"
        BY <3>2
    <3> QED
        BY <2>5, <3>1, <3>2
  <2>7. running' /\ to # "exit" => listening' /\ to \notin Ended
      BY <2>4, <2>6
  <2> QED
      BY <1>t, <2>1, <2>3, <2>4, <2>5, <2>6, <2>7, MainGoControl
<1>2. CASE MainNotify
    BY <1>2, NotifyControl DEF MainNotify
<1>3. CASE MainSignal
  <2>1. running' = FALSE /\ sigint' = FALSE /\ listening' = FALSE /\ scen' = scen
      BY <1>3 DEF MainSignal
  <2>2. CASE Go("main", "accept", "loop")
    <3>1. "loop" \in ThreadPC \ (Ended \cup AfterAdmin \cup AfterKey \cup AfterBcast \cup BeforeBcast
                                 \cup BeforeAdmin \cup BeforeKey)
        BY DEF ThreadPC, MainPC, Ended, AfterAdmin, AfterKey, AfterBcast, Closed, Detached,
               BeforeBcast, BeforeAdmin, BeforeKey
    <3> QED
        BY <2>1, <2>2, <3>1, MainGoControl
  <2>3. CASE pc' = pc
    <3>1. Order'
        BY <1>t, <2>1, <2>3 DEF Order, Over
    <3> QED
        BY <1>t, <2>1, <2>3, <3>1 DEF Control
  <2> QED
      BY <1>3, <2>2, <2>3 DEF MainSignal
<1>4. CASE MainClose
  <2>1. Go("main", "close", "join_admin") /\ listening' = FALSE /\ UNCHANGED <<scen, running, sigint>>
      BY <1>4 DEF MainClose
  <2>2. "join_admin" \in ThreadPC \ (AfterAdmin \cup AfterKey \cup AfterBcast \cup BeforeBcast
                                     \cup BeforeAdmin \cup BeforeKey)
      BY DEF ThreadPC, MainPC, AfterAdmin, AfterKey, AfterBcast, Closed, Detached,
             BeforeBcast, BeforeAdmin, BeforeKey
  <2>3. ~running
      BY <1>t, <2>1 DEF Order, Go, Ended
  <2> QED
      BY <1>t, <2>1, <2>2, <2>3, MainGoControl
<1>5. CASE MainWakeBroadcaster
  <2>1. UNCHANGED procVars /\ pc["main"] = "wake"
      BY <1>5 DEF MainWakeBroadcaster
  <2>2. CASE NotifyEvent([pc EXCEPT !["main"] = "join_bcast"])
      BY <2>1, <2>2, NotifyControl
  <2>3. CASE pc' = [pc EXCEPT !["main"] = "join_bcast"]
    <3>1. "join_bcast" \in ThreadPC \ (AfterBcast \cup BeforeBcast \cup BeforeAdmin \cup BeforeKey)
        BY DEF ThreadPC, MainPC, AfterBcast, Closed, Detached, BeforeBcast, BeforeAdmin, BeforeKey
    <3>2. Over("admin") /\ Over("key") /\ ~running
        BY <1>t, <2>1 DEF Order, AfterKey, AfterAdmin, Ended
    <3>3. /\ ~running' /\ running' \in BOOLEAN /\ sigint' \in BOOLEAN /\ listening' \in BOOLEAN
          /\ scen' = scen
        BY <1>t, <2>1, <3>2 DEF procVars
    <3> QED
        BY <2>1, <2>3, <3>1, <3>2, <3>3, MainGoControl DEF Go
  <2> QED
      BY <1>5, <2>2, <2>3 DEF MainWakeBroadcaster
<1> QED
    BY <1>1, <1>2, <1>3, <1>4, <1>5

LEMMA NextControl == Control /\ [Next]_vars => Control'
    BY WhoActs, OthersControl, MainStartControl, MainMovesControl, MainRestControl
       DEF MainActs, MainStep

(* The order of main's life, in every state of DemoServer: a thread runs   *)
(* only between its creation and its join, and while running is set main,  *)
(* unless it could not start at all, has not begun to shut down and both   *)
(* listeners are open.                                                     *)
THEOREM ControlInvariant == Spec => []Control
<1>1. Spec => Init /\ [][Next]_vars
    BY DEF Spec
<1> QED
    BY <1>1, InitControl, NextControl, PTL
-------------------------------------------------------------------------------
(* Where main goes from where *)

MainEdge(from, to) ==
    \/ from = "s_pool" /\ to \in {"s_monitor", "s_admin", "exit"}
    \/ from = "s_monitor" /\ to = "s_key"
    \/ from = "s_key" /\ to = "s_admin"
    \/ from = "s_admin" /\ to = "s_bcast"
    \/ from = "s_bcast" /\ to = "loop"
    \/ from = "loop" /\ to \in {"accept", "close"}
    \/ from = "accept" /\ to \in {"submit", "loop", "close"}
    \/ from = "submit" /\ to = "notify"
    \/ from = "notify" /\ to = "loop"
    \/ from = "close" /\ to = "join_admin"
    \/ from = "join_admin" /\ to = "join_key"
    \/ from = "join_key" /\ to = "wake"
    \/ from = "wake" /\ to = "join_bcast"
    \/ from = "join_bcast" /\ to = "sse_close"
    \/ from = "sse_close" /\ to \in {"attached", "exit"}
    \/ from = "attached" /\ to \in {"detach", "unpause"}
    \/ from = "detach" /\ to \in {"detach_join", "unpause"}
    \/ from \in Detached \ {"exit"} /\ to \in Detached

LEMMA MainEdges ==
    ASSUME Control, MainActs
    PROVE  /\ MainEdge(pc["main"], pc'["main"]) \/ pc'["main"] = pc["main"]
           /\ pc'["main"] = "submit" => MainAccept \/ pc["main"] = "submit"
<1>t. pc \in [Threads -> ThreadPC] /\ "main" \in Threads
    BY DEF Control, Threads
<1>g. ASSUME NEW from, NEW to, Go("main", from, to)
      PROVE  pc["main"] = from /\ pc'["main"] = to
    BY <1>t, <1>g DEF Go
<1>1. CASE MainInitPool \/ MainStartMonitor
    BY <1>g, <1>1 DEF MainInitPool, MainStartMonitor, MainEdge
<1>2. CASE \/ MainStartAdmin
           \/ MainStart("key", "s_key", "s_admin", "top") \/ MainStart("key", "s_key", "s_admin", "off")
           \/ MainStart("bcast", "s_bcast", "loop", IF scen.bcast THEN "top" ELSE "off")
    BY <1>t, <1>2 DEF MainStartAdmin, MainStart, MainEdge
<1>3. CASE MainLoop \/ MainAccept \/ MainAcceptFails \/ MainSubmit
    BY <1>g, <1>3 DEF MainLoop, MainAccept, MainAcceptFails, MainSubmit, MainEdge
<1>4. CASE MainNotify \/ MainWakeBroadcaster
    BY <1>t, <1>4 DEF MainNotify, MainWakeBroadcaster, NotifyEvent, Woken, MainEdge
<1>5. CASE MainSignal \/ MainClose
    BY <1>g, <1>5 DEF MainSignal, MainClose, MainEdge
<1>6. CASE \/ MainJoin("admin", "join_admin", "join_key") \/ MainJoin("key", "join_key", "wake")
           \/ MainJoin("bcast", "join_bcast", "sse_close")
    BY <1>g, <1>6 DEF MainJoin, MainEdge
<1>7. CASE MainCloseSse \/ MainIfAttached \/ MainDetach
    BY <1>g, <1>7 DEF MainCloseSse, MainIfAttached, MainDetach, MainEdge
<1>8. CASE \/ MainMonitor("detach_join", "unpause", MonitorJoin)
           \/ MainMonitor("unpause", "drain", DestroyUnpause) \/ MainDrain
           \/ MainMonitor("stop", "stop_join", MonitorClear)
           \/ MainMonitor("stop_join", "exit", MonitorJoin)
    BY <1>g, <1>8 DEF MainMonitor, MainDrain, MainEdge, Detached
<1> QED
    BY <1>1, <1>2, <1>3, <1>4, <1>5, <1>6, <1>7, <1>8 DEF MainActs, MainStep

(* What the invariants need of it. *)
Forward ==
    /\ pc'["main"] \in {"s_pool", "s_monitor"} => pc["main"] \in {"s_pool", "s_monitor"}
    /\ pc'["main"] \in BeforeAdmin => pc["main"] \in BeforeAdmin
    /\ pc'["main"] \in BeforeBcast => pc["main"] \in BeforeBcast
    /\ pc'["main"] = "submit" => pc["main"] \in {"accept", "submit"}
    /\ pc'["main"] \in Closed => pc["main"] \in Closed \cup {"sse_close", "s_pool"}
    /\ pc["main"] \in Detached => pc'["main"] \in Detached
    /\ pc'["main"] = "exit" /\ running' => running /\ pc["main"] \in {"exit", "s_pool"}

LEMMA MainForward ==
    ASSUME Control, MainActs
    PROVE  Forward
<1>1. running' => running
  <2>1. running' = running \/ running' = FALSE
      BY MainEffect
  <2> QED
      BY <2>1
<1>2. running /\ pc["main"] # "exit" => pc["main"] \notin Ended
    BY DEF Control, Order
<1>3. CASE pc'["main"] = pc["main"]
    BY <1>1, <1>3 DEF Forward
<1>4. CASE MainEdge(pc["main"], pc'["main"])
  <2>1. /\ pc'["main"] \in {"s_pool", "s_monitor"} => pc["main"] \in {"s_pool", "s_monitor"}
        /\ pc'["main"] \in BeforeAdmin => pc["main"] \in BeforeAdmin
        /\ pc'["main"] \in BeforeBcast => pc["main"] \in BeforeBcast
        /\ pc'["main"] = "submit" => pc["main"] \in {"accept", "submit"}
      BY <1>4 DEF MainEdge, BeforeBcast, BeforeAdmin, BeforeKey, Detached
  <2>2. /\ pc'["main"] \in Closed => pc["main"] \in Closed \cup {"sse_close", "s_pool"}
        /\ pc["main"] \in Detached => pc'["main"] \in Detached
      BY <1>4 DEF MainEdge, Closed, Detached
  <2>3. pc'["main"] = "exit" => pc["main"] \in {"s_pool"} \cup Ended
      BY <2>2 DEF Ended, AfterAdmin, AfterKey, AfterBcast, Closed, Detached
  <2>4. pc'["main"] = "exit" /\ running' => running /\ pc["main"] \in {"exit", "s_pool"}
      BY <1>1, <1>2, <2>3
  <2> QED
      BY <2>1, <2>2, <2>4 DEF Forward
<1> QED
    BY <1>3, <1>4, MainEdges
LEMMA StepForward ==
    ASSUME Control, [Next]_vars
    PROVE  Forward
<1>1. CASE MainActs
    BY <1>1, MainForward
<1>2. CASE HandlerActs \/ BroadcastActs \/ AdminStep \/ KeyStep \/ OutsideActs
  <2>1. pc'["main"] = pc["main"] /\ (running' => running)
      BY <1>2, HandlerEffect, BroadcastEffect, AdminEffect, KeyEffect, OutsideEffect
         DEF Moves, Wakes, Threads, procVars
  <2> QED
      BY <2>1 DEF Forward
<1> QED
    BY <1>1, <1>2, WhoActs

-------------------------------------------------------------------------------
(* The connections: a handler is counted in active_connections from accept *)
(* to its answer, and in total_served at most once.                        *)

LivePC == {"accepted", "queued", "started", "recv"}
PastPC == {"notify_log", "notify_end", "log", "lock", "puts", "finish", "dec", "done"}
At(h, S) == {c \in Conns : h[c] \in S}

Stages ==
    /\ pc["main"] = "submit" => cur \in Conns /\ hpc[cur] = "accepted"
    /\ pc["main"] \in BeforeBcast \/ (pc["main"] = "exit" /\ running) =>
          \A c \in Conns : hpc[c] = "none"

Connections ==
    /\ hpc \in [Conns -> HandlerPC] /\ queue \in Seq(Conns) /\ cur \in Conns \cup {None}
    /\ Stages
    /\ active = Cardinality(At(hpc, LivePC))
    /\ served \in Nat /\ served <= Cardinality(At(hpc, PastPC))

LEMMA AtFacts ==
    ASSUME NEW h, NEW S
    PROVE  /\ IsFiniteSet(At(h, S)) /\ Cardinality(At(h, S)) \in 0 .. Cardinality(Conns)
           /\ Cardinality(Conns) \in Nat
<1>1. IsFiniteSet(Conns) /\ At(h, S) \in SUBSET Conns
    BY ServerAssumption DEF At
<1>2. IsFiniteSet(At(h, S)) /\ Cardinality(At(h, S)) <= Cardinality(Conns)
    BY <1>1, FS_Subset
<1> QED
    BY <1>1, <1>2, FS_CardinalityType

(* What becomes of the number of handlers in S when one moves. *)
Recounted(h, g, from, to, S) ==
    /\ (to \in S <=> from \in S) => Cardinality(At(g, S)) = Cardinality(At(h, S))
    /\ to \in S /\ from \notin S => Cardinality(At(g, S)) = Cardinality(At(h, S)) + 1
    /\ to \notin S /\ from \in S => Cardinality(At(g, S)) = Cardinality(At(h, S)) - 1

LEMMA AtMove ==
    ASSUME NEW h \in [Conns -> HandlerPC], NEW c \in Conns, NEW to, NEW S,
           NEW g, g = [h EXCEPT ![c] = to]
    PROVE  Recounted(h, g, h[c], to, S)
<1>1. IsFiniteSet(At(h, S))
    BY AtFacts
<1>2. /\ to \in S => At(g, S) = At(h, S) \cup {c}
      /\ to \notin S => At(g, S) = At(h, S) \ {c}
      /\ c \in At(h, S) <=> h[c] \in S
    BY DEF At
<1>3. /\ c \in At(h, S) => At(h, S) \cup {c} = At(h, S)
      /\ c \notin At(h, S) => At(h, S) \ {c} = At(h, S)
    OBVIOUS
<1>4. c \notin At(h, S) => Cardinality(At(h, S) \cup {c}) = Cardinality(At(h, S)) + 1
    BY <1>1, FS_AddElement
<1>5. c \in At(h, S) => Cardinality(At(h, S) \ {c}) = Cardinality(At(h, S)) - 1
    BY <1>1, FS_RemoveElement
<1> QED
    BY <1>2, <1>3, <1>4, <1>5 DEF Recounted

LEMMA InitConnections == Init => Connections
<1> SUFFICES ASSUME Init PROVE Connections
    OBVIOUS
<1>1. /\ hpc = [c \in Conns |-> "none"] /\ queue = <<>> /\ cur = None /\ active = 0 /\ served = 0
      /\ pc["main"] = "s_pool"
    BY DEF Init, Threads
<1>2. At(hpc, LivePC) = {}
    BY <1>1 DEF At, LivePC
<1>3. Cardinality(At(hpc, LivePC)) = 0 /\ Cardinality(At(hpc, PastPC)) \in Nat
    BY <1>2, FS_EmptySet, AtFacts
<1>4. hpc \in [Conns -> HandlerPC] /\ queue \in Seq(Conns)
    BY <1>1 DEF HandlerPC
<1>5. Stages
    BY <1>1 DEF Stages
<1> QED
    BY <1>1, <1>3, <1>4, <1>5 DEF Connections

(* The handler of c moves. *)
LEMMA MoveConnections ==
    ASSUME Connections, NEW c \in Conns, NEW to \in HandlerPC, hpc' = [hpc EXCEPT ![c] = to],
           queue' \in Seq(Conns), cur' \in Conns \cup {None}, Stages',
           active' = (IF to \in LivePC /\ hpc[c] \notin LivePC THEN active + 1
                      ELSE IF to \notin LivePC /\ hpc[c] \in LivePC THEN active - 1 ELSE active),
           \/ served' = served /\ (hpc[c] \in PastPC => to \in PastPC)
           \/ served' = served + 1 /\ hpc[c] \notin PastPC /\ to \in PastPC
    PROVE  Connections'
<1>1. hpc \in [Conns -> HandlerPC] /\ hpc' \in [Conns -> HandlerPC]
    BY DEF Connections
<1>2. active' = Cardinality(At(hpc', LivePC))
  <2>1. Recounted(hpc, hpc', hpc[c], to, LivePC)
      BY <1>1, AtMove
  <2> QED
      BY <2>1 DEF Connections, Recounted
<1>3. served' \in Nat /\ served' <= Cardinality(At(hpc', PastPC))
  <2>1. Cardinality(At(hpc, PastPC)) \in Nat
      BY AtFacts
  <2>2. Recounted(hpc, hpc', hpc[c], to, PastPC)
      BY <1>1, AtMove
  <2> QED
      BY <2>1, <2>2 DEF Connections, Recounted
<1> QED
    BY <1>1, <1>2, <1>3 DEF Connections
LEMMA FrameConnections ==
    ASSUME Connections, Forward, UNCHANGED connVars, pc'["main"] = "submit" => pc["main"] = "submit"
    PROVE  Connections'
<1>1. UNCHANGED <<cur, hpc, queue, active, served>>
    BY DEF connVars
<1>2. "s_pool" \in BeforeBcast
    BY DEF BeforeBcast, BeforeAdmin, BeforeKey
<1>3. Stages'
    BY <1>1, <1>2 DEF Connections, Stages, Forward
<1> QED
    BY <1>1, <1>3 DEF Connections

LEMMA MainConnections ==
    ASSUME Control, Connections, Forward, MainActs
    PROVE  Connections'
<1>t. /\ hpc \in [Conns -> HandlerPC] /\ queue \in Seq(Conns) /\ cur \in Conns \cup {None}
      /\ active \in Int /\ Stages
    BY AtFacts DEF Connections
<1>g. ASSUME NEW from, NEW to \in ThreadPC, Go("main", from, to)
      PROVE  pc["main"] = from /\ pc'["main"] = to
    BY <1>g, GoMoves DEF Threads
<1>b. /\ "submit" \notin BeforeBcast /\ "loop" \notin BeforeBcast /\ "notify" \notin BeforeBcast
      /\ "submit" \in ThreadPC /\ "loop" \in ThreadPC /\ "notify" \in ThreadPC
    BY DEF BeforeBcast, BeforeAdmin, BeforeKey, ThreadPC, MainPC
<1>h. /\ {"accepted", "queued", "started", "done"} \subseteq HandlerPC
      /\ "none" \notin LivePC \cup PastPC /\ "done" \in PastPC /\ "done" \notin LivePC
      /\ {"accepted", "queued", "started"} \subseteq LivePC /\ "accepted" \notin PastPC
    BY DEF HandlerPC, LivePC, PastPC
<1>1. CASE MainAccept
  <2>1. PICK c \in Conns :
          /\ hpc[c] = "none"
          /\ \/ /\ Go("main", "accept", "submit")
                /\ cur' = c /\ active' = active + 1 /\ hpc' = [hpc EXCEPT ![c] = "accepted"]
             \/ /\ Go("main", "accept", "loop")
                /\ UNCHANGED <<cur, active>> /\ hpc' = [hpc EXCEPT ![c] = "done"]
      BY <1>1, ScenarioFacts DEF MainAccept
  <2>2. served' = served /\ queue' = queue
      BY <1>1 DEF MainAccept
  <2>3. CASE pc'["main"] = "submit"
    <3>1. cur' = c /\ active' = active + 1 /\ hpc' = [hpc EXCEPT ![c] = "accepted"]
        BY <1>b, <1>g, <2>1, <2>3
    <3>2. hpc'[c] = "accepted"
        BY <1>t, <3>1
    <3>3. Stages'
        BY <1>b, <2>3, <3>1, <3>2 DEF Stages
    <3> QED
        BY <1>t, <1>h, <2>1, <2>2, <3>1, <3>3, MoveConnections
  <2>4. CASE pc'["main"] = "loop"
    <3>1. UNCHANGED <<cur, active>> /\ hpc' = [hpc EXCEPT ![c] = "done"]
        BY <1>b, <1>g, <2>1, <2>4
    <3>2. Stages'
        BY <1>b, <2>4 DEF Stages
    <3> QED
        BY <1>t, <1>h, <2>1, <2>2, <3>1, <3>2, MoveConnections
  <2> QED
      BY <1>b, <1>g, <2>1, <2>3, <2>4
<1>2. CASE MainSubmit
  <2>1. /\ Go("main", "submit", "notify") /\ cur' = None /\ served' = served
        /\ \/ /\ hpc' = [hpc EXCEPT ![cur] = IF scen.pool THEN "queued" ELSE "started"]
              /\ queue' = (IF scen.pool THEN Append(queue, cur) ELSE queue)
              /\ active' = active
           \/ hpc' = [hpc EXCEPT ![cur] = "done"] /\ queue' = queue /\ active' = active - 1
      BY <1>2 DEF MainSubmit
  <2>2. pc["main"] = "submit" /\ pc'["main"] = "notify"
      BY <1>b, <1>g, <2>1
  <2>3. cur \in Conns /\ hpc[cur] = "accepted"
      BY <1>t, <2>2 DEF Stages
  <2>4. Stages'
      BY <1>b, <2>2 DEF Stages
  <2>5. queue' \in Seq(Conns)
      BY <1>t, <2>1, <2>3
  <2>6. \E to \in {"queued", "started", "done"} :
            /\ hpc' = [hpc EXCEPT ![cur] = to]
            /\ active' = (IF to = "done" THEN active - 1 ELSE active)
      BY <2>1
  <2> QED
      BY <1>h, <2>1, <2>3, <2>4, <2>5, <2>6, MoveConnections
<1>3. CASE ~MainSubmit /\ ~MainAccept
  <2>1. UNCHANGED connVars
      BY <1>3, MainEffect
  <2> QED
      BY <1>3, <2>1, MainEdges, FrameConnections
<1> QED
    BY <1>1, <1>2, <1>3
LEMMA HandlerMoves ==
    ASSUME Connections, NEW c \in Conns, NEW from, NEW to \in HandlerPC, Handler(c, from, to),
           from \notin {"none", "accepted"}, queue' \in Seq(Conns),
           pc'["main"] = pc["main"], UNCHANGED <<running, cur>>,
           active' = (IF to \in LivePC /\ from \notin LivePC THEN active + 1
                      ELSE IF to \notin LivePC /\ from \in LivePC THEN active - 1 ELSE active),
           \/ served' = served /\ (from \in PastPC => to \in PastPC)
           \/ served' = served + 1 /\ from \notin PastPC /\ to \in PastPC
    PROVE  Connections'
<1>1. hpc \in [Conns -> HandlerPC] /\ cur \in Conns \cup {None} /\ Stages
    BY DEF Connections
<1>2. hpc[c] = from /\ hpc' = [hpc EXCEPT ![c] = to]
    BY DEF Handler
<1>3. Stages'
    BY <1>1, <1>2 DEF Stages
<1> QED
    BY <1>1, <1>2, <1>3, MoveConnections

LEMMA HandlerConnections ==
    ASSUME Control, Connections, HandlerActs
    PROVE  Connections'
<1>t. queue \in Seq(Conns)
    BY DEF Connections
<1>m. pc'["main"] = pc["main"] /\ UNCHANGED <<running, cur>>
    BY HandlerEffect DEF Wakes, Threads, procVars
<1>1. CASE TaskStart
  <2>1. /\ Head(queue) \in Conns /\ queue' \in Seq(Conns)
        /\ Handler(Head(queue), "queued", "started") /\ UNCHANGED <<active, served>>
      BY <1>1, <1>t DEF TaskStart
  <2>2. "started" \in HandlerPC /\ {"queued", "started"} \subseteq LivePC /\ "queued" \notin PastPC
      BY DEF HandlerPC, LivePC, PastPC
  <2> QED
      BY <1>m, <2>1, <2>2, HandlerMoves
<1>2. ASSUME NEW c \in Conns, HandlerRecv(c)
      PROVE  Connections'
  <2>1. /\ UNCHANGED <<queue, served>> /\ active' = active - 1
        /\ \E next \in {"notify_end", "count", "notify_log"} : Handler(c, "recv", next)
      BY <1>2 DEF HandlerRecv
  <2>2. /\ {"notify_end", "count", "notify_log"} \subseteq HandlerPC \ LivePC
        /\ "recv" \in LivePC /\ "recv" \notin PastPC
      BY DEF HandlerPC, LivePC, PastPC
  <2> QED
      BY <1>t, <1>m, <2>1, <2>2, HandlerMoves
<1>3. ASSUME NEW c \in Conns, HandlerCount(c)
      PROVE  Connections'
  <2>1. UNCHANGED <<queue, active>> /\ served' = served + 1 /\ Handler(c, "count", "notify_log")
      BY <1>3 DEF HandlerCount
  <2>2. /\ "notify_log" \in HandlerPC /\ "notify_log" \in PastPC /\ "notify_log" \notin LivePC
        /\ "count" \notin LivePC /\ "count" \notin PastPC
      BY DEF HandlerPC, LivePC, PastPC
  <2> QED
      BY <1>t, <1>m, <2>1, <2>2, HandlerMoves
<1>4. ASSUME NEW c \in Conns,
             HandlerNotify(c) \/ HandlerLog(c) \/ HandlerPrint(c) \/ HandlerReturn(c)
      PROVE  Connections'
  <2>1. UNCHANGED <<queue, active, served>>
      BY <1>4 DEF HandlerNotify, HandlerLog, HandlerPrint, HandlerReturn
  <2>2. CASE Handler(c, "started", "recv")
    <3>1. "recv" \in HandlerPC /\ {"started", "recv"} \subseteq LivePC /\ "started" \notin PastPC
        BY DEF HandlerPC, LivePC, PastPC
    <3> QED
        BY <1>t, <1>m, <2>1, <2>2, <3>1, HandlerMoves
  <2>3. CASE \E from \in PastPC, to \in PastPC : Handler(c, from, to)
    <3>1. PastPC \subseteq HandlerPC \ (LivePC \cup {"none", "accepted"})
        BY DEF HandlerPC, LivePC, PastPC
    <3> QED
        BY <1>t, <1>m, <2>1, <2>3, <3>1, HandlerMoves
  <2>4. \/ Handler(c, "started", "recv")
        \/ \E from \in PastPC, to \in PastPC : Handler(c, from, to)
      BY <1>4 DEF HandlerNotify, HandlerLog, HandlerPrint, HandlerReturn, Return, PastPC
  <2> QED
      BY <2>2, <2>3, <2>4
<1> QED
    BY <1>1, <1>2, <1>3, <1>4 DEF HandlerActs, HandlerStep

LEMMA NextConnections == Control /\ Connections /\ [Next]_vars => Connections'
<1> SUFFICES ASSUME Control, Connections, [Next]_vars PROVE Connections'
    OBVIOUS
<1>1. Forward
    BY StepForward
<1>2. CASE MainActs
    BY <1>1, <1>2, MainConnections
<1>3. CASE HandlerActs
    BY <1>3, HandlerConnections
<1>4. CASE BroadcastActs \/ AdminStep \/ KeyStep \/ OutsideActs
  <2>1. UNCHANGED connVars /\ pc'["main"] = pc["main"]
      BY <1>4, BroadcastEffect, AdminEffect, KeyEffect, OutsideEffect DEF Moves, Threads
  <2> QED
      BY <1>1, <2>1, FrameConnections
<1> QED
    BY <1>2, <1>3, <1>4, WhoActs

(* active_connections counts the connections between accept and answer,    *)
(* and total_served counts no connection twice.                            *)
THEOREM CountersExact == Spec => []Connections
<1>1. Spec => Init /\ [][Next]_vars
    BY DEF Spec
<1> QED
    BY <1>1, InitConnections, NextConnections, ControlInvariant, PTL
-------------------------------------------------------------------------------
(* The log ring: its lines, from start on and around the end, are the last *)
(* ones appended.                                                          *)

RingType ==
    [lines : [0 .. RingSize - 1 -> Conns \cup {None}], start : 0 .. RingSize - 1,
     count : 0 .. RingSize]

Holds(r, lines) ==
    /\ r.count = (IF Len(lines) <= RingSize THEN Len(lines) ELSE RingSize)
    /\ \A i \in 1 .. r.count :
          r.lines[(r.start + i - 1) % RingSize] = lines[Len(lines) - r.count + i]

LogRing == ring \in RingType /\ logged \in Seq(Conns) /\ Holds(ring, logged)

LEMMA Around ==
    ASSUME NEW a \in 0 .. 2 * RingSize - 1
    PROVE  a % RingSize = (IF a < RingSize THEN a ELSE a - RingSize)
    BY ServerAssumption

(* In a full ring the start moves to the second line, and the line written *)
(* over becomes the last.                                                  *)
LEMMA AroundFull ==
    ASSUME NEW start \in 0 .. RingSize - 1
    PROVE  /\ (start + 1) % RingSize \in 0 .. RingSize - 1
           /\ (((start + 1) % RingSize) + RingSize - 1) % RingSize = start
           /\ \A i \in 1 .. RingSize - 1 :
                 /\ (((start + 1) % RingSize) + i - 1) % RingSize = (start + (i + 1) - 1) % RingSize
                 /\ (start + (i + 1) - 1) % RingSize \in (0 .. RingSize - 1) \ {start}
<1>1. RingSize \in Nat \ {0}
    BY ServerAssumption
<1>2. (start + 1) % RingSize = (IF start + 1 < RingSize THEN start + 1 ELSE 0)
    BY <1>1, Around
<1> DEFINE second == (start + 1) % RingSize
<1>3. second \in 0 .. RingSize - 1
    BY <1>1, <1>2
<1>4. (second + RingSize - 1) % RingSize = start
  <2>1. second + RingSize - 1 \in 0 .. 2 * RingSize - 1
      BY <1>1, <1>3
  <2>2. (second + RingSize - 1) % RingSize =
            (IF second + RingSize - 1 < RingSize THEN second + RingSize - 1
             ELSE second + RingSize - 1 - RingSize)
      BY <1>1, <2>1, Around
  <2> QED
      BY <1>1, <1>2, <2>2
<1>5. ASSUME NEW i \in 1 .. RingSize - 1
      PROVE  /\ (second + i - 1) % RingSize = (start + (i + 1) - 1) % RingSize
             /\ (start + (i + 1) - 1) % RingSize \in (0 .. RingSize - 1) \ {start}
  <2> DEFINE a == second + i - 1
             b == start + (i + 1) - 1
  <2>1. a \in 0 .. 2 * RingSize - 1 /\ b \in 0 .. 2 * RingSize - 1
      BY <1>1, <1>3
  <2> HIDE DEF a, b
  <2>2. /\ a % RingSize = (IF a < RingSize THEN a ELSE a - RingSize)
        /\ b % RingSize = (IF b < RingSize THEN b ELSE b - RingSize)
      BY <2>1, Around
  <2> HIDE DEF second
  <2>3. second = (IF start + 1 < RingSize THEN start + 1 ELSE 0)
      BY <1>2 DEF second
  <2>4. a = second + i - 1 /\ b = start + i
      BY <1>1 DEF a, b
  <2>5. a % RingSize = b % RingSize /\ b % RingSize \in (0 .. RingSize - 1) \ {start}
      BY <1>1, <2>2, <2>3, <2>4
  <2> QED
      BY <2>5 DEF a, b
<1> QED
    BY <1>3, <1>4, <1>5

(* In a ring with room the next slot is not one of the lines held. *)
LEMMA AroundRoom ==
    ASSUME NEW start \in 0 .. RingSize - 1, NEW n \in 0 .. RingSize - 1
    PROVE  /\ (start + n) % RingSize \in 0 .. RingSize - 1
           /\ \A i \in 1 .. n : (start + i - 1) % RingSize \in (0 .. RingSize - 1) \ {(start + n) % RingSize}
<1>1. RingSize \in Nat \ {0}
    BY ServerAssumption
<1>2. (start + n) % RingSize = (IF start + n < RingSize THEN start + n ELSE start + n - RingSize)
    BY <1>1, Around
<1>3. ASSUME NEW i \in 1 .. n
      PROVE  (start + i - 1) % RingSize =
                 (IF start + i - 1 < RingSize THEN start + i - 1 ELSE start + i - 1 - RingSize)
    BY <1>1, Around
<1> QED
    BY <1>1, <1>2, <1>3

LEMMA RingAppendHolds ==
    ASSUME NEW r \in RingType, NEW lines \in Seq(Conns), NEW c \in Conns, Holds(r, lines)
    PROVE  RingAppend(r, c) \in RingType /\ Holds(RingAppend(r, c), Append(lines, c))
<1> DEFINE n == Len(lines)
           new == Append(lines, c)
           R == RingAppend(r, c)
<1>1. RingSize \in Nat \ {0} /\ n \in Nat
    BY ServerAssumption
<1>2. /\ r.lines \in [0 .. RingSize - 1 -> Conns \cup {None}]
      /\ r.start \in 0 .. RingSize - 1 /\ r.count \in 0 .. RingSize
      /\ r = [lines |-> r.lines, start |-> r.start, count |-> r.count]
    BY DEF RingType
<1>3. /\ r.count = (IF n <= RingSize THEN n ELSE RingSize)
      /\ \A i \in 1 .. r.count : r.lines[(r.start + i - 1) % RingSize] = lines[n - r.count + i]
    BY DEF Holds
<1>4. /\ new \in Seq(Conns) /\ Len(new) = n + 1
      /\ new[n + 1] = c
      /\ \A k \in 1 .. n : new[k] = lines[k]
    OBVIOUS
<1> HIDE DEF n, new
<1>5. CASE r.count = RingSize
  <2> DEFINE ls == [r.lines EXCEPT ![r.start] = c]
             st == (r.start + 1) % RingSize
  <2>1. R = [lines |-> ls, start |-> st, count |-> RingSize]
      BY <1>2, <1>5 DEF RingAppend, R
  <2>2. /\ st \in 0 .. RingSize - 1 /\ (st + RingSize - 1) % RingSize = r.start
        /\ \A i \in 1 .. RingSize - 1 :
              /\ (st + i - 1) % RingSize = (r.start + (i + 1) - 1) % RingSize
              /\ (r.start + (i + 1) - 1) % RingSize \in (0 .. RingSize - 1) \ {r.start}
      BY <1>2, AroundFull
  <2>3. /\ ls \in [0 .. RingSize - 1 -> Conns \cup {None}] /\ ls[r.start] = c
        /\ \A k \in (0 .. RingSize - 1) \ {r.start} : ls[k] = r.lines[k]
      BY <1>2
  <2> HIDE DEF ls, st, R
  <2>4. n >= RingSize
      BY <1>1, <1>3, <1>5
  <2>5. ASSUME NEW i \in 1 .. RingSize
        PROVE  ls[(st + i - 1) % RingSize] = new[n + 1 - RingSize + i]
    <3>1. CASE i = RingSize
        BY <1>1, <1>4, <2>2, <2>3, <2>4, <3>1
    <3>2. CASE i # RingSize
      <4>1. i \in 1 .. RingSize - 1 /\ i + 1 \in 1 .. RingSize
          BY <1>1, <3>2
      <4>2. ls[(st + i - 1) % RingSize] = r.lines[(r.start + (i + 1) - 1) % RingSize]
          BY <2>2, <2>3, <4>1
      <4>3. r.lines[(r.start + (i + 1) - 1) % RingSize] = lines[n - RingSize + (i + 1)]
          BY <1>3, <1>5, <4>1
      <4>4. n - RingSize + (i + 1) \in 1 .. n /\ n + 1 - RingSize + i = n - RingSize + (i + 1)
          BY <1>1, <2>4, <4>1
      <4> QED
          BY <1>4, <4>2, <4>3, <4>4
    <3> QED
        BY <3>1, <3>2
  <2>6. R \in RingType
      BY <1>1, <2>1, <2>2, <2>3 DEF RingType
  <2>7. Holds(R, new)
    <3>1. R.count = RingSize /\ R.start = st /\ R.lines = ls
        BY <2>1
    <3> QED
        BY <1>1, <1>4, <2>4, <2>5, <3>1 DEF Holds
  <2> QED
      BY <2>6, <2>7 DEF R, new
<1>6. CASE r.count # RingSize
  <2> DEFINE slot == (r.start + r.count) % RingSize
             ls == [r.lines EXCEPT ![slot] = c]
  <2>1. R = [lines |-> ls, start |-> r.start, count |-> r.count + 1]
      BY <1>2, <1>6 DEF RingAppend, R
  <2>2. r.count = n /\ n \in 0 .. RingSize - 1
      BY <1>1, <1>3, <1>6
  <2>3. /\ slot \in 0 .. RingSize - 1
        /\ \A i \in 1 .. r.count : (r.start + i - 1) % RingSize \in (0 .. RingSize - 1) \ {slot}
      BY <1>2, <2>2, AroundRoom
  <2>4. slot = (r.start + (n + 1) - 1) % RingSize
      BY <1>1, <1>2, <2>2
  <2>5. /\ ls \in [0 .. RingSize - 1 -> Conns \cup {None}] /\ ls[slot] = c
        /\ \A k \in (0 .. RingSize - 1) \ {slot} : ls[k] = r.lines[k]
      BY <1>2, <2>3
  <2> HIDE DEF slot, ls, R
  <2>6. ASSUME NEW i \in 1 .. n + 1
        PROVE  ls[(r.start + i - 1) % RingSize] = new[n + 1 - (n + 1) + i]
    <3>1. CASE i = n + 1
        BY <1>1, <1>4, <2>4, <2>5, <3>1
    <3>2. CASE i # n + 1
      <4>1. i \in 1 .. n /\ n - n + i = i /\ n + 1 - (n + 1) + i = i
          BY <1>1, <3>2
      <4>2. ls[(r.start + i - 1) % RingSize] = r.lines[(r.start + i - 1) % RingSize]
          BY <2>2, <2>3, <2>5, <4>1
      <4>3. r.lines[(r.start + i - 1) % RingSize] = lines[n - n + i]
          BY <1>3, <2>2, <4>1
      <4> QED
          BY <1>4, <4>1, <4>2, <4>3
    <3> QED
        BY <3>1, <3>2
  <2>7. R \in RingType
      BY <1>1, <1>2, <2>1, <2>2, <2>5 DEF RingType
  <2>8. Holds(R, new)
    <3>1. R.count = n + 1 /\ R.start = r.start /\ R.lines = ls
        BY <2>1, <2>2
    <3> QED
        BY <1>1, <1>4, <2>2, <2>6, <3>1 DEF Holds
  <2> QED
      BY <2>7, <2>8 DEF R, new
<1> QED
    BY <1>5, <1>6

LEMMA InitLogRing == Init => LogRing
<1> SUFFICES ASSUME Init PROVE LogRing
    OBVIOUS
<1>1. ring = EmptyRing /\ logged = <<>> /\ RingSize \in Nat \ {0}
    BY ServerAssumption DEF Init
<1>2. /\ ring.lines = [i \in 0 .. RingSize - 1 |-> None] /\ ring.start = 0 /\ ring.count = 0
      /\ ring = [lines |-> ring.lines, start |-> ring.start, count |-> ring.count]
    BY <1>1 DEF EmptyRing
<1>3. ring \in RingType
    BY <1>1, <1>2 DEF RingType
<1>4. Len(logged) = 0 /\ logged \in Seq(Conns)
    BY <1>1
<1>5. Holds(ring, logged)
    BY <1>1, <1>2, <1>4 DEF Holds
<1> QED
    BY <1>3, <1>4, <1>5 DEF LogRing

LEMMA NextLogRing == Control /\ LogRing /\ [Next]_vars => LogRing'
<1> SUFFICES ASSUME Control, LogRing, [Next]_vars PROVE LogRing'
    OBVIOUS
<1>1. CASE UNCHANGED <<ring, logged>>
    BY <1>1 DEF LogRing
<1>2. ASSUME NEW c \in Conns, HandlerLog(c)
      PROVE  LogRing'
  <2>1. ring' = RingAppend(ring, c) /\ logged' = Append(logged, c)
      BY <1>2 DEF HandlerLog
  <2>2. ring' \in RingType /\ Holds(ring', logged')
      BY <2>1, RingAppendHolds DEF LogRing
  <2>3. logged' \in Seq(Conns)
      BY <2>1 DEF LogRing
  <2> QED
      BY <2>2, <2>3 DEF LogRing
<1>3. CASE HandlerActs
  <2>1. UNCHANGED <<ring, logged>> \/ \E c \in Conns : HandlerLog(c)
      BY <1>3 DEF HandlerActs, HandlerStep, TaskStart, HandlerNotify, HandlerRecv, HandlerCount,
                  HandlerPrint, HandlerReturn, logVars
  <2> QED
      BY <1>1, <1>2, <2>1
<1>4. CASE MainActs
  <2>1. UNCHANGED logVars
      BY <1>4, MainEffect
  <2> QED
      BY <1>1, <2>1 DEF logVars
<1>5. CASE BroadcastActs \/ AdminStep \/ KeyStep \/ OutsideActs
  <2>1. UNCHANGED <<ring, logged>>
      BY <1>5, BroadcastEffect, AdminEffect, KeyEffect, OutsideEffect DEF logVars
  <2> QED
      BY <1>1, <2>1
<1> QED
    BY <1>3, <1>4, <1>5, WhoActs

(* GET /admin/logs shows the last lines appended, for any ring size, any   *)
(* number of requests and any order of their handlers.                     *)
THEOREM LogsExact == Spec => []RingExact
<1>1. Spec => Init /\ [][Next]_vars
    BY DEF Spec
<1>2. LogRing => RingExact
  <2> SUFFICES ASSUME LogRing PROVE RingExact
      OBVIOUS
  <2> DEFINE n == Len(logged)
             first == 1 + Monus(n, RingSize)
  <2>1. RingSize \in Nat \ {0} /\ n \in Nat
      BY ServerAssumption DEF LogRing
  <2>2. /\ ring.count = (IF n <= RingSize THEN n ELSE RingSize)
        /\ \A i \in 1 .. ring.count :
              ring.lines[(ring.start + i - 1) % RingSize] = logged[n - ring.count + i]
      BY DEF LogRing, Holds
  <2>3. first \in 1 .. n + 1 /\ first = n - ring.count + 1
      BY <2>1, <2>2 DEF Monus
  <2>4. SubSeq(logged, first, n) = [i \in 1 .. n - first + 1 |-> logged[i + first - 1]]
      BY <2>3 DEF LogRing, SubSeq
  <2> HIDE DEF n, first
  <2>5. n - first + 1 = ring.count
      BY <2>1, <2>2, <2>3
  <2>6. ASSUME NEW i \in 1 .. ring.count
        PROVE  logged[i + first - 1] = ring.lines[(ring.start + i - 1) % RingSize]
    <3>1. i + first - 1 = n - ring.count + i
        BY <2>1, <2>2, <2>3
    <3> QED
        BY <2>2, <3>1
  <2>7. RingCopy(ring) = SubSeq(logged, first, n)
      BY <2>4, <2>5, <2>6 DEF RingCopy
  <2> QED
      BY <2>7 DEF RingExact, first, n
<1> QED
    BY <1>1, <1>2, InitLogRing, NextLogRing, ControlInvariant, PTL
===============================================================================
