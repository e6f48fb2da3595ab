------------------------------ MODULE DemoServer ------------------------------
(***************************************************************************)
(* demo/http_server.c: the main thread with its accept loop and shutdown,  *)
(* the connection handlers, the admin listener, the SSE broadcaster, the   *)
(* key listener and the pool's monitor (module Monitor).                   *)
(*                                                                         *)
(* The pool is seen from outside: a handler is a task that waits in a FIFO *)
(* queue, is run by one of Workers workers and counts in                   *)
(* total_task_in_system until its worker has subtracted it (ThreadPool     *)
(* shows that the pool does this).  One step is one access to a shared     *)
(* variable or one critical section.                                       *)
(***************************************************************************)
EXTENDS Monitor, Integers, Sequences, FiniteSets

CONSTANTS
    Conns,          \* connections to the render port, one request each
    Subs,           \* connections to the admin port
    Workers,        \* number of workers of the pool
    MaxTasks,       \* --max-tasks, 0 for none
    MaxSse,         \* MAX_SSE_CLIENTS
    RingSize,       \* LOG_RING_SIZE
    Scenarios,      \* how the server is started and who connects to it
    None            \* no connection, no holder, no payload, an unused line

(* What the formatted statistics hold. *)
AnyPayload == [busy : Int, total : Int, depth : Int, active : Int, served : Int]

ASSUME ServerAssumption ==
    /\ IsFiniteSet(Conns) /\ "key" \notin Conns
    /\ None \notin AnyPayload \cup Conns \cup Subs \cup {"key"}
    /\ Workers \in Nat \ {0} /\ RingSize \in Nat \ {0}
    /\ MaxTasks \in Nat /\ MaxSse \in Nat
    /\ Scenarios \subseteq [pool : BOOLEAN, dashboard : BOOLEAN, bcast : BOOLEAN,
                            conns : SUBSET Conns, subs : SUBSET Subs]
    /\ \A s \in Scenarios : s.dashboard => s.pool

VARIABLES
    scen,           \* the scenario of this behaviour
    pc,             \* where main, broadcaster, admin and key listener are
    running,        \* the flag every loop tests
    sigint,         \* a SIGINT is pending for the main thread
    listening,      \* listen_fd and admin_fd are open
    cur,            \* main: the connection just accepted
    hpc,            \* where the handler of each connection is
    queue,          \* tasks the pool has not started
    active,         \* active_connections
    served,         \* total_served
    ring,           \* request_log
    logged,         \* history: the lines appended to it
    log_mtx,        \* who holds log_mtx
    hinted,         \* key listener: ~was_attached
    unseen,         \* bcast_gen # seen
    timed_out,
    last,           \* broadcaster: the last payload sent
    snap,           \* the payload broadcaster and admin are formatting
    cli,            \* admin: the client being served
    table,          \* sse_clients.fds[0 .. count-1]
    fd,             \* state of each admin client's descriptor
    gone,           \* the admin clients that have hung up
    view            \* the last payload each admin client has received

procVars  == <<scen, running, sigint, listening>>
connVars  == <<cur, hpc, queue, active, served>>
logVars   == <<ring, logged, log_mtx, hinted>>
bcastVars == <<unseen, timed_out, last>>
adminVars == <<snap, cli>>
sseVars   == <<table, fd, gone, view>>
data == <<procVars, connVars, logVars, bcastVars, adminVars, sseVars, monVars>>
vars == <<pc, data>>

Threads == {"main", "bcast", "admin", "key"}
SnapPC == {"s_busy", "s_total", "s_depth", "s_active", "s_served"}
MainPC == {"s_pool", "s_monitor", "s_key", "s_admin", "s_bcast", "loop", "accept",
           "submit", "notify", "close", "join_admin", "join_key", "wake", "join_bcast",
           "sse_close", "attached", "detach", "detach_join", "unpause", "drain",
           "stop", "stop_join", "exit"}
ThreadPC == MainPC \cup SnapPC \cup
    {"off", "top", "wait", "asleep", "check", "send", "poll", "recv", "frame",
     "register", "test", "hint", "read", "lock", "reattach", "kill"}
HandlerPC == {"none", "accepted", "queued", "started", "recv", "count", "notify_log",
              "notify_end", "log", "lock", "puts", "finish", "dec", "done"}
Busy == {"started", "recv", "count", "notify_log", "notify_end", "log", "lock", "puts",
         "finish"}

NoStats == [busy |-> 0, total |-> 0, depth |-> 0, active |-> 0, served |-> 0]

EmptyRing == [lines |-> [i \in 0 .. RingSize - 1 |-> None], start |-> 0, count |-> 0]

(* main after the listeners, the signal handler and the log ring are set   *)
(* up.                                                                     *)
Init ==
    /\ scen \in Scenarios
    /\ pc = [t \in Threads |-> IF t = "main" THEN "s_pool" ELSE "off"]
    /\ running = TRUE /\ sigint = FALSE /\ listening = TRUE
    /\ cur = None
    /\ hpc = [c \in Conns |-> "none"]
    /\ queue = <<>> /\ active = 0 /\ served = 0
    /\ ring = EmptyRing /\ logged = <<>>
    /\ log_mtx = None /\ hinted = FALSE
    /\ unseen = FALSE /\ timed_out = FALSE /\ last = None
    /\ snap = [t \in {"bcast", "admin"} |-> NoStats]
    /\ cli = None
    /\ table = <<>>
    /\ fd = [s \in Subs |-> "none"]
    /\ gone = {}
    /\ view = [s \in Subs |-> None]
    /\ MonitorInit

Go(t, from, to) == pc[t] = from /\ pc' = [pc EXCEPT ![t] = to]

-------------------------------------------------------------------------------
(* The gauges of the pool: num_working and total_task_in_system; without a *)
(* pool both read 0.                                                       *)
NumWorking == IF scen.pool THEN Cardinality({c \in Conns : hpc[c] \in Busy}) ELSE 0
InSystem ==
    IF scen.pool THEN Cardinality({c \in Conns : hpc[c] \in Busy \cup {"queued", "dec"}}) ELSE 0
Monus(a, b) == IF a <= b THEN 0 ELSE a - b

(* format_stats_json, in the broadcaster or the admin listener: busy, then *)
(* thread_pool_queue_depth (total, then busy again), then the two counters *)
(* of the server, each read on its own.  Without a pool the gauges are 0.  *)
SnapStart == IF scen.pool THEN "s_busy" ELSE "s_active"
Snapshot(t, next) ==
    /\ \/ Go(t, "s_busy", "s_total") /\ snap' = [snap EXCEPT ![t].busy = NumWorking]
       \/ Go(t, "s_total", "s_depth") /\ snap' = [snap EXCEPT ![t].total = InSystem]
       \/ /\ Go(t, "s_depth", "s_active")
          /\ snap' = [snap EXCEPT ![t].depth = Monus(snap[t].total, NumWorking), ![t].total = 0]
       \/ Go(t, "s_active", "s_served") /\ snap' = [snap EXCEPT ![t].active = active]
       \/ Go(t, "s_served", next) /\ snap' = [snap EXCEPT ![t].served = served]
    /\ UNCHANGED <<procVars, connVars, logVars, bcastVars, cli, sseVars, monVars>>

(* notify_event, called by the thread whose next pc is in p: bump the      *)
(* generation and wake the broadcaster.                                    *)
Woken(p) == IF p["bcast"] = "asleep" THEN [p EXCEPT !["bcast"] = "wait"] ELSE p

(* Mutated NotifyEvent: a signal without a new generation. *)
NotifyEventSignalOnly(p) == unseen' = unseen /\ pc' = Woken(p)

NotifyEvent(p) == unseen' = TRUE /\ pc' = Woken(p)

-------------------------------------------------------------------------------
(* main *)

(* Starting: a thread that cannot be created stays "off"; the broadcaster  *)
(* can be created in the scenarios that say so.  Without the admin         *)
(* listener the server stops at once.                                      *)
MainInitPool ==
    /\ \/ Go("main", "s_pool", IF scen.dashboard THEN "s_monitor" ELSE "s_admin")
          /\ listening' = listening
       \/ scen.pool /\ Go("main", "s_pool", "exit") /\ listening' = FALSE
    /\ UNCHANGED <<scen, running, sigint, connVars, logVars, bcastVars, adminVars,
                   sseVars, monVars>>

MainStartMonitor ==
    /\ Go("main", "s_monitor", "s_key")
    /\ MonitorStart
    /\ UNCHANGED <<procVars, connVars, logVars, bcastVars, adminVars, sseVars>>

MainStart(t, from, to, first) ==
    /\ pc["main"] = from
    /\ pc' = [pc EXCEPT !["main"] = to, ![t] = first]
    /\ UNCHANGED data

MainStartAdmin ==
    /\ pc["main"] = "s_admin"
    /\ \/ /\ pc' = [pc EXCEPT !["main"] = "s_bcast", !["admin"] = "top"]
          /\ UNCHANGED <<running, listening>>
       \/ /\ pc' = [pc EXCEPT !["main"] = "s_bcast"]
          /\ running' = FALSE
          /\ listening' = FALSE
    /\ UNCHANGED <<scen, sigint, connVars, logVars, bcastVars, adminVars, sseVars,
                   monVars>>

(* The accept loop. *)
MainLoop ==
    /\ Go("main", "loop", IF running THEN "accept" ELSE "close")
    /\ UNCHANGED data

(* accept returns a connection, counted as active; when there is no memory *)
(* for its argument it is closed at once.                                  *)
MainAccept ==
    /\ listening
    /\ \E c \in scen.conns :
          /\ hpc[c] = "none"
          /\ \/ /\ Go("main", "accept", "submit")
                /\ cur' = c
                /\ active' = active + 1
                /\ hpc' = [hpc EXCEPT ![c] = "accepted"]
             \/ /\ Go("main", "accept", "loop")
                /\ hpc' = [hpc EXCEPT ![c] = "done"]
                /\ UNCHANGED <<cur, active>>
    /\ UNCHANGED <<procVars, queue, served, logVars, bcastVars, adminVars, sseVars,
                   monVars>>

(* accept on a closed descriptor fails with EBADF. *)
MainAcceptFails ==
    /\ ~listening
    /\ Go("main", "accept", "close")
    /\ UNCHANGED data

(* thread_pool_submit, or pthread_create in naive mode.  Either may fail,  *)
(* and submit rejects when the queue is at capacity; the connection is     *)
(* then closed and no longer active.                                       *)
MainSubmit ==
    /\ Go("main", "submit", "notify")
    /\ \/ /\ MaxTasks = 0 \/ Len(queue) < MaxTasks \/ ~scen.pool
          /\ hpc' = [hpc EXCEPT ![cur] = IF scen.pool THEN "queued" ELSE "started"]
          /\ queue' = IF scen.pool THEN Append(queue, cur) ELSE queue
          /\ active' = active
       \/ /\ hpc' = [hpc EXCEPT ![cur] = "done"]
          /\ queue' = queue
          /\ active' = active - 1
    /\ cur' = None
    /\ UNCHANGED <<procVars, served, logVars, bcastVars, adminVars, sseVars, monVars>>

MainNotify ==
    /\ pc["main"] = "notify"
    /\ NotifyEvent([pc EXCEPT !["main"] = "loop"])
    /\ UNCHANGED <<procVars, connVars, logVars, timed_out, last, adminVars, sseVars,
                   monVars>>

(* on_sigint, which runs in the main thread.  It interrupts an accept that *)
(* blocks; one that is only about to be called will find listen_fd closed. *)
MainSignal ==
    /\ sigint
    /\ pc["main"] # "exit"
    /\ sigint' = FALSE
    /\ running' = FALSE
    /\ listening' = FALSE
    /\ Go("main", "accept", "loop") \/ pc' = pc
    /\ UNCHANGED <<scen, connVars, logVars, bcastVars, adminVars, sseVars, monVars>>

(* Ctrl-C *)
Interrupt ==
    /\ ~sigint /\ running
    /\ sigint' = TRUE
    /\ UNCHANGED <<pc, scen, running, listening, connVars, logVars, bcastVars,
                   adminVars, sseVars, monVars>>

(* Shutting down.  A thread that is "off" was never created. *)
Over(t) == pc[t] \in {"off", "exit"}

MainClose ==
    /\ Go("main", "close", "join_admin")
    /\ listening' = FALSE
    /\ UNCHANGED <<scen, running, sigint, connVars, logVars, bcastVars, adminVars,
                   sseVars, monVars>>

MainJoin(t, from, to) == Over(t) /\ Go("main", from, to) /\ UNCHANGED data

MainWakeBroadcaster ==
    /\ pc["main"] = "wake"
    /\ IF pc["bcast"] = "off"
       THEN pc' = [pc EXCEPT !["main"] = "join_bcast"] /\ unseen' = unseen
       ELSE NotifyEvent([pc EXCEPT !["main"] = "join_bcast"])
    /\ UNCHANGED <<procVars, connVars, logVars, timed_out, last, adminVars, sseVars,
                   monVars>>

Registered == {table[i] : i \in 1 .. Len(table)}

(* sse_close_all; in naive mode there is no pool to destroy. *)
MainCloseSse ==
    /\ Go("main", "sse_close", IF scen.pool THEN "attached" ELSE "exit")
    /\ fd' = [s \in Subs |-> IF s \in Registered THEN "closed" ELSE fd[s]]
    /\ table' = <<>>
    /\ UNCHANGED <<procVars, connVars, logVars, bcastVars, adminVars, gone, view, monVars>>

MainIfAttached ==
    Go("main", "attached", IF attached THEN "detach" ELSE "unpause") /\ UNCHANGED data

(* thread_pool_monitor_detach tests again. *)
MainDetach ==
    /\ IF attached
       THEN Go("main", "detach", "detach_join") /\ MonitorClear
       ELSE Go("main", "detach", "unpause") /\ UNCHANGED monVars
    /\ UNCHANGED <<procVars, connVars, logVars, bcastVars, adminVars, sseVars>>

MainMonitor(from, to, A) ==
    Go("main", from, to) /\ A
    /\ UNCHANGED <<procVars, connVars, logVars, bcastVars, adminVars, sseVars>>

(* thread_pool_destroy, as far as the server can tell: it lets the workers *)
(* go on, waits until nothing is left to run, and stops the monitor.       *)
DestroyUnpause ==
    paused' = FALSE /\ UNCHANGED <<mon, attached, ever_init, tid, tid_valid>>

MainDrain == InSystem = 0 /\ Go("main", "drain", "stop") /\ UNCHANGED data

MainStep ==
    \/ MainInitPool \/ MainStartMonitor \/ MainStartAdmin
    \/ MainStart("key", "s_key", "s_admin", "top") \/ MainStart("key", "s_key", "s_admin", "off")
    \/ MainStart("bcast", "s_bcast", "loop", IF scen.bcast THEN "top" ELSE "off")
    \/ MainLoop \/ MainAcceptFails \/ MainSubmit \/ MainNotify \/ MainSignal
    \/ MainClose \/ MainJoin("admin", "join_admin", "join_key")
    \/ MainJoin("key", "join_key", "wake") \/ MainWakeBroadcaster
    \/ MainJoin("bcast", "join_bcast", "sse_close") \/ MainCloseSse
    \/ MainIfAttached \/ MainDetach
    \/ MainMonitor("detach_join", "unpause", MonitorJoin)
    \/ MainMonitor("unpause", "drain", DestroyUnpause) \/ MainDrain
    \/ MainMonitor("stop", "stop_join", MonitorClear)
    \/ MainMonitor("stop_join", "exit", MonitorJoin)

-------------------------------------------------------------------------------
(* handle_connection, in a worker of the pool or a thread of its own.      *)

Handler(c, from, to) == hpc[c] = from /\ hpc' = [hpc EXCEPT ![c] = to]

(* A worker takes the first task and shows itself busy.  One that has just *)
(* tested paused may do so although the pool is paused.                    *)
TaskStart ==
    /\ queue # <<>> /\ NumWorking < Workers
    /\ Handler(Head(queue), "queued", "started")
    /\ queue' = Tail(queue)
    /\ UNCHANGED <<pc, procVars, cur, active, served, logVars, bcastVars, adminVars,
                   sseVars, monVars>>

(* Where the handler returns to: the worker, or the end of its thread. *)
Return == IF scen.pool THEN "finish" ELSE "done"

HandlerNotify(c) ==
    /\ \/ Handler(c, "started", "recv")
       \/ Handler(c, "notify_log", "log")
       \/ Handler(c, "notify_end", Return)
    /\ NotifyEvent(pc)
    /\ UNCHANGED <<procVars, cur, queue, active, served, logVars, timed_out, last,
                   adminVars, sseVars, monVars>>

(* recv.  A client that hung up is forgotten; a request is answered, with  *)
(* a picture or an error, and the connection closed.                       *)
HandlerRecv(c) ==
    /\ \E next \in {"notify_end", "count", "notify_log"} : Handler(c, "recv", next)
    /\ active' = active - 1
    /\ UNCHANGED <<pc, procVars, cur, queue, served, logVars, bcastVars, adminVars,
                   sseVars, monVars>>

(* Mutated HandlerCount: the connection is taken off active_connections    *)
(* once more.                                                              *)
HandlerCountTwice(c) ==
    /\ Handler(c, "count", "notify_log")
    /\ served' = served + 1
    /\ active' = active - 1
    /\ UNCHANGED <<pc, procVars, cur, queue, logVars, bcastVars, adminVars, sseVars,
                   monVars>>

HandlerCount(c) ==
    /\ Handler(c, "count", "notify_log")
    /\ served' = served + 1
    /\ UNCHANGED <<pc, procVars, cur, queue, active, logVars, bcastVars, adminVars,
                   sseVars, monVars>>

(* Mutated RingAppend: the start stays where it is in a full ring. *)
RingAppendStuck(r, line) ==
    IF r.count = RingSize
    THEN [r EXCEPT !.lines[r.start] = line]
    ELSE [r EXCEPT !.lines[(r.start + r.count) % RingSize] = line, !.count = @ + 1]

(* log_ring_append *)
RingAppend(r, line) ==
    IF r.count = RingSize
    THEN [r EXCEPT !.lines[r.start] = line, !.start = (@ + 1) % RingSize]
    ELSE [r EXCEPT !.lines[(r.start + r.count) % RingSize] = line, !.count = @ + 1]

(* log_ring_copy *)
RingCopy(r) == [i \in 1 .. r.count |-> r.lines[(r.start + i - 1) % RingSize]]

HandlerLog(c) ==
    /\ Handler(c, "log", "lock")
    /\ ring' = RingAppend(ring, c)
    /\ logged' = Append(logged, c)
    /\ UNCHANGED <<pc, procVars, cur, queue, active, served, log_mtx, hinted, bcastVars,
                   adminVars, sseVars, monVars>>

(* log_request takes log_mtx and, unless the monitor is attached, prints   *)
(* the line before it gives it back.                                       *)
HandlerPrint(c) ==
    /\ \/ log_mtx = None /\ attached /\ Handler(c, "lock", Return) /\ log_mtx' = None
       \/ log_mtx = None /\ ~attached /\ Handler(c, "lock", "puts") /\ log_mtx' = c
       \/ Handler(c, "puts", Return) /\ log_mtx' = None
    /\ UNCHANGED <<pc, procVars, cur, queue, active, served, ring, logged, hinted,
                   bcastVars, adminVars, sseVars, monVars>>

(* Back in the worker: busy is cleared, then the task is subtracted. *)
HandlerReturn(c) ==
    /\ Handler(c, "finish", "dec") \/ Handler(c, "dec", "done")
    /\ UNCHANGED <<pc, procVars, cur, queue, active, served, logVars, bcastVars,
                   adminVars, sseVars, monVars>>

HandlerStep(c) ==
    /\ pc["main"] # "exit"
    /\ \/ HandlerNotify(c) \/ HandlerRecv(c) \/ HandlerCount(c) \/ HandlerLog(c)
       \/ HandlerPrint(c) \/ HandlerReturn(c)

-------------------------------------------------------------------------------
(* sse_broadcaster.  The wait loop runs under bcast_mtx, so a test and the *)
(* sleep after it are one step.                                            *)

BroadcastTop ==
    Go("bcast", "top", IF running THEN "wait" ELSE "exit") /\ UNCHANGED data

(* The end of the wait: what has been announced is now seen. *)
Awake(from) ==
    /\ Go("bcast", from, "check")
    /\ timed_out' = ~unseen
    /\ unseen' = FALSE
    /\ UNCHANGED <<procVars, connVars, logVars, last, adminVars, sseVars, monVars>>

BroadcastWait ==
    IF running /\ ~unseen
    THEN Go("bcast", "wait", "asleep") /\ UNCHANGED data
    ELSE Awake("wait")

(* Fifteen seconds have passed. *)
BroadcastTimeout == Awake("asleep")

BroadcastSpurious == Go("bcast", "asleep", "wait") /\ UNCHANGED data

BroadcastCheck ==
    Go("bcast", "check", IF running THEN SnapStart ELSE "exit") /\ UNCHANGED data

(* Mutated SendWalk: the clients to keep are counted, but not moved. *)
SendWalkUnmoved(dead) ==
    LET walk[i \in 0 .. Len(table)] ==
            IF i = 0 THEN [fds |-> table, n |-> 0, wrote |-> {}, closed |-> {}]
            ELSE IF table[i] \in dead
            THEN [walk[i - 1] EXCEPT !.closed = @ \cup {table[i]}]
            ELSE [walk[i - 1] EXCEPT !.n = @ + 1, !.wrote = @ \cup {table[i]}]
    IN  walk[Len(table)]

(* The walk of sse_send_all over fds[0 .. count-1] when the writes to the  *)
(* clients in dead fail.  It closes those and moves the ones it could      *)
(* write to to the front, n of them so far, while it reads on.             *)
SendWalk(dead) ==
    LET walk[i \in 0 .. Len(table)] ==
            IF i = 0 THEN [fds |-> table, n |-> 0, wrote |-> {}, closed |-> {}]
            ELSE LET w == walk[i - 1] IN
                 IF w.fds[i] \in dead
                 THEN [fds |-> w.fds, n |-> w.n, wrote |-> w.wrote,
                       closed |-> w.closed \cup {w.fds[i]}]
                 ELSE [fds |-> [w.fds EXCEPT ![w.n + 1] = w.fds[i]], n |-> w.n + 1,
                       wrote |-> w.wrote \cup {w.fds[i]}, closed |-> w.closed]
    IN  walk[Len(table)]

(* Mutated SendAll: a dropped client is not closed. *)
SendAllLeak(seen) ==
    \E dead \in SUBSET (Registered \cap gone) :
        /\ table' = SubSeq(SendWalk(dead).fds, 1, SendWalk(dead).n)
        /\ view' = [s \in Subs |-> IF s \in SendWalk(dead).wrote \ gone THEN seen[s] ELSE view[s]]
        /\ UNCHANGED <<fd, gone>>

(* sse_send_all.  The write to a client that has hung up may still succeed *)
(* or fail; in the latter case it is dropped.  What is written to a client *)
(* that has not hung up it receives.                                       *)
SendAll(seen) ==
    \E dead \in SUBSET (Registered \cap gone) :
        /\ table' = SubSeq(SendWalk(dead).fds, 1, SendWalk(dead).n)
        /\ fd' = [s \in Subs |-> IF s \in SendWalk(dead).closed THEN "closed" ELSE fd[s]]
        /\ view' = [s \in Subs |-> IF s \in SendWalk(dead).wrote \ gone THEN seen[s] ELSE view[s]]
        /\ gone' = gone

(* A payload that differs from the last one is sent, else a ping after a   *)
(* timeout; then running is tested again.                                  *)
BroadcastSend ==
    /\ Go("bcast", "send", IF running THEN "wait" ELSE "exit")
    /\ last' = snap["bcast"]
    /\ IF snap["bcast"] # last THEN SendAll([s \in Subs |-> snap["bcast"]])
       ELSE IF timed_out THEN SendAll(view)
       ELSE UNCHANGED sseVars
    /\ snap' = [snap EXCEPT !["bcast"] = NoStats]
    /\ timed_out' = FALSE
    /\ UNCHANGED <<procVars, connVars, logVars, unseen, cli, monVars>>

BroadcastStep ==
    BroadcastTop \/ BroadcastWait \/ BroadcastCheck \/ Snapshot("bcast", "send") \/ BroadcastSend

-------------------------------------------------------------------------------
(* admin_listener and handle_admin_connection.  Each round ends with the   *)
(* test of running; poll waits 200 ms, so an idle round changes nothing.   *)

Polling == IF running THEN "poll" ELSE "exit"

AdminTop == Go("admin", "top", Polling) /\ UNCHANGED data

(* poll times out, or accept fails for another reason than EBADF. *)
AdminTick == ~running /\ Go("admin", "poll", "exit") /\ UNCHANGED data

AdminAccept ==
    /\ listening
    /\ Go("admin", "poll", "recv")
    /\ \E s \in scen.subs :
          /\ fd[s] = "none"
          /\ fd' = [fd EXCEPT ![s] = "open"]
          /\ cli' = s
    /\ UNCHANGED <<procVars, connVars, logVars, bcastVars, snap, table, gone, view,
                   monVars>>

(* The descriptor is closed between poll and accept. *)
AdminAcceptFails == ~listening /\ Go("admin", "poll", "exit") /\ UNCHANGED data

(* Close the client served and go back to poll. *)
AdminClose(from) ==
    /\ Go("admin", from, Polling)
    /\ fd' = [fd EXCEPT ![cli] = "closed"]
    /\ cli' = None
    /\ snap' = [snap EXCEPT !["admin"] = NoStats]
    /\ UNCHANGED <<procVars, connVars, logVars, bcastVars, table, gone, view, monVars>>

(* The client hung up, or asked for something that is answered at once     *)
(* (stats, logs, an error), or for the event stream.                       *)
AdminRecv ==
    \/ AdminClose("recv")
    \/ Go("admin", "recv", SnapStart) /\ UNCHANGED data

(* The headers and the first snapshot. *)
AdminFrame ==
    \/ /\ Go("admin", "frame", "register")
       /\ view' = IF cli \in gone THEN view ELSE [view EXCEPT ![cli] = snap["admin"]]
       /\ snap' = [snap EXCEPT !["admin"] = NoStats]
       /\ UNCHANGED <<procVars, connVars, logVars, bcastVars, cli, table, fd, gone,
                      monVars>>
    \/ cli \in gone /\ AdminClose("frame")

(* sse_register; a client the table has no room for is closed. *)
AdminRegister ==
    \/ /\ Len(table) < MaxSse
       /\ Go("admin", "register", Polling)
       /\ table' = Append(table, cli)
       /\ cli' = None
       /\ UNCHANGED <<procVars, connVars, logVars, bcastVars, snap, fd, gone, view,
                      monVars>>
    \/ Len(table) >= MaxSse /\ AdminClose("register")

(* What the admin listener does without a client's help: an accept takes   *)
(* one that connects, a recv returns when it has sent or hung up.          *)
AdminRuns ==
    \/ AdminTop \/ AdminTick \/ AdminAcceptFails \/ (cli \in gone /\ AdminRecv)
    \/ Snapshot("admin", "frame") \/ AdminFrame \/ AdminRegister

AdminStep == AdminRuns \/ AdminAccept \/ AdminRecv

(* A subscriber closes its end. *)
HangUp(s) ==
    /\ fd[s] = "open" /\ s \notin gone
    /\ gone' = gone \cup {s}
    /\ view' = [view EXCEPT ![s] = None]
    /\ UNCHANGED <<pc, procVars, connVars, logVars, bcastVars, adminVars, table, fd,
                   monVars>>

-------------------------------------------------------------------------------
(* key_listener *)

KeyTop == Go("key", "top", IF running THEN "test" ELSE "exit") /\ UNCHANGED data

(* While the monitor is attached the listener only sleeps. *)
KeyTest ==
    /\ Go("key", "test", IF attached THEN "top" ELSE IF hinted THEN "read" ELSE "hint")
    /\ hinted' = (hinted /\ ~attached)
    /\ UNCHANGED <<procVars, connVars, ring, logged, log_mtx, bcastVars, adminVars,
                   sseVars, monVars>>

KeyHint ==
    /\ log_mtx = None
    /\ Go("key", "hint", "read")
    /\ hinted' = TRUE
    /\ UNCHANGED <<procVars, connVars, ring, logged, log_mtx, bcastVars, adminVars,
                   sseVars, monVars>>

(* No key in 200 ms or one without meaning, m, or q. *)
KeyRead ==
    /\ \/ Go("key", "read", "top") /\ running' = running
       \/ Go("key", "read", "lock") /\ running' = running
       \/ Go("key", "read", "kill") /\ running' = FALSE
    /\ UNCHANGED <<scen, sigint, listening, connVars, logVars, bcastVars, adminVars,
                   sseVars, monVars>>

(* Mutated KeyLock: the reattachment does not take log_mtx. *)
KeyLockFree == Go("key", "lock", "reattach") /\ UNCHANGED data

KeyLock ==
    /\ log_mtx = None
    /\ Go("key", "lock", "reattach")
    /\ log_mtx' = "key"
    /\ UNCHANGED <<procVars, connVars, ring, logged, hinted, bcastVars, adminVars,
                   sseVars, monVars>>

KeyReattach ==
    /\ Go("key", "reattach", "top")
    /\ MonitorReattach
    /\ log_mtx' = None
    /\ UNCHANGED <<procVars, connVars, ring, logged, hinted, bcastVars, adminVars,
                   sseVars>>

(* Mutated KeyKill: running is cleared, main is not signalled. *)
KeyKillSilent == Go("key", "kill", "top") /\ UNCHANGED data

(* pthread_kill(main_tid, SIGINT) *)
KeyKill ==
    /\ Go("key", "kill", "top")
    /\ sigint' = TRUE
    /\ UNCHANGED <<scen, running, listening, connVars, logVars, bcastVars, adminVars,
                   sseVars, monVars>>

KeyStep ==
    KeyTop \/ KeyTest \/ KeyHint \/ KeyRead \/ KeyLock \/ KeyReattach \/ KeyKill

MonitorThread(m) ==
    /\ MonitorStep(m)
    /\ UNCHANGED <<pc, procVars, connVars, logVars, bcastVars, adminVars, sseVars>>

-------------------------------------------------------------------------------
Next ==
    \/ MainStep \/ MainAccept \/ Interrupt
    \/ (pc["main"] # "exit" /\ TaskStart)
    \/ \E c \in Conns : HandlerStep(c)
    \/ BroadcastStep \/ BroadcastTimeout \/ BroadcastSpurious
    \/ AdminStep
    \/ \E s \in Subs : HangUp(s)
    \/ KeyStep
    \/ \E m \in MonThreads : MonitorThread(m)
    \/ (pc["main"] = "exit" /\ UNCHANGED vars)

(* Every thread runs on unless it waits in accept or recv for a client, a  *)
(* worker takes a task unless the pool is paused, and a wait of the        *)
(* broadcaster times out (its deadline is absolute, so spurious wakeups do *)
(* not put it off).  Nobody has to connect, to send a request, to hang up  *)
(* or to press a key: recv and accept have no timeout.                     *)
Fairness ==
    /\ WF_vars(MainStep)
    /\ WF_vars(~paused /\ TaskStart)
    /\ \A c \in Conns : WF_vars(hpc[c] # "recv" /\ HandlerStep(c))
    /\ WF_vars(BroadcastStep) /\ SF_vars(BroadcastTimeout)
    /\ WF_vars(AdminRuns) /\ WF_vars(KeyStep)
    /\ \A m \in MonThreads : WF_vars(MonitorThread(m))

Spec == Init /\ [][Next]_vars /\ Fairness

-------------------------------------------------------------------------------
(* Properties *)

Payload == [busy : 0 .. Cardinality(Conns), total : 0 .. Cardinality(Conns),
            depth : 0 .. Cardinality(Conns), active : 0 .. Cardinality(Conns),
            served : 0 .. Cardinality(Conns)]

(* Every variable has its type.  active_connections is an unsigned counter *)
(* (http_server.c:53) that handlers and the accept loop add to and         *)
(* subtract from: it never wraps below 0.                                  *)
TypeOK ==
    /\ scen \in Scenarios
    /\ pc \in [Threads -> ThreadPC]
    /\ running \in BOOLEAN /\ sigint \in BOOLEAN /\ listening \in BOOLEAN
    /\ cur \in Conns \cup {None}
    /\ hpc \in [Conns -> HandlerPC]
    /\ queue \in Seq(Conns)
    /\ active \in 0 .. Cardinality(Conns) /\ served \in 0 .. Cardinality(Conns)
    /\ ring \in [lines : [0 .. RingSize - 1 -> Conns \cup {None}],
                 start : 0 .. RingSize - 1, count : 0 .. RingSize]
    /\ logged \in Seq(Conns)
    /\ log_mtx \in Conns \cup {"key", None} /\ hinted \in BOOLEAN
    /\ unseen \in BOOLEAN /\ timed_out \in BOOLEAN /\ last \in Payload \cup {None}
    /\ snap \in [{"bcast", "admin"} -> Payload]
    /\ cli \in Subs \cup {None}
    /\ table \in Seq(Subs)
    /\ fd \in [Subs -> {"none", "open", "closed"}]
    /\ gone \subseteq Subs
    /\ view \in [Subs -> Payload \cup {None}]
    /\ mon \in [MonThreads -> MonPC]
    /\ attached \in BOOLEAN /\ ever_init \in BOOLEAN /\ tid_valid \in BOOLEAN
    /\ tid \in MonThreads \cup {NoThread}
    /\ paused \in BOOLEAN

(* A change of active_connections or total_served is never slept over:     *)
(* when the broadcaster sleeps, nothing is announced that it has not seen  *)
(* and nobody is between a change and its notify_event, then the last      *)
(* frame sent carries both counters as they are.                           *)
Announcing ==
    \/ pc["main"] \in {"submit", "notify"}
    \/ \E c \in Conns : hpc[c] \in {"count", "notify_log", "notify_end"}

ChangesAnnounced ==
    pc["bcast"] = "asleep" /\ ~unseen /\ ~Announcing =>
        IF last = None THEN active = 0 /\ served = 0
        ELSE last.active = active /\ last.served = served

(* A round of the broadcaster loses nobody: sse_send_all moves the clients *)
(* it keeps over the ones it drops while it is still walking the table,    *)
(* and afterwards every subscriber that is there is in the table, in the   *)
(* same order and with nobody new, and has the payload if there was a new  *)
(* one.                                                                    *)
Before(fds, s, t) ==
    \E i \in 1 .. Len(fds) : \E j \in i .. Len(fds) : fds[i] = s /\ fds[j] = t

FrameReachesAll ==
    [][pc["bcast"] = "send" /\ pc'["bcast"] # "send" =>
         /\ Registered' \subseteq Registered
         /\ \A s, t \in Registered \ gone : Before(table, s, t) => Before(table', s, t)
         /\ last' # last => \A s \in Registered \ gone : view'[s] = last']_vars

(* Every descriptor of an admin client has one owner: while it is open it  *)
(* is either the one handle_admin_connection works on or in the table, in  *)
(* one place; the table holds open ones only; and when main returns all    *)
(* are closed.                                                             *)
DescriptorsOwned ==
    /\ \A i, j \in 1 .. Len(table) : table[i] = table[j] => i = j
    /\ \A s \in Subs : fd[s] = "open" <=> (s = cli \/ s \in Registered)
    /\ cli \notin Registered
    /\ pc["main"] = "exit" => \A s \in Subs : fd[s] # "open"

(* GET /admin/logs shows the latest RingSize lines, oldest first, however  *)
(* often log_ring_append has wrapped around.                               *)
RingExact ==
    RingCopy(ring) = SubSeq(logged, 1 + Monus(Len(logged), RingSize), Len(logged))

(* The key listener and the dashboard never read stdin at once             *)
(* (http_server.c:606).                                                    *)
OneReader == pc["key"] = "read" => \A m \in MonThreads : mon[m] # "key"

(* log_request prints only while the monitor is detached: attached, tested *)
(* under log_mtx, is still false when the line is printed, because the     *)
(* reattachment takes log_mtx as well.  This is about the flag; a monitor  *)
(* thread that has been told to leave may not have called endwin yet.      *)
PrintsDetached == (\E c \in Conns : hpc[c] = "puts") => ~attached

(* A server told to stop, by Ctrl-C, by q or because a thread could not be *)
(* created, never comes to a standstill of its own making, whatever the    *)
(* pool, the broadcaster and the monitor were doing: until main returns,   *)
(* some thread can go on without a timeout, or main waits for a thread     *)
(* that waits in recv for a client.                                        *)
ServerRuns ==
    \/ ENABLED MainStep
    \/ ENABLED (~paused /\ TaskStart)
    \/ \E c \in Conns : hpc[c] # "recv" /\ ENABLED HandlerStep(c)
    \/ ENABLED BroadcastStep
    \/ ENABLED AdminRuns
    \/ ENABLED KeyStep
    \/ ~attached /\ \E m \in MonThreads : ENABLED MonitorThread(m)

AwaitsClient ==
    \/ pc["main"] = "join_admin" /\ pc["admin"] = "recv" /\ cli \notin gone
    \/ pc["main"] = "drain" /\ \E c \in Conns : hpc[c] = "recv"

StopGoesOn == ~running /\ pc["main"] # "exit" => ServerRuns \/ AwaitsClient

(* The shutdown is prompt regardless of admin traffic (demo/doc-apis.md,   *)
(* lines 191 and 192): however the server is stopped, main joins every     *)
(* thread and returns.                                                     *)
Exits == ~running ~> pc["main"] = "exit"
=============================================================================
