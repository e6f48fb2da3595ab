------------------------------- MODULE Monitor -------------------------------
(***************************************************************************)
(* The life of the monitor thread of src/monitor.c: start, the thread's    *)
(* loop over the keys, detach, reattach and stop.  What it draws is left   *)
(* out; that it draws, and reads the keyboard, are the states "draw" and   *)
(* "key".  The operators speak of this module's variables only; a module   *)
(* that composes the monitor with its callers adds the rest.               *)
(***************************************************************************)
EXTENDS Naturals

CONSTANTS
    MonThreads,     \* thread ids pthread_create hands out; a joined id is free again
    NoThread        \* monitor_t.tid before the first pthread_create

VARIABLES
    mon,            \* where each monitor thread is
    attached,       \* monitor_t.running
    ever_init,
    tid,
    tid_valid,
    paused          \* thread_pool.paused, which the keys p and r change

monVars == <<mon, attached, ever_init, tid, tid_valid, paused>>

MonPC == {"none", "init", "test", "draw", "key", "end", "exited"}

(* What thread_pool_init stores. *)
MonitorInit ==
    /\ mon = [m \in MonThreads |-> "none"]
    /\ attached = FALSE
    /\ ever_init = FALSE
    /\ tid = NoThread
    /\ tid_valid = FALSE
    /\ paused = FALSE

-------------------------------------------------------------------------------
(* monitor_thread *)

MonitorGo(m, from, to) == mon[m] = from /\ mon' = [mon EXCEPT ![m] = to]

(* The first thread enters ncurses with initscr, a later one with refresh. *)
MonitorEnter(m) ==
    /\ MonitorGo(m, "init", "test")
    /\ ever_init' = TRUE
    /\ UNCHANGED <<attached, tid, tid_valid, paused>>

MonitorTest(m) ==
    /\ MonitorGo(m, "test", IF attached THEN "draw" ELSE "end")
    /\ UNCHANGED <<attached, ever_init, tid, tid_valid, paused>>

MonitorDraw(m) ==
    /\ MonitorGo(m, "draw", "key")
    /\ UNCHANGED <<attached, ever_init, tid, tid_valid, paused>>

(* getch returns one of the keys p, r and q, another key or none; then     *)
(* napms.                                                                  *)
MonitorKey(m) ==
    /\ MonitorGo(m, "key", "test")
    /\ \/ paused' = TRUE /\ attached' = attached
       \/ paused' = FALSE /\ attached' = attached
       \/ paused' = paused /\ attached' = FALSE
       \/ UNCHANGED <<paused, attached>>
    /\ UNCHANGED <<ever_init, tid, tid_valid>>

(* endwin *)
MonitorLeave(m) ==
    /\ MonitorGo(m, "end", "exited")
    /\ UNCHANGED <<attached, ever_init, tid, tid_valid, paused>>

MonitorStep(m) ==
    MonitorEnter(m) \/ MonitorTest(m) \/ MonitorDraw(m) \/ MonitorKey(m) \/ MonitorLeave(m)

-------------------------------------------------------------------------------
(* The calls.  A join blocks until the thread has exited. *)

CanJoin == tid_valid => mon[tid] = "exited"
Joined == IF tid_valid THEN [mon EXCEPT ![tid] = "none"] ELSE mon

(* pthread_create after running has been set, with the threads as in ms;   *)
(* when it fails running is cleared again and tid_valid stays valid.       *)
Create(ms, valid) ==
    \/ \E m \in MonThreads :
          /\ ms[m] = "none"
          /\ mon' = [ms EXCEPT ![m] = "init"]
          /\ tid' = m
          /\ tid_valid' = TRUE
          /\ attached' = TRUE
    \/ mon' = ms /\ attached' = FALSE /\ tid' = tid /\ tid_valid' = valid

MonitorStart ==
    /\ IF attached THEN UNCHANGED <<mon, attached, tid, tid_valid>> ELSE Create(mon, tid_valid)
    /\ UNCHANGED <<ever_init, paused>>

(* Mutated MonitorReattach: the previous thread is not joined. *)
MonitorReattachUnjoined ==
    /\ IF attached \/ ~ever_init
       THEN UNCHANGED <<mon, attached, tid, tid_valid>>
       ELSE Create(mon, tid_valid)
    /\ UNCHANGED <<ever_init, paused>>

MonitorReattach ==
    /\ IF attached \/ ~ever_init
       THEN UNCHANGED <<mon, attached, tid, tid_valid>>
       ELSE CanJoin /\ Create(Joined, FALSE)
    /\ UNCHANGED <<ever_init, paused>>

(* monitor_stop and, once it has found the monitor attached,               *)
(* monitor_detach: clear running, then join.                               *)
MonitorClear ==
    /\ attached' = FALSE
    /\ UNCHANGED <<mon, ever_init, tid, tid_valid, paused>>

MonitorJoin ==
    /\ CanJoin
    /\ mon' = Joined
    /\ tid_valid' = FALSE
    /\ UNCHANGED <<attached, ever_init, tid, paused>>
=============================================================================
