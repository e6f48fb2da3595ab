# thread_pooling in TLA+

This directory specifies the concurrent parts of the thread pool in TLA+,
model-checks them with TLC on small instances and proves all but one of the
safety properties (`StopGoesOn`, which uses `ENABLED`), the action properties
and the refinement it states with TLAPS, for every number
of threads, tasks, connections and subscribers.

## The system and its parts

| part | code | what happens in it |
| --- | --- | --- |
| priority queue | `src/priority_queue.c` | three FIFO lanes as linked lists, a ready mask, a size with a lockless mirror, a capacity, one mutex and the condition `not_empty`; an aging pass moves old prefixes one lane up |
| pool core | `src/thread_pool.c` | workers; `submit`, `pause`, `resume`, `wait`, `set_max_tasks`, `destroy`; the atomics `shutdown`, `paused`, `in_flight_submits`, `total_task_in_system`; the conditions `pause_cond` and `drain_cond` |
| aging thread | `src/thread_pool.c` 56-115, 404-443 | a timed loop that calls `pq_aging`; enable and disable start and join it |
| tasks, gauge | `src/task.c`, `src/worker.c` | allocation of a task; the number of busy workers |
| monitor | `src/monitor.c` | an ncurses thread of the pool whose keys call `pause` and `resume`; start, stop, detach, reattach |
| baseline pool | `src/baseline/baseline.c` | a plain FIFO pool used for comparison |
| demo server | `demo/http_server.c` | an accept loop that submits connections to the pool (or starts a thread for each), an admin listener, a broadcaster that pushes statistics to subscribers, a key listener, a log ring; shuts down on SIGINT |
| lock studies | `proof/` | a bakery lock and a filter lock |
| benchmarks | `benchmark/` | timing harnesses over both pools |

Clients call the pool; the pool's workers block in the queue; the aging thread
changes the queue under the same mutex; the monitor thread is both a part of
the pool (destroy joins it) and a client of it (its keys pause and resume). The
demo server uses all of it: its handlers are the pool's tasks, its statistics
are the pool's gauges, and its key listener shares the terminal with the
monitor.

## Modules

| module | models |
| --- | --- |
| `PriorityLanes` | the queue as a value: operators on three sequences (insert, first, remove, promote, capacity) |
| `LaneQueue` | what the queue promises, as a state machine over those operators |
| `PriorityQueue` | the queue as the code has it: `heads`, `tails`, `next`, `priority`, `ready_mask`, `size`, `depth`; it implements `LaneQueue` |
| `ThreadPool` | the pool's core: workers, clients, destroy, the aging thread's effect on the queue |
| `PoolLifecycle` | the pool's resources and threads: `thread_pool_init` with its failure paths, the loop of `aging_worker`, `enable_aging`, `disable_aging`, pause and resume, destroy |
| `BaselinePool` | the comparison pool: init with its failure paths, workers, submit, wait, shutdown |
| `Monitor` | the life of the monitor thread: start, its loop and keys, detach, reattach, stop; operators to be composed with the callers |
| `DemoServer` | the server's threads, composed with `Monitor`; the pool is seen from outside |
| `PriorityLanesProofs` | lemmas about the operators of `PriorityLanes` |
| `QueueProofs` | the inductive invariant of `PriorityQueue` (the pointers represent three lanes), the theorems that follow from it, and the refinement of `LaneQueue` |
| `ThreadPoolProofs` | the inductive invariant of `ThreadPool` and the theorems that follow from it, the bound on a pause and the absence of lost wakeups |
| `BaselineProofs` | the inductive invariant of `BaselinePool` and the theorems that follow from it |
| `LifecycleProofs` | the inductive invariants of `PoolLifecycle`: what `aging_enable` and `aging_tid` say of the aging thread, the passes of a paused pool, the phases of init and destroy |
| `ServerStateProofs` | `DemoServer`: the order of main's life, the counters of the connections, the log ring |
| `ServerProofs` | `DemoServer`: what the broadcaster knows, and who uses the terminal |
| `ServerClientProofs` | `DemoServer`: the walk of `sse_send_all`, the descriptors of the admin clients, the types |
| `MCPriorityQueue`, `MCThreadPool`, `MCBaselinePool`, `MCDemoServer` | constants, scenarios and symmetry for TLC |

### How ThreadPool corresponds to the code

One step is one access to an atomic or one critical section. `wpc[w]` is where
worker `w` is in `worker_func`, `cpc[c]` where client `c` is in the call it
makes, `dpc` where the one call of `thread_pool_destroy` is. Each label is named
for the statement that comes next; the actions are listed with their lines in
`PROJECT.json`.

* A condition variable is the set of threads at its waiting label (`waiting`:
  `not_empty`; `paused`: `pause_cond`; `t_waiting`, `d_waiting`: `drain_cond`).
  A signal moves at most one thread back to its re-check, a broadcast all, and
  `SpuriousWakeup` any one at any time.
* "Test, then `pthread_cond_wait`" is one step. A thread that has tested and not
  yet slept holds the mutex, and every signal and broadcast on these conditions
  but two is sent with that mutex held, so none can fall in between. The
  exceptions are the signal after a push (`priority_queue.c:113`) and the
  broadcast after a promotion (`:295`). The signal comes after a critical section
  of the same mutex and is a step of its own, `SubmitSignal`. The broadcast is
  merged with its promotion; arriving later it could only wake threads that
  `SpuriousWakeup` may wake as well.
* `paused` and `total_task_in_system` are changed outside the mutexes of the
  conditions that depend on them, and are steps of their own.
* `pq_try_push` is two steps: it takes the mutex, loads `max_tasks` and tests it
  (`SubmitTryPush`), then inserts and unlocks (`SubmitInsert`). `pq_set_max_tasks`
  stores without the mutex and can come in between, so the capacity that binds a
  push is the one it loaded (`limit`), and a push may exceed one that has just been
  lowered. While the mutex is held nobody else enters the queue (`PqFree`).
* The two relaxed loads of `pq_is_full_approx` are one step, and `task_create`
  is one step with the increment of `total_task_in_system`: nobody else sees the
  task before.
* Every task stands for one call of `submit`, so `Task` bounds the calls.
  `SubmitCreate` may fail, as `malloc` may.
* `Overlapping` says which clients may have calls open while destroy runs. The
  other clients have returned from their calls when destroy begins, which is
  what the ordinary user of the interface does. `Monitors` are the pausers that
  are the pool's own monitor thread; they may act until `monitor_stop` has joined
  them, and after it has cleared `running` (`d_stopping`) each may still handle one
  key, the one it read before it tests the flag (`Back`). The monitor reads `paused` before it calls; leaving the test out only
  adds calls that change nothing.
* `AgingPromote` allows any prefix of a lane to move, with no clock and no
  test of shutdown; that is more than the aging thread does (`PriorityQueue`
  has the exact pass). `thread_pool_disable_aging` inside destroy is one step.
* A client inside a call when the pool is freed uses freed memory; the model
  stops it there. It happens to a submit that has begun and has not counted
  itself when destroy reads `in_flight_submits`; destroy cannot know of it, and
  keeping such calls away is the caller's duty.
* Atomics are sequentially consistent. The orderings the code asks for are
  weaker in places (`total_task_in_system` is incremented relaxed, and the push
  under the mutex publishes it).

`accepted`, `called`, `runs` and `finished` are history variables: the tasks
`pq_try_push` took, the calls made, how often each task ran, and how many tasks
each worker finished in the current pause.

### How PriorityQueue corresponds to the code

Every operation is one critical section, with the pointer assignments of the
code. `pass` is between the two halves of `pq_aging`, which take the mutex
separately; `PromotePrefix` reads the clock before it takes the lock (`now` is
any earlier moment) and may do nothing, since shutdown may have been requested.
A task is stamped at any moment up to the push, or not at all (`submit_time` 0:
aging was off). A popped task is the caller's; its fields go back to what
`task_create` sets. `priority` and the ready mask are a number and a set of
bits; the nanosecond arithmetic of `has_passed_ms` is a difference of ticks.

### How BaselinePool corresponds to the code

Steps and conditions are as in `ThreadPool`. `opc` is where the thread that owns
the pool is, in `baseline_pool_init` (allocation, which may fail; one
`pthread_create` per step, which may fail; the wakeup and the joins of the
failure path) and later in `baseline_pool_shutdown`. The list from `queue.head`
to `queue.tail` is a sequence. The differences from the main pool are kept:
`submit` reads `shutdown` before it counts itself, `shutdown` wakes the workers
before its spin, `drain_cond` is broadcast. `accepted` and `started` are the
tasks `q_push` took and `q_pop_until_shutdown` gave, in order. `overlapping` is
the set of clients of this behaviour whose calls may be open while shutdown
runs, one of `Overlaps`.

A submit that has read `shutdown` and not yet counted itself (`baseline.c`
187-190) is not waited for by the spin. If it goes on after the drain loop its
task is queued with every worker gone, and freed unrun, although the comment at
lines 11-13 says that "destroy() guarantees no task is dropped". `DrainExact`,
`TasksRun`, `WaitReturns` and `ShutdownReturns` are therefore about behaviours
with `overlapping = {}`; `TotalExact`, `NoLostWakeup` and `IInv` are about all.

### How PoolLifecycle corresponds to the code

`pc[c]` is where caller `c` is: `i_` in `thread_pool_init`, `e_` in
`thread_pool_enable_aging`, `x_` in `thread_pool_disable_aging`, `d_` in
`thread_pool_destroy`. `held` is the set of what is allocated or initialised;
init acquires it in the order of `Resources`, any step of it may fail. A failed
step goes to the label its `goto` names (`ErrorLabel`), and each label destroys
what it names (`Destroys`), whether or not it is held, and falls through to the
next (`FallsTo`). `apc[a]` is where the aging thread with id
`a` is; it holds `aging_mutex` in the states of `Holding`, and whoever else takes
that mutex waits until it is free. An id that has been joined can be handed out
again. No task is submitted here, so the workers wait out a pause, look into the
empty queue and sleep; the drain loop and the spin of destroy pass at once, and the monitor
is not started.

`aging_tid` and the two halves of enable and disable are not protected by one
lock. Calls that overlap between the store of `aging_enable` and the join can
join a thread twice, join an id that was not written yet, or lose the id of a
running thread. `overlap` becomes true at the first such moment and the
behaviour ends there: all properties are about callers that exclude each other
in that part, and about them only. Two enables in a row, two disables in a row,
and calls that overlap anywhere else are included.

### How Monitor and DemoServer correspond to the code

`Monitor` has the three flags and the thread id of `monitor_t`, and one state
per statement of `monitor_thread` that matters to others: it draws, or it reads
the keyboard. Start, reattach and the two halves of detach and stop (clear
`running`; join) are operators that `DemoServer` uses in the steps of its
threads.

In `DemoServer`, `pc` has the four threads of the server (main, the broadcaster,
the admin listener, the key listener), `hpc[c]` the handler of connection `c`.

* The pool is its interface: a handler waits in a FIFO queue (all have the same
  priority), a worker shows itself busy, and the task counts in
  `total_task_in_system` until its worker has subtracted it. `ThreadPool` is
  where the pool itself is checked. Without a pool (naive mode) each handler is a
  thread of its own.
* `format_stats_json` reads four values one after another, and the queue depth
  from two reads; each is a step. The scan over the busy flags is one step,
  which is exact for the single worker of the runs.
* `bcast_gen` and `seen` are compared only, so `unseen` (they differ) stands for
  both.
* The subscriber table is a sequence, and `sse_send_all`'s walk, which writes to
  each client it reads, closes those it cannot write to and moves the others to
  the front while it reads on, is the recursive function inside `SendWalk`: whom
  it wrote to and whom it closed come out of the walk. `FrameReachesAll` says what
  the walk has to achieve without computing it: whoever is there and stood before
  another still does (`Before`), and shows the new payload. A client that has hung
  up may fail the next write or not.
* A request is a choice: the client hangs up, is answered with a picture, or with
  an error; an admin client is answered at once or opens a stream.
* `log_mtx` has a holder. The ring is an array with `start` and `count`, as in
  the code; `logged` is the history it is compared with.
* SIGINT is handled by the main thread: the key listener sends it there, and for
  Ctrl-C the kernel prefers the main thread, which does not block it. The handler
  ends a blocked `accept` with EINTR (no `SA_RESTART`).
* `scen` says whether there is a pool, a dashboard and a broadcaster and who
  connects. A thread that cannot be created stays `off`.

## Runs

| run | expects | shows |
| --- | --- | --- |
| `pool_safety` | pass | all safety properties and the inductive invariant `IInv` with 2 workers, 2 submitters that may overlap destroy, 3 tasks of 2 priorities, capacities 0 and 1, a controller that pauses, resumes, waits and sets the capacity, and aging |
| `pool_liveness` | pass | under fairness every accepted task runs, `wait` and `destroy` return, as long as submit and destroy do not overlap, there is no capacity, and one thread waits and alone pauses |
| `priority_queue` | pass | 4 tasks, 3 lanes, capacity 0 or 2, 2 clock ticks: the lists are well formed, a pass lifts a task one level at most, `LaneQueue` is implemented |
| `baseline` | pass | the comparison pool with 2 workers, 2 submitters, 2 waiters and 2 tasks: exact counter and no lost wakeup with and without a submit that overlaps shutdown; without, every task runs and init (also when a `pthread_create` fails), wait and shutdown return |
| `lifecycle` | pass | init failing at every step leaves nothing behind; pause, resume, enable and disable by the owner and another caller in any order, then destroy: joins are valid, a paused pool ages once more at most, every call returns, aging goes on after a resume |
| `server` | pass | the broadcaster sleeps over no change of the connection counters, a frame reaches every subscriber of the table, each descriptor has one owner, the log ring shows the latest lines, one thread reads the keyboard, a request line is printed only while the monitor is flagged detached, and a server told to stop waits for nothing but a client |
| `destroy_races_submit` | violation | a worker leaves on shutdown before an in-flight submit has pushed; destroy waits for ever |
| `rejected_push` | violation | a rejected push takes the count to 0 silently; a waiter sleeps for ever |
| `two_waiters` | violation | the last worker wakes one of two waiters |
| `monitor_pause` | violation | a pause key handled during destroy blocks the workers; destroy never returns |
| `pause` | violation | a worker takes a task that is submitted after `thread_pool_pause` has returned |
| `silent_admin` | violation | an admin client that connects and sends nothing keeps main waiting at shutdown |

The six violations are disagreements between the code and what its headers,
comments, tests or documents say; `PROJECT.json` quotes both sides.
`pool_liveness` makes five assumptions. Four are the negations of what
`destroy_races_submit`, `rejected_push`, `two_waiters` and `monitor_pause` show:
dropping any one of them gives the corresponding violation. The fifth is that the
only thread that pauses is the one that waits; with another pauser `wait` can be
left asleep by a pause that comes right after it has resumed the pool
(`thread_pool.c:307`), until somebody resumes. No run has that case.

`pause` and `PauseBound` belong together. A worker asleep in
`pq_pop_until_shutdown` tests only the ready mask when it is woken, so it takes
one task in a pause, also one submitted during it; it then meets the test of
`paused`. One task for each worker and pause is the bound that holds (and the one
`test_thread_pool.c:302` asserts); that no task is taken in a pause, as the
comment at line 301 and `benchmark_aging.c:66` have it, does not.

**Bounds.** Two workers are needed for one to sleep while another works or
leaves; two submitters for two to pass the approximate capacity test together;
three tasks for one to be queued, one held and one pushed at a time, and two
priorities for an overtaking; capacity 1 against three tasks rejects pushes at
both tests. In `priority_queue` four tasks give a lane with a promoted prefix, a
remaining suffix and a non-empty destination; with a promotion time of one tick
two ticks give aged, fresh and unstamped tasks. In `baseline` two waiters are what tells a broadcast from a signal, and two
workers what makes a `pthread_create` fail after another worker sleeps.
Violation runs use the smallest
instance that has the case. In `lifecycle` the callers are the owner and one that enables and disables
against it, two ids let a new aging thread start after one was joined, and
two workers make the second `pthread_create` fail after the first worker sleeps.
In `server` six scenarios put a few of the server's actors together each: a
broadcaster with a pool and with two naive handlers, one with a subscriber and a
connection, three subscribers for a table of two, three log lines for a ring of
two (the start moves once; that it may pass the end of the array is covered by
`LogsExact`), and the dashboard with its keys and a handler. A second id lets
the monitor be reattached while the first thread is still leaving. One worker and
a capacity of one reject the third connection. `silent_admin` needs one admin client
and neither pool nor broadcaster.
Symmetry is used in two of the safety runs only:
workers, submitters and the two tasks of equal priority in `pool_safety`, all
tasks in `priority_queue`.

**Fairness.** Weak fairness of each worker's, each client's and destroy's own
steps (and, in `BaselinePool`, of init's): the scheduler runs a thread that can run, a mutex is handed on, and a
task's function returns. No client is obliged to call anything, nobody is
obliged to resume, and no spurious wakeup is obliged to happen. `TasksRun` is
therefore stated for behaviours in which the pool is paused finitely often.

In `PoolLifecycle` the callers' steps are strongly fair: the aging thread takes
`aging_mutex` in every round, so a caller that waits for it is not enabled
continuously; it gets it since the aging thread gives the mutex up for a whole
interval. In `DemoServer` the timeout of the broadcaster is strongly fair: its
deadline is absolute, and spurious wakeups do not put it off. A worker need take
a task only while the pool is not paused. Nobody has to connect, to send a
request, to hang up or to press a key: `accept` and `recv` have no timeout in the
code. Under this fairness the server need not exit (`silent_admin`). What holds
is `StopGoesOn`, an invariant: a server told to stop has, until main returns, a
thread that can take a step without a timeout or a key, or main waits for a thread
that waits in `recv` for a client (`AwaitsClient`). So no thread of the server
waits for another in a circle, and none waits for a signal that was sent too
early.

**Deadlock** is not checked for `ThreadPool`, `PriorityQueue` and `BaselinePool`: a
pool nobody calls is at rest. It is checked in `lifecycle`, `server` and
`silent_admin`, whose behaviours stutter only when the owner is done, when main
has returned, or after an overlap.

## Proofs

### The pool

`ThreadPoolProofs` proves for any finite sets of workers and clients, any set
of tasks with any priorities, any capacities, with or without aging, and with
any clients overlapping destroy (`ThreadAssumption`, `TaskAssumption`):

* `Inductive`: `Spec => []IInv`, and from it
* `TypeCorrect`, `TotalCorrect`, `InFlightCorrect`, `SubmissionCloses`,
  `SingleOwner`, `AtMostOnce`, `DropsNothing`, `WaitIsExact`, `CapacityKept`,
* `PauseBounded` and `NoWakeupLost`, each with a strengthening of its own.

The argument. The two counters are exact: each is the cardinality of a set of
threads at given labels (plus the size of the queue), and a step moves at most
one thread in or out of the set (`CardStep`). With exact counters the spin of
destroy sees 0 only if nobody is between the increment and the decrement in
`submit`; `Shut` (destroy has begun exactly when `shutdown` is set) makes every
later submitter turn back, hence `SubmissionClosed`. From then on `total` can
only fall, so what the drain loop saw stays true (`Drained`). `OneOwner` follows
each task from the push to its worker; it needs `Callers` (a submit in progress
has a task of its own that is not yet queued) for the push to create no
duplicate, and the lane lemmas (`InsertFacts`, `RemoveFacts`, `PromoteFacts`) for
what insertion, removal and promotion do to a set of lanes without duplicates.
`ZeroMeansDone` joins the two halves: if the count is 0 nothing is queued or
held, so every accepted task has run. That gives `DropsNothing` and
`WaitIsExact`. None of these properties is inductive alone, which is why `IInv`
carries them together; `pool_safety` checks `IInv` as an invariant.

`NoWakeupLost` is a counting argument: a push adds a queued task and a pending
signal, a signal turns into an awake worker unless nobody sleeps, and a worker
goes to sleep only past an empty queue.

`CapacityKept` needs `Inserting`: a submitter between its load and its insertion
holds the mutex, so the size it compared with `limit` is still the size when it
inserts, whatever `max_tasks` has become.

### The queue

`QueueProofs` proves for any finite set of tasks, any capacities and any clock
(`QueueAssumption`):

* `Inductive`, and from it `ListsWellFormed` (`WellFormed`),
* `AgingRaisesOnce` (`OneLevelPerPass`),
* `Refinement` (`ImplementsLaneQueue`): the pointers implement the three
  sequences of `LaneQueue`.

The centre is `Rep(q, hd, tl, nx, pr)`: the pointers represent lanes `q` without
duplicates, node by node (the head is the first element, `next` of each is the
one after it, the tail is the last, the last points to `NULL`, each node has the
lane's priority). `RepUnique` says that such pointers determine `q`, and that it
is what `Follow` reads off them. There is then one lemma per pointer operation,
an insertion at the tail (`InsertRep`), a removal of the head (`RemoveRep`) and a
splice of a prefix (`PromoteRep`), each turning pointers that represent `q` into
pointers that represent what `PriorityLanes` computes from `q`. The splice is
the hard one: it cuts a lane after the last aged node, hangs the prefix behind the
destination's tail or makes it the destination's list, and has changed the
priorities of the prefix on the way.

`WellFormed` is about the sequences `Follow` reads off, while a step changes
single pointers; what that does to the walks along them is said node by node,
with the types of the pointers, which is what `Rep` adds to it.
`OneLevelPerPass` needs one more fact: what the first half promoted and nobody
popped is in the highest lane, where the second half does not look.

### The comparison pool

`BaselineProofs` proves for `BaselinePool`, under `BaselineAssumption` (finite
disjoint sets of threads), `Inductive`, `TotalCorrect`, `NoWakeupLost`
(`NoLostWakeup`) and `DrainCorrect` (`DrainExact`, which speaks of the behaviours
without overlap). `TotalExact` is
inductive only with `Owners` (whoever pushes or runs has a task). `DrainExact`
joins three facts: nothing is counted past the drain loop (`Quiet`), so the
queue is empty and no worker holds a task; what was taken is then all that was
accepted (`FifoOrder`); and what was taken has run (`TakenRuns`). The sequence
facts (`PopFacts`, `PushFacts`) come from the associativity of concatenation.
`NoLostWakeup` counts as in the main pool: a push adds a task and a signal to
come, the signal an awake worker or it finds nobody asleep, and a worker that
takes a task or goes to sleep has looked at the queue under the mutex.

### The life of the pool

`LifecycleProofs` proves `JoinsCorrect` (`JoinsValid`) for any callers, workers
and thread ids. `JoinsValid` alone says nothing of `aging_enable`, on which both
calls decide; `IInv` adds what the flag means in each phase: with nobody in the
critical part it says whether the thread `aging_tid` exists (`Settled`); after
enable's store it is set and there is no thread yet (`Creating`); a disable that
has read it as true has a thread to join (`Clearing`), also after it cleared the
flag (`Joining`). All of it rests on one caller at most being in that part
(`Alone`), which is what `~overlap` provides.

`PausedPassesBounded` (`OnePassPerPause`) strengthens the bound with the reason
for it: after the one pass every aging thread tests `paused`, or
finds `aging_enable` cleared or `shutdown` set, before the next (`Quiet`); a
thread created in the meantime starts at such a test.

`NothingLeaks` (`NothingLeft`) follows the owner through its phases (`Phases`):
while init acquires, what is held is a prefix of `Resources`, and at each error
label exactly what that label and the ones below it destroy, so the fall through
ends with nothing; between the two
everything is held; no worker is left where resources are released; and once
`shutdown` is set, or before init is done, no other caller is inside a call.
Joins of workers and of the aging thread are what make the last phases free of
threads, so it rests on `Inductive`.

### The demo server

`ServerStateProofs` proves, for any scenarios, finite set of connections,
subscribers, monitor threads, table and ring sizes (`ServerAssumption`; `None`
and `"key"` are no connection, as the holder of `log_mtx` has to tell them
apart):

* `ControlInvariant`: which of the other threads can be there at each place of
  main. Every later proof uses it, since what main does alone (register nothing,
  close the table, detach for good) is safe only because the others
  have been joined or were not yet created.
* `CountersExact`: `active_connections` is the number of handlers between accept
  and answer. The subtraction in the handler therefore never wraps; `server`
  checks this on its instances as part of `TypeOK`.
* `LogsExact` (`RingExact`): the ring holds the last lines of the history
  (`Holds`), slot by slot modulo its size.

`ServerProofs` proves `BroadcastCorrect` (`ChangesAnnounced`) for any scenarios,
connections, subscribers and workers. The invariant follows what the broadcaster
knows through its round: before it looks, the last frame; while it formats,
the counters it has read so far; between waking up and reading, nothing
(`Knows`). This holds as long as nothing is unseen and nobody is between a
change and its announcement (`Quiet`); a change makes the state not quiet, and
quiet returns only through the broadcaster's own wakeup. `Starting` is needed
because main sets the thread's first state: it has not run before.

It also proves `StdinExclusive` (`OneReader`) and `PrintedDetached`
(`PrintsDetached`) from `TerminalInvariant`. Both are about who has seen
`attached` in which state and acts on it later. The invariant says that there is
one monitor thread at a time (`OneMonitor`: a new one is created only when
the last was joined), that it uses the terminal only while attached, that the
key listener from its test of `attached` until it reattaches and a handler that
prints find it detached, and that both printing and reattaching happen with
`log_mtx` held; so nobody else can attach in between.

`ServerClientProofs` proves `OneOwner` (`DescriptorsOwned`), `NobodyLost`
(`FrameReachesAll`) and `TypeCorrect` (`TypeOK`). The walk of `sse_send_all`
is the centre: after `i` steps the first `n` places of the table hold those of
the first `i` clients that are kept, in their order, and the places from `i + 1`
on are untouched (`Kept`), so each step reads the client that stood there before
the walk. Hence the compacted table has no duplicates, drops only clients whose
write failed, keeps the order, and every client that was not dropped has been
written to. `Clients` adds that the client in the admin listener's hand is open and not in the table, and that
the table is empty before that listener exists and after main has closed it.

### Reach of the proofs

What a recursive function computes is proved without induction over data, which
needs a theorem with an operator as parameter: a set of naturals that is not
empty has a least element (`Least`), so one can look at the first step at which a
walk (`Follow` along the pointers, the one inside `SendWalk`) would deviate from
what is claimed of it, and it does not deviate there.

The line `USE SMTT(10), Zenon, Z3T(20)` in the proof modules names the provers
each leaf is given to, one after the other.

Only model-checked are the liveness properties and `StopGoesOn`: no prover here
handles fairness or `ENABLED`. The violations are counterexamples and need no proof. Everything
proved is about the models, with atomics that are sequentially consistent, and,
in `PoolLifecycle`, about behaviours up to the first overlap.

## Not modelled

* What `draw_ui` draws, sockets, HTTP text, argument parsing and the rendering of
  `mandelbrot.c`: input/output and floating point.
* The id counter and names of `task.c`; the benchmarks, which measure time.
* `proof/`: the bakery and the filter lock are stand-alone studies of plain
  `volatile` accesses. They are not linked with the library, and what they do is
  decided by the memory model; an interleaving of their statements would prove
  more than the code does.
* Memory orders: atomics are sequentially consistent everywhere.
* In the server: descriptor numbers (main closes again what `on_sigint` closed),
  a subscriber that does not read and so holds up the broadcaster in `write`, and
  detached naive handlers that are still running when main returns (the model
  stops them there).

Four disagreements with what the repository says that the modelling brought up
and no run states:

* The baseline pool can drop the task of a submit that overlaps shutdown
  (`baseline.c:187-190` against the comment at lines 11-13; see above).
* A frame sent between the first snapshot of a new subscriber and its
  registration (`http_server.c:548-552`) does not reach it, and an equal payload
  is not sent again, so it shows old numbers until the next change. The comment at
  line 85 says that transitions are never lost.
* `q` in the dashboard clears `running` before `endwin`, and main detaches
  without `log_mtx` (line 922); in both cases a request line can be printed while
  the screen is still up, although the comment at lines 286-289 says that the TUI
  is never corrupted and that the lock excludes the detach. `PrintsDetached` is
  about the flag only; it says nothing of the screen.
* The busy gauge falls after the last `notify_event` of a handler
  (`http_server.c:379`); subscribers learn of it with the 15 s timeout, while
  lines 84-87 and `doc-apis.md:127-129` say that a frame is written the instant
  any gauge changes. `ChangesAnnounced` is about `active_connections` and
  `total_served` only.
