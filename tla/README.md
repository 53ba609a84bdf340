# Verification of shuio

shuio is a small asynchronous I/O library: an event loop with timers, TCP
streams, acceptors and clients on it, once over io_uring (`shuio/linux`) and
once over I/O completion ports (`shuio/win32`), with the same headers.  This
directory holds TLA+ models of it, the TLC runs that check them and TLAPS
proofs about them.

Paths below are relative to the repository.  `PROJECT.json` names, for every
definition that models code, the lines it models.

## Inventory

| Part | State | Operations | What is hard | What makes it correct |
|---|---|---|---|---|
| Linux loop, `shuio/linux/shu_loop.cpp` | two task queues (`tasks_mux_` under a mutex, `taks_nmux_`), `tasks_count_`, the eventfd and its poll in the ring, `register_cb` | `run`, `post`, `dispatch`, `stop`, and the internal `on_tasks`, `wakeup`, `handle_eventfd`, `post_read_eventfd`, `on_stop` | threads post while the loop decides to block; the queue's size is read without its lock; the eventfd is a counter written by many, read by one | no lost wake-up; each task once and in order; the eventfd is readable when it is read; stop ends `run` |
| Linux timers, same file | `timers` (a heap), `cancel_slots`, `timerseq` | `add_timer`, `cancel_timer`, `timer_call`, the timeout of the wait | ids are handed out before the timer is in the heap; cancellation is a slot looked up later; slots are cleaned up | a timer runs once, when due, in order; a cancelled one does not |
| Registration, `linux_detail.h`, `linux_detail.cpp` | `register_cb`, `register_id_req` | register, unregister, dispatch by id | completions arrive after their object is gone | no callback into a deleted object |
| Linux stream, `shu_stream.cpp` | `stop_`, `reading_`, `writing_`, `close_` | `start`, `read`, `write`, `stop`, `run_read`, `run_write` | stop against a read and a write in flight, from inside any callback | closed means quiet; evClose exactly once and last; every stop ends in it |
| Linux acceptor, `shu_acceptor.cpp` | `op_`, `stop_`, `close_` | `start`, `stop`, `run` | failures of `start`; stop against a connection | one accept in flight; the same of the close |
| Linux client, `shu_client.cpp` | the same, and `sock_` that is given away | `start`, `stop`, `run` | stop before, in and after `evConn` | the same of the close |
| Windows loop, `shuio/win32/shu_loop.cpp` | queues and count as above, a timer thread, the completion port | the same | the timer thread; the port closed while threads post | the same promises as the Linux loop |
| Windows timers, same file | the heap and slots as above, a waitable timer with a period | the same, and `_set_timer` | the waitable timer is set from a time read before; nobody looks at the heap without a tick | the same promises as the Linux timers |
| Windows stream, `shu_stream.cpp` | the same flags, an `OVERLAPPED` each way | the same | operations that complete or fail inside the call; cancelled operations that complete late | the same promises |
| Windows acceptor, `shu_acceptor.cpp` | 32 accepts with a `doing_` each, `stop_`, `close_` | `start`, `stop`, `post_acceptor`, `run` | callbacks inside the loop of `start()`; a slot that an error leaves empty | closes with its last accept; never silent without telling |
| Windows client, `shu_client.cpp` | `stopping_`, `closed_`, `sock_` | `start`, `stop`, `run` | a connect that completes inside `start()`, or was never posted | the outcome reported is the outcome |
| Coroutines, `example/co_test` | awaiters on streams and acceptors | `co_read`, `co_write`, `co_stop`, ... | order of resumption and close | example code, not modelled |
| Sockets, buffers, addresses | descriptors | one system call each | nothing concurrent | not modelled |

How they interact: other threads reach the loop only through `post` (`dispatch`,
`stop`, `add_timer` and `cancel_timer` come to it).  Objects live on the loop's
thread.  They give operations to the ring, the loop calls them back by
register id, and they `post` their `evClose` to the loop's own queue.  User
code runs inside these callbacks and calls the objects from there.

## Modules

| Module | What it is |
|---|---|
| `Mailbox` | What a loop promises of tasks: two FIFO queues, each task once, nothing after the loop returned (on Windows: until it is run again) |
| `LinuxLoop` | The Linux loop with its worker threads and the kernel |
| `LinuxLoopProofs` | Its theorems |
| `LoopTimer` | The timers of the loop, on both platforms |
| `LoopTimerProofs` | Their theorems |
| `CloseProtocol` | What an object promises of its end: the close only after a stop, evClose once, last, and inside no callback.  Callbacks may nest, come until evClose, and come inside `start()` |
| `LinuxReactor` | What objects see of the loop: the registration table, a frame of `run()`, the posted evClose |
| `LinuxStream`, `LinuxAcceptor`, `LinuxClient` | The objects; each extends `LinuxReactor` |
| `LinuxObjects` | All three on one loop, called from each other's callbacks: the specification, and its properties |
| `LinuxPromiseProofs` | Its theorems that hold whatever the users call |
| `LinuxObjectsProofs` | Its theorems about users of the contract the code needs |
| `WinLoop` | The Windows loop with its worker threads, its timer thread and the completion port |
| `WinLoopProofs` | Its theorems |
| `WinReactor` | What the Windows objects see of the loop: packets, batches, callbacks inside calls |
| `WinStream`, `WinAcceptor`, `WinClient` | The objects; each extends `WinReactor` |
| `WinObjects` | All three on one loop, as `LinuxObjects` |
| `WinObjectsProofs` | Its theorems |
| `WinPromiseProofs` | Its refinement of `CloseProtocol`, as a theorem |
| `QueueFacts` | Lemmas about sequences that the proofs share: concatenation, membership, no element twice |
| `MC...` | The modules TLC is run on |

Each module has a few definitions marked as faulty variants of the action
after or below them.  They are not part of any specification.  Putting one in
the place of its action must break the property it is listed with in
`PROJECT.json`, which shows that the property can fail.

### LinuxLoop

`pc` walks the body of `run()`; `on_tasks()` is inlined where it is called, at
every iteration and in `on_stop()`.  One step is one access to something shared:

* `post()` from another thread is `PostCount`, `PostPush`, `PostWakeup`: the
  atomic increment, the push under the mutex, the write to the eventfd.
* `CheckTasks` reads the size of `tasks_mux_` without the mutex.  While some
  worker is between its increment and its push, the race makes the value
  arbitrary, so `nowait` is a choice there (except that `tasks_count_ > 0`
  alone makes it true).
* `WaitReturn`/`WaitTimeout` is `io_uring_wait_cqe_timeout`; `NextCqe` takes
  the completions in order; `HandleEventfd` and `PostReadEventfd` are two steps.
* `SwapMux`, `RunTask`, `DoneMux`, `RunLocalTask`, `DoneLocal` are `on_tasks()`.
* A callback sets `incb`; until `UserReturn` the user may post, stop, or add a
  timer (`UserPost`, `UserDispatch`).  Before `run()` it may, too.
* `KPoll`, `KNop`, `KIo` are the ring: completions in any order, at any time.
  The completions of cancellations, which may come under the eventfd's id, are
  in `LinuxReactor`; the loop's properties hold of programs that cancel nothing,
  or whose submission queue has not turned.
* A failed `panic()` sets `panicked` and the system stops there.

`UserTasks` are closures of the user's, `StopTasks` those made by `stop()`,
`TimerTasks` those of `add_timer()` and `cancel_timer()`, of which this module
sees the call of `wakeup()` only.

### LoopTimer

`platform` is chosen in `Init`: heap, ids and slots are the same code twice, and
what differs is who wakes the loop.  Time is a counter.  An id is
`<<expire, number>>` as in the code; the heap is a set whose least element is
its front.  A worker's `add_timer()` takes the id and posts in two steps, so that
it is overtaken; on the loop thread both functions act at once.

* On Linux `StartWait` computes the timeout of the wait from the heap.
* On Windows the wait has none.  `SetTimer` is `_set_timer()`: the waitable timer
  (`due`) is set for the first of the heap, or left as it is when that is
  `MaxWait` away or more; it counts from the time it is given, which for a
  posted timer is when `add_timer()` read the clock (`AddedAt`) and for the end
  of `timer_call()` when that began (`called`), and the system counts from now:
  it may be late, and the properties hold nevertheless.  `PostTick` is the timer
  thread that sees it and posts its packet; it is signalled again each
  `MaxWait`.  `NoTick` is a frame without the packet, in which nobody looks at
  the heap.

A post wakes the loop here in one step: `NoLostWakeup` of `LinuxLoop` and
`WinLoop` is that this is so.  The clock stops at `MaxTime`, but goes on for what
the waitable timer is still set for.  The model ends when the loop stops.
`dead` and `fired` are history variables.

### LinuxReactor, LinuxStream, LinuxAcceptor, LinuxClient, LinuxObjects

An object stands for its register id: ids are never given twice and every
object registers once.  An operation (`Ops`) is an object and a kind; `flags`
holds those whose `reading_`, `writing_` or `op_` is set, `inflight` those the
kernel has, `cq` the finished ones.  `ctx` is the callback user code runs in,
and each handler is two actions or more, up to a callback and after it, so that
everything the user does inside is between them:

* A read calls `on_alloc_cb_`, where there is one, then `readv`, then `on_read_cb_`
  (`RunRead`, `RunAllocReturn`, `RunReadV`, `RunReadReturn`).  A `stop()` in the first
  of these closes the stream, and the second is still called.
* A call that fails reports it to the user's callback before it returns:
  `init_read()` in `read()`, and `start()` of an acceptor.  Such callbacks are
  `ctx.errors`, on top of the callback that made the call; `ErrorReturn` leaves
  the innermost.
* A submission of `stop()` that cancels (`shu_stream.cpp:184`,
  `shu_acceptor.cpp:127`, `shu_client.cpp:93-98`) sets no `user_data`, and
  `io_uring_get_sqe()` does not clear it.  Once the submission queue has turned
  (`reused`), the cancellation completes under an id that an older operation left
  in the entry (`posted`), the eventfd's included (`Efd`), and `run()` takes it
  for that operation's.  `mistaken` holds the ids this happened to.

The last is a flaw of the code, and the models show what follows: a flag is
cleared by the wrong completion, so that a second read is posted, and a poll too
many of the eventfd reads it empty, which ends the process in `handle_eventfd()`
(`ReadEventfd`).  `FlagsMatchKernel` and `ClosedIsQuiet` hold of all operations but
the `mistaken` ones, the liveness properties unless the process `Ended` so, and
the others whatever is mistaken.

  A frame is the completions
(`cqe`), the other threads' tasks (`mux`), the swap and the run of the loop's own
queue, which holds the evClose closures (`swap`, `local`), and the timers.  At
most `CqSize` completions are handled per frame: the ring is advanced after the
loop over it, and what is completed beyond its size waits in the kernel.

`LinuxObjects` puts them on one loop: in any callback of any object the user may
read, write or stop any other, and start acceptors and clients.  Streams start
in an evConn; which connection they took is not recorded, so that more may start
than there were connections.  `Scenes` says which objects the programs of a run
have, the others being "unused", and `LongScenes` the same of programs whose
submission queue has turned before these objects start: it keeps the instance
small without a run for each.

What a completion says is left out, as the objects do the same for data, end of
file and errors: the user decides.  The users modelled call `read()` once and
give an evClose that deletes the object, as all examples do; they write only
after a successful `read()` ("call after start read", `shu_stream.cpp:222`),
and, once the stream was stopped, only in the callbacks `LateWrites` names.
`objects` uses `{"alloc", "read"}`, the runs of the findings `{"read"}`:
`example/pingpong/client.cpp` stops a session from a timer and its `on_read` may
still echo what had arrived.  They do not stop an acceptor whose `start()` failed
(`StopFailed`) nor any client (`StopClients`), except in the runs of the findings,
as the process dies of either.

### WinLoop

The shape is that of `LinuxLoop`.  A worker's `post()` is `PostCount`,
`PostPush`, `PostWake`, the last a packet to the port; `Stop` posts its packet
from any thread.  A packet posted while `iocp` is closed is lost without notice,
as the code ignores the result.  The timer thread is `TimerCheck` (the stop
token), `TimerWait` (the waitable timer) and `TimerCall` (its packet); `OnStop`
requests its stop and signals the timer, `Join` waits for it.  `RunAgain` lets
run() be called again.  Which timers exist is left out: the waitable timer may
expire whenever the thread runs.  `count` is left uninitialised by the code and
used after a wait that timed out; the model takes the system to set it to 0.
The batch's growth (`overlappeds.resize`) changes no behaviour and is left out.

### WinReactor, WinStream, WinAcceptor, WinClient, WinObjects

A frame is the batch of packets (`entries`), the other threads' tasks (`mux`),
the evClose closures (`local`) and the timers.  `stack` holds the callbacks user
code is in: an operation that completes or fails inside its call calls back
there, on top of the callback that made the call.  So each post of an operation
has three outcomes (`Pend`, `Ends`, `Fails`), and what follows a callback
(`RunReadReturn`, `RunAcceptReturn`, ...) takes the callback off the stack and may
push the next.

* The acceptor's `start()` is a frame of the stack of its own: `StartPosts` is one
  round of its loop, evConn may be called between two rounds, and a `stop()` in it
  or an error ends the loop.  A slot's operation is `Accept(a, n)`.  What
  evConn was told of errors is the history variable `told`.
* The client's connect stays pending, ends inside `start()` or fails; `sock_` is
  kept after a failed `bind()` only, with no connect posted.  `ConnectReported` is
  always true: `run()` tells success by the number of bytes transferred, and a
  `ConnectEx` without data transfers none.
* Two operations lead to undefined behaviour, and the model stops with `crashed`:
  a packet for an object that evClose deleted (`dangling`), and a pending write
  completed when no write before stored a callback (`bad_function_call`).  `wcb`
  tells whether one did.

`ssocket::init` asks the system for no packet when an operation ends inside its
call (`FILE_SKIP_COMPLETION_PORT_ON_SUCCESS`), and the model takes that as
granted.  The users are those of `LinuxObjects`, but for three things: a late
callback writes once, as a second write could follow the close that the first,
completed inside its call, led to (see the hazards); they stop acceptors that
failed; and they stop clients.

## Runs

| Run | Shows |
|---|---|
| `loop` | `NoLostWakeup`, `EventfdReadable`, `SpinsAfterLocalPost`, `StopIsKept`, the invariant of the proofs `IndInv`; `BoxSafety` (refinement of `Mailbox`), `BoxProgress`, `StopEndsRun` |
| `loop_wakeup` | finding: a post that races the end of `run()` panics |
| `timer` | on both platforms: `CancelledStaysCancelled`, `FiresOnceWhenDue`, `SameDelayInOrder`, `AwaitsTimers`, `TimerRuns` |
| `timer_slots` | finding: the clean-up drops slots that are not redundant |
| `objects` | `CallbacksFindObject`, `FlagsMatchKernel`, `ClosedIsQuiet`, `NoPanic`, `StopIsHeard`, `CloseSafety` (refinement of `CloseProtocol`), `StopClosesWithPeer`, `CancelCloses` |
| `stream_idle` | finding: stop while writing waits for the peer to send, even one that takes all it is sent |
| `acceptor_start` | finding: stop of an acceptor after a failed start panics |
| `client` | finding: no stop of a client ends in evClose |
| `win_loop` | `NoLostWakeup`, `TimerThreadInsideRun`, `PacketsAreKept`, `BoxSafety` (refinement of `Mailbox`), `BoxProgress`, `StopEndsRun`, `TickServed` |
| `win_objects` | `FlagsMatchSystem`, `ClosedIsQuiet`, `ClosesOnce`, `SilenceIsTold`, `StopIsHeard`, `CloseSafety` (refinement of `CloseProtocol`), `StopClosesWithPeer` |
| `win_abort` | finding: the packet of an aborted read comes after evClose deleted the stream |
| `win_phantom` | finding: a refused or cancelled connect is reported as a connection |

Every passing run also checks its module's `TypeOK`.  `objects` and `client`
do not look for deadlock: a panic ends the process, in `objects` the one of an
eventfd that a mistaken cancellation reads empty.

`SpinsAfterLocalPost` states what the code does and nobody would want: the
count of tasks is lowered for one queue and raised for both, so after one post
from the loop thread (every evClose is one) the loop polls without blocking.

### Bounds

* Loop: two workers, so that one is inside `post()` while another posts, stops
  or wakes; a user task, a stop, a timer call (an order to get wrong), one
  socket completion.  Every task is posted at most once, by any thread.
  `CountMod` is above the number of tasks: the wrap of the 32-bit count is not
  reached, and the theorems that need it say so (`NoWrap`).  The local queue
  holds one task at most here; `LoopImplementsMailbox` proves its order for any
  number.
* Timers: one worker, two timers, delays 0 and 1, time up to 2.  Two timers are
  enough for an order, for a slot before and after the front of the heap and
  for a cancellation that overtakes; `MaxWait` (five minutes in the code) is 2, so
  that the period of the waitable timer and the limit of the wait are reached.
* Objects: two streams with a client, so that each is stopped in another's
  callback; and, with a submission queue that has turned, a stream with an
  acceptor, as both post operations for others to be mistaken for.  One
  cancellation is mistaken (`MaxMistaken`), for any operation ever posted or for
  the poll of the eventfd: its harm is done by one.  A ring of two completions is
  smaller than what can be in flight.  The theorems have no such bounds.
* Windows loop: one worker besides the loop and the timer thread, two tasks, one
  stop, one tick, one socket completion, two calls of `run()`, batches of two:
  a packet of each kind may share a batch with another, and each race of a post
  with the end of `run()` has a second `run()` to be made good in.
* Windows objects: a stream with an acceptor or with a client, two completions
  inside calls and two callbacks on the stack: an operation completes inside its
  call made from a packet's callback, from another inline callback's return,
  from a task and from `start()`.  Two slots stand for 32: the acceptor tells none
  from one and one from many.

### Fairness

The loop thread takes its next step and callbacks return (`WF` of `LoopStep`);
a worker inside `post()` goes on; the ring completes a poll that is ready, a
NOP, a cancellation.  Nothing makes anyone post, makes the timeout of the wait
expire (in `LinuxLoop`), or makes a peer send or take what it is sent: where a
property needs the peer, its statement has it (`WritesEnd` and `ReadsEnd` in
`StopClosesWithPeer` and `StopClosesIdle` on Linux, `PeerActs` on Windows).
`CancelCloses` has no such help, and excepts a stream that is being written, which
only a write made in the late read callback can be: its close waits for a peer
that takes it.  `LoopTimer` also assumes that time passes and, on Windows, that
the timer thread runs.  In `WinLoop` the timer thread is scheduled and nothing
makes a timer expire.  In `WinObjects` aborted operations complete: a comment at
`shu_stream.cpp:255` says that `CancelIoEx` sometimes does nothing, but the code
closes the socket right after it, which ends what is pending.  In `win_objects`
a run that ends in one of the two crashes owes no more, nor does a client whose
connect was never posted (`NeverPosted`, a hazard): the property says so.

## Proofs

Each component has an inductive invariant (`IndInv`, and `BaseInv` of the Linux
objects), and its theorems follow from it, some with a second invariant on top.
What a theorem assumes beyond the assumptions of the module is in its statement.
The theorems hold for every value of the constants; the properties they state are
those the runs check.

### LinuxLoopProofs: any workers, any tasks, any bound

* `Spec => []IndInv`.  `IndInv` is `TypeOK`, `ProgramInv` (which locals of
  `run()` are in use where), `PollInv` (the eventfd is polled once, a finished
  poll leaves it readable until its one reader) and `WakeInv` (a task in the
  queue has a readable eventfd or a worker about to write to it, except between
  the read of the eventfd and the swap of the queue in one iteration).
  `NoLostWakeup` alone is not inductive: it speaks of the blocked loop only,
  while what it needs must hold at every step on the way there.
* `EventfdReadable` and `TypeOK` from it.
* `StopsAreKept`: no `stop()` is forgotten.  `hasstop` is cleared at every
  iteration, so `StopIsKept` needs `ClearInv`: when it is cleared it is not set,
  as an iteration that saw the NOP leaves the loop.
* Assuming `NoWrap`: `CountInv` (what `tasks_count_` counts) and `BlockInv`,
  and from these and `IndInv` the theorems `WakeupNeverLost` and
  `LocalPostSpins`.
* `Spec => BoxSafety`: each step maps to a step of `Mailbox` or changes nothing
  of it.

### WinLoopProofs: any workers, tasks, packets and calls of `run()`

* `IndInv` is `TypeOK`, `ProgramInv` (the locals, where the port may be
  closed, and that a batch is handled to its end) and `TimerThreadInsideRun`,
  which is inductive with them: the join waits for `"done"`, and only `on_start()`
  leaves it.
* `NoPacketForgotten`: `PacketsAreKept`, a property of steps, by `IndInv`.  The
  two locals `hasstop` and `hastimer` stand for packets already taken; what is
  proved is that neither is cleared before it was acted on.
* Assuming `NoWrap` (the tasks are finitely many and fewer than the counter
  holds; each is posted once): `CountInv` and `BlockInv`.  `CountInv` bounds the
  counter where `LinuxLoopProofs` says what it is: at least what is queued, in the
  batch or about to be pushed, at most what was ever posted.  That is enough: a
  counter that reads zero has no task behind it.  `BlockInv` says of a loop about
  to block that its own queue is empty and that the other has a packet at the
  port or a worker about to post one.  `WakeupNeverLost` follows, for any set of
  threads.
* `Spec => BoxSafety`, to the `Mailbox` that can be reopened.

### LoopTimerProofs: both platforms, any workers, delays and times

* `PlaceInv`: an id is in one place (with the worker that has it, in the queue, in
  the batch, in the heap, about to run, run) and only moves on, so that it runs
  once.  `CancelInv`: what was cancelled in the heap has a slot for as long as it
  is there, which survives the clean-up because the clean-up drops slots before
  the front of the heap only.
* `OrderInv`: of two ids of one thread and one delay the elder is never behind
  the younger.  It needs `ClockInv` (the clock does not run back, so the elder's
  time is not the later), `SourceInv` (the loop thread's own ids are never with a
  worker or in the queue) and `KeptInv` (no id is dropped: an elder that is
  nowhere else has run or was cancelled).
* `AwaitInv` gives `TimersAreAwaited`: a loop that waits is woken no later than
  `max_expired_time`, and on Linux when the first timer of its heap is due.  On
  Windows the waitable timer must be set from `on_start()` on, wherever the loop
  is.  The stronger half does not hold there: `_set_timer()` counts from a time
  read before, so the timer may be late (see `LoopTimer` above).
* `MinInSet` (the least of a set of times is one of them) is by well-founded `<`.

### LinuxPromiseProofs: any streams, acceptors, clients, any ring, any users

Nothing is assumed of the users.  They may stop acceptors that failed to start
and clients, and write in any callback; and cancellations may complete under
any older id, any number of times.  The process may then die of a panic; the
theorems say what holds until it does.

* A step is seen by its kind: `Starts`, `ReadsFirst`, `Writes`, `Stops`, `Enters`,
  `GoesOn` (from `on_alloc_cb_` on), `Leaves`, the kernel's and the loop's.
  `StepKinds` shows that every operation of the three classes is one of these, and
  the invariants are proved by kind, so that each argument is made once for the
  stream, the acceptor and the client.
* `BaseInv` is `TypeOK` and
  `RingInv` (what comes from the kernel was given to it, and what no cancellation
  was mistaken for is flagged while it is in flight, in one place, once),
  `BornInv` (only started objects have given the kernel anything or are
  registered, deleted ones are in no table),
  `KeepInv` (what is flagged is in flight with its object registered, unless the
  object was closed: the completion of a write posted after the close is
  skipped and its flag stays),
  `HeardInv` (of a stopped object something is flagged or in its callback, up to
  a panic),
  `CallInv` (the object called back is there, and what the return may post is not
  flagged) and `EndInv` (each closed object is queued once until it is deleted).
* `HeardInv` is the reason for `KeepInv`: without it a flag might be left behind by
  an operation that no completion will come for.  A mistaken completion clears
  a flag too early, and never leaves one set: this is why no stopped object is
  forgotten, whatever is mistaken.
* `DeletedNotCalled` and `NoStopForgotten`: while the process runs, no callback finds
  its object deleted, and no stopped object is forgotten.
* `ObjectsKeepPromise`, `Spec => CloseSafety`: `start`, `stop`, the entry and the
  return of callbacks and the run of an evClose map to the steps of
  `CloseProtocol`, all others to none.  The abstract `running` is the callback
  with those of errors on top of it; `on_alloc_cb_` is a callback of its own, which
  has returned before `on_read_cb_` is called.

### LinuxObjectsProofs: any streams, acceptors, clients, any ring

What needs more.  All theorems assume `UserContract`: no `stop()` of an acceptor
that failed to start nor of a client, and no write in the write callback of a
stopped stream, each of which the findings and hazards show to go wrong.  Writes
in its `on_alloc_cb_` and `on_read_cb_` are allowed.

* `IndInv` is `BaseInv` with `KernelInv`, `RegisterInv`, `LifeInv`, `ContextInv`,
  `ReadInv` and `NoPanic`; each of these says only what `BaseInv` does not.
* `RegisterInv` (who is in `register_cb`, and that nothing is flagged of an object
  that is not there) gives `NeverPanics`.  `LifeInv` ties it to the life of the
  objects.
* A write posted in a late read callback must not outlive the close: `ReadInv` and
  `ContextInv` say that a stream has its read flagged, or is in its callbacks, or
  is stopped.
* So no closed object is flagged, and then `KeepInv` is `KernelInv`: a flag is set
  only while its operation is in flight.  `RingInv` has the other direction, but
  for the mistaken.  `FlagsAreTrue`, `ClosedStaysQuiet` and, with `NoPanic`,
  `CallbacksAreSafe` and `StopsAreHeard` follow.

### WinObjectsProofs: any streams, acceptors, clients, slots, any nesting

Only `CalmInvariant` and the theorem that rests on it, `ClosedMeansQuiet`, assume
`UserContract`: no write in the write callback of a stopped stream (a hazard).  The
others hold for any users.  The constants' assumption has a slot at least.

* `IndInv` is kept whatever users do.  `KernelInv` (flags against the system) needs
  that nothing is posted that is pending.  For a read and an accept `StackInv`
  gives it: their callbacks are not nested in themselves, and their flag is clear
  while one runs.  `ConnectInv` says that a connect in flight has its socket.
* `CalmInv` is `LateInv` and `QuietInv`, the latter being `ClosedIsQuiet`.  It is kept
  because nothing begins for an object that is closed (`NewlyBusy`) and because
  what a close leaves behind is a read with a closed socket (`NewlyClosed`).  The
  hard case is a late read callback, which may write to a stopped stream:
  `LateInv` says that such a stream is open, or its socket is closed and the write
  fails, and that no write callback of it is below on the stack to close it
  meanwhile.
* `LifeInv`, and `QueueInv`: each closed object is queued once until it is deleted.
  `ServeInv` says of each acceptor not stopped what keeps it alive: an accept in
  flight, its callback on the stack, or `start()` before its first post;
  `NoSilentAcceptor` follows.
* `StopsAreHeard`: a stopped object not closed has an operation pending or a callback on
  the stack, or is a client whose connect was never posted.  On top of `IndInv`: what a
  step takes off the stack or from the system either closes the object or leaves
  another of its operations.
* `StackCases` sums up what a step does to the stack; the invariants that speak of
  the stack are proved by its cases, the others by operation.

### WinPromiseProofs: any users as well

`ObjectsKeepPromise`, `Spec => CloseSafety`.  The
abstract `running` is the part of the stack that is callbacks, without the frames
of tasks and of an acceptor's `start()`.  It is defined without recursion, by
the positions of the callbacks, and the lemmas say how it follows a push and a
pop.  A step may pop one callback and push the next of the same object, in one
action as in the code; `CloseProtocol` sees it as nothing but for the close.

### Model-checked only

Liveness (`BoxProgress`, `StopEndsRun`, `TimerRuns`, `StopClosesWithPeer`,
`CancelCloses`, `TickServed`): TLAPS has no proof rules here for fairness.
`StopIsKept`, `PacketsAreKept`, `StopIsHeard` and `AwaitsTimers` are the safety halves
of these, and proved: what must happen in the end is at no time forgotten.

## Not modelled

* The coroutine wrappers of `example/co_test` and the other examples: programs over
  the public interface, whose calls are among the user actions of the models.
* A cancellation that completes under the id of a stop's NOP: the stop was asked
  for, and the loop of `LinuxReactor` does not end.
* A submission queue that is full (`io_uring_get_sqe` returning null), the
  lifetime of arguments on the stack under SQPOLL, failures of `init`.
* Layered service providers on Windows, for which the system may post a packet
  of an operation that completed inside its call.
* The bytes: buffers (the callback that gives them is modelled), lengths,
  addresses, error values, and which connection an accept brought.
* A loop that stops while its objects live: `LinuxLoop` has the panics of the
  last `on_tasks()`, the objects' models run on a loop that goes on.
* A second `read()` of a stream, and users outside the contract above.
* The wrap of `tasks_count_` (see the hazards): `CountMod` is above what a run
  can post.

## Plan

All components with state of their own are modelled and proved about.  What is
left, in order:

1. What `CloseProtocol` and `Mailbox` mean for their user, as theorems about them
   that the refinements hand on: no callback after evClose, no task twice.
2. Runs of their own for the empty eventfd that a mistaken cancellation reads,
   and for the Windows client whose `bind()` failed (`NeverPosted`).
3. The wrap of `tasks_count_`: with `CountMod` at the number of posts, a run that
   shows what the loop does when the count reads zero with a task queued.
4. A full submission queue, as a third outcome of every post on Linux.
