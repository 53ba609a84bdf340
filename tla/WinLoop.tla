------------------------------- MODULE WinLoop -------------------------------
(***************************************************************************)
(* The event loop of shuio/win32/shu_loop.cpp: run(), post(), stop(), the  *)
(* completion port they meet at, and the thread that turns the waitable    *)
(* timer into packets of the port, one action per access to what threads   *)
(* share.                                                                  *)
(*                                                                         *)
(* As in LinuxLoop, pc walks the body of run() and user code runs inside   *)
(* callbacks (incb) and before run().  What differs: the wake-up is a      *)
(* packet of its own for every post(), stop() posts its packet from any    *)
(* thread, a call on the port fails without notice once it is closed, the  *)
(* end of run() joins the timer thread, and run() may be called again.     *)
(* Which timers there are is left out: the waitable timer may be due at    *)
(* any time, and timer_call() may run callbacks or not.                    *)
(***************************************************************************)
EXTENDS Naturals, Sequences, FiniteSets

CONSTANTS
    Workers,           \* threads other than the loop's and the timer's
    Tasks,             \* closures given to post(), dispatch(), add_timer(), ...
    MaxStops,          \* bound: calls of stop()
    MaxIo,             \* bound: completions of socket operations
    MaxTicks,          \* bound: expiries of the waitable timer
    MaxRuns,           \* bound: calls of run()
    BatchSize,         \* packets taken at once (1024 and more in the code)
    CountMod,          \* values of tasks_count_ (2^32 in the code)
    NoTask             \* a worker that holds no task

ASSUME WinLoopAssumption ==
    /\ NoTask \notin Tasks
    /\ {MaxStops, MaxIo, MaxTicks, MaxRuns} \subseteq Nat
    /\ {BatchSize, CountMod} \subseteq Nat \ {0}

VARIABLES
    posted,            \* the tasks already used (each is one call of the API)
    wpc, wtask,        \* a worker inside post(): where it is, its task
    tasks_mux_,        \* queue of the other threads, under mutex_
    taks_nmux_,        \* queue of the loop thread
    tasks_count_,      \* atomic_uint32_t
    pc,                \* where the loop thread is in run(), on_tasks(), on_stop()
    nowait, hastimer, hasstop,   \* locals of run()
    entries,           \* what is left of overlappeds
    pendings, pendings1,         \* locals of on_tasks(): what is left of them
    batch,             \* pendings.size()
    incb,              \* user code is running inside a callback
    iocp,              \* "open", or "closed" when INVALID_HANDLE_VALUE
    port,              \* packets queued at the completion port
    tpc,               \* the timer thread: "none", or where it is
    stop_requested,    \* the stop token of the timer thread
    due,               \* the waitable timer is signalled
    stops, ios, ticks, runs,     \* counts of what the bounds limit
    executed           \* history: the queued tasks the loop ran, in order

workerVars == <<posted, wpc, wtask>>
queueVars  == <<tasks_mux_, taks_nmux_, tasks_count_>>
runVars    == <<pc, nowait, hastimer, hasstop, entries>>
batchVars  == <<pendings, pendings1, batch>>
portVars   == <<iocp, port>>
timerVars  == <<tpc, stop_requested, due>>
bounds     == <<stops, ios, ticks, runs>>

vars == <<workerVars, queueVars, runVars, batchVars, incb, portVars, timerVars,
          bounds, executed>>

Packets == {"wake", "stop", "timer", "io"}

TypeOK ==
    /\ posted \subseteq Tasks
    /\ wpc \in [Workers -> {"idle", "push", "wake"}]
    /\ wtask \in [Workers -> Tasks \union {NoTask}]
    /\ {tasks_mux_, taks_nmux_, pendings, pendings1, executed}
          \subseteq Seq(Tasks)
    /\ tasks_count_ \in 0 .. CountMod - 1
    /\ pc \in {"start", "check", "wait", "entries", "swap_mux", "run_mux",
               "run_nmux", "timer", "end", "join", "done"}
    /\ {nowait, hastimer, hasstop, incb, stop_requested, due} \subseteq BOOLEAN
    /\ {entries, port} \subseteq Seq(Packets)
    /\ batch \in Nat
    /\ iocp \in {"open", "closed"}
    /\ tpc \in {"none", "check", "wait", "call"}
    /\ {stops, ios, ticks, runs} \subseteq Nat

(* The constructor creates the port.                                        *)
Init ==
    /\ posted = {}
    /\ wpc = [w \in Workers |-> "idle"]
    /\ wtask = [w \in Workers |-> NoTask]
    /\ tasks_mux_ = <<>> /\ taks_nmux_ = <<>>
    /\ tasks_count_ = 0
    /\ pc = "start"
    /\ nowait = FALSE /\ hastimer = FALSE /\ hasstop = FALSE
    /\ entries = <<>>
    /\ pendings = <<>> /\ pendings1 = <<>>
    /\ batch = 0
    /\ incb = FALSE
    /\ iocp = "open" /\ port = <<>>
    /\ tpc = "none" /\ stop_requested = FALSE /\ due = FALSE
    /\ stops = 0 /\ ios = 0 /\ ticks = 0 /\ runs = 0
    /\ executed = <<>>

(* PostQueuedCompletionStatus, whose result nobody looks at.                *)
PostPacket(p) == port' = IF iocp = "open" THEN Append(port, p) ELSE port

AtLoop(p) == pc = p /\ ~incb

InUser == incb \/ pc = "start"

-----------------------------------------------------------------------------
(* Other threads.  post(), lines 271-283: the count, the push under mutex_  *)
(* and the packet are three steps.                                          *)

PostCount(w) ==
    /\ wpc[w] = "idle"
    /\ \E t \in Tasks \ posted :
          /\ posted' = posted \union {t}
          /\ wtask' = [wtask EXCEPT ![w] = t]
    /\ tasks_count_' = (tasks_count_ + 1) % CountMod
    /\ wpc' = [wpc EXCEPT ![w] = "push"]
    /\ UNCHANGED <<tasks_mux_, taks_nmux_, runVars, batchVars, incb, portVars,
                   timerVars, bounds, executed>>

(* A faulty push: a packet only for a loop that is polling.                 *)
PostPushWakesPolling(w) ==
    /\ wpc[w] = "push"
    /\ tasks_mux_' = Append(tasks_mux_, wtask[w])
    /\ wtask' = [wtask EXCEPT ![w] = NoTask]
    /\ wpc' = [wpc EXCEPT ![w] = IF pc = "wait" /\ ~nowait THEN "idle"
                                 ELSE "wake"]
    /\ UNCHANGED <<posted, taks_nmux_, tasks_count_, runVars, batchVars, incb,
                   portVars, timerVars, bounds, executed>>

PostPush(w) ==
    /\ wpc[w] = "push"
    /\ tasks_mux_' = Append(tasks_mux_, wtask[w])
    /\ wtask' = [wtask EXCEPT ![w] = NoTask]
    /\ wpc' = [wpc EXCEPT ![w] = "wake"]
    /\ UNCHANGED <<posted, taks_nmux_, tasks_count_, runVars, batchVars, incb,
                   portVars, timerVars, bounds, executed>>

PostWake(w) ==
    /\ wpc[w] = "wake"
    /\ wpc' = [wpc EXCEPT ![w] = "idle"]
    /\ PostPacket("wake")
    /\ UNCHANGED <<posted, wtask, queueVars, runVars, batchVars, incb, iocp,
                   timerVars, bounds, executed>>

(* stop(), on whatever thread.                                              *)
Stop ==
    /\ stops < MaxStops
    /\ stops' = stops + 1
    /\ PostPacket("stop")
    /\ UNCHANGED <<workerVars, queueVars, runVars, batchVars, incb, iocp,
                   timerVars, ios, ticks, runs, executed>>

-----------------------------------------------------------------------------
(* The timer thread of start_timer().                                       *)

TimerCheck ==
    /\ tpc = "check"
    /\ tpc' = IF stop_requested THEN "none" ELSE "wait"
    /\ UNCHANGED <<workerVars, queueVars, runVars, batchVars, incb, portVars,
                   stop_requested, due, bounds, executed>>

(* WaitForSingleObject; the timer resets itself.                            *)
TimerWait ==
    /\ tpc = "wait"
    /\ due
    /\ due' = FALSE
    /\ tpc' = "call"
    /\ UNCHANGED <<workerVars, queueVars, runVars, batchVars, incb, portVars,
                   stop_requested, bounds, executed>>

TimerCall ==
    /\ tpc = "call"
    /\ PostPacket("timer")
    /\ tpc' = "check"
    /\ UNCHANGED <<workerVars, queueVars, runVars, batchVars, incb, iocp,
                   stop_requested, due, bounds, executed>>

-----------------------------------------------------------------------------
(* run(): the port is created anew if a former run() closed it.  on_start() *)
(* sets the timer and starts its thread.                                    *)
OnStart ==
    /\ AtLoop("start")
    /\ iocp' = "open"
    /\ tpc' = "check"
    /\ stop_requested' = FALSE
    /\ due' = FALSE
    /\ pc' = "check"
    /\ UNCHANGED <<workerVars, queueVars, nowait, hastimer, hasstop, entries,
                   batchVars, incb, port, bounds, executed>>

(* Only the other threads' queue keeps the loop from blocking.              *)
CheckTasksMuxOnly ==
    /\ AtLoop("check")
    /\ hastimer' = FALSE
    /\ hasstop' = FALSE
    /\ nowait' = (tasks_mux_ # <<>>)
    /\ pc' = "wait"
    /\ UNCHANGED <<workerVars, queueVars, entries, batchVars, incb, portVars,
                   timerVars, bounds, executed>>

(* tasks_mux_.size() is read without mutex_: while a worker is inside       *)
(* emplace_back the value read is anyone's guess.                           *)
CheckTasks ==
    /\ AtLoop("check")
    /\ hastimer' = FALSE
    /\ hasstop' = FALSE
    /\ \/ nowait' = (tasks_mux_ # <<>> \/ tasks_count_ > 0)
       \/ /\ \E w \in Workers : wpc[w] = "push"
          /\ nowait' \in BOOLEAN
          /\ tasks_count_ > 0 => nowait'
    /\ pc' = "wait"
    /\ UNCHANGED <<workerVars, queueVars, entries, batchVars, incb, portVars,
                   timerVars, bounds, executed>>

(* GetQueuedCompletionStatusEx takes packets off the port, in their order.  *)
(* That overlappeds grows after a full batch is left out.                   *)
WaitReturn ==
    /\ AtLoop("wait")
    /\ \E n \in 1 .. Len(port) :
          /\ n <= BatchSize
          /\ entries' = SubSeq(port, 1, n)
          /\ port' = SubSeq(port, n + 1, Len(port))
    /\ pc' = "entries"
    /\ UNCHANGED <<workerVars, queueVars, nowait, hastimer, hasstop, batchVars,
                   incb, iocp, timerVars, bounds, executed>>

(* Or finds none and, with a timeout of zero, returns WAIT_TIMEOUT and no   *)
(* entry.                                                                   *)
WaitNothing ==
    /\ AtLoop("wait")
    /\ nowait
    /\ port = <<>>
    /\ pc' = "entries"
    /\ UNCHANGED <<workerVars, queueVars, nowait, hastimer, hasstop, entries,
                   batchVars, incb, portVars, timerVars, bounds, executed>>

(* The visit of a packet that assigns the flags, not sets them.             *)
HandlePacketAssigns ==
    /\ AtLoop("entries")
    /\ entries # <<>>
    /\ entries' = Tail(entries)
    /\ hastimer' = (Head(entries) = "timer")
    /\ hasstop' = (hasstop \/ Head(entries) = "stop")
    /\ incb' = (Head(entries) = "io")
    /\ UNCHANGED <<workerVars, queueVars, pc, nowait, batchVars, portVars,
                   timerVars, bounds, executed>>

(* Lines 226-244: a packet of a socket calls its object, and user code.     *)
HandlePacket ==
    /\ AtLoop("entries")
    /\ entries # <<>>
    /\ entries' = Tail(entries)
    /\ hastimer' = (hastimer \/ Head(entries) = "timer")
    /\ hasstop' = (hasstop \/ Head(entries) = "stop")
    /\ incb' = (Head(entries) = "io")
    /\ UNCHANGED <<workerVars, queueVars, pc, nowait, batchVars, portVars,
                   timerVars, bounds, executed>>

EntriesDone ==
    /\ AtLoop("entries")
    /\ entries = <<>>
    /\ pc' = "swap_mux"
    /\ UNCHANGED <<workerVars, queueVars, nowait, hastimer, hasstop, entries,
                   batchVars, incb, portVars, timerVars, bounds, executed>>

-----------------------------------------------------------------------------
(* on_tasks(), also called a last time by on_stop() with the port closed.   *)

(* The queue is copied, not swapped.                                        *)
SwapMuxCopies ==
    /\ AtLoop("swap_mux")
    /\ pendings' = tasks_mux_
    /\ batch' = Len(tasks_mux_)
    /\ pc' = "run_mux"
    /\ UNCHANGED <<workerVars, queueVars, nowait, hastimer, hasstop, entries,
                   pendings1, incb, portVars, timerVars, bounds, executed>>

SwapMux ==
    /\ AtLoop("swap_mux")
    /\ pendings' = tasks_mux_
    /\ tasks_mux_' = <<>>
    /\ batch' = Len(tasks_mux_)
    /\ pc' = "run_mux"
    /\ UNCHANGED <<workerVars, taks_nmux_, tasks_count_, nowait, hastimer,
                   hasstop, entries, pendings1, incb, portVars, timerVars,
                   bounds, executed>>

RunTask ==
    /\ AtLoop("run_mux")
    /\ pendings # <<>>
    /\ executed' = Append(executed, Head(pendings))
    /\ pendings' = Tail(pendings)
    /\ incb' = TRUE
    /\ UNCHANGED <<workerVars, queueVars, runVars, pendings1, batch, portVars,
                   timerVars, bounds>>

(* What was queued since the swap is taken off the count, too.              *)
DoneMuxCountsNext ==
    /\ AtLoop("run_mux")
    /\ pendings = <<>>
    /\ tasks_count_' = tasks_count_ - batch - Len(tasks_mux_)
    /\ batch' = 0
    /\ pendings1' = taks_nmux_
    /\ taks_nmux_' = <<>>
    /\ pc' = "run_nmux"
    /\ UNCHANGED <<workerVars, tasks_mux_, nowait, hastimer, hasstop, entries,
                   pendings, incb, portVars, timerVars, bounds, executed>>

(* tasks_count_ -= pendings.size(), then the swap of the loop's own queue.  *)
DoneMux ==
    /\ AtLoop("run_mux")
    /\ pendings = <<>>
    /\ tasks_count_' = (tasks_count_ + CountMod - (batch % CountMod)) % CountMod
    /\ batch' = 0
    /\ pendings1' = taks_nmux_
    /\ taks_nmux_' = <<>>
    /\ pc' = "run_nmux"
    /\ UNCHANGED <<workerVars, tasks_mux_, nowait, hastimer, hasstop, entries,
                   pendings, incb, portVars, timerVars, bounds, executed>>

RunLocalTask ==
    /\ AtLoop("run_nmux")
    /\ pendings1 # <<>>
    /\ executed' = Append(executed, Head(pendings1))
    /\ pendings1' = Tail(pendings1)
    /\ incb' = TRUE
    /\ UNCHANGED <<workerVars, queueVars, runVars, pendings, batch, portVars,
                   timerVars, bounds>>

(* After the timers: line 253.                                              *)
Onward == IF hasstop THEN "end" ELSE "check"

DoneLocal ==
    /\ AtLoop("run_nmux")
    /\ pendings1 = <<>>
    /\ pc' = IF iocp = "closed" THEN "done"
             ELSE IF hastimer THEN "timer"
             ELSE Onward
    /\ UNCHANGED <<workerVars, queueVars, nowait, hastimer, hasstop, entries,
                   batchVars, incb, portVars, timerVars, bounds, executed>>

(* on_timer(): user code runs if a timer is due.                            *)
OnTimer ==
    /\ AtLoop("timer")
    /\ incb' \in BOOLEAN
    /\ pc' = Onward
    /\ UNCHANGED <<workerVars, queueVars, nowait, hastimer, hasstop, entries,
                   batchVars, portVars, timerVars, bounds, executed>>

(* A faulty stop_timer(): the timer is not set to wake its thread.          *)
OnStopWakesNobody ==
    /\ AtLoop("end")
    /\ iocp' = "closed"
    /\ port' = <<>>
    /\ stop_requested' = TRUE
    /\ pc' = "join"
    /\ UNCHANGED <<workerVars, queueVars, nowait, hastimer, hasstop, entries,
                   batchVars, incb, tpc, due, bounds, executed>>

(* The port is closed and its packets are gone.  on_stop() up to the join   *)
(* of the timer thread: the timer is set to a time long past.               *)
OnStop ==
    /\ AtLoop("end")
    /\ iocp' = "closed"
    /\ port' = <<>>
    /\ stop_requested' = TRUE
    /\ due' = TRUE
    /\ pc' = "join"
    /\ UNCHANGED <<workerVars, queueVars, nowait, hastimer, hasstop, entries,
                   batchVars, incb, tpc, bounds, executed>>

(* A faulty join(), which does not wait.                                    *)
JoinDetaches ==
    /\ AtLoop("join")
    /\ due' = FALSE
    /\ pc' = "swap_mux"
    /\ UNCHANGED <<workerVars, queueVars, nowait, hastimer, hasstop, entries,
                   batchVars, incb, portVars, tpc, stop_requested, bounds,
                   executed>>

(* timer_thread.join(), then the handle of the timer is closed.             *)
Join ==
    /\ AtLoop("join")
    /\ tpc = "none"
    /\ due' = FALSE
    /\ pc' = "swap_mux"
    /\ UNCHANGED <<workerVars, queueVars, nowait, hastimer, hasstop, entries,
                   batchVars, incb, portVars, tpc, stop_requested, bounds,
                   executed>>

(* run() has returned; its thread goes on to call it again.                 *)
RunAgain ==
    /\ pc = "done"
    /\ runs + 1 < MaxRuns
    /\ runs' = runs + 1
    /\ pc' = "start"
    /\ UNCHANGED <<workerVars, queueVars, nowait, hastimer, hasstop, entries,
                   batchVars, incb, portVars, timerVars, stops, ios, ticks,
                   executed>>

-----------------------------------------------------------------------------
(* User code on the loop thread: inside a callback, or before run().        *)

(* post(): counted, queued without lock or packet.                          *)
UserPost ==
    /\ InUser
    /\ \E t \in Tasks \ posted :
          /\ posted' = posted \union {t}
          /\ taks_nmux_' = Append(taks_nmux_, t)
    /\ tasks_count_' = (tasks_count_ + 1) % CountMod
    /\ UNCHANGED <<wpc, wtask, tasks_mux_, runVars, batchVars, incb, portVars,
                   timerVars, bounds, executed>>

UserReturn ==
    /\ incb
    /\ incb' = FALSE
    /\ UNCHANGED <<workerVars, queueVars, runVars, batchVars, portVars,
                   timerVars, bounds, executed>>

-----------------------------------------------------------------------------
(* The system: a socket operation completes, the waitable timer expires.    *)

KIo ==
    /\ iocp = "open"
    /\ ios < MaxIo
    /\ ios' = ios + 1
    /\ PostPacket("io")
    /\ UNCHANGED <<workerVars, queueVars, runVars, batchVars, incb, iocp,
                   timerVars, stops, ticks, runs, executed>>

KTimer ==
    /\ tpc # "none"
    /\ ticks < MaxTicks
    /\ ticks' = ticks + 1
    /\ due' = TRUE
    /\ UNCHANGED <<workerVars, queueVars, runVars, batchVars, incb, portVars,
                   tpc, stop_requested, stops, ios, runs, executed>>

(* run() is not called again, or blocks until somebody calls.               *)
Quiet ==
    /\ pc = "done" \/ (AtLoop("wait") /\ ~nowait)
    /\ UNCHANGED vars

-----------------------------------------------------------------------------
WorkerStep(w) == PostPush(w) \/ PostWake(w)

TimerStep == TimerCheck \/ TimerWait \/ TimerCall

LoopStep ==
    \/ OnStart \/ CheckTasks \/ WaitReturn \/ WaitNothing
    \/ HandlePacket \/ EntriesDone
    \/ SwapMux \/ RunTask \/ DoneMux \/ RunLocalTask \/ DoneLocal
    \/ OnTimer \/ OnStop \/ Join \/ UserReturn

Next ==
    \/ \E w \in Workers : PostCount(w) \/ WorkerStep(w)
    \/ Stop
    \/ TimerStep
    \/ LoopStep
    \/ UserPost
    \/ RunAgain
    \/ KIo \/ KTimer
    \/ Quiet

Spec == Init /\ [][Next]_vars

(* Threads and callbacks make progress.  Nothing makes anyone post or stop, *)
(* and no timer need expire.                                                *)
Fairness ==
    /\ WF_vars(LoopStep)
    /\ WF_vars(TimerStep)
    /\ \A w \in Workers : WF_vars(WorkerStep(w))

FairSpec == Spec /\ Fairness

-----------------------------------------------------------------------------
(* Safety.                                                                  *)

Waking == {w \in Workers : wpc[w] = "wake"}

Blocked == AtLoop("wait") /\ ~nowait

(* A loop blocked in GetQueuedCompletionStatusEx has nothing of its own to  *)
(* run, and if another thread's task is queued a packet is in the port or   *)
(* about to be: even for tasks queued while the port was closed, between    *)
(* two run()s, whose packets were lost.                                     *)
NoLostWakeup ==
    Blocked =>
        /\ taks_nmux_ = <<>>
        /\ tasks_mux_ # <<>> => port # <<>> \/ Waking # {}

(* The timer thread lives only inside run(): it never posts to a port that a*)
(* later run() opened, and run() never starts a second one.                 *)
TimerThreadInsideRun ==
    pc \in {"start", "done"} \/ (iocp = "closed" /\ pc # "join") =>
        tpc = "none"

Queued(p) == \E q \in {port, entries} : \E i \in DOMAIN q : q[i] = p

StopIsDue == Queued("stop") \/ (hasstop /\ pc \notin {"start", "check"})

TickIsDue ==
    \/ Queued("timer")
    \/ hastimer /\ pc \in {"entries", "swap_mux", "run_mux", "run_nmux"}

(* No packet is forgotten before it had its effect, whatever shares a batch *)
(* with it or follows in the next: a stop is kept until run() closes its    *)
(* port, a tick until timer_call(), or until the port is closed.            *)
PacketsAreKept ==
    [][/\ StopIsDue => StopIsDue' \/ iocp' = "closed"
       /\ TickIsDue => TickIsDue' \/ pc' = "timer" \/ iocp' = "closed"]_vars

-----------------------------------------------------------------------------
(* The abstract specification and liveness.                                 *)

Box == INSTANCE Mailbox WITH
    inbox <- pendings \o tasks_mux_,
    local <- pendings1 \o taks_nmux_,
    delivered <- executed,
    open <- pc # "done"

(* Each queue is run in the order it was filled, each task at most once, and*)
(* nothing runs between two run()s.                                         *)
BoxSafety == Box!ReopenSpec

(* What is queued is run unless run() returns: post() is enough to wake the *)
(* loop, and what is queued between two run()s is run by the next.          *)
BoxProgress == Box!Progress

(* A stop() that found the port open makes run() return: the timer thread   *)
(* can always be joined.                                                    *)
StopEndsRun == (\E i \in DOMAIN port : port[i] = "stop") ~> pc = "done"

(* A packet of the timer thread makes the loop call timer_call(), whatever  *)
(* else is in its batch, unless a stop comes first.                         *)
TickServed ==
    (\E i \in DOMAIN port : port[i] = "timer") ~> pc \in {"timer", "done"}
=============================================================================
