------------------------------ MODULE LinuxLoop ------------------------------
(***************************************************************************)
(* The event loop of shuio/linux/shu_loop.cpp: run(), post(), dispatch(),  *)
(* stop() and the wake-up through an eventfd polled by the ring, one       *)
(* action per access to state that another thread or the kernel shares.    *)
(*                                                                         *)
(* The loop thread is one program counter pc walking the body of run();    *)
(* worker threads call post() (or dispatch(), stop(), add_timer(),         *)
(* cancel_timer(), which off the loop thread all come to post()) in three  *)
(* steps; the kernel completes what the ring was given, in any order and   *)
(* at any time.  User code runs inside the loop's callbacks (incb) and     *)
(* before run() (pc = "start"), and may call the loop from there.  What a  *)
(* timer task does to the timers is LoopTimer's business: here it is a     *)
(* call of wakeup().                                                       *)
(***************************************************************************)
EXTENDS Naturals, Sequences, FiniteSets

CONSTANTS
    Workers,           \* threads other than the loop's
    UserTasks,         \* closures of the user's, for post() or dispatch()
    StopTasks,         \* the closures stop() makes
    TimerTasks,        \* the closures add_timer() and cancel_timer() make
    MaxIo,             \* bound: completions of user operations
    CountMod,          \* values of tasks_count_ (2^32 in the code)
    NoTask             \* a worker that holds no task

Tasks == UserTasks \union StopTasks \union TimerTasks

ASSUME TasksAssumption ==
    /\ UserTasks \intersect StopTasks = {}
    /\ UserTasks \intersect TimerTasks = {}
    /\ StopTasks \intersect TimerTasks = {}
    /\ NoTask \notin Tasks

ASSUME BoundsAssumption ==
    /\ MaxIo \in Nat
    /\ CountMod \in Nat \ {0}
    /\ IsFiniteSet(Workers)

VARIABLES
    posted,            \* the tasks already used (each is one call of the API)
    wpc, wtask,        \* a worker inside post(): where it is, its task
    tasks_mux_,        \* queue of the other threads, under mutex_
    taks_nmux_,        \* queue of the loop thread
    tasks_count_,      \* atomic_uint32_t
    pc,                \* where the loop thread is in run() and on_tasks()
    nowait, hasstop,   \* locals of run()
    pendings, pendings1,   \* locals of on_tasks(): what is left of them
    batch,             \* pendings.size()
    incb,              \* user code is running inside a callback
    event_fd_,         \* "closed" when -1, the ring exited with it
    efd,               \* the counter of the eventfd
    poll,              \* "armed" while a poll of the eventfd is with the kernel
    cq,                \* completion queue, the entries not yet handled
    nops,              \* NOPs of stop() with the kernel
    ios,               \* completions of user operations so far
    executed,          \* history: the queued tasks the loop ran, in order
    localPosts,        \* history: number of posts by the loop thread
    panicked           \* "no", or what killed the process

workerVars == <<wpc, wtask>>
queueVars  == <<tasks_mux_, taks_nmux_, tasks_count_>>
runVars    == <<pc, nowait, hasstop>>
batchVars  == <<pendings, pendings1, batch>>
kernelVars == <<poll, cq, nops, ios>>
histVars   == <<executed, localPosts>>

vars == <<posted, workerVars, queueVars, runVars, batchVars, incb,
          event_fd_, efd, kernelVars, histVars, panicked>>

Cqes == {"efd", "stop", "io"}

PostType ==
    /\ posted \subseteq Tasks
    /\ wpc \in [Workers -> {"idle", "push", "wake"}]
    /\ wtask \in [Workers -> Tasks \union {NoTask}]
    /\ tasks_mux_ \in Seq(Tasks)
    /\ taks_nmux_ \in Seq(UserTasks)
    /\ tasks_count_ \in 0 .. CountMod - 1
    /\ executed \in Seq(Tasks)
    /\ localPosts \in Nat

LoopType ==
    /\ pc \in {"start", "check", "wait", "cqe", "rearm", "swap_mux", "run_mux",
               "run_nmux", "timer", "end", "done"}
    /\ nowait \in BOOLEAN
    /\ hasstop \in BOOLEAN
    /\ pendings \in Seq(Tasks)
    /\ pendings1 \in Seq(UserTasks)
    /\ batch \in Nat
    /\ incb \in BOOLEAN
    /\ panicked \in {"no", "wakeup", "handle_eventfd", "ring"}

KernelType ==
    /\ event_fd_ \in {"open", "closed"}
    /\ efd \in Nat
    /\ poll \in {"none", "armed"}
    /\ cq \in Seq(Cqes)
    /\ nops \in Nat
    /\ ios \in Nat

TypeOK == PostType /\ LoopType /\ KernelType

Init ==
    /\ posted = {}
    /\ wpc = [w \in Workers |-> "idle"]
    /\ wtask = [w \in Workers |-> NoTask]
    /\ tasks_mux_ = <<>>
    /\ taks_nmux_ = <<>>
    /\ tasks_count_ = 0
    /\ pc = "start"
    /\ nowait = FALSE
    /\ hasstop = FALSE
    /\ pendings = <<>>
    /\ pendings1 = <<>>
    /\ batch = 0
    /\ incb = FALSE
    /\ event_fd_ = "open"
    /\ efd = 0
    /\ poll = "none"
    /\ cq = <<>>
    /\ nops = 0
    /\ ios = 0
    /\ executed = <<>>
    /\ localPosts = 0
    /\ panicked = "no"

Running == panicked = "no"

Panic(why) == panicked' = why

AtLoop(p) == Running /\ pc = p /\ ~incb

NextCqe(c) == AtLoop("cqe") /\ cq # <<>> /\ Head(cq) = c

(* User code is on the loop thread: inside a callback, or before run().     *)
InUser == Running /\ (incb \/ pc = "start")

-----------------------------------------------------------------------------
(* Faulty variants of some actions below.  Each property is checked to fail *)
(* when one of them takes the place of the action it varies.                *)

(* post() leaves the wake-up to whoever else is counted.                    *)
PostPushLeavesWakeup(w) ==
    /\ Running
    /\ wpc[w] = "push"
    /\ tasks_mux_' = Append(tasks_mux_, wtask[w])
    /\ wtask' = [wtask EXCEPT ![w] = NoTask]
    /\ wpc' = [wpc EXCEPT ![w] = IF tasks_count_ > 1 THEN "idle" ELSE "wake"]
    /\ UNCHANGED <<posted, taks_nmux_, tasks_count_, runVars, batchVars, incb,
                   event_fd_, efd, kernelVars, histVars, panicked>>

(* Only the other threads' queue keeps the loop from blocking.              *)
CheckTasksMuxOnly ==
    /\ AtLoop("check")
    /\ hasstop' = FALSE
    /\ nowait' = (tasks_mux_ # <<>>)
    /\ pc' = "wait"
    /\ UNCHANGED <<posted, workerVars, queueVars, batchVars, incb, event_fd_,
                   efd, kernelVars, histVars, panicked>>

(* hasstop is assigned for every completion of the loop's own.              *)
HandleEventfdClearsStop ==
    /\ NextCqe("efd")
    /\ hasstop' = FALSE
    /\ efd' = 0
    /\ cq' = Tail(cq)
    /\ pc' = "rearm"
    /\ UNCHANGED <<posted, workerVars, queueVars, nowait, batchVars, incb,
                   event_fd_, poll, nops, ios, histVars, panicked>>

(* The eventfd is not polled again.                                         *)
PostReadEventfdForgotten ==
    /\ AtLoop("rearm")
    /\ pc' = "cqe"
    /\ UNCHANGED <<posted, workerVars, queueVars, nowait, hasstop, batchVars,
                   incb, event_fd_, efd, kernelVars, histVars, panicked>>

(* The eventfd is polled again after every completion.                      *)
HandleIoRearms ==
    /\ NextCqe("io")
    /\ incb' = TRUE
    /\ cq' = Tail(cq)
    /\ poll' = "armed"
    /\ UNCHANGED <<posted, workerVars, queueVars, runVars, batchVars,
                   event_fd_, efd, nops, ios, histVars, panicked>>

(* The queue is copied, not swapped.                                        *)
SwapMuxCopies ==
    /\ AtLoop("swap_mux")
    /\ pendings' = tasks_mux_
    /\ batch' = Len(tasks_mux_)
    /\ pc' = "run_mux"
    /\ UNCHANGED <<posted, workerVars, queueVars, nowait, hasstop, pendings1,
                   incb, event_fd_, efd, kernelVars, histVars, panicked>>

(* Both batches are taken off the count.                                    *)
DoneMuxCountsBoth ==
    /\ AtLoop("run_mux")
    /\ pendings = <<>>
    /\ tasks_count_' = tasks_count_ - batch - Len(taks_nmux_)
    /\ batch' = 0
    /\ pendings1' = taks_nmux_
    /\ taks_nmux_' = <<>>
    /\ pc' = "run_nmux"
    /\ UNCHANGED <<posted, workerVars, tasks_mux_, nowait, hasstop, pendings,
                   incb, event_fd_, efd, kernelVars, histVars, panicked>>

(* dispatch() on the loop thread posts.                                     *)
UserDispatchPosts ==
    /\ InUser
    /\ \E t \in (StopTasks \union TimerTasks) \ posted :
          /\ posted' = posted \union {t}
          /\ taks_nmux_' = Append(taks_nmux_, t)
    /\ tasks_count_' = (tasks_count_ + 1) % CountMod
    /\ localPosts' = localPosts + 1
    /\ UNCHANGED <<workerVars, tasks_mux_, runVars, batchVars, incb, event_fd_,
                   efd, kernelVars, executed, panicked>>

-----------------------------------------------------------------------------
(* Worker threads: post(), lines 246-258, from a thread that is not the     *)
(* loop's.  The count, the push under mutex_ and the write to the eventfd   *)
(* are three steps.                                                         *)

PostCount(w) ==
    /\ Running
    /\ wpc[w] = "idle"
    /\ \E t \in Tasks \ posted :
          /\ posted' = posted \union {t}
          /\ wtask' = [wtask EXCEPT ![w] = t]
    /\ tasks_count_' = (tasks_count_ + 1) % CountMod
    /\ wpc' = [wpc EXCEPT ![w] = "push"]
    /\ UNCHANGED <<tasks_mux_, taks_nmux_, runVars, batchVars, incb, event_fd_,
                   efd, kernelVars, histVars, panicked>>

PostPush(w) ==
    /\ Running
    /\ wpc[w] = "push"
    /\ tasks_mux_' = Append(tasks_mux_, wtask[w])
    /\ wtask' = [wtask EXCEPT ![w] = NoTask]
    /\ wpc' = [wpc EXCEPT ![w] = "wake"]
    /\ UNCHANGED <<posted, taks_nmux_, tasks_count_, runVars, batchVars, incb,
                   event_fd_, efd, kernelVars, histVars, panicked>>

(* wakeup() as the last step of post(): the assertion of line 356, then the *)
(* write.                                                                   *)
PostWakeup(w) ==
    /\ Running
    /\ wpc[w] = "wake"
    /\ \/ /\ event_fd_ = "open"
          /\ efd' = efd + 1
          /\ wpc' = [wpc EXCEPT ![w] = "idle"]
          /\ UNCHANGED panicked
       \/ /\ event_fd_ = "closed"
          /\ Panic("wakeup")
          /\ UNCHANGED <<efd, wpc>>
    /\ UNCHANGED <<posted, wtask, queueVars, runVars, batchVars, incb,
                   event_fd_, kernelVars, histVars>>

-----------------------------------------------------------------------------
(* The loop thread.                                                         *)

(* on_start(): the first post_read_eventfd().                               *)
OnStart ==
    /\ AtLoop("start")
    /\ poll' = "armed"
    /\ pc' = "check"
    /\ UNCHANGED <<posted, workerVars, queueVars, nowait, hasstop, batchVars,
                   incb, event_fd_, efd, cq, nops, ios, histVars, panicked>>

(* Lines 185-193.  tasks_mux_.size() is read without mutex_: while a worker *)
(* is inside emplace_back the value read is anyone's guess.                 *)
CheckTasks ==
    /\ AtLoop("check")
    /\ hasstop' = FALSE
    /\ \/ nowait' = (tasks_mux_ # <<>> \/ tasks_count_ > 0)
       \/ /\ \E w \in Workers : wpc[w] = "push"
          /\ nowait' \in BOOLEAN
          /\ tasks_count_ > 0 => nowait'
    /\ pc' = "wait"
    /\ UNCHANGED <<posted, workerVars, queueVars, batchVars, incb, event_fd_,
                   efd, kernelVars, histVars, panicked>>

(* io_uring_wait_cqe_timeout returns: with nowait the timeout is zero.      *)
WaitReturn ==
    /\ AtLoop("wait")
    /\ nowait \/ cq # <<>>
    /\ pc' = "cqe"
    /\ UNCHANGED <<posted, workerVars, queueVars, nowait, hasstop, batchVars,
                   incb, event_fd_, efd, kernelVars, histVars, panicked>>

(* It returns because the nearest timer, or max_expired_time, is due.       *)
WaitTimeout ==
    /\ AtLoop("wait")
    /\ ~nowait
    /\ cq = <<>>
    /\ pc' = "cqe"
    /\ UNCHANGED <<posted, workerVars, queueVars, nowait, hasstop, batchVars,
                   incb, event_fd_, efd, kernelVars, histVars, panicked>>

(* The poll of the eventfd completed: handle_eventfd() reads the counter to *)
(* zero; on an empty counter the read fails and line 365 panics.            *)
HandleEventfd ==
    /\ NextCqe("efd")
    /\ \/ /\ efd > 0
          /\ efd' = 0
          /\ cq' = Tail(cq)
          /\ pc' = "rearm"
          /\ UNCHANGED panicked
       \/ /\ efd = 0
          /\ Panic("handle_eventfd")
          /\ UNCHANGED <<efd, cq, pc>>
    /\ UNCHANGED <<posted, workerVars, queueVars, nowait, hasstop, batchVars,
                   incb, event_fd_, poll, nops, ios, histVars>>

PostReadEventfd ==
    /\ AtLoop("rearm")
    /\ poll' = "armed"
    /\ pc' = "cqe"
    /\ UNCHANGED <<posted, workerVars, queueVars, nowait, hasstop, batchVars,
                   incb, event_fd_, efd, cq, nops, ios, histVars, panicked>>

HandleStop ==
    /\ NextCqe("stop")
    /\ hasstop' = TRUE
    /\ cq' = Tail(cq)
    /\ UNCHANGED <<posted, workerVars, queueVars, pc, nowait, batchVars, incb,
                   event_fd_, efd, poll, nops, ios, histVars, panicked>>

(* A completion of a socket object: its callback runs user code.            *)
HandleIo ==
    /\ NextCqe("io")
    /\ incb' = TRUE
    /\ cq' = Tail(cq)
    /\ UNCHANGED <<posted, workerVars, queueVars, runVars, batchVars,
                   event_fd_, efd, poll, nops, ios, histVars, panicked>>

(* io_uring_for_each_cqe found no more entries.                             *)
CqAdvance ==
    /\ AtLoop("cqe")
    /\ cq = <<>>
    /\ pc' = "swap_mux"
    /\ UNCHANGED <<posted, workerVars, queueVars, nowait, hasstop, batchVars,
                   incb, event_fd_, efd, kernelVars, histVars, panicked>>

-----------------------------------------------------------------------------
(* on_tasks(), also called a last time by on_stop() with event_fd_ closed.  *)

SwapMux ==
    /\ AtLoop("swap_mux")
    /\ pendings' = tasks_mux_
    /\ tasks_mux_' = <<>>
    /\ batch' = Len(tasks_mux_)
    /\ pc' = "run_mux"
    /\ UNCHANGED <<posted, workerVars, taks_nmux_, tasks_count_, nowait,
                   hasstop, pendings1, incb, event_fd_, efd, kernelVars,
                   histVars, panicked>>

(* What a closure needs: the library's own write to the eventfd or the ring.*)
CanCall(t) == t \in UserTasks \/ event_fd_ = "open"

(* Its effect: the user's code starts, or a NOP is submitted, or wakeup().  *)
Call(t) ==
    /\ incb' = (t \in UserTasks)
    /\ nops' = IF t \in StopTasks THEN nops + 1 ELSE nops
    /\ efd' = IF t \in TimerTasks THEN efd + 1 ELSE efd

(* Without them it kills the process: line 356, or an SQE of a ring that    *)
(* io_uring_queue_exit has unmapped.                                        *)
Crash(t) == Panic(IF t \in StopTasks THEN "ring" ELSE "wakeup")

RunTask ==
    /\ AtLoop("run_mux")
    /\ pendings # <<>>
    /\ \/ /\ CanCall(Head(pendings))
          /\ Call(Head(pendings))
          /\ executed' = Append(executed, Head(pendings))
          /\ pendings' = Tail(pendings)
          /\ UNCHANGED panicked
       \/ /\ ~CanCall(Head(pendings))
          /\ Crash(Head(pendings))
          /\ UNCHANGED <<incb, nops, efd, executed, pendings>>
    /\ UNCHANGED <<posted, workerVars, queueVars, runVars, pendings1, batch,
                   event_fd_, poll, cq, ios, localPosts>>

(* tasks_count_ -= pendings.size(), then the swap of the loop's own queue.  *)
DoneMux ==
    /\ AtLoop("run_mux")
    /\ pendings = <<>>
    /\ tasks_count_' = (tasks_count_ + CountMod - (batch % CountMod)) % CountMod
    /\ batch' = 0
    /\ pendings1' = taks_nmux_
    /\ taks_nmux_' = <<>>
    /\ pc' = "run_nmux"
    /\ UNCHANGED <<posted, workerVars, tasks_mux_, nowait, hasstop, pendings,
                   incb, event_fd_, efd, kernelVars, histVars, panicked>>

RunLocalTask ==
    /\ AtLoop("run_nmux")
    /\ pendings1 # <<>>
    /\ executed' = Append(executed, Head(pendings1))
    /\ pendings1' = Tail(pendings1)
    /\ incb' = TRUE
    /\ UNCHANGED <<posted, workerVars, queueVars, runVars, pendings, batch,
                   event_fd_, efd, kernelVars, localPosts, panicked>>

DoneLocal ==
    /\ AtLoop("run_nmux")
    /\ pendings1 = <<>>
    /\ pc' = IF event_fd_ = "open" THEN "timer" ELSE "done"
    /\ UNCHANGED <<posted, workerVars, queueVars, nowait, hasstop, batchVars,
                   incb, event_fd_, efd, kernelVars, histVars, panicked>>

(* on_timer(): user code runs if a timer is due.  Then line 227.            *)
OnTimer ==
    /\ AtLoop("timer")
    /\ incb' \in BOOLEAN
    /\ pc' = IF hasstop THEN "end" ELSE "check"
    /\ UNCHANGED <<posted, workerVars, queueVars, nowait, hasstop, batchVars,
                   event_fd_, efd, kernelVars, histVars, panicked>>

(* on_stop() up to its on_tasks(): the ring goes with all it was given.     *)
OnStop ==
    /\ AtLoop("end")
    /\ event_fd_' = "closed"
    /\ efd' = 0
    /\ poll' = "none"
    /\ cq' = <<>>
    /\ nops' = 0
    /\ pc' = "swap_mux"
    /\ UNCHANGED <<posted, workerVars, queueVars, nowait, hasstop, batchVars,
                   incb, ios, histVars, panicked>>

-----------------------------------------------------------------------------
(* User code on the loop thread: inside a callback, or before run().        *)

(* post() on the loop thread: counted, queued without lock or wake-up.      *)
UserPost ==
    /\ InUser
    /\ \E t \in UserTasks \ posted :
          /\ posted' = posted \union {t}
          /\ taks_nmux_' = Append(taks_nmux_, t)
    /\ tasks_count_' = (tasks_count_ + 1) % CountMod
    /\ localPosts' = localPosts + 1
    /\ UNCHANGED <<workerVars, tasks_mux_, runVars, batchVars, incb, event_fd_,
                   efd, kernelVars, executed, panicked>>

(* stop(), add_timer(), cancel_timer() on the loop thread: dispatch() calls *)
(* the closure at once.                                                     *)
UserDispatch ==
    /\ InUser
    /\ \E t \in (StopTasks \union TimerTasks) \ posted :
          /\ posted' = posted \union {t}
          /\ \/ /\ CanCall(t)
                /\ nops' = IF t \in StopTasks THEN nops + 1 ELSE nops
                /\ efd' = IF t \in TimerTasks THEN efd + 1 ELSE efd
                /\ UNCHANGED panicked
             \/ /\ ~CanCall(t)
                /\ Crash(t)
                /\ UNCHANGED <<nops, efd>>
    /\ UNCHANGED <<workerVars, queueVars, runVars, batchVars, incb, event_fd_,
                   poll, cq, ios, histVars>>

UserReturn ==
    /\ Running
    /\ incb
    /\ incb' = FALSE
    /\ UNCHANGED <<posted, workerVars, queueVars, runVars, batchVars,
                   event_fd_, efd, kernelVars, histVars, panicked>>

-----------------------------------------------------------------------------
(* The kernel.                                                              *)

KPoll ==
    /\ Running
    /\ poll = "armed"
    /\ efd > 0
    /\ poll' = "none"
    /\ cq' = Append(cq, "efd")
    /\ UNCHANGED <<posted, workerVars, queueVars, runVars, batchVars, incb,
                   event_fd_, efd, nops, ios, histVars, panicked>>

KNop ==
    /\ Running
    /\ nops > 0
    /\ nops' = nops - 1
    /\ cq' = Append(cq, "stop")
    /\ UNCHANGED <<posted, workerVars, queueVars, runVars, batchVars, incb,
                   event_fd_, efd, poll, ios, histVars, panicked>>

KIo ==
    /\ Running
    /\ event_fd_ = "open"
    /\ pc # "start"
    /\ ios < MaxIo
    /\ ios' = ios + 1
    /\ cq' = Append(cq, "io")
    /\ UNCHANGED <<posted, workerVars, queueVars, runVars, batchVars, incb,
                   event_fd_, efd, poll, nops, histVars, panicked>>

(* run() has returned, or the process is gone.                              *)
Halted ==
    /\ ~Running \/ (pc = "done" /\ \A w \in Workers : wpc[w] = "idle")
    /\ UNCHANGED vars

-----------------------------------------------------------------------------
WorkerStep(w) == PostPush(w) \/ PostWakeup(w)

LoopStep ==
    \/ OnStart \/ CheckTasks \/ WaitReturn
    \/ HandleEventfd \/ PostReadEventfd \/ HandleStop \/ HandleIo \/ CqAdvance
    \/ SwapMux \/ RunTask \/ DoneMux \/ RunLocalTask \/ DoneLocal
    \/ OnTimer \/ OnStop \/ UserReturn

UserStep == UserPost \/ UserDispatch

Kernel == KPoll \/ KNop \/ KIo

Next ==
    \/ \E w \in Workers : PostCount(w) \/ WorkerStep(w)
    \/ LoopStep
    \/ WaitTimeout
    \/ UserStep
    \/ Kernel
    \/ Halted

Spec == Init /\ [][Next]_vars

(* Threads and callbacks make progress and the kernel completes what it     *)
(* holds; nothing makes anyone post, and nothing makes a timer due.         *)
Fairness ==
    /\ WF_vars(LoopStep)
    /\ WF_vars(KPoll)
    /\ WF_vars(KNop)
    /\ \A w \in Workers : WF_vars(WorkerStep(w))

FairSpec == Spec /\ Fairness

-----------------------------------------------------------------------------
(* Safety.                                                                  *)

Pushing == {w \in Workers : wpc[w] = "push"}
Waking  == {w \in Workers : wpc[w] = "wake"}

Blocked == AtLoop("wait") /\ ~nowait

(* A loop blocked in io_uring_wait_cqe_timeout has nothing of its own to    *)
(* run, and if another thread's task is queued then a completion, a         *)
(* readable eventfd under an armed poll, or a worker about to write to it   *)
(* will wake it: no interleaving of count, push, write, read and rearm      *)
(* loses the wake-up.                                                       *)
NoLostWakeup ==
    Blocked =>
        /\ taks_nmux_ = <<>>
        /\ tasks_mux_ # <<>> =>
              \/ cq # <<>>
              \/ poll = "armed" /\ efd > 0
              \/ Waking # {}

(* handle_eventfd() never finds an empty counter, so the assertion of line  *)
(* 365 never fails: the one reader reads once per completed poll and no     *)
(* poll is armed before the read of the last one.  LinuxReactor has the     *)
(* completions of cancellations that run() takes for the poll's.            *)
EventfdReadable == panicked # "handle_eventfd"

(* tasks_count_ is decremented only for the batch of the other threads'     *)
(* queue (line 328): after one post() from the loop thread it never comes   *)
(* back to zero, and the loop polls the ring without ever blocking.         *)
SpinsAfterLocalPost == localPosts > 0 => ~Blocked

(* A stop() on its way: submitted, completed, seen by run(), or carried out.*)
StopIsDue ==
    \/ nops > 0
    \/ \E i \in DOMAIN cq : cq[i] = "stop"
    \/ hasstop
    \/ event_fd_ = "closed"

(* No stop() is forgotten: its closure is with the thread that calls it or  *)
(* in the queue, or its NOP leads to the end of run(), whatever completions *)
(* share a batch with it and although hasstop is cleared at every iteration.*)
StopIsKept ==
    \A t \in StopTasks \intersect posted :
        \/ \E w \in Workers : wtask[w] = t
        \/ \E i \in DOMAIN tasks_mux_ : tasks_mux_[i] = t
        \/ \E i \in DOMAIN pendings : pendings[i] = t
        \/ StopIsDue

-----------------------------------------------------------------------------
(* The inductive invariant.                                                 *)

(* Where the locals of run() and on_tasks() are in use.                     *)
ProgramInv ==
    /\ incb => pc \in {"check", "cqe", "run_mux", "run_nmux", "end"}
    /\ event_fd_ = "closed" =>
          pc \in {"swap_mux", "run_mux", "run_nmux", "done"}
    /\ event_fd_ = "open" => pc # "done"
    /\ pc # "run_mux" => pendings = <<>> /\ batch = 0
    /\ pc # "run_nmux" => pendings1 = <<>>
    /\ \A w \in Workers :
          IF wpc[w] = "push" THEN wtask[w] \in Tasks ELSE wtask[w] = NoTask

(* There are fewer tasks in all than tasks_count_ can count.                *)
NoWrap == IsFiniteSet(Tasks) /\ Cardinality(Tasks) < CountMod

(* What tasks_count_ counts; it is no more than the calls of the API.       *)
Outstanding ==
    localPosts + Len(tasks_mux_) + batch + Cardinality(Pushing)

CountInv ==
    /\ tasks_count_ = Outstanding
    /\ IsFiniteSet(posted)
    /\ Outstanding <= Cardinality(posted)
    /\ Len(taks_nmux_) <= localPosts

(* The loop decides to block only if it never posted to itself.             *)
BlockInv == pc = "wait" /\ ~nowait => localPosts = 0

PollDone == \E i \in 1 .. Len(cq) : cq[i] = "efd"

(* The eventfd is polled once at a time, and a completed poll leaves it     *)
(* readable until its one reader comes.                                     *)
PollInv ==
    /\ event_fd_ = "open" /\ pc \notin {"start", "rearm"} =>
          poll = "armed" \/ PollDone
    /\ poll = "armed" => ~PollDone
    /\ event_fd_ = "closed" \/ pc \in {"start", "rearm"} =>
          poll = "none" /\ ~PollDone
    /\ event_fd_ = "closed" => nops = 0
    /\ \A i, j \in 1 .. Len(cq) : cq[i] = "efd" /\ cq[j] = "efd" => i = j
    /\ PollDone => efd > 0
    /\ EventfdReadable

(* A queued task has its wake-up on the way, except between the read of the *)
(* eventfd and the swap of the queue that the same iteration reaches.       *)
WakeInv ==
    /\ tasks_mux_ # <<>>
    /\ event_fd_ = "open"
    /\ pc \notin {"cqe", "rearm", "swap_mux"}
    => efd > 0 \/ Waking # {}

IndInv == TypeOK /\ ProgramInv /\ PollInv /\ WakeInv

-----------------------------------------------------------------------------
(* The abstract specification.                                              *)

Box == INSTANCE Mailbox WITH
    inbox <- pendings \o tasks_mux_,
    local <- pendings1 \o taks_nmux_,
    delivered <- executed,
    open <- pc # "done" /\ panicked = "no"

(* Each queue is run in the order it was filled, each task at most once,    *)
(* and nothing runs after run() has returned or the process has died.       *)
BoxSafety == Box!SafeSpec

(* What is queued is run unless run() returns or the process dies: post()   *)
(* is enough to wake the loop, without help from the timeout of the wait.   *)
BoxProgress == Box!Progress

(* A stop() whose NOP was submitted makes run() return.                     *)
StopEndsRun == (nops > 0) ~> (pc = "done" \/ ~Running)

(* wakeup() asserts that the eventfd is open (line 356).                    *)
WakeupFindsEventfd == panicked # "wakeup"
=============================================================================
