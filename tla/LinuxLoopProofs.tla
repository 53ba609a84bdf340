--------------------------- MODULE LinuxLoopProofs ---------------------------
(***************************************************************************)
(* Proofs about LinuxLoop, for any number of threads, tasks and            *)
(* completions.                                                            *)
(***************************************************************************)
EXTENDS LinuxLoop, QueueFacts, FiniteSetTheorems, SequenceTheorems, TLAPS

-----------------------------------------------------------------------------
(* Type correctness, one lemma per part of TypeOK.                          *)

LEMMA PostTypeStep == TypeOK /\ ProgramInv /\ [Next]_vars => PostType'
<1> SUFFICES ASSUME PostType, LoopType, ProgramInv, [Next]_vars
             PROVE  PostType'
    BY DEF TypeOK
<1> USE BoundsAssumption
    DEF PostType, workerVars, queueVars, histVars
<1>1. ASSUME NEW w \in Workers, PostCount(w)
      PROVE  PostType'
    BY <1>1 DEF PostCount
<1>2. ASSUME NEW w \in Workers, PostPush(w)
      PROVE  PostType'
  <2>1. wtask[w] \in Tasks
    BY <1>2 DEF PostPush, ProgramInv
  <2>. QED
    BY <1>2, <2>1 DEF PostPush
<1>3. ASSUME NEW w \in Workers, PostWakeup(w)
      PROVE  PostType'
    BY <1>3 DEF PostWakeup
<1>4. CASE SwapMux
    BY <1>4, EmptySeq DEF SwapMux
<1>5. CASE RunTask
  <2>1. Append(executed, Head(pendings)) \in Seq(Tasks)
    BY <1>5, HeadTailProperties, AppendProperties DEF RunTask, LoopType
  <2>. QED
    BY <1>5, <2>1 DEF RunTask
<1>6. CASE DoneMux
    BY <1>6, EmptySeq DEF DoneMux, LoopType
<1>7. CASE RunLocalTask
  <2>1. Append(executed, Head(pendings1)) \in Seq(Tasks)
    BY <1>7, HeadTailProperties, AppendProperties
       DEF RunLocalTask, LoopType, Tasks
  <2>. QED
    BY <1>7, <2>1 DEF RunLocalTask
<1>8. CASE UserPost
    BY <1>8 DEF UserPost, Tasks
<1>9. CASE UserDispatch
    BY <1>9 DEF UserDispatch, Tasks
<1>10. CASE \/ OnStart \/ CheckTasks \/ WaitReturn \/ WaitTimeout
            \/ HandleEventfd \/ PostReadEventfd \/ HandleStop \/ HandleIo
            \/ CqAdvance \/ DoneLocal \/ OnTimer \/ OnStop \/ UserReturn
            \/ Kernel \/ Halted \/ UNCHANGED vars
    BY <1>10
       DEF OnStart, CheckTasks, WaitReturn, WaitTimeout, HandleEventfd,
           PostReadEventfd, HandleStop, HandleIo, CqAdvance, DoneLocal,
           OnTimer, OnStop, UserReturn, Kernel, KPoll, KNop, KIo, Halted, vars
<1>. QED
    BY <1>1, <1>2, <1>3, <1>4, <1>5, <1>6, <1>7, <1>8, <1>9, <1>10
       DEF Next, WorkerStep, LoopStep, UserStep

LEMMA LoopTypeStep == TypeOK /\ [Next]_vars => LoopType'
<1> SUFFICES ASSUME TypeOK, [Next]_vars
             PROVE  LoopType'
    OBVIOUS
<1> USE DEF TypeOK, LoopType, runVars, batchVars, Panic
<1>1. CASE \E w \in Workers : PostCount(w) \/ PostPush(w) \/ PostWakeup(w)
    BY <1>1 DEF PostCount, PostPush, PostWakeup
<1>2. CASE \/ OnStart \/ WaitReturn \/ WaitTimeout \/ HandleEventfd
           \/ PostReadEventfd \/ CqAdvance \/ DoneLocal \/ OnStop
    BY <1>2 DEF OnStart, WaitReturn, WaitTimeout, HandleEventfd,
                PostReadEventfd, CqAdvance, DoneLocal, OnStop
<1>3. CASE CheckTasks
    BY <1>3 DEF CheckTasks
<1>4. CASE HandleStop \/ HandleIo \/ OnTimer \/ UserReturn
    BY <1>4 DEF HandleStop, HandleIo, OnTimer, UserReturn
<1>5. CASE SwapMux
    BY <1>5, EmptySeq, LenProperties DEF SwapMux, PostType
<1>6. CASE RunTask
  <2>1. Tail(pendings) \in Seq(Tasks)
    BY <1>6, HeadTailProperties DEF RunTask
  <2>2. CASE CanCall(Head(pendings))
    <3>1. Call(Head(pendings))
      BY <1>6, <2>2 DEF RunTask
    <3>2. incb' \in BOOLEAN
      <4>1. \A b : (b = (Head(pendings) \in UserTasks)) => b \in BOOLEAN
        OBVIOUS
      <4>. QED
        BY <3>1, <4>1, Zenon DEF Call
    <3>. QED
      BY <1>6, <2>1, <2>2, <3>2 DEF RunTask
  <2>3. CASE ~CanCall(Head(pendings))
    BY <1>6, <2>3 DEF RunTask, Crash
  <2>. QED
    BY <2>2, <2>3
<1>7. CASE DoneMux
    BY <1>7 DEF DoneMux, PostType
<1>8. CASE RunLocalTask
    BY <1>8, HeadTailProperties DEF RunLocalTask
<1>9. CASE UserPost
    BY <1>9 DEF UserPost
<1>10. CASE UserDispatch
    BY <1>10 DEF UserDispatch, Crash
<1>11. CASE Kernel \/ Halted \/ UNCHANGED vars
    BY <1>11 DEF Kernel, KPoll, KNop, KIo, Halted, vars
<1>. QED
    BY <1>1, <1>2, <1>3, <1>4, <1>5, <1>6, <1>7, <1>8, <1>9, <1>10, <1>11
       DEF Next, WorkerStep, LoopStep, UserStep

LEMMA KernelTypeStep == TypeOK /\ [Next]_vars => KernelType'
<1> SUFFICES ASSUME KernelType, [Next]_vars
             PROVE  KernelType'
    BY DEF TypeOK
<1> USE DEF KernelType, kernelVars
<1>1. CASE \E w \in Workers : PostCount(w) \/ PostPush(w) \/ PostWakeup(w)
    BY <1>1 DEF PostCount, PostPush, PostWakeup
<1>2. CASE OnStart \/ PostReadEventfd
    BY <1>2 DEF OnStart, PostReadEventfd
<1>3. CASE HandleEventfd \/ HandleStop \/ HandleIo
    BY <1>3, HeadTailProperties
       DEF HandleEventfd, HandleStop, HandleIo, NextCqe
<1>4. CASE RunTask
  <2>1. CASE CanCall(Head(pendings))
    BY <1>4, <2>1 DEF RunTask, Call
  <2>2. CASE ~CanCall(Head(pendings))
    BY <1>4, <2>2 DEF RunTask
  <2>. QED
    BY <2>1, <2>2
<1>5. CASE OnStop
    BY <1>5, EmptySeq DEF OnStop
<1>6. CASE UserDispatch
    BY <1>6 DEF UserDispatch
<1>7. CASE Kernel
  <2>1. \A c \in {"efd", "stop", "io"} : Append(cq, c) \in Seq(Cqes)
    BY AppendProperties DEF Cqes
  <2>2. CASE KPoll
    BY <2>1, <2>2 DEF KPoll
  <2>3. CASE KNop
    BY <2>1, <2>3 DEF KNop
  <2>4. CASE KIo
    BY <2>1, <2>4 DEF KIo
  <2>. QED
    BY <1>7, <2>2, <2>3, <2>4 DEF Kernel
<1>8. CASE \/ CheckTasks \/ WaitReturn \/ WaitTimeout \/ CqAdvance \/ SwapMux
           \/ DoneMux \/ RunLocalTask \/ DoneLocal \/ OnTimer \/ UserPost
           \/ UserReturn \/ Halted \/ UNCHANGED vars
    BY <1>8
       DEF CheckTasks, WaitReturn, WaitTimeout, CqAdvance, SwapMux, DoneMux,
           RunLocalTask, DoneLocal, OnTimer, UserPost, UserReturn, Halted,
           vars
<1>. QED
    BY <1>1, <1>2, <1>3, <1>4, <1>5, <1>6, <1>7, <1>8
       DEF Next, WorkerStep, LoopStep, UserStep

-----------------------------------------------------------------------------
(* Where the locals of run() and on_tasks() are in use.                     *)

LEMMA ProgramStep == TypeOK /\ ProgramInv /\ [Next]_vars => ProgramInv'
<1> SUFFICES ASSUME TypeOK, ProgramInv, [Next]_vars
             PROVE  ProgramInv'
    OBVIOUS
<1>a. wpc \in [Workers -> {"idle", "push", "wake"}] /\ DOMAIN wtask = Workers
    BY DEF TypeOK, PostType
<1>b. event_fd_ \in {"open", "closed"}
    BY DEF TypeOK, KernelType
<1> HIDE DEF TypeOK
<1> USE DEF ProgramInv, workerVars, runVars, batchVars, AtLoop
<1>1. ASSUME NEW w \in Workers, PostCount(w)
      PROVE  ProgramInv'
    BY <1>1, <1>a DEF PostCount
<1>2. ASSUME NEW w \in Workers, PostPush(w)
      PROVE  ProgramInv'
    BY <1>2, <1>a DEF PostPush
<1>3. ASSUME NEW w \in Workers, PostWakeup(w)
      PROVE  ProgramInv'
    BY <1>3, <1>a DEF PostWakeup
<1>4. CASE \/ OnStart \/ CheckTasks \/ WaitReturn \/ WaitTimeout
           \/ HandleEventfd \/ PostReadEventfd \/ HandleStop \/ HandleIo
           \/ CqAdvance
    BY <1>4 DEF OnStart, CheckTasks, WaitReturn, WaitTimeout, HandleEventfd,
                PostReadEventfd, HandleStop, HandleIo, CqAdvance, NextCqe
<1>5. CASE SwapMux \/ DoneMux \/ DoneLocal \/ OnTimer \/ OnStop
    BY <1>5, <1>b DEF SwapMux, DoneMux, DoneLocal, OnTimer, OnStop
<1>6. CASE RunTask \/ RunLocalTask
    BY <1>6 DEF RunTask, RunLocalTask
<1>7. CASE UserPost \/ UserDispatch \/ UserReturn
    BY <1>7 DEF UserPost, UserDispatch, UserReturn
<1>8. CASE Kernel \/ Halted \/ UNCHANGED vars
    BY <1>8 DEF Kernel, KPoll, KNop, KIo, Halted, vars
<1>. QED
    BY <1>1, <1>2, <1>3, <1>4, <1>5, <1>6, <1>7, <1>8
       DEF Next, WorkerStep, LoopStep, UserStep

-----------------------------------------------------------------------------
(* The poll of the eventfd.                                                 *)

LEMMA PollStep == TypeOK /\ ProgramInv /\ PollInv /\ [Next]_vars => PollInv'
<1> SUFFICES ASSUME TypeOK, ProgramInv, PollInv, [Next]_vars
             PROVE  PollInv'
    OBVIOUS
<1>a. KernelType
    BY DEF TypeOK
<1> USE <1>a DEF PollInv, PollDone, EventfdReadable, kernelVars, runVars, AtLoop
<1>1. CASE \E w \in Workers : PostCount(w) \/ PostPush(w)
    BY <1>1 DEF PostCount, PostPush
<1>2. ASSUME NEW w \in Workers, PostWakeup(w)
      PROVE  PollInv'
    BY <1>2 DEF PostWakeup, Panic, KernelType
<1>3. CASE OnStart \/ PostReadEventfd
    BY <1>3 DEF OnStart, PostReadEventfd, ProgramInv
<1>4. CASE CheckTasks \/ WaitReturn \/ WaitTimeout \/ CqAdvance
    BY <1>4 DEF CheckTasks, WaitReturn, WaitTimeout, CqAdvance
<1>t. ASSUME cq # <<>>
      PROVE  /\ Head(cq) = cq[1]
             /\ Len(cq) \in Nat \ {0}
             /\ Len(Tail(cq)) = Len(cq) - 1
             /\ \A i \in 1 .. Len(Tail(cq)) : Tail(cq)[i] = cq[i + 1]
    BY <1>t, HeadTailProperties, LenProperties, EmptySeq DEF KernelType
<1>5. CASE HandleEventfd
    BY <1>5, <1>t DEF HandleEventfd, NextCqe, Panic, KernelType
<1>6. CASE HandleStop \/ HandleIo
  <2>1. CASE HandleStop
    BY <2>1, <1>t DEF HandleStop, NextCqe, KernelType
  <2>2. CASE HandleIo
    BY <2>2, <1>t DEF HandleIo, NextCqe, KernelType
  <2>. QED
    BY <1>6, <2>1, <2>2
<1>7. CASE SwapMux \/ DoneMux \/ RunLocalTask \/ DoneLocal \/ OnTimer
    BY <1>7 DEF SwapMux, DoneMux, RunLocalTask, DoneLocal, OnTimer
<1>8. CASE RunTask
  <2>1. CASE CanCall(Head(pendings))
    BY <1>8, <2>1, TasksAssumption DEF RunTask, CanCall, Call, KernelType
  <2>2. CASE ~CanCall(Head(pendings))
    BY <1>8, <2>2 DEF RunTask, Crash, Panic
  <2>. QED
    BY <2>1, <2>2
<1>9. CASE OnStop
    BY <1>9 DEF OnStop
<1>10. CASE UserPost \/ UserReturn
    BY <1>10 DEF UserPost, UserReturn
<1>11. CASE UserDispatch
    BY <1>11, TasksAssumption
       DEF UserDispatch, CanCall, Crash, Panic, KernelType
<1>k. \A c \in Cqes : /\ Len(Append(cq, c)) = Len(cq) + 1
                      /\ \A i \in 1 .. Len(cq) : Append(cq, c)[i] = cq[i]
                      /\ Append(cq, c)[Len(cq) + 1] = c
                      /\ Len(cq) \in Nat
    BY AppendProperties, LenProperties DEF KernelType
<1>12. CASE KPoll
    BY <1>12, <1>k DEF KPoll, Cqes, KernelType
<1>13. CASE KNop
    BY <1>13, <1>k DEF KNop, Cqes, KernelType
<1>14. CASE KIo
    BY <1>14, <1>k DEF KIo, Cqes, KernelType
<1>15. CASE Halted \/ UNCHANGED vars
    BY <1>15 DEF Halted, vars
<1>. QED
    BY <1>1, <1>2, <1>3, <1>4, <1>5, <1>6, <1>7, <1>8, <1>9, <1>10, <1>11,
       <1>12, <1>13, <1>14, <1>15
       DEF Next, WorkerStep, LoopStep, UserStep, Kernel

-----------------------------------------------------------------------------
(* The wake-up that every queued task has on the way.                       *)

LEMMA WakeStep == TypeOK /\ ProgramInv /\ WakeInv /\ [Next]_vars => WakeInv'
<1> SUFFICES ASSUME TypeOK, ProgramInv, WakeInv, [Next]_vars
             PROVE  WakeInv'
    OBVIOUS
<1>a. wpc \in [Workers -> {"idle", "push", "wake"}]
    BY DEF TypeOK, PostType
<1>b. efd \in Nat
    BY DEF TypeOK, KernelType
<1> USE DEF WakeInv, Waking, workerVars, queueVars, runVars, AtLoop
<1>1. ASSUME NEW w \in Workers, PostCount(w)
      PROVE  WakeInv'
    BY <1>1, <1>a DEF PostCount
<1>2. ASSUME NEW w \in Workers, PostPush(w)
      PROVE  WakeInv'
    BY <1>2, <1>a DEF PostPush
<1>3. ASSUME NEW w \in Workers, PostWakeup(w)
      PROVE  WakeInv'
    BY <1>3, <1>a, <1>b DEF PostWakeup
<1>4. CASE OnStart \/ CheckTasks \/ WaitReturn \/ WaitTimeout
    BY <1>4 DEF OnStart, CheckTasks, WaitReturn, WaitTimeout
<1>5. CASE \/ HandleEventfd \/ PostReadEventfd \/ HandleStop \/ HandleIo
           \/ CqAdvance
    BY <1>5 DEF HandleEventfd, PostReadEventfd, HandleStop, HandleIo,
                CqAdvance, NextCqe
<1>6. CASE SwapMux \/ DoneMux \/ RunLocalTask \/ DoneLocal \/ OnTimer
    BY <1>6 DEF SwapMux, DoneMux, RunLocalTask, DoneLocal, OnTimer
<1>7. CASE RunTask
    BY <1>7, <1>b DEF RunTask, Call
<1>8. CASE OnStop
    BY <1>8 DEF OnStop
<1>9. CASE UserPost \/ UserReturn
    BY <1>9 DEF UserPost, UserReturn
<1>10. CASE UserDispatch
    BY <1>10, <1>b DEF UserDispatch
<1>11. CASE Kernel \/ Halted \/ UNCHANGED vars
    BY <1>11 DEF Kernel, KPoll, KNop, KIo, Halted, vars
<1>. QED
    BY <1>1, <1>2, <1>3, <1>4, <1>5, <1>6, <1>7, <1>8, <1>9, <1>10, <1>11
       DEF Next, WorkerStep, LoopStep, UserStep

-----------------------------------------------------------------------------
(* The inductive invariant and what follows from it.                        *)

THEOREM InductiveInvariant == Spec => []IndInv
<1>1. Init => IndInv
  <2> SUFFICES ASSUME Init PROVE IndInv
      OBVIOUS
  <2>1. TypeOK
    <3>1. PostType
      BY BoundsAssumption, EmptySeq DEF Init, PostType
    <3>2. LoopType
      BY EmptySeq DEF Init, LoopType
    <3>3. KernelType
      BY EmptySeq DEF Init, KernelType
    <3>. QED
      BY <3>1, <3>2, <3>3 DEF TypeOK
  <2>2. ProgramInv
    BY DEF Init, ProgramInv
  <2>3. PollInv
    BY EmptySeq DEF Init, PollInv, PollDone, EventfdReadable
  <2>4. WakeInv
    BY DEF Init, WakeInv
  <2>. QED
    BY <2>1, <2>2, <2>3, <2>4 DEF IndInv
<1>2. IndInv /\ [Next]_vars => IndInv'
    BY PostTypeStep, LoopTypeStep, KernelTypeStep, ProgramStep, PollStep,
       WakeStep
       DEF IndInv, TypeOK
<1>. QED
    BY <1>1, <1>2, PTL DEF Spec

(* Every variable keeps its type, for any number of threads and tasks.      *)
THEOREM TypeCorrect == Spec => []TypeOK
<1>1. IndInv => TypeOK
    BY DEF IndInv
<1>. QED
    BY <1>1, InductiveInvariant, PTL

(* The assertion of handle_eventfd() never fails.                           *)
THEOREM EventfdAlwaysReadable == Spec => []EventfdReadable
<1>1. IndInv => EventfdReadable
    BY DEF IndInv, PollInv
<1>. QED
    BY <1>1, InductiveInvariant, PTL

-----------------------------------------------------------------------------
(* Stops.                                                                   *)

(* hasstop is not carried into the next iteration.                          *)
ClearInv == hasstop => pc \notin {"start", "check", "wait"}

LEMMA ClearStep == ClearInv /\ [Next]_vars => ClearInv'
<1> SUFFICES ASSUME ClearInv, [Next]_vars
             PROVE  ClearInv'
    OBVIOUS
<1> USE DEF ClearInv, runVars, AtLoop
<1>1. CASE \E w \in Workers : PostCount(w) \/ PostPush(w) \/ PostWakeup(w)
    BY <1>1 DEF PostCount, PostPush, PostWakeup
<1>2. CASE OnStart \/ CheckTasks \/ WaitReturn \/ WaitTimeout
    BY <1>2 DEF OnStart, CheckTasks, WaitReturn, WaitTimeout
<1>3. CASE \/ HandleEventfd \/ PostReadEventfd \/ HandleStop \/ HandleIo
           \/ CqAdvance
    BY <1>3 DEF HandleEventfd, PostReadEventfd, HandleStop, HandleIo,
                CqAdvance, NextCqe
<1>4. CASE SwapMux \/ RunTask \/ DoneMux \/ RunLocalTask \/ DoneLocal
    BY <1>4 DEF SwapMux, RunTask, DoneMux, RunLocalTask, DoneLocal
<1>5. CASE OnTimer \/ OnStop \/ UserStep \/ UserReturn
    BY <1>5 DEF OnTimer, OnStop, UserStep, UserPost, UserDispatch, UserReturn
<1>6. CASE Kernel \/ Halted \/ UNCHANGED vars
    BY <1>6 DEF Kernel, KPoll, KNop, KIo, Halted, vars
<1>. QED
    BY <1>1, <1>2, <1>3, <1>4, <1>5, <1>6 DEF Next, WorkerStep, LoopStep

(* A stop that was submitted is due until run() ends.                       *)
LEMMA DueStep == TypeOK /\ ClearInv /\ StopIsDue /\ [Next]_vars => StopIsDue'
<1> SUFFICES ASSUME TypeOK, ClearInv, StopIsDue, [Next]_vars
             PROVE  StopIsDue'
    OBVIOUS
<1>a. nops \in Nat /\ cq \in Seq(Cqes)
    BY DEF TypeOK, KernelType
<1> HIDE DEF TypeOK
<1> USE <1>a DEF StopIsDue, runVars, kernelVars
<1>1. CASE \E w \in Workers : PostCount(w) \/ PostPush(w) \/ PostWakeup(w)
    BY <1>1 DEF PostCount, PostPush, PostWakeup
<1>2. CASE CheckTasks
    BY <1>2 DEF CheckTasks, AtLoop, ClearInv
<1>3. CASE \/ OnStart \/ WaitReturn \/ WaitTimeout \/ PostReadEventfd
           \/ CqAdvance
    BY <1>3 DEF OnStart, WaitReturn, WaitTimeout, PostReadEventfd, CqAdvance
<1>t. ASSUME NEW c \in Cqes, c # "stop", NextCqe(c),
             \E i \in DOMAIN cq : cq[i] = "stop"
      PROVE  \E i \in DOMAIN Tail(cq) : Tail(cq)[i] = "stop"
  <2>1. PICK i \in DOMAIN cq : cq[i] = "stop"
    BY <1>t
  <2>2. /\ cq[1] = c
        /\ Len(cq) \in Nat /\ DOMAIN cq = 1 .. Len(cq)
        /\ Len(Tail(cq)) = Len(cq) - 1
        /\ DOMAIN Tail(cq) = 1 .. Len(Tail(cq))
        /\ \A k \in 1 .. Len(Tail(cq)) : Tail(cq)[k] = cq[k + 1]
    BY <1>t, HeadTailProperties, LenProperties, EmptySeq DEF NextCqe
  <2>3. i - 1 \in DOMAIN Tail(cq) /\ Tail(cq)[i - 1] = "stop"
    BY <1>t, <2>1, <2>2
  <2>. QED
    BY <2>3
<1>4. CASE HandleEventfd
    BY <1>4, <1>t DEF HandleEventfd, Cqes
<1>5. CASE HandleStop
    BY <1>5 DEF HandleStop
<1>6. CASE HandleIo
    BY <1>6, <1>t DEF HandleIo, Cqes
<1>7. CASE SwapMux \/ DoneMux \/ RunLocalTask \/ DoneLocal \/ OnTimer
    BY <1>7 DEF SwapMux, DoneMux, RunLocalTask, DoneLocal, OnTimer
<1>8. CASE RunTask
  <2>1. nops' > 0 \/ nops' = nops
    BY <1>8 DEF RunTask, Call
  <2>2. UNCHANGED <<cq, hasstop, event_fd_>>
    BY <1>8 DEF RunTask
  <2>. QED
    BY <2>1, <2>2
<1>9. CASE OnStop
    BY <1>9 DEF OnStop
<1>10. CASE UserPost \/ UserReturn
    BY <1>10 DEF UserPost, UserReturn
<1>11. CASE UserDispatch
  <2>1. nops' >= nops
    BY <1>11 DEF UserDispatch
  <2>. QED
    BY <1>11, <2>1 DEF UserDispatch
<1>k. \A c \in Cqes : /\ DOMAIN Append(cq, c) = 1 .. Len(cq) + 1
                      /\ DOMAIN cq = 1 .. Len(cq)
                      /\ \A i \in 1 .. Len(cq) : Append(cq, c)[i] = cq[i]
                      /\ Append(cq, c)[Len(cq) + 1] = c
                      /\ Len(cq) \in Nat
    BY AppendProperties, LenProperties
<1>12. CASE KPoll
    BY <1>12, <1>k DEF KPoll, Cqes
<1>13. CASE KNop
  <2>1. cq' = Append(cq, "stop")
    BY <1>13 DEF KNop
  <2>2. Len(cq) + 1 \in DOMAIN cq' /\ cq'[Len(cq) + 1] = "stop"
    BY <1>k, <2>1 DEF Cqes
  <2>. QED
    BY <2>2
<1>14. CASE KIo
    BY <1>14, <1>k DEF KIo, Cqes
<1>15. CASE Halted \/ UNCHANGED vars
    BY <1>15 DEF Halted, vars
<1>. QED
    BY <1>1, <1>2, <1>3, <1>4, <1>5, <1>6, <1>7, <1>8, <1>9, <1>10, <1>11,
       <1>12, <1>13, <1>14, <1>15
       DEF Next, WorkerStep, LoopStep, UserStep, Kernel

(* A task that is with a worker or in a queue.                              *)
Waits(t) ==
    \/ \E w \in Workers : wtask[w] = t
    \/ \E i \in DOMAIN tasks_mux_ : tasks_mux_[i] = t
    \/ \E i \in DOMAIN pendings : pendings[i] = t

(* It leaves them only when it is called, which a stop survives as a NOP.   *)
LEMMA WaitsStep ==
    ASSUME TypeOK, ProgramInv, [Next]_vars, NEW t \in StopTasks, Waits(t)
    PROVE  Waits(t)' \/ StopIsDue'
<1>a. /\ wtask \in [Workers -> Tasks \union {NoTask}]
      /\ tasks_mux_ \in Seq(Tasks) /\ pendings \in Seq(Tasks)
      /\ nops \in Nat
      /\ t \in Tasks /\ t # NoTask
    BY TasksAssumption DEF TypeOK, PostType, LoopType, KernelType, Tasks
<1> HIDE DEF TypeOK
<1> USE <1>a DEF Waits, workerVars, queueVars, batchVars
<1>1. ASSUME NEW w \in Workers, PostCount(w)
      PROVE  Waits(t)'
  <2>1. wtask[w] # t
    BY <1>1 DEF PostCount, ProgramInv
  <2>. QED
    BY <1>1, <2>1 DEF PostCount
<1>2. ASSUME NEW w \in Workers, PostPush(w)
      PROVE  Waits(t)'
  <2>1. wtask[w] \in Tasks
    BY <1>2 DEF PostPush, ProgramInv
  <2>2. /\ Len(tasks_mux_) \in Nat
        /\ DOMAIN tasks_mux_ = 1 .. Len(tasks_mux_)
        /\ DOMAIN tasks_mux_' = 1 .. Len(tasks_mux_) + 1
        /\ \A i \in 1 .. Len(tasks_mux_) : tasks_mux_'[i] = tasks_mux_[i]
        /\ tasks_mux_'[Len(tasks_mux_) + 1] = wtask[w]
    BY <1>2, <2>1, AppendProperties, LenProperties DEF PostPush
  <2>3. CASE wtask[w] = t
    <3>1. /\ Len(tasks_mux_) + 1 \in DOMAIN tasks_mux_'
          /\ tasks_mux_'[Len(tasks_mux_) + 1] = t
      BY <2>2, <2>3
    <3>. QED
      BY <3>1
  <2>4. CASE wtask[w] # t
    <3>1. \A v \in Workers : wtask[v] = t => wtask'[v] = t
      BY <1>2, <2>4 DEF PostPush
    <3>2. pendings' = pendings
      BY <1>2 DEF PostPush
    <3>. QED
      BY <2>2, <3>1, <3>2
  <2>. QED
    BY <2>3, <2>4
<1>3. ASSUME NEW w \in Workers, PostWakeup(w)
      PROVE  Waits(t)'
    BY <1>3 DEF PostWakeup
<1>4. CASE \/ OnStart \/ CheckTasks \/ WaitReturn \/ WaitTimeout
           \/ HandleEventfd \/ PostReadEventfd \/ HandleStop \/ HandleIo
           \/ CqAdvance \/ RunLocalTask \/ DoneLocal \/ OnTimer \/ OnStop
           \/ UserReturn
    BY <1>4
       DEF OnStart, CheckTasks, WaitReturn, WaitTimeout, HandleEventfd,
           PostReadEventfd, HandleStop, HandleIo, CqAdvance, RunLocalTask,
           DoneLocal, OnTimer, OnStop, UserReturn
<1>5. CASE SwapMux
    BY <1>5 DEF SwapMux, AtLoop, ProgramInv
<1>6. CASE DoneMux
    BY <1>6 DEF DoneMux
<1>7. CASE RunTask
  <2>0. pendings # <<>> /\ UNCHANGED <<wtask, tasks_mux_>>
    BY <1>7 DEF RunTask
  <2>1. /\ Len(pendings) \in Nat /\ DOMAIN pendings = 1 .. Len(pendings)
        /\ Head(pendings) = pendings[1]
        /\ Len(Tail(pendings)) = Len(pendings) - 1
        /\ DOMAIN Tail(pendings) = 1 .. Len(pendings) - 1
        /\ \A i \in 1 .. Len(Tail(pendings)) : Tail(pendings)[i] = pendings[i + 1]
    BY <2>0, HeadTailProperties, LenProperties, EmptySeq
  <2>2. CASE ~CanCall(Head(pendings))
    BY <1>7, <2>2 DEF RunTask
  <2>3. CASE CanCall(Head(pendings)) /\ Head(pendings) = t
    <3>1. nops' = nops + 1
      BY <1>7, <2>3 DEF RunTask, Call
    <3>. QED
      BY <3>1 DEF StopIsDue
  <2>4. CASE CanCall(Head(pendings)) /\ Head(pendings) # t
    <3>1. pendings' = Tail(pendings)
      BY <1>7, <2>4 DEF RunTask
    <3>2. ASSUME NEW i \in DOMAIN pendings, pendings[i] = t
          PROVE  \E k \in DOMAIN pendings' : pendings'[k] = t
      <4>1. i - 1 \in 1 .. Len(Tail(pendings)) /\ i - 1 + 1 = i
        BY <2>1, <2>4, <3>2
      <4>2. pendings'[i - 1] = t /\ i - 1 \in DOMAIN pendings'
        BY <2>1, <3>1, <3>2, <4>1
      <4>. QED
        BY <4>2
    <3>. QED
      BY <2>0, <3>2
  <2>. QED
    BY <2>2, <2>3, <2>4
<1>8. CASE UserStep
    BY <1>8 DEF UserStep, UserPost, UserDispatch
<1>9. CASE Kernel \/ Halted \/ UNCHANGED vars
    BY <1>9 DEF Kernel, KPoll, KNop, KIo, Halted, vars
<1>. QED
    BY <1>1, <1>2, <1>3, <1>4, <1>5, <1>6, <1>7, <1>8, <1>9
       DEF Next, WorkerStep, LoopStep

(* A stop() that is called begins to wait, or is due at once.               *)
LEMMA CalledStep ==
    ASSUME TypeOK, [Next]_vars, NEW t \in StopTasks, t \in posted', t \notin posted
    PROVE  Waits(t)' \/ StopIsDue'
<1>a. /\ wtask \in [Workers -> Tasks \union {NoTask}]
      /\ nops \in Nat
      /\ event_fd_ \in {"open", "closed"}
      /\ t \notin UserTasks
    BY TasksAssumption DEF TypeOK, PostType, KernelType
<1> HIDE DEF TypeOK
<1>1. ASSUME NEW w \in Workers, PostCount(w)
      PROVE  Waits(t)'
  <2>1. wtask'[w] = t
    BY <1>a, <1>1 DEF PostCount
  <2>. QED
    BY <2>1 DEF Waits
<1>2. CASE UserDispatch
  <2>1. CASE CanCall(t)
    <3>1. nops' = nops + 1
      BY <1>2, <2>1 DEF UserDispatch
    <3>. QED
      BY <1>a, <3>1 DEF StopIsDue
  <2>2. CASE ~CanCall(t)
    <3>1. event_fd_' = "closed"
      BY <1>a, <1>2, <2>2 DEF UserDispatch, CanCall
    <3>. QED
      BY <3>1 DEF StopIsDue
  <2>. QED
    BY <2>1, <2>2
<1>3. CASE UserPost
    BY <1>a, <1>3 DEF UserPost
<1>4. ASSUME NEW w \in Workers, WorkerStep(w)
      PROVE  FALSE
    BY <1>4 DEF WorkerStep, PostPush, PostWakeup
<1>5. CASE LoopStep
    BY <1>5
       DEF LoopStep, OnStart, CheckTasks, WaitReturn, HandleEventfd,
           PostReadEventfd, HandleStop, HandleIo, CqAdvance, SwapMux, RunTask,
           DoneMux, RunLocalTask, DoneLocal, OnTimer, OnStop, UserReturn
<1>6. CASE WaitTimeout \/ Kernel \/ Halted \/ UNCHANGED vars
    BY <1>6 DEF WaitTimeout, Kernel, KPoll, KNop, KIo, Halted, vars
<1>. QED
    BY <1>1, <1>2, <1>3, <1>4, <1>5, <1>6 DEF Next, UserStep

(* Once stop() was called, its closure or its NOP is on its way until run() *)
(* ends, for any number of threads that call it.                            *)
THEOREM StopsAreKept == Spec => []StopIsKept
<1> DEFINE Kept == ClearInv /\ StopIsKept
<1>1. Init => Kept
    BY DEF Init, ClearInv, StopIsKept
<1>2. IndInv /\ Kept /\ [Next]_vars => Kept'
  <2> SUFFICES ASSUME IndInv, ClearInv, StopIsKept, [Next]_vars
               PROVE  ClearInv' /\ StopIsKept'
      OBVIOUS
  <2>1. TypeOK /\ ProgramInv
    BY DEF IndInv
  <2>2. ASSUME NEW t \in StopTasks, t \in posted'
        PROVE  Waits(t)' \/ StopIsDue'
    <3>1. CASE t \notin posted
      BY <2>1, <2>2, <3>1, CalledStep
    <3>2. CASE Waits(t)
      BY <2>1, <3>2, WaitsStep
    <3>3. CASE StopIsDue
      BY <2>1, <3>3, DueStep
    <3>. QED
      BY <3>1, <3>2, <3>3 DEF StopIsKept, Waits
  <2>. QED
    BY <2>2, ClearStep DEF StopIsKept, Waits
<1>. QED
    BY <1>1, <1>2, InductiveInvariant, PTL DEF Spec

-----------------------------------------------------------------------------
(* tasks_count_, as long as it cannot wrap.                                 *)

LEMMA ModSmall == ASSUME NEW m \in Nat \ {0}, NEW n \in 0 .. m - 1
                  PROVE  n % m = n /\ (n + m) % m = n
    OBVIOUS

(* A step that changes neither the count nor what it counts.                *)
CountQuiet == UNCHANGED <<posted, workerVars, queueVars, batch, localPosts>>

LEMMA PushingFinite == IsFiniteSet(Pushing) /\ Cardinality(Pushing) \in Nat
    BY BoundsAssumption, FS_Subset, FS_CardinalityType DEF Pushing

LEMMA CountStep ==
    ASSUME NoWrap
    PROVE  TypeOK /\ ProgramInv /\ CountInv /\ [Next]_vars => CountInv'
<1> SUFFICES ASSUME TypeOK, ProgramInv, CountInv, [Next]_vars
             PROVE  CountInv'
    OBVIOUS
<1>a. /\ wpc \in [Workers -> {"idle", "push", "wake"}]
      /\ Len(tasks_mux_) \in Nat /\ Len(taks_nmux_) \in Nat
      /\ localPosts \in Nat /\ batch \in Nat
      /\ tasks_count_ \in 0 .. CountMod - 1
    BY LenProperties DEF TypeOK, PostType, LoopType
<1>b. Cardinality(Pushing) \in Nat /\ Cardinality(posted) \in Nat
    BY PushingFinite, FS_CardinalityType DEF CountInv
<1>o. Outstanding \in Nat
    BY <1>a, <1>b DEF Outstanding
<1>c. /\ \A S \in SUBSET Tasks : Cardinality(S) < CountMod
      /\ \A S \in SUBSET Tasks : Cardinality(S) \in Nat
      /\ CountMod \in Nat \ {0}
    BY FS_Subset, FS_CardinalityType, BoundsAssumption DEF NoWrap
<1>d. posted \in SUBSET Tasks
    BY DEF TypeOK, PostType
<1>e. \A t \in Tasks \ posted :
         /\ IsFiniteSet(posted \union {t})
         /\ Cardinality(posted \union {t}) = Cardinality(posted) + 1
    BY FS_AddElement DEF CountInv
<1>f. ASSUME NEW t \in Tasks \ posted
      PROVE  tasks_count_ + 1 \in 0 .. CountMod - 1
  <2>1. posted \union {t} \in SUBSET Tasks
    BY <1>d
  <2>2. Cardinality(posted) + 1 < CountMod
    BY <2>1, <1>c, <1>e
  <2>. QED
    BY <1>a, <1>b, <1>c, <1>o, <2>2 DEF CountInv
<1> USE DEF workerVars, queueVars, runVars, batchVars, histVars, AtLoop
<1>1. ASSUME NEW w \in Workers, PostCount(w)
      PROVE  CountInv'
  <2>1. Cardinality(Pushing)' = Cardinality(Pushing) + 1
    <3>1. Pushing' = Pushing \union {w} /\ w \notin Pushing
      BY <1>1, <1>a DEF PostCount, Pushing
    <3>. QED
      BY <3>1, PushingFinite, FS_AddElement
  <2>2. PICK t \in Tasks \ posted : posted' = posted \union {t}
    BY <1>1 DEF PostCount
  <2>3. tasks_count_' = tasks_count_ + 1
    BY <1>1, <1>c, <1>f, <2>2, ModSmall DEF PostCount
  <2>4. Outstanding' = Outstanding + 1
    BY <1>1, <1>a, <1>b, <2>1 DEF PostCount, Outstanding
  <2>. QED
    BY <1>1, <1>a, <1>b, <1>e, <1>o, <2>2, <2>3, <2>4 DEF PostCount, CountInv
<1>2. ASSUME NEW w \in Workers, PostPush(w)
      PROVE  CountInv'
  <2>1. Cardinality(Pushing)' = Cardinality(Pushing) - 1
    <3>1. Pushing' = Pushing \ {w} /\ w \in Pushing
      BY <1>2, <1>a DEF PostPush, Pushing
    <3>. QED
      BY <3>1, PushingFinite, FS_RemoveElement
  <2>2. Len(tasks_mux_)' = Len(tasks_mux_) + 1
    <3>1. wtask[w] \in Tasks
      BY <1>2 DEF PostPush, ProgramInv
    <3>. QED
      BY <1>2, <3>1, AppendProperties DEF PostPush, TypeOK, PostType
  <2>3. Outstanding' = Outstanding
    BY <1>2, <1>a, <1>b, <2>1, <2>2 DEF PostPush, Outstanding
  <2>. QED
    BY <1>2, <2>3 DEF PostPush, CountInv
<1>3. ASSUME NEW w \in Workers, PostWakeup(w)
      PROVE  CountInv'
  <2>1. Pushing' = Pushing
    BY <1>3, <1>a DEF PostWakeup, Pushing
  <2>. QED
    BY <1>3, <2>1 DEF PostWakeup, CountInv, Outstanding
<1>q. UNCHANGED wpc => UNCHANGED Pushing
    BY DEF Pushing
<1>5. CASE SwapMux
  <2>1. batch = 0 /\ Len(tasks_mux_)' = 0 /\ batch' = Len(tasks_mux_)
    BY <1>5, EmptySeq DEF SwapMux, ProgramInv
  <2>. QED
    BY <1>5, <1>a, <1>b, <1>q, <2>1 DEF SwapMux, CountInv, Outstanding
<1>6. CASE DoneMux
  <2>1. batch <= tasks_count_ /\ batch \in 0 .. CountMod - 1
    BY <1>a, <1>b, <1>c DEF CountInv, Outstanding
  <2>2. tasks_count_' = tasks_count_ - batch
    <3>1. batch % CountMod = batch
      BY <1>c, <2>1, ModSmall
    <3>2. tasks_count_ - batch \in 0 .. CountMod - 1
      BY <1>a, <1>c, <2>1
    <3>3. ((tasks_count_ - batch) + CountMod) % CountMod = tasks_count_ - batch
      BY <1>c, <3>2, ModSmall
    <3>4. tasks_count_ + CountMod - batch = (tasks_count_ - batch) + CountMod
      BY <1>a, <1>c
    <3>. QED
      BY <1>6, <3>1, <3>3, <3>4 DEF DoneMux
  <2>3. Outstanding' = Outstanding - batch
    BY <1>6, <1>a, <1>b, <1>q DEF DoneMux, Outstanding
  <2>. QED
    BY <1>6, <1>a, <1>b, <1>o, <2>1, <2>2, <2>3, EmptySeq
       DEF DoneMux, CountInv
<1>7. CASE UserPost
  <2>1. PICK t \in UserTasks \ posted :
           posted' = posted \union {t} /\ taks_nmux_' = Append(taks_nmux_, t)
    BY <1>7 DEF UserPost
  <2>2. Len(taks_nmux_)' = Len(taks_nmux_) + 1
    BY <2>1, AppendProperties DEF TypeOK, PostType
  <2>3. tasks_count_' = tasks_count_ + 1
    BY <1>7, <1>c, <1>f, <2>1, ModSmall DEF UserPost, Tasks
  <2>4. Outstanding' = Outstanding + 1
    BY <1>7, <1>a, <1>b, <1>q DEF UserPost, Outstanding
  <2>. QED
    BY <1>7, <1>a, <1>b, <1>e, <1>o, <2>1, <2>2, <2>3, <2>4
       DEF UserPost, CountInv, Tasks
<1>8. CASE UserDispatch
  <2>1. PICK t \in Tasks \ posted : posted' = posted \union {t}
    BY <1>8 DEF UserDispatch, Tasks
  <2>. QED
    BY <1>8, <1>a, <1>b, <1>e, <1>q, <2>1
       DEF UserDispatch, CountInv, Outstanding
<1>9. CASE \/ OnStart \/ CheckTasks \/ WaitReturn \/ WaitTimeout \/ HandleEventfd
           \/ PostReadEventfd \/ HandleStop \/ HandleIo \/ CqAdvance
           \/ RunTask \/ RunLocalTask \/ DoneLocal \/ OnTimer \/ OnStop
           \/ UserReturn \/ Kernel \/ Halted \/ UNCHANGED vars
  <2>1. CountQuiet
    BY <1>9
       DEF CountQuiet, OnStart, CheckTasks, WaitReturn, WaitTimeout, HandleEventfd,
           PostReadEventfd, HandleStop, HandleIo, CqAdvance, RunTask,
           RunLocalTask, DoneLocal, OnTimer, OnStop, UserReturn, Kernel,
           KPoll, KNop, KIo, Halted, vars
  <2>. QED
    BY <1>q, <2>1 DEF CountQuiet, CountInv, Outstanding
<1>. QED
    BY <1>1, <1>2, <1>3, <1>5, <1>6, <1>7, <1>8, <1>9
       DEF Next, WorkerStep, LoopStep, UserStep

LEMMA BlockStep ==
    ASSUME NoWrap
    PROVE  /\ TypeOK /\ ProgramInv /\ CountInv /\ BlockInv /\ [Next]_vars
           => BlockInv'
<1> SUFFICES ASSUME TypeOK, ProgramInv, CountInv, BlockInv, [Next]_vars
             PROVE  BlockInv'
    OBVIOUS
<1> USE DEF BlockInv, runVars, histVars, AtLoop
<1>1. CASE \E w \in Workers : PostCount(w) \/ PostPush(w) \/ PostWakeup(w)
    BY <1>1 DEF PostCount, PostPush, PostWakeup
<1>2. CASE CheckTasks
  <2>1. localPosts \in Nat /\ tasks_count_ >= localPosts /\ tasks_count_ \in Nat
    BY PushingFinite, LenProperties
       DEF CountInv, Outstanding, TypeOK, PostType, LoopType
  <2>2. nowait' \/ tasks_count_ = 0
    <3>1. ASSUME tasks_count_ > 0 PROVE nowait'
      BY <1>2, <3>1, Zenon DEF CheckTasks
    <3>. QED
      BY <2>1, <3>1
  <2>. QED
    BY <1>2, <2>1, <2>2 DEF CheckTasks
<1>3. CASE UserPost
    BY <1>3 DEF UserPost, InUser, ProgramInv
<1>4. CASE UserDispatch \/ UserReturn
    BY <1>4 DEF UserDispatch, UserReturn
<1>5. CASE \/ OnStart \/ WaitReturn \/ WaitTimeout \/ HandleEventfd
           \/ PostReadEventfd \/ HandleStop \/ HandleIo \/ CqAdvance
    BY <1>5 DEF OnStart, WaitReturn, WaitTimeout, HandleEventfd,
                PostReadEventfd, HandleStop, HandleIo, CqAdvance, NextCqe
<1>6. CASE \/ SwapMux \/ RunTask \/ DoneMux \/ RunLocalTask \/ DoneLocal
           \/ OnTimer \/ OnStop
    BY <1>6 DEF SwapMux, RunTask, DoneMux, RunLocalTask, DoneLocal, OnTimer,
                OnStop
<1>7. CASE Kernel \/ Halted \/ UNCHANGED vars
    BY <1>7 DEF Kernel, KPoll, KNop, KIo, Halted, vars
<1>. QED
    BY <1>1, <1>2, <1>3, <1>4, <1>5, <1>6, <1>7
       DEF Next, WorkerStep, LoopStep, UserStep

THEOREM CountInvariant == ASSUME NoWrap
                          PROVE  Spec => [](CountInv /\ BlockInv)
<1>1. Init => CountInv /\ BlockInv
  <2> SUFFICES ASSUME Init PROVE CountInv /\ BlockInv
      OBVIOUS
  <2>1. Pushing = {}
    BY DEF Init, Pushing
  <2>2. Outstanding = 0
    BY <2>1, FS_EmptySet, EmptySeq DEF Init, Outstanding
  <2>3. IsFiniteSet(posted) /\ Cardinality(posted) = 0
    BY FS_EmptySet DEF Init
  <2>. QED
    BY <2>2, <2>3, EmptySeq DEF Init, CountInv, BlockInv
<1>2. IndInv /\ CountInv /\ BlockInv /\ [Next]_vars => CountInv' /\ BlockInv'
    BY CountStep, BlockStep DEF IndInv
<1>. QED
    BY <1>1, <1>2, InductiveInvariant, PTL DEF Spec

(* No interleaving of post(), of the poll and of the read loses a wake-up,  *)
(* for any number of threads and tasks below the range of tasks_count_.     *)
THEOREM WakeupNeverLost == ASSUME NoWrap
                           PROVE  Spec => []NoLostWakeup
<1>1. IndInv /\ CountInv /\ BlockInv => NoLostWakeup
  <2> SUFFICES ASSUME IndInv, CountInv, BlockInv, Blocked
               PROVE  /\ taks_nmux_ = <<>>
                      /\ tasks_mux_ # <<>> => \/ cq # <<>>
                                             \/ (poll = "armed" /\ efd > 0)
                                             \/ Waking # {}
      BY DEF NoLostWakeup
  <2>1. localPosts = 0
    BY DEF Blocked, BlockInv, AtLoop
  <2>2. taks_nmux_ = <<>>
    BY <2>1, EmptySeq, LenProperties
       DEF CountInv, IndInv, TypeOK, PostType
  <2>3. pc = "wait" /\ event_fd_ = "open"
    BY DEF Blocked, AtLoop, IndInv, ProgramInv, TypeOK, KernelType
  <2>4. poll = "armed" \/ cq # <<>>
    BY <2>3, EmptySeq DEF IndInv, PollInv, PollDone
  <2>5. tasks_mux_ # <<>> => efd > 0 \/ Waking # {}
    BY <2>3 DEF IndInv, WakeInv
  <2>. QED
    BY <2>2, <2>4, <2>5
<1>. QED
    BY <1>1, InductiveInvariant, CountInvariant, PTL

(* One post() from the loop thread, and the loop never blocks again.        *)
THEOREM LocalPostSpins == ASSUME NoWrap
                          PROVE  Spec => []SpinsAfterLocalPost
<1>1. TypeOK /\ BlockInv => SpinsAfterLocalPost
    BY DEF TypeOK, PostType, BlockInv, SpinsAfterLocalPost, Blocked, AtLoop
<1>. QED
    BY <1>1, TypeCorrect, CountInvariant, PTL

-----------------------------------------------------------------------------
(* The loop implements Mailbox.                                             *)

(* A step that leaves the queues, the history and the run as they are.      *)
BoxQuiet ==
    /\ UNCHANGED <<tasks_mux_, taks_nmux_, pendings, pendings1, executed>>
    /\ UNCHANGED panicked
    /\ (pc # "done" /\ pc' # "done") \/ UNCHANGED pc

LEMMA BoxStep == IndInv /\ [Next]_vars => [Box!Next]_(Box!vars)
<1> SUFFICES ASSUME TypeOK, ProgramInv, [Next]_vars
             PROVE  [Box!Next]_(Box!vars)
    BY DEF IndInv
<1> DEFINE open == pc # "done" /\ panicked = "no"
<1>a. /\ tasks_mux_ \in Seq(Tasks) /\ pendings \in Seq(Tasks)
      /\ taks_nmux_ \in Seq(UserTasks) /\ pendings1 \in Seq(UserTasks)
    BY DEF TypeOK, PostType, LoopType
<1>b. pc # "run_mux" => pendings = <<>>
    BY DEF ProgramInv
<1>c. pc # "run_nmux" => pendings1 = <<>>
    BY DEF ProgramInv
<1>q. BoxQuiet => UNCHANGED Box!vars
    BY DEF BoxQuiet, Box!vars
<1> USE DEF workerVars, queueVars, runVars, batchVars, histVars, Running
<1>1. ASSUME NEW w \in Workers, PostPush(w)
      PROVE  Box!Send
  <2>1. wtask[w] \in Tasks
    BY <1>1 DEF PostPush, ProgramInv
  <2>2. pendings \o Append(tasks_mux_, wtask[w])
           = Append(pendings \o tasks_mux_, wtask[w])
    BY <1>a, <2>1, AppendConcat
  <2>. QED
    BY <1>1, <2>1, <2>2 DEF PostPush, Box!Send
<1>2. ASSUME NEW w \in Workers, PostWakeup(w)
      PROVE  [Box!Next]_(Box!vars)
  <2>1. CASE event_fd_ = "open"
    BY <1>2, <1>q, <2>1 DEF PostWakeup, BoxQuiet
  <2>2. CASE event_fd_ # "open"
    <3>1. panicked' # "no" /\ panicked = "no" /\ UNCHANGED pc
      BY <1>2, <2>2 DEF PostWakeup, Panic
    <3>2. CASE pc = "done"
      BY <1>2, <3>1, <3>2 DEF PostWakeup, Box!vars
    <3>3. CASE pc # "done"
      BY <1>2, <3>1, <3>3 DEF PostWakeup, Box!Return, Box!Next
    <3>. QED
      BY <3>2, <3>3
  <2>. QED
    BY <2>1, <2>2
<1>3. CASE HandleEventfd
  <2>1. CASE efd > 0
    BY <1>3, <1>q, <2>1 DEF HandleEventfd, BoxQuiet, NextCqe, AtLoop
  <2>2. CASE ~(efd > 0)
    BY <1>3, <2>2 DEF HandleEventfd, Panic, NextCqe, AtLoop, Box!Return, Box!Next
  <2>. QED
    BY <2>1, <2>2
<1>4. CASE SwapMux
  <2>1. <<>> \o tasks_mux_ = tasks_mux_ \o <<>>
    BY <1>a, ConcatEmptySeq
  <2>2. UNCHANGED (pendings \o tasks_mux_)
    BY <1>4, <1>b, <2>1 DEF SwapMux, AtLoop
  <2>. QED
    BY <1>4, <2>2 DEF SwapMux, AtLoop, Box!vars
<1>5. CASE RunTask
  <2>1. CASE CanCall(Head(pendings))
    <3>1. Box!Deliver
      BY <1>5, <1>a, <2>1, HeadTailConcat DEF RunTask, AtLoop, Box!Deliver
    <3>. QED
      BY <3>1 DEF Box!Next
  <2>2. CASE ~CanCall(Head(pendings))
    BY <1>5, <2>2 DEF RunTask, Crash, Panic, AtLoop, Box!Return, Box!Next
  <2>. QED
    BY <2>1, <2>2
<1>6. CASE DoneMux
  <2>1. <<>> \o taks_nmux_ = taks_nmux_ \o <<>>
    BY <1>a, ConcatEmptySeq
  <2>2. UNCHANGED (pendings1 \o taks_nmux_)
    BY <1>6, <1>c, <2>1 DEF DoneMux, AtLoop
  <2>. QED
    BY <1>6, <2>2 DEF DoneMux, AtLoop, Box!vars
<1>7. CASE RunLocalTask
  <2>1. Box!DeliverLocal
    BY <1>7, <1>a, HeadTailConcat DEF RunLocalTask, AtLoop, Box!DeliverLocal
  <2>. QED
    BY <2>1 DEF Box!Next
<1>8. CASE DoneLocal
  <2>1. CASE event_fd_ = "open"
    BY <1>8, <1>q, <2>1 DEF DoneLocal, BoxQuiet, AtLoop
  <2>2. CASE event_fd_ # "open"
    BY <1>8, <2>2 DEF DoneLocal, AtLoop, Box!Return, Box!Next
  <2>. QED
    BY <2>1, <2>2
<1>9. CASE UserPost
  <2>1. PICK t \in UserTasks : taks_nmux_' = Append(taks_nmux_, t)
    BY <1>9 DEF UserPost
  <2>2. pendings1 \o Append(taks_nmux_, t) = Append(pendings1 \o taks_nmux_, t)
    BY <1>a, AppendConcat
  <2>3. pc # "done"
    BY <1>9 DEF UserPost, InUser, ProgramInv
  <2>4. Box!SendLocal
    BY <1>9, <2>1, <2>2, <2>3 DEF UserPost, InUser, Tasks, Box!SendLocal
  <2>. QED
    BY <2>4 DEF Box!Next
<1>10. CASE UserDispatch
  <2>1. pc # "done"
    BY <1>10 DEF UserDispatch, InUser, ProgramInv
  <2>2. CASE UNCHANGED panicked
    BY <1>10, <1>q, <2>2 DEF UserDispatch, BoxQuiet
  <2>3. CASE panicked' # panicked
    <3>1. panicked' # "no" /\ panicked = "no"
      BY <1>10, <2>3 DEF UserDispatch, InUser
    <3>. QED
      BY <1>10, <2>1, <3>1 DEF UserDispatch, Box!Return, Box!Next
  <2>. QED
    BY <2>2, <2>3
<1>11. ASSUME NEW w \in Workers, PostCount(w)
       PROVE  UNCHANGED Box!vars
    BY <1>11, <1>q DEF PostCount, BoxQuiet
<1>12. CASE \/ OnStart \/ CheckTasks \/ WaitReturn \/ WaitTimeout
            \/ PostReadEventfd \/ HandleStop \/ HandleIo \/ CqAdvance
            \/ OnTimer \/ OnStop \/ UserReturn \/ Kernel \/ Halted
            \/ UNCHANGED vars
  <2>1. BoxQuiet
    BY <1>12
       DEF BoxQuiet, OnStart, CheckTasks, WaitReturn, WaitTimeout,
           PostReadEventfd, HandleStop, HandleIo, NextCqe, CqAdvance, OnTimer,
           OnStop, UserReturn, Kernel, KPoll, KNop, KIo, Halted, vars, AtLoop
  <2>. QED
    BY <1>q, <2>1
<1>. QED
    BY <1>1, <1>2, <1>3, <1>4, <1>5, <1>6, <1>7, <1>8, <1>9, <1>10, <1>11,
       <1>12
       DEF Next, WorkerStep, LoopStep, UserStep, Box!Next

(* The queues are served in order, each task at most once and nothing after *)
(* run() has returned or the process has died.                              *)
THEOREM LoopImplementsMailbox == Spec => BoxSafety
<1>1. Init => Box!Init
    BY ConcatEmptySeq DEF Init, Box!Init
<1>. QED
    BY <1>1, BoxStep, InductiveInvariant, PTL
       DEF Spec, BoxSafety, Box!SafeSpec
=============================================================================
