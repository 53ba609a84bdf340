---------------------------- MODULE WinLoopProofs ----------------------------
(***************************************************************************)
(* Proofs about WinLoop, for any number of threads, tasks, stops, socket   *)
(* completions, timer expiries and calls of run().                         *)
(***************************************************************************)
EXTENDS WinLoop, QueueFacts, FiniteSetTheorems, SequenceTheorems, TLAPS

-----------------------------------------------------------------------------
(* The inductive invariant.                                                 *)

(* Where the locals of run() and on_tasks() are in use, and when the port is *)
(* closed.                                                                  *)
ProgramInv ==
    /\ incb => pc \in {"check", "entries", "run_mux", "run_nmux", "end"}
    /\ iocp = "closed" =>
          pc \in {"start", "join", "swap_mux", "run_mux", "run_nmux", "done"}
    /\ pc \in {"join", "done"} => iocp = "closed"
    /\ pc # "run_mux" => pendings = <<>> /\ batch = 0
    /\ pc # "run_nmux" => pendings1 = <<>>
    /\ pc # "entries" => entries = <<>>
    /\ \A w \in Workers : wpc[w] = "push" => wtask[w] \in Tasks

IndInv == TypeOK /\ ProgramInv /\ TimerThreadInsideRun

LEMMA SubSeqType ==
    ASSUME NEW S, NEW s \in Seq(S), NEW n \in 1 .. Len(s)
    PROVE  /\ SubSeq(s, 1, n) \in Seq(S)
           /\ SubSeq(s, n + 1, Len(s)) \in Seq(S)
    BY LenProperties, SubSeqProperties

LEMMA ModRange == ASSUME NEW m \in Nat \ {0}, NEW n \in Nat
                  PROVE  n % m \in 0 .. m - 1
    OBVIOUS

-----------------------------------------------------------------------------
(* Type correctness.                                                        *)

LEMMA TypeStep == TypeOK /\ ProgramInv /\ [Next]_vars => TypeOK'
<1> SUFFICES ASSUME TypeOK, ProgramInv, [Next]_vars
             PROVE  TypeOK'
    OBVIOUS
<1>p. /\ \A p \in Packets : Append(port, p) \in Seq(Packets)
      /\ {"wake", "stop", "timer", "io"} \subseteq Packets
    BY AppendProperties DEF TypeOK, Packets
<1>m. /\ (tasks_count_ + 1) % CountMod \in 0 .. CountMod - 1
      /\ (tasks_count_ + CountMod - (batch % CountMod)) % CountMod
            \in 0 .. CountMod - 1
  <2>1. CountMod \in Nat \ {0} /\ tasks_count_ \in Nat /\ batch \in Nat
    BY WinLoopAssumption DEF TypeOK
  <2>2. batch % CountMod \in 0 .. CountMod - 1
    BY <2>1, ModRange
  <2>3. /\ tasks_count_ + 1 \in Nat
        /\ tasks_count_ + CountMod - (batch % CountMod) \in Nat
    BY <2>1, <2>2
  <2>. QED
    BY <2>1, <2>3, ModRange
<1> USE DEF TypeOK, workerVars, queueVars, runVars, batchVars, portVars,
            timerVars, bounds
<1>1. ASSUME NEW w \in Workers, PostCount(w)
      PROVE  TypeOK'
    BY <1>1, <1>m DEF PostCount
<1>2. ASSUME NEW w \in Workers, PostPush(w)
      PROVE  TypeOK'
  <2>1. Append(tasks_mux_, wtask[w]) \in Seq(Tasks)
    BY <1>2, AppendProperties DEF PostPush, ProgramInv
  <2>. QED
    BY <1>2, <2>1 DEF PostPush
<1>3. ASSUME NEW w \in Workers, PostWake(w)
      PROVE  TypeOK'
    BY <1>3, <1>p DEF PostWake, PostPacket
<1>4. CASE Stop
    BY <1>4, <1>p DEF Stop, PostPacket
<1>5. CASE TimerStep
    BY <1>5, <1>p DEF TimerStep, TimerCheck, TimerWait, TimerCall, PostPacket
<1>6. CASE OnStart \/ CheckTasks \/ WaitNothing \/ EntriesDone
    BY <1>6 DEF OnStart, CheckTasks, WaitNothing, EntriesDone
<1>7. CASE WaitReturn
    BY <1>7, SubSeqType DEF WaitReturn
<1>8. CASE HandlePacket
    BY <1>8, HeadTailProperties DEF HandlePacket
<1>9. CASE SwapMux
    BY <1>9, EmptySeq, LenProperties DEF SwapMux
<1>10. CASE RunTask
  <2>1. /\ Append(executed, Head(pendings)) \in Seq(Tasks)
        /\ Tail(pendings) \in Seq(Tasks)
    BY <1>10, HeadTailProperties, AppendProperties DEF RunTask
  <2>. QED
    BY <1>10, <2>1 DEF RunTask
<1>11. CASE DoneMux
    BY <1>11, <1>m, EmptySeq DEF DoneMux
<1>12. CASE RunLocalTask
  <2>1. /\ Append(executed, Head(pendings1)) \in Seq(Tasks)
        /\ Tail(pendings1) \in Seq(Tasks)
    BY <1>12, HeadTailProperties, AppendProperties DEF RunLocalTask
  <2>. QED
    BY <1>12, <2>1 DEF RunLocalTask
<1>13. CASE DoneLocal \/ OnTimer \/ OnStop \/ Join \/ RunAgain \/ UserReturn
  <2>1. CASE DoneLocal \/ Join \/ UserReturn
    BY <2>1 DEF DoneLocal, Onward, Join, UserReturn
  <2>2. CASE OnTimer
    BY <2>2 DEF OnTimer, Onward
  <2>3. CASE OnStop
    BY <2>3, EmptySeq DEF OnStop
  <2>4. CASE RunAgain
    BY <2>4 DEF RunAgain
  <2>. QED
    BY <1>13, <2>1, <2>2, <2>3, <2>4
<1>14. CASE UserPost
  <2>1. \A t \in Tasks : Append(taks_nmux_, t) \in Seq(Tasks)
    BY AppendProperties
  <2>. QED
    BY <1>14, <1>m, <2>1 DEF UserPost
<1>15. CASE KIo
    BY <1>15, <1>p DEF KIo, PostPacket
<1>17. CASE KTimer
    BY <1>17 DEF KTimer
<1>16. CASE Quiet \/ UNCHANGED vars
    BY <1>16 DEF Quiet, vars
<1>. QED
    BY <1>1, <1>2, <1>3, <1>4, <1>5, <1>6, <1>7, <1>8, <1>9, <1>10, <1>11,
       <1>12, <1>13, <1>14, <1>15, <1>16, <1>17
       DEF Next, WorkerStep, LoopStep

-----------------------------------------------------------------------------
(* Where run() is.                                                          *)

LEMMA ProgramStep == TypeOK /\ ProgramInv /\ [Next]_vars => ProgramInv'
<1> SUFFICES ASSUME TypeOK, ProgramInv, [Next]_vars
             PROVE  ProgramInv'
    OBVIOUS
<1>a. /\ wpc \in [Workers -> {"idle", "push", "wake"}]
      /\ DOMAIN wtask = Workers
      /\ iocp \in {"open", "closed"}
    BY DEF TypeOK
<1> USE DEF ProgramInv, workerVars, runVars, batchVars, portVars, AtLoop
<1>1. ASSUME NEW w \in Workers, PostCount(w)
      PROVE  ProgramInv'
    BY <1>1, <1>a DEF PostCount
<1>2. ASSUME NEW w \in Workers, PostPush(w)
      PROVE  ProgramInv'
    BY <1>2, <1>a DEF PostPush
<1>3. ASSUME NEW w \in Workers, PostWake(w)
      PROVE  ProgramInv'
    BY <1>3, <1>a DEF PostWake
<1>4. CASE Stop \/ TimerStep \/ KIo \/ KTimer
    BY <1>4 DEF Stop, TimerStep, TimerCheck, TimerWait, TimerCall, KIo, KTimer
<1>5. CASE \/ OnStart \/ CheckTasks \/ WaitReturn \/ WaitNothing
           \/ HandlePacket \/ EntriesDone
    BY <1>5 DEF OnStart, CheckTasks, WaitReturn, WaitNothing, HandlePacket,
                EntriesDone
<1>6. CASE SwapMux \/ DoneMux \/ DoneLocal \/ OnTimer
    BY <1>6, <1>a DEF SwapMux, DoneMux, DoneLocal, OnTimer, Onward
<1>7. CASE RunTask \/ RunLocalTask
    BY <1>7 DEF RunTask, RunLocalTask
<1>8. CASE OnStop \/ Join \/ RunAgain
    BY <1>8 DEF OnStop, Join, RunAgain
<1>9. CASE UserPost \/ UserReturn
    BY <1>9 DEF UserPost, UserReturn
<1>10. CASE Quiet \/ UNCHANGED vars
    BY <1>10 DEF Quiet, vars
<1>. QED
    BY <1>1, <1>2, <1>3, <1>4, <1>5, <1>6, <1>7, <1>8, <1>9, <1>10
       DEF Next, WorkerStep, LoopStep

-----------------------------------------------------------------------------
(* The timer thread.                                                        *)

LEMMA TimerThreadStep ==
    TypeOK /\ ProgramInv /\ TimerThreadInsideRun /\ [Next]_vars
    => TimerThreadInsideRun'
<1> SUFFICES ASSUME TypeOK, ProgramInv, TimerThreadInsideRun, [Next]_vars
             PROVE  TimerThreadInsideRun'
    OBVIOUS
<1>a. iocp \in {"open", "closed"}
    BY DEF TypeOK
<1> USE <1>a DEF TimerThreadInsideRun, runVars, portVars, timerVars, AtLoop
<1>1. CASE \E w \in Workers : PostCount(w) \/ WorkerStep(w)
    BY <1>1 DEF WorkerStep, PostCount, PostPush, PostWake
<1>2. CASE Stop \/ KIo \/ KTimer
    BY <1>2 DEF Stop, KIo, KTimer
<1>3. CASE TimerStep
    BY <1>3 DEF TimerStep, TimerCheck, TimerWait, TimerCall
<1>4. CASE OnStart
    BY <1>4 DEF OnStart
<1>5. CASE \/ CheckTasks \/ WaitReturn \/ WaitNothing \/ HandlePacket
           \/ EntriesDone \/ SwapMux \/ RunTask \/ DoneMux \/ RunLocalTask
           \/ OnTimer
    BY <1>5
       DEF CheckTasks, WaitReturn, WaitNothing, HandlePacket, EntriesDone,
           SwapMux, RunTask, DoneMux, RunLocalTask, OnTimer, Onward, ProgramInv
<1>6. CASE DoneLocal
    BY <1>6 DEF DoneLocal, Onward
<1>7. CASE OnStop \/ Join \/ RunAgain
    BY <1>7 DEF OnStop, Join, RunAgain
<1>8. CASE UserPost \/ UserReturn \/ Quiet \/ UNCHANGED vars
    BY <1>8 DEF UserPost, UserReturn, Quiet, vars
<1>. QED
    BY <1>1, <1>2, <1>3, <1>4, <1>5, <1>6, <1>7, <1>8 DEF Next, LoopStep

(* The locals, the port and the timer thread of any number of run()s are    *)
(* where the loop expects them.                                             *)
THEOREM InductiveInvariant == Spec => []IndInv
<1>1. Init => IndInv
  <2> SUFFICES ASSUME Init PROVE IndInv
      OBVIOUS
  <2>1. TypeOK
    <3>1. <<>> \in Seq(Tasks) /\ <<>> \in Seq(Packets)
      BY EmptySeq
    <3>2. 0 \in 0 .. CountMod - 1
      BY WinLoopAssumption
    <3>3. /\ wpc \in [Workers -> {"idle", "push", "wake"}]
          /\ wtask \in [Workers -> Tasks \union {NoTask}]
      BY DEF Init
    <3>4. {nowait, hastimer, hasstop, incb, stop_requested, due} \subseteq BOOLEAN
      BY DEF Init
    <3>5. /\ {tasks_mux_, taks_nmux_, pendings, pendings1, executed}
                \subseteq Seq(Tasks)
          /\ {entries, port} \subseteq Seq(Packets)
      BY <3>1 DEF Init
    <3>6. {stops, ios, ticks, runs} \subseteq Nat
      BY DEF Init
    <3>. QED
      BY <3>2, <3>3, <3>4, <3>5, <3>6 DEF Init, TypeOK
  <2>2. ProgramInv
    BY DEF Init, ProgramInv
  <2>3. TimerThreadInsideRun
    BY DEF Init, TimerThreadInsideRun
  <2>. QED
    BY <2>1, <2>2, <2>3 DEF IndInv
<1>2. IndInv /\ [Next]_vars => IndInv'
    BY TypeStep, ProgramStep, TimerThreadStep DEF IndInv
<1>. QED
    BY <1>1, <1>2, PTL DEF Spec

(* Every variable keeps its type.                                           *)
THEOREM TypeCorrect == Spec => []TypeOK
<1>1. IndInv => TypeOK
    BY DEF IndInv
<1>. QED
    BY <1>1, InductiveInvariant, PTL

(* However often run() is called, its timer thread is gone when it returns. *)
THEOREM TimerThreadJoined == Spec => []TimerThreadInsideRun
<1>1. IndInv => TimerThreadInsideRun
    BY DEF IndInv
<1>. QED
    BY <1>1, InductiveInvariant, PTL

-----------------------------------------------------------------------------
(* Packets.                                                                 *)

LEMMA QueuedTypes ==
    ASSUME TypeOK
    PROVE  /\ port \in Seq(Packets) /\ entries \in Seq(Packets)
           /\ Len(port) \in Nat /\ DOMAIN port = 1 .. Len(port)
           /\ Len(entries) \in Nat /\ DOMAIN entries = 1 .. Len(entries)
           /\ iocp \in {"open", "closed"}
    BY LenProperties DEF TypeOK

(* A packet that is posted leaves the others where they are.                *)
LEMMA PostPacketKeeps ==
    ASSUME TypeOK, NEW p \in Packets, PostPacket(p), UNCHANGED entries,
           NEW x, Queued(x)
    PROVE  Queued(x)'
<1>1. CASE iocp = "open"
  <2>1. /\ DOMAIN port' = 1 .. Len(port) + 1
        /\ \A i \in 1 .. Len(port) : port'[i] = port[i]
    BY <1>1, QueuedTypes, AppendProperties, LenProperties DEF PostPacket
  <2>2. \A i \in DOMAIN port : i \in DOMAIN port' /\ port'[i] = port[i]
    BY <2>1, QueuedTypes
  <2>. QED
    BY <2>2 DEF Queued
<1>2. CASE iocp # "open"
    BY <1>2 DEF PostPacket, Queued
<1>. QED
    BY <1>1, <1>2

(* What the system takes off the port is in the batch.                      *)
LEMMA WaitReturnKeeps ==
    ASSUME TypeOK, ProgramInv, WaitReturn, NEW x, Queued(x)
    PROVE  Queued(x)'
<1>1. entries = <<>>
    BY DEF WaitReturn, AtLoop, ProgramInv
<1>2. PICK i \in DOMAIN port : port[i] = x
    BY <1>1, EmptySeq DEF Queued
<1>3. PICK n \in 1 .. Len(port) : /\ entries' = SubSeq(port, 1, n)
                                 /\ port' = SubSeq(port, n + 1, Len(port))
    BY DEF WaitReturn
<1>4. n \in Nat /\ i \in Nat /\ 1 <= i /\ i <= Len(port) /\ n <= Len(port)
    BY QueuedTypes
<1>5. CASE i <= n
  <2>1. /\ DOMAIN entries' = 1 .. n
        /\ \A k \in 1 .. n : entries'[k] = port[k]
    BY <1>3, <1>4, QueuedTypes
  <2>2. i \in DOMAIN entries' /\ entries'[i] = x
    BY <1>2, <1>4, <1>5, <2>1
  <2>. QED
    BY <2>2 DEF Queued
<1>6. CASE i > n
  <2>1. /\ DOMAIN port' = 1 .. Len(port) - n
        /\ \A k \in 1 .. Len(port) - n : port'[k] = port[n + k]
    BY <1>3, <1>4, QueuedTypes
  <2>2. i - n \in DOMAIN port' /\ port'[i - n] = x
    BY <1>2, <1>4, <1>6, <2>1
  <2>. QED
    BY <2>2 DEF Queued
<1>. QED
    BY <1>4, <1>5, <1>6

(* A packet that is handled was the first.                                  *)
LEMMA HandlePacketKeeps ==
    ASSUME TypeOK, HandlePacket, NEW x, Queued(x)
    PROVE  Queued(x)' \/ Head(entries) = x
<1> SUFFICES ASSUME Head(entries) # x
             PROVE  Queued(x)'
    OBVIOUS
<1>1. entries # <<>> /\ entries' = Tail(entries) /\ port' = port
    BY DEF HandlePacket, portVars
<1>2. /\ Head(entries) = entries[1]
      /\ DOMAIN Tail(entries) = 1 .. Len(entries) - 1
      /\ \A k \in 1 .. Len(entries) - 1 : Tail(entries)[k] = entries[k + 1]
    BY <1>1, QueuedTypes, HeadTailProperties, LenProperties
<1>3. ASSUME NEW i \in DOMAIN entries, entries[i] = x
      PROVE  Queued(x)'
  <2>1. i - 1 \in 1 .. Len(entries) - 1 /\ i - 1 + 1 = i
    BY <1>2, <1>3, QueuedTypes
  <2>2. i - 1 \in DOMAIN entries' /\ entries'[i - 1] = x
    BY <1>1, <1>2, <1>3, <2>1
  <2>. QED
    BY <2>2 DEF Queued
<1>4. ASSUME NEW i \in DOMAIN port, port[i] = x
      PROVE  Queued(x)'
    BY <1>1, <1>4 DEF Queued
<1>. QED
    BY <1>3, <1>4 DEF Queued

(* No other step takes a packet off the port, but for its closing.          *)
LEMMA QueuedStep ==
    ASSUME TypeOK, ProgramInv, [Next]_vars, NEW x, Queued(x)
    PROVE  \/ Queued(x)'
           \/ iocp' = "closed"
           \/ HandlePacket /\ Head(entries) = x
<1> USE DEF runVars, portVars
<1>1. ASSUME NEW w \in Workers, PostCount(w) \/ PostPush(w)
      PROVE  Queued(x)'
    BY <1>1 DEF PostCount, PostPush, Queued
<1>2. ASSUME NEW w \in Workers, PostWake(w)
      PROVE  Queued(x)'
    BY <1>2, PostPacketKeeps DEF PostWake, Packets
<1>3. CASE Stop \/ KIo
    BY <1>3, PostPacketKeeps DEF Stop, KIo, Packets
<1>4. CASE TimerCall
    BY <1>4, PostPacketKeeps DEF TimerCall, Packets
<1>5. CASE TimerCheck \/ TimerWait \/ KTimer
    BY <1>5 DEF TimerCheck, TimerWait, KTimer, Queued
<1>6. CASE WaitReturn
    BY <1>6, WaitReturnKeeps
<1>7. CASE HandlePacket
    BY <1>7, HandlePacketKeeps
<1>8. CASE OnStop
    BY <1>8 DEF OnStop
<1>9. CASE OnStart \/ CheckTasks \/ WaitNothing \/ EntriesDone \/ SwapMux
    BY <1>9 DEF OnStart, CheckTasks, WaitNothing, EntriesDone, SwapMux, Queued
<1>10. CASE \/ RunTask \/ DoneMux \/ RunLocalTask \/ DoneLocal \/ OnTimer
            \/ Join
    BY <1>10 DEF RunTask, DoneMux, RunLocalTask, DoneLocal, OnTimer, Join,
                 Queued
<1>11. CASE UserReturn \/ UserPost \/ RunAgain \/ Quiet \/ UNCHANGED vars
    BY <1>11 DEF UserReturn, UserPost, RunAgain, Quiet, vars, Queued
<1>. QED
    BY <1>1, <1>2, <1>3, <1>4, <1>5, <1>6, <1>7, <1>8, <1>9, <1>10, <1>11
       DEF Next, WorkerStep, TimerStep, LoopStep

(* The handling of a packet sets its flag.                                  *)
LEMMA FlagSet ==
    ASSUME HandlePacket
    PROVE  /\ Head(entries) = "stop" => hasstop'
           /\ Head(entries) = "timer" => hastimer'
           /\ pc' = "entries"
<1>1. pc' = "entries"
    BY DEF HandlePacket, AtLoop
<1>. QED
    BY <1>1, Zenon DEF HandlePacket

(* The flags of run() are kept to its end, and to on_timer().               *)
LEMMA FlagStep ==
    ASSUME TypeOK, ProgramInv, [Next]_vars
    PROVE  /\ hasstop /\ pc \notin {"start", "check"} =>
                 \/ hasstop' /\ pc' \notin {"start", "check"}
                 \/ iocp' = "closed"
           /\ hastimer /\ pc \in {"entries", "swap_mux", "run_mux", "run_nmux"} =>
                 \/ /\ hastimer'
                    /\ pc' \in {"entries", "swap_mux", "run_mux", "run_nmux"}
                 \/ pc' = "timer"
                 \/ iocp' = "closed"
<1>a. {hasstop, hastimer} \subseteq BOOLEAN /\ iocp \in {"open", "closed"}
    BY DEF TypeOK
<1> USE <1>a DEF runVars, portVars, AtLoop
<1>1. CASE \E w \in Workers : PostCount(w) \/ WorkerStep(w)
    BY <1>1 DEF WorkerStep, PostCount, PostPush, PostWake
<1>2. CASE Stop \/ TimerStep \/ KIo \/ KTimer
    BY <1>2 DEF Stop, TimerStep, TimerCheck, TimerWait, TimerCall, KIo, KTimer
<1>3. CASE OnStart \/ CheckTasks \/ WaitReturn \/ WaitNothing \/ EntriesDone
    BY <1>3 DEF OnStart, CheckTasks, WaitReturn, WaitNothing, EntriesDone
<1>4. CASE HandlePacket
  <2>1. (hasstop => hasstop') /\ (hastimer => hastimer')
    BY <1>4, Zenon DEF HandlePacket
  <2>2. pc = "entries" /\ pc' = pc
    BY <1>4 DEF HandlePacket
  <2>. QED
    BY <2>1, <2>2
<1>5. CASE SwapMux \/ RunTask \/ DoneMux \/ RunLocalTask
    BY <1>5 DEF SwapMux, RunTask, DoneMux, RunLocalTask
<1>6. CASE DoneLocal \/ OnTimer
    BY <1>6 DEF DoneLocal, OnTimer, Onward
<1>7. CASE OnStop \/ Join \/ RunAgain
    BY <1>7 DEF OnStop, Join, RunAgain, ProgramInv
<1>8. CASE UserPost \/ UserReturn \/ Quiet \/ UNCHANGED vars
    BY <1>8 DEF UserPost, UserReturn, Quiet, vars
<1>. QED
    BY <1>1, <1>2, <1>3, <1>4, <1>5, <1>6, <1>7, <1>8 DEF Next, LoopStep

(* A stop is not forgotten before run() closes its port, nor a tick before  *)
(* timer_call(), whatever is in their batch, for any number of threads and  *)
(* packets, any size of the batch and any number of run()s.                 *)
THEOREM NoPacketForgotten == Spec => PacketsAreKept
<1>1. ASSUME IndInv, [Next]_vars
      PROVE  /\ StopIsDue => StopIsDue' \/ iocp' = "closed"
             /\ TickIsDue => TickIsDue' \/ pc' = "timer" \/ iocp' = "closed"
  <2>1. TypeOK /\ ProgramInv
    BY <1>1 DEF IndInv
  <2>2. ASSUME StopIsDue
        PROVE  StopIsDue' \/ iocp' = "closed"
    BY <1>1, <2>1, <2>2, QueuedStep, FlagSet, FlagStep DEF StopIsDue
  <2>3. ASSUME TickIsDue
        PROVE  TickIsDue' \/ pc' = "timer" \/ iocp' = "closed"
    BY <1>1, <2>1, <2>3, QueuedStep, FlagSet, FlagStep DEF TickIsDue
  <2>. QED
    BY <2>2, <2>3
<1>. QED
    BY <1>1, InductiveInvariant, PTL DEF Spec, PacketsAreKept

-----------------------------------------------------------------------------
(* tasks_count_, as long as it cannot wrap, and the wake-up of a loop that  *)
(* is about to block.                                                       *)

(* There are fewer tasks in all than tasks_count_ can count.                *)
NoWrap == IsFiniteSet(Tasks) /\ Cardinality(Tasks) < CountMod

Pushing == {w \in Workers : wpc[w] = "push"}

(* The tasks counted and not yet taken off the count.  tasks_count_ may be  *)
(* above it, as it keeps the posts of the loop thread that were run.        *)
Counted ==
    Len(tasks_mux_) + Len(taks_nmux_) + batch + Cardinality(Pushing)

CountInv ==
    /\ IsFiniteSet(posted) /\ IsFiniteSet(Pushing)
    /\ Counted <= tasks_count_
    /\ tasks_count_ <= Cardinality(posted)

(* What NoLostWakeup needs, from the decision to block on.                  *)
BlockInv ==
    pc = "wait" /\ ~nowait =>
        /\ taks_nmux_ = <<>>
        /\ tasks_mux_ # <<>> => port # <<>> \/ Waking # {}

LEMMA ModSmall == ASSUME NEW m \in Nat \ {0}, NEW n \in 0 .. m - 1
                  PROVE  n % m = n /\ (n + m) % m = n
    OBVIOUS

(* A step that changes neither the count nor what it counts.                *)
CountQuiet == UNCHANGED <<posted, wpc, queueVars, batch>>

LEMMA CountStep ==
    ASSUME NoWrap
    PROVE  TypeOK /\ ProgramInv /\ CountInv /\ [Next]_vars => CountInv'
<1> SUFFICES ASSUME TypeOK, ProgramInv, CountInv, [Next]_vars
             PROVE  CountInv'
    OBVIOUS
<1>t. /\ wpc \in [Workers -> {"idle", "push", "wake"}]
      /\ tasks_mux_ \in Seq(Tasks) /\ taks_nmux_ \in Seq(Tasks)
    BY DEF TypeOK
<1>a. /\ Len(tasks_mux_) \in Nat /\ Len(taks_nmux_) \in Nat
      /\ batch \in Nat
      /\ tasks_count_ \in 0 .. CountMod - 1
    BY <1>t, LenProperties DEF TypeOK
<1>b. Cardinality(Pushing) \in Nat /\ Cardinality(posted) \in Nat
    BY FS_CardinalityType DEF CountInv
<1>c. /\ \A S \in SUBSET Tasks : Cardinality(S) < CountMod
      /\ CountMod \in Nat \ {0}
    BY FS_Subset, FS_CardinalityType, WinLoopAssumption DEF NoWrap
<1>d. ASSUME NEW t \in Tasks \ posted
      PROVE  /\ IsFiniteSet(posted \union {t})
             /\ Cardinality(posted \union {t}) = Cardinality(posted) + 1
             /\ (tasks_count_ + 1) % CountMod = tasks_count_ + 1
  <2>1. /\ IsFiniteSet(posted \union {t})
        /\ Cardinality(posted \union {t}) = Cardinality(posted) + 1
    BY FS_AddElement DEF CountInv
  <2>2. posted \union {t} \in SUBSET Tasks
    BY DEF TypeOK
  <2>3. tasks_count_ + 1 \in 0 .. CountMod - 1
    BY <1>a, <1>b, <1>c, <2>1, <2>2 DEF CountInv
  <2>. QED
    BY <1>c, <2>1, <2>3, ModSmall
<1>q. UNCHANGED wpc => UNCHANGED Pushing
    BY DEF Pushing
<1> USE DEF workerVars, queueVars, runVars, batchVars, AtLoop
<1>1. ASSUME NEW w \in Workers, PostCount(w)
      PROVE  CountInv'
  <2>1. IsFiniteSet(Pushing') /\ Cardinality(Pushing)' = Cardinality(Pushing) + 1
    <3>1. Pushing' = Pushing \union {w} /\ w \notin Pushing
      BY <1>1, <1>t DEF PostCount, Pushing
    <3>. QED
      BY <3>1, FS_AddElement DEF CountInv
  <2>2. PICK t \in Tasks \ posted : posted' = posted \union {t}
    BY <1>1 DEF PostCount
  <2>3. tasks_count_' = tasks_count_ + 1
    BY <1>1, <1>d, <2>2 DEF PostCount
  <2>4. Counted' = Counted + 1
    BY <1>1, <1>a, <1>b, <2>1 DEF PostCount, Counted
  <2>5. Counted \in Nat
    BY <1>a, <1>b DEF Counted
  <2>6. IsFiniteSet(posted') /\ Cardinality(posted)' = Cardinality(posted) + 1
    BY <1>d, <2>2
  <2>7. Counted' <= tasks_count_' /\ tasks_count_' <= Cardinality(posted)'
    BY <1>a, <1>b, <2>3, <2>4, <2>5, <2>6 DEF CountInv
  <2>. QED
    BY <2>1, <2>6, <2>7 DEF CountInv
<1>2. ASSUME NEW w \in Workers, PostPush(w)
      PROVE  CountInv'
  <2>1. IsFiniteSet(Pushing') /\ Cardinality(Pushing)' = Cardinality(Pushing) - 1
    <3>1. Pushing' = Pushing \ {w} /\ w \in Pushing
      BY <1>2, <1>t DEF PostPush, Pushing
    <3>. QED
      BY <3>1, FS_RemoveElement DEF CountInv
  <2>2. Len(tasks_mux_)' = Len(tasks_mux_) + 1
    BY <1>2, <1>t, AppendProperties DEF PostPush, ProgramInv
  <2>3. Counted' = Counted
    BY <1>2, <1>a, <1>b, <2>1, <2>2 DEF PostPush, Counted
  <2>. QED
    BY <1>2, <2>1, <2>3 DEF PostPush, CountInv
<1>3. ASSUME NEW w \in Workers, PostWake(w)
      PROVE  CountInv'
  <2>1. Pushing' = Pushing
    BY <1>3, <1>t DEF PostWake, Pushing
  <2>. QED
    BY <1>3, <2>1 DEF PostWake, CountInv, Counted
<1>4. CASE SwapMux
  <2>1. batch = 0 /\ Len(tasks_mux_)' = 0 /\ batch' = Len(tasks_mux_)
    BY <1>4, EmptySeq DEF SwapMux, ProgramInv
  <2>2. Counted' = Counted
    BY <1>4, <1>a, <1>b, <1>q, <2>1 DEF SwapMux, Counted
  <2>. QED
    BY <1>4, <1>q, <2>2 DEF SwapMux, CountInv
<1>5. CASE DoneMux
  <2>1. Counted \in Nat /\ batch <= Counted /\ batch \in 0 .. CountMod - 1
    BY <1>a, <1>b, <1>c DEF CountInv, Counted
  <2>2. tasks_count_' = tasks_count_ - batch
    <3>1. batch % CountMod = batch
      BY <1>c, <2>1, ModSmall
    <3>2. tasks_count_ - batch \in 0 .. CountMod - 1
      BY <1>a, <1>c, <2>1 DEF CountInv
    <3>3. ((tasks_count_ - batch) + CountMod) % CountMod = tasks_count_ - batch
      BY <1>c, <3>2, ModSmall
    <3>4. tasks_count_ + CountMod - batch = (tasks_count_ - batch) + CountMod
      BY <1>a, <1>c
    <3>. QED
      BY <1>5, <3>1, <3>3, <3>4 DEF DoneMux
  <2>3. Counted' <= Counted - batch
    <3>1. Len(taks_nmux_)' = 0 /\ batch' = 0
      BY <1>5, EmptySeq DEF DoneMux
    <3>. QED
      BY <1>5, <1>a, <1>b, <1>q, <3>1 DEF DoneMux, Counted
  <2>4. Counted' \in Int
    BY <1>5, <1>a, <1>b, <1>q, EmptySeq DEF DoneMux, Counted
  <2>5. Counted' <= tasks_count_' /\ tasks_count_' <= Cardinality(posted)
    BY <1>a, <1>b, <2>1, <2>2, <2>3, <2>4 DEF CountInv
  <2>. QED
    BY <1>5, <1>q, <2>5 DEF DoneMux, CountInv
<1>6. CASE UserPost
  <2>1. PICK t \in Tasks \ posted :
           posted' = posted \union {t} /\ taks_nmux_' = Append(taks_nmux_, t)
    BY <1>6 DEF UserPost
  <2>2. Len(taks_nmux_)' = Len(taks_nmux_) + 1
    BY <1>t, <2>1, AppendProperties
  <2>3. tasks_count_' = tasks_count_ + 1
    BY <1>6, <1>d, <2>1 DEF UserPost
  <2>4. Counted' = Counted + 1
    BY <1>6, <1>a, <1>b, <1>q, <2>2 DEF UserPost, Counted
  <2>5. Counted \in Nat
    BY <1>a, <1>b DEF Counted
  <2>. QED
    BY <1>6, <1>a, <1>b, <1>d, <1>q, <2>1, <2>3, <2>4, <2>5
       DEF UserPost, CountInv
<1>7. CASE \/ Stop \/ TimerStep \/ OnStart \/ CheckTasks \/ WaitReturn
           \/ WaitNothing \/ HandlePacket \/ EntriesDone \/ RunTask
           \/ RunLocalTask \/ DoneLocal \/ OnTimer \/ OnStop \/ Join
           \/ RunAgain \/ UserReturn \/ KIo \/ KTimer \/ Quiet
           \/ UNCHANGED vars
  <2>1. CountQuiet
    BY <1>7
       DEF CountQuiet, Stop, TimerStep, TimerCheck, TimerWait, TimerCall,
           OnStart, CheckTasks, WaitReturn, WaitNothing, HandlePacket,
           EntriesDone, RunTask, RunLocalTask, DoneLocal, OnTimer, OnStop,
           Join, RunAgain, UserReturn, KIo, KTimer, Quiet, vars
  <2>. QED
    BY <1>q, <2>1 DEF CountQuiet, CountInv, Counted
<1>. QED
    BY <1>1, <1>2, <1>3, <1>4, <1>5, <1>6, <1>7 DEF Next, WorkerStep, LoopStep

LEMMA BlockStep ==
    ASSUME NoWrap
    PROVE  TypeOK /\ ProgramInv /\ CountInv /\ BlockInv /\ [Next]_vars
           => BlockInv'
<1> SUFFICES ASSUME TypeOK, ProgramInv, CountInv, BlockInv, [Next]_vars
             PROVE  BlockInv'
    OBVIOUS
<1>a. /\ wpc \in [Workers -> {"idle", "push", "wake"}]
      /\ port \in Seq(Packets)
      /\ iocp \in {"open", "closed"}
    BY DEF TypeOK
<1>p. \A p \in Packets : Append(port, p) # <<>>
    BY <1>a, AppendProperties, EmptySeq
<1> USE DEF BlockInv, Waking, workerVars, queueVars, runVars, portVars, AtLoop
<1>1. ASSUME NEW w \in Workers, PostCount(w)
      PROVE  BlockInv'
    BY <1>1, <1>a DEF PostCount
<1>2. ASSUME NEW w \in Workers, PostPush(w)
      PROVE  BlockInv'
    BY <1>2, <1>a DEF PostPush
<1>3. ASSUME NEW w \in Workers, PostWake(w)
      PROVE  BlockInv'
    BY <1>3, <1>a, <1>p DEF PostWake, PostPacket, ProgramInv, Packets
<1>4. CASE Stop \/ TimerCall \/ KIo
    BY <1>4, <1>p DEF Stop, TimerCall, KIo, PostPacket, Packets
<1>5. CASE TimerCheck \/ TimerWait \/ KTimer
    BY <1>5 DEF TimerCheck, TimerWait, KTimer
<1>6. CASE CheckTasks
  <2>1. tasks_count_ > 0 => nowait'
    BY <1>6, Zenon DEF CheckTasks
  <2>2. /\ Len(tasks_mux_) \in Nat /\ Len(taks_nmux_) \in Nat
        /\ batch \in Nat /\ tasks_count_ \in Nat
        /\ Cardinality(Pushing) \in Nat
    BY LenProperties, FS_CardinalityType DEF TypeOK, CountInv
  <2>3. tasks_count_ = 0 => Len(tasks_mux_) = 0 /\ Len(taks_nmux_) = 0
    BY <2>2 DEF CountInv, Counted
  <2>4. tasks_count_ = 0 => tasks_mux_ = <<>> /\ taks_nmux_ = <<>>
    BY <2>3, EmptySeq DEF TypeOK
  <2>. QED
    BY <1>6, <2>1, <2>2, <2>4 DEF CheckTasks
<1>7. CASE UserPost
    BY <1>7 DEF UserPost, InUser, ProgramInv
<1>8. CASE \/ OnStart \/ WaitReturn \/ WaitNothing \/ HandlePacket
           \/ EntriesDone \/ UserReturn
    BY <1>8 DEF OnStart, WaitReturn, WaitNothing, HandlePacket, EntriesDone,
                UserReturn
<1>9. CASE \/ SwapMux \/ RunTask \/ DoneMux \/ RunLocalTask \/ DoneLocal
           \/ OnTimer \/ OnStop \/ Join \/ RunAgain
    BY <1>9 DEF SwapMux, RunTask, DoneMux, RunLocalTask, DoneLocal, OnTimer,
                OnStop, Join, RunAgain, Onward
<1>10. CASE Quiet \/ UNCHANGED vars
    BY <1>10 DEF Quiet, vars
<1>. QED
    BY <1>1, <1>2, <1>3, <1>4, <1>5, <1>6, <1>7, <1>8, <1>9, <1>10
       DEF Next, WorkerStep, TimerStep, LoopStep

(* tasks_count_ never falls below what is queued, so that the loop does not *)
(* block on a queue that it could see.                                      *)
THEOREM CountInvariant == ASSUME NoWrap
                          PROVE  Spec => [](CountInv /\ BlockInv)
<1>1. Init => CountInv /\ BlockInv
  <2> SUFFICES ASSUME Init PROVE CountInv /\ BlockInv
      OBVIOUS
  <2>1. Pushing = {}
    BY DEF Init, Pushing
  <2>2. /\ IsFiniteSet(posted) /\ Cardinality(posted) = 0
        /\ IsFiniteSet(Pushing) /\ Cardinality(Pushing) = 0
    BY <2>1, FS_EmptySet DEF Init
  <2>3. Counted = 0
    BY <2>2, EmptySeq DEF Init, Counted
  <2>. QED
    BY <2>2, <2>3 DEF Init, CountInv, BlockInv
<1>2. IndInv /\ CountInv /\ BlockInv /\ [Next]_vars => CountInv' /\ BlockInv'
    BY CountStep, BlockStep DEF IndInv
<1>. QED
    BY <1>1, <1>2, InductiveInvariant, PTL DEF Spec

(* No interleaving of post(), of the decision to block and of the end of a  *)
(* run() loses a wake-up, for any number of threads and of run()s and for   *)
(* tasks below the range of tasks_count_.                                   *)
THEOREM WakeupNeverLost == ASSUME NoWrap
                           PROVE  Spec => []NoLostWakeup
<1>1. BlockInv => NoLostWakeup
    BY DEF BlockInv, NoLostWakeup, Blocked, AtLoop
<1>. QED
    BY <1>1, CountInvariant, PTL

-----------------------------------------------------------------------------
(* The loop implements Mailbox, which may be opened again.                  *)

(* A step that leaves the queues, the history and the run as they are.      *)
BoxQuiet ==
    /\ UNCHANGED <<tasks_mux_, taks_nmux_, pendings, pendings1, executed>>
    /\ (pc # "done" /\ pc' # "done") \/ UNCHANGED pc

LEMMA BoxStep == IndInv /\ [Next]_vars => [Box!Next \/ Box!Reopen]_(Box!vars)
<1> SUFFICES ASSUME TypeOK, ProgramInv, [Next]_vars
             PROVE  [Box!Next \/ Box!Reopen]_(Box!vars)
    BY DEF IndInv
<1>a. /\ tasks_mux_ \in Seq(Tasks) /\ pendings \in Seq(Tasks)
      /\ taks_nmux_ \in Seq(Tasks) /\ pendings1 \in Seq(Tasks)
    BY DEF TypeOK
<1>b. /\ pc # "run_mux" => pendings = <<>>
      /\ pc # "run_nmux" => pendings1 = <<>>
    BY DEF ProgramInv
<1>q. BoxQuiet => UNCHANGED Box!vars
    BY DEF BoxQuiet, Box!vars
<1> USE DEF workerVars, queueVars, runVars, batchVars, AtLoop
<1>1. ASSUME NEW w \in Workers, PostPush(w)
      PROVE  Box!Send
  <2>1. wtask[w] \in Tasks
    BY <1>1 DEF PostPush, ProgramInv
  <2>2. pendings \o Append(tasks_mux_, wtask[w])
           = Append(pendings \o tasks_mux_, wtask[w])
    BY <1>a, <2>1, AppendConcat
  <2>. QED
    BY <1>1, <2>1, <2>2 DEF PostPush, Box!Send
<1>2. CASE SwapMux
  <2>1. <<>> \o tasks_mux_ = tasks_mux_ \o <<>>
    BY <1>a, ConcatEmptySeq
  <2>2. UNCHANGED (pendings \o tasks_mux_)
    BY <1>2, <1>b, <2>1 DEF SwapMux
  <2>. QED
    BY <1>2, <2>2 DEF SwapMux, Box!vars
<1>3. CASE RunTask
  <2>1. Box!Deliver
    BY <1>3, <1>a, HeadTailConcat DEF RunTask, Box!Deliver
  <2>. QED
    BY <2>1 DEF Box!Next
<1>4. CASE DoneMux
  <2>1. <<>> \o taks_nmux_ = taks_nmux_ \o <<>>
    BY <1>a, ConcatEmptySeq
  <2>2. UNCHANGED (pendings1 \o taks_nmux_)
    BY <1>4, <1>b, <2>1 DEF DoneMux
  <2>. QED
    BY <1>4, <2>2 DEF DoneMux, Box!vars
<1>5. CASE RunLocalTask
  <2>1. Box!DeliverLocal
    BY <1>5, <1>a, HeadTailConcat DEF RunLocalTask, Box!DeliverLocal
  <2>. QED
    BY <2>1 DEF Box!Next
<1>6. CASE DoneLocal
  <2>1. CASE iocp = "closed"
    BY <1>6, <2>1 DEF DoneLocal, Box!Return, Box!Next
  <2>2. CASE iocp # "closed"
    BY <1>6, <1>q, <2>2 DEF DoneLocal, Onward, BoxQuiet
  <2>. QED
    BY <2>1, <2>2
<1>7. CASE RunAgain
    BY <1>7 DEF RunAgain, Box!Reopen
<1>8. CASE UserPost
  <2>1. PICK t \in Tasks : taks_nmux_' = Append(taks_nmux_, t)
    BY <1>8 DEF UserPost
  <2>2. pendings1 \o Append(taks_nmux_, t) = Append(pendings1 \o taks_nmux_, t)
    BY <1>a, AppendConcat
  <2>3. pc # "done"
    BY <1>8 DEF UserPost, InUser, ProgramInv
  <2>4. Box!SendLocal
    BY <1>8, <2>1, <2>2, <2>3 DEF UserPost, Box!SendLocal
  <2>. QED
    BY <2>4 DEF Box!Next
<1>9. ASSUME NEW w \in Workers, PostCount(w) \/ PostWake(w)
      PROVE  UNCHANGED Box!vars
    BY <1>9, <1>q DEF PostCount, PostWake, BoxQuiet
<1>10. CASE \/ Stop \/ TimerStep \/ OnStart \/ CheckTasks \/ WaitReturn
            \/ WaitNothing \/ HandlePacket \/ EntriesDone \/ OnTimer
            \/ OnStop \/ Join \/ UserReturn \/ KIo \/ KTimer \/ Quiet
            \/ UNCHANGED vars
  <2>1. BoxQuiet
    BY <1>10
       DEF BoxQuiet, Stop, TimerStep, TimerCheck, TimerWait, TimerCall,
           OnStart, CheckTasks, WaitReturn, WaitNothing, HandlePacket,
           EntriesDone, OnTimer, Onward, OnStop, Join, UserReturn, KIo,
           KTimer, Quiet, vars
  <2>. QED
    BY <1>q, <2>1
<1>. QED
    BY <1>1, <1>2, <1>3, <1>4, <1>5, <1>6, <1>7, <1>8, <1>9, <1>10
       DEF Next, WorkerStep, LoopStep, Box!Next

(* The queues are served in order, each task at most once and nothing       *)
(* between two run()s.                                                      *)
THEOREM LoopImplementsMailbox == Spec => BoxSafety
<1>1. Init => Box!Init
    BY ConcatEmptySeq DEF Init, Box!Init
<1>. QED
    BY <1>1, BoxStep, InductiveInvariant, PTL
       DEF Spec, BoxSafety, Box!ReopenSpec
=============================================================================
