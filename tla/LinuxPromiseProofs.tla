-------------------------- MODULE LinuxPromiseProofs --------------------------
(***************************************************************************)
(* What LinuxObjects keeps to whatever its users call: that it implements  *)
(* CloseProtocol, and that no deleted object is called back.  It may panic.*)
(*                                                                         *)
(* The proofs see a step by its kind: an object is started, read, written  *)
(* or stopped, its callback entered or left, whatever class it is of.      *)
(***************************************************************************)
EXTENDS LinuxObjects, QueueFacts, FiniteSetTheorems, SequenceTheorems, TLAPS

-----------------------------------------------------------------------------
(* The invariant.                                                           *)

Comes(id) == inflight[id] > 0 \/ In(id, cq)

(* What comes from the kernel was given to it.  An operation that is taken  *)
(* for no cancellation is flagged while it is in flight, in one place.      *)
RingInv ==
    /\ \A id \in Ids : Comes(id) => id \in posted
    /\ \A op \in Ops \ mistaken :
          /\ Comes(op) => op \in flags
          /\ inflight[op] <= 1
          /\ inflight[op] = 1 => ~In(op, cq)
          /\ Single(op, cq)

(* Only what was started is given to the kernel, stopped or in register_cb, *)
(* which an object leaves before it is deleted.                             *)
BornInv ==
    /\ \A op \in Ops \intersect posted :
          life[op.o] \in {"live", "deleted"} /\ op.o \notin failed
    /\ \A o \in stop_ \union failed : life[o] \in {"live", "deleted"}
    /\ \A o \in registered :
          life[o] = "live" /\ o \notin close_ /\ o \notin failed

(* And what is flagged is in flight with its object in register_cb, unless  *)
(* that was closed: the completion of what is written after the close is    *)
(* skipped, and its flag stays set.                                         *)
KeepInv ==
    \A op \in flags : op.o \in close_ \/ (op.o \in registered /\ Comes(op))

(* Some operation of a stopped object is in flight or in its callback.      *)
HeardInv ==
    NoPanic =>
        \A o \in stop_ \ close_ : ctx.op.o = o \/ \E op \in flags : op.o = o

(* The operation whose completion a callback is of.                         *)
OpOf(e) == IF e.ev \in {"alloc", "readv"} THEN Op(e.o, "read") ELSE e

(* In a callback: its object is there, and what its return may post is not  *)
(* in flight, as far as its flag tells.  Nothing of a stream is in flight   *)
(* or in a callback before its read().                                      *)
CallInv ==
    /\ ctx.op \in Entered =>
          /\ life[ctx.op.o] = "live"
          /\ ctx.op.ev # "write" => OpOf(ctx.op) \notin flags
    /\ \A s \in Streams :
          Read(s) \in posted \/ Write(s) \in posted \/ ctx.op.o = s =>
              asked[s] = "ok"

queue == pendings1 \o taks_nmux_

(* Each closed object is queued once until it is deleted; but the one whose *)
(* close panicked.                                                          *)
EndInv ==
    /\ phase # "local" => pendings1 = <<>>
    /\ Unique(queue)
    /\ \A o \in Objects : In(o, queue) => o \in close_ /\ life[o] = "live"
    /\ \A o \in close_ : NoPanic /\ life[o] = "live" => In(o, queue)

BaseInv ==
    /\ TypeOK /\ RingInv /\ BornInv /\ KeepInv /\ HeardInv /\ CallInv
    /\ EndInv

-----------------------------------------------------------------------------
(* Operations and contexts.                                                 *)

LEMMA OpFacts ==
    /\ \A s \in Streams : /\ Read(s) \in Ops /\ Read(s).o = s
                          /\ Write(s) \in Ops /\ Write(s).o = s
                          /\ Read(s).ev = "read" /\ Write(s).ev = "write"
                          /\ Read(s) # Write(s)
    /\ \A a \in Acceptors : /\ Accept(a) \in Ops /\ Accept(a).o = a
                            /\ Accept(a).ev = "conn"
    /\ \A c \in Clients : /\ Connect(c) \in Ops /\ Connect(c).o = c
                          /\ Connect(c).ev = "conn"
    /\ \A op \in Ops :
          /\ op.o \in Objects
          /\ op.o \in Streams => op = Read(op.o) \/ op = Write(op.o)
          /\ op.o \in Acceptors => op = Accept(op.o)
          /\ op.o \in Clients => op = Connect(op.o)
          /\ op.ev \notin {"alloc", "readv"}
    BY ReactorAssumption
       DEF Ops, Op, Objects, Read, Write, Accept, Connect

LEMMA EnteredFacts ==
    /\ Ops \subseteq Entered
    /\ \A op \in Ops : OpOf(op) = op
    /\ \A e \in Entered : e.o \in Objects /\ OpOf(e) \in Ops /\ OpOf(e).o = e.o
    /\ \A s \in Streams :
          /\ Alloc(s) \in Entered /\ Alloc(s).o = s /\ Alloc(s).ev = "alloc"
          /\ ReadV(s) \in Entered /\ ReadV(s).o = s /\ ReadV(s).ev = "readv"
          /\ OpOf(Alloc(s)) = Read(s) /\ OpOf(ReadV(s)) = Read(s)
    /\ \A e \in Entered : e.o \in Streams /\ e # Write(e.o) =>
          OpOf(e) = Read(e.o) /\ e.ev # "write"
<1>1. \A op \in Ops : op \in Entered /\ OpOf(op) = op
    BY OpFacts DEF Entered, OpOf
<1>2. ASSUME NEW e \in Entered
      PROVE  e.o \in Objects /\ OpOf(e) \in Ops /\ OpOf(e).o = e.o
  <2>1. CASE e \in Ops
    BY <1>1, <2>1, OpFacts
  <2>2. CASE e \in [o : Streams, ev : {"alloc", "readv"}]
    BY <2>2, OpFacts DEF OpOf, Read, Objects
  <2>. QED
    BY <2>1, <2>2 DEF Entered
<1>3. ASSUME NEW s \in Streams
      PROVE  /\ Alloc(s) \in Entered /\ Alloc(s).o = s /\ Alloc(s).ev = "alloc"
             /\ ReadV(s) \in Entered /\ ReadV(s).o = s /\ ReadV(s).ev = "readv"
             /\ OpOf(Alloc(s)) = Read(s) /\ OpOf(ReadV(s)) = Read(s)
    BY <1>3 DEF Alloc, ReadV, Op, Entered, OpOf, Read
<1>4. ASSUME NEW e \in Entered, e.o \in Streams, e # Write(e.o)
      PROVE  OpOf(e) = Read(e.o) /\ e.ev # "write"
  <2>1. CASE e \in Ops
    BY <1>1, <1>4, <2>1, OpFacts
  <2>2. CASE e \in [o : Streams, ev : {"alloc", "readv"}]
    BY <2>2 DEF OpOf, Read
  <2>. QED
    BY <2>1, <2>2 DEF Entered
<1>. QED
    BY <1>1, <1>2, <1>3, <1>4

LEMMA ContextFacts ==
    /\ Idle.op \notin Entered /\ Idle.op.o = NoObject /\ Idle.late = FALSE
    /\ Idle.errors = <<>>
    /\ Task.op \notin Entered /\ Task.op.o = NoObject /\ Task.late = FALSE
    /\ Task.errors = <<>>
    /\ Task # Idle
    /\ NoObject \notin Objects
    /\ \A e, b : /\ Callback(e, b).op = e
                 /\ Callback(e, b).errors = <<>>
    /\ Efd \in Ids /\ Efd \notin Ops /\ Ops \subseteq Ids
<1>1. \A e \in Entered : e.o # NoObject
    BY EnteredFacts, ReactorAssumption
<1>2. Efd.o = NoObject /\ \A op \in Ops : op.o # NoObject
    BY OpFacts, ReactorAssumption DEF Efd, Op
<1>3. /\ Idle.op.o = NoObject /\ Idle.late = FALSE /\ Idle.errors = <<>>
      /\ Task.op.o = NoObject /\ Task.late = FALSE /\ Task.errors = <<>>
      /\ Idle.op.ev = "none" /\ Task.op.ev = "task"
    BY DEF Idle, Task, NoOp, Callback, Op
<1>4. \A e, b : Callback(e, b).op = e /\ Callback(e, b).errors = <<>>
    BY Zenon DEF Callback
<1>. QED
    BY <1>1, <1>2, <1>3, <1>4, ReactorAssumption DEF Ids

LEMMA Disjoint ==
    /\ Streams \intersect Acceptors = {}
    /\ Streams \intersect Clients = {}
    /\ Acceptors \intersect Clients = {}
    /\ Streams \subseteq Objects /\ Acceptors \subseteq Objects
    /\ Clients \subseteq Objects
    BY ReactorAssumption DEF Objects

-----------------------------------------------------------------------------
(* The kinds of steps.                                                      *)

OfStream   == UNCHANGED <<acceptorVars, clientVars>>
OfAcceptor == UNCHANGED <<streamVars, clientVars>>
OfClient   == UNCHANGED <<streamVars, acceptorVars>>
OfLoop     == UNCHANGED <<streamVars, acceptorVars, clientVars>>

Panics == {"ud_pack", "unregister_loop", "null_socket"}

KernelQuiet == UNCHANGED <<cancel, cq, frameVars>>

(* The callback of an error is entered within the one that runs.            *)
Nests(o) == ctx' = [ctx EXCEPT !.errors = Append(@, o)]

(* An operation is given to the ring, or not.                               *)
Posts(op) ==
    \/ op.o \in registered /\ Submit(op) /\ UNCHANGED panicked
    \/ NoSubmit /\ panicked' \in {panicked} \union Panics

(* An object is closed, or not.                                             *)
Closes(o) ==
    \/ /\ UNCHANGED <<close_, registered, taks_nmux_>>
       /\ panicked' \in {panicked} \union Panics
    \/ /\ o \notin close_
       /\ close_' = close_ \union {o}
       /\ registered' = registered \ {o}
       /\ \/ taks_nmux_' = Append(taks_nmux_, o) /\ UNCHANGED panicked
          \/ UNCHANGED taks_nmux_ /\ panicked' \in Panics

(* The object is closed, or something of it is still in flight.             *)
Heard(o) == o \in close_' \/ panicked' \in Panics \/ \E op \in flags : op.o = o

(* A cancellation is given to the ring, under some id.                      *)
Borrows ==
    \/ UNCHANGED <<inflight, mistaken>>
    \/ \E id \in posted :
          /\ inflight' = [inflight EXCEPT ![id] = @ + 1]
          /\ mistaken' = mistaken \union {id}

(* start(), of an acceptor or client with an operation.                     *)
Starts(o) ==
    /\ life[o] = "new"
    /\ life' = [life EXCEPT ![o] = "live"]
    /\ \/ registered' = registered \union {o} /\ UNCHANGED <<failed, ctx>>
       \/ /\ UNCHANGED registered
          /\ NoSubmit
          /\ o \in Acceptors
          /\ failed' = failed \union {o}
          /\ Nests(o)
    /\ \/ NoSubmit
       \/ \E op \in Ops : op.o = o /\ o \notin Streams /\ Submit(op)
    /\ UNCHANGED <<stop_, close_, taks_nmux_, panicked, asked>>
    /\ KernelQuiet

ReadsFirst(s) ==
    /\ life[s] = "live" /\ asked[s] = "no"
    /\ \/ /\ asked' = [asked EXCEPT ![s] = "ok"]
          /\ Posts(Read(s)) /\ UNCHANGED ctx
       \/ /\ asked' = [asked EXCEPT ![s] = "failed"]
          /\ NoSubmit /\ UNCHANGED panicked /\ Nests(s)
    /\ UNCHANGED <<life, stop_, close_, registered, taks_nmux_, failed>>
    /\ KernelQuiet

Writes(s) ==
    /\ life[s] = "live" /\ Write(s) \notin flags /\ asked[s] = "ok"
    /\ Posts(Write(s))
    /\ UNCHANGED <<life, stop_, close_, registered, taks_nmux_, ctx, asked, failed>>
    /\ KernelQuiet

Stops(o) ==
    /\ life[o] = "live" /\ o \notin stop_
    /\ stop_' = stop_ \union {o}
    /\ Closes(o) /\ Heard(o) /\ Borrows
    /\ cancel' \subseteq cancel \union {op \in Ops : op.o = o}
    /\ UNCHANGED <<life, flags, reused, posted, cq, frameVars, ctx, asked, failed>>

(* A callback is entered; a client leaves register_cb with it.              *)
Enters(op) ==
    /\ Dispatch(op)
    /\ \E e \in Entered : e.ev # "readv" /\ OpOf(e) = op /\ Enter(e)
    /\ \/ UNCHANGED registered
       \/ registered' = registered \ {op.o} /\ op.o \in Clients
    /\ UNCHANGED <<asked, failed>>

(* A completion goes on from one callback towards the next.                 *)
GoesOn(s) ==
    /\ ctx.errors = <<>>
    /\ \/ ctx.op = Alloc(s) /\ ctx' = [ctx EXCEPT !.op = ReadV(s)]
       \/ ctx.op = ReadV(s) /\ ctx' = [ctx EXCEPT !.op = Read(s)]
    /\ UNCHANGED <<life, stop_, close_, registered, taks_nmux_, panicked,
                   asked, failed>>
    /\ NoSubmit /\ KernelQuiet

(* The last is left: what follows posts the operation again, closes, or does*)
(* neither.                                                                 *)
Leaves(op) ==
    /\ Returns(op) /\ ctx' = Idle
    /\ \/ /\ op.ev # "write" /\ Posts(op)
          /\ op.o \notin stop_
          /\ UNCHANGED <<close_, registered, taks_nmux_>>
       \/ /\ Closes(op.o) /\ NoSubmit
          /\ UNCHANGED close_ \/ op.o \in stop_
          /\ op.o \in stop_ => Heard(op.o)
    /\ UNCHANGED <<life, stop_, asked, failed>>
    /\ KernelQuiet

(* Steps of the frame that neither call an object nor delete one.           *)
Onward == CqAdvance \/ RunMux \/ SwapLocal \/ DoneLocal \/ OnTimer \/ TaskReturn

FrameQuiet ==
    UNCHANGED <<stop_, close_, flags, registered, inflight, idVars, cancel,
                panicked>>

LEMMA CloseOnceCloses ==
    /\ \A o : CloseOnce(o) => Closes(o) /\ Heard(o)
    /\ \A o : NoClose => Closes(o)
<1>1. ASSUME NEW o, CloseOnce(o)
      PROVE  Closes(o) /\ Heard(o)
  <2>1. CASE o \in close_
    BY <1>1, <2>1 DEF CloseOnce, NoClose, closeVars, Closes, Heard
  <2>2. CASE o \notin close_
    BY <1>1, <2>2 DEF CloseOnce, Unregister, Closes, Panics, Heard
  <2>. QED
    BY <2>1, <2>2
<1>2. ASSUME NEW o, NoClose
      PROVE  Closes(o)
    BY <1>2 DEF NoClose, closeVars, Closes
<1>. QED
    BY <1>1, <1>2

LEMMA ClientCloses ==
    \A c : ClientPostToClose(c) => Closes(c) /\ Heard(c)
    BY CloseOnceCloses DEF ClientPostToClose, closeVars, Closes, Heard, Panics

LEMMA PostPosts == \A op : Post(op) => Posts(op)
    BY DEF Post, Posts, Panics

(* stop() cancels an operation that is flagged, or does not.                *)
LEMMA CancelBorrows ==
    /\ \A op \in Ops : Cancel(op) =>
          /\ NoClose /\ Borrows /\ UNCHANGED <<reused, posted>>
          /\ cancel' \subseteq cancel \union {p \in Ops : p.o = op.o}
    /\ NoCancel => Borrows /\ UNCHANGED <<cancel, reused, posted>>
    BY DEF Cancel, NoCancel, Borrows, idVars

StreamKind(s) ==
    \/ Starts(s) \/ ReadsFirst(s) \/ Writes(s) \/ Stops(s) \/ GoesOn(s)
    \/ \E op \in {Read(s), Write(s)} : Enters(op) \/ Leaves(op)

LEMMA StreamKinds ==
    ASSUME NEW s \in Streams, StreamCall(s) \/ StreamHandler(s), OfStream
    PROVE  StreamKind(s)
<1>a. UNCHANGED failed
    BY DEF OfStream, acceptorVars
<1>b. /\ Read(s) \in Ops /\ Read(s).o = s /\ Read(s).ev # "write"
      /\ Write(s) \in Ops /\ Write(s).o = s
    BY OpFacts
<1>1. CASE StreamStart(s)
    BY <1>a, <1>1 DEF StreamStart, Register, Starts, KernelQuiet, StreamKind
<1>2. CASE StreamRead(s)
    BY <1>a, <1>2, PostPosts
       DEF StreamRead, Calls, closeVars, ReadsFirst, Nests, KernelQuiet,
           StreamKind
<1>3. CASE StreamWrite(s)
    BY <1>a, <1>3, PostPosts
       DEF StreamWrite, Calls, MayWrite, writing_, closeVars, Writes,
           KernelQuiet, StreamKind
<1>4. CASE StreamStop(s)
  <2>1. /\ Closes(s) /\ Heard(s) /\ Borrows /\ UNCHANGED <<reused, posted>>
        /\ cancel' \subseteq cancel \union {op \in Ops : op.o = s}
    <3>1. CASE s \in writing_
      BY <1>4, <1>b, <3>1, CloseOnceCloses, CancelBorrows
         DEF StreamStop, writing_, Heard
    <3>2. CASE s \in reading_ \ writing_
      BY <1>4, <1>b, <3>2, CloseOnceCloses, CancelBorrows
         DEF StreamStop, reading_, Heard
    <3>3. CASE s \notin reading_ \union writing_
      BY <1>4, <3>3, CloseOnceCloses, CancelBorrows
         DEF StreamStop, StreamPostToClose
    <3>. QED
      BY <3>1, <3>2, <3>3
  <2>. QED
    BY <1>a, <1>4, <2>1 DEF StreamStop, Calls, Stops, StreamKind
<1>5. CASE RunRead(s)
  <2>1. \E e \in Entered : e.ev # "readv" /\ OpOf(e) = Read(s) /\ Enter(e)
    BY <1>5, <1>b, EnteredFacts, OpFacts DEF RunRead
  <2>. QED
    BY <1>a, <1>5, <2>1 DEF RunRead, Enters, StreamKind
<1>6. CASE RunWrite(s)
  <2>1. \E e \in Entered : e.ev # "readv" /\ OpOf(e) = Write(s) /\ Enter(e)
    BY <1>6, <1>b, EnteredFacts, OpFacts DEF RunWrite
  <2>. QED
    BY <1>a, <1>6, <2>1 DEF RunWrite, Enters, StreamKind
<1>7. CASE RunAllocReturn(s) \/ RunReadV(s)
    BY <1>a, <1>7
       DEF RunAllocReturn, RunReadV, Returns, NoClose, closeVars, GoesOn,
           KernelQuiet, StreamKind
<1>8. CASE RunReadReturn(s)
  <2>1. \/ /\ Posts(Read(s)) /\ s \notin stop_
           /\ UNCHANGED <<close_, registered, taks_nmux_>>
        \/ /\ Closes(s) /\ Heard(s) /\ NoSubmit
           /\ s \in stop_
    BY <1>8, <1>b, PostPosts, CloseOnceCloses
       DEF RunReadReturn, closeVars, ReadsAgain, ClosesAfterRead, writing_,
           Heard, StreamPostToClose
  <2>. QED
    BY <1>a, <1>b, <1>8, <2>1
       DEF RunReadReturn, Leaves, KernelQuiet, StreamKind
<1>9. CASE RunWriteReturn(s)
  <2>1. /\ Closes(s) /\ (UNCHANGED close_ \/ s \in stop_)
        /\ s \in stop_ => Heard(s)
    BY <1>9, <1>b, CloseOnceCloses
       DEF RunWriteReturn, closeVars, NoClose, ClosesAfterWrite, reading_,
           Heard, StreamPostToClose
  <2>. QED
    BY <1>a, <1>b, <1>9, <2>1
       DEF RunWriteReturn, Leaves, KernelQuiet, StreamKind
<1>. QED
    BY <1>1, <1>2, <1>3, <1>4, <1>5, <1>6, <1>7, <1>8, <1>9
       DEF StreamCall, StreamHandler

AcceptorKind(a) ==
    Starts(a) \/ Stops(a) \/ Enters(Accept(a)) \/ Leaves(Accept(a))

LEMMA AcceptorKinds ==
    ASSUME NEW a \in Acceptors, AcceptorCall(a) \/ AcceptorHandler(a), OfAcceptor
    PROVE  AcceptorKind(a)
<1>a. UNCHANGED asked
    BY DEF OfAcceptor, streamVars
<1>b. /\ Accept(a) \in Ops /\ Accept(a).o = a /\ Accept(a).ev # "write"
      /\ Accept(a).ev # "readv" /\ a \notin Streams
    BY OpFacts, Disjoint
<1>1. CASE AcceptorStart(a)
    BY <1>a, <1>b, <1>1
       DEF AcceptorStart, Register, Starts, KernelQuiet, AcceptorKind
<1>2. CASE AcceptorStartFails(a)
    BY <1>a, <1>2
       DEF AcceptorStartFails, closeVars, Starts, Nests, KernelQuiet,
           AcceptorKind
<1>3. CASE AcceptorStop(a)
  <2>1. /\ Closes(a) /\ Heard(a) /\ Borrows /\ UNCHANGED <<reused, posted>>
        /\ cancel' \subseteq cancel \union {op \in Ops : op.o = a}
    <3>1. CASE Accept(a) \in flags
      BY <1>3, <1>b, <3>1, CloseOnceCloses, CancelBorrows
         DEF AcceptorStop, Heard
    <3>2. CASE Accept(a) \notin flags
      BY <1>3, <3>2, CloseOnceCloses, CancelBorrows
         DEF AcceptorStop, AcceptorPostToClose
    <3>. QED
      BY <3>1, <3>2
  <2>. QED
    BY <1>a, <1>3, <2>1 DEF AcceptorStop, Calls, Stops, AcceptorKind
<1>4. CASE RunAccept(a)
  <2>1. \E e \in Entered : e.ev # "readv" /\ OpOf(e) = Accept(a) /\ Enter(e)
    BY <1>4, <1>b, EnteredFacts DEF RunAccept
  <2>. QED
    BY <1>a, <1>4, <2>1 DEF RunAccept, Enters, AcceptorKind
<1>5. CASE RunAcceptReturn(a)
  <2>1. \/ /\ Posts(Accept(a)) /\ a \notin stop_
           /\ UNCHANGED <<close_, registered, taks_nmux_>>
        \/ /\ Closes(a) /\ Heard(a) /\ NoSubmit
           /\ a \in stop_
    BY <1>5, PostPosts, CloseOnceCloses
       DEF RunAcceptReturn, closeVars, PostAccept, AcceptorPostToClose
  <2>. QED
    BY <1>a, <1>b, <1>5, <2>1
       DEF RunAcceptReturn, Leaves, KernelQuiet, AcceptorKind
<1>. QED
    BY <1>1, <1>2, <1>3, <1>4, <1>5 DEF AcceptorCall, AcceptorHandler

ClientKind(c) ==
    Starts(c) \/ Stops(c) \/ Enters(Connect(c)) \/ Leaves(Connect(c))

LEMMA ClientKinds ==
    ASSUME NEW c \in Clients, ClientCall(c) \/ ClientHandler(c), OfClient
    PROVE  ClientKind(c)
<1>a. UNCHANGED <<asked, failed>>
    BY DEF OfClient, streamVars, acceptorVars
<1>b. /\ Connect(c) \in Ops /\ Connect(c).o = c /\ c \notin Streams
      /\ Connect(c).ev # "readv"
    BY OpFacts, Disjoint
<1>1. CASE ClientStart(c)
    BY <1>a, <1>b, <1>1
       DEF ClientStart, Register, Starts, KernelQuiet, ClientKind
<1>2. CASE ClientStop(c)
  <2>1. /\ Closes(c) /\ Heard(c) /\ Borrows /\ UNCHANGED <<reused, posted>>
        /\ cancel' \subseteq cancel \union {op \in Ops : op.o = c}
    <3>1. CASE Connect(c) \in flags
      BY <1>2, <1>b, <3>1, CloseOnceCloses, CancelBorrows
         DEF ClientStop, Heard
    <3>2. CASE Connect(c) \notin flags
      BY <1>2, <3>2, ClientCloses, CancelBorrows DEF ClientStop
    <3>. QED
      BY <3>1, <3>2
  <2>. QED
    BY <1>a, <1>2, <2>1 DEF ClientStop, Calls, Stops, ClientKind
<1>3. CASE RunConnect(c)
  <2>1. \E e \in Entered : e.ev # "readv" /\ OpOf(e) = Connect(c) /\ Enter(e)
    BY <1>3, <1>b, EnteredFacts DEF RunConnect
  <2>. QED
    BY <1>a, <1>b, <1>3, <2>1 DEF RunConnect, Enters, ClientKind
<1>4. CASE RunConnectReturn(c)
  <2>1. /\ Closes(c) /\ (UNCHANGED close_ \/ c \in stop_)
        /\ c \in stop_ => Heard(c)
    BY <1>4, CloseOnceCloses, ClientCloses
       DEF RunConnectReturn, closeVars, NoClose
  <2>. QED
    BY <1>a, <1>b, <1>4, <2>1
       DEF RunConnectReturn, Leaves, KernelQuiet, ClientKind
<1>. QED
    BY <1>1, <1>2, <1>3, <1>4 DEF ClientCall, ClientHandler

(* All a step can be, and who takes it.                                     *)
ObjectKind ==
    \/ \E o \in Objects : Starts(o) \/ Stops(o)
    \/ \E s \in Streams : ReadsFirst(s) \/ Writes(s) \/ GoesOn(s)
    \/ \E op \in Ops : Enters(op) \/ Leaves(op)

LEMMA StepKinds ==
    ASSUME [Next]_vars
    PROVE  \/ ObjectKind
           \/ Onward /\ FrameQuiet /\ OfLoop
           \/ ErrorReturn /\ FrameQuiet /\ OfLoop
           \/ SkipCqe /\ OfLoop
           \/ ReadEventfd /\ OfLoop
           \/ RunClose /\ FrameQuiet /\ OfLoop
           \/ \E id \in Ids : KComplete(id) /\ OfLoop
           \/ \E op \in Ops : KCancel(op) /\ OfLoop
           \/ UNCHANGED vars
<1>1. ASSUME NEW s \in Streams, StreamCall(s) \/ StreamHandler(s), OfStream
      PROVE  ObjectKind
  <2>1. StreamKind(s)
    BY <1>1, StreamKinds
  <2>. QED
    BY <2>1, Disjoint, OpFacts DEF StreamKind, ObjectKind
<1>2. ASSUME NEW a \in Acceptors, AcceptorCall(a) \/ AcceptorHandler(a), OfAcceptor
      PROVE  ObjectKind
  <2>1. AcceptorKind(a)
    BY <1>2, AcceptorKinds
  <2>. QED
    BY <2>1, Disjoint, OpFacts DEF AcceptorKind, ObjectKind
<1>3. ASSUME NEW c \in Clients, ClientCall(c) \/ ClientHandler(c), OfClient
      PROVE  ObjectKind
  <2>1. ClientKind(c)
    BY <1>3, ClientKinds
  <2>. QED
    BY <2>1, Disjoint, OpFacts DEF ClientKind, ObjectKind
<1>4. CASE Call
    BY <1>1, <1>2, <1>3, <1>4 DEF Call, OfStream, OfAcceptor, OfClient
<1>5. CASE LoopStep
  <2>1. CASE Frame /\ OfLoop
    BY <2>1 DEF Frame, Onward, FrameQuiet
  <2>. QED
    BY <1>1, <1>2, <1>3, <1>5, <2>1
       DEF LoopStep, OfStream, OfAcceptor, OfClient, OfLoop
<1>6. CASE Kernel
    BY <1>6 DEF Kernel, Completed, Cancelled, OfLoop
<1>. QED
    BY <1>4, <1>5, <1>6 DEF Next

-----------------------------------------------------------------------------
(* What is in flight, and who was born.                                     *)

LEMMA KernelTypes ==
    BaseInv => /\ cq \in Seq(Ids) /\ inflight \in [Ids -> Nat]
               /\ flags \subseteq Ops /\ flags \subseteq posted
               /\ posted \subseteq Ids /\ mistaken \subseteq posted
               /\ asked \in [Streams -> {"no", "ok", "failed"}]
               /\ Ops \subseteq Ids
    BY ContextFacts DEF BaseInv, TypeOK, ReactorType

(* What the ring's head leaves behind, and what is added to its end.        *)
LEMMA CqHead ==
    ASSUME BaseInv, cq # <<>>
    PROVE  /\ Head(cq) \in Ids /\ Head(cq) \in posted
           /\ \A x : In(x, Tail(cq)) => In(x, cq)
           /\ \A x : In(x, cq) /\ x # Head(cq) => In(x, Tail(cq))
           /\ \A x : Single(x, cq) => Single(x, Tail(cq))
           /\ Single(Head(cq), cq) => ~In(Head(cq), Tail(cq))
           /\ In(Head(cq), cq)
<1>1. cq \in Seq(Ids) /\ cq # <<>>
    BY KernelTypes
<1>2. /\ Head(cq) \in Ids /\ In(Head(cq), cq)
      /\ \A x : In(x, Tail(cq)) => In(x, cq)
      /\ \A x : In(x, cq) /\ x # Head(cq) => In(x, Tail(cq))
      /\ \A x : Single(x, cq) => Single(x, Tail(cq))
      /\ Single(Head(cq), cq) => ~In(Head(cq), Tail(cq))
    BY <1>1, QueueTail
<1>. QED
    BY <1>2 DEF BaseInv, RingInv, Comes

(* The kernel hands over one of the completions of an id.                   *)
Hands(id) ==
    /\ inflight[id] > 0
    /\ inflight' = [inflight EXCEPT ![id] = @ - 1]
    /\ cq' = Append(cq, id)

LEMMA HandsOver ==
    ASSUME BaseInv, NEW id \in Ids, Hands(id)
    PROVE  /\ \A x \in Ids : x # id =>
                 /\ inflight'[x] = inflight[x]
                 /\ In(x, cq') <=> In(x, cq)
                 /\ Single(x, cq) => Single(x, cq')
           /\ inflight'[id] = inflight[id] - 1
           /\ In(id, cq')
           /\ ~In(id, cq) => Single(id, cq')
<1>1. cq \in Seq(Ids) /\ inflight \in [Ids -> Nat]
    BY KernelTypes
<1>2. /\ \A x : In(x, Append(cq, id)) <=> In(x, cq) \/ x = id
      /\ \A x : Single(x, cq) /\ x # id => Single(x, Append(cq, id))
      /\ ~In(id, cq) => Single(id, Append(cq, id))
    BY <1>1, QueueAppend
<1>. QED
    BY <1>1, <1>2 DEF Hands

LEMMA RingStep == ASSUME BaseInv, [Next]_vars
                  PROVE  RingInv'
<1>a. /\ cq \in Seq(Ids) /\ inflight \in [Ids -> Nat]
      /\ flags \subseteq Ops /\ flags \subseteq posted /\ posted \subseteq Ids
      /\ mistaken \subseteq posted
      /\ asked \in [Streams -> {"no", "ok", "failed"}] /\ Ops \subseteq Ids
      /\ RingInv /\ BornInv /\ CallInv
    BY KernelTypes DEF BaseInv
<1>q. UNCHANGED <<inflight, cq, posted, mistaken, flags>> => RingInv'
    BY <1>a DEF RingInv, Comes
<1>n. NoSubmit /\ cq' = cq => RingInv'
    BY <1>q DEF NoSubmit, idVars
<1>p. ASSUME NEW op \in Ops, op \notin flags, cq' = cq, Submit(op)
      PROVE  RingInv'
  <2>1. /\ flags' = flags \union {op} /\ posted' = posted \union {op}
        /\ mistaken' = mistaken
        /\ inflight'[op] = inflight[op] + 1
        /\ \A x \in Ids : x # op => inflight'[x] = inflight[x]
    BY <1>a, <1>p DEF Submit
  <2>2. op \notin mistaken => inflight[op] = 0 /\ ~In(op, cq)
    BY <1>a, <1>p DEF RingInv, Comes
  <2>. QED
    BY <1>a, <1>p, <2>1, <2>2 DEF RingInv, Comes
<1>d. ASSUME cq # <<>>, cq' = Tail(cq), flags' \in {flags, flags \ {Head(cq)}},
             UNCHANGED <<inflight, posted, mistaken>>
      PROVE  RingInv'
    BY <1>a, <1>d, CqHead DEF RingInv, Comes
<1>k. ASSUME NEW id \in Ids, Hands(id), UNCHANGED <<flags, posted, mistaken>>
      PROVE  RingInv'
  <2>1. /\ \A x \in Ids : x # id =>
              /\ inflight'[x] = inflight[x]
              /\ In(x, cq') <=> In(x, cq)
              /\ Single(x, cq) => Single(x, cq')
        /\ inflight'[id] = inflight[id] - 1
        /\ In(id, cq')
        /\ ~In(id, cq) => Single(id, cq')
    BY <1>k, HandsOver
  <2>2. inflight[id] \in Nat /\ inflight[id] > 0 /\ id \in posted
    BY <1>a, <1>k DEF Hands, RingInv, Comes
  <2>3. \A x \in Ids : Comes(x)' => Comes(x)
    BY <1>a, <2>1, <2>2 DEF Comes
  <2>4. id \in Ops \ mistaken => inflight[id] = 1 /\ ~In(id, cq)
    BY <1>a, <2>2 DEF RingInv
  <2>. QED
    BY <1>a, <1>k, <2>1, <2>2, <2>3, <2>4 DEF RingInv
<1>1. CASE ObjectKind
  <2>1. ASSUME NEW o \in Objects, Starts(o)
        PROVE  RingInv'
    BY <1>a, <1>p, <1>n, <2>1 DEF Starts, KernelQuiet, BornInv
  <2>2. ASSUME NEW o \in Objects, Stops(o)
        PROVE  RingInv'
    <3>1. UNCHANGED <<flags, posted, cq>> /\ Borrows
      BY <2>2 DEF Stops
    <3>2. ASSUME NEW id \in posted, inflight' = [inflight EXCEPT ![id] = @ + 1],
                 mistaken' = mistaken \union {id}
          PROVE  RingInv'
      <4>1. /\ id \in Ids /\ inflight'[id] = inflight[id] + 1
            /\ \A x \in Ids : x # id => inflight'[x] = inflight[x]
        BY <1>a, <3>2
      <4>. QED
        BY <1>a, <3>1, <3>2, <4>1 DEF RingInv, Comes
    <3>. QED
      BY <1>q, <3>1, <3>2 DEF Borrows
  <2>3. ASSUME NEW s \in Streams, ReadsFirst(s)
        PROVE  RingInv'
    BY <1>a, <1>p, <1>n, <2>3, OpFacts DEF ReadsFirst, Posts, KernelQuiet, CallInv
  <2>4. ASSUME NEW s \in Streams, Writes(s)
        PROVE  RingInv'
    BY <1>p, <1>n, <2>4, OpFacts DEF Writes, Posts, KernelQuiet
  <2>5. ASSUME NEW op \in Ops, Enters(op)
        PROVE  RingInv'
    BY <1>d, <2>5 DEF Enters, Dispatch, TakeCqe, idVars
  <2>6. ASSUME NEW op \in Ops, Leaves(op)
        PROVE  RingInv'
    <3>1. op.ev # "write" => op \notin flags
      BY <1>a, <2>6, EnteredFacts DEF Leaves, Returns, CallInv
    <3>. QED
      BY <1>a, <1>p, <1>n, <2>6, <3>1 DEF Leaves, Posts, KernelQuiet
  <2>7. ASSUME NEW s \in Streams, GoesOn(s)
        PROVE  RingInv'
    BY <1>n, <2>7 DEF GoesOn, KernelQuiet
  <2>. QED
    BY <1>1, <2>1, <2>2, <2>3, <2>4, <2>5, <2>6, <2>7 DEF ObjectKind
<1>2. CASE (Onward \/ ErrorReturn \/ RunClose) /\ FrameQuiet
    BY <1>q, <1>2
       DEF Onward, FrameQuiet, CqAdvance, RunMux, SwapLocal, RunClose,
           DoneLocal, OnTimer, TaskReturn, ErrorReturn, idVars
<1>3. CASE SkipCqe
    BY <1>d, <1>3 DEF SkipCqe, TakeCqe, idVars
<1>4. CASE ReadEventfd
  <2>1. /\ cq # <<>> /\ cq' = Tail(cq) /\ Head(cq) = Efd
        /\ UNCHANGED <<flags, posted, mistaken>>
        /\ inflight' \in {inflight, [inflight EXCEPT ![Efd] = @ + 1]}
    BY <1>4 DEF ReadEventfd, TakeCqe, idVars
  <2>2. \A op \in Ops : inflight'[op] = inflight[op]
    BY <1>a, <2>1, ContextFacts
  <2>3. \A id \in Ids : Comes(id)' => Comes(id) \/ id = Efd
    BY <1>a, <2>1, CqHead DEF Comes
  <2>4. \A op \in Ops : Comes(op)' => Comes(op)
    BY <1>a, <2>3, ContextFacts
  <2>5. Efd \in posted
    BY <2>1, CqHead
  <2>6. \A op \in Ops : /\ In(op, cq') => In(op, cq)
                        /\ Single(op, cq) => Single(op, cq')
    BY <2>1, CqHead
  <2>. QED
    BY <1>a, <2>1, <2>2, <2>3, <2>4, <2>5, <2>6 DEF RingInv
<1>5. ASSUME NEW id \in Ids, KComplete(id)
      PROVE  RingInv'
    BY <1>k, <1>5 DEF KComplete, Hands, idVars
<1>6. ASSUME NEW op \in Ops, KCancel(op)
      PROVE  RingInv'
  <2>1. CASE inflight[op] > 0
    BY <1>a, <1>k, <1>6, <2>1 DEF KCancel, Hands, idVars
  <2>2. CASE UNCHANGED <<inflight, cq>>
    BY <1>q, <1>6, <2>2 DEF KCancel, idVars
  <2>. QED
    BY <1>6, <2>1, <2>2 DEF KCancel
<1>7. CASE UNCHANGED vars
    BY <1>q, <1>7 DEF vars, reactorVars, idVars
<1>. QED
    BY <1>1, <1>2, <1>3, <1>4, <1>5, <1>6, <1>7, StepKinds

(* The front of the batch is an object that is closed and not deleted.      *)
LEMMA FrontClosed ==
    ASSUME BaseInv, pendings1 # <<>>
    PROVE  /\ queue \in Seq(Objects) /\ queue # <<>>
           /\ Head(queue) = Head(pendings1)
           /\ Tail(queue) = Tail(pendings1) \o taks_nmux_
           /\ Head(pendings1) \in close_
           /\ life[Head(pendings1)] = "live"
<1>1. pendings1 \in Seq(Objects) /\ taks_nmux_ \in Seq(Objects)
    BY DEF BaseInv, TypeOK, ReactorType
<1>2. /\ queue \in Seq(Objects) /\ queue # <<>>
      /\ Head(queue) = Head(pendings1)
      /\ Tail(queue) = Tail(pendings1) \o taks_nmux_
    BY <1>1, HeadTailConcat, ConcatProperties DEF queue
<1>3. Head(queue) \in Objects /\ In(Head(queue), queue)
    BY <1>2, UniqueTail DEF BaseInv, EndInv
<1>. QED
    BY <1>2, <1>3 DEF BaseInv, EndInv

LEMMA BornStep == ASSUME BaseInv, [Next]_vars
                  PROVE  BornInv'
<1>a. /\ BornInv /\ close_ \subseteq stop_ /\ stop_ \subseteq Objects
      /\ registered \subseteq Objects
      /\ flags \subseteq Ops /\ failed \subseteq Acceptors
      /\ life \in [Objects -> {"new", "live", "deleted", "unused"}]
    BY DEF BaseInv, TypeOK, ReactorType
<1>q. ASSUME UNCHANGED <<life, stop_, close_, failed, posted>>,
             registered' \subseteq registered
      PROVE  BornInv'
    BY <1>a, <1>q DEF BornInv
<1>p. ASSUME NEW op \in Ops, Posts(op),
             UNCHANGED <<life, stop_, close_, failed, registered>>
      PROVE  BornInv'
    BY <1>a, <1>p DEF BornInv, Posts, Submit, NoSubmit, idVars
<1>c. ASSUME NEW o \in Objects, Closes(o), life[o] = "live",
             stop_' \in {stop_, stop_ \union {o}}, UNCHANGED <<life, posted, failed>>
      PROVE  BornInv'
    BY <1>a, <1>c DEF BornInv, Closes
<1>1. CASE ObjectKind
  <2>1. ASSUME NEW o \in Objects, Starts(o)
        PROVE  BornInv'
    <3>1. /\ life[o] = "new" /\ life' = [life EXCEPT ![o] = "live"]
          /\ UNCHANGED <<stop_, close_>>
          /\ o \notin stop_ /\ o \notin close_ /\ o \notin failed
          /\ o \notin registered /\ \A op \in Ops \intersect posted : op.o # o
      BY <1>a, <2>1 DEF Starts, BornInv
    <3>2. \/ /\ registered' = registered \union {o} /\ failed' = failed
             /\ \A op \in Ops \intersect posted' : op \in posted \/ op.o = o
          \/ /\ UNCHANGED <<registered, posted>> /\ o \in Acceptors
             /\ failed' = failed \union {o}
      BY <2>1 DEF Starts, Submit, NoSubmit, idVars
    <3>3. \A op \in Ops : op.o \in Objects
      BY OpFacts
    <3>4. CASE registered' = registered \union {o} /\ failed' = failed
               /\ \A op \in Ops \intersect posted' : op \in posted \/ op.o = o
      BY <1>a, <3>1, <3>3, <3>4 DEF BornInv
    <3>5. CASE UNCHANGED <<registered, posted>> /\ failed' = failed \union {o}
      BY <1>a, <3>1, <3>3, <3>5, Disjoint DEF BornInv
    <3>. QED
      BY <3>2, <3>4, <3>5
  <2>2. ASSUME NEW o \in Objects, Stops(o)
        PROVE  BornInv'
    BY <1>c, <2>2 DEF Stops
  <2>3. ASSUME NEW s \in Streams, ReadsFirst(s)
        PROVE  BornInv'
    BY <1>p, <1>q, <2>3, OpFacts DEF ReadsFirst, NoSubmit, idVars
  <2>4. ASSUME NEW s \in Streams, Writes(s)
        PROVE  BornInv'
    BY <1>p, <2>4, OpFacts DEF Writes
  <2>5. ASSUME NEW op \in Ops, Enters(op)
        PROVE  BornInv'
    BY <1>q, <2>5 DEF Enters, Dispatch, TakeCqe, idVars
  <2>6. ASSUME NEW op \in Ops, Leaves(op)
        PROVE  BornInv'
    <3>1. life[op.o] = "live" /\ op.o \in Objects
      BY <2>6, OpFacts, EnteredFacts DEF Leaves, Returns, BaseInv, CallInv
    <3>. QED
      BY <1>c, <1>p, <2>6, <3>1 DEF Leaves, NoSubmit, idVars
  <2>7. ASSUME NEW s \in Streams, GoesOn(s)
        PROVE  BornInv'
    BY <1>q, <2>7 DEF GoesOn, NoSubmit, idVars
  <2>. QED
    BY <1>1, <2>1, <2>2, <2>3, <2>4, <2>5, <2>6, <2>7 DEF ObjectKind
<1>2. CASE (Onward \/ ErrorReturn) /\ FrameQuiet /\ OfLoop
    BY <1>q, <1>2
       DEF Onward, FrameQuiet, OfLoop, acceptorVars, CqAdvance, RunMux,
           SwapLocal, DoneLocal, OnTimer, TaskReturn, ErrorReturn, idVars
<1>3. CASE (SkipCqe \/ ReadEventfd) /\ OfLoop
    BY <1>q, <1>3
       DEF SkipCqe, ReadEventfd, TakeCqe, OfLoop, acceptorVars, idVars
<1>4. CASE RunClose /\ FrameQuiet /\ OfLoop
  <2>1. /\ pendings1 # <<>> /\ life' = [life EXCEPT ![Head(pendings1)] = "deleted"]
        /\ UNCHANGED <<stop_, close_, failed, posted, registered>>
    BY <1>4 DEF RunClose, FrameQuiet, OfLoop, acceptorVars, idVars
  <2>2. Head(pendings1) \in close_
    BY <2>1, FrontClosed
  <2>3. /\ \A op \in Ops : op.o \in Objects
        /\ failed \subseteq Objects
    BY <1>a, OpFacts, Disjoint
  <2>. QED
    BY <1>a, <2>1, <2>2, <2>3 DEF BornInv
<1>5. ASSUME NEW id, KComplete(id) \/ KCancel(id), OfLoop
      PROVE  BornInv'
    BY <1>q, <1>5 DEF KComplete, KCancel, closeVars, OfLoop, acceptorVars, idVars
<1>6. CASE UNCHANGED vars
    BY <1>q, <1>6 DEF vars, reactorVars, closeVars, acceptorVars, idVars
<1>. QED
    BY <1>1, <1>2, <1>3, <1>4, <1>5, <1>6, StepKinds

-----------------------------------------------------------------------------
(* What is flagged comes back, and who is stopped has something flagged.    *)

LEMMA KeepStep == ASSUME BaseInv, [Next]_vars
                  PROVE  KeepInv'
<1>a. /\ KeepInv /\ cq \in Seq(Ids) /\ inflight \in [Ids -> Nat]
      /\ flags \subseteq Ops /\ Ops \subseteq Ids /\ posted \subseteq Ids
    BY KernelTypes DEF BaseInv
<1>k. ASSUME UNCHANGED <<close_, registered, flags>>,
             \A op \in flags : Comes(op) => Comes(op)'
      PROVE  KeepInv'
    BY <1>a, <1>k DEF KeepInv
<1>q. UNCHANGED <<close_, registered, flags, inflight, cq>> => KeepInv'
    BY <1>k DEF Comes
<1>p. ASSUME NEW op \in Ops, op.o \in registered', Submit(op),
             registered \subseteq registered', UNCHANGED <<close_, cq>>
      PROVE  KeepInv'
  <2>1. /\ flags' = flags \union {op} /\ inflight'[op] > 0
        /\ \A x \in Ids : inflight[x] > 0 => inflight'[x] > 0
    BY <1>a, <1>p DEF Submit
  <2>. QED
    BY <1>a, <1>p, <2>1 DEF KeepInv, Comes
<1>c. ASSUME NEW o, Closes(o), flags' = flags,
             \A op \in flags : Comes(op) => Comes(op)'
      PROVE  KeepInv'
    BY <1>a, <1>c DEF KeepInv, Closes
<1>s. ASSUME NoSubmit, cq' = cq
      PROVE  flags' = flags /\ \A op \in flags : Comes(op) => Comes(op)'
    BY <1>s DEF NoSubmit, Comes
<1>h. ASSUME NEW id \in Ids, Hands(id)
      PROVE  \A op \in flags : Comes(op) => Comes(op)'
    BY <1>a, <1>h, HandsOver DEF Comes
<1>1. CASE ObjectKind
  <2>1. ASSUME NEW o \in Objects, Starts(o)
        PROVE  KeepInv'
    <3>1. CASE NoSubmit
      BY <1>a, <2>1, <3>1 DEF Starts, NoSubmit, KernelQuiet, KeepInv, Comes
    <3>2. ASSUME NEW op \in Ops, op.o = o, Submit(op), ~NoSubmit
          PROVE  KeepInv'
      BY <1>p, <2>1, <3>2 DEF Starts, KernelQuiet
    <3>. QED
      BY <2>1, <3>1, <3>2 DEF Starts
  <2>2. ASSUME NEW o \in Objects, Stops(o)
        PROVE  KeepInv'
    <3>1. \A op \in flags : Comes(op) => Comes(op)'
      <4>1. \A x \in Ids : inflight[x] > 0 => inflight'[x] > 0
        BY <1>a, <2>2 DEF Stops, Borrows
      <4>. QED
        BY <1>a, <2>2, <4>1 DEF Stops, Comes
    <3>. QED
      BY <1>c, <2>2, <3>1 DEF Stops
  <2>3. ASSUME NEW s \in Streams, ReadsFirst(s)
        PROVE  KeepInv'
    BY <1>p, <1>k, <1>s, <2>3, OpFacts DEF ReadsFirst, Posts, KernelQuiet
  <2>4. ASSUME NEW s \in Streams, Writes(s)
        PROVE  KeepInv'
    BY <1>p, <1>k, <1>s, <2>4, OpFacts DEF Writes, Posts, KernelQuiet
  <2>5. ASSUME NEW op \in Ops, Enters(op)
        PROVE  KeepInv'
    <3>1. /\ cq # <<>> /\ Head(cq) = op /\ cq' = Tail(cq)
          /\ flags' = flags \ {op} /\ UNCHANGED <<close_, inflight>>
      BY <2>5 DEF Enters, Dispatch, TakeCqe
    <3>2. \A x \in flags' : Comes(x) => Comes(x)'
      BY <3>1, CqHead DEF Comes
    <3>3. ASSUME NEW x \in flags', x.o \in registered, x.o \notin registered'
          PROVE  x.o \in close_
      <4>1. x \in Ops /\ x # op /\ x.o = op.o /\ op.o \in Clients
        BY <1>a, <2>5, <3>1, <3>3 DEF Enters
      <4>. QED
        BY <4>1, OpFacts
    <3>. QED
      BY <1>a, <3>1, <3>2, <3>3 DEF KeepInv
  <2>6. ASSUME NEW op \in Ops, Leaves(op)
        PROVE  KeepInv'
    <3>1. CASE Posts(op) /\ UNCHANGED <<close_, registered, taks_nmux_>>
      BY <1>p, <1>k, <1>s, <2>6, <3>1 DEF Leaves, Posts, KernelQuiet
    <3>2. CASE Closes(op.o) /\ NoSubmit
      BY <1>c, <1>s, <2>6, <3>2 DEF Leaves, KernelQuiet
    <3>. QED
      BY <2>6, <3>1, <3>2 DEF Leaves
  <2>7. ASSUME NEW s \in Streams, GoesOn(s)
        PROVE  KeepInv'
    BY <1>q, <2>7 DEF GoesOn, KernelQuiet, NoSubmit
  <2>. QED
    BY <1>1, <2>1, <2>2, <2>3, <2>4, <2>5, <2>6, <2>7 DEF ObjectKind
<1>2. CASE (Onward \/ ErrorReturn \/ RunClose) /\ FrameQuiet
    BY <1>q, <1>2
       DEF Onward, FrameQuiet, CqAdvance, RunMux, SwapLocal, RunClose,
           DoneLocal, OnTimer, TaskReturn, ErrorReturn
<1>3. CASE SkipCqe
  <2>1. /\ cq # <<>> /\ cq' = Tail(cq) /\ Head(cq).o \notin registered
        /\ UNCHANGED <<close_, registered, flags, inflight>>
    BY <1>3 DEF SkipCqe, TakeCqe
  <2>2. \A x : x # Head(cq) /\ Comes(x) => Comes(x)'
    BY <2>1, CqHead DEF Comes
  <2>. QED
    BY <1>a, <2>1, <2>2 DEF KeepInv
<1>4. CASE ReadEventfd
  <2>1. /\ cq # <<>> /\ cq' = Tail(cq) /\ Head(cq) = Efd
        /\ UNCHANGED <<close_, registered, flags>>
        /\ inflight' \in {inflight, [inflight EXCEPT ![Efd] = @ + 1]}
    BY <1>4 DEF ReadEventfd, TakeCqe
  <2>2. \A op \in Ops : op # Efd /\ inflight'[op] = inflight[op]
    BY <1>a, <2>1, ContextFacts
  <2>3. \A op \in Ops : Comes(op) => Comes(op)'
    BY <2>1, <2>2, CqHead DEF Comes
  <2>. QED
    BY <1>a, <1>k, <2>1, <2>3
<1>5. ASSUME NEW id \in Ids, KComplete(id)
      PROVE  KeepInv'
    BY <1>h, <1>k, <1>5 DEF KComplete, Hands, closeVars
<1>6. ASSUME NEW op \in Ops, KCancel(op)
      PROVE  KeepInv'
  <2>1. CASE inflight[op] > 0
    BY <1>a, <1>h, <1>k, <1>6, <2>1 DEF KCancel, Hands, closeVars
  <2>2. CASE UNCHANGED <<inflight, cq>>
    BY <1>q, <1>6, <2>2 DEF KCancel, closeVars
  <2>. QED
    BY <1>6, <2>1, <2>2 DEF KCancel
<1>7. CASE UNCHANGED vars
    BY <1>q, <1>7 DEF vars, reactorVars, closeVars
<1>. QED
    BY <1>1, <1>2, <1>3, <1>4, <1>5, <1>6, <1>7, StepKinds

(* The object of a context, which the errors within it leave alone.         *)
LEMMA ContextMoves ==
    ASSUME BaseInv
    PROVE  /\ \A o : Nests(o) => ctx'.op = ctx.op /\ ctx'.late = ctx.late
           /\ ErrorReturn => ctx'.op = ctx.op /\ ctx'.late = ctx.late
           /\ \A s \in Streams : GoesOn(s) =>
                 /\ ctx.op \in {Alloc(s), ReadV(s)}
                 /\ ctx'.op \in {ReadV(s), Read(s)}
                 /\ ctx'.late = ctx.late
<1>1. ctx \in [op : {NoOp, Task.op} \union Entered, late : BOOLEAN,
               errors : Seq(Objects)]
    BY DEF BaseInv, TypeOK, ReactorType
<1>2. ASSUME NEW o, Nests(o)
      PROVE  ctx'.op = ctx.op /\ ctx'.late = ctx.late
    BY <1>1, <1>2 DEF Nests
<1>3. ASSUME ErrorReturn
      PROVE  ctx'.op = ctx.op /\ ctx'.late = ctx.late
    BY <1>1, <1>3 DEF ErrorReturn
<1>4. ASSUME NEW s \in Streams, GoesOn(s)
      PROVE  /\ ctx.op \in {Alloc(s), ReadV(s)}
             /\ ctx'.op \in {ReadV(s), Read(s)}
             /\ ctx'.late = ctx.late
    BY <1>1, <1>4 DEF GoesOn
<1>. QED
    BY <1>2, <1>3, <1>4

LEMMA HeardStep == ASSUME BaseInv, [Next]_vars
                   PROVE  HeardInv'
<1>a. /\ HeardInv /\ stop_ \subseteq Objects
    BY DEF BaseInv, TypeOK, ReactorType
<1>n. NoObject \notin Objects /\ Idle.op.o = NoObject /\ Task.op.o = NoObject
    BY ContextFacts
<1>q. ASSUME flags \subseteq flags', UNCHANGED <<stop_, close_>>,
             ctx'.op.o = ctx.op.o \/ ctx.op.o = NoObject,
             NoPanic' => NoPanic
      PROVE  HeardInv'
    BY <1>a, <1>n, <1>q DEF HeardInv
<1>p. panicked' \in {panicked} \union Panics /\ NoPanic' => NoPanic
    BY DEF NoPanic, Panics
<1>1. CASE ObjectKind
  <2>1. ASSUME NEW o \in Objects, Starts(o)
        PROVE  HeardInv'
    <3>1. flags \subseteq flags'
      BY <2>1 DEF Starts, Submit, NoSubmit
    <3>2. ctx'.op = ctx.op
      BY <2>1, ContextMoves DEF Starts
    <3>. QED
      BY <1>p, <1>q, <2>1, <3>1, <3>2 DEF Starts
  <2>2. ASSUME NEW o \in Objects, Stops(o)
        PROVE  HeardInv'
    <3>1. /\ stop_' = stop_ \union {o} /\ close_ \subseteq close_'
          /\ UNCHANGED <<flags, ctx>>
          /\ panicked' \in {panicked} \union Panics
      BY <2>2 DEF Stops, Closes
    <3>2. o \in close_' \/ panicked' \in Panics \/ \E op \in flags : op.o = o
      BY <2>2 DEF Stops, Heard
    <3>. QED
      BY <1>a, <3>1, <3>2 DEF HeardInv, NoPanic, Panics
  <2>3. ASSUME NEW s \in Streams, ReadsFirst(s) \/ Writes(s)
        PROVE  HeardInv'
    <3>1. flags \subseteq flags' /\ panicked' \in {panicked} \union Panics
      BY <2>3 DEF ReadsFirst, Writes, Posts, Submit, NoSubmit
    <3>2. ctx'.op = ctx.op
      BY <2>3, ContextMoves DEF ReadsFirst, Writes
    <3>. QED
      BY <1>p, <1>q, <2>3, <3>1, <3>2 DEF ReadsFirst, Writes
  <2>4. ASSUME NEW op \in Ops, Enters(op)
        PROVE  HeardInv'
    <3>1. /\ ctx = Idle
          /\ flags' = flags \ {op}
          /\ UNCHANGED <<stop_, close_, panicked>>
      BY <2>4 DEF Enters, Dispatch, TakeCqe, AtLoop
    <3>2. ctx'.op.o = op.o
      BY <2>4, EnteredFacts, ContextFacts DEF Enters, Enter
    <3>. QED
      BY <1>a, <1>n, <3>1, <3>2 DEF HeardInv, NoPanic
  <2>5. ASSUME NEW op \in Ops, Leaves(op)
        PROVE  HeardInv'
    <3>1. /\ ctx.op = op /\ UNCHANGED stop_
          /\ flags \subseteq flags' /\ close_ \subseteq close_'
          /\ panicked' \in {panicked} \union Panics
      BY <2>5 DEF Leaves, Returns, Posts, Submit, NoSubmit, Closes
    <3>2. op.o \in stop_ => \/ op.o \in close_' \/ panicked' \in Panics
                            \/ \E p \in flags : p.o = op.o
      BY <2>5 DEF Leaves, Heard
    <3>. QED
      BY <1>a, <3>1, <3>2 DEF HeardInv, NoPanic, Panics
  <2>6. ASSUME NEW s \in Streams, GoesOn(s)
        PROVE  HeardInv'
    <3>1. ctx.op.o = s /\ ctx'.op.o = s
      BY <2>6, ContextMoves, EnteredFacts, OpFacts
    <3>2. UNCHANGED <<flags, stop_, close_, panicked>>
      BY <2>6 DEF GoesOn, NoSubmit
    <3>. QED
      BY <1>p, <1>q, <3>1, <3>2
  <2>. QED
    BY <1>1, <2>1, <2>2, <2>3, <2>4, <2>5, <2>6 DEF ObjectKind
<1>2. CASE (Onward \/ ErrorReturn \/ RunClose) /\ FrameQuiet
  <2>1. ctx'.op.o = ctx.op.o \/ ctx.op.o = NoObject
    BY <1>2, <1>n, ContextMoves
       DEF Onward, CqAdvance, RunMux, SwapLocal, RunClose, DoneLocal,
           OnTimer, TaskReturn, AtLoop, Returns
  <2>. QED
    BY <1>p, <1>q, <1>2, <2>1 DEF FrameQuiet
<1>3. CASE SkipCqe
    BY <1>p, <1>q, <1>3 DEF SkipCqe, TakeCqe
<1>4. CASE ReadEventfd
    BY <1>q, <1>4 DEF ReadEventfd, TakeCqe, AtLoop, Running, NoPanic
<1>5. ASSUME NEW id, KComplete(id) \/ KCancel(id)
      PROVE  HeardInv'
    BY <1>p, <1>q, <1>5 DEF KComplete, KCancel, closeVars
<1>6. CASE UNCHANGED vars
    BY <1>p, <1>q, <1>6 DEF vars, reactorVars, closeVars
<1>. QED
    BY <1>1, <1>2, <1>3, <1>4, <1>5, <1>6, StepKinds

-----------------------------------------------------------------------------
(* The callbacks.                                                           *)

LEMMA CallStep == ASSUME BaseInv, [Next]_vars
                  PROVE  CallInv'
<1>a. /\ CallInv /\ BornInv
      /\ flags \subseteq Ops /\ flags \subseteq posted /\ posted \subseteq Ids
      /\ asked \in [Streams -> {"no", "ok", "failed"}]
      /\ life \in [Objects -> {"new", "live", "deleted", "unused"}]
    BY KernelTypes DEF BaseInv, TypeOK, ReactorType
<1>q. ASSUME ctx'.op = ctx.op, UNCHANGED <<life, posted, asked>>,
             flags' \subseteq flags
      PROVE  CallInv'
    BY <1>a, <1>q DEF CallInv
<1>i. ASSUME ctx' \in {Idle, Task}, UNCHANGED <<posted, asked>>
      PROVE  CallInv'
  <2>1. ctx'.op \notin Entered /\ \A s \in Streams : ctx'.op.o # s
    BY <1>i, ContextFacts, Disjoint
  <2>. QED
    BY <1>a, <1>i, <2>1 DEF CallInv
<1>1. CASE ObjectKind
  <2>1. ASSUME NEW o \in Objects, Starts(o)
        PROVE  CallInv'
    <3>1. /\ life[o] = "new" /\ life' = [life EXCEPT ![o] = "live"]
          /\ UNCHANGED asked
          /\ \A op \in flags' : op \in flags \/ (op.o = o /\ o \notin Streams)
          /\ \A op \in posted' : op \in posted \/ (op.o = o /\ o \notin Streams)
      BY <2>1 DEF Starts, Submit, NoSubmit, idVars
    <3>2. ctx'.op = ctx.op
      BY <2>1, ContextMoves DEF Starts
    <3>3. ctx.op \in Entered => /\ ctx.op.o # o /\ ctx.op.o \in Objects
                                /\ OpOf(ctx.op).o # o
      BY <1>a, <3>1, EnteredFacts DEF CallInv
    <3>4. ctx.op \in Entered =>
             /\ life'[ctx.op.o] = "live"
             /\ ctx.op.ev # "write" => OpOf(ctx.op) \notin flags'
      BY <1>a, <3>1, <3>3 DEF CallInv
    <3>5. \A s \in Streams : /\ Read(s) \in posted' => Read(s) \in posted
                             /\ Write(s) \in posted' => Write(s) \in posted
      BY <3>1, OpFacts
    <3>. QED
      BY <1>a, <3>1, <3>2, <3>4, <3>5 DEF CallInv
  <2>2. ASSUME NEW o \in Objects, Stops(o)
        PROVE  CallInv'
    BY <1>q, <2>2 DEF Stops
  <2>3. ASSUME NEW s \in Streams, ReadsFirst(s)
        PROVE  CallInv'
    <3>1. /\ \/ /\ flags' \subseteq flags \union {Read(s)}
                /\ posted' \subseteq posted \union {Read(s)}
                /\ asked' = [asked EXCEPT ![s] = "ok"]
             \/ /\ UNCHANGED <<flags, posted>>
                /\ asked' = [asked EXCEPT ![s] = "failed"]
          /\ asked[s] = "no" /\ UNCHANGED life
      BY <2>3 DEF ReadsFirst, Posts, Submit, NoSubmit, idVars
    <3>2. ctx'.op = ctx.op
      BY <2>3, ContextMoves DEF ReadsFirst
    <3>3. /\ ctx.op.o # s /\ Read(s) \notin posted /\ Write(s) \notin posted
          /\ ctx.op \in Entered => OpOf(ctx.op) # Read(s)
      BY <1>a, <3>1, EnteredFacts, OpFacts DEF CallInv
    <3>4. \A r \in Streams : /\ r # s => Read(r) # Read(s)
                             /\ Write(r) # Read(s)
      BY OpFacts
    <3>5. ctx.op \in Entered =>
             /\ life'[ctx.op.o] = "live"
             /\ ctx.op.ev # "write" => OpOf(ctx.op) \notin flags'
      BY <1>a, <3>1, <3>3 DEF CallInv
    <3>6. \A r \in Streams : Read(r) \in posted' \/ Write(r) \in posted'
                                \/ ctx.op.o = r => asked'[r] = "ok"
      BY <1>a, <3>1, <3>3, <3>4 DEF CallInv
    <3>. QED
      BY <3>2, <3>5, <3>6 DEF CallInv
  <2>4. ASSUME NEW s \in Streams, Writes(s)
        PROVE  CallInv'
    <3>1. /\ flags' \subseteq flags \union {Write(s)}
          /\ posted' \subseteq posted \union {Write(s)}
          /\ asked[s] = "ok"
          /\ UNCHANGED <<ctx, life, asked>>
      BY <2>4 DEF Writes, Posts, Submit, NoSubmit, idVars
    <3>2. ctx.op \in Entered /\ ctx.op.ev # "write" => OpOf(ctx.op) # Write(s)
      BY OpFacts DEF OpOf, Op
    <3>3. \A r \in Streams : /\ r # s => Write(r) # Write(s)
                             /\ Read(r) # Write(s)
      BY OpFacts
    <3>. QED
      BY <1>a, <3>1, <3>2, <3>3 DEF CallInv
  <2>5. ASSUME NEW op \in Ops, Enters(op)
        PROVE  CallInv'
    <3>1. /\ cq # <<>> /\ Head(cq) = op /\ op.o \in registered
          /\ flags' = flags \ {op} /\ UNCHANGED <<life, asked, posted>>
      BY <2>5 DEF Enters, Dispatch, TakeCqe, idVars
    <3>2. ctx'.op \in Entered /\ OpOf(ctx'.op) = op /\ ctx'.op.o = op.o
      BY <2>5, EnteredFacts, ContextFacts DEF Enters, Enter
    <3>3. life[op.o] = "live"
      BY <1>a, <3>1 DEF BornInv
    <3>4. op.o \in Streams => asked[op.o] = "ok"
      BY <1>a, <3>1, CqHead, OpFacts DEF CallInv
    <3>. QED
      BY <1>a, <3>1, <3>2, <3>3, <3>4 DEF CallInv
  <2>6. ASSUME NEW op \in Ops, Leaves(op)
        PROVE  CallInv'
    <3>1. /\ ctx.op = op /\ ctx' = Idle /\ UNCHANGED asked
          /\ posted' \subseteq posted \union {op}
      BY <2>6 DEF Leaves, Returns, Posts, Submit, NoSubmit, idVars
    <3>2. ctx'.op \notin Entered /\ \A s \in Streams : ctx'.op.o # s
      BY <3>1, ContextFacts, Disjoint
    <3>3. op.o \in Streams => asked[op.o] = "ok"
      BY <1>a, <3>1 DEF CallInv
    <3>. QED
      BY <1>a, <3>1, <3>2, <3>3, OpFacts DEF CallInv
  <2>7. ASSUME NEW s \in Streams, GoesOn(s)
        PROVE  CallInv'
    <3>1. /\ ctx.op \in {Alloc(s), ReadV(s)}
          /\ ctx'.op \in {ReadV(s), Read(s)}
      BY <2>7, ContextMoves
    <3>2. /\ ctx.op \in Entered /\ ctx.op.o = s /\ ctx.op.ev # "write"
          /\ OpOf(ctx.op) = Read(s)
          /\ ctx'.op \in Entered /\ ctx'.op.o = s /\ OpOf(ctx'.op) = Read(s)
      BY <3>1, EnteredFacts, OpFacts
    <3>3. UNCHANGED <<life, flags, posted, asked>>
      BY <2>7 DEF GoesOn, NoSubmit, idVars
    <3>. QED
      BY <1>a, <3>2, <3>3 DEF CallInv
  <2>. QED
    BY <1>1, <2>1, <2>2, <2>3, <2>4, <2>5, <2>6, <2>7 DEF ObjectKind
<1>2. CASE Onward /\ FrameQuiet /\ OfLoop
    BY <1>i, <1>q, <1>2
       DEF Onward, FrameQuiet, OfLoop, streamVars, CqAdvance, RunMux,
           SwapLocal, DoneLocal, OnTimer, TaskReturn, idVars
<1>3. CASE ErrorReturn /\ FrameQuiet /\ OfLoop
    BY <1>q, <1>3, ContextMoves
       DEF ErrorReturn, FrameQuiet, OfLoop, streamVars, idVars
<1>4. CASE (SkipCqe \/ ReadEventfd) /\ OfLoop
    BY <1>q, <1>4 DEF SkipCqe, ReadEventfd, TakeCqe, OfLoop, streamVars, idVars
<1>5. CASE RunClose /\ FrameQuiet /\ OfLoop
    BY <1>i, <1>5 DEF RunClose, FrameQuiet, OfLoop, streamVars, idVars
<1>6. ASSUME NEW id, KComplete(id) \/ KCancel(id), OfLoop
      PROVE  CallInv'
    BY <1>q, <1>6 DEF KComplete, KCancel, OfLoop, streamVars, idVars
<1>7. CASE UNCHANGED vars
    BY <1>q, <1>7 DEF vars, reactorVars, streamVars, idVars
<1>. QED
    BY <1>1, <1>2, <1>3, <1>4, <1>5, <1>6, <1>7, StepKinds

-----------------------------------------------------------------------------
(* The queue of evClose closures.                                           *)

LEMMA EndStep == ASSUME BaseInv, [Next]_vars
                 PROVE  EndInv'
<1>a. /\ EndInv /\ BornInv
      /\ close_ \subseteq stop_ /\ stop_ \subseteq Objects
      /\ pendings1 \in Seq(Objects) /\ taks_nmux_ \in Seq(Objects)
      /\ life \in [Objects -> {"new", "live", "deleted", "unused"}]
    BY DEF BaseInv, TypeOK, ReactorType
<1>b. queue \in Seq(Objects)
    BY <1>a, ConcatProperties DEF queue
<1>q. ASSUME UNCHANGED <<phase, pendings1, taks_nmux_, close_, life>>,
             panicked' \in {panicked} \union Panics
      PROVE  EndInv'
    BY <1>a, <1>q DEF EndInv, queue, NoPanic, Panics
<1>c. ASSUME NEW o \in Objects, Closes(o), life[o] = "live",
             UNCHANGED <<phase, pendings1, life>>
      PROVE  EndInv'
  <2>1. CASE UNCHANGED <<close_, taks_nmux_>> /\ panicked' \in {panicked} \union Panics
    BY <1>c, <1>q, <2>1
  <2>2. CASE /\ o \notin close_ /\ close_' = close_ \union {o}
             /\ taks_nmux_' = Append(taks_nmux_, o) /\ UNCHANGED panicked
    <3>1. queue' = Append(queue, o)
      BY <1>a, <1>c, <2>2, AppendConcat DEF queue
    <3>2. /\ Unique(queue')
          /\ \A p : In(p, queue') <=> In(p, queue) \/ p = o
      BY <1>a, <1>b, <2>2, <3>1, UniqueAppend DEF EndInv
    <3>. QED
      BY <1>a, <1>c, <2>2, <3>2 DEF EndInv, NoPanic
  <2>3. CASE /\ close_' = close_ \union {o}
             /\ UNCHANGED taks_nmux_ /\ panicked' \in Panics
    BY <1>a, <1>c, <2>3 DEF EndInv, queue, NoPanic, Panics
  <2>. QED
    BY <1>c, <2>1, <2>2, <2>3 DEF Closes
<1>1. CASE ObjectKind
  <2>1. ASSUME NEW o \in Objects, Starts(o)
        PROVE  EndInv'
    <3>1. o \notin close_
      BY <1>a, <2>1 DEF Starts, BornInv
    <3>2. /\ life' = [life EXCEPT ![o] = "live"] /\ life[o] = "new"
          /\ UNCHANGED <<phase, pendings1, taks_nmux_, close_, panicked>>
      BY <2>1 DEF Starts, KernelQuiet, frameVars
    <3>. QED
      BY <1>a, <3>1, <3>2 DEF EndInv, queue, NoPanic
  <2>2. ASSUME NEW o \in Objects, Stops(o)
        PROVE  EndInv'
    BY <1>c, <2>2 DEF Stops, frameVars
  <2>3. ASSUME NEW s \in Streams, ReadsFirst(s) \/ Writes(s) \/ GoesOn(s)
        PROVE  EndInv'
    BY <1>q, <2>3 DEF ReadsFirst, Writes, GoesOn, Posts, KernelQuiet, frameVars
  <2>4. ASSUME NEW op \in Ops, Enters(op)
        PROVE  EndInv'
    BY <1>q, <2>4 DEF Enters, Dispatch, TakeCqe
  <2>5. ASSUME NEW op \in Ops, Leaves(op)
        PROVE  EndInv'
    <3>1. life[op.o] = "live" /\ op.o \in Objects
      BY <2>5, OpFacts, EnteredFacts DEF Leaves, Returns, BaseInv, CallInv
    <3>2. UNCHANGED <<phase, pendings1, life>>
      BY <2>5 DEF Leaves, KernelQuiet, frameVars
    <3>. QED
      BY <1>c, <1>q, <2>5, <3>1, <3>2 DEF Leaves, Posts
  <2>. QED
    BY <1>1, <2>1, <2>2, <2>3, <2>4, <2>5 DEF ObjectKind
<1>2. CASE (Onward \/ ErrorReturn) /\ FrameQuiet
  <2>1. CASE SwapLocal
    <3>1. /\ pendings1 = <<>> /\ pendings1' = taks_nmux_ /\ taks_nmux_' = <<>>
          /\ phase' = "local" /\ UNCHANGED <<close_, life, panicked>>
      BY <1>a, <1>2, <2>1 DEF SwapLocal, FrameQuiet, AtLoop, EndInv
    <3>2. queue' = queue
      BY <1>a, <3>1, ConcatEmptySeq DEF queue
    <3>. QED
      BY <1>a, <3>1, <3>2 DEF EndInv, NoPanic
  <2>2. CASE CqAdvance \/ RunMux \/ DoneLocal \/ OnTimer \/ TaskReturn
               \/ ErrorReturn
    <3>1. /\ UNCHANGED <<pendings1, taks_nmux_, close_, life, panicked>>
          /\ phase' # "local" => pendings1 = <<>>
      BY <1>a, <1>2, <2>2
         DEF CqAdvance, RunMux, DoneLocal, OnTimer, TaskReturn, ErrorReturn,
             FrameQuiet, AtLoop, EndInv
    <3>. QED
      BY <1>a, <3>1 DEF EndInv, queue, NoPanic
  <2>. QED
    BY <1>2, <2>1, <2>2 DEF Onward
<1>3. CASE SkipCqe
    BY <1>q, <1>3 DEF SkipCqe, TakeCqe
<1>r. CASE ReadEventfd
  <2>1. /\ UNCHANGED <<phase, pendings1, taks_nmux_, close_, life>>
        /\ NoPanic
    BY <1>r DEF ReadEventfd, TakeCqe, AtLoop, Running, NoPanic
  <2>. QED
    BY <1>a, <2>1 DEF EndInv, queue
<1>4. CASE RunClose /\ FrameQuiet
  <2>1. /\ pendings1 # <<>> /\ pendings1' = Tail(pendings1)
        /\ life' = [life EXCEPT ![Head(pendings1)] = "deleted"]
        /\ phase = "local" /\ UNCHANGED <<phase, taks_nmux_, close_, panicked>>
    BY <1>4 DEF RunClose, FrameQuiet, AtLoop
  <2>2. /\ queue # <<>> /\ Head(queue) = Head(pendings1)
        /\ queue' = Tail(queue)
    BY <2>1, FrontClosed DEF queue
  <2>3. /\ Unique(queue')
        /\ \A p : In(p, queue') <=> In(p, queue) /\ p # Head(pendings1)
    BY <1>a, <1>b, <2>2, UniqueTail DEF EndInv
  <2>. QED
    BY <1>a, <2>1, <2>3 DEF EndInv, NoPanic
<1>5. ASSUME NEW id, KComplete(id) \/ KCancel(id)
      PROVE  EndInv'
    BY <1>q, <1>5 DEF KComplete, KCancel, closeVars, frameVars
<1>6. CASE UNCHANGED vars
    BY <1>q, <1>6 DEF vars, reactorVars, closeVars, frameVars
<1>. QED
    BY <1>1, <1>2, <1>3, <1>r, <1>4, <1>5, <1>6, StepKinds

-----------------------------------------------------------------------------
(* Type correctness.                                                        *)

CloseType ==
    /\ close_ \subseteq stop_ /\ stop_ \subseteq Objects
    /\ registered \subseteq Objects
    /\ taks_nmux_ \in Seq(Objects)
    /\ panicked \in {"no", "handle_eventfd"} \union Panics

KernelType ==
    /\ flags \subseteq posted \intersect Ops
    /\ inflight \in [Ids -> Nat]
    /\ reused \in BOOLEAN
    /\ mistaken \subseteq posted /\ posted \subseteq Ids
    /\ cancel \subseteq {op \in Ops : op.o \in stop_}
    /\ cq \in Seq(Ids)

ContextType == [op : {NoOp, Task.op} \union Entered, late : BOOLEAN,
                errors : Seq(Objects)]

FrameType ==
    /\ handled \in 0 .. CqSize
    /\ pendings1 \in Seq(Objects)
    /\ phase \in {"cqe", "mux", "swap", "local", "timer"}
    /\ ctx \in ContextType

LifeType ==
    /\ life \in [Objects -> {"new", "live", "deleted", "unused"}]
    /\ asked \in [Streams -> {"no", "ok", "failed"}]
    /\ failed \subseteq Acceptors

LEMMA TypeParts ==
    TypeOK => /\ CloseType /\ KernelType /\ FrameType /\ LifeType
              /\ sock_ \subseteq Clients
    BY DEF TypeOK, ReactorType, CloseType, KernelType, FrameType, ContextType,
           LifeType, Panics

LEMMA CloseTypeStep == ASSUME BaseInv, [Next]_vars
                       PROVE  CloseType'
<1>a. CloseType
    BY TypeParts DEF BaseInv
<1>q. ASSUME UNCHANGED <<stop_, close_>>, registered' \subseteq Objects,
             taks_nmux_' \in {taks_nmux_, <<>>},
             panicked' \in {panicked, "handle_eventfd"} \union Panics
      PROVE  CloseType'
    BY <1>a, <1>q, EmptySeq DEF CloseType
<1>o. registered \subseteq Objects
    BY <1>a DEF CloseType
<1>c. ASSUME NEW o \in Objects, Closes(o), o \in stop_' \/ close_' = close_,
             stop_' \in {stop_, stop_ \union {o}}
      PROVE  CloseType'
  <2>1. Append(taks_nmux_, o) \in Seq(Objects)
    BY <1>a, AppendProperties DEF CloseType
  <2>. QED
    BY <1>a, <1>c, <2>1 DEF CloseType, Closes
<1>1. CASE ObjectKind
  <2>1. ASSUME NEW o \in Objects, Starts(o)
        PROVE  CloseType'
    BY <1>o, <1>q, <2>1 DEF Starts
  <2>2. ASSUME NEW o \in Objects, Stops(o)
        PROVE  CloseType'
    BY <1>c, <2>2 DEF Stops
  <2>3. ASSUME NEW s \in Streams, ReadsFirst(s) \/ Writes(s) \/ GoesOn(s)
        PROVE  CloseType'
    BY <1>o, <1>q, <2>3 DEF ReadsFirst, Writes, GoesOn, Posts
  <2>4. ASSUME NEW op \in Ops, Enters(op)
        PROVE  CloseType'
    BY <1>o, <1>q, <2>4 DEF Enters, Dispatch, TakeCqe
  <2>5. ASSUME NEW op \in Ops, Leaves(op)
        PROVE  CloseType'
    BY <1>o, <1>c, <1>q, <2>5, OpFacts DEF Leaves, Posts
  <2>. QED
    BY <1>1, <2>1, <2>2, <2>3, <2>4, <2>5 DEF ObjectKind
<1>2. CASE (Onward \/ ErrorReturn \/ RunClose) /\ FrameQuiet
    BY <1>o, <1>q, <1>2
       DEF Onward, CqAdvance, RunMux, SwapLocal, RunClose, DoneLocal, OnTimer,
           TaskReturn, ErrorReturn, FrameQuiet
<1>3. CASE SkipCqe \/ ReadEventfd
    BY <1>o, <1>q, <1>3 DEF SkipCqe, ReadEventfd, TakeCqe
<1>4. ASSUME NEW id, KComplete(id) \/ KCancel(id)
      PROVE  CloseType'
    BY <1>o, <1>q, <1>4 DEF KComplete, KCancel, closeVars
<1>5. CASE UNCHANGED vars
    BY <1>o, <1>q, <1>5 DEF vars, reactorVars, closeVars
<1>. QED
    BY <1>1, <1>2, <1>3, <1>4, <1>5, StepKinds

LEMMA KernelTypeStep == ASSUME BaseInv, [Next]_vars
                        PROVE  KernelType'
<1>a. KernelType /\ Ops \subseteq Ids
    BY TypeParts, ContextFacts DEF BaseInv
<1>q. ASSUME UNCHANGED <<flags, inflight, idVars, cancel, cq>>,
             stop_ \subseteq stop_'
      PROVE  KernelType'
    BY <1>a, <1>q DEF KernelType, idVars
<1>p. ASSUME NEW op \in Ops, Submit(op) \/ NoSubmit, UNCHANGED <<stop_, cancel, cq>>
      PROVE  KernelType'
    BY <1>a, <1>p DEF KernelType, Submit, NoSubmit, idVars
<1>n. NoSubmit /\ UNCHANGED <<stop_, cancel, cq>> => KernelType'
    BY <1>a DEF KernelType, NoSubmit, idVars
<1>t. ASSUME cq # <<>>, cq' = Tail(cq), flags' \subseteq flags,
             inflight' \in {inflight, [inflight EXCEPT ![Efd] = @ + 1]},
             UNCHANGED <<idVars, cancel, stop_>>
      PROVE  KernelType'
  <2>1. Tail(cq) \in Seq(Ids)
    BY <1>a, <1>t, HeadTailProperties DEF KernelType
  <2>. QED
    BY <1>a, <1>t, <2>1 DEF KernelType, idVars
<1>h. ASSUME NEW id \in Ids, Hands(id), UNCHANGED <<flags, idVars, stop_>>,
             cancel' \subseteq cancel
      PROVE  KernelType'
  <2>1. Append(cq, id) \in Seq(Ids)
    BY <1>a, AppendProperties DEF KernelType
  <2>2. inflight[id] - 1 \in Nat
    BY <1>a, <1>h DEF KernelType, Hands
  <2>. QED
    BY <1>a, <1>h, <2>1, <2>2 DEF KernelType, Hands, idVars
<1>1. CASE ObjectKind
  <2>1. ASSUME NEW o \in Objects, Starts(o)
        PROVE  KernelType'
    BY <1>p, <1>n, <2>1 DEF Starts, KernelQuiet
  <2>2. ASSUME NEW o \in Objects, Stops(o)
        PROVE  KernelType'
    <3>1. /\ cancel' \subseteq {op \in Ops : op.o \in stop_'}
          /\ UNCHANGED <<flags, reused, posted, cq>>
      BY <1>a, <2>2 DEF Stops, KernelType
    <3>2. inflight' \in [Ids -> Nat] /\ mistaken' \subseteq posted
      BY <1>a, <2>2 DEF Stops, Borrows, KernelType
    <3>. QED
      BY <1>a, <3>1, <3>2 DEF KernelType
  <2>3. ASSUME NEW s \in Streams, ReadsFirst(s)
        PROVE  KernelType'
    BY <1>p, <1>n, <2>3, OpFacts DEF ReadsFirst, Posts, KernelQuiet
  <2>4. ASSUME NEW s \in Streams, Writes(s)
        PROVE  KernelType'
    BY <1>p, <1>n, <2>4, OpFacts DEF Writes, Posts, KernelQuiet
  <2>5. ASSUME NEW op \in Ops, Enters(op)
        PROVE  KernelType'
    BY <1>t, <2>5 DEF Enters, Dispatch, TakeCqe
  <2>6. ASSUME NEW op \in Ops, Leaves(op)
        PROVE  KernelType'
    BY <1>p, <1>n, <2>6 DEF Leaves, Posts, KernelQuiet
  <2>7. ASSUME NEW s \in Streams, GoesOn(s)
        PROVE  KernelType'
    BY <1>n, <2>7 DEF GoesOn, KernelQuiet
  <2>. QED
    BY <1>1, <2>1, <2>2, <2>3, <2>4, <2>5, <2>6, <2>7 DEF ObjectKind
<1>2. CASE (Onward \/ ErrorReturn \/ RunClose) /\ FrameQuiet
    BY <1>q, <1>2
       DEF Onward, CqAdvance, RunMux, SwapLocal, RunClose, DoneLocal, OnTimer,
           TaskReturn, ErrorReturn, FrameQuiet
<1>3. CASE SkipCqe \/ ReadEventfd
    BY <1>t, <1>3 DEF SkipCqe, ReadEventfd, TakeCqe
<1>4. ASSUME NEW id \in Ids, KComplete(id)
      PROVE  KernelType'
    BY <1>h, <1>4 DEF KComplete, Hands
<1>5. ASSUME NEW op \in Ops, KCancel(op)
      PROVE  KernelType'
  <2>1. CASE inflight[op] > 0
    BY <1>a, <1>h, <1>5, <2>1 DEF KCancel, Hands
  <2>2. CASE UNCHANGED <<inflight, cq>>
    BY <1>a, <1>5, <2>2 DEF KCancel, KernelType, idVars
  <2>. QED
    BY <1>5, <2>1, <2>2 DEF KCancel
<1>6. CASE UNCHANGED vars
    BY <1>q, <1>6 DEF vars, reactorVars
<1>. QED
    BY <1>1, <1>2, <1>3, <1>4, <1>5, <1>6, StepKinds

LEMMA ContextTypes ==
    /\ Idle \in ContextType /\ Task \in ContextType
    /\ \A e \in Entered, b \in BOOLEAN : Callback(e, b) \in ContextType
<1>1. <<>> \in Seq(Objects)
    BY EmptySeq
<1>. QED
    BY <1>1 DEF Idle, Task, Callback, ContextType

LEMMA FrameTypeStep == ASSUME BaseInv, [Next]_vars
                       PROVE  FrameType'
<1>a. FrameType /\ CqSize \in Nat \ {0} /\ taks_nmux_ \in Seq(Objects)
    BY TypeParts, ReactorAssumption DEF BaseInv, CloseType
<1>q. UNCHANGED frameVars /\ ctx' \in ContextType => FrameType'
    BY <1>a DEF FrameType, frameVars
<1>s. ctx \in ContextType /\ Idle \in ContextType
    BY <1>a, ContextTypes DEF FrameType
<1>n. ASSUME NEW o \in Objects, Nests(o)
      PROVE  ctx' \in ContextType
  <2>1. Append(ctx.errors, o) \in Seq(Objects)
    BY <1>s, AppendProperties DEF ContextType
  <2>. QED
    BY <1>n, <1>s, <2>1 DEF Nests, ContextType
<1>t. ASSUME handled < CqSize, handled' = handled + 1,
             UNCHANGED <<pendings1, phase>>, ctx' \in ContextType
      PROVE  FrameType'
    BY <1>a, <1>t DEF FrameType
<1>1. CASE ObjectKind
  <2>1. ASSUME NEW op \in Ops, Enters(op)
        PROVE  FrameType'
    <3>1. (op.o \in stop_) \in BOOLEAN
      OBVIOUS
    <3>2. ctx' \in ContextType
      <4>1. PICK e \in Entered : Enter(e)
        BY <2>1 DEF Enters
      <4>2. (e.o \in stop_) \in BOOLEAN
        OBVIOUS
      <4>. QED
        BY <4>1, <4>2, ContextTypes, Zenon DEF Enter
    <3>. QED
      BY <1>t, <2>1, <3>2 DEF Enters, Dispatch, TakeCqe
  <2>2. ASSUME NEW o \in Objects, Starts(o)
        PROVE  FrameType'
    BY <1>q, <1>s, <1>n, <2>2 DEF Starts, KernelQuiet
  <2>3. ASSUME NEW s \in Streams, ReadsFirst(s)
        PROVE  FrameType'
    BY <1>q, <1>s, <1>n, <2>3, Disjoint DEF ReadsFirst, KernelQuiet
  <2>4. ASSUME NEW s \in Streams, GoesOn(s)
        PROVE  FrameType'
    <3>1. /\ ctx' \in {[ctx EXCEPT !.op = ReadV(s)], [ctx EXCEPT !.op = Read(s)]}
          /\ UNCHANGED frameVars
      BY <2>4 DEF GoesOn, KernelQuiet
    <3>2. ReadV(s) \in Entered /\ Read(s) \in Entered
      BY EnteredFacts, OpFacts
    <3>3. ctx' \in ContextType
      BY <1>s, <3>1, <3>2 DEF ContextType
    <3>. QED
      BY <1>q, <3>1, <3>3
  <2>. QED
    BY <1>1, <1>q, <1>s, <2>1, <2>2, <2>3, <2>4
       DEF ObjectKind, Stops, Writes, Leaves, KernelQuiet
<1>2. CASE Onward \/ RunClose
  <2>0. Task \in ContextType
    BY ContextTypes
  <2>1. CASE CqAdvance
    BY <1>a, <2>1 DEF CqAdvance, FrameType
  <2>2. CASE RunMux \/ OnTimer
    BY <1>a, <1>s, <2>0, <2>2 DEF RunMux, OnTimer, FrameType
  <2>3. CASE SwapLocal
    BY <1>a, <2>3 DEF SwapLocal, FrameType
  <2>4. CASE RunClose
    <3>1. /\ Tail(pendings1) \in Seq(Objects)
          /\ pendings1' = Tail(pendings1) /\ ctx' = Task
          /\ UNCHANGED <<handled, phase>>
      BY <1>a, <2>4, HeadTailProperties DEF RunClose, FrameType
    <3>. QED
      BY <1>a, <2>0, <3>1 DEF FrameType
  <2>5. CASE DoneLocal \/ TaskReturn
    BY <1>a, <1>s, <2>5 DEF DoneLocal, TaskReturn, FrameType
  <2>. QED
    BY <1>2, <2>1, <2>2, <2>3, <2>4, <2>5 DEF Onward
<1>3. CASE ErrorReturn
  <2>1. /\ ctx.errors \in Seq(Objects) /\ ctx.errors # <<>>
        /\ ctx' = [ctx EXCEPT !.errors = SubSeq(@, 1, Len(@) - 1)]
        /\ UNCHANGED frameVars
    BY <1>s, <1>3 DEF ErrorReturn, ContextType, frameVars
  <2>2. SubSeq(ctx.errors, 1, Len(ctx.errors) - 1) \in Seq(Objects)
    <3>1. <<>> \in Seq(Objects)
      BY EmptySeq
    <3>. QED
      BY <2>1, <3>1, ConcatPop
  <2>3. ctx' \in ContextType
    BY <1>s, <2>1, <2>2 DEF ContextType
  <2>. QED
    BY <1>q, <2>1, <2>3
<1>4. CASE SkipCqe \/ ReadEventfd
    BY <1>s, <1>t, <1>4 DEF SkipCqe, ReadEventfd, TakeCqe
<1>5. ASSUME NEW id, KComplete(id) \/ KCancel(id)
      PROVE  FrameType'
    BY <1>q, <1>s, <1>5 DEF KComplete, KCancel
<1>6. CASE UNCHANGED vars
    BY <1>q, <1>s, <1>6 DEF vars, reactorVars
<1>. QED
    BY <1>1, <1>2, <1>3, <1>4, <1>5, <1>6, StepKinds

LEMMA LifeTypeStep == ASSUME BaseInv, [Next]_vars
                      PROVE  LifeType'
<1>a. LifeType
    BY TypeParts DEF BaseInv
<1>q. UNCHANGED <<life, asked, failed>> => LifeType'
    BY <1>a DEF LifeType
<1>1. CASE ObjectKind
  <2>1. ASSUME NEW o \in Objects, Starts(o)
        PROVE  LifeType'
    BY <1>a, <2>1 DEF Starts, LifeType
  <2>2. ASSUME NEW s \in Streams, ReadsFirst(s)
        PROVE  LifeType'
    BY <1>a, <2>2 DEF ReadsFirst, LifeType
  <2>. QED
    BY <1>1, <1>q, <2>1, <2>2
       DEF ObjectKind, Stops, Writes, GoesOn, Enters, Dispatch, TakeCqe, Leaves
<1>2. CASE (Onward \/ ErrorReturn) /\ OfLoop
    BY <1>q, <1>2
       DEF Onward, CqAdvance, RunMux, SwapLocal, DoneLocal, OnTimer,
           TaskReturn, ErrorReturn, OfLoop, streamVars, acceptorVars
<1>3. CASE RunClose /\ OfLoop
    BY <1>a, <1>3 DEF RunClose, OfLoop, streamVars, acceptorVars, LifeType
<1>4. CASE (SkipCqe \/ ReadEventfd) /\ OfLoop
    BY <1>q, <1>4
       DEF SkipCqe, ReadEventfd, TakeCqe, OfLoop, streamVars, acceptorVars
<1>5. ASSUME NEW id, KComplete(id) \/ KCancel(id), OfLoop
      PROVE  LifeType'
    BY <1>q, <1>5 DEF KComplete, KCancel, OfLoop, streamVars, acceptorVars
<1>6. CASE UNCHANGED vars
    BY <1>q, <1>6 DEF vars, reactorVars, streamVars, acceptorVars
<1>. QED
    BY <1>1, <1>2, <1>3, <1>4, <1>5, <1>6, StepKinds

(* Which clients hold their socket.                                         *)
LEMMA SockStep == ASSUME BaseInv, [Next]_vars
                  PROVE  sock_' \subseteq Clients
<1>1. sock_ \subseteq Clients
    BY TypeParts DEF BaseInv
<1>2. ASSUME NEW c \in Clients, ClientCall(c) \/ ClientHandler(c)
      PROVE  sock_' \subseteq Clients
    BY <1>1, <1>2
       DEF ClientCall, ClientHandler, ClientStart, ClientStop, RunConnect,
           RunConnectReturn
<1>3. CASE UNCHANGED sock_
    BY <1>1, <1>3
<1>. QED
    BY <1>2, <1>3
       DEF Next, Call, LoopStep, Kernel, Completed, Cancelled, vars, clientVars

LEMMA BaseStep == ASSUME BaseInv, [Next]_vars
                  PROVE  BaseInv'
<1>1. CloseType' /\ KernelType' /\ FrameType' /\ LifeType'
    BY CloseTypeStep, KernelTypeStep, FrameTypeStep, LifeTypeStep
<1>2. {op.o : op \in flags'} \intersect failed' = {}
    BY <1>1, BornStep DEF BornInv, KernelType
<1>3. ReactorType'
    BY <1>1
       DEF ReactorType, CloseType, KernelType, FrameType, ContextType,
           LifeType, Panics
<1>4. TypeOK'
    BY <1>1, <1>2, <1>3, SockStep DEF TypeOK, LifeType
<1>. QED
    BY <1>4, RingStep, BornStep, KeepStep, HeardStep, CallStep, EndStep
       DEF BaseInv

-----------------------------------------------------------------------------
(* The invariant.                                                           *)

LEMMA BaseInit == Init => BaseInv
<1> SUFFICES ASSUME Init PROVE BaseInv
    OBVIOUS
<1>a. PICK scene \in Scenes \union LongScenes, long \in BOOLEAN :
         ReactorInit(scene, long)
  BY DEF Init
<1>b. /\ inflight = [op \in Ids |-> 0] /\ cq = <<>> /\ posted = {Efd}
      /\ flags = {} /\ mistaken = {} /\ stop_ = {} /\ close_ = {}
      /\ registered = {} /\ cancel = {} /\ ctx = Task
      /\ pendings1 = <<>> /\ taks_nmux_ = <<>>
  BY <1>a DEF ReactorInit
<1>1. TypeOK
  <2>1. ReactorType
    <3>1. Task \in ContextType /\ 0 \in 0 .. CqSize /\ {Efd} \subseteq Ids
      BY ReactorAssumption, ContextTypes, ContextFacts
    <3>2. <<>> \in Seq(Objects) /\ <<>> \in Seq(Ids)
      BY EmptySeq
    <3>. QED
      BY <1>a, <1>b, <3>1, <3>2 DEF ReactorInit, ReactorType, ContextType
  <2>. QED
    BY <1>b, <2>1 DEF Init, TypeOK
<1>2. RingInv
  <2>1. \A x : ~In(x, cq)
    BY <1>b, InEmpty
  <2>2. \A x : Single(x, cq)
    BY <1>b, EmptySeq DEF Single
  <2>3. \A id \in Ids : inflight[id] = 0
    BY <1>b
  <2>. QED
    BY <1>b, <2>1, <2>2, <2>3, ContextFacts DEF RingInv, Comes
<1>3. BornInv /\ KeepInv /\ HeardInv
  BY <1>b, ContextFacts DEF Init, BornInv, KeepInv, HeardInv
<1>4. CallInv
  <2>1. \A s \in Streams : Read(s) # Efd /\ Write(s) # Efd /\ s # NoObject
    BY OpFacts, ContextFacts, Disjoint
  <2>. QED
    BY <1>b, <2>1, ContextFacts DEF CallInv
<1>5. EndInv
  <2>1. queue = <<>>
    BY <1>b, ConcatEmptySeq DEF queue
  <2>. QED
    BY <1>b, <2>1, EmptySeq DEF EndInv, In, Unique
<1>. QED
  BY <1>1, <1>2, <1>3, <1>4, <1>5 DEF BaseInv

(* Whatever users call, and up to the panic() that ends the process if one  *)
(* does, the kernel's operations are flagged (but for those that the        *)
(* completion of a cancellation was mistaken for), objects enter and leave  *)
(* the table in the order of their lives, and evClose is queued once.       *)
THEOREM BaseInvariant == Spec => []BaseInv
<1>1. Init => BaseInv
    BY BaseInit
<1>2. BaseInv /\ [Next]_vars => BaseInv'
    BY BaseStep
<1>. QED
    BY <1>1, <1>2, PTL DEF Spec

(* Every variable keeps its type.                                           *)
THEOREM TypeCorrect == Spec => []TypeOK
<1>1. BaseInv => TypeOK
    BY DEF BaseInv
<1>. QED
    BY <1>1, BaseInvariant, PTL

LEMMA BaseFindsObject == BaseInv /\ NoPanic => CallbacksFindObject
<1> SUFFICES ASSUME BaseInv, NoPanic PROVE CallbacksFindObject
    OBVIOUS
<1>1. \A o \in registered : life[o] = "live"
    BY DEF BaseInv, BornInv
<1>2. DOMAIN queue = 1 .. Len(queue)
  <2>1. queue \in Seq(Objects)
    BY ConcatProperties DEF queue, BaseInv, TypeOK, ReactorType
  <2>. QED
    BY <2>1, LenProperties
<1>3. ASSUME NEW o \in Objects
      PROVE  Cardinality({i \in DOMAIN queue : queue[i] = o}) =
                IF o \in close_ /\ life[o] = "live" THEN 1 ELSE 0
  <2>1. CASE o \in close_ /\ life[o] = "live"
    <3>1. PICK j \in 1 .. Len(queue) : queue[j] = o
      BY <2>1 DEF BaseInv, EndInv, In
    <3>2. {i \in DOMAIN queue : queue[i] = o} = {j}
      BY <1>2, <3>1 DEF BaseInv, EndInv, Unique
    <3>. QED
      BY <2>1, <3>2, FS_Singleton
  <2>2. CASE ~(o \in close_ /\ life[o] = "live")
    <3>1. {i \in DOMAIN queue : queue[i] = o} = {}
      BY <1>2, <2>2 DEF BaseInv, EndInv, In
    <3>. QED
      BY <2>2, <3>1, FS_EmptySet
  <2>. QED
    BY <2>1, <2>2
<1>. QED
    BY <1>1, <1>3 DEF CallbacksFindObject, queue

(* No callback and no evClose comes to an object that was deleted, and      *)
(* evClose comes once, until a panic() of an object ends the process; under *)
(* whatever id the completions of cancellations come.                       *)
THEOREM DeletedNotCalled == Spec => [](NoPanic => CallbacksFindObject)
<1>1. BaseInv => (NoPanic => CallbacksFindObject)
    BY BaseFindsObject
<1>. QED
    BY <1>1, BaseInvariant, PTL

(* What the proofs call Comes is what the properties call Pending.          *)
LEMMA PendingComes == BaseInv => \A id : Pending(id) <=> Comes(id)
<1>1. BaseInv => DOMAIN cq = 1 .. Len(cq)
    BY KernelTypes, LenProperties
<1>. QED
    BY <1>1 DEF Pending, Comes, In

LEMMA BaseHears == BaseInv /\ NoPanic => StopIsHeard
<1> SUFFICES ASSUME BaseInv, NoPanic, NEW o \in stop_ \ close_, ctx.op.o # o
             PROVE  \E op \in Ops : op.o = o /\ Pending(op)
    BY DEF StopIsHeard
<1>1. PICK op \in flags : op.o = o
    BY DEF BaseInv, HeardInv
<1>2. op \in Ops /\ Comes(op)
    BY <1>1, KernelTypes DEF BaseInv, KeepInv
<1>. QED
    BY <1>1, <1>2, PendingComes

(* No stop() is forgotten until a panic() of an object ends the process: of *)
(* a stopped object that is not closed yet the kernel, the ring or the loop *)
(* still has an operation to end.                                           *)
THEOREM NoStopForgotten == Spec => [](NoPanic => StopIsHeard)
<1>1. BaseInv => (NoPanic => StopIsHeard)
    BY BaseHears
<1>. QED
    BY <1>1, BaseInvariant, PTL

-----------------------------------------------------------------------------
(* The close protocol.                                                      *)

(* What the promise sees of an object, of the objects, and of the context.  *)
StatusOf(o) ==
    IF life[o] # "live" THEN IF life[o] = "deleted" THEN "closed" ELSE "new"
    ELSE IF o \in close_ THEN "closing" ELSE "open"

status == [o \in Objects |-> StatusOf(o)]

completing == IF ctx.op.o = NoObject \/ ctx.op.ev = "readv" THEN <<>>
              ELSE <<ctx.op.o>>

running == completing \o ctx.errors

LEMMA OneCallback ==
    /\ <<>> \o <<>> = <<>>
    /\ \A o \in Objects :
          /\ <<o>> \o <<>> = <<o>> /\ <<o>> \in Seq(Objects)
          /\ Append(<<>>, o) = <<o>>
          /\ <<o>> # <<>> /\ <<o>>[Len(<<o>>)] = o
          /\ SubSeq(<<o>>, 1, Len(<<o>>) - 1) = <<>>
<1>1. <<>> \in Seq(Objects) /\ \A o \in Objects : <<o>> \in Seq(Objects)
    BY EmptySeq
<1>2. /\ <<>> \o <<>> = <<>>
      /\ \A o \in Objects : <<o>> \o <<>> = <<o>>
    BY <1>1, ConcatEmptySeq
<1>3. \A o : /\ Append(<<>>, o) = <<o>> /\ <<o>> # <<>>
             /\ Len(<<o>>) = 1 /\ <<o>>[1] = o /\ SubSeq(<<o>>, 1, 0) = <<>>
    OBVIOUS
<1>. QED
    BY <1>1, <1>2, <1>3

LEMMA ContextIs ==
    BaseInv =>
        /\ completing \in Seq(Objects) /\ ctx.errors \in Seq(Objects)
        /\ ctx.op \in {NoOp, Task.op} \union Entered
<1> SUFFICES ASSUME BaseInv PROVE
        /\ completing \in Seq(Objects) /\ ctx.errors \in Seq(Objects)
        /\ ctx.op \in {NoOp, Task.op} \union Entered
    OBVIOUS
<1>1. /\ ctx.errors \in Seq(Objects)
      /\ ctx.op \in {NoOp, Task.op} \union Entered
    BY TypeParts DEF BaseInv, FrameType, ContextType
<1>2. ctx.op.o = NoObject \/ ctx.op.o \in Objects
    BY <1>1, ContextFacts, EnteredFacts DEF Idle, Callback
<1>3. <<>> \in Seq(Objects)
    BY EmptySeq
<1>. QED
    BY <1>1, <1>2, <1>3, OneCallback DEF completing

(* What the steps of contexts do to the stack of callbacks.                 *)
LEMMA RunningNests ==
    ASSUME BaseInv, NEW o \in Objects, Nests(o)
    PROVE  running' = Append(running, o)
<1>1. ctx'.op = ctx.op /\ ctx'.errors = Append(ctx.errors, o)
    BY ContextMoves, TypeParts DEF Nests, BaseInv, FrameType, ContextType
<1>2. completing' = completing
    BY <1>1 DEF completing
<1>. QED
    BY <1>1, <1>2, ContextIs, AppendConcat DEF running

LEMMA RunningErrors ==
    ASSUME BaseInv, ErrorReturn
    PROVE  /\ running # <<>>
           /\ running[Len(running)] \in Objects
           /\ running' = SubSeq(running, 1, Len(running) - 1)
<1>1. /\ ctx'.op = ctx.op /\ ctx.errors # <<>>
      /\ ctx'.errors = SubSeq(ctx.errors, 1, Len(ctx.errors) - 1)
    BY ContextMoves, TypeParts DEF ErrorReturn, BaseInv, FrameType, ContextType
<1>2. completing' = completing
    BY <1>1 DEF completing
<1>3. completing \in Seq(Objects) /\ ctx.errors \in Seq(Objects)
    BY ContextIs
<1>4. running = completing \o ctx.errors
    BY DEF running
<1>5. running' = completing \o SubSeq(ctx.errors, 1, Len(ctx.errors) - 1)
    BY <1>1, <1>2 DEF running
<1>. QED
    <2>. DEFINE a == completing
                b == ctx.errors
    <2>1. a \in Seq(Objects) /\ b \in Seq(Objects) /\ b # <<>>
        BY <1>1, <1>3
    <2>2. running = a \o b
        BY <1>4
    <2>3. running' = a \o SubSeq(b, 1, Len(b) - 1)
        BY <1>5
    <2>. HIDE DEF a, b
    <2>4. /\ a \o b # <<>>
          /\ (a \o b)[Len(a \o b)] = b[Len(b)]
          /\ b[Len(b)] \in Objects
          /\ SubSeq(a \o b, 1, Len(a \o b) - 1) =
                a \o SubSeq(b, 1, Len(b) - 1)
        BY <2>1, ConcatPop
    <2>. QED
        BY <2>2, <2>3, <2>4

LEMMA RunningIs ==
    /\ ctx \in {Idle, Task} => running = <<>>
    /\ ctx.errors = <<>> /\ ctx.op.ev = "readv" => running = <<>>
    /\ \A o \in Objects :
          /\ ctx.errors = <<>> /\ ctx.op.o = o /\ ctx.op.ev # "readv"
          => running = <<o>>
    BY ContextFacts, OneCallback DEF running, completing

(* A step that moves at most one object.                                    *)
LEMMA StatusMoves ==
    /\ UNCHANGED <<life, close_>> => status' = status
    /\ \A o \in Objects :
          (\A p \in Objects : p # o => StatusOf(p)' = StatusOf(p)) =>
              status' = [status EXCEPT ![o] = StatusOf(o)']
<1>1. UNCHANGED <<life, close_>> => status' = status
    BY DEF status, StatusOf
<1>2. ASSUME NEW o \in Objects,
             \A p \in Objects : p # o => StatusOf(p)' = StatusOf(p)
      PROVE  status' = [status EXCEPT ![o] = StatusOf(o)']
    BY <1>2 DEF status
<1>. QED
    BY <1>1, <1>2

LEMMA PromiseStart ==
    ASSUME BaseInv, NEW o \in Objects, life[o] = "new",
           life' = [life EXCEPT ![o] = "live"],
           UNCHANGED <<stop_, close_>>, UNCHANGED ctx \/ Nests(o)
    PROVE  Promise!Start(o)
<1>1. life \in [Objects -> {"new", "live", "deleted", "unused"}]
    BY DEF BaseInv, TypeOK, ReactorType
<1>2. o \notin close_
    BY DEF BaseInv, BornInv, TypeOK, ReactorType
<1>3. status[o] = "new" /\ StatusOf(o)' = "open"
    BY <1>1, <1>2 DEF status, StatusOf
<1>4. status' = [status EXCEPT ![o] = "open"]
  <2>1. \A p \in Objects : p # o => StatusOf(p)' = StatusOf(p)
    BY <1>1 DEF StatusOf
  <2>. QED
    BY <1>3, <2>1, StatusMoves
<1>5. running' = running \/ running' = Append(running, o)
    BY RunningNests DEF running, completing
<1>. QED
    BY <1>3, <1>4, <1>5
       DEF Promise!Start, status, StatusOf, running, completing

LEMMA PromiseStop ==
    ASSUME BaseInv, NEW o \in Objects, life[o] = "live", o \notin stop_,
           stop_' = stop_ \union {o}, close_' \in {close_, close_ \union {o}},
           UNCHANGED <<life, ctx>>
    PROVE  Promise!Stop(o)
<1>1. o \notin close_
    BY DEF BaseInv, TypeOK, ReactorType
<1>2. status[o] = "open"
    BY <1>1 DEF status, StatusOf
<1>3. \/ status' = [status EXCEPT ![o] = "closing"]
      \/ UNCHANGED status
  <2>1. CASE close_' = close_
    BY <2>1, StatusMoves
  <2>2. CASE close_' = close_ \union {o}
    <3>1. /\ StatusOf(o)' = "closing"
          /\ \A p \in Objects : p # o => StatusOf(p)' = StatusOf(p)
      BY <2>2 DEF StatusOf
    <3>. QED
      BY <3>1, StatusMoves
  <2>. QED
    BY <2>1, <2>2
<1>. QED
    BY <1>2, <1>3 DEF Promise!Stop, status, StatusOf

LEMMA PromiseCallback ==
    ASSUME NEW o \in Objects, life[o] = "live", running' = Append(running, o),
           UNCHANGED <<life, stop_, close_>>
    PROVE  Promise!Callback(o)
<1>1. status[o] \in {"open", "closing"} /\ UNCHANGED status
    BY StatusMoves DEF status, StatusOf
<1>. QED
    BY <1>1 DEF Promise!Callback, status, StatusOf, running, completing

LEMMA PromiseReturn ==
    ASSUME NEW o \in Objects, life[o] = "live" \/ UNCHANGED close_,
           running # <<>>, running[Len(running)] = o,
           running' = SubSeq(running, 1, Len(running) - 1),
           \/ UNCHANGED close_
           \/ o \in stop_ \ close_ /\ close_' = close_ \union {o},
           UNCHANGED <<life, stop_>>
    PROVE  Promise!Return(o)
<1>1. \/ UNCHANGED status
      \/ /\ status[o] = "open"
         /\ o \in stop_
         /\ status' = [status EXCEPT ![o] = "closing"]
  <2>1. CASE UNCHANGED close_
    BY <2>1, StatusMoves
  <2>2. CASE o \in stop_ \ close_ /\ close_' = close_ \union {o} /\ life[o] = "live"
    <3>1. /\ StatusOf(o)' = "closing"
          /\ \A p \in Objects : p # o => StatusOf(p)' = StatusOf(p)
      BY <2>2 DEF StatusOf
    <3>2. status[o] = "open"
      BY <2>2 DEF status, StatusOf
    <3>. QED
      BY <2>2, <3>1, <3>2, StatusMoves
  <2>. QED
    BY <2>1, <2>2
<1>. QED
    BY <1>1 DEF Promise!Return, status, StatusOf, running, completing

LEMMA PromiseClose ==
    ASSUME BaseInv, RunClose, FrameQuiet,
           NEW o \in Objects, o = Head(pendings1)
    PROVE  Promise!Close(o)
<1>1. /\ ctx = Idle /\ ctx' = Task /\ pendings1 # <<>>
      /\ life' = [life EXCEPT ![o] = "deleted"]
      /\ UNCHANGED <<stop_, close_>>
    BY DEF RunClose, AtLoop, FrameQuiet
<1>2. o \in close_ /\ life[o] = "live"
    BY <1>1, FrontClosed
<1>3. life \in [Objects -> {"new", "live", "deleted", "unused"}]
    BY DEF BaseInv, TypeOK, ReactorType
<1>4. running = <<>> /\ running' = <<>>
  <2>1. running = <<>>
    BY <1>1, RunningIs
  <2>2. running' = <<>>
    BY <1>1, ContextFacts, OneCallback DEF running, completing
  <2>. QED
    BY <2>1, <2>2
<1>5. status[o] = "closing" /\ status' = [status EXCEPT ![o] = "closed"]
  <2>1. /\ StatusOf(o)' = "closed"
        /\ \A p \in Objects : p # o => StatusOf(p)' = StatusOf(p)
    BY <1>1, <1>2, <1>3 DEF StatusOf
  <2>2. status[o] = "closing"
    BY <1>2 DEF status, StatusOf
  <2>. QED
    BY <1>2, <2>1, <2>2, StatusMoves
<1>. QED
    BY <1>1, <1>4, <1>5
       DEF Promise!Close, status, StatusOf, running, completing

LEMMA PromiseStep ==
    ASSUME BaseInv, [Next]_vars
    PROVE  [Promise!Next]_(Promise!vars)
<1>q. UNCHANGED <<life, stop_, close_, ctx>> => UNCHANGED Promise!vars
    BY DEF Promise!vars
<1>n. ASSUME NEW o \in Objects,
             \/ Promise!Start(o) \/ Promise!Stop(o) \/ Promise!Callback(o)
             \/ Promise!Return(o) \/ Promise!Close(o)
      PROVE  Promise!Next
    BY <1>n DEF Promise!Next
<1>1. CASE ObjectKind
  <2>1. ASSUME NEW o \in Objects, Starts(o)
        PROVE  Promise!Next
    BY <1>n, <2>1, PromiseStart DEF Starts
  <2>2. ASSUME NEW o \in Objects, Stops(o)
        PROVE  Promise!Next
    BY <1>n, <2>2, PromiseStop DEF Stops, Closes
  <2>3. ASSUME NEW s \in Streams, ReadsFirst(s) \/ Writes(s)
        PROVE  [Promise!Next]_(Promise!vars)
    <3>1. CASE UNCHANGED ctx
      BY <1>q, <2>3, <3>1 DEF ReadsFirst, Writes
    <3>2. CASE ReadsFirst(s) /\ Nests(s)
      BY <1>n, <3>2, RunningNests, PromiseCallback, Disjoint DEF ReadsFirst
    <3>. QED
      BY <2>3, <3>1, <3>2 DEF ReadsFirst, Writes
  <2>4. ASSUME NEW op \in Ops, Enters(op)
        PROVE  Promise!Next
    <3>1. PICK e \in Entered : e.ev # "readv" /\ OpOf(e) = op /\ Enter(e)
      BY <2>4 DEF Enters
    <3>2. /\ ctx = Idle /\ ctx'.op = e /\ ctx'.errors = <<>>
          /\ op.o \in registered /\ UNCHANGED <<life, stop_, close_>>
      BY <2>4, <3>1, ContextFacts DEF Enters, Enter, Dispatch, TakeCqe, AtLoop
    <3>3. e.o \in Objects /\ e.o = op.o /\ e.o # NoObject
      BY <3>1, EnteredFacts, ContextFacts
    <3>4. running = <<>> /\ running' = <<e.o>>
      BY <3>1, <3>2, <3>3, RunningIs, OneCallback DEF running, completing
    <3>5. life[e.o] = "live"
      BY <3>2, <3>3 DEF BaseInv, BornInv
    <3>6. running' = Append(running, e.o)
      BY <3>3, <3>4, OneCallback
    <3>. QED
      BY <1>n, <3>2, <3>3, <3>5, <3>6, PromiseCallback
  <2>5. ASSUME NEW op \in Ops, Leaves(op)
        PROVE  Promise!Next
    <3>1. \/ UNCHANGED close_
          \/ op.o \in stop_ \ close_ /\ close_' = close_ \union {op.o}
      BY <2>5 DEF Leaves, Closes
    <3>2. /\ ctx.op = op /\ ctx.errors = <<>> /\ ctx' = Idle
          /\ UNCHANGED <<life, stop_>>
      BY <2>5 DEF Leaves, Returns
    <3>3. /\ op.o \in Objects /\ op.ev # "readv"
          /\ life[op.o] = "live"
      BY <3>2, OpFacts, EnteredFacts DEF BaseInv, CallInv
    <3>4. running = <<op.o>> /\ running' = <<>>
      <4>1. running = <<op.o>>
        BY <3>2, <3>3, RunningIs
      <4>2. running' = <<>>
        BY <3>2, ContextFacts, OneCallback DEF running, completing
      <4>. QED
        BY <4>1, <4>2
    <3>5. /\ running # <<>> /\ running[Len(running)] = op.o
          /\ running' = SubSeq(running, 1, Len(running) - 1)
      BY <3>3, <3>4, OneCallback
    <3>. QED
      BY <1>n, <3>1, <3>2, <3>3, <3>5, PromiseReturn
  <2>6. ASSUME NEW s \in Streams, GoesOn(s)
        PROVE  Promise!Next
    <3>1. /\ ctx.errors = <<>> /\ ctx'.errors = <<>>
          /\ \/ ctx.op = Alloc(s) /\ ctx'.op = ReadV(s)
             \/ ctx.op = ReadV(s) /\ ctx'.op = Read(s)
          /\ UNCHANGED <<life, stop_, close_>>
      BY <2>6, TypeParts DEF GoesOn, BaseInv, FrameType, ContextType
    <3>2. /\ s \in Objects /\ s # NoObject
          /\ Alloc(s).o = s /\ Alloc(s).ev # "readv"
          /\ Read(s).o = s /\ Read(s).ev # "readv" /\ ReadV(s).ev = "readv"
      BY EnteredFacts, OpFacts, Disjoint, ContextFacts
    <3>3. CASE ctx.op = Alloc(s) /\ ctx'.op = ReadV(s)
      <4>1. running = <<s>> /\ running' = <<>>
        BY <3>1, <3>2, <3>3, RunningIs, OneCallback DEF running, completing
      <4>2. /\ running # <<>> /\ running[Len(running)] = s
            /\ running' = SubSeq(running, 1, Len(running) - 1)
        BY <3>2, <4>1, OneCallback
      <4>. QED
        BY <1>n, <3>1, <3>2, <4>2, PromiseReturn
    <3>4. CASE ctx.op = ReadV(s) /\ ctx'.op = Read(s)
      <4>1. running = <<>> /\ running' = <<s>>
        BY <3>1, <3>2, <3>4, RunningIs, OneCallback DEF running, completing
      <4>2. running' = Append(running, s)
        BY <3>2, <4>1, OneCallback
      <4>3. life[s] = "live"
        BY <3>4, EnteredFacts DEF BaseInv, CallInv
      <4>. QED
        BY <1>n, <3>1, <3>2, <4>2, <4>3, PromiseCallback
    <3>. QED
      BY <3>1, <3>3, <3>4
  <2>. QED
    BY <1>1, <2>1, <2>2, <2>3, <2>4, <2>5, <2>6 DEF ObjectKind
<1>2. CASE Onward /\ FrameQuiet
  <2>1. /\ UNCHANGED <<life, stop_, close_>>
        /\ \/ UNCHANGED ctx
           \/ /\ ctx.op.o = NoObject /\ ctx.errors = <<>>
              /\ ctx'.op.o = NoObject /\ ctx'.errors = <<>>
    BY <1>2, ContextFacts
       DEF Onward, FrameQuiet, CqAdvance, RunMux, SwapLocal, DoneLocal,
           OnTimer, TaskReturn, AtLoop, Returns
  <2>. QED
    BY <1>q, <2>1 DEF Promise!vars
<1>3. CASE ErrorReturn /\ FrameQuiet
  <2>1. UNCHANGED <<life, stop_, close_>>
    BY <1>3 DEF ErrorReturn, FrameQuiet
  <2>. QED
    BY <1>3, <1>n, <2>1, RunningErrors, PromiseReturn
<1>4. CASE SkipCqe \/ ReadEventfd
    BY <1>4, <1>q DEF SkipCqe, ReadEventfd, TakeCqe
<1>5. CASE RunClose /\ FrameQuiet
  <2>1. PICK o \in Objects : o = Head(pendings1)
    BY <1>5, FrontClosed DEF RunClose, BaseInv, TypeOK, ReactorType
  <2>2. Promise!Close(o)
    BY <1>5, <2>1, PromiseClose
  <2>. QED
    BY <2>2, <1>n
<1>6. ASSUME NEW id, KComplete(id) \/ KCancel(id)
      PROVE  [Promise!Next]_(Promise!vars)
    BY <1>6, <1>q DEF KComplete, KCancel, closeVars
<1>7. CASE UNCHANGED vars
    BY <1>7, <1>q DEF vars, reactorVars, closeVars
<1>. QED
    BY <1>1, <1>2, <1>3, <1>4, <1>5, <1>6, <1>7, StepKinds

(* An object is told of a close only after stop(), and evClose comes once,  *)
(* inside no callback and last (README.md:55), whatever its users call and  *)
(* whatever they stop, in callbacks of errors and of buffers too.           *)
THEOREM ObjectsKeepPromise == Spec => CloseSafety
<1>1. Init => Promise!Init
  <2> SUFFICES ASSUME Init PROVE Promise!Init
      OBVIOUS
  <2>1. PICK scene \in Scenes \union LongScenes, long \in BOOLEAN :
           ReactorInit(scene, long)
    BY DEF Init
  <2>2. \A o \in Objects : life[o] # "live" /\ life[o] # "deleted"
    BY <2>1 DEF ReactorInit
  <2>3. stop_ = {} /\ ctx = Task
    BY <2>1 DEF ReactorInit
  <2>4. running = <<>>
    BY <2>3, RunningIs
  <2>. QED
    BY <2>2, <2>3, <2>4 DEF Promise!Init, running, completing
<1>2. BaseInv /\ [Next]_vars => [Promise!Next]_(Promise!vars)
    BY PromiseStep
<1>. QED
    BY <1>1, <1>2, BaseInvariant, PTL DEF Spec, CloseSafety, Promise!SafeSpec
=============================================================================
