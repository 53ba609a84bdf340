--------------------------- MODULE WinObjectsProofs ---------------------------
(***************************************************************************)
(* Proofs about WinObjects, for any number of streams, acceptors and       *)
(* clients, any number of slots, callbacks nested to any depth, and any    *)
(* programs of users; ClosedMeansQuiet needs that they do not write in the *)
(* write callback of a stream stopped before.                              *)
(***************************************************************************)
EXTENDS WinObjects, QueueFacts, FiniteSetTheorems, SequenceTheorems, TLAPS

(* The write callback of a stopped stream does not write again.             *)
UserContract == LateWrites \subseteq {"read"}

-----------------------------------------------------------------------------
(* What is at the port, and what is on the stack.                           *)

Packets == [op : Ops, ok : BOOLEAN]

ErrorOps == [o : Objects, ev : {"error", "start"}, slot : {0}]

Contexts == {Task} \union [op : Ops \union ErrorOps, late : BOOLEAN]

(* q has a packet, or a callback, of op; no two; one that is late.          *)
On(op, q)     == \E i \in 1 .. Len(q) : q[i].op = op
Once(op, q)   == \A i, j \in 1 .. Len(q) : q[i].op = op /\ q[j].op = op => i = j
LateOn(op, q) == \E i \in 1 .. Len(q) : q[i].op = op /\ q[i].late

Busy(op) == op \in inflight \/ On(op, port) \/ On(op, entries)

(* Operations of which no two callbacks are nested.                         *)
Repeats == {op \in Ops : op.ev \in {"read", "accept"}}

-----------------------------------------------------------------------------
(* The inductive invariant.                                                 *)

(* FlagsMatchSystem, for objects that were deleted as well.                 *)
KernelInv ==
    /\ \A op \in Ops : op.o \notin Clients => (op \in flags <=> Busy(op))
    /\ \A op \in Ops :
          /\ op \in inflight => ~On(op, port) /\ ~On(op, entries)
          /\ ~(On(op, port) /\ On(op, entries))
          /\ Once(op, port) /\ Once(op, entries)
    /\ phase # "entries" => entries = <<>>

(* Where an object is in its life; those on the stack are alive.            *)
LifeInv ==
    /\ \A o \in stop_ : life[o] \in {"live", "deleted"}
    /\ \A o \in Objects : life[o] = "deleted" => o \in close_
    /\ \A op \in Ops : Busy(op) => life[op.o] \in {"live", "deleted"}
    /\ \A c \in sock_ : life[c] \in {"live", "deleted"}
    /\ \A x : On(x, stack) /\ x.o \in Objects => life[x.o] = "live"

(* A read or an accept whose callback runs is not posted again before it    *)
(* returns, and a client gives its socket away before its callback.         *)
StackInv ==
    /\ \A op \in Repeats :
          Once(op, stack) /\ (On(op, stack) => op \notin flags)
    /\ \A s \in Streams :
          Read(s) \in flags \/ On(Read(s), stack) => asked[s] = "ok"
    /\ \A op \in Ops :
          op.ev = "accept" /\ (op \in flags \/ On(op, stack)) =>
              op.slot <= tried[op.o]
    /\ \A c \in Clients : On(Connect(c), stack) => c \notin sock_

(* A late callback of a read that may still write has the stream open, but  *)
(* for one whose socket is closed and whose writes fail.                    *)
LateInv ==
    \A s \in Streams : LateOn(Read(s), stack) =>
        /\ s \in stop_
        /\ s \in close_ => s \in shut
        /\ ~On(Write(s), stack)

(* ClosedIsQuiet.                                                           *)
QuietInv ==
    \A op \in Ops :
        op.o \in close_ /\ Busy(op) => op.ev = "read" /\ op.o \in shut

(* What is kept of programs that keep to UserContract only.                 *)
CalmInv == LateInv /\ QuietInv

(* A client whose connect is in flight holds its socket.                    *)
ConnectInv == \A c \in Clients : Busy(Connect(c)) => c \in sock_

queue == pendings1 \o taks_nmux_

(* An evClose is queued once for each closed object, until it deletes it.   *)
QueueInv ==
    /\ phase # "local" => pendings1 = <<>>
    /\ Unique(queue)
    /\ \A o \in Objects : In(o, queue) <=> o \in close_ /\ life[o] = "live"

(* An acceptor that was not stopped has an accept in flight or in its       *)
(* callback, or is in the first step of start(), or told of an error.       *)
Serves(a) ==
    \/ a \in told
    \/ \E op \in AcceptOps(a) : op \in flags \/ On(op, stack)
    \/ tried[a] = 0 /\ On(Op(a, "start"), stack)

ServeInv ==
    \A a \in Acceptors :
        /\ life[a] = "live" /\ a \notin stop_ => Serves(a)
        /\ life[a] = "new" => tried[a] = 0

IndInv ==
    /\ TypeOK /\ stack \in Seq(Contexts)
    /\ KernelInv /\ LifeInv /\ StackInv /\ ConnectInv /\ QueueInv /\ ServeInv

-----------------------------------------------------------------------------
(* Operations and contexts.                                                 *)

LEMMA OpFacts ==
    /\ \A s \in Streams :
          /\ Read(s) \in Ops /\ Read(s).o = s /\ Read(s).ev = "read"
          /\ Write(s) \in Ops /\ Write(s).o = s /\ Write(s).ev = "write"
    /\ \A a \in Acceptors, n \in 1 .. NSlots :
          /\ Accept(a, n) \in Ops /\ Accept(a, n).o = a
          /\ Accept(a, n).ev = "accept" /\ Accept(a, n).slot = n
    /\ \A a \in Acceptors : \A op \in AcceptOps(a) :
          op \in Ops /\ op.o = a /\ op.ev = "accept"
    /\ \A c \in Clients :
          Connect(c) \in Ops /\ Connect(c).o = c /\ Connect(c).ev = "connect"
    /\ \A op \in Ops :
          /\ op.o \in Objects /\ op \notin ErrorOps
          /\ op.o \in Streams => op = Read(op.o) \/ op = Write(op.o)
          /\ op.o \in Acceptors =>
                /\ op.ev = "accept" /\ op \in AcceptOps(op.o)
                /\ op.slot \in 1 .. NSlots
          /\ op.o \in Clients => op = Connect(op.o)
          /\ op.ev = "read" => op.o \in Streams /\ op = Read(op.o)
          /\ op.ev = "accept" => op.o \in Acceptors
<1>1. /\ Streams \intersect Acceptors = {} /\ Streams \intersect Clients = {}
      /\ Acceptors \intersect Clients = {}
    BY WinReactorAssumption
<1>2. \A a \in Acceptors, n \in 1 .. NSlots :
          /\ Accept(a, n) \in Ops /\ Accept(a, n).o = a
          /\ Accept(a, n).ev = "accept" /\ Accept(a, n).slot = n
    BY DEF Ops, Accept
<1>3. \A a \in Acceptors : \A op \in AcceptOps(a) :
          op \in Ops /\ op.o = a /\ op.ev = "accept"
    BY <1>2 DEF AcceptOps
<1>4. ASSUME NEW op \in Ops
      PROVE  /\ op.o \in Objects /\ op \notin ErrorOps
             /\ op.o \in Streams => op = Read(op.o) \/ op = Write(op.o)
             /\ op.o \in Acceptors =>
                   /\ op.ev = "accept" /\ op \in AcceptOps(op.o)
                   /\ op.slot \in 1 .. NSlots
             /\ op.o \in Clients => op = Connect(op.o)
             /\ op.ev = "read" => op.o \in Streams /\ op = Read(op.o)
             /\ op.ev = "accept" => op.o \in Acceptors
  <2>1. CASE op \in [o : Streams, ev : {"read", "write"}, slot : {0}]
    BY <1>1, <2>1 DEF Objects, ErrorOps, Read, Write, Op
  <2>2. CASE op \in [o : Acceptors, ev : {"accept"}, slot : 1 .. NSlots]
    BY <1>1, <2>2 DEF Objects, ErrorOps, AcceptOps, Accept
  <2>3. CASE op \in [o : Clients, ev : {"connect"}, slot : {0}]
    BY <1>1, <2>3 DEF Objects, ErrorOps, Connect, Op
  <2>. QED
    BY <2>1, <2>2, <2>3 DEF Ops
<1>5. /\ \A s \in Streams :
            /\ Read(s) \in Ops /\ Read(s).o = s /\ Read(s).ev = "read"
            /\ Write(s) \in Ops /\ Write(s).o = s /\ Write(s).ev = "write"
      /\ \A c \in Clients :
            Connect(c) \in Ops /\ Connect(c).o = c /\ Connect(c).ev = "connect"
    BY DEF Ops, Read, Write, Connect, Op
<1>. QED
    BY <1>2, <1>3, <1>4, <1>5

LEMMA Disjoint ==
    /\ Streams \intersect Acceptors = {}
    /\ Streams \intersect Clients = {}
    /\ Acceptors \intersect Clients = {}
    /\ Streams \subseteq Objects /\ Acceptors \subseteq Objects
    /\ Clients \subseteq Objects
    BY WinReactorAssumption DEF Objects

LEMMA ErrorFacts ==
    /\ \A o \in Objects :
          /\ Op(o, "error") \in ErrorOps /\ Op(o, "error").o = o
          /\ Op(o, "error").ev = "error"
          /\ Op(o, "start") \in ErrorOps /\ Op(o, "start").o = o
          /\ Op(o, "start").ev = "start"
    /\ \A op \in Ops : Error(op) = Op(op.o, "error") /\ op.o \in Objects
    BY OpFacts DEF ErrorOps, Op, Error

LEMMA ContextFacts ==
    /\ Task \in Contexts /\ Task.op.o = NoObject /\ Task.op.ev = "task"
    /\ Task.op \notin Ops \union ErrorOps /\ Task.op.o \notin Objects
    /\ Task.late = FALSE
    /\ \A op \in Ops \union ErrorOps, b \in BOOLEAN :
          /\ Callback(op, b) \in Contexts
          /\ Callback(op, b).op = op
          /\ Callback(op, b).late = b
    /\ \A f \in Contexts : f = Task \/ f.op \in Ops \union ErrorOps
<1>1. /\ Task.op.o = NoObject /\ Task.op.ev = "task" /\ Task.late = FALSE
      /\ Task \in Contexts
    BY DEF Task, Callback, Op, Contexts
<1>2. Task.op \notin Ops \union ErrorOps
    BY <1>1, OpFacts, WinReactorAssumption DEF ErrorOps
<1>. QED
    BY <1>1, <1>2, WinReactorAssumption DEF Callback, Contexts

(* The context of a callback that begins now.                               *)
LEMMA NowFacts ==
    \A op \in Ops \union ErrorOps :
        /\ Callback(op, op.o \in stop_) \in Contexts
        /\ Callback(op, op.o \in stop_).op = op
        /\ Callback(op, op.o \in stop_).late = (op.o \in stop_)
<1> SUFFICES ASSUME NEW op \in Ops \union ErrorOps
             PROVE  /\ Callback(op, op.o \in stop_) \in Contexts
                    /\ Callback(op, op.o \in stop_).op = op
                    /\ Callback(op, op.o \in stop_).late = (op.o \in stop_)
    OBVIOUS
<1>1. (op.o \in stop_) \in BOOLEAN
    OBVIOUS
<1>. QED
    BY <1>1, ContextFacts

-----------------------------------------------------------------------------
(* Queues of packets and stacks of callbacks.                               *)

LEMMA EmptyFacts ==
    \A x : ~On(x, <<>>) /\ Once(x, <<>>) /\ ~LateOn(x, <<>>)
    BY EmptySeq DEF On, Once, LateOn

LEMMA PushFacts ==
    ASSUME NEW S, NEW q \in Seq(S), NEW f \in S
    PROVE  /\ Append(q, f) \in Seq(S)
           /\ \A x : On(x, Append(q, f)) <=> On(x, q) \/ x = f.op
           /\ \A x : LateOn(x, Append(q, f)) =>
                        LateOn(x, q) \/ (x = f.op /\ f.late)
           /\ \A x : Once(x, q) /\ ~(On(x, q) /\ x = f.op) =>
                        Once(x, Append(q, f))
<1>1. /\ Len(q) \in Nat
      /\ Append(q, f) \in Seq(S)
      /\ Len(Append(q, f)) = Len(q) + 1
      /\ \A i \in 1 .. Len(q) : Append(q, f)[i] = q[i]
      /\ Append(q, f)[Len(q) + 1] = f
    BY AppendProperties, LenProperties
<1>2. \A i : i \in 1 .. Len(Append(q, f)) <=>
                 i \in 1 .. Len(q) \/ i = Len(q) + 1
    BY <1>1
<1>3. \A x : On(x, Append(q, f)) <=> On(x, q) \/ x = f.op
    BY <1>1, <1>2 DEF On
<1>4. \A x : LateOn(x, Append(q, f)) => LateOn(x, q) \/ (x = f.op /\ f.late)
    BY <1>1, <1>2 DEF LateOn
<1>5. \A x : Once(x, q) /\ ~(On(x, q) /\ x = f.op) => Once(x, Append(q, f))
    BY <1>1, <1>2 DEF Once, On
<1>. QED
    BY <1>1, <1>3, <1>4, <1>5

LEMMA PopFacts ==
    ASSUME NEW S, NEW q \in Seq(S), q # <<>>,
           NEW p, p = SubSeq(q, 1, Len(q) - 1), NEW t, t = q[Len(q)]
    PROVE  /\ p \in Seq(S) /\ t \in S
           /\ On(t.op, q)
           /\ \A x : On(x, p) => On(x, q)
           /\ \A x : On(x, q) /\ x # t.op => On(x, p)
           /\ \A x : LateOn(x, p) => LateOn(x, q)
           /\ \A x : Once(x, q) => Once(x, p)
           /\ Once(t.op, q) => ~On(t.op, p)
<1>1. /\ Len(q) \in Nat \ {0} /\ t \in S
    BY LenProperties, EmptySeq, ElementOfSeq
<1>2. /\ p \in Seq(S) /\ Len(p) = Len(q) - 1
      /\ \A i \in 1 .. Len(q) - 1 : p[i] = q[i]
  <2>1. PICK n \in Nat : n = Len(q) - 1
    BY <1>1
  <2>2. \A i \in 1 .. n : i \in 1 .. Len(q) /\ i \in Int /\ 1 + i - 1 = i
    BY <1>1, <2>1
  <2>3. \A i \in 1 .. n : q[i] \in S
    BY <2>2, ElementOfSeq
  <2>4. /\ p \in Seq(S)
        /\ Len(p) = IF 1 <= n THEN n - 1 + 1 ELSE 0
        /\ \A i \in 1 .. n - 1 + 1 : p[i] = q[1 + i - 1]
    BY <2>1, <2>3, SubSeqProperties
  <2>5. n - 1 + 1 = n /\ (~(1 <= n) => n = 0)
    BY <2>1
  <2>6. Len(p) = n
    BY <2>4, <2>5
  <2>7. \A i \in 1 .. n : p[i] = q[i]
    BY <2>2, <2>4, <2>5
  <2>. QED
    BY <2>1, <2>4, <2>6, <2>7
<1>3. \A i : i \in 1 .. Len(q) <=> i \in 1 .. Len(p) \/ i = Len(q)
    BY <1>1, <1>2
<1>4. Len(q) \notin 1 .. Len(p)
    BY <1>1, <1>2
<1>5. \A x : Once(x, q) => Once(x, p)
    BY <1>2, <1>3 DEF Once
<1>6. /\ \A x : On(x, p) => On(x, q)
      /\ \A x : LateOn(x, p) => LateOn(x, q)
      /\ On(t.op, q)
      /\ \A x : On(x, q) /\ x # t.op => On(x, p)
    BY <1>2, <1>3 DEF On, LateOn
<1>7. Once(t.op, q) => ~On(t.op, p)
    BY <1>2, <1>3, <1>4 DEF Once, On
<1>. QED
    BY <1>1, <1>2, <1>5, <1>6, <1>7

LEMMA TailFacts ==
    ASSUME NEW S, NEW q \in Seq(S), q # <<>>
    PROVE  /\ Tail(q) \in Seq(S) /\ Head(q) \in S
           /\ On(Head(q).op, q)
           /\ \A x : On(x, Tail(q)) => On(x, q)
           /\ \A x : On(x, q) /\ x # Head(q).op => On(x, Tail(q))
           /\ \A x : Once(x, q) => Once(x, Tail(q))
           /\ Once(Head(q).op, q) => ~On(Head(q).op, Tail(q))
<1>1. /\ Len(q) \in Nat \ {0}
      /\ Head(q) = q[1] /\ Head(q) \in S
      /\ Tail(q) \in Seq(S)
      /\ Len(Tail(q)) = Len(q) - 1
      /\ \A i \in 1 .. Len(Tail(q)) : Tail(q)[i] = q[i + 1]
    BY HeadTailProperties, LenProperties, EmptySeq
<1>2. /\ \A i \in 1 .. Len(Tail(q)) : i + 1 \in 1 .. Len(q) /\ i + 1 # 1
      /\ \A i \in 1 .. Len(q) :
            i = 1 \/ (i - 1 \in 1 .. Len(Tail(q)) /\ (i - 1) + 1 = i)
      /\ 1 \in 1 .. Len(q)
    BY <1>1
<1>3. /\ On(Head(q).op, q)
      /\ \A x : On(x, Tail(q)) => On(x, q)
    BY <1>1, <1>2 DEF On
<1>4. ASSUME NEW x, On(x, q), x # Head(q).op
      PROVE  On(x, Tail(q))
  <2>1. PICK i \in 1 .. Len(q) : q[i].op = x
    BY <1>4 DEF On
  <2>2. i # 1
    BY <1>1, <1>4, <2>1
  <2>3. i - 1 \in 1 .. Len(Tail(q)) /\ Tail(q)[i - 1] = q[i]
    BY <1>1, <1>2, <2>2
  <2>. QED
    BY <2>1, <2>3 DEF On
<1>5. ASSUME NEW x, Once(x, q)
      PROVE  Once(x, Tail(q))
  <2> SUFFICES ASSUME NEW i \in 1 .. Len(Tail(q)), NEW j \in 1 .. Len(Tail(q)),
                      Tail(q)[i].op = x, Tail(q)[j].op = x
               PROVE  i = j
      BY DEF Once
  <2>1. i + 1 = j + 1
    BY <1>1, <1>2, <1>5 DEF Once
  <2>. QED
    BY <1>1, <2>1
<1>6. ASSUME Once(Head(q).op, q), On(Head(q).op, Tail(q))
      PROVE  FALSE
  <2>1. PICK i \in 1 .. Len(Tail(q)) : Tail(q)[i].op = Head(q).op
    BY <1>6 DEF On
  <2>2. i + 1 = 1
    BY <1>1, <1>2, <1>6, <2>1 DEF Once
  <2>. QED
    BY <1>2, <2>2
<1>. QED
    BY <1>1, <1>3, <1>4, <1>5, <1>6

-----------------------------------------------------------------------------
(* The steps.                                                               *)

OfStream   == UNCHANGED <<acceptorVars, clientVars>>
OfAcceptor == UNCHANGED <<streamVars, clientVars>>
OfClient   == UNCHANGED <<streamVars, acceptorVars>>
OfLoop     == UNCHANGED <<streamVars, acceptorVars, clientVars>>

StreamStep(s) == (StreamCall(s) \/ StreamHandler(s)) /\ OfStream

AcceptorStep(a) == (AcceptorCall(a) \/ AcceptorHandler(a)) /\ OfAcceptor

ClientStep(c) == (ClientCall(c) \/ ClientHandler(c)) /\ OfClient

FrameStep == Frame /\ OfLoop

SystemStep(op) == (\E ok \in BOOLEAN : KPacket(op, ok)) /\ OfLoop

LEMMA StepCases ==
    ASSUME [Next]_vars
    PROVE  \/ \E s \in Streams : StreamStep(s)
           \/ \E a \in Acceptors : AcceptorStep(a)
           \/ \E c \in Clients : ClientStep(c)
           \/ FrameStep
           \/ \E op \in Ops : SystemStep(op)
           \/ UNCHANGED vars
<1>1. CASE Call
    BY <1>1 DEF Call, StreamStep, OfStream, AcceptorStep, OfAcceptor,
                ClientStep, OfClient
<1>2. CASE LoopStep
    BY <1>2 DEF LoopStep, FrameStep, OfLoop, StreamStep, OfStream,
                AcceptorStep, OfAcceptor, ClientStep, OfClient
<1>3. CASE System
    BY <1>3 DEF System, Aborted, Completed, KAbort, SystemStep, OfLoop
<1>4. CASE Crashed
    BY <1>4 DEF Crashed
<1>. QED
    BY <1>1, <1>2, <1>3, <1>4 DEF Next

(* The three ends of a post.                                                *)
Posts(op, st) == Pend(op, st) \/ Ends(op, st) \/ Fails(op, st)

LEMMA PostFacts ==
    ASSUME NEW op \in Ops, NEW st \in Seq(Contexts), Posts(op, st)
    PROVE  \/ /\ flags' = flags \union {op} /\ inflight' = inflight \union {op}
              /\ stack' = st
           \/ /\ UNCHANGED <<flags, inflight>>
              /\ \E e \in {op, Error(op)} :
                    stack' = Append(st, Callback(e, e.o \in stop_))
    BY OpFacts, ErrorFacts DEF Posts, Pend, Ends, Fails, CallInline, CallNone

(* The top of the stack, and the stack without it.                          *)
LEMMA TopFacts ==
    ASSUME IndInv, stack # <<>>
    PROVE  /\ Popped \in Seq(Contexts) /\ Top \in Contexts
           /\ On(Top.op, stack)
           /\ \A x : On(x, Popped) => On(x, stack)
           /\ \A x : On(x, stack) /\ x # Top.op => On(x, Popped)
           /\ \A x : LateOn(x, Popped) => LateOn(x, stack)
           /\ \A x : Once(x, stack) => Once(x, Popped)
           /\ Once(Top.op, stack) => ~On(Top.op, Popped)
    BY PopFacts DEF Popped, Top, IndInv

(* What a callback that may return has, and its object.                     *)
LEMMA ReturnFacts ==
    ASSUME IndInv, NEW op \in Ops, Returns(op)
    PROVE  /\ stack # <<>> /\ On(op, stack) /\ life[op.o] = "live"
           /\ op \in Repeats => op \notin flags /\ ~On(op, Popped)
<1>1. stack # <<>> /\ Top.op = op
    BY DEF Returns, InUser
<1>2. On(op, stack)
    BY <1>1, TopFacts
<1>. QED
    BY <1>1, <1>2, TopFacts, OpFacts DEF IndInv, LifeInv, StackInv

-----------------------------------------------------------------------------
(* The flags and the system.                                                *)

LEMMA KernelStep == ASSUME IndInv, [Next]_vars PROVE KernelInv'
<1>a. /\ port \in Seq(Packets) /\ entries \in Seq(Packets)
      /\ flags \subseteq Ops /\ inflight \subseteq Ops
      /\ KernelInv
    BY DEF IndInv, TypeOK, ReactorType, Packets
<1>q. UNCHANGED <<flags, inflight, port, entries, phase>> => KernelInv'
    BY <1>a DEF KernelInv, Busy
<1>f. entries = <<>> /\ UNCHANGED <<flags, inflight, port, entries>>
         => KernelInv'
    BY <1>a DEF KernelInv, Busy
<1>p. ASSUME NEW op \in Ops, op \notin flags, op.o \notin Clients,
             flags' = flags \union {op}, inflight' = inflight \union {op},
             UNCHANGED <<port, entries, phase>>
      PROVE  KernelInv'
    BY <1>a, <1>p DEF KernelInv, Busy
<1>i. ASSUME NEW op \in Ops, op \notin flags, op.o \notin Clients,
             NEW st \in Seq(Contexts), Posts(op, st),
             UNCHANGED <<port, entries, phase>>
      PROVE  KernelInv'
    BY <1>i, <1>p, <1>q, PostFacts
<1>v. ASSUME NEW op \in Ops, Visit(op)
      PROVE  KernelInv'
  <2>1. /\ entries # <<>> /\ Head(entries).op = op
        /\ flags' = flags \ {op} /\ entries' = Tail(entries)
        /\ UNCHANGED <<inflight, port, phase>> /\ phase = "entries"
    BY <1>v DEF Visit, Taken, AtLoop
  <2>2. /\ On(op, entries) /\ Once(op, entries)
        /\ ~On(op, Tail(entries))
        /\ \A x : On(x, Tail(entries)) => On(x, entries)
        /\ \A x : On(x, entries) /\ x # op => On(x, Tail(entries))
        /\ \A x : Once(x, entries) => Once(x, Tail(entries))
    BY <1>a, <2>1, TailFacts DEF KernelInv
  <2>3. op \notin inflight /\ ~On(op, port)
    BY <1>a, <2>2 DEF KernelInv
  <2>. QED
    BY <1>a, <2>1, <2>2, <2>3 DEF KernelInv, Busy
<1>1. ASSUME NEW s \in Streams, StreamStep(s)
      PROVE  KernelInv'
  <2>0. Read(s).o \notin Clients /\ Write(s).o \notin Clients
    BY OpFacts, Disjoint
  <2>1. CASE StreamStart(s) \/ StreamStop(s)
    BY <1>q, <2>1 DEF StreamStart, StreamStop, frameVars
  <2>2. CASE StreamRead(s)
    <3>1. Read(s) \notin flags
      BY <2>2, OpFacts DEF StreamRead, IndInv, StackInv
    <3>2. Posts(Read(s), stack) /\ UNCHANGED <<port, entries, phase>>
      BY <2>2 DEF StreamRead, Posts, frameVars
    <3>. QED
      BY <1>i, <2>0, <3>1, <3>2, OpFacts DEF IndInv
  <2>3. CASE StreamWrite(s)
    <3>1. Write(s) \notin flags
      BY <2>3 DEF StreamWrite, writing
    <3>2. /\ Posts(Write(s), Written(s))
          /\ UNCHANGED <<port, entries, phase>>
      BY <2>3 DEF StreamWrite, PostWrite, Posts, frameVars
    <3>3. \/ /\ flags' = flags \union {Write(s)}
             /\ inflight' = inflight \union {Write(s)}
          \/ UNCHANGED <<flags, inflight>>
      BY <3>2 DEF Posts, Pend, Ends, Fails
    <3>. QED
      BY <1>p, <1>q, <2>0, <3>1, <3>2, <3>3, OpFacts
  <2>4. CASE RunRead(s) \/ RunWrite(s)
    BY <1>v, <2>4, OpFacts DEF RunRead, RunWrite
  <2>5. CASE RunReadReturn(s)
    <3>1. UNCHANGED <<port, entries, phase>>
      BY <2>5 DEF RunReadReturn, frameVars
    <3>2. \/ UNCHANGED <<flags, inflight>>
          \/ Read(s) \notin flags /\ Posts(Read(s), Popped)
      BY <2>5, OpFacts DEF RunReadReturn, NoPost, PostRead, Posts, reading
    <3>3. Popped \in Seq(Contexts)
      BY <2>5, ReturnFacts, TopFacts, OpFacts DEF RunReadReturn
    <3>. QED
      BY <1>i, <1>q, <2>0, <3>1, <3>2, <3>3, OpFacts
  <2>6. CASE RunWriteReturn(s)
    BY <1>q, <2>6 DEF RunWriteReturn, NoPost, frameVars
  <2>. QED
    BY <1>1, <2>1, <2>2, <2>3, <2>4, <2>5, <2>6
       DEF StreamStep, StreamCall, StreamHandler
<1>2. ASSUME NEW a \in Acceptors, AcceptorStep(a)
      PROVE  KernelInv'
  <2>1. CASE AcceptorStart(a) \/ AcceptorStop(a)
    BY <1>q, <2>1 DEF AcceptorStart, AcceptorStop, frameVars
  <2>2. CASE StartPosts(a)
    <3>1. UNCHANGED <<port, entries, phase>>
      BY <2>2 DEF StartPosts, frameVars
    <3>2. CASE NoPost(Popped)
      BY <1>q, <3>1, <3>2 DEF NoPost
    <3>3. CASE tried[a] < NSlots
               /\ PostAcceptor(Accept(a, tried[a] + 1), stack, Popped)
      <4> DEFINE n == tried[a] + 1
      <4>1. n \in 1 .. NSlots /\ ~(n <= tried[a])
        BY <3>3, WinReactorAssumption DEF IndInv, TypeOK
      <4>2. /\ Accept(a, n) \in Ops /\ Accept(a, n).o = a
            /\ Accept(a, n).ev = "accept" /\ Accept(a, n).slot = n
        BY <4>1, OpFacts
      <4>3. Accept(a, n) \notin flags
        BY <4>1, <4>2 DEF IndInv, StackInv
      <4>4. \/ Posts(Accept(a, n), stack)
            \/ UNCHANGED <<flags, inflight>>
        BY <3>3 DEF PostAcceptor, Posts, Fails
      <4>. QED
        BY <1>i, <1>q, <3>1, <4>2, <4>3, <4>4, Disjoint DEF IndInv
    <3>. QED
      BY <2>2, <3>2, <3>3 DEF StartPosts
  <2>3. ASSUME NEW op \in AcceptOps(a), RunAccept(op)
        PROVE  KernelInv'
    BY <1>v, <2>3, OpFacts DEF RunAccept
  <2>4. ASSUME NEW op \in AcceptOps(a), RunAcceptReturn(op)
        PROVE  KernelInv'
    <3>1. op \in Ops /\ op \in Repeats /\ op.o = a /\ op.o \notin Clients
      BY OpFacts, Disjoint DEF Repeats
    <3>2. op \notin flags /\ Popped \in Seq(Contexts)
      BY <2>4, <3>1, ReturnFacts, TopFacts DEF RunAcceptReturn
    <3>3. /\ UNCHANGED <<port, entries, phase>>
          /\ UNCHANGED <<flags, inflight>> \/ Posts(op, Popped)
      BY <2>4 DEF RunAcceptReturn, NoPost, PostAcceptor, Posts, frameVars
    <3>. QED
      BY <1>i, <1>q, <3>1, <3>2, <3>3
  <2>. QED
    BY <1>2, <2>1, <2>2, <2>3, <2>4
       DEF AcceptorStep, AcceptorCall, AcceptorHandler
<1>3. ASSUME NEW c \in Clients, ClientStep(c)
      PROVE  KernelInv'
  <2>1. CASE ClientStart(c)
    <3>1. /\ UNCHANGED <<flags, port, entries, phase>>
          /\ inflight' \in {inflight, inflight \union {Connect(c)}}
          /\ life[c] = "new"
      BY <2>1 DEF ClientStart, frameVars
    <3>2. ~Busy(Connect(c))
      BY <3>1, OpFacts DEF IndInv, LifeInv
    <3>. QED
      BY <1>a, <3>1, <3>2, OpFacts DEF KernelInv, Busy
  <2>2. CASE ClientStop(c) \/ RunConnectReturn(c)
    BY <1>q, <2>2 DEF ClientStop, RunConnectReturn, NoPost, frameVars
  <2>3. CASE RunConnect(c)
    BY <1>v, <2>3, OpFacts DEF RunConnect
  <2>. QED
    BY <1>3, <2>1, <2>2, <2>3 DEF ClientStep, ClientCall, ClientHandler
<1>4. CASE FrameStep
  <2>1. UNCHANGED <<flags, inflight>>
    BY <1>4 DEF FrameStep, Frame
  <2>2. CASE TakePackets
    <3>1. /\ entries = <<>> /\ entries' = port /\ port' = <<>>
          /\ phase' = "entries"
      BY <1>a, <2>2 DEF TakePackets, AtLoop, KernelInv
    <3>. QED
      BY <1>a, <2>1, <3>1, EmptyFacts DEF KernelInv, Busy
  <2>3. CASE VisitDeleted \/ RunClose \/ PlainReturn
    BY <1>q, <2>1, <2>3 DEF VisitDeleted, RunClose, PlainReturn, frameVars
  <2>4. CASE RunMux \/ SwapLocal \/ DoneLocal \/ OnTimer
    BY <1>a, <1>f, <2>1, <2>4
       DEF RunMux, SwapLocal, DoneLocal, OnTimer, AtLoop, KernelInv
  <2>. QED
    BY <1>4, <2>2, <2>3, <2>4 DEF FrameStep, Frame
<1>5. ASSUME NEW op \in Ops, SystemStep(op)
      PROVE  KernelInv'
  <2>1. PICK ok \in BOOLEAN : KPacket(op, ok)
    BY <1>5 DEF SystemStep
  <2> DEFINE p == [op |-> op, ok |-> ok]
  <2>2. /\ op \in inflight /\ inflight' = inflight \ {op}
        /\ port' = Append(port, p)
        /\ UNCHANGED <<flags, entries, phase>>
    BY <2>1 DEF KPacket, frameVars
  <2>3. p \in Packets /\ p.op = op
    BY DEF Packets
  <2>4. ~On(op, port) /\ ~On(op, entries)
    BY <1>a, <2>2 DEF KernelInv
  <2>5. /\ \A x : On(x, Append(port, p)) <=> On(x, port) \/ x = op
        /\ \A x : Once(x, port) => Once(x, Append(port, p))
    BY <1>a, <2>3, <2>4, PushFacts
  <2>. QED
    BY <1>a, <2>2, <2>4, <2>5 DEF KernelInv, Busy
<1>6. CASE UNCHANGED vars
    BY <1>q, <1>6 DEF vars, reactorVars, frameVars
<1>. QED
    BY <1>1, <1>2, <1>3, <1>4, <1>5, <1>6, StepCases

-----------------------------------------------------------------------------
(* What becomes of an object, and the queue of evClose.                     *)

Begins(o) ==
    /\ life[o] = "new"
    /\ life' = [life EXCEPT ![o] = "live"]
    /\ UNCHANGED stop_

Stops(o) ==
    /\ life[o] = "live"
    /\ stop_' = stop_ \union {o}
    /\ UNCHANGED life

Closes(o) ==
    /\ life[o] = "live"
    /\ o \notin close_
    /\ close_' = close_ \union {o}
    /\ taks_nmux_' = Append(taks_nmux_, o)
    /\ UNCHANGED <<pendings1, phase, life>>

ClosesNone ==
    /\ UNCHANGED <<close_, taks_nmux_, pendings1>>
    /\ phase' # "local" => pendings1 = <<>>
    /\ \/ UNCHANGED life
       \/ \E o \in Objects : Begins(o)

LEMMA CloseCases ==
    ASSUME IndInv, [Next]_vars
    PROVE  \/ ClosesNone
           \/ SwapLocal /\ UNCHANGED close_
           \/ RunClose /\ UNCHANGED close_
           \/ \E o \in Objects : Closes(o)
<1>q. /\ UNCHANGED <<close_, taks_nmux_, pendings1, phase>>
      /\ UNCHANGED life \/ \E o \in Objects : Begins(o)
      => ClosesNone
    BY DEF ClosesNone, IndInv, QueueInv
<1>c. ASSUME NEW o \in Objects, life[o] = "live", PostToClose(o),
             UNCHANGED <<pendings1, phase, life>>
      PROVE  ClosesNone \/ \E x \in Objects : Closes(x)
    BY <1>c, <1>q DEF PostToClose, Closes
<1>1. ASSUME NEW s \in Streams, StreamStep(s)
      PROVE  ClosesNone \/ \E o \in Objects : Closes(o)
  <2>1. CASE StreamStart(s)
    BY <1>q, <2>1, Disjoint DEF StreamStart, frameVars, Begins
  <2>2. CASE StreamRead(s) \/ StreamWrite(s)
    BY <1>q, <2>2 DEF StreamRead, StreamWrite, frameVars
  <2>3. CASE StreamStop(s)
    BY <1>q, <1>c, <2>3, Disjoint
       DEF StreamStop, Calls, StreamPostToClose, NoClose, frameVars
  <2>4. CASE RunRead(s) \/ RunWrite(s)
    BY <1>q, <2>4 DEF RunRead, RunWrite, Visit, Taken
  <2>5. CASE RunReadReturn(s)
    BY <1>q, <1>c, <2>5, Disjoint, ReturnFacts, OpFacts
       DEF RunReadReturn, StreamPostToClose, NoClose, frameVars
  <2>6. CASE RunWriteReturn(s)
    BY <1>q, <1>c, <2>6, Disjoint, ReturnFacts, OpFacts
       DEF RunWriteReturn, StreamPostToClose, NoClose, frameVars
  <2>. QED
    BY <1>1, <2>1, <2>2, <2>3, <2>4, <2>5, <2>6
       DEF StreamStep, StreamCall, StreamHandler
<1>2. ASSUME NEW a \in Acceptors, AcceptorStep(a)
      PROVE  ClosesNone \/ \E o \in Objects : Closes(o)
  <2>1. CASE AcceptorStart(a)
    BY <1>q, <2>1, Disjoint DEF AcceptorStart, frameVars, Begins
  <2>2. CASE AcceptorStop(a)
    BY <1>q, <1>c, <2>2, Disjoint
       DEF AcceptorStop, Calls, AcceptorPostClose, NoClose, frameVars
  <2>3. CASE StartPosts(a)
    BY <1>q, <2>3 DEF StartPosts, frameVars
  <2>4. ASSUME NEW op \in AcceptOps(a), RunAccept(op)
        PROVE  ClosesNone
    BY <1>q, <2>4 DEF RunAccept, Visit, Taken
  <2>5. ASSUME NEW op \in AcceptOps(a), RunAcceptReturn(op)
        PROVE  ClosesNone \/ \E o \in Objects : Closes(o)
    BY <1>q, <1>c, <2>5, Disjoint, ReturnFacts, OpFacts
       DEF RunAcceptReturn, AcceptorPostClose, NoClose, frameVars
  <2>. QED
    BY <1>2, <2>1, <2>2, <2>3, <2>4, <2>5
       DEF AcceptorStep, AcceptorCall, AcceptorHandler
<1>3. ASSUME NEW c \in Clients, ClientStep(c)
      PROVE  ClosesNone \/ \E o \in Objects : Closes(o)
  <2>1. CASE ClientStart(c)
    BY <1>q, <2>1, Disjoint DEF ClientStart, frameVars, Begins
  <2>2. CASE ClientStop(c)
    BY <1>q, <1>c, <2>2, Disjoint
       DEF ClientStop, Calls, ClientPostToClose, NoClose, frameVars
  <2>3. CASE RunConnect(c)
    BY <1>q, <2>3 DEF RunConnect, Visit, Taken
  <2>4. CASE RunConnectReturn(c)
    BY <1>q, <1>c, <2>4, Disjoint, ReturnFacts, OpFacts
       DEF RunConnectReturn, ClientPostToClose, NoClose, frameVars
  <2>. QED
    BY <1>3, <2>1, <2>2, <2>3, <2>4 DEF ClientStep, ClientCall, ClientHandler
<1>4. CASE FrameStep
  <2>1. UNCHANGED close_
    BY <1>4 DEF FrameStep, Frame
  <2>2. CASE VisitDeleted \/ PlainReturn
    BY <1>q, <2>1, <2>2 DEF VisitDeleted, PlainReturn, frameVars
  <2>3. CASE TakePackets \/ RunMux \/ DoneLocal \/ OnTimer
    BY <2>1, <2>3 DEF TakePackets, RunMux, DoneLocal, OnTimer, AtLoop,
                      ClosesNone, IndInv, QueueInv
  <2>. QED
    BY <1>4, <2>1, <2>2, <2>3 DEF FrameStep, Frame
<1>5. ASSUME NEW op \in Ops, SystemStep(op)
      PROVE  ClosesNone
    BY <1>5, <1>q DEF SystemStep, KPacket, frameVars
<1>6. CASE UNCHANGED vars
    BY <1>6, <1>q DEF vars, reactorVars, frameVars
<1>. QED
    BY <1>1, <1>2, <1>3, <1>4, <1>5, <1>6, StepCases

(* The front of the batch is an object that is closed and not deleted.      *)
LEMMA FrontClosed ==
    ASSUME IndInv, pendings1 # <<>>
    PROVE  /\ queue \in Seq(Objects) /\ queue # <<>>
           /\ Head(queue) = Head(pendings1)
           /\ Tail(queue) = Tail(pendings1) \o taks_nmux_
           /\ Head(pendings1) \in close_
           /\ life[Head(pendings1)] = "live"
<1>1. pendings1 \in Seq(Objects) /\ taks_nmux_ \in Seq(Objects)
    BY DEF IndInv, TypeOK, ReactorType
<1>2. /\ queue \in Seq(Objects) /\ queue # <<>>
      /\ Head(queue) = Head(pendings1)
      /\ Tail(queue) = Tail(pendings1) \o taks_nmux_
    BY <1>1, HeadTailConcat, ConcatProperties DEF queue
<1>3. Head(queue) \in Objects /\ In(Head(queue), queue)
    BY <1>2, UniqueTail DEF IndInv, QueueInv
<1>. QED
    BY <1>2, <1>3 DEF IndInv, QueueInv

LEMMA QueueStep == ASSUME IndInv, [Next]_vars PROVE QueueInv'
<1>a. /\ pendings1 \in Seq(Objects) /\ taks_nmux_ \in Seq(Objects)
      /\ queue \in Seq(Objects) /\ QueueInv
      /\ life \in [Objects -> {"new", "live", "deleted", "unused"}]
      /\ close_ \subseteq stop_ /\ stop_ \subseteq Objects
    BY ConcatProperties DEF IndInv, TypeOK, ReactorType, queue
<1>1. CASE ClosesNone
  <2>1. queue' = queue
    BY <1>1 DEF ClosesNone, queue
  <2>2. CASE UNCHANGED life
    BY <1>a, <1>1, <2>1, <2>2 DEF ClosesNone, QueueInv
  <2>3. ASSUME NEW o \in Objects, Begins(o)
        PROVE  QueueInv'
    <3>1. o \notin close_
      BY <1>a, <2>3 DEF Begins, IndInv, LifeInv
    <3>. QED
      BY <1>a, <1>1, <2>1, <2>3, <3>1 DEF ClosesNone, Begins, QueueInv
  <2>. QED
    BY <1>1, <2>2, <2>3 DEF ClosesNone
<1>2. CASE SwapLocal /\ UNCHANGED close_
  <2>1. pendings1 = <<>> /\ queue = taks_nmux_
    BY <1>a, <1>2, ConcatEmptySeq DEF SwapLocal, AtLoop, QueueInv, queue
  <2>2. queue' = queue
    BY <1>a, <1>2, <2>1, ConcatEmptySeq DEF SwapLocal, queue
  <2>. QED
    BY <1>a, <1>2, <2>2 DEF SwapLocal, QueueInv
<1>3. CASE RunClose /\ UNCHANGED close_
  <2> DEFINE o == Head(pendings1)
  <2>1. /\ pendings1 # <<>> /\ phase = "local"
        /\ pendings1' = Tail(pendings1)
        /\ life' = [life EXCEPT ![o] = "deleted"]
        /\ UNCHANGED <<close_, taks_nmux_, phase>>
    BY <1>3 DEF RunClose, AtLoop
  <2>2. /\ queue # <<>> /\ Head(queue) = o /\ Tail(queue) = queue'
    BY <2>1, FrontClosed DEF queue
  <2>3. /\ o \in Objects /\ Unique(queue')
        /\ \A x : In(x, queue') <=> In(x, queue) /\ x # o
    BY <1>a, <2>2, UniqueTail DEF QueueInv
  <2>. QED
    BY <1>a, <2>1, <2>3 DEF QueueInv
<1>4. ASSUME NEW o \in Objects, Closes(o)
      PROVE  QueueInv'
  <2>1. queue' = Append(queue, o)
    BY <1>a, <1>4, AppendConcat DEF Closes, queue
  <2>2. ~In(o, queue)
    BY <1>a, <1>4 DEF Closes, QueueInv
  <2>3. /\ Unique(queue')
        /\ \A x : In(x, queue') <=> In(x, queue) \/ x = o
    BY <1>a, <2>1, <2>2, UniqueAppend DEF QueueInv
  <2>. QED
    BY <1>a, <1>4, <2>3 DEF Closes, QueueInv
<1>. QED
    BY <1>1, <1>2, <1>3, <1>4, CloseCases

-----------------------------------------------------------------------------
(* What the steps put on the stack.                                         *)

(* A callback that begins now on top of st.                                 *)
LEMMA InlineFacts ==
    ASSUME NEW st \in Seq(Contexts), NEW e \in Ops \union ErrorOps,
           stack' = Append(st, Callback(e, e.o \in stop_))
    PROVE  /\ stack' \in Seq(Contexts)
           /\ \A x : On(x, stack)' <=> On(x, st) \/ x = e
           /\ \A x : LateOn(x, stack)' =>
                        LateOn(x, st) \/ (x = e /\ e.o \in stop_)
           /\ \A x : Once(x, st) /\ ~(On(x, st) /\ x = e) => Once(x, stack)'
<1> DEFINE f == Callback(e, e.o \in stop_)
<1>1. f \in Contexts /\ f.op = e /\ f.late = (e.o \in stop_)
    BY NowFacts
<1> HIDE DEF f
<1>2. stack' = Append(st, f)
    BY DEF f
<1>3. /\ Append(st, f) \in Seq(Contexts)
      /\ \A x : On(x, Append(st, f)) <=> On(x, st) \/ x = f.op
      /\ \A x : LateOn(x, Append(st, f)) => LateOn(x, st) \/ (x = f.op /\ f.late)
      /\ \A x : Once(x, st) /\ ~(On(x, st) /\ x = f.op) => Once(x, Append(st, f))
    BY <1>1, PushFacts
<1>4. /\ \A x : On(x, stack)' = On(x, Append(st, f))
      /\ \A x : LateOn(x, stack)' = LateOn(x, Append(st, f))
      /\ \A x : Once(x, stack)' = Once(x, Append(st, f))
    BY <1>2 DEF On, LateOn, Once
<1>. QED
    BY <1>1, <1>2, <1>3, <1>4

(* A stack that a step leaves: the facts as of the next state.              *)
LEMMA SameFacts ==
    ASSUME NEW st, stack' = st
    PROVE  /\ \A x : On(x, stack)' <=> On(x, st)
           /\ \A x : LateOn(x, stack)' <=> LateOn(x, st)
           /\ \A x : Once(x, stack)' <=> Once(x, st)
    BY DEF On, LateOn, Once

LEMMA PostOn ==
    ASSUME NEW op \in Ops, NEW st \in Seq(Contexts), Posts(op, st)
    PROVE  /\ stack' \in Seq(Contexts)
           /\ \A x : On(x, st) => On(x, stack)'
           /\ \A x : On(x, stack)' => On(x, st) \/ x = op \/ x = Error(op)
           /\ \A x : LateOn(x, stack)' =>
                 LateOn(x, st) \/ (x \in {op, Error(op)} /\ op.o \in stop_)
           /\ \A x : Once(x, st) /\ ~(On(x, st) /\ x \in {op, Error(op)})
                        => Once(x, stack)'
           /\ flags' \in {flags, flags \union {op}}
           /\ op \in flags' /\ op \notin flags /\ ~On(op, st) =>
                 ~On(op, stack)'
           /\ op \in flags' \/ On(op, stack)' \/ On(Error(op), stack)'
<1>e. Error(op) \in ErrorOps /\ Error(op).o = op.o /\ Error(op) # op
    BY OpFacts, ErrorFacts
<1>1. CASE flags' = flags \union {op} /\ stack' = st
    BY <1>1, SameFacts
<1>2. ASSUME flags' = flags, NEW e \in {op, Error(op)},
             stack' = Append(st, Callback(e, e.o \in stop_))
      PROVE  /\ stack' \in Seq(Contexts)
             /\ \A x : On(x, st) => On(x, stack)'
             /\ \A x : On(x, stack)' => On(x, st) \/ x = op \/ x = Error(op)
             /\ \A x : LateOn(x, stack)' =>
                   LateOn(x, st) \/ (x \in {op, Error(op)} /\ op.o \in stop_)
             /\ \A x : Once(x, st) /\ ~(On(x, st) /\ x \in {op, Error(op)})
                          => Once(x, stack)'
             /\ On(op, stack)' \/ On(Error(op), stack)'
  <2>1. e \in Ops \union ErrorOps /\ e.o = op.o
    BY <1>2, <1>e
  <2>2. /\ stack' \in Seq(Contexts)
        /\ \A x : On(x, stack)' <=> On(x, st) \/ x = e
        /\ \A x : LateOn(x, stack)' =>
                     LateOn(x, st) \/ (x = e /\ e.o \in stop_)
        /\ \A x : Once(x, st) /\ ~(On(x, st) /\ x = e) => Once(x, stack)'
    BY <1>2, <2>1, InlineFacts
  <2>. QED
    BY <1>2, <2>1, <2>2
<1>. QED
    BY <1>1, <1>2, PostFacts

(* write() of a late callback uses up its lateness.                         *)
LEMMA WrittenFacts ==
    ASSUME IndInv, stack # <<>>, NEW s \in Streams
    PROVE  /\ Written(s) \in Seq(Contexts)
           /\ \A x : On(x, Written(s)) <=> On(x, stack)
           /\ \A x : Once(x, Written(s)) <=> Once(x, stack)
           /\ \A x : LateOn(x, Written(s)) => LateOn(x, stack)
           /\ Top.op = Read(s) => ~LateOn(Read(s), Written(s))
<1> DEFINE W == Written(s)
           n == Len(stack)
<1>1. /\ stack \in Seq(Contexts) /\ n \in Nat \ {0} /\ n \in 1 .. n
      /\ Top = stack[n] /\ Top \in Contexts /\ Top.late \in BOOLEAN
  <2>1. stack \in Seq(Contexts) /\ n \in Nat \ {0}
    BY LenProperties, EmptySeq DEF IndInv
  <2>2. Top = stack[n] /\ Top \in Contexts
    BY <2>1, ElementOfSeq DEF Top
  <2>3. n \in 1 .. n
    BY <2>1
  <2>4. \A f \in Contexts : f.late \in BOOLEAN
    BY ContextFacts DEF Contexts
  <2>. QED
    BY <2>1, <2>2, <2>3, <2>4
<1>2. PICK b \in BOOLEAN : b <=> Top.late /\ Top.op.o # s
    BY <1>1
<1>3. PICK r \in Contexts : r = [Top EXCEPT !.late = b] /\ r.op = Top.op
                                 /\ r.late = b
  <2>1. CASE Top = Task
    <3>1. b = FALSE
      BY <1>2, <2>1, ContextFacts
    <3>2. Task \in [op : {Task.op}, late : BOOLEAN]
      BY DEF Task, Callback
    <3>3. [Task EXCEPT !.late = b] = [op |-> Task.op, late |-> b]
      BY <3>2
    <3>4. Task = [op |-> Task.op, late |-> b]
      BY <3>1, <3>2, ContextFacts
    <3>. QED
      BY <1>1, <2>1, <3>1, <3>3, <3>4, ContextFacts
  <2>2. CASE Top \in [op : Ops \union ErrorOps, late : BOOLEAN]
    <3>1. /\ [Top EXCEPT !.late = b] = [op |-> Top.op, late |-> b]
          /\ Top.op \in Ops \union ErrorOps
      BY <2>2
    <3>. QED
      BY <3>1 DEF Contexts
  <2>. QED
    BY <1>1, <2>1, <2>2 DEF Contexts
<1>4. W = [stack EXCEPT ![n] = r]
  <2>1. W = [stack EXCEPT ![n] = [stack[n] EXCEPT
                                     !.late = stack[n].late /\ Top.op.o # s]]
    BY DEF Written
  <2>2. (Top.late /\ Top.op.o # s) = b
    BY <1>2
  <2>. QED
    BY <1>1, <1>3, <2>1, <2>2
<1>5. /\ W \in Seq(Contexts) /\ Len(W) = n
      /\ W[n] = r /\ \A i \in 1 .. n : i # n => W[i] = stack[i]
    BY <1>1, <1>3, <1>4, ExceptSeq, LenProperties
<1>6. \A i \in 1 .. n : W[i].op = stack[i].op /\ (W[i].late => stack[i].late)
    BY <1>1, <1>2, <1>3, <1>5
<1>7. /\ \A x : On(x, W) <=> On(x, stack)
      /\ \A x : Once(x, W) <=> Once(x, stack)
      /\ \A x : LateOn(x, W) => LateOn(x, stack)
    BY <1>5, <1>6 DEF On, Once, LateOn
<1>8. ASSUME Top.op = Read(s)
      PROVE  ~LateOn(Read(s), W)
  <2>1. Once(Read(s), stack) /\ Read(s).o = s
    BY OpFacts DEF IndInv, StackInv, Repeats
  <2>2. ~W[n].late
    BY <1>2, <1>3, <1>5, <1>8, <2>1
  <2>3. \A i \in 1 .. n : W[i].op = Read(s) => i = n
    BY <1>1, <1>6, <1>8, <2>1 DEF Once
  <2>. QED
    BY <1>5, <2>2, <2>3 DEF LateOn
<1>. QED
    BY <1>5, <1>7, <1>8

(* A stack without some of the callbacks of the one before, or their        *)
(* lateness.                                                                *)
Under(st) ==
    /\ st \in Seq(Contexts)
    /\ \A x : On(x, st) => On(x, stack)
    /\ \A x : LateOn(x, st) => LateOn(x, stack)
    /\ \A x : Once(x, stack) => Once(x, st)

LEMMA UnderFacts ==
    ASSUME IndInv
    PROVE  /\ Under(stack) /\ Under(<<>>)
           /\ stack # <<>> => Under(Popped)
           /\ \A s \in Streams : stack # <<>> => Under(Written(s))
<1>1. Under(stack)
    BY DEF Under, IndInv
<1>2. Under(<<>>)
    BY EmptyFacts, EmptySeq DEF Under
<1>3. ASSUME stack # <<>> PROVE Under(Popped)
    BY <1>3, TopFacts DEF Under
<1>4. ASSUME stack # <<>>, NEW s \in Streams PROVE Under(Written(s))
    BY <1>4, WrittenFacts DEF Under
<1>. QED
    BY <1>1, <1>2, <1>3, <1>4

(* A packet's callback is the only one on the stack.                        *)
LEMMA EnterFacts ==
    ASSUME IndInv, NEW op \in Ops, Visit(op), Enter(op)
    PROVE  /\ stack' \in Seq(Contexts)
           /\ \A x : On(x, stack)' <=> x = op
           /\ \A x : LateOn(x, stack)' => x = op /\ op.o \in stop_
           /\ \A x : Once(x, stack)'
           /\ life[op.o] = "live" /\ UNCHANGED life
           /\ On(op, entries) /\ op.o \notin Clients => op \in flags
           /\ flags' = flags \ {op}
           /\ Busy(op)
<1>1. stack' = Append(<<>>, Callback(op, op.o \in stop_))
    BY DEF Enter
<1>2. /\ stack' \in Seq(Contexts)
      /\ \A x : On(x, stack)' <=> x = op
      /\ \A x : LateOn(x, stack)' => x = op /\ op.o \in stop_
      /\ \A x : Once(x, stack)'
    BY <1>1, InlineFacts, EmptyFacts, EmptySeq
<1>3. /\ entries # <<>> /\ Head(entries).op = op /\ life[op.o] = "live"
      /\ UNCHANGED life /\ flags' = flags \ {op} /\ entries \in Seq(Packets)
    BY DEF Visit, Taken, IndInv, TypeOK, ReactorType, Packets
<1>4. On(op, entries)
    BY <1>3, TailFacts
<1>. QED
    BY <1>2, <1>3, <1>4 DEF IndInv, KernelInv, Busy

(* A task's callback is the only one on the stack.                          *)
LEMMA TaskStack ==
    ASSUME stack' = <<Task>>
    PROVE  /\ stack' \in Seq(Contexts)
           /\ \A x : On(x, stack)' <=> x = Task.op
           /\ \A x : ~LateOn(x, stack)'
           /\ \A x : Once(x, stack)'
           /\ Task.op \notin Ops \union ErrorOps
<1>1. stack' = Append(<<>>, Task) /\ <<>> \in Seq(Contexts)
    BY EmptySeq
<1>2. Task \in Contexts /\ Task.late = FALSE /\ Task.op \notin Ops \union ErrorOps
    BY ContextFacts
<1>3. /\ Append(<<>>, Task) \in Seq(Contexts)
      /\ \A x : On(x, Append(<<>>, Task)) <=> x = Task.op
      /\ \A x : ~LateOn(x, Append(<<>>, Task))
      /\ \A x : Once(x, Append(<<>>, Task))
    BY <1>1, <1>2, PushFacts, EmptyFacts
<1>. QED
    BY <1>1, <1>2, <1>3, SameFacts

(* An object is alive while a callback of its runs.                         *)
LiveStack == \A x : On(x, stack) /\ x.o \in Objects => life[x.o] = "live"

LEMMA LiveStackStep == ASSUME IndInv, [Next]_vars PROVE LiveStack'
<1>a. /\ LiveStack /\ stack \in Seq(Contexts)
      /\ life \in [Objects -> {"new", "live", "deleted", "unused"}]
    BY DEF IndInv, LifeInv, TypeOK, ReactorType, LiveStack
<1>k. ASSUME NEW st, Under(st), stack' = st, UNCHANGED life
      PROVE  LiveStack'
    BY <1>a, <1>k, SameFacts DEF Under, LiveStack
<1>p. ASSUME NEW op \in Ops, NEW st, Under(st), Posts(op, st),
             life[op.o] = "live", UNCHANGED life
      PROVE  LiveStack'
  <2>1. \A x : On(x, stack)' => On(x, stack) \/ x.o = op.o
    BY <1>p, PostOn, ErrorFacts DEF Under
  <2>. QED
    BY <1>a, <1>p, <2>1 DEF LiveStack
<1>b. ASSUME NEW o \in Objects, life[o] = "new",
             life' = [life EXCEPT ![o] = "live"],
             \/ UNCHANGED stack
             \/ \E f \in Contexts : f.op.o = o /\ stack' = Append(stack, f)
      PROVE  LiveStack'
  <2>1. \A x : On(x, stack)' => On(x, stack) \/ x.o = o
    <3>1. CASE UNCHANGED stack
      BY <3>1, SameFacts
    <3>2. ASSUME NEW f \in Contexts, f.op.o = o, stack' = Append(stack, f)
          PROVE  \A x : On(x, stack)' => On(x, stack) \/ x.o = o
      BY <1>a, <3>2, PushFacts, SameFacts
    <3>. QED
      BY <1>b, <3>1, <3>2
  <2>. QED
    BY <1>a, <1>b, <2>1 DEF LiveStack
<1>e. ASSUME NEW op \in Ops, Visit(op), Enter(op)
      PROVE  LiveStack'
    BY <1>a, <1>e, EnterFacts DEF LiveStack
<1>t. ASSUME stack' \in {<<>>, <<Task>>}
      PROVE  LiveStack'
  <2>1. CASE stack' = <<>>
    BY <2>1, SameFacts, EmptyFacts DEF LiveStack
  <2>2. CASE stack' = <<Task>>
    BY <2>2, TaskStack, ContextFacts DEF LiveStack
  <2>. QED
    BY <1>t, <2>1, <2>2
<1>1. ASSUME NEW s \in Streams, StreamStep(s)
      PROVE  LiveStack'
  <2>1. CASE StreamStart(s)
    BY <1>b, <2>1, Disjoint DEF StreamStart
  <2>2. CASE StreamRead(s)
    BY <1>p, <2>2, UnderFacts, OpFacts DEF StreamRead, Posts, Calls
  <2>3. CASE StreamWrite(s)
    BY <1>p, <2>3, UnderFacts, OpFacts
       DEF StreamWrite, PostWrite, Posts, Calls, InUser
  <2>4. CASE StreamStop(s)
    BY <1>k, <2>4, UnderFacts DEF StreamStop
  <2>5. CASE RunRead(s)
    BY <1>e, <2>5, OpFacts DEF RunRead
  <2>6. CASE RunWrite(s)
    <3>1. CASE UNCHANGED stack
      BY <1>k, <2>6, <3>1, UnderFacts DEF RunWrite, Visit, Taken
    <3>. QED
      BY <1>e, <2>6, <3>1, OpFacts DEF RunWrite
  <2>7. CASE RunReadReturn(s)
    <3>1. Under(Popped) /\ life[s] = "live" /\ UNCHANGED life
      BY <2>7, ReturnFacts, UnderFacts, OpFacts DEF RunReadReturn
    <3>2. stack' = Popped \/ Posts(Read(s), Popped)
      BY <2>7 DEF RunReadReturn, NoPost, CallNone, PostRead, Posts
    <3>. QED
      BY <1>k, <1>p, <3>1, <3>2, OpFacts
  <2>8. CASE RunWriteReturn(s)
    BY <1>k, <2>8, ReturnFacts, UnderFacts, OpFacts
       DEF RunWriteReturn, NoPost, CallNone
  <2>. QED
    BY <1>1, <2>1, <2>2, <2>3, <2>4, <2>5, <2>6, <2>7, <2>8
       DEF StreamStep, StreamCall, StreamHandler
<1>2. ASSUME NEW a \in Acceptors, AcceptorStep(a)
      PROVE  LiveStack'
  <2>1. CASE AcceptorStart(a)
    <3>1. /\ Op(a, "start") \in ErrorOps /\ Op(a, "start").o = a
          /\ Op(a, "error") \in ErrorOps /\ Op(a, "error").o = a
      BY ErrorFacts, Disjoint
    <3>2. \E f \in Contexts : f.op.o = a /\ stack' = Append(stack, f)
      <4>1. CASE stack' = Append(stack, Callback(Op(a, "start"), FALSE))
        BY <3>1, <4>1, ContextFacts
      <4>2. CASE AcceptorStartFails(a)
        <5>1. stack' = Append(stack, Callback(Op(a, "error"),
                                              Op(a, "error").o \in stop_))
          BY <4>2 DEF AcceptorStartFails, CallInline
        <5>. QED
          BY <3>1, <5>1, NowFacts
      <4>. QED
        BY <2>1, <4>1, <4>2 DEF AcceptorStart, CallNone
    <3>. QED
      BY <1>b, <2>1, <3>2, Disjoint DEF AcceptorStart
  <2>2. CASE AcceptorStop(a)
    BY <1>k, <2>2, UnderFacts DEF AcceptorStop
  <2>3. CASE StartPosts(a)
    <3>1. /\ Under(Popped) /\ Under(stack) /\ life[a] = "live"
          /\ UNCHANGED life
      BY <1>a, <2>3, TopFacts, UnderFacts, ErrorFacts, Disjoint
         DEF StartPosts, LiveStack
    <3>2. CASE stack' = Popped
      BY <1>k, <3>1, <3>2
    <3>3. CASE tried[a] < NSlots
               /\ PostAcceptor(Accept(a, tried[a] + 1), stack, Popped)
      <4>1. tried[a] + 1 \in 1 .. NSlots
        BY <3>3, WinReactorAssumption DEF IndInv, TypeOK
      <4>. QED
        BY <1>p, <3>1, <3>3, <4>1, OpFacts DEF PostAcceptor, Posts
    <3>. QED
      BY <2>3, <3>2, <3>3 DEF StartPosts, NoPost, CallNone
  <2>4. ASSUME NEW op \in AcceptOps(a), RunAccept(op)
        PROVE  LiveStack'
    BY <1>e, <2>4, OpFacts DEF RunAccept
  <2>5. ASSUME NEW op \in AcceptOps(a), RunAcceptReturn(op)
        PROVE  LiveStack'
    <3>1. op \in Ops /\ op.o = a
      BY OpFacts
    <3>2. Under(Popped) /\ life[op.o] = "live" /\ UNCHANGED life
      BY <2>5, <3>1, ReturnFacts, UnderFacts DEF RunAcceptReturn
    <3>3. stack' = Popped \/ Posts(op, Popped)
      BY <2>5 DEF RunAcceptReturn, NoPost, CallNone, PostAcceptor, Posts
    <3>. QED
      BY <1>k, <1>p, <3>1, <3>2, <3>3
  <2>. QED
    BY <1>2, <2>1, <2>2, <2>3, <2>4, <2>5
       DEF AcceptorStep, AcceptorCall, AcceptorHandler
<1>3. ASSUME NEW c \in Clients, ClientStep(c)
      PROVE  LiveStack'
  <2>1. CASE ClientStart(c)
    <3>1. /\ Connect(c) \in Ops /\ Connect(c).o = c
          /\ Error(Connect(c)) \in ErrorOps /\ Error(Connect(c)).o = c
      BY OpFacts, ErrorFacts, Disjoint
    <3>2. \/ UNCHANGED stack
          \/ \E f \in Contexts : f.op.o = c /\ stack' = Append(stack, f)
      BY <2>1, <3>1, NowFacts DEF ClientStart, CallNone, CallInline
    <3>. QED
      BY <1>b, <2>1, <3>2, Disjoint DEF ClientStart
  <2>2. CASE ClientStop(c)
    BY <1>k, <2>2, UnderFacts DEF ClientStop
  <2>3. CASE RunConnect(c)
    BY <1>e, <2>3, OpFacts DEF RunConnect
  <2>4. CASE RunConnectReturn(c)
    BY <1>k, <2>4, ReturnFacts, UnderFacts, OpFacts
       DEF RunConnectReturn, NoPost, CallNone
  <2>. QED
    BY <1>3, <2>1, <2>2, <2>3, <2>4 DEF ClientStep, ClientCall, ClientHandler
<1>4. CASE FrameStep
  <2>1. CASE TakePackets \/ VisitDeleted \/ SwapLocal \/ DoneLocal
    BY <1>k, <2>1, UnderFacts
       DEF TakePackets, VisitDeleted, SwapLocal, DoneLocal
  <2>2. CASE RunMux \/ RunClose \/ OnTimer
    BY <1>t, <2>2 DEF RunMux, RunClose, OnTimer
  <2>3. CASE PlainReturn
    BY <1>k, <2>3, UnderFacts DEF PlainReturn, InUser
  <2>. QED
    BY <1>4, <2>1, <2>2, <2>3 DEF FrameStep, Frame
<1>5. ASSUME NEW op \in Ops, SystemStep(op)
      PROVE  LiveStack'
    BY <1>5, <1>k, UnderFacts DEF SystemStep, KPacket
<1>6. CASE UNCHANGED vars
    BY <1>6, <1>k, UnderFacts DEF vars, reactorVars
<1>. QED
    BY <1>1, <1>2, <1>3, <1>4, <1>5, <1>6, StepCases

-----------------------------------------------------------------------------
(* What a closed object leaves behind.                                      *)

(* A callback that may still write to a stopped stream is a late read.      *)
LEMMA LateWriter ==
    ASSUME UserContract, IndInv, NEW s \in Streams, StreamWrite(s),
           s \in stop_
    PROVE  /\ stack # <<>> /\ Top.op = Read(s)
           /\ LateOn(Read(s), stack)
<1>1. /\ stack # <<>> /\ Top.op.o = s /\ Top.late /\ Top.op.ev = "read"
    BY DEF StreamWrite, Calls, InUser, MayWrite, UserContract
<1>2. Top.op = Read(s)
  <2>1. Top = Task \/ Top.op \in Ops \union ErrorOps
    BY <1>1, TopFacts, ContextFacts
  <2>2. \A x \in ErrorOps : x.ev # "read"
    BY DEF ErrorOps
  <2>. QED
    BY <1>1, <2>1, <2>2, ContextFacts, OpFacts
<1>3. LateOn(Read(s), stack)
  <2>1. Len(stack) \in 1 .. Len(stack)
    BY <1>1, LenProperties, EmptySeq DEF IndInv
  <2>. QED
    BY <1>1, <1>2, <2>1 DEF LateOn, Top
<1>. QED
    BY <1>1, <1>2, <1>3

(* Operations begin for objects like that only, which are not closed but for*)
(* a write to a stream whose socket is open.                                *)
MayBegin(o) == life[o] = "live" /\ (o \in Clients => o \in sock_)

LateWrite(s) == s \in Streams /\ StreamWrite(s) /\ s \notin shut

Begun(o) == MayBegin(o)' /\ (o \notin close_' \/ LateWrite(o))

(* Users that keep to the contract do not write to a closed stream then.    *)
LEMMA NoLateWrite ==
    ASSUME UserContract, IndInv, LateInv, NEW s, LateWrite(s)
    PROVE  s \notin close_'
<1>1. close_ \subseteq stop_ /\ close_' = close_
    BY DEF LateWrite, StreamWrite, IndInv, TypeOK, ReactorType
<1>2. ASSUME s \in close_ PROVE FALSE
  <2>1. LateOn(Read(s), stack)
    BY <1>1, <1>2, LateWriter DEF LateWrite
  <2>. QED
    BY <1>2, <2>1 DEF LateWrite, LateInv
<1>. QED
    BY <1>1, <1>2

(* Nothing is posted for an object that is closed, or that is not there.    *)
LEMMA NewlyBusy ==
    ASSUME IndInv, [Next]_vars, NEW op \in Ops,
           ~Busy(op), Busy(op)'
    PROVE  Begun(op.o)
<1>a. /\ close_ \subseteq stop_ /\ inflight \subseteq Ops
      /\ port \in Seq(Packets) /\ entries \in Seq(Packets)
      /\ life \in [Objects -> {"new", "live", "deleted", "unused"}]
    BY DEF IndInv, TypeOK, ReactorType, Packets
<1>q. UNCHANGED <<inflight, port, entries>> => FALSE
    BY DEF Busy
<1>p. ASSUME NEW x \in Ops, NEW st \in Seq(Contexts), Posts(x, st),
             UNCHANGED <<port, entries>>
      PROVE  op = x /\ Pend(x, st)
  <2>1. inflight' # inflight
    BY <1>p, <1>q
  <2>2. Pend(x, st) /\ inflight' = inflight \union {x}
    BY <1>p, <2>1 DEF Posts, Pend, Ends, Fails
  <2>. QED
    BY <1>p, <2>2 DEF Busy
<1>v. ASSUME NEW x \in Ops, Visit(x)
      PROVE  FALSE
  <2>1. /\ entries # <<>> /\ entries' = Tail(entries)
        /\ UNCHANGED <<inflight, port>>
    BY <1>v DEF Visit, Taken
  <2>. QED
    BY <1>a, <2>1, TailFacts DEF Busy
<1>1. ASSUME NEW s \in Streams, StreamStep(s)
      PROVE  Begun(op.o)
  <2>0. Read(s).o = s /\ Write(s).o = s /\ Read(s) \in Ops /\ Write(s) \in Ops
        /\ s \notin Clients
    BY OpFacts, Disjoint
  <2>1. CASE StreamStart(s) \/ StreamStop(s) \/ RunWriteReturn(s)
    BY <1>q, <2>1
       DEF StreamStart, StreamStop, RunWriteReturn, NoPost, frameVars
  <2>2. CASE StreamRead(s)
    <3>1. /\ Posts(Read(s), stack) /\ UNCHANGED <<port, entries>>
          /\ life' = life /\ life[s] = "live" /\ s \notin stop_
          /\ close_' = close_
      BY <2>2 DEF StreamRead, Posts, Calls, frameVars
    <3>. QED
      BY <1>a, <1>p, <2>0, <3>1 DEF Begun, MayBegin, IndInv
  <2>3. CASE StreamWrite(s)
    <3>1. /\ PostWrite(s, Written(s)) /\ UNCHANGED <<port, entries>>
          /\ life' = life /\ life[s] = "live" /\ close_' = close_
          /\ stack # <<>>
      BY <2>3 DEF StreamWrite, Calls, InUser, frameVars
    <3>2. Written(s) \in Seq(Contexts)
      BY <3>1, WrittenFacts
    <3>3. op = Write(s) /\ Pend(Write(s), Written(s))
      BY <1>p, <2>0, <3>1, <3>2 DEF PostWrite, Posts
    <3>4. s \notin shut
      BY <1>q, <3>1 DEF PostWrite, Fails
    <3>. QED
      BY <2>0, <2>3, <3>1, <3>3, <3>4 DEF Begun, MayBegin, LateWrite
  <2>4. CASE RunRead(s) \/ RunWrite(s)
    BY <1>v, <2>0, <2>4 DEF RunRead, RunWrite
  <2>5. CASE RunReadReturn(s)
    <3>1. /\ UNCHANGED <<port, entries>> /\ life' = life
          /\ Popped \in Seq(Contexts) /\ life[s] = "live"
      BY <2>0, <2>5, ReturnFacts, TopFacts DEF RunReadReturn, frameVars
    <3>2. CASE UNCHANGED inflight
      BY <1>q, <3>1, <3>2
    <3>3. CASE s \notin stop_ /\ Posts(Read(s), Popped) /\ close_' = close_
      BY <1>a, <1>p, <2>0, <3>1, <3>3 DEF Begun, MayBegin
    <3>. QED
      BY <2>5, <3>2, <3>3
         DEF RunReadReturn, NoPost, PostRead, Posts, NoClose
  <2>. QED
    BY <1>1, <2>1, <2>2, <2>3, <2>4, <2>5
       DEF StreamStep, StreamCall, StreamHandler
<1>2. ASSUME NEW a \in Acceptors, AcceptorStep(a)
      PROVE  Begun(op.o)
  <2>0. a \notin Clients /\ a \in Objects
    BY Disjoint
  <2>1. CASE AcceptorStart(a) \/ AcceptorStop(a)
    BY <1>q, <2>1 DEF AcceptorStart, AcceptorStop, frameVars
  <2>2. CASE StartPosts(a)
    <3>1. UNCHANGED <<port, entries, close_, life>>
      BY <2>2 DEF StartPosts, frameVars
    <3>2. life[a] = "live"
      BY <2>0, <2>2, TopFacts, ErrorFacts DEF StartPosts, IndInv, LifeInv
    <3>3. CASE UNCHANGED inflight
      BY <1>q, <3>1, <3>3
    <3>4. CASE /\ a \notin stop_ /\ tried[a] < NSlots
               /\ Posts(Accept(a, tried[a] + 1), stack)
      <4>1. tried[a] + 1 \in 1 .. NSlots
        BY <3>4, WinReactorAssumption DEF IndInv, TypeOK
      <4>2. op.o = a
        BY <1>p, <3>1, <3>4, <4>1, OpFacts DEF IndInv
      <4>. QED
        BY <1>a, <2>0, <3>1, <3>2, <3>4, <4>2 DEF Begun, MayBegin
    <3>. QED
      BY <2>2, <3>3, <3>4
         DEF StartPosts, NoPost, PostAcceptor, Posts, Fails
  <2>3. ASSUME NEW x \in AcceptOps(a), RunAccept(x)
        PROVE  Begun(op.o)
    BY <1>v, <2>3, OpFacts DEF RunAccept
  <2>4. ASSUME NEW x \in AcceptOps(a), RunAcceptReturn(x)
        PROVE  Begun(op.o)
    <3>1. x \in Ops /\ x.o = a
      BY OpFacts
    <3>2. /\ UNCHANGED <<port, entries, life>>
          /\ Popped \in Seq(Contexts) /\ life[a] = "live"
      BY <2>4, <3>1, ReturnFacts, TopFacts DEF RunAcceptReturn, frameVars
    <3>3. CASE UNCHANGED inflight
      BY <1>q, <3>2, <3>3
    <3>4. CASE a \notin stop_ /\ Posts(x, Popped) /\ close_' = close_
      BY <1>a, <1>p, <2>0, <3>1, <3>2, <3>4 DEF Begun, MayBegin
    <3>. QED
      BY <2>4, <3>1, <3>3, <3>4
         DEF RunAcceptReturn, NoPost, PostAcceptor, Posts, NoClose
  <2>. QED
    BY <1>2, <2>1, <2>2, <2>3, <2>4
       DEF AcceptorStep, AcceptorCall, AcceptorHandler
<1>3. ASSUME NEW c \in Clients, ClientStep(c)
      PROVE  Begun(op.o)
  <2>0. Connect(c) \in Ops /\ Connect(c).o = c /\ c \in Objects
    BY OpFacts, Disjoint
  <2>1. CASE ClientStart(c)
    <3>1. /\ UNCHANGED <<port, entries, close_>> /\ life[c] = "new"
          /\ life' = [life EXCEPT ![c] = "live"]
          /\ \/ UNCHANGED inflight
             \/ /\ inflight' = inflight \union {Connect(c)}
                /\ sock_' = sock_ \union {c}
      BY <2>1 DEF ClientStart, frameVars
    <3>2. op = Connect(c) /\ sock_' = sock_ \union {c}
      BY <1>q, <3>1 DEF Busy
    <3>3. c \notin close_
      BY <1>a, <3>1 DEF IndInv, LifeInv
    <3>. QED
      BY <1>a, <2>0, <3>1, <3>2, <3>3 DEF Begun, MayBegin
  <2>2. CASE ClientStop(c) \/ RunConnectReturn(c)
    BY <1>q, <2>2 DEF ClientStop, RunConnectReturn, NoPost, frameVars
  <2>3. CASE RunConnect(c)
    BY <1>v, <2>0, <2>3 DEF RunConnect
  <2>. QED
    BY <1>3, <2>1, <2>2, <2>3 DEF ClientStep, ClientCall, ClientHandler
<1>4. CASE FrameStep
  <2>1. CASE TakePackets
    BY <1>4, <2>1, EmptyFacts DEF TakePackets, FrameStep, Frame, Busy
  <2>2. CASE UNCHANGED <<port, entries>>
    BY <1>4, <1>q, <2>2 DEF FrameStep, Frame
  <2>. QED
    BY <1>4, <2>1, <2>2
       DEF FrameStep, Frame, VisitDeleted, RunMux, SwapLocal, RunClose,
           DoneLocal, OnTimer, PlainReturn, frameVars
<1>5. ASSUME NEW x \in Ops, SystemStep(x)
      PROVE  FALSE
  <2>1. PICK ok \in BOOLEAN : KPacket(x, ok)
    BY <1>5 DEF SystemStep
  <2> DEFINE p == [op |-> x, ok |-> ok]
  <2>2. /\ x \in inflight /\ inflight' = inflight \ {x}
        /\ port' = Append(port, p) /\ UNCHANGED entries
    BY <2>1 DEF KPacket, frameVars
  <2>3. p \in Packets /\ p.op = x
    BY DEF Packets
  <2>4. \A y : On(y, Append(port, p)) <=> On(y, port) \/ y = x
    BY <1>a, <2>3, PushFacts
  <2>. QED
    BY <2>2, <2>4 DEF Busy
<1>6. CASE UNCHANGED vars
    BY <1>6, <1>q DEF vars, reactorVars, frameVars
<1>. QED
    BY <1>1, <1>2, <1>3, <1>4, <1>5, <1>6, StepCases

(* The steps that close an object o.                                        *)
ClosingStep(o) ==
    \/ o \in Streams /\ StreamStop(o) /\ OfStream
    \/ o \in Streams /\ RunReadReturn(o) /\ ClosesAfterRead(o) /\ NoPost(Popped)
    \/ o \in Streams /\ RunWriteReturn(o) /\ ClosesAfterWrite(o)
    \/ o \in Acceptors /\ AcceptorStop(o) /\ Doing(o) = {}
    \/ o \in Acceptors /\ \E op \in AcceptOps(o) :
          RunAcceptReturn(op) /\ ClosesWithLast(o) /\ NoPost(Popped)
    \/ o \in Clients /\ ClientStop(o) /\ o \notin sock_
    \/ o \in Clients /\ RunConnectReturn(o)

LEMMA ClosingSteps ==
    ASSUME [Next]_vars, NEW o, o \notin close_, o \in close_'
    PROVE  ClosingStep(o)
<1>1. ASSUME NEW s \in Streams, StreamStep(s)
      PROVE  ClosingStep(o)
  <2>1. CASE StreamStop(s)
    BY <1>1, <2>1 DEF StreamStop, StreamPostToClose, PostToClose, NoClose,
                      ClosingStep, StreamStep
  <2>2. CASE RunReadReturn(s)
    BY <2>2 DEF RunReadReturn, StreamPostToClose, PostToClose, NoClose,
                ClosingStep
  <2>3. CASE RunWriteReturn(s)
    BY <2>3 DEF RunWriteReturn, StreamPostToClose, PostToClose, NoClose,
                ClosingStep
  <2>4. CASE StreamStart(s) \/ StreamRead(s) \/ StreamWrite(s)
    BY <2>4 DEF StreamStart, StreamRead, StreamWrite
  <2>5. CASE RunRead(s) \/ RunWrite(s)
    BY <2>5 DEF RunRead, RunWrite, Visit, Taken
  <2>. QED
    BY <1>1, <2>1, <2>2, <2>3, <2>4, <2>5
       DEF StreamStep, StreamCall, StreamHandler
<1>2. ASSUME NEW a \in Acceptors, AcceptorStep(a)
      PROVE  ClosingStep(o)
  <2>1. CASE AcceptorStop(a)
    BY <2>1 DEF AcceptorStop, AcceptorPostClose, PostToClose, NoClose,
                ClosingStep
  <2>2. ASSUME NEW op \in AcceptOps(a), RunAcceptReturn(op)
        PROVE  ClosingStep(o)
    <3>1. op.o = a
      BY OpFacts
    <3>2. o = a /\ ClosesWithLast(a) /\ NoPost(Popped)
      BY <2>2, <3>1 DEF RunAcceptReturn, AcceptorPostClose, PostToClose,
                        NoClose
    <3>. QED
      BY <2>2, <3>2 DEF ClosingStep
  <2>3. CASE AcceptorStart(a) \/ StartPosts(a)
    BY <2>3 DEF AcceptorStart, StartPosts
  <2>4. ASSUME NEW op \in AcceptOps(a), RunAccept(op)
        PROVE  FALSE
    BY <2>4 DEF RunAccept, Visit, Taken
  <2>. QED
    BY <1>2, <2>1, <2>2, <2>3, <2>4
       DEF AcceptorStep, AcceptorCall, AcceptorHandler
<1>3. ASSUME NEW c \in Clients, ClientStep(c)
      PROVE  ClosingStep(o)
  <2>1. CASE ClientStop(c)
    BY <2>1 DEF ClientStop, ClientPostToClose, PostToClose, NoClose,
                ClosingStep
  <2>2. CASE RunConnectReturn(c)
    BY <2>2 DEF RunConnectReturn, ClientPostToClose, PostToClose, NoClose,
                ClosingStep
  <2>3. CASE ClientStart(c)
    BY <2>3 DEF ClientStart
  <2>4. CASE RunConnect(c)
    BY <2>4 DEF RunConnect, Visit, Taken
  <2>. QED
    BY <1>3, <2>1, <2>2, <2>3, <2>4 DEF ClientStep, ClientCall, ClientHandler
<1>4. CASE FrameStep
    BY <1>4 DEF FrameStep, Frame
<1>5. ASSUME NEW x \in Ops, SystemStep(x)
      PROVE  FALSE
    BY <1>5 DEF SystemStep, KPacket
<1>6. CASE UNCHANGED vars
    BY <1>6 DEF vars, reactorVars
<1>. QED
    BY <1>1, <1>2, <1>3, <1>4, <1>5, <1>6, StepCases

(* Nothing is in flight for what is closed, but a read with a closed socket.*)
LEMMA NewlyClosed ==
    ASSUME IndInv, [Next]_vars, NEW op \in Ops, op.o \notin close_,
           op.o \in close_', Busy(op)'
    PROVE  op.ev = "read" /\ op.o \in shut'
<1>a. /\ KernelInv /\ ConnectInv /\ StackInv
    BY DEF IndInv
<1>b. ASSUME UNCHANGED <<inflight, port, entries>>
      PROVE  Busy(op) /\ (op.o \notin Clients => op \in flags)
    BY <1>a, <1>b DEF Busy, KernelInv
<1> DEFINE o == op.o
<1>0. ClosingStep(o)
    BY ClosingSteps
<1>d. Streams \intersect Clients = {} /\ Acceptors \intersect Clients = {}
    BY Disjoint
<1>1. CASE o \in Streams /\ StreamStop(o)
  <2>1. op \in flags
    BY <1>1, <1>b, <1>d DEF StreamStop, frameVars
  <2>2. o \notin writing /\ (o \in reading => o \in shut')
    BY <1>1 DEF StreamStop, NoClose
  <2>. QED
    BY <1>1, <2>1, <2>2, OpFacts DEF writing, reading
<1>2. CASE o \in Streams /\ RunReadReturn(o) /\ ClosesAfterRead(o)
           /\ NoPost(Popped)
  <2>1. op \in flags
    BY <1>2, <1>b, <1>d DEF RunReadReturn, NoPost, frameVars
  <2>2. Read(o) \notin flags /\ Write(o) \notin flags
    BY <1>2, ReturnFacts, OpFacts
       DEF RunReadReturn, ClosesAfterRead, writing, Repeats
  <2>. QED
    BY <1>2, <2>1, <2>2, OpFacts
<1>3. CASE o \in Streams /\ RunWriteReturn(o) /\ ClosesAfterWrite(o)
  <2>1. op \in flags
    BY <1>3, <1>b, <1>d DEF RunWriteReturn, NoPost, frameVars
  <2>. QED
    BY <1>3, <2>1, OpFacts DEF ClosesAfterWrite, reading, writing
<1>4. CASE o \in Acceptors /\ AcceptorStop(o) /\ Doing(o) = {}
  <2>1. op \in flags
    BY <1>4, <1>b, <1>d DEF AcceptorStop, frameVars
  <2>. QED
    BY <1>4, <2>1, OpFacts DEF Doing
<1>5. ASSUME o \in Acceptors, NEW x \in AcceptOps(o), RunAcceptReturn(x),
             ClosesWithLast(o), NoPost(Popped)
      PROVE  FALSE
  <2>1. op \in flags
    BY <1>5, <1>b, <1>d DEF RunAcceptReturn, NoPost, frameVars
  <2>. QED
    BY <1>5, <2>1, OpFacts DEF ClosesWithLast, Doing
<1>6. CASE o \in Clients /\ ClientStop(o) /\ o \notin sock_
  <2>1. Busy(op)
    BY <1>6, <1>b DEF ClientStop, frameVars
  <2>. QED
    BY <1>a, <1>6, <2>1, OpFacts DEF ConnectInv
<1>7. CASE o \in Clients /\ RunConnectReturn(o)
  <2>1. Busy(op)
    BY <1>7, <1>b DEF RunConnectReturn, NoPost, frameVars
  <2>2. o \notin sock_
    BY <1>a, <1>7, ReturnFacts, OpFacts DEF RunConnectReturn, StackInv
  <2>. QED
    BY <1>a, <1>7, <2>1, <2>2, OpFacts DEF ConnectInv
<1>. QED
    BY <1>0, <1>1, <1>2, <1>3, <1>4, <1>5, <1>6, <1>7 DEF ClosingStep

(* A socket that is closed stays so, and a client gives its away only when  *)
(* the packet of its connect is taken.                                      *)
LEMMA SocketSteps ==
    ASSUME IndInv, [Next]_vars
    PROVE  /\ shut \subseteq shut'
           /\ \A c \in sock_ : c \in sock_' \/ ~Busy(Connect(c))'
<1>1. ASSUME NEW s \in Streams, StreamStep(s)
      PROVE  shut \subseteq shut' /\ UNCHANGED sock_
  <2>1. UNCHANGED sock_
    BY <1>1 DEF StreamStep, OfStream, clientVars
  <2>2. shut \subseteq shut'
    BY <1>1 DEF StreamStep, StreamCall, StreamHandler, StreamStart, StreamRead,
                StreamWrite, StreamStop, RunRead, RunReadReturn, RunWrite,
                RunWriteReturn
  <2>. QED
    BY <2>1, <2>2
<1>2. ASSUME NEW c \in Clients, ClientStep(c)
      PROVE  /\ UNCHANGED shut
             /\ \A x \in sock_ : x \in sock_' \/ ~Busy(Connect(x))'
  <2>1. UNCHANGED shut
    BY <1>2 DEF ClientStep, OfClient, streamVars
  <2>2. CASE ClientStart(c) \/ ClientStop(c) \/ RunConnectReturn(c)
    BY <2>1, <2>2 DEF ClientStart, ClientStop, RunConnectReturn
  <2>3. CASE RunConnect(c)
    <3>1. /\ sock_' = sock_ \ {c} /\ entries # <<>>
          /\ Head(entries).op = Connect(c) /\ entries' = Tail(entries)
          /\ UNCHANGED <<inflight, port>>
      BY <2>3 DEF RunConnect, Visit, Taken
    <3>2. entries \in Seq(Packets)
      BY DEF IndInv, TypeOK, ReactorType, Packets
    <3>3. /\ On(Connect(c), entries) /\ Once(Connect(c), entries)
          /\ ~On(Connect(c), Tail(entries))
          /\ Connect(c) \notin inflight /\ ~On(Connect(c), port)
      BY <3>1, <3>2, TailFacts, OpFacts DEF IndInv, KernelInv
    <3>4. ~Busy(Connect(c))'
      BY <3>1, <3>3 DEF Busy
    <3>. QED
      BY <2>1, <3>1, <3>4
  <2>. QED
    BY <1>2, <2>2, <2>3, <2>1 DEF ClientStep, ClientCall, ClientHandler
<1>3. CASE UNCHANGED <<shut, sock_>>
    BY <1>3
<1>. QED
    BY <1>1, <1>2, <1>3, StepCases
       DEF AcceptorStep, OfAcceptor, FrameStep, SystemStep, OfLoop, streamVars,
           clientVars, vars

LEMMA QuietStep ==
    ASSUME UserContract, IndInv, CalmInv, [Next]_vars
    PROVE  QuietInv'
<1> SUFFICES ASSUME NEW op \in Ops, op.o \in close_', Busy(op)'
             PROVE  op.ev = "read" /\ op.o \in shut'
    BY DEF QuietInv
<1>1. Busy(op)
    BY NewlyBusy, NoLateWrite DEF Begun, CalmInv
<1>2. CASE op.o \in close_
    BY <1>1, <1>2, SocketSteps DEF CalmInv, QuietInv
<1>3. CASE op.o \notin close_
    BY <1>3, NewlyClosed
<1>. QED
    BY <1>2, <1>3

LEMMA ConnectStep == ASSUME IndInv, [Next]_vars PROVE ConnectInv'
<1> SUFFICES ASSUME NEW c \in Clients, Busy(Connect(c))'
             PROVE  c \in sock_'
    BY DEF ConnectInv
<1>1. CASE Busy(Connect(c))
    BY <1>1, SocketSteps DEF IndInv, ConnectInv
<1>2. CASE ~Busy(Connect(c))
    BY <1>2, NewlyBusy, OpFacts DEF Begun, MayBegin
<1>. QED
    BY <1>1, <1>2

-----------------------------------------------------------------------------
(* The life of an object.                                                   *)

There(o) == life[o] \in {"live", "deleted"}

LEMMA LifeCases ==
    ASSUME IndInv, [Next]_vars
    PROVE  /\ \A o \in Objects : There(o) => There(o)'
           /\ \A o \in Objects : life[o] = "deleted" => life'[o] = "deleted"
           /\ \A o \in Objects : life'[o] = "deleted" => o \in close_'
<1>a. /\ life \in [Objects -> {"new", "live", "deleted", "unused"}]
      /\ \A o \in Objects : life[o] = "deleted" => o \in close_
    BY DEF IndInv, LifeInv, TypeOK, ReactorType
<1>1. CASE UNCHANGED life /\ close_ \subseteq close_'
    BY <1>a, <1>1 DEF There
<1>2. ASSUME NEW o \in Objects, Begins(o), UNCHANGED close_
      PROVE  /\ \A x \in Objects : There(x) => There(x)'
             /\ \A x \in Objects : life[x] = "deleted" => life'[x] = "deleted"
             /\ \A x \in Objects : life'[x] = "deleted" => x \in close_'
    BY <1>a, <1>2 DEF There, Begins
<1>3. CASE RunClose /\ UNCHANGED close_
  <2>1. /\ life' = [life EXCEPT ![Head(pendings1)] = "deleted"]
        /\ Head(pendings1) \in close_
    BY <1>3, FrontClosed DEF RunClose
  <2>. QED
    BY <1>a, <1>3, <2>1 DEF There
<1>. QED
    BY <1>1, <1>2, <1>3, CloseCases DEF ClosesNone, SwapLocal, Closes

LEMMA StopCases ==
    ASSUME [Next]_vars, NEW o, o \notin stop_, o \in stop_'
    PROVE  life[o] = "live" /\ UNCHANGED life
<1>1. ASSUME NEW s \in Streams, StreamStep(s)
      PROVE  life[o] = "live" /\ UNCHANGED life
  <2>1. CASE StreamStop(s)
    BY <2>1 DEF StreamStop, Calls
  <2>2. CASE StreamStart(s) \/ StreamRead(s) \/ StreamWrite(s)
    BY <2>2 DEF StreamStart, StreamRead, StreamWrite
  <2>3. CASE StreamHandler(s)
    BY <2>3 DEF StreamHandler, RunRead, RunReadReturn, RunWrite,
                RunWriteReturn, Visit, Taken
  <2>. QED
    BY <1>1, <2>1, <2>2, <2>3 DEF StreamStep, StreamCall
<1>2. ASSUME NEW a \in Acceptors, AcceptorStep(a)
      PROVE  life[o] = "live" /\ UNCHANGED life
  <2>1. CASE AcceptorStop(a)
    BY <2>1 DEF AcceptorStop, Calls
  <2>2. CASE AcceptorStart(a) \/ AcceptorHandler(a)
    BY <2>2 DEF AcceptorStart, AcceptorHandler, StartPosts, RunAccept,
                RunAcceptReturn, Visit, Taken
  <2>. QED
    BY <1>2, <2>1, <2>2 DEF AcceptorStep, AcceptorCall
<1>3. ASSUME NEW c \in Clients, ClientStep(c)
      PROVE  life[o] = "live" /\ UNCHANGED life
  <2>1. CASE ClientStop(c)
    BY <2>1 DEF ClientStop, Calls
  <2>2. CASE ClientStart(c) \/ ClientHandler(c)
    BY <2>2 DEF ClientStart, ClientHandler, RunConnect, RunConnectReturn,
                Visit, Taken
  <2>. QED
    BY <1>3, <2>1, <2>2 DEF ClientStep, ClientCall
<1>4. CASE FrameStep
    BY <1>4 DEF FrameStep, Frame
<1>5. ASSUME NEW x \in Ops, SystemStep(x)
      PROVE  FALSE
    BY <1>5 DEF SystemStep, KPacket
<1>6. CASE UNCHANGED vars
    BY <1>6 DEF vars, reactorVars
<1>. QED
    BY <1>1, <1>2, <1>3, <1>4, <1>5, <1>6, StepCases

LEMMA LifeStep == ASSUME IndInv, [Next]_vars PROVE LifeInv'
<1>a. /\ life \in [Objects -> {"new", "live", "deleted", "unused"}]
      /\ stop_ \subseteq Objects /\ sock_ \subseteq Clients /\ LifeInv
    BY DEF IndInv, TypeOK, ReactorType
<1>1. ASSUME NEW o \in stop_'
      PROVE  There(o)'
  <2>1. CASE o \in stop_
    BY <1>a, <2>1, LifeCases DEF LifeInv, There
  <2>2. CASE o \notin stop_
    BY <1>1, <2>2, StopCases DEF There
  <2>. QED
    BY <2>1, <2>2
<1>2. ASSUME NEW op \in Ops, Busy(op)'
      PROVE  There(op.o)'
  <2>1. CASE Busy(op)
    BY <1>a, <2>1, LifeCases, OpFacts DEF LifeInv, There
  <2>2. CASE ~Busy(op)
    BY <1>2, <2>2, NewlyBusy DEF Begun, MayBegin, There
  <2>. QED
    BY <2>1, <2>2
<1>3. ASSUME NEW c \in sock_'
      PROVE  There(c)'
  <2>1. CASE c \in sock_
    BY <1>a, <2>1, LifeCases, Disjoint DEF LifeInv, There
  <2>2. CASE c \notin sock_
    <3>1. ASSUME NEW x \in Clients, ClientStep(x)
          PROVE  c = x /\ life' = [life EXCEPT ![x] = "live"]
      BY <1>3, <2>2, <3>1
         DEF ClientStep, ClientCall, ClientHandler, ClientStart, ClientStop,
             RunConnect, RunConnectReturn
    <3>2. ~UNCHANGED sock_
      BY <1>3, <2>2
    <3>3. \E x \in Clients : ClientStep(x)
      BY <3>2, StepCases
         DEF StreamStep, OfStream, AcceptorStep, OfAcceptor, FrameStep,
             SystemStep, OfLoop, clientVars, vars
    <3>. QED
      BY <1>a, <3>1, <3>3, Disjoint DEF There
  <2>. QED
    BY <2>1, <2>2
<1>4. \A x : On(x, stack)' /\ x.o \in Objects => life'[x.o] = "live"
    BY LiveStackStep DEF LiveStack
<1>5. \A o \in Objects : life'[o] = "deleted" => o \in close_'
    BY LifeCases
<1>. QED
    BY <1>1, <1>2, <1>3, <1>4, <1>5 DEF LifeInv, There

-----------------------------------------------------------------------------
(* What a step does to the stack, for all but start() of an acceptor or of  *)
(* a client.                                                                *)

Keeps == \E st : Under(st) /\ stack' = st /\ flags' \subseteq flags

Enters(op) == Visit(op) /\ Enter(op) /\ (op.o \in Clients => RunConnect(op.o))

Posting(op, st) ==
    /\ Under(st) /\ Posts(op, st)
    /\ op \in Repeats => op \notin flags /\ ~On(op, st) /\ op.o \notin stop_
    /\ op.ev = "read" /\ (op \in flags' \/ On(op, stack)') =>
          asked'[op.o] = "ok"
    /\ op.ev = "accept" => op.slot <= tried'[op.o]
    /\ op.ev = "write" => StreamWrite(op.o) /\ st = Written(op.o)
    /\ op.o \notin Clients

StackChange ==
    \/ Keeps
    \/ \E op \in Ops : Enters(op)
    \/ \E op \in Ops : \E st : Posting(op, st)
    \/ stack' = <<Task>> /\ UNCHANGED flags
    \/ \E a \in Acceptors : AcceptorStart(a)
    \/ \E c \in Clients : ClientStart(c)

(* read() is called once, and the slots of start() are used in turn.        *)
LEMMA CountsGrow ==
    ASSUME IndInv, [Next]_vars
    PROVE  /\ asked' \in [Streams -> {"no", "ok", "failed"}]
           /\ tried' \in [Acceptors -> 0 .. NSlots]
           /\ \A s \in Streams : asked[s] = "ok" => asked'[s] = "ok"
           /\ \A a \in Acceptors : tried[a] <= tried'[a]
<1>a. /\ asked \in [Streams -> {"no", "ok", "failed"}]
      /\ tried \in [Acceptors -> 0 .. NSlots] /\ NSlots \in Nat
    BY WinReactorAssumption DEF IndInv, TypeOK
<1>1. /\ asked' \in [Streams -> {"no", "ok", "failed"}]
      /\ \A x \in Streams : asked[x] = "ok" => asked'[x] = "ok"
  <2>1. ASSUME NEW s \in Streams, StreamRead(s)
        PROVE  /\ asked' \in [Streams -> {"no", "ok", "failed"}]
               /\ \A x \in Streams : asked[x] = "ok" => asked'[x] = "ok"
    <3>1. asked[s] = "no" /\ \E v \in {"ok", "failed"} :
              asked' = [asked EXCEPT ![s] = v]
      BY <2>1 DEF StreamRead
    <3>. QED
      BY <1>a, <3>1
  <2>2. ASSUME NEW s \in Streams, StreamStep(s)
        PROVE  UNCHANGED asked \/ StreamRead(s)
    BY <2>2 DEF StreamStep, StreamCall, StreamStart, StreamWrite, StreamStop,
                StreamHandler, RunRead, RunReadReturn, RunWrite,
                RunWriteReturn
  <2>3. UNCHANGED asked \/ \E s \in Streams : StreamStep(s)
    BY StepCases DEF AcceptorStep, OfAcceptor, ClientStep, OfClient, FrameStep,
                     SystemStep, OfLoop, streamVars, vars
  <2>. QED
    BY <1>a, <2>1, <2>2, <2>3
<1>2. /\ tried' \in [Acceptors -> 0 .. NSlots]
      /\ \A x \in Acceptors : tried[x] <= tried'[x]
  <2>1. ASSUME NEW a \in Acceptors, StartPosts(a)
        PROVE  /\ tried' \in [Acceptors -> 0 .. NSlots]
               /\ \A x \in Acceptors : tried[x] <= tried'[x]
    <3>1. \/ UNCHANGED tried
          \/ tried[a] < NSlots /\ tried' = [tried EXCEPT ![a] = @ + 1]
      BY <2>1 DEF StartPosts
    <3>. QED
      BY <1>a, <3>1
  <2>2. ASSUME NEW a \in Acceptors, AcceptorStep(a)
        PROVE  UNCHANGED tried \/ StartPosts(a)
    BY <2>2 DEF AcceptorStep, AcceptorCall, AcceptorHandler, AcceptorStart,
                AcceptorStop, RunAccept, RunAcceptReturn
  <2>3. UNCHANGED tried \/ \E a \in Acceptors : AcceptorStep(a)
    BY StepCases DEF StreamStep, OfStream, ClientStep, OfClient, FrameStep,
                     SystemStep, OfLoop, acceptorVars, vars
  <2>. QED
    BY <1>a, <2>1, <2>2, <2>3
<1>. QED
    BY <1>1, <1>2

LEMMA StackCases == ASSUME IndInv, [Next]_vars PROVE StackChange
<1>a. /\ StackInv /\ stack \in Seq(Contexts)
    BY DEF IndInv
<1>k. ASSUME NEW st, Under(st), stack' = st, flags' \subseteq flags
      PROVE  StackChange
    BY <1>k DEF StackChange, Keeps
<1>1. ASSUME NEW s \in Streams, StreamStep(s)
      PROVE  StackChange
  <2>0. /\ Read(s) \in Ops /\ Read(s).o = s /\ Read(s).ev = "read"
        /\ Write(s) \in Ops /\ Write(s).o = s /\ Write(s).ev = "write"
        /\ s \notin Clients /\ Write(s) \notin Repeats
    BY OpFacts, Disjoint DEF Repeats
  <2>1. CASE StreamStart(s) \/ StreamStop(s)
    BY <1>k, <2>1, UnderFacts DEF StreamStart, StreamStop
  <2>2. CASE StreamRead(s)
    <3>1. Read(s) \notin flags /\ ~On(Read(s), stack) /\ s \notin stop_
      BY <1>a, <2>2 DEF StreamRead, StackInv
    <3>2. Posts(Read(s), stack)
      BY <2>2 DEF StreamRead, Posts
    <3>3. ASSUME Read(s) \in flags' \/ On(Read(s), stack)'
          PROVE  asked'[s] = "ok"
      <4>1. CASE asked' = [asked EXCEPT ![s] = "ok"]
        BY <4>1 DEF IndInv, TypeOK
      <4>2. CASE Fails(Read(s), stack)
        <5>1. /\ Error(Read(s)) \in ErrorOps /\ Error(Read(s)) # Read(s)
          BY <2>0, OpFacts, ErrorFacts
        <5>2. ~On(Read(s), stack)' /\ UNCHANGED flags
          BY <1>a, <3>1, <4>2, <5>1, InlineFacts DEF Fails, CallInline
        <5>. QED
          BY <3>1, <3>3, <5>2
      <4>. QED
        BY <2>2, <4>1, <4>2 DEF StreamRead
    <3>. QED
      BY <2>0, <3>1, <3>2, <3>3, UnderFacts DEF StackChange, Posting
  <2>3. CASE StreamWrite(s)
    <3>1. Posts(Write(s), Written(s)) /\ Under(Written(s))
      BY <2>3, UnderFacts DEF StreamWrite, PostWrite, Posts, Calls, InUser
    <3>. QED
      BY <2>0, <2>3, <3>1 DEF StackChange, Posting
  <2>4. CASE RunRead(s)
    BY <2>0, <2>4 DEF RunRead, StackChange, Enters
  <2>5. CASE RunWrite(s)
    <3>1. CASE UNCHANGED stack
      BY <1>k, <2>5, <3>1, UnderFacts DEF RunWrite, Visit
    <3>2. CASE Enter(Write(s))
      BY <2>0, <2>5, <3>2 DEF RunWrite, StackChange, Enters
    <3>. QED
      BY <2>5, <3>1, <3>2 DEF RunWrite
  <2>6. CASE RunReadReturn(s)
    <3>1. Under(Popped)
      BY <2>0, <2>6, ReturnFacts, UnderFacts DEF RunReadReturn
    <3>2. CASE NoPost(Popped)
      BY <1>k, <3>1, <3>2 DEF NoPost, CallNone
    <3>3. CASE s \notin stop_ /\ Posts(Read(s), Popped)
      <4>1. /\ Read(s) \notin flags /\ ~On(Read(s), Popped)
            /\ On(Read(s), stack)
        BY <2>0, <2>6, ReturnFacts DEF RunReadReturn, Repeats
      <4>2. asked'[s] = "ok"
        BY <1>a, <2>6, <4>1 DEF RunReadReturn, StackInv
      <4>. QED
        BY <2>0, <3>1, <3>3, <4>1, <4>2 DEF StackChange, Posting
    <3>. QED
      BY <2>6, <3>2, <3>3 DEF RunReadReturn, PostRead, Posts
  <2>7. CASE RunWriteReturn(s)
    BY <1>k, <2>0, <2>7, ReturnFacts, UnderFacts
       DEF RunWriteReturn, NoPost, CallNone
  <2>. QED
    BY <1>1, <2>1, <2>2, <2>3, <2>4, <2>5, <2>6, <2>7
       DEF StreamStep, StreamCall, StreamHandler
<1>2. ASSUME NEW a \in Acceptors, AcceptorStep(a)
      PROVE  StackChange
  <2>0. a \notin Clients
    BY Disjoint
  <2>1. CASE AcceptorStop(a)
    BY <1>k, <2>1, UnderFacts DEF AcceptorStop
  <2>2. CASE StartPosts(a)
    <3>1. Under(Popped) /\ Under(stack)
      BY <2>2, UnderFacts DEF StartPosts
    <3>2. CASE NoPost(Popped)
      BY <1>k, <3>1, <3>2 DEF NoPost, CallNone
    <3>3. CASE /\ a \notin stop_ /\ tried[a] < NSlots
               /\ tried' = [tried EXCEPT ![a] = @ + 1]
               /\ PostAcceptor(Accept(a, tried[a] + 1), stack, Popped)
      <4> DEFINE n == tried[a] + 1
      <4>1. n \in 1 .. NSlots /\ ~(n <= tried[a]) /\ n <= tried'[a]
        BY <3>3, WinReactorAssumption DEF IndInv, TypeOK
      <4>2. /\ Accept(a, n) \in Ops /\ Accept(a, n).o = a
            /\ Accept(a, n).ev = "accept" /\ Accept(a, n).slot = n
        BY <4>1, OpFacts
      <4>3. Accept(a, n) \notin flags /\ ~On(Accept(a, n), stack)
        BY <1>a, <4>1, <4>2 DEF StackInv
      <4>4. ~On(Accept(a, n), Popped)
        BY <3>1, <4>3 DEF Under
      <4>5. \E st \in {stack, Popped} : Posts(Accept(a, n), st)
        BY <3>3 DEF PostAcceptor, Posts
      <4>. QED
        BY <2>0, <3>1, <3>3, <4>1, <4>2, <4>3, <4>4, <4>5
           DEF StackChange, Posting
    <3>. QED
      BY <2>2, <3>2, <3>3 DEF StartPosts
  <2>3. ASSUME NEW op \in AcceptOps(a), RunAccept(op)
        PROVE  StackChange
    BY <2>0, <2>3, OpFacts DEF RunAccept, StackChange, Enters
  <2>4. ASSUME NEW op \in AcceptOps(a), RunAcceptReturn(op)
        PROVE  StackChange
    <3>1. op \in Ops /\ op \in Repeats /\ op.o = a /\ op.ev = "accept"
      BY OpFacts DEF Repeats
    <3>2. /\ op \notin flags /\ ~On(op, Popped) /\ On(op, stack)
          /\ Under(Popped)
      BY <2>4, <3>1, ReturnFacts, UnderFacts DEF RunAcceptReturn
    <3>3. CASE NoPost(Popped)
      BY <1>k, <3>2, <3>3 DEF NoPost, CallNone
    <3>4. CASE a \notin stop_ /\ Posts(op, Popped)
      <4>1. op.slot <= tried'[op.o]
        BY <1>a, <2>4, <3>1, <3>2 DEF RunAcceptReturn, StackInv
      <4>. QED
        BY <2>0, <3>1, <3>2, <3>4, <4>1 DEF StackChange, Posting
    <3>. QED
      BY <2>4, <3>1, <3>3, <3>4 DEF RunAcceptReturn, PostAcceptor, Posts
  <2>5. CASE AcceptorStart(a)
    BY <2>5 DEF StackChange
  <2>. QED
    BY <1>2, <2>1, <2>2, <2>3, <2>4, <2>5
       DEF AcceptorStep, AcceptorCall, AcceptorHandler
<1>3. ASSUME NEW c \in Clients, ClientStep(c)
      PROVE  StackChange
  <2>0. Connect(c) \in Ops /\ Connect(c).o = c
    BY OpFacts
  <2>1. CASE ClientStart(c)
    BY <2>1 DEF StackChange
  <2>2. CASE ClientStop(c)
    BY <1>k, <2>2, UnderFacts DEF ClientStop
  <2>3. CASE RunConnect(c)
    BY <2>0, <2>3 DEF RunConnect, StackChange, Enters
  <2>4. CASE RunConnectReturn(c)
    BY <1>k, <2>0, <2>4, ReturnFacts, UnderFacts
       DEF RunConnectReturn, NoPost, CallNone
  <2>. QED
    BY <1>3, <2>1, <2>2, <2>3, <2>4 DEF ClientStep, ClientCall, ClientHandler
<1>4. CASE FrameStep
  <2>0. UNCHANGED flags
    BY <1>4 DEF FrameStep, Frame
  <2>1. CASE UNCHANGED stack \/ stack' = <<>>
    BY <1>k, <2>0, <2>1, UnderFacts
  <2>2. CASE stack' = <<Task>>
    BY <2>0, <2>2 DEF StackChange
  <2>3. CASE PlainReturn
    BY <1>k, <2>0, <2>3, UnderFacts DEF PlainReturn, InUser
  <2>. QED
    BY <1>4, <2>1, <2>2, <2>3
       DEF FrameStep, Frame, TakePackets, VisitDeleted, RunMux, SwapLocal,
           RunClose, DoneLocal, OnTimer
<1>5. ASSUME NEW op \in Ops, SystemStep(op)
      PROVE  StackChange
    BY <1>5, <1>k, UnderFacts DEF SystemStep, KPacket
<1>6. CASE UNCHANGED vars
    BY <1>6, <1>k, UnderFacts DEF vars, reactorVars
<1>. QED
    BY <1>1, <1>2, <1>3, <1>4, <1>5, <1>6, StepCases

(* A step of start() adds one callback of the object to the stack.          *)
LEMMA StartStack ==
    ASSUME IndInv
    PROVE  /\ \A a \in Acceptors : AcceptorStart(a) =>
                 \E e \in {Op(a, "start"), Op(a, "error")} :
                     /\ e \in ErrorOps /\ stack' \in Seq(Contexts)
                     /\ \A x : On(x, stack)' <=> On(x, stack) \/ x = e
                     /\ \A x : LateOn(x, stack)' /\ x \in Ops => LateOn(x, stack)
                     /\ \A x : Once(x, stack) /\ x \in Ops => Once(x, stack)'
           /\ \A c \in Clients : ClientStart(c) =>
                 /\ stack' \in Seq(Contexts)
                 /\ \A x : On(x, stack)' =>
                       \/ On(x, stack) \/ x = Error(Connect(c))
                       \/ x = Connect(c) /\ UNCHANGED sock_
                 /\ \A x : On(x, stack) => On(x, stack)'
                 /\ \A x : LateOn(x, stack)' /\ x \in Ops =>
                       LateOn(x, stack) \/ x = Connect(c)
                 /\ \A x : Once(x, stack) /\ x \in Repeats => Once(x, stack)'
<1>a. stack \in Seq(Contexts)
    BY DEF IndInv
<1>1. ASSUME NEW a \in Acceptors, AcceptorStart(a)
      PROVE  \E e \in {Op(a, "start"), Op(a, "error")} :
                 /\ e \in ErrorOps /\ stack' \in Seq(Contexts)
                 /\ \A x : On(x, stack)' <=> On(x, stack) \/ x = e
                 /\ \A x : LateOn(x, stack)' /\ x \in Ops => LateOn(x, stack)
                 /\ \A x : Once(x, stack) /\ x \in Ops => Once(x, stack)'
  <2>1. /\ Op(a, "start") \in ErrorOps /\ Op(a, "start").o = a
        /\ Op(a, "error") \in ErrorOps /\ Op(a, "error").o = a
        /\ \A x \in Ops : x \notin ErrorOps
    BY ErrorFacts, OpFacts, Disjoint
  <2>2. PICK e \in {Op(a, "start"), Op(a, "error")}, f \in Contexts :
            f.op = e /\ stack' = Append(stack, f)
    <3>1. CASE stack' = Append(stack, Callback(Op(a, "start"), FALSE))
      BY <2>1, <3>1, ContextFacts
    <3>2. CASE AcceptorStartFails(a)
      <4>1. stack' = Append(stack, Callback(Op(a, "error"),
                                            Op(a, "error").o \in stop_))
        BY <3>2 DEF AcceptorStartFails, CallInline
      <4>. QED
        BY <2>1, <4>1, NowFacts
    <3>. QED
      BY <1>1, <3>1, <3>2 DEF AcceptorStart, CallNone
  <2>3. /\ Append(stack, f) \in Seq(Contexts)
        /\ \A x : On(x, Append(stack, f)) <=> On(x, stack) \/ x = e
        /\ \A x : LateOn(x, Append(stack, f)) =>
                     LateOn(x, stack) \/ (x = e /\ f.late)
        /\ \A x : Once(x, stack) /\ ~(On(x, stack) /\ x = e) =>
                     Once(x, Append(stack, f))
    BY <1>a, <2>2, PushFacts
  <2>. QED
    BY <2>1, <2>2, <2>3, SameFacts
<1>2. ASSUME NEW c \in Clients, ClientStart(c)
      PROVE  /\ stack' \in Seq(Contexts)
             /\ \A x : On(x, stack)' =>
                   \/ On(x, stack) \/ x = Error(Connect(c))
                   \/ x = Connect(c) /\ UNCHANGED sock_
             /\ \A x : On(x, stack) => On(x, stack)'
             /\ \A x : LateOn(x, stack)' /\ x \in Ops =>
                   LateOn(x, stack) \/ x = Connect(c)
             /\ \A x : Once(x, stack) /\ x \in Repeats => Once(x, stack)'
  <2>1. /\ Connect(c) \in Ops /\ Connect(c) \notin Repeats
        /\ Error(Connect(c)) \in ErrorOps
        /\ \A x \in Ops : x \notin ErrorOps
    BY OpFacts, ErrorFacts DEF Repeats
  <2>2. \/ UNCHANGED stack
        \/ \E e \in {Connect(c), Error(Connect(c))} :
              /\ stack' = Append(stack, Callback(e, e.o \in stop_))
              /\ e = Connect(c) => UNCHANGED sock_
    BY <1>2, <2>1 DEF ClientStart, CallNone, CallInline
  <2>3. CASE UNCHANGED stack
    BY <1>a, <2>3, SameFacts
  <2>4. ASSUME NEW e \in {Connect(c), Error(Connect(c))},
               stack' = Append(stack, Callback(e, e.o \in stop_)),
               e = Connect(c) => UNCHANGED sock_
        PROVE  /\ stack' \in Seq(Contexts)
               /\ \A x : On(x, stack)' =>
                     \/ On(x, stack) \/ x = Error(Connect(c))
                     \/ x = Connect(c) /\ UNCHANGED sock_
               /\ \A x : On(x, stack) => On(x, stack)'
               /\ \A x : LateOn(x, stack)' /\ x \in Ops =>
                     LateOn(x, stack) \/ x = Connect(c)
               /\ \A x : Once(x, stack) /\ x \in Repeats => Once(x, stack)'
    <3>1. /\ stack' \in Seq(Contexts)
          /\ \A x : On(x, stack)' <=> On(x, stack) \/ x = e
          /\ \A x : LateOn(x, stack)' =>
                       LateOn(x, stack) \/ (x = e /\ e.o \in stop_)
          /\ \A x : Once(x, stack) /\ ~(On(x, stack) /\ x = e) =>
                       Once(x, stack)'
      BY <1>a, <2>1, <2>4, InlineFacts
    <3>. QED
      BY <2>1, <2>4, <3>1 DEF Repeats
  <2>. QED
    BY <2>2, <2>3, <2>4
<1>. QED
    BY <1>1, <1>2

LEMMA StackStep ==
    ASSUME IndInv, [Next]_vars
    PROVE  stack' \in Seq(Contexts) /\ StackInv'
<1>a. /\ StackInv /\ LifeInv /\ KernelInv /\ stack \in Seq(Contexts)
      /\ life \in [Objects -> {"new", "live", "deleted", "unused"}]
    BY DEF IndInv, TypeOK, ReactorType
<1>b. /\ \A s \in Streams :
            Read(s) \in flags \/ On(Read(s), stack) => asked'[s] = "ok"
      /\ \A op \in Ops :
            op.ev = "accept" /\ (op \in flags \/ On(op, stack)) =>
                op.slot <= tried'[op.o]
  <2>1. ASSUME NEW op \in Ops, op.ev = "accept", op \in flags \/ On(op, stack)
        PROVE  op.slot <= tried'[op.o]
    <3>1. op.slot \in Nat /\ op.o \in Acceptors
      BY <2>1, OpFacts, WinReactorAssumption
    <3>2. tried[op.o] \in Nat /\ tried'[op.o] \in Nat
      BY <3>1, CountsGrow, WinReactorAssumption DEF IndInv, TypeOK
    <3>3. op.slot <= tried[op.o] /\ tried[op.o] <= tried'[op.o]
      BY <1>a, <2>1, <3>1, CountsGrow DEF StackInv
    <3>. QED
      BY <3>1, <3>2, <3>3
  <2>. QED
    BY <1>a, <2>1, CountsGrow DEF StackInv
<1>c. \A c \in Clients : On(Connect(c), stack) => c \notin sock_'
  <2>1. ASSUME NEW c \in Clients, c \notin sock_, c \in sock_'
        PROVE  ClientStart(c)
    <3>1. ASSUME NEW x \in Clients, ClientStep(x)
          PROVE  ClientStart(c)
      BY <2>1, <3>1
         DEF ClientStep, ClientCall, ClientHandler, ClientStart, ClientStop,
             RunConnect, RunConnectReturn
    <3>2. \E x \in Clients : ClientStep(x)
      BY <2>1, StepCases
         DEF StreamStep, OfStream, AcceptorStep, OfAcceptor, FrameStep,
             SystemStep, OfLoop, clientVars, vars
    <3>. QED
      BY <3>1, <3>2
  <2>2. \A c \in Clients : On(Connect(c), stack) => life[c] = "live"
    BY <1>a, OpFacts, Disjoint DEF LifeInv
  <2>. QED
    BY <1>a, <2>1, <2>2 DEF StackInv, ClientStart
<1>r. /\ Repeats \subseteq Ops
      /\ \A s \in Streams : Read(s) \in Ops /\ Read(s).ev = "read" /\ Read(s).o = s
      /\ \A c \in Clients : /\ Connect(c) \in Ops /\ Connect(c) \notin Repeats
                            /\ Connect(c).o = c /\ Connect(c).ev = "connect"
      /\ \A x \in Ops : x \notin ErrorOps
    BY OpFacts DEF Repeats
<1>1. CASE Keeps
  <2>1. PICK st : Under(st) /\ stack' = st /\ flags' \subseteq flags
    BY <1>1 DEF Keeps
  <2>2. /\ stack' \in Seq(Contexts)
        /\ \A x : On(x, stack)' => On(x, stack)
        /\ \A x : Once(x, stack) => Once(x, stack)'
    BY <2>1, SameFacts DEF Under
  <2>. QED
    BY <1>a, <1>b, <1>c, <2>1, <2>2 DEF StackInv
<1>2. ASSUME NEW op \in Ops, Enters(op)
      PROVE  stack' \in Seq(Contexts) /\ StackInv'
  <2>1. /\ stack' \in Seq(Contexts)
        /\ \A x : On(x, stack)' <=> x = op
        /\ \A x : Once(x, stack)'
        /\ flags' = flags \ {op}
        /\ op.o \notin Clients => op \in flags
    BY <1>a, <1>2, EnterFacts DEF Enters, KernelInv
  <2>2. \A c \in Clients : op = Connect(c) => c \notin sock_'
    BY <1>2, <1>r DEF Enters, RunConnect
  <2>3. op.ev \in {"read", "accept"} => op \in flags
    BY <2>1, OpFacts, Disjoint
  <2>. QED
    BY <1>b, <1>r, <2>1, <2>2, <2>3 DEF StackInv
<1>3. ASSUME NEW op \in Ops, NEW st, Posting(op, st)
      PROVE  stack' \in Seq(Contexts) /\ StackInv'
  <2>1. /\ Under(st) /\ st \in Seq(Contexts)
        /\ op \in Repeats => op \notin flags /\ ~On(op, st)
        /\ op.ev = "read" /\ (op \in flags' \/ On(op, stack)') =>
              asked'[op.o] = "ok"
        /\ op.ev = "accept" => op.slot <= tried'[op.o]
        /\ op.o \notin Clients
    BY <1>3 DEF Posting, Under
  <2>2. /\ stack' \in Seq(Contexts)
        /\ \A x : On(x, stack)' => On(x, st) \/ x = op \/ x = Error(op)
        /\ \A x : Once(x, st) /\ ~(On(x, st) /\ x \in {op, Error(op)})
                     => Once(x, stack)'
        /\ flags' \in {flags, flags \union {op}}
        /\ op \in flags' /\ op \notin flags /\ ~On(op, st) => ~On(op, stack)'
    BY <1>3, <2>1, PostOn DEF Posting
  <2>3. \A x : (On(x, st) => On(x, stack)) /\ (Once(x, stack) => Once(x, st))
    BY <2>1 DEF Under
  <2>4. Error(op) \notin Ops
    BY ErrorFacts, <1>r
  <2>5. \A x \in Ops : On(x, stack)' => On(x, stack) \/ x = op
    BY <2>2, <2>3, <2>4
  <2>6. ASSUME NEW x \in Repeats
        PROVE  Once(x, stack)' /\ (On(x, stack)' => x \notin flags')
    <3>1. x \in Ops /\ Once(x, st) /\ (On(x, st) => x \notin flags)
      BY <1>a, <1>r, <2>3 DEF StackInv
    <3>2. Once(x, stack)'
      BY <2>1, <2>2, <2>4, <3>1
    <3>3. On(x, stack)' => x \notin flags'
      BY <2>1, <2>2, <2>4, <3>1
    <3>. QED
      BY <3>2, <3>3
  <2>7. \A s \in Streams :
            Read(s) \in flags' \/ On(Read(s), stack)' => asked'[s] = "ok"
    BY <1>b, <1>r, <2>1, <2>2, <2>5
  <2>8. \A x \in Ops :
            x.ev = "accept" /\ (x \in flags' \/ On(x, stack)') =>
                x.slot <= tried'[x.o]
    BY <1>b, <2>1, <2>2, <2>5
  <2>9. \A c \in Clients : On(Connect(c), stack)' => c \notin sock_'
    BY <1>c, <1>r, <2>1, <2>5
  <2>. QED
    BY <2>2, <2>6, <2>7, <2>8, <2>9 DEF StackInv
<1>4. CASE stack' = <<Task>> /\ UNCHANGED flags
  <2>1. /\ stack' \in Seq(Contexts)
        /\ \A x \in Ops : ~On(x, stack)'
        /\ \A x : Once(x, stack)'
    BY <1>4, TaskStack
  <2>. QED
    BY <1>b, <1>4, <1>r, <2>1 DEF StackInv
<1>5. ASSUME NEW a \in Acceptors, AcceptorStart(a)
      PROVE  stack' \in Seq(Contexts) /\ StackInv'
  <2>1. PICK e \in ErrorOps :
            /\ stack' \in Seq(Contexts)
            /\ \A x : On(x, stack)' <=> On(x, stack) \/ x = e
            /\ \A x : Once(x, stack) /\ x \in Ops => Once(x, stack)'
    BY <1>5, StartStack
  <2>2. \A x \in Ops : On(x, stack)' => On(x, stack)
    BY <1>r, <2>1
  <2>3. UNCHANGED flags
    BY <1>5 DEF AcceptorStart
  <2>. QED
    BY <1>a, <1>b, <1>c, <1>r, <2>1, <2>2, <2>3 DEF StackInv
<1>6. ASSUME NEW c \in Clients, ClientStart(c)
      PROVE  stack' \in Seq(Contexts) /\ StackInv'
  <2>1. /\ stack' \in Seq(Contexts)
        /\ \A x : On(x, stack)' =>
              \/ On(x, stack) \/ x = Error(Connect(c))
              \/ x = Connect(c) /\ UNCHANGED sock_
        /\ \A x : Once(x, stack) /\ x \in Repeats => Once(x, stack)'
    BY <1>6, StartStack
  <2>2. Error(Connect(c)) \in ErrorOps
    BY <1>r, ErrorFacts
  <2>3. \A x \in Ops : On(x, stack)' =>
            On(x, stack) \/ (x = Connect(c) /\ UNCHANGED sock_)
    BY <1>r, <2>1, <2>2
  <2>4. UNCHANGED flags /\ c \notin sock_
    BY <1>a, <1>6 DEF ClientStart, LifeInv
  <2>5. \A x \in Repeats : On(x, stack)' => On(x, stack)
    BY <1>r, <2>3
  <2>6. \A s \in Streams : On(Read(s), stack)' => On(Read(s), stack)
    BY <1>r, <2>3
  <2>7. \A x \in Ops : x.ev = "accept" /\ On(x, stack)' => On(x, stack)
    BY <1>r, <2>3
  <2>8. \A d \in Clients : On(Connect(d), stack)' => d \notin sock_'
    BY <1>c, <1>r, <2>3, <2>4
  <2>. QED
    BY <1>a, <1>b, <2>1, <2>4, <2>5, <2>6, <2>7, <2>8 DEF StackInv
<1>. QED
  BY <1>1, <1>2, <1>3, <1>4, <1>5, <1>6, StackCases DEF StackChange

(* What is stopped or closed stays so.                                      *)
LEMMA StopsStay ==
    ASSUME IndInv, [Next]_vars
    PROVE  /\ stop_ \subseteq stop_' /\ stop_' \subseteq Objects
           /\ close_ \subseteq close_' /\ close_' \subseteq stop_'
<1>a. /\ stop_ \subseteq Objects /\ close_ \subseteq stop_
      /\ Streams \subseteq Objects /\ Acceptors \subseteq Objects
      /\ Clients \subseteq Objects
    BY Disjoint DEF IndInv, TypeOK, ReactorType
<1>1. stop_ \subseteq stop_' /\ stop_' \subseteq Objects
  <2>1. ASSUME NEW s \in Streams, StreamStep(s)
        PROVE  stop_' \in {stop_, stop_ \union {s}}
    BY <2>1 DEF StreamStep, StreamCall, StreamHandler, StreamStart, StreamRead,
                StreamWrite, StreamStop, RunRead, RunReadReturn, RunWrite,
                RunWriteReturn, Visit, Taken
  <2>2. ASSUME NEW a \in Acceptors, AcceptorStep(a)
        PROVE  stop_' \in {stop_, stop_ \union {a}}
    BY <2>2 DEF AcceptorStep, AcceptorCall, AcceptorHandler, AcceptorStart,
                AcceptorStop, StartPosts, RunAccept, RunAcceptReturn, Visit,
                Taken
  <2>3. ASSUME NEW c \in Clients, ClientStep(c)
        PROVE  stop_' \in {stop_, stop_ \union {c}}
    BY <2>3 DEF ClientStep, ClientCall, ClientHandler, ClientStart, ClientStop,
                RunConnect, RunConnectReturn, Visit, Taken
  <2>4. FrameStep \/ (\E op \in Ops : SystemStep(op)) \/ UNCHANGED vars
           => UNCHANGED stop_
    BY DEF FrameStep, Frame, SystemStep, KPacket, vars, reactorVars
  <2>5. UNCHANGED stop_ \/ \E o \in Objects : stop_' = stop_ \union {o}
    BY <1>a, <2>1, <2>2, <2>3, <2>4, StepCases
  <2>. QED
    BY <1>a, <2>5
<1>2. close_ \subseteq close_'
    BY CloseCases DEF ClosesNone, Closes
<1>3. ASSUME NEW o \in close_', o \notin close_
      PROVE  o \in stop_'
  <2>1. ASSUME o \in Streams, StreamStop(o) PROVE o \in stop_'
    BY <2>1 DEF StreamStop
  <2>2. ASSUME o \in Acceptors, AcceptorStop(o) PROVE o \in stop_'
    BY <2>2 DEF AcceptorStop
  <2>3. ASSUME o \in Clients, ClientStop(o) PROVE o \in stop_'
    BY <2>3 DEF ClientStop
  <2>4. ASSUME o \in Streams,
               \/ RunReadReturn(o) /\ ClosesAfterRead(o)
               \/ RunWriteReturn(o) /\ ClosesAfterWrite(o)
        PROVE  o \in stop_
    BY <2>4 DEF ClosesAfterRead, ClosesAfterWrite
  <2>5. ASSUME NEW op \in AcceptOps(o), o \in Acceptors, RunAcceptReturn(op)
        PROVE  o \in stop_
    <3>1. op.o = o
      BY <2>5, OpFacts
    <3>. QED
      BY <1>3, <2>5, <3>1 DEF RunAcceptReturn, NoClose
  <2>6. ASSUME o \in Clients, RunConnectReturn(o) PROVE o \in stop_
    BY <1>3, <2>6 DEF RunConnectReturn, NoClose
  <2>. QED
    BY <1>1, <1>3, <2>1, <2>2, <2>3, <2>4, <2>5, <2>6, ClosingSteps
       DEF ClosingStep
<1>. QED
    BY <1>a, <1>1, <1>2, <1>3

(* Where a late callback of a read comes from.                              *)
LEMMA LateCases ==
    ASSUME UserContract, IndInv, LateInv, [Next]_vars, NEW s \in Streams,
           LateOn(Read(s), stack)'
    PROVE  /\ ~On(Write(s), stack)'
           /\ \/ LateOn(Read(s), stack)
              \/ Visit(Read(s)) /\ s \in stop_
<1>a. LateInv /\ stack \in Seq(Contexts)
    BY DEF IndInv
<1>r. /\ Read(s) \in Ops /\ Read(s).o = s /\ Read(s).ev = "read"
      /\ Write(s) \in Ops /\ Write(s).o = s /\ Write(s).ev = "write"
      /\ Read(s) \in Repeats
      /\ \A x \in Ops : x \notin ErrorOps
      /\ \A c \in Clients : Connect(c) # Read(s) /\ Connect(c) # Write(s)
    BY OpFacts DEF Repeats
<1>1. CASE Keeps
  <2>1. /\ On(Write(s), stack)' => On(Write(s), stack)
        /\ LateOn(Read(s), stack)' => LateOn(Read(s), stack)
    BY <1>1, SameFacts DEF Keeps, Under
  <2>. QED
    BY <1>a, <2>1 DEF LateInv
<1>2. ASSUME NEW op \in Ops, Enters(op)
      PROVE  ~On(Write(s), stack)' /\ Visit(Read(s)) /\ s \in stop_
    BY <1>2, <1>r, EnterFacts DEF Enters
<1>3. ASSUME NEW op \in Ops, NEW st, Posting(op, st)
      PROVE  ~On(Write(s), stack)' /\ LateOn(Read(s), stack)
  <2>1. /\ Under(st) /\ st \in Seq(Contexts)
        /\ op \in Repeats => op.o \notin stop_
        /\ op.ev = "write" => StreamWrite(op.o) /\ st = Written(op.o)
    BY <1>3 DEF Posting, Under
  <2>2. /\ \A x : On(x, stack)' => On(x, st) \/ x = op \/ x = Error(op)
        /\ \A x : LateOn(x, stack)' =>
              LateOn(x, st) \/ (x \in {op, Error(op)} /\ op.o \in stop_)
    BY <1>3, <2>1, PostOn DEF Posting
  <2>3. Error(op) \notin Ops
    BY <1>r, ErrorFacts
  <2>4. LateOn(Read(s), st)
    BY <1>r, <2>1, <2>2, <2>3
  <2>5. LateOn(Read(s), stack) /\ (On(Write(s), st) => On(Write(s), stack))
    BY <2>1, <2>4 DEF Under
  <2>6. s \in stop_ /\ ~On(Write(s), stack)
    BY <1>a, <2>5 DEF LateInv
  <2>7. op # Write(s)
    <3>1. SUFFICES ASSUME op = Write(s) PROVE FALSE
      OBVIOUS
    <3>2. StreamWrite(s) /\ st = Written(s)
      BY <1>r, <2>1, <3>1
    <3>3. stack # <<>> /\ Top.op = Read(s)
      BY <2>6, <3>2, LateWriter
    <3>. QED
      BY <2>4, <3>2, <3>3, WrittenFacts
  <2>. QED
    BY <1>r, <2>2, <2>3, <2>5, <2>6, <2>7
<1>4. CASE stack' = <<Task>>
    BY <1>4, TaskStack
<1>5. ASSUME NEW a \in Acceptors, AcceptorStart(a)
      PROVE  ~On(Write(s), stack)' /\ LateOn(Read(s), stack)
    BY <1>a, <1>5, <1>r, StartStack DEF LateInv
<1>6. ASSUME NEW c \in Clients, ClientStart(c)
      PROVE  ~On(Write(s), stack)' /\ LateOn(Read(s), stack)
  <2>1. Error(Connect(c)) \in ErrorOps
    BY OpFacts, ErrorFacts
  <2>. QED
    BY <1>a, <1>6, <1>r, <2>1, StartStack DEF LateInv
<1>. QED
    BY <1>1, <1>2, <1>3, <1>4, <1>5, <1>6, StackCases DEF StackChange, Enters

LEMMA LateStep ==
    ASSUME UserContract, IndInv, CalmInv, [Next]_vars
    PROVE  LateInv'
<1> SUFFICES ASSUME NEW s \in Streams, LateOn(Read(s), stack)'
             PROVE  /\ s \in stop_'
                    /\ s \in close_' => s \in shut'
                    /\ ~On(Write(s), stack)'
    BY DEF LateInv
<1>r. /\ Read(s) \in Ops /\ Read(s).o = s /\ Read(s) \in Repeats
      /\ Write(s) \in Ops /\ s \notin Acceptors /\ s \notin Clients
    BY OpFacts, Disjoint DEF Repeats
<1>1. /\ ~On(Write(s), stack)'
      /\ LateOn(Read(s), stack) \/ Visit(Read(s))
      /\ s \in stop_
    BY LateCases DEF CalmInv, LateInv
<1>2. CASE s \in close_
  <2>1. CASE Visit(Read(s))
    <3>1. /\ entries # <<>> /\ Head(entries).op = Read(s)
          /\ entries \in Seq(Packets)
      BY <2>1 DEF Visit, Taken, IndInv, TypeOK, ReactorType, Packets
    <3>2. Busy(Read(s))
      BY <3>1, TailFacts DEF Busy
    <3>. QED
      BY <1>1, <1>2, <1>r, <3>2, StopsStay, SocketSteps DEF CalmInv, QuietInv
  <2>2. CASE LateOn(Read(s), stack)
    BY <1>1, <1>2, <2>2, StopsStay, SocketSteps DEF CalmInv, LateInv
  <2>. QED
    BY <1>1, <2>1, <2>2
<1>3. CASE s \notin close_
  <2>1. s \notin close_'
    <3>1. SUFFICES ASSUME s \in close_' PROVE FALSE
      OBVIOUS
    <3>2. ClosingStep(s)
      BY <1>3, <3>1, ClosingSteps
    <3>3. ~Visit(Read(s))
      BY <1>3, <3>1 DEF Visit, Taken
    <3>4. ~On(Write(s), stack)
      BY <1>1, <3>3 DEF CalmInv, LateInv
    <3>5. ~StreamStop(s)
      BY <1>1 DEF StreamStop
    <3>6. ~RunWriteReturn(s)
      BY <1>r, <3>4, ReturnFacts DEF RunWriteReturn
    <3>7. RunReadReturn(s) /\ NoPost(Popped)
      BY <1>r, <3>2, <3>5, <3>6 DEF ClosingStep
    <3>8. ~On(Read(s), Popped) /\ stack' = Popped
      BY <1>r, <3>7, ReturnFacts DEF RunReadReturn, NoPost, CallNone
    <3>9. ~On(Read(s), stack)'
      BY <3>8, SameFacts
    <3>. QED
      BY <3>9 DEF On, LateOn
  <2>. QED
    BY <1>1, <2>1, StopsStay
<1>. QED
    BY <1>2, <1>3

-----------------------------------------------------------------------------
(* Types.                                                                   *)

LEMMA KernelTypes ==
    ASSUME IndInv, [Next]_vars
    PROVE  /\ flags' \subseteq Ops /\ inflight' \subseteq Ops
           /\ port' \in Seq(Packets) /\ entries' \in Seq(Packets)
<1>a. /\ flags \subseteq Ops /\ inflight \subseteq Ops
      /\ port \in Seq(Packets) /\ entries \in Seq(Packets)
    BY DEF IndInv, TypeOK, ReactorType, Packets
<1> DEFINE Plain == /\ UNCHANGED <<port, entries>>
                    /\ flags' \subseteq Ops /\ inflight' \subseteq Ops
<1>p. ASSUME NEW x \in Ops, NEW st, Posts(x, st)
      PROVE  flags' \subseteq Ops /\ inflight' \subseteq Ops
    BY <1>a, <1>p DEF Posts, Pend, Ends, Fails
<1>v. ASSUME NEW x \in Ops, Visit(x)
      PROVE  /\ flags' \subseteq Ops /\ inflight' \subseteq Ops
             /\ port' \in Seq(Packets) /\ entries' \in Seq(Packets)
  <2>1. /\ entries # <<>> /\ entries' = Tail(entries)
        /\ UNCHANGED <<inflight, port>> /\ flags' = flags \ {x}
    BY <1>v DEF Visit, Taken
  <2>. QED
    BY <1>a, <2>1, TailFacts
<1>1. ASSUME NEW s \in Streams, StreamStep(s)
      PROVE  Plain \/ \E x \in Ops : Visit(x)
  <2>0. Read(s) \in Ops /\ Write(s) \in Ops
    BY OpFacts
  <2>1. CASE StreamStart(s) \/ StreamStop(s) \/ RunWriteReturn(s)
    BY <1>a, <2>1
       DEF StreamStart, StreamStop, RunWriteReturn, NoPost, frameVars
  <2>2. CASE StreamRead(s)
    BY <1>p, <2>0, <2>2 DEF StreamRead, Posts, frameVars
  <2>3. CASE StreamWrite(s)
    BY <1>p, <2>0, <2>3 DEF StreamWrite, PostWrite, Posts, frameVars
  <2>4. CASE RunRead(s) \/ RunWrite(s)
    BY <2>0, <2>4 DEF RunRead, RunWrite
  <2>5. CASE RunReadReturn(s)
    BY <1>a, <1>p, <2>0, <2>5
       DEF RunReadReturn, NoPost, PostRead, Posts, frameVars
  <2>. QED
    BY <1>1, <2>1, <2>2, <2>3, <2>4, <2>5
       DEF StreamStep, StreamCall, StreamHandler
<1>2. ASSUME NEW a \in Acceptors, AcceptorStep(a)
      PROVE  Plain \/ \E x \in Ops : Visit(x)
  <2>1. CASE AcceptorStart(a) \/ AcceptorStop(a)
    BY <1>a, <2>1 DEF AcceptorStart, AcceptorStop, frameVars
  <2>2. CASE StartPosts(a)
    <3>1. CASE NoPost(Popped)
      BY <1>a, <2>2, <3>1 DEF StartPosts, NoPost, frameVars
    <3>2. CASE tried[a] < NSlots
               /\ PostAcceptor(Accept(a, tried[a] + 1), stack, Popped)
      <4>1. tried[a] + 1 \in 1 .. NSlots
        BY <3>2, WinReactorAssumption DEF IndInv, TypeOK
      <4>2. Accept(a, tried[a] + 1) \in Ops
        BY <4>1, OpFacts
      <4>. QED
        BY <1>p, <2>2, <3>2, <4>2 DEF StartPosts, PostAcceptor, Posts, frameVars
    <3>. QED
      BY <2>2, <3>1, <3>2 DEF StartPosts
  <2>3. ASSUME NEW x \in AcceptOps(a), RunAccept(x) \/ RunAcceptReturn(x)
        PROVE  Plain \/ \E y \in Ops : Visit(y)
    <3>1. x \in Ops
      BY OpFacts
    <3>. QED
      BY <1>a, <1>p, <2>3, <3>1
         DEF RunAccept, RunAcceptReturn, NoPost, PostAcceptor, Posts, frameVars
  <2>. QED
    BY <1>2, <2>1, <2>2, <2>3 DEF AcceptorStep, AcceptorCall, AcceptorHandler
<1>3. ASSUME NEW c \in Clients, ClientStep(c)
      PROVE  Plain \/ \E x \in Ops : Visit(x)
  <2>0. Connect(c) \in Ops
    BY OpFacts
  <2>. QED
    BY <1>3, <1>a, <2>0
       DEF ClientStep, ClientCall, ClientHandler, ClientStart, ClientStop,
           RunConnect, RunConnectReturn, NoPost, frameVars
<1>4. CASE FrameStep
  <2>1. UNCHANGED <<flags, inflight>>
    BY <1>4 DEF FrameStep, Frame
  <2>2. \/ UNCHANGED <<port, entries>>
        \/ entries' = port /\ port' = <<>>
    BY <1>4 DEF FrameStep, Frame, TakePackets, VisitDeleted, RunMux, SwapLocal,
                RunClose, DoneLocal, OnTimer, PlainReturn, frameVars
  <2>. QED
    BY <1>a, <2>1, <2>2, EmptySeq
<1>5. ASSUME NEW x \in Ops, SystemStep(x)
      PROVE  /\ flags' \subseteq Ops /\ inflight' \subseteq Ops
             /\ port' \in Seq(Packets) /\ entries' \in Seq(Packets)
  <2>1. PICK ok \in BOOLEAN : KPacket(x, ok)
    BY <1>5 DEF SystemStep
  <2> DEFINE p == [op |-> x, ok |-> ok]
  <2>2. /\ inflight' = inflight \ {x} /\ port' = Append(port, p)
        /\ UNCHANGED <<flags, entries>>
    BY <2>1 DEF KPacket, frameVars
  <2>3. p \in Packets
    BY DEF Packets
  <2>. QED
    BY <1>a, <2>2, <2>3, AppendProperties
<1>6. CASE UNCHANGED vars
    BY <1>a, <1>6 DEF vars, reactorVars, frameVars
<1>7. Plain => /\ flags' \subseteq Ops /\ inflight' \subseteq Ops
               /\ port' \in Seq(Packets) /\ entries' \in Seq(Packets)
    BY <1>a
<1>. QED
    BY <1>1, <1>2, <1>3, <1>4, <1>5, <1>6, <1>7, <1>v, StepCases

(* The variables whose values need no more than the step.                   *)
SmallTypes ==
    /\ cancel \subseteq Ops
    /\ phase \in {"wait", "entries", "mux", "local", "timer"}
    /\ inlines \in 0 .. MaxInline
    /\ crashed \in {"no", "dangling", "bad_function_call"}
    /\ wcb \subseteq Streams /\ shut \subseteq close_
    /\ told \subseteq Acceptors /\ sock_ \subseteq Clients

LEMMA SmallStep == ASSUME IndInv, [Next]_vars PROVE SmallTypes'
<1>a. SmallTypes /\ close_ \subseteq close_' /\ MaxInline \in Nat
    BY StopsStay, WinReactorAssumption
       DEF SmallTypes, IndInv, TypeOK, ReactorType
<1>i. ASSUME \E st, op : CallInline(st, op) \/ CallNone(st)
      PROVE  inlines' \in 0 .. MaxInline
    BY <1>a, <1>i DEF CallInline, CallNone, SmallTypes
<1>p. ASSUME NEW x, NEW st, Posts(x, st)
      PROVE  inlines' \in 0 .. MaxInline
    BY <1>i, <1>p DEF Posts, Pend, Ends, Fails
<1>v. ASSUME NEW x, Visit(x)
      PROVE  UNCHANGED <<cancel, phase, inlines>>
    BY <1>v DEF Visit, Taken
<1>1. ASSUME NEW s \in Streams, StreamStep(s)
      PROVE  SmallTypes'
  <2>0. Read(s) \in Ops /\ UNCHANGED <<told, sock_>>
    BY <1>1, OpFacts DEF StreamStep, OfStream, acceptorVars, clientVars
  <2>1. CASE StreamStart(s)
    BY <1>a, <2>0, <2>1 DEF StreamStart, frameVars, SmallTypes
  <2>2. CASE StreamRead(s)
    <3>1. inlines' \in 0 .. MaxInline
      BY <1>p, <2>2 DEF StreamRead, Posts
    <3>. QED
      BY <1>a, <2>0, <2>2, <3>1 DEF StreamRead, frameVars, SmallTypes
  <2>3. CASE StreamWrite(s)
    <3>1. inlines' \in 0 .. MaxInline /\ wcb' \subseteq Streams
      BY <1>a, <1>p, <2>3 DEF StreamWrite, PostWrite, Posts, SmallTypes
    <3>. QED
      BY <1>a, <2>0, <2>3, <3>1 DEF StreamWrite, frameVars, SmallTypes
  <2>4. CASE StreamStop(s)
    <3>1. cancel' \subseteq Ops /\ shut' \subseteq close_'
      BY <1>a, <2>0, <2>4
         DEF StreamStop, StreamPostToClose, PostToClose, NoClose, SmallTypes
    <3>. QED
      BY <1>a, <2>0, <2>4, <3>1 DEF StreamStop, frameVars, SmallTypes
  <2>5. CASE RunRead(s)
    BY <1>a, <1>v, <2>0, <2>5 DEF RunRead, SmallTypes
  <2>6. CASE RunWrite(s)
    BY <1>a, <1>v, <2>0, <2>6 DEF RunWrite, SmallTypes
  <2>7. CASE RunReadReturn(s)
    <3>1. inlines' \in 0 .. MaxInline
      BY <1>p, <1>i, <2>7 DEF RunReadReturn, NoPost, PostRead, Posts
    <3>. QED
      BY <1>a, <2>0, <2>7, <3>1 DEF RunReadReturn, frameVars, SmallTypes
  <2>8. CASE RunWriteReturn(s)
    BY <1>a, <2>0, <2>8
       DEF RunWriteReturn, NoPost, CallNone, frameVars, SmallTypes
  <2>. QED
    BY <1>1, <2>1, <2>2, <2>3, <2>4, <2>5, <2>6, <2>7, <2>8
       DEF StreamStep, StreamCall, StreamHandler
<1>2. ASSUME NEW a \in Acceptors, AcceptorStep(a)
      PROVE  SmallTypes'
  <2>0. UNCHANGED <<wcb, shut, sock_>>
    BY <1>2 DEF AcceptorStep, OfAcceptor, streamVars, clientVars
  <2>1. CASE AcceptorStart(a)
    <3>1. inlines' \in 0 .. MaxInline /\ told' \subseteq Acceptors
      BY <1>a, <1>i, <2>1 DEF AcceptorStart, AcceptorStartFails, SmallTypes
    <3>. QED
      BY <1>a, <2>0, <2>1, <3>1 DEF AcceptorStart, frameVars, SmallTypes
  <2>2. CASE AcceptorStop(a)
    <3>1. cancel' \subseteq Ops
      BY <1>a, <2>2, OpFacts DEF AcceptorStop, Doing, SmallTypes
    <3>. QED
      BY <1>a, <2>0, <2>2, <3>1 DEF AcceptorStop, frameVars, SmallTypes
  <2>3. CASE StartPosts(a)
    <3>1. CASE NoPost(Popped) /\ UNCHANGED told
      BY <1>a, <2>0, <2>3, <3>1
         DEF StartPosts, NoPost, CallNone, frameVars, SmallTypes
    <3>2. CASE PostAcceptor(Accept(a, tried[a] + 1), stack, Popped)
      <4>1. inlines' \in 0 .. MaxInline /\ told' \subseteq Acceptors
        BY <1>a, <1>p, <3>2 DEF PostAcceptor, Posts, Accept, SmallTypes
      <4>. QED
        BY <1>a, <2>0, <2>3, <4>1 DEF StartPosts, frameVars, SmallTypes
    <3>. QED
      BY <2>3, <3>1, <3>2 DEF StartPosts
  <2>4. ASSUME NEW x \in AcceptOps(a), RunAccept(x)
        PROVE  SmallTypes'
    BY <1>a, <1>v, <2>0, <2>4 DEF RunAccept, SmallTypes
  <2>5. ASSUME NEW x \in AcceptOps(a), RunAcceptReturn(x)
        PROVE  SmallTypes'
    <3>0. x.o = a
      BY OpFacts
    <3>1. inlines' \in 0 .. MaxInline /\ told' \subseteq Acceptors
      BY <1>a, <1>p, <1>i, <2>5, <3>0
         DEF RunAcceptReturn, NoPost, PostAcceptor, Posts, SmallTypes
    <3>. QED
      BY <1>a, <2>0, <2>5, <3>1 DEF RunAcceptReturn, frameVars, SmallTypes
  <2>. QED
    BY <1>2, <2>1, <2>2, <2>3, <2>4, <2>5
       DEF AcceptorStep, AcceptorCall, AcceptorHandler
<1>3. ASSUME NEW c \in Clients, ClientStep(c)
      PROVE  SmallTypes'
  <2>0. Connect(c) \in Ops /\ UNCHANGED <<wcb, shut, told>>
    BY <1>3, OpFacts DEF ClientStep, OfClient, streamVars, acceptorVars
  <2>1. CASE ClientStart(c)
    <3>1. inlines' \in 0 .. MaxInline /\ sock_' \subseteq Clients
      BY <1>a, <1>i, <2>1 DEF ClientStart, SmallTypes
    <3>. QED
      BY <1>a, <2>0, <2>1, <3>1 DEF ClientStart, frameVars, SmallTypes
  <2>2. CASE ClientStop(c)
    BY <1>a, <2>0, <2>2 DEF ClientStop, frameVars, SmallTypes
  <2>3. CASE RunConnect(c)
    BY <1>a, <1>v, <2>0, <2>3 DEF RunConnect, SmallTypes
  <2>4. CASE RunConnectReturn(c)
    BY <1>a, <2>0, <2>4
       DEF RunConnectReturn, NoPost, CallNone, frameVars, SmallTypes
  <2>. QED
    BY <1>3, <2>1, <2>2, <2>3, <2>4 DEF ClientStep, ClientCall, ClientHandler
<1>4. CASE FrameStep
  <2>1. UNCHANGED <<cancel, inlines, wcb, shut, told, sock_, close_>>
    BY <1>4 DEF FrameStep, Frame, OfLoop, streamVars, acceptorVars, clientVars
  <2>2. /\ phase' \in {"wait", "entries", "mux", "local", "timer"}
        /\ crashed' \in {"no", "dangling", "bad_function_call"}
    BY <1>4, <1>a
       DEF FrameStep, Frame, TakePackets, VisitDeleted, RunMux, SwapLocal,
           RunClose, DoneLocal, OnTimer, PlainReturn, frameVars, SmallTypes
  <2>. QED
    BY <1>a, <2>1, <2>2 DEF SmallTypes
<1>5. ASSUME NEW x \in Ops, SystemStep(x)
      PROVE  SmallTypes'
    BY <1>5, <1>a DEF SystemStep, KPacket, OfLoop, streamVars, acceptorVars,
                      clientVars, frameVars, SmallTypes
<1>6. CASE UNCHANGED vars
    BY <1>a, <1>6 DEF vars, reactorVars, streamVars, acceptorVars, clientVars,
                      frameVars, SmallTypes
<1>. QED
    BY <1>1, <1>2, <1>3, <1>4, <1>5, <1>6, StepCases

LEMMA TypeStep == ASSUME IndInv, [Next]_vars PROVE TypeOK'
<1>a. /\ life \in [Objects -> {"new", "live", "deleted", "unused"}]
      /\ taks_nmux_ \in Seq(Objects) /\ pendings1 \in Seq(Objects)
    BY DEF IndInv, TypeOK, ReactorType
<1>1. life' \in [Objects -> {"new", "live", "deleted", "unused"}]
    BY <1>a, CloseCases DEF ClosesNone, Begins, SwapLocal, RunClose, Closes
<1>2. taks_nmux_' \in Seq(Objects) /\ pendings1' \in Seq(Objects)
  <2>1. CASE ClosesNone
    BY <1>a, <2>1 DEF ClosesNone
  <2>2. CASE SwapLocal
    BY <1>a, <2>2, EmptySeq DEF SwapLocal
  <2>3. CASE RunClose
    BY <1>a, <2>3, HeadTailProperties DEF RunClose
  <2>4. ASSUME NEW o \in Objects, Closes(o)
        PROVE  taks_nmux_' \in Seq(Objects) /\ pendings1' \in Seq(Objects)
    BY <1>a, <2>4, AppendProperties DEF Closes
  <2>. QED
    BY <2>1, <2>2, <2>3, <2>4, CloseCases
<1>3. \A i \in DOMAIN stack' :
          \/ stack'[i] = Task
          \/ stack'[i].op \in Ops
          \/ stack'[i].op \in [o : Objects, ev : {"error", "start"}, slot : {0}]
  <2>1. stack' \in Seq(Contexts)
    BY StackStep
  <2>2. \A i \in DOMAIN stack' : stack'[i] \in Contexts
    BY <2>1, ElementOfSeq, LenProperties
  <2>. QED
    BY <2>2, ContextFacts DEF ErrorOps
<1>4. {op \in inflight' : op.o \notin Clients} \subseteq flags'
    BY KernelStep, KernelTypes DEF KernelInv, Busy
<1>. QED
    BY <1>1, <1>2, <1>3, <1>4, StopsStay, KernelTypes, SmallStep, CountsGrow
       DEF TypeOK, ReactorType, SmallTypes, Packets

-----------------------------------------------------------------------------
(* An acceptor goes on accepting.                                           *)

(* The contexts that ServeInv counts, and those that it does not.           *)
LEMMA AcceptContexts ==
    ASSUME NEW a \in Acceptors, NEW x \in AcceptOps(a) \union {Op(a, "start")}
    PROVE  /\ x.o = a /\ x.ev \in {"accept", "start"}
           /\ \A s \in Streams : x # Read(s) /\ x # Write(s)
           /\ \A c \in Clients : x # Connect(c)
           /\ \A b \in Acceptors : b # a =>
                 x \notin AcceptOps(b) \union {Op(b, "start")}
<1>1. x.o = a /\ x.ev \in {"accept", "start"}
    BY OpFacts, ErrorFacts, Disjoint
<1>2. \A b \in Acceptors : \A y \in AcceptOps(b) \union {Op(b, "start")} :
          y.o = b
    BY OpFacts, ErrorFacts, Disjoint
<1>. QED
    BY <1>1, <1>2, OpFacts

LEMMA ServeStep == ASSUME IndInv, [Next]_vars PROVE ServeInv'
<1>a. /\ stack \in Seq(Contexts) /\ ServeInv
      /\ life \in [Objects -> {"new", "live", "deleted", "unused"}]
      /\ tried \in [Acceptors -> 0 .. NSlots] /\ NSlots \in Nat \ {0}
    BY WinReactorAssumption DEF IndInv, TypeOK, ReactorType
<1>1. ASSUME NEW a \in Acceptors, life'[a] = "new"
      PROVE  tried'[a] = 0
  <2>1. life[a] = "new"
    BY <1>1, <1>a, CloseCases, Disjoint
       DEF ClosesNone, Begins, SwapLocal, RunClose, Closes
  <2>2. ASSUME NEW b \in Acceptors, StartPosts(b)
        PROVE  life[b] = "live"
    BY <2>2, TopFacts, ErrorFacts, Disjoint DEF StartPosts, IndInv, LifeInv
  <2>3. ASSUME NEW b \in Acceptors, AcceptorStep(b)
        PROVE  UNCHANGED tried \/ (StartPosts(b)
                   /\ \E v : tried' = [tried EXCEPT ![b] = v])
    BY <2>3 DEF AcceptorStep, AcceptorCall, AcceptorHandler, AcceptorStart,
                AcceptorStop, RunAccept, RunAcceptReturn, StartPosts
  <2>4. UNCHANGED tried \/ \E b \in Acceptors : AcceptorStep(b)
    BY StepCases DEF StreamStep, OfStream, ClientStep, OfClient, FrameStep,
                     SystemStep, OfLoop, acceptorVars, vars
  <2>5. UNCHANGED tried \/ \E b \in Acceptors : \E v :
            b # a /\ tried' = [tried EXCEPT ![b] = v]
    BY <2>1, <2>2, <2>3, <2>4
  <2>. QED
    BY <1>1, <1>a, <2>1, <2>5 DEF ServeInv
<1>2. ASSUME NEW a \in Acceptors, life'[a] = "live", a \notin stop_'
      PROVE  Serves(a)'
  <2> DEFINE X == AcceptOps(a) \union {Op(a, "start")}
  <2>a. a \notin stop_ /\ (life[a] = "live" => Serves(a))
    BY <1>2, <1>a, StopsStay DEF ServeInv
  <2>x. /\ \A x \in X : /\ x.o = a /\ x.ev \in {"accept", "start"}
                        /\ \A s \in Streams : x # Read(s) /\ x # Write(s)
                        /\ \A c \in Clients : x # Connect(c)
                        /\ \A b \in Acceptors : b # a =>
                              x \notin AcceptOps(b) \union {Op(b, "start")}
        /\ AcceptOps(a) \subseteq X /\ Op(a, "start") \in X
    BY AcceptContexts
  <2> HIDE DEF X
  <2>k. ASSUME life[a] = "live", told \subseteq told', tried'[a] = tried[a],
               \A x \in X : On(x, stack) => On(x, stack)',
               \A x \in AcceptOps(a) : x \in flags => x \in flags'
        PROVE  Serves(a)'
    BY <2>a, <2>x, <2>k DEF Serves
  <2>p. ASSUME stack # <<>>, stack' = Popped, Top.op \notin X
        PROVE  \A x \in X : On(x, stack) => On(x, stack)'
    BY <2>p, TopFacts, SameFacts
  <2>e. ASSUME stack = <<>>
        PROVE  \A x \in X : On(x, stack) => On(x, stack)'
    BY <2>e, EmptyFacts
  <2>1. ASSUME NEW s \in Streams, StreamStep(s)
        PROVE  Serves(a)'
    <3>0. /\ UNCHANGED <<told, tried>> /\ Read(s) \in Ops /\ Write(s) \in Ops
          /\ Read(s) \notin X /\ Write(s) \notin X /\ s # a
      BY <2>1, <2>x, OpFacts, Disjoint DEF StreamStep, OfStream, acceptorVars
    <3>l. life[a] = "live"
      BY <1>2, <1>a, <2>1, <3>0, Disjoint
         DEF StreamStep, StreamCall, StreamHandler, StreamStart, StreamRead,
             StreamWrite, StreamStop, RunRead, RunReadReturn, RunWrite,
             RunWriteReturn, Visit, Taken
    <3>1. CASE StreamStart(s) \/ StreamStop(s)
      BY <2>k, <3>0, <3>l, <3>1, SameFacts DEF StreamStart, StreamStop
    <3>2. CASE StreamRead(s)
      <4>1. Posts(Read(s), stack)
        BY <3>2 DEF StreamRead, Posts
      <4>2. /\ \A x : On(x, stack) => On(x, stack)'
            /\ flags \subseteq flags'
        BY <1>a, <3>0, <4>1, PostOn
      <4>. QED
        BY <2>k, <3>0, <3>l, <4>2
    <3>3. CASE StreamWrite(s)
      <4>1. Posts(Write(s), Written(s)) /\ stack # <<>>
        BY <3>3 DEF StreamWrite, PostWrite, Posts, Calls, InUser
      <4>2. /\ Written(s) \in Seq(Contexts)
            /\ \A x : On(x, Written(s)) <=> On(x, stack)
        BY <4>1, WrittenFacts
      <4>3. /\ \A x : On(x, Written(s)) => On(x, stack)'
            /\ flags \subseteq flags'
        BY <3>0, <4>1, <4>2, PostOn
      <4>. QED
        BY <2>k, <3>0, <3>l, <4>2, <4>3
    <3>4. CASE RunRead(s) \/ RunWrite(s)
      <4>1. /\ stack = <<>>
            /\ flags' \in {flags \ {Read(s)}, flags \ {Write(s)}}
        BY <3>4 DEF RunRead, RunWrite, Visit, Taken, AtLoop
      <4>. QED
        BY <2>e, <2>k, <2>x, <3>0, <3>l, <4>1
    <3>5. CASE RunReadReturn(s)
      <4>1. stack # <<>> /\ Top.op = Read(s) /\ Popped \in Seq(Contexts)
        BY <3>0, <3>5, ReturnFacts, TopFacts
           DEF RunReadReturn, Returns
      <4>2. NoPost(Popped) \/ Posts(Read(s), Popped)
        BY <3>5 DEF RunReadReturn, PostRead, Posts
      <4>3. /\ \A x : On(x, Popped) => On(x, stack)'
            /\ flags \subseteq flags'
        <5>1. CASE NoPost(Popped)
          BY <5>1, SameFacts DEF NoPost, CallNone
        <5>2. CASE Posts(Read(s), Popped)
          BY <3>0, <4>1, <5>2, PostOn
        <5>. QED
          BY <4>2, <5>1, <5>2
      <4>4. \A x \in X : On(x, stack) => On(x, stack)'
        BY <3>0, <4>1, <4>3, TopFacts
      <4>. QED
        BY <2>k, <3>0, <3>l, <4>3, <4>4
    <3>6. CASE RunWriteReturn(s)
      <4>1. stack # <<>> /\ Top.op = Write(s)
        BY <3>0, <3>6, ReturnFacts DEF RunWriteReturn, Returns
      <4>2. stack' = Popped /\ UNCHANGED flags
        BY <3>6 DEF RunWriteReturn, NoPost, CallNone
      <4>. QED
        BY <2>k, <2>p, <3>0, <3>l, <4>1, <4>2
    <3>. QED
      BY <2>1, <3>1, <3>2, <3>3, <3>4, <3>5, <3>6
         DEF StreamStep, StreamCall, StreamHandler
  <2>2. ASSUME NEW b \in Acceptors, AcceptorStep(b)
        PROVE  Serves(a)'
    <3>1. CASE AcceptorStart(b)
      <4>1. PICK e \in {Op(b, "start"), Op(b, "error")} :
                \A x : On(x, stack)' <=> On(x, stack) \/ x = e
        BY <3>1, StartStack
      <4>2. UNCHANGED <<flags, tried>> /\ told \subseteq told'
            /\ life[b] = "new" /\ life' = [life EXCEPT ![b] = "live"]
        BY <3>1 DEF AcceptorStart, AcceptorStartFails
      <4>3. CASE b # a
        BY <1>2, <1>a, <2>k, <4>1, <4>2, <4>3, Disjoint
      <4>4. CASE b = a
        <5>1. tried'[a] = 0
          BY <1>a, <4>2, <4>4 DEF ServeInv
        <5>2. a \in told' \/ On(Op(a, "start"), stack)'
          <6>1. CASE CallNone(Append(stack, Callback(Op(a, "start"), FALSE)))
            <7>1. /\ Callback(Op(a, "start"), FALSE) \in Contexts
                  /\ Callback(Op(a, "start"), FALSE).op = Op(a, "start")
              BY ErrorFacts, ContextFacts, Disjoint
            <7>. QED
              BY <1>a, <6>1, <7>1, PushFacts, SameFacts DEF CallNone
          <6>2. CASE AcceptorStartFails(a)
            BY <6>2 DEF AcceptorStartFails
          <6>. QED
            BY <3>1, <4>4, <6>1, <6>2 DEF AcceptorStart
        <5>. QED
          BY <5>1, <5>2 DEF Serves
      <4>. QED
        BY <4>3, <4>4
    <3>l. CASE ~AcceptorStart(b)
      <4>0. life[a] = "live"
        BY <1>2, <2>2, <3>l
           DEF AcceptorStep, AcceptorCall, AcceptorHandler, AcceptorStop,
               StartPosts, RunAccept, RunAcceptReturn, Visit, Taken
      <4>1. CASE AcceptorStop(b)
        BY <2>k, <4>0, <4>1, SameFacts DEF AcceptorStop
      <4>2. CASE StartPosts(b) /\ b # a
        <5>1. /\ stack # <<>> /\ Top.op = Op(b, "start")
              /\ Popped \in Seq(Contexts) /\ Op(b, "start") \notin X
          BY <2>x, <4>2, TopFacts DEF StartPosts
        <5>2. tried'[a] = tried[a] /\ told \subseteq told'
          BY <1>a, <4>2 DEF StartPosts, PostAcceptor
        <5>3. flags \subseteq flags'
          BY <4>2 DEF StartPosts, NoPost, PostAcceptor, Pend, Ends, Fails
        <5>4. \A x : On(x, Popped) => On(x, stack)'
          <6>1. CASE stack' = Popped
            BY <6>1, SameFacts
          <6>2. CASE tried[b] < NSlots
                     /\ PostAcceptor(Accept(b, tried[b] + 1), stack, Popped)
            <7>1. tried[b] + 1 \in 1 .. NSlots
              BY <1>a, <6>2
            <7>2. Accept(b, tried[b] + 1) \in Ops
              BY <7>1, OpFacts
            <7>3. \A x : On(x, Popped) => On(x, stack)
              BY <5>1, TopFacts
            <7>. QED
              BY <1>a, <5>1, <6>2, <7>2, <7>3, PostOn DEF PostAcceptor, Posts
          <6>. QED
            BY <4>2, <6>1, <6>2 DEF StartPosts, NoPost, CallNone
        <5>5. \A x \in X : On(x, stack) => On(x, stack)'
          BY <5>1, <5>4, TopFacts
        <5>. QED
          BY <2>k, <4>0, <5>2, <5>3, <5>5
      <4>3. CASE StartPosts(a)
        <5>1. /\ stack # <<>> /\ Top.op = Op(a, "start")
          BY <4>3 DEF StartPosts
        <5>2. CASE tried[a] = NSlots /\ NoPost(Popped) /\ UNCHANGED told
          <6>1. \A x \in AcceptOps(a) : x # Op(a, "start")
            BY OpFacts, ErrorFacts, Disjoint
          <6>2. \A x \in AcceptOps(a) : On(x, stack) => On(x, stack)'
            BY <5>1, <5>2, <6>1, TopFacts, SameFacts DEF NoPost, CallNone
          <6>3. a \in told \/ \E x \in AcceptOps(a) : x \in flags \/ On(x, stack)
            BY <1>a, <2>a, <4>0, <5>2 DEF Serves
          <6>. QED
            BY <5>2, <6>2, <6>3 DEF Serves, NoPost
        <5>3. CASE tried[a] < NSlots
                   /\ PostAcceptor(Accept(a, tried[a] + 1), stack, Popped)
          <6>1. tried[a] + 1 \in 1 .. NSlots
            BY <1>a, <5>3
          <6>2. PICK op \in Ops :
                    /\ op = Accept(a, tried[a] + 1)
                    /\ op \in AcceptOps(a) /\ op.o = a
            BY <6>1, OpFacts DEF AcceptOps
          <6>0. PostAcceptor(op, stack, Popped)
            BY <5>3, <6>2
          <6>3. CASE Pend(op, stack)
            BY <6>2, <6>3 DEF Pend, Serves
          <6>4. CASE Ends(op, stack)
            <7>1. On(op, stack)'
              BY <1>a, <6>2, <6>4, InlineFacts DEF Ends, CallInline
            <7>. QED
              BY <6>2, <7>1 DEF Serves
          <6>5. CASE told' = told \union {op.o}
            BY <6>2, <6>5 DEF Serves
          <6>. QED
            BY <6>0, <6>3, <6>4, <6>5 DEF PostAcceptor
        <5>. QED
          BY <2>a, <4>3, <5>2, <5>3 DEF StartPosts
      <4>4. ASSUME NEW op \in AcceptOps(b), RunAccept(op)
            PROVE  Serves(a)'
        <5>1. /\ stack = <<>> /\ flags' = flags \ {op}
              /\ UNCHANGED <<tried, told>> /\ op \in Ops
          BY <4>4, OpFacts DEF RunAccept, Visit, Taken, AtLoop
        <5>2. CASE b = a
          <6>1. On(op, stack)'
            BY <4>4, <5>1, EnterFacts DEF RunAccept
          <6>. QED
            BY <5>2, <6>1 DEF Serves
        <5>3. CASE b # a
          BY <2>e, <2>k, <2>x, <4>0, <5>1, <5>3
        <5>. QED
          BY <5>2, <5>3
      <4>5. ASSUME NEW op \in AcceptOps(b), RunAcceptReturn(op)
            PROVE  Serves(a)'
        <5>0. op \in Ops /\ op.o = b /\ op.ev = "accept"
          BY OpFacts
        <5>1. /\ stack # <<>> /\ Top.op = op /\ Popped \in Seq(Contexts)
              /\ UNCHANGED tried
          BY <4>5, <5>0, ReturnFacts, TopFacts DEF RunAcceptReturn, Returns
        <5>2. CASE b = a
          <6>1. PostAcceptor(op, Popped, Popped)
            BY <2>a, <4>5, <5>0, <5>2 DEF RunAcceptReturn
          <6>2. CASE Pend(op, Popped)
            BY <5>2, <6>2 DEF Pend, Serves
          <6>3. CASE Ends(op, Popped)
            <7>1. On(op, stack)'
              BY <5>0, <5>1, <6>3, InlineFacts DEF Ends, CallInline
            <7>. QED
              BY <5>2, <7>1 DEF Serves
          <6>4. CASE told' = told \union {op.o}
            BY <5>0, <5>2, <6>4 DEF Serves
          <6>. QED
            BY <6>1, <6>2, <6>3, <6>4 DEF PostAcceptor
        <5>3. CASE b # a
          <6>1. op \notin X
            BY <2>x, <5>3
          <6>2. told \subseteq told' /\ (NoPost(Popped) \/ Posts(op, Popped))
            BY <4>5 DEF RunAcceptReturn, PostAcceptor, Posts
          <6>3. /\ \A x : On(x, Popped) => On(x, stack)'
                /\ flags \subseteq flags'
            <7>1. CASE NoPost(Popped)
              BY <7>1, SameFacts DEF NoPost, CallNone
            <7>2. CASE Posts(op, Popped)
              BY <5>0, <5>1, <7>2, PostOn
            <7>. QED
              BY <6>2, <7>1, <7>2
          <6>4. \A x \in X : On(x, stack) => On(x, stack)'
            BY <5>1, <6>1, <6>3, TopFacts
          <6>. QED
            BY <2>k, <4>0, <5>1, <6>2, <6>3, <6>4
        <5>. QED
          BY <5>2, <5>3
      <4>. QED
        BY <2>2, <3>l, <4>1, <4>2, <4>3, <4>4, <4>5
           DEF AcceptorStep, AcceptorCall, AcceptorHandler
    <3>. QED
      BY <3>1, <3>l
  <2>3. ASSUME NEW c \in Clients, ClientStep(c)
        PROVE  Serves(a)'
    <3>0. /\ UNCHANGED <<told, tried>> /\ Connect(c) \in Ops
          /\ Connect(c) \notin X /\ c # a
      BY <2>3, <2>x, OpFacts, Disjoint DEF ClientStep, OfClient, acceptorVars
    <3>l. life[a] = "live"
      BY <1>2, <1>a, <2>3, <3>0, Disjoint
         DEF ClientStep, ClientCall, ClientHandler, ClientStart, ClientStop,
             RunConnect, RunConnectReturn, Visit, Taken
    <3>1. CASE ClientStart(c)
      <4>1. \A x : On(x, stack) => On(x, stack)'
        BY <3>1, StartStack
      <4>. QED
        BY <2>k, <3>0, <3>1, <3>l, <4>1 DEF ClientStart
    <3>2. CASE ClientStop(c)
      BY <2>k, <3>0, <3>2, <3>l, SameFacts DEF ClientStop
    <3>3. CASE RunConnect(c)
      <4>1. stack = <<>> /\ flags' = flags \ {Connect(c)}
        BY <3>3 DEF RunConnect, Visit, Taken, AtLoop
      <4>. QED
        BY <2>e, <2>k, <2>x, <3>0, <3>l, <4>1
    <3>4. CASE RunConnectReturn(c)
      <4>1. stack # <<>> /\ Top.op = Connect(c)
        BY <3>0, <3>4, ReturnFacts DEF RunConnectReturn, Returns
      <4>2. stack' = Popped /\ UNCHANGED flags
        BY <3>4 DEF RunConnectReturn, NoPost, CallNone
      <4>. QED
        BY <2>k, <2>p, <3>0, <3>l, <4>1, <4>2
    <3>. QED
      BY <2>3, <3>1, <3>2, <3>3, <3>4 DEF ClientStep, ClientCall, ClientHandler
  <2>4. CASE FrameStep
    <3>1. UNCHANGED <<told, tried, flags>>
      BY <2>4 DEF FrameStep, Frame, OfLoop, acceptorVars
    <3>2. life[a] = "live"
      <4>1. \/ UNCHANGED life
            \/ life' = [life EXCEPT ![Head(pendings1)] = "deleted"]
        BY <2>4
           DEF FrameStep, Frame, TakePackets, VisitDeleted, RunMux, SwapLocal,
               RunClose, DoneLocal, OnTimer, PlainReturn
      <4>. QED
        BY <1>2, <1>a, <4>1, Disjoint
    <3>3. CASE PlainReturn
      <4>1. Top.op \notin X
        BY <2>x, <3>3 DEF PlainReturn
      <4>. QED
        BY <2>k, <2>p, <3>1, <3>2, <3>3, <4>1 DEF PlainReturn, InUser
    <3>4. CASE stack = <<>>
      BY <2>e, <2>k, <3>1, <3>2, <3>4
    <3>. QED
      BY <2>4, <3>3, <3>4
         DEF FrameStep, Frame, TakePackets, VisitDeleted, RunMux, SwapLocal,
             RunClose, DoneLocal, OnTimer, AtLoop
  <2>5. ASSUME NEW op \in Ops, SystemStep(op)
        PROVE  Serves(a)'
    BY <1>2, <2>5, <2>k, SameFacts
       DEF SystemStep, KPacket, OfLoop, acceptorVars
  <2>6. CASE UNCHANGED vars
    BY <1>2, <2>6, <2>k, SameFacts DEF vars, reactorVars, acceptorVars
  <2>. QED
    BY <2>1, <2>2, <2>3, <2>4, <2>5, <2>6, StepCases
<1>. QED
    BY <1>1, <1>2 DEF ServeInv

-----------------------------------------------------------------------------
(* The theorems.                                                            *)

LEMMA InitInv == Init => IndInv /\ CalmInv
<1> SUFFICES ASSUME Init PROVE IndInv /\ CalmInv
    OBVIOUS
<1>1. PICK scene \in Scenes :
          /\ life = [o \in Objects |-> IF o \in scene THEN "new" ELSE "unused"]
          /\ stop_ = {} /\ close_ = {} /\ flags = {}
          /\ inflight = {} /\ cancel = {}
          /\ port = <<>> /\ entries = <<>>
          /\ taks_nmux_ = <<>> /\ pendings1 = <<>>
          /\ phase = "wait"
          /\ stack = <<Task>> /\ inlines = 0
          /\ crashed = "no"
    BY DEF Init, ReactorInit
<1>2. /\ asked = [s \in Streams |-> "no"]
      /\ wcb = {} /\ shut = {}
      /\ tried = [a \in Acceptors |-> 0]
      /\ told = {} /\ sock_ = {}
    BY DEF Init
<1>3. /\ \A x : ~On(x, port) /\ ~On(x, entries)
      /\ \A x : Once(x, port) /\ Once(x, entries)
    BY <1>1, EmptyFacts
<1>4. /\ stack \in Seq(Contexts)
      /\ \A x : On(x, stack) <=> x = Task.op
      /\ \A x : ~LateOn(x, stack) /\ Once(x, stack)
      /\ Task.op \notin Ops /\ Task.op.o \notin Objects
  <2>1. stack = Append(<<>>, Task) /\ <<>> \in Seq(Contexts)
    BY <1>1, EmptySeq
  <2>2. /\ Task \in Contexts /\ Task.op \notin Ops /\ Task.op.o \notin Objects
        /\ Task.late = FALSE
    BY ContextFacts
  <2>3. /\ Append(<<>>, Task) \in Seq(Contexts)
        /\ \A x : On(x, Append(<<>>, Task)) <=> On(x, <<>>) \/ x = Task.op
        /\ \A x : LateOn(x, Append(<<>>, Task)) =>
                     LateOn(x, <<>>) \/ (x = Task.op /\ Task.late)
        /\ \A x : Once(x, <<>>) /\ ~(On(x, <<>>) /\ x = Task.op) =>
                     Once(x, Append(<<>>, Task))
    BY <2>1, <2>2, PushFacts
  <2>. QED
    BY <2>1, <2>2, <2>3, EmptyFacts
<1>5. life \in [Objects -> {"new", "live", "deleted", "unused"}]
      /\ \A o \in Objects : life[o] \in {"new", "unused"}
    BY <1>1
<1>6. TypeOK
  <2>1. \A i \in DOMAIN stack : stack[i] = Task
    BY <1>1
  <2>. QED
    BY <1>1, <1>2, <1>5, <2>1, WinReactorAssumption, EmptySeq
       DEF TypeOK, ReactorType
<1>7. KernelInv
    BY <1>1, <1>3 DEF KernelInv, Busy
<1>8. LifeInv
    BY <1>1, <1>2, <1>3, <1>4, <1>5, OpFacts DEF LifeInv, Busy
<1>9. StackInv /\ ConnectInv /\ CalmInv
    BY <1>1, <1>2, <1>3, <1>4, OpFacts
       DEF StackInv, ConnectInv, CalmInv, LateInv, QuietInv, Busy, Repeats
<1>10. QueueInv
  <2>1. queue = <<>>
    BY <1>1, ConcatEmptySeq, EmptySeq DEF queue
  <2>2. Unique(queue) /\ \A o : ~In(o, queue)
    BY <2>1 DEF Unique, In
  <2>. QED
    BY <1>1, <1>5, <2>2 DEF QueueInv
<1>11. ServeInv
    BY <1>1, <1>2, <1>5, Disjoint DEF ServeInv
<1>. QED
    BY <1>4, <1>6, <1>7, <1>8, <1>9, <1>10, <1>11 DEF IndInv

(* What users, callbacks, packets and the frame of the loop may do keeps    *)
(* the invariant.                                                           *)
THEOREM InductiveInvariant == Spec => []IndInv
<1>1. Init => IndInv
    BY InitInv
<1>2. IndInv /\ [Next]_vars => IndInv'
  <2> SUFFICES ASSUME IndInv, [Next]_vars PROVE IndInv'
    OBVIOUS
  <2>1. TypeOK' /\ stack' \in Seq(Contexts)
    BY TypeStep, StackStep
  <2>2. KernelInv' /\ LifeInv' /\ StackInv'
    BY KernelStep, LifeStep, StackStep
  <2>3. ConnectInv' /\ QueueInv' /\ ServeInv'
    BY ConnectStep, QueueStep, ServeStep
  <2>. QED
    BY <2>1, <2>2, <2>3 DEF IndInv
<1>. QED
    BY <1>1, <1>2, PTL DEF Spec

(* And if users keep to the contract, nothing begins for a closed object.   *)
THEOREM CalmInvariant == UserContract => (Spec => []CalmInv)
<1> SUFFICES ASSUME UserContract PROVE Spec => []CalmInv
    OBVIOUS
<1>1. Init => CalmInv
    BY InitInv
<1>2. IndInv /\ CalmInv /\ [Next]_vars => CalmInv'
  <2> SUFFICES ASSUME IndInv, CalmInv, [Next]_vars PROVE CalmInv'
    OBVIOUS
  <2>. QED
    BY LateStep, QuietStep DEF CalmInv
<1>. QED
    BY <1>1, <1>2, InductiveInvariant, PTL DEF Spec

(* Every value keeps its type: reader_, writer_ and doing_ are flags of the *)
(* objects there are, and evClose is queued for them only.                  *)
THEOREM TypeCorrect == Spec => []TypeOK
<1>1. IndInv => TypeOK
    BY DEF IndInv
<1>. QED
    BY <1>1, InductiveInvariant, PTL

LEMMA PendingIsBusy ==
    ASSUME IndInv
    PROVE  \A op : Pending(op) <=> Busy(op)
<1>1. /\ port \in Seq(Packets) /\ entries \in Seq(Packets)
    BY DEF IndInv, TypeOK, ReactorType, Packets
<1>2. DOMAIN port = 1 .. Len(port) /\ DOMAIN entries = 1 .. Len(entries)
    BY <1>1, LenProperties
<1>3. \A op : Queued(op) <=> On(op, port) \/ On(op, entries)
    BY <1>2 DEF Queued, On
<1>. QED
    BY <1>3 DEF Pending, Busy

(* The flags an object keeps tell what the system has of it, whatever its   *)
(* callbacks call and however deep they are nested.                         *)
THEOREM FlagsAreRight == Spec => []FlagsMatchSystem
<1>1. IndInv => FlagsMatchSystem
  <2> SUFFICES ASSUME IndInv, NEW op \in Ops, op.o \notin Clients
               PROVE  /\ op \in flags <=> Pending(op)
                      /\ ~(op \in inflight /\ Queued(op))
      BY DEF FlagsMatchSystem
  <2>1. Pending(op) <=> Busy(op)
    BY PendingIsBusy
  <2>2. op \in flags <=> Busy(op)
    BY DEF IndInv, KernelInv
  <2>3. /\ port \in Seq(Packets) /\ entries \in Seq(Packets)
    BY DEF IndInv, TypeOK, ReactorType, Packets
  <2>4. DOMAIN port = 1 .. Len(port) /\ DOMAIN entries = 1 .. Len(entries)
    BY <2>3, LenProperties
  <2>5. Queued(op) => On(op, port) \/ On(op, entries)
    BY <2>4 DEF Queued, On
  <2>. QED
    BY <2>1, <2>2, <2>5 DEF IndInv, KernelInv
<1>. QED
    BY <1>1, InductiveInvariant, PTL

(* evClose frees nothing that the system still writes to, but for the read  *)
(* of a stream whose socket stop() closed.                                  *)
THEOREM ClosedMeansQuiet == UserContract => (Spec => []ClosedIsQuiet)
<1>1. IndInv /\ CalmInv => ClosedIsQuiet
    BY PendingIsBusy DEF ClosedIsQuiet, CalmInv, QuietInv
<1>. QED
    BY <1>1, InductiveInvariant, CalmInvariant, PTL

(* evClose is posted once for each object, and it is there until then.      *)
THEOREM EachClosesOnce == Spec => []ClosesOnce
<1>1. IndInv => ClosesOnce
  <2> SUFFICES ASSUME IndInv, NEW o \in Objects
               PROVE  Cardinality({i \in DOMAIN queue : queue[i] = o}) =
                          IF o \in close_ /\ life[o] = "live" THEN 1 ELSE 0
      BY DEF ClosesOnce, queue
  <2> DEFINE P == {i \in DOMAIN queue : queue[i] = o}
  <2>0. /\ queue \in Seq(Objects) /\ QueueInv
        /\ DOMAIN queue = 1 .. Len(queue)
    BY ConcatProperties, LenProperties
       DEF IndInv, TypeOK, ReactorType, queue
  <2>1. CASE In(o, queue)
    <3>1. PICK i \in 1 .. Len(queue) : queue[i] = o
      BY <2>1 DEF In
    <3>2. P = {i}
      BY <2>0, <3>1 DEF QueueInv, Unique
    <3>3. Cardinality({i}) = 1
      BY FS_Singleton
    <3>. QED
      BY <2>0, <2>1, <3>2, <3>3 DEF QueueInv
  <2>2. CASE ~In(o, queue)
    <3>1. P = {}
      BY <2>0, <2>2 DEF In
    <3>2. Cardinality({}) = 0
      BY FS_EmptySet
    <3>. QED
      BY <2>0, <2>2, <3>1, <3>2 DEF QueueInv
  <2>. QED
    BY <2>1, <2>2
<1>. QED
    BY <1>1, InductiveInvariant, PTL

(* An acceptor that has no accept in flight any more told its user so, by   *)
(* an evConn with an error: post_acceptor() of shu_acceptor.cpp.            *)
THEOREM NoSilentAcceptor == Spec => []SilenceIsTold
<1>1. IndInv => SilenceIsTold
  <2> SUFFICES ASSUME IndInv, NEW a \in Acceptors, life[a] = "live",
                      a \notin stop_, Doing(a) = {},
                      \A i \in DOMAIN stack : stack[i].op.o # a
               PROVE  a \in told
      BY DEF SilenceIsTold
  <2>1. Serves(a)
    BY DEF IndInv, ServeInv
  <2>2. DOMAIN stack = 1 .. Len(stack)
    BY LenProperties DEF IndInv
  <2>3. \A x : x.o = a => ~On(x, stack)
    BY <2>2 DEF On
  <2>4. Op(a, "start").o = a
    BY ErrorFacts, Disjoint
  <2>. QED
    BY <2>1, <2>3, <2>4, OpFacts DEF Serves, Doing
<1>. QED
    BY <1>1, InductiveInvariant, PTL

-----------------------------------------------------------------------------
(* A stop() is heard.                                                       *)

(* A stopped object that is not closed has an operation in flight, is in the*)
(* callback of one, or is a client that holds its socket; until a crash.    *)
Heard(o) ==
    \/ o \in sock_
    \/ \E op \in flags : op.o = o /\ o \notin Clients
    \/ \E op \in Ops : op.o = o /\ On(op, stack)

HeardInv == Running => \A o \in stop_ \ close_ : Heard(o)

(* No operation's callback leaves the stack; but for op's none does.        *)
KeepsStack    == \A x \in Ops : On(x, stack) => On(x, stack)'
KeepsBut(op)  == \A x \in Ops \ {op} : On(x, stack) => On(x, stack)'

LEMMA KeepFacts ==
    ASSUME IndInv
    PROVE  /\ UNCHANGED stack => KeepsStack
           /\ stack = <<>> => KeepsStack
           /\ stack # <<>> /\ Top.op \notin Ops /\ stack' = Popped => KeepsStack
           /\ \A f \in Contexts : stack' = Append(stack, f) => KeepsStack
           /\ \A op \in Ops : Posts(op, stack) => KeepsStack
           /\ \A op \in Ops, s \in Streams :
                 stack # <<>> /\ Posts(op, Written(s)) => KeepsStack
           /\ \A op \in Ops :
                 stack # <<>> /\ Top.op \notin Ops /\ Posts(op, Popped)
                     => KeepsStack
           /\ \A op \in Ops :
                 stack # <<>> /\ Top.op = op
                     /\ (stack' = Popped \/ Posts(op, Popped)) => KeepsBut(op)
<1>s. stack \in Seq(Contexts)
    BY DEF IndInv
<1>1. UNCHANGED stack => KeepsStack
    BY SameFacts DEF KeepsStack
<1>2. stack = <<>> => KeepsStack
    BY EmptyFacts DEF KeepsStack
<1>3. stack # <<>> /\ Top.op \notin Ops /\ stack' = Popped => KeepsStack
    BY TopFacts, SameFacts DEF KeepsStack
<1>4. ASSUME NEW f \in Contexts, stack' = Append(stack, f)
      PROVE  KeepsStack
  <2>1. \A x : On(x, stack) => On(x, Append(stack, f))
    BY <1>s, PushFacts
  <2>. QED
    BY <1>4, <2>1, SameFacts DEF KeepsStack
<1>5. ASSUME NEW op \in Ops, Posts(op, stack)
      PROVE  KeepsStack
    BY <1>s, <1>5, PostOn DEF KeepsStack
<1>6. ASSUME NEW op \in Ops, NEW s \in Streams, stack # <<>>,
             Posts(op, Written(s))
      PROVE  KeepsStack
  <2>1. /\ Written(s) \in Seq(Contexts)
        /\ \A x : On(x, Written(s)) <=> On(x, stack)
    BY <1>6, WrittenFacts
  <2>2. \A x : On(x, Written(s)) => On(x, stack)'
    BY <1>6, <2>1, PostOn
  <2>. QED
    BY <2>1, <2>2 DEF KeepsStack
<1>7. ASSUME NEW op \in Ops, stack # <<>>, Posts(op, Popped)
      PROVE  \A x : On(x, stack) /\ x # Top.op => On(x, stack)'
  <2>1. /\ Popped \in Seq(Contexts)
        /\ \A x : On(x, stack) /\ x # Top.op => On(x, Popped)
    BY <1>7, TopFacts
  <2>2. \A x : On(x, Popped) => On(x, stack)'
    BY <1>7, <2>1, PostOn
  <2>. QED
    BY <2>1, <2>2
<1>8. ASSUME NEW op \in Ops, stack # <<>>, Top.op \notin Ops, Posts(op, Popped)
      PROVE  KeepsStack
    BY <1>7, <1>8 DEF KeepsStack
<1>9. ASSUME NEW op \in Ops, stack # <<>>, Top.op = op,
             stack' = Popped \/ Posts(op, Popped)
      PROVE  KeepsBut(op)
    BY <1>7, <1>9, TopFacts, SameFacts DEF KeepsBut
<1>. QED
    BY <1>1, <1>2, <1>3, <1>4, <1>5, <1>6, <1>8, <1>9

LEMMA HeardStep == ASSUME IndInv, HeardInv, [Next]_vars PROVE HeardInv'
<1>a. flags \subseteq Ops
    BY DEF IndInv, TypeOK, ReactorType
<1>g. ASSUME UNCHANGED <<stop_, crashed>>, close_ \subseteq close_',
             sock_ \subseteq sock_', flags \subseteq flags', KeepsStack
      PROVE  HeardInv'
    BY <1>g DEF HeardInv, Running, Heard, KeepsStack
<1>s. ASSUME NEW o \in Objects, stop_' = stop_ \union {o},
             UNCHANGED <<crashed, flags, stack, sock_>>,
             close_ \subseteq close_',
             \/ o \in close_' \/ o \in sock_
             \/ \E op \in flags : op.o = o /\ o \notin Clients
      PROVE  HeardInv'
    BY <1>s, KeepFacts DEF HeardInv, Running, Heard, KeepsStack
<1>r. ASSUME NEW op \in Ops, UNCHANGED <<stop_, crashed, sock_>>,
             close_ \subseteq close_', flags \subseteq flags', KeepsBut(op),
             op.o \in stop_ \ close_' =>
                 op.o \notin Clients /\ \E x \in flags' : x.o = op.o
      PROVE  HeardInv'
  <2> SUFFICES ASSUME Running', NEW o \in stop_' \ close_'
               PROVE  Heard(o)'
      BY DEF HeardInv
  <2>1. o \in stop_ \ close_ /\ Heard(o)
    BY <1>r DEF HeardInv, Running
  <2>2. CASE o = op.o
    BY <1>r, <2>1, <2>2 DEF Heard
  <2>3. CASE o # op.o
    BY <1>r, <2>1, <2>3 DEF Heard, KeepsBut
  <2>. QED
    BY <2>2, <2>3
<1>v. ASSUME NEW op \in Ops, Visit(op), Enter(op), UNCHANGED crashed,
             sock_ \ {op.o} \subseteq sock_'
      PROVE  HeardInv'
  <2>1. On(op, stack)' /\ flags' = flags \ {op}
    BY <1>v, EnterFacts
  <2>2. stack = <<>> /\ UNCHANGED <<stop_, close_>>
    BY <1>v DEF Visit, Taken, AtLoop
  <2>3. \A x : ~On(x, stack)
    BY <2>2, EmptyFacts
  <2>. QED
    BY <1>v, <2>1, <2>2, <2>3 DEF HeardInv, Running, Heard
<1>1. ASSUME NEW s \in Streams, StreamStep(s)
      PROVE  HeardInv'
  <2>0. /\ UNCHANGED sock_ /\ s \in Objects /\ s \notin Clients
        /\ Read(s) \in Ops /\ Read(s).o = s
        /\ Write(s) \in Ops /\ Write(s).o = s
    BY <1>1, Disjoint, OpFacts DEF StreamStep, OfStream, clientVars
  <2>1. CASE StreamStart(s)
    BY <1>g, <2>0, <2>1, KeepFacts DEF StreamStart
  <2>2. CASE StreamRead(s)
    <3>1. Posts(Read(s), stack)
      BY <2>2 DEF StreamRead, Posts
    <3>2. KeepsStack /\ flags \subseteq flags'
      BY <2>0, <3>1, KeepFacts DEF Posts, Pend, Ends, Fails
    <3>. QED
      BY <1>g, <2>0, <2>2, <3>2 DEF StreamRead
  <2>3. CASE StreamWrite(s)
    <3>1. stack # <<>> /\ Posts(Write(s), Written(s))
      BY <2>3 DEF StreamWrite, PostWrite, Posts, Calls, InUser
    <3>2. KeepsStack /\ flags \subseteq flags'
      BY <2>0, <3>1, KeepFacts DEF Posts, Pend, Ends, Fails
    <3>. QED
      BY <1>g, <2>0, <2>3, <3>2 DEF StreamWrite
  <2>4. CASE StreamStop(s)
    <3>1. close_ \subseteq close_'
      BY <2>4 DEF StreamStop, StreamPostToClose, PostToClose, NoClose
    <3>2. s \in close_' \/ \E op \in flags : op.o = s
      BY <2>0, <2>4
         DEF StreamStop, StreamPostToClose, PostToClose, reading, writing
    <3>. QED
      BY <1>s, <2>0, <2>4, <3>1, <3>2 DEF StreamStop
  <2>5. CASE RunRead(s)
    BY <1>v, <2>0, <2>5 DEF RunRead
  <2>6. CASE RunWrite(s)
    <3>1. CASE s \in wcb /\ Enter(Write(s)) /\ UNCHANGED crashed
      BY <1>v, <2>0, <2>6, <3>1 DEF RunWrite
    <3>2. CASE crashed' = "bad_function_call"
      BY <3>2 DEF HeardInv, Running
    <3>. QED
      BY <2>6, <3>1, <3>2 DEF RunWrite
  <2>7. CASE RunReadReturn(s)
    <3>1. /\ stack # <<>> /\ Top.op = Read(s)
          /\ stack' = Popped \/ Posts(Read(s), Popped)
      BY <2>7 DEF RunReadReturn, Returns, InUser, NoPost, CallNone, PostRead,
                  Posts
    <3>2. KeepsBut(Read(s))
      BY <2>0, <3>1, KeepFacts
    <3>3. flags \subseteq flags' /\ close_ \subseteq close_'
      BY <2>7 DEF RunReadReturn, NoPost, PostRead, Pend, Ends, Fails,
                  StreamPostToClose, PostToClose, NoClose
    <3>4. s \in stop_ \ close_' => Write(s) \in flags
      BY <2>7 DEF RunReadReturn, StreamPostToClose, PostToClose, writing
    <3>. QED
      BY <1>r, <2>0, <2>7, <3>2, <3>3, <3>4 DEF RunReadReturn
  <2>8. CASE RunWriteReturn(s)
    <3>1. stack # <<>> /\ Top.op = Write(s) /\ stack' = Popped
      BY <2>8 DEF RunWriteReturn, Returns, InUser, NoPost, CallNone
    <3>2. KeepsBut(Write(s))
      BY <2>0, <3>1, KeepFacts
    <3>3. UNCHANGED flags /\ close_ \subseteq close_'
      BY <2>8 DEF RunWriteReturn, NoPost, StreamPostToClose, PostToClose,
                  NoClose
    <3>4. s \in stop_ \ close_' => Read(s) \in flags \/ Write(s) \in flags
      BY <2>8 DEF RunWriteReturn, ClosesAfterWrite, StreamPostToClose,
                  PostToClose, reading, writing
    <3>. QED
      BY <1>r, <2>0, <2>8, <3>2, <3>3, <3>4 DEF RunWriteReturn
  <2>. QED
    BY <1>1, <2>1, <2>2, <2>3, <2>4, <2>5, <2>6, <2>7, <2>8
       DEF StreamStep, StreamCall, StreamHandler
<1>2. ASSUME NEW a \in Acceptors, AcceptorStep(a)
      PROVE  HeardInv'
  <2>0. /\ UNCHANGED sock_ /\ a \in Objects /\ a \notin Clients
        /\ \A op \in AcceptOps(a) : op \in Ops /\ op.o = a
        /\ Op(a, "error") \in ErrorOps /\ Op(a, "start") \in ErrorOps
    BY <1>2, Disjoint, OpFacts, ErrorFacts
       DEF AcceptorStep, OfAcceptor, clientVars
  <2>1. CASE AcceptorStart(a)
    <3>1. \E f \in Contexts : stack' = Append(stack, f)
      BY <2>0, <2>1, ContextFacts, NowFacts
         DEF AcceptorStart, AcceptorStartFails, CallInline, CallNone
    <3>2. KeepsStack
      BY <3>1, KeepFacts
    <3>. QED
      BY <1>g, <2>0, <2>1, <3>2 DEF AcceptorStart
  <2>2. CASE AcceptorStop(a)
    <3>1. close_ \subseteq close_'
      BY <2>2 DEF AcceptorStop, AcceptorPostClose, PostToClose, NoClose
    <3>2. a \in close_' \/ \E op \in flags : op.o = a
      BY <2>0, <2>2
         DEF AcceptorStop, AcceptorPostClose, PostToClose, Doing
    <3>. QED
      BY <1>s, <2>0, <2>2, <3>1, <3>2 DEF AcceptorStop
  <2>3. CASE StartPosts(a)
    <3>1. stack # <<>> /\ Top.op \notin Ops
      BY <2>0, <2>3, OpFacts DEF StartPosts
    <3>2. CASE NoPost(Popped)
      <4>1. KeepsStack /\ UNCHANGED flags
        BY <3>1, <3>2, KeepFacts DEF NoPost, CallNone
      <4>. QED
        BY <1>g, <2>0, <2>3, <4>1 DEF StartPosts
    <3>3. CASE tried[a] < NSlots
               /\ PostAcceptor(Accept(a, tried[a] + 1), stack, Popped)
      <4>1. tried[a] + 1 \in 1 .. NSlots
        BY <3>3, WinReactorAssumption DEF IndInv, TypeOK
      <4>2. PICK op \in Ops : op = Accept(a, tried[a] + 1)
        BY <4>1, OpFacts
      <4>3. Posts(op, stack) \/ Posts(op, Popped)
        BY <3>3, <4>2 DEF PostAcceptor, Posts
      <4>4. KeepsStack
        BY <3>1, <4>3, KeepFacts
      <4>5. flags \subseteq flags'
        BY <4>3 DEF Posts, Pend, Ends, Fails
      <4>. QED
        BY <1>g, <2>0, <2>3, <4>4, <4>5 DEF StartPosts
    <3>. QED
      BY <2>3, <3>2, <3>3 DEF StartPosts
  <2>4. ASSUME NEW op \in AcceptOps(a), RunAccept(op)
        PROVE  HeardInv'
    BY <1>v, <2>0, <2>4 DEF RunAccept
  <2>5. ASSUME NEW op \in AcceptOps(a), RunAcceptReturn(op)
        PROVE  HeardInv'
    <3>1. /\ stack # <<>> /\ Top.op = op
          /\ stack' = Popped \/ Posts(op, Popped)
      BY <2>5 DEF RunAcceptReturn, Returns, InUser, NoPost, CallNone,
                  PostAcceptor, Posts
    <3>2. KeepsBut(op)
      BY <2>0, <3>1, KeepFacts
    <3>3. flags \subseteq flags' /\ close_ \subseteq close_'
      BY <2>5 DEF RunAcceptReturn, NoPost, PostAcceptor, Pend, Ends, Fails,
                  AcceptorPostClose, PostToClose, NoClose
    <3>4. a \in stop_ \ close_' => \E x \in flags' : x.o = a
      BY <2>0, <2>5, <3>3
         DEF RunAcceptReturn, ClosesWithLast, AcceptorPostClose, PostToClose,
             Doing
    <3>. QED
      BY <1>r, <2>0, <2>5, <3>2, <3>3, <3>4 DEF RunAcceptReturn
  <2>. QED
    BY <1>2, <2>1, <2>2, <2>3, <2>4, <2>5
       DEF AcceptorStep, AcceptorCall, AcceptorHandler
<1>3. ASSUME NEW c \in Clients, ClientStep(c)
      PROVE  HeardInv'
  <2>0. /\ c \in Objects /\ Connect(c) \in Ops /\ Connect(c).o = c
        /\ Error(Connect(c)) \in ErrorOps
    BY Disjoint, OpFacts, ErrorFacts
  <2>1. CASE ClientStart(c)
    <3>1. UNCHANGED stack \/ \E f \in Contexts : stack' = Append(stack, f)
      BY <2>0, <2>1, NowFacts DEF ClientStart, CallInline, CallNone
    <3>2. KeepsStack
      BY <3>1, KeepFacts
    <3>. QED
      BY <1>g, <2>1, <3>2 DEF ClientStart
  <2>2. CASE ClientStop(c)
    <3>1. /\ close_ \subseteq close_'
          /\ c \in close_' \/ c \in sock_
      BY <2>2 DEF ClientStop, ClientPostToClose, PostToClose, NoClose
    <3>. QED
      BY <1>s, <2>0, <2>2, <3>1 DEF ClientStop
  <2>3. CASE RunConnect(c)
    BY <1>v, <2>0, <2>3 DEF RunConnect
  <2>4. CASE RunConnectReturn(c)
    <3>1. stack # <<>> /\ Top.op = Connect(c) /\ stack' = Popped
      BY <2>4 DEF RunConnectReturn, Returns, InUser, NoPost, CallNone
    <3>2. KeepsBut(Connect(c))
      BY <2>0, <3>1, KeepFacts
    <3>3. /\ UNCHANGED flags /\ close_ \subseteq close_'
          /\ c \notin stop_ \ close_'
      BY <2>4 DEF RunConnectReturn, NoPost, ClientPostToClose, PostToClose,
                  NoClose
    <3>. QED
      BY <1>r, <2>0, <2>4, <3>2, <3>3 DEF RunConnectReturn
  <2>. QED
    BY <1>3, <2>1, <2>2, <2>3, <2>4 DEF ClientStep, ClientCall, ClientHandler
<1>4. CASE FrameStep
  <2>1. UNCHANGED <<stop_, close_, flags, sock_>>
    BY <1>4 DEF FrameStep, Frame, OfLoop, clientVars
  <2>2. CASE VisitDeleted
    BY <2>2 DEF VisitDeleted, HeardInv, Running
  <2>3. CASE TakePackets \/ RunMux \/ SwapLocal \/ RunClose \/ DoneLocal
             \/ OnTimer
    BY <1>g, <2>1, <2>3, KeepFacts
       DEF TakePackets, RunMux, SwapLocal, RunClose, DoneLocal, OnTimer,
           AtLoop
  <2>4. CASE PlainReturn
    <3>1. Top.op \notin Ops
      BY <2>4 DEF PlainReturn, Ops
    <3>. QED
      BY <1>g, <2>1, <2>4, <3>1, KeepFacts DEF PlainReturn, InUser
  <2>. QED
    BY <1>4, <2>2, <2>3, <2>4 DEF FrameStep, Frame
<1>5. ASSUME NEW op \in Ops, SystemStep(op)
      PROVE  HeardInv'
    BY <1>5, <1>g, KeepFacts DEF SystemStep, KPacket, OfLoop, clientVars
<1>6. CASE UNCHANGED vars
    BY <1>6, <1>g, KeepFacts DEF vars, reactorVars, clientVars
<1>. QED
    BY <1>1, <1>2, <1>3, <1>4, <1>5, <1>6, StepCases

(* Of a stopped object that is not closed yet the system, the port or the   *)
(* loop still has an operation to end, but for a client whose connect was   *)
(* never posted: no stop() waits for a completion that nobody owes.         *)
THEOREM StopsAreHeard == Spec => []StopIsHeard
<1>1. Init => HeardInv
    BY DEF Init, ReactorInit, HeardInv
<1>2. IndInv /\ HeardInv /\ [Next]_vars => HeardInv'
    BY HeardStep
<1>3. IndInv /\ HeardInv => StopIsHeard
  <2> SUFFICES ASSUME IndInv, HeardInv, Running, NEW o \in stop_ \ close_,
                      ~NeverPosted(o)
               PROVE  \E op \in Ops :
                         /\ op.o = o
                         /\ \/ Pending(op)
                            \/ \E i \in DOMAIN stack : stack[i].op = op
      BY DEF StopIsHeard
  <2>1. \A op \in Ops : Pending(op) <=> Busy(op)
    BY PendingIsBusy
  <2>2. Heard(o)
    BY DEF HeardInv
  <2>3. CASE o \in sock_
    <3>1. Pending(Connect(o)) /\ o \in Clients
      BY <2>3 DEF NeverPosted, IndInv, TypeOK
    <3>. QED
      BY <3>1, OpFacts
  <2>4. ASSUME NEW op \in flags, op.o = o, o \notin Clients
        PROVE  op \in Ops /\ Pending(op)
    BY <2>1, <2>4 DEF IndInv, TypeOK, ReactorType, KernelInv
  <2>5. ASSUME NEW op \in Ops, op.o = o, On(op, stack)
        PROVE  \E i \in DOMAIN stack : stack[i].op = op
    BY <2>5, LenProperties DEF On, IndInv
  <2>. QED
    BY <2>2, <2>3, <2>4, <2>5 DEF Heard
<1>. QED
    BY <1>1, <1>2, <1>3, InductiveInvariant, PTL DEF Spec
=============================================================================
