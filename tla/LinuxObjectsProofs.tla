-------------------------- MODULE LinuxObjectsProofs --------------------------
(***************************************************************************)
(* Proofs about LinuxObjects, for any number of streams, acceptors and     *)
(* clients, any size of the completion ring and any programs of users that *)
(* keep to UserContract.                                                   *)
(***************************************************************************)
EXTENDS LinuxPromiseProofs

(* Users do not stop an acceptor that failed to start, nor a client, and in *)
(* the callback of a write to a stream stopped before they do not write.    *)
UserContract ==
    /\ StopFailed = FALSE
    /\ StopClients = FALSE
    /\ "write" \notin LateWrites

-----------------------------------------------------------------------------
(* The inductive invariant.                                                 *)

(* What is flagged is in flight, as no closed object is flagged.            *)
KernelInv == \A op \in flags : Comes(op)

(* An object is in register_cb from its start to its close, but for an      *)
(* acceptor that failed and a client whose connect has ended; and no object *)
(* that is not there left an operation behind.                              *)
RegisterInv ==
    /\ \A op \in flags : op.o \in registered
    /\ \A o \in registered :
          life[o] = "live" /\ o \notin close_ /\ o \notin failed
    /\ \A o \in Streams \union (Acceptors \ failed) :
          life[o] = "live" /\ o \notin close_ => o \in registered

(* Where an object is in its life.                                          *)
LifeInv ==
    /\ \A o \in stop_ : life[o] \in {"live", "deleted"}
    /\ stop_ \intersect (failed \union Clients) = {}
    /\ \A a \in failed : life[a] = "live"
    /\ \A o \in Objects : life[o] = "deleted" => o \in close_

(* In a callback.  A write is not posted again before its callback returns  *)
(* unless a read that is still in flight outlives it.                       *)
ContextInv ==
    /\ ctx.op \in Entered =>
          life[ctx.op.o] = "live" /\ ctx.op.o \notin failed
    /\ ctx.late => ctx.op \in Entered /\ ctx.op.o \in stop_ \ close_
    /\ \A s \in Streams : ctx.op = Write(s) =>
          Read(s) \in flags \/ (ctx.late /\ Write(s) \notin flags)

(* A stream that is read has a read in flight until it is stopped, or is in *)
(* the callbacks of one.                                                    *)
ReadInv ==
    \A s \in Streams :
        asked[s] = "ok" /\ s \notin stop_ =>
            Read(s) \in flags \/ (ctx.op.o = s /\ ctx.op # Write(s))

(* With what holds for any users.                                           *)
IndInv ==
    /\ BaseInv /\ KernelInv /\ RegisterInv /\ LifeInv /\ ContextInv
    /\ ReadInv /\ NoPanic

-----------------------------------------------------------------------------
(* What the operations find.                                                *)

(* What an operation finds when the program calls it: no panic() fails, and *)
(* nothing is posted that is in flight.                                     *)
LEMMA Found ==
    ASSUME UserContract, IndInv
    PROVE
    /\ \A s \in Streams :
          /\ StreamRead(s) => s \in registered /\ Read(s) \notin flags
          /\ StreamWrite(s) => s \in registered /\ Write(s) \notin flags
          /\ StreamStop(s) => s \in registered
          /\ RunReadReturn(s) =>
                /\ Read(s) \notin flags
                /\ s \in registered <=> s \notin close_
          /\ RunWriteReturn(s) =>
                /\ Read(s) \notin flags => Write(s) \notin flags
                /\ s \in registered <=> s \notin close_
    /\ \A a \in Acceptors :
          /\ AcceptorStop(a) => a \in registered
          /\ RunAcceptReturn(a) =>
                /\ Accept(a) \notin flags
                /\ a \in registered <=> a \notin close_
    /\ \A c \in Clients :
          /\ ~ClientStop(c)
          /\ c \notin stop_
<1>a. /\ close_ \subseteq stop_ /\ stop_ \subseteq Objects
      /\ flags \subseteq Ops /\ flags \subseteq posted
      /\ failed \subseteq Acceptors
    BY DEF IndInv, BaseInv, TypeOK, ReactorType
<1>b. CallInv
    BY DEF IndInv, BaseInv
<1> USE <1>a, OpFacts, EnteredFacts, Disjoint DEF IndInv
<1>1. ASSUME NEW s \in Streams, StreamRead(s)
      PROVE  s \in registered /\ Read(s) \notin flags
    BY <1>1, <1>b DEF StreamRead, Calls, RegisterInv, CallInv
<1>2. ASSUME NEW s \in Streams, StreamWrite(s)
      PROVE  s \in registered /\ Write(s) \notin flags
  <2>1. s \notin close_
    BY <1>2 DEF StreamWrite, MayWrite, ContextInv
  <2>. QED
    BY <1>2, <2>1 DEF StreamWrite, Calls, RegisterInv, writing_
<1>3. ASSUME NEW s \in Streams, StreamStop(s)
      PROVE  s \in registered
    BY <1>3 DEF StreamStop, Calls, RegisterInv
<1>4. ASSUME NEW s \in Streams, RunReadReturn(s)
      PROVE  /\ Read(s) \notin flags
             /\ s \in registered <=> s \notin close_
    BY <1>4, <1>b DEF RunReadReturn, Returns, CallInv, RegisterInv
<1>5. ASSUME NEW s \in Streams, RunWriteReturn(s)
      PROVE  /\ Read(s) \notin flags => Write(s) \notin flags
             /\ s \in registered <=> s \notin close_
    BY <1>5, <1>b DEF RunWriteReturn, Returns, CallInv, ContextInv, RegisterInv
<1>6. ASSUME NEW a \in Acceptors, AcceptorStop(a)
      PROVE  a \in registered
    BY <1>6 DEF AcceptorStop, Calls, RegisterInv, UserContract
<1>7. ASSUME NEW a \in Acceptors, RunAcceptReturn(a)
      PROVE  /\ Accept(a) \notin flags
             /\ a \in registered <=> a \notin close_
    BY <1>7, <1>b DEF RunAcceptReturn, Returns, CallInv, ContextInv, RegisterInv
<1>8. ASSUME NEW c \in Clients
      PROVE  ~ClientStop(c) /\ c \notin stop_
    BY DEF ClientStop, UserContract, LifeInv
<1>. QED
    BY <1>1, <1>2, <1>3, <1>4, <1>5, <1>6, <1>7, <1>8

-----------------------------------------------------------------------------
(* The steps of programs that keep to the contract.                         *)

StreamStep(s) == StreamCall(s) \/ StreamHandler(s)

AcceptorStep(a) == AcceptorCall(a) \/ AcceptorHandler(a)

ConnectStep(c) == ClientStart(c) \/ ClientHandler(c)

(* Steps that neither call an object nor delete one.                        *)
Aside ==
    /\ UNCHANGED <<life, stop_, close_, flags, registered, asked, failed>>
    /\ \/ ctx'.op = ctx.op /\ ctx'.late = ctx.late
       \/ ctx' \in {Idle, Task} /\ ctx.op.o = NoObject
    /\ panicked' \in {panicked, "handle_eventfd"}

LEMMA ContractSteps ==
    ASSUME UserContract, IndInv, [Next]_vars
    PROVE  \/ \E s \in Streams : StreamStep(s) /\ OfStream
           \/ \E a \in Acceptors : AcceptorStep(a) /\ OfAcceptor
           \/ \E c \in Clients : ConnectStep(c) /\ OfClient
           \/ RunClose /\ FrameQuiet /\ OfLoop
           \/ Aside
<1>1. CASE Call
    BY <1>1, Found
       DEF Call, StreamStep, OfStream, AcceptorStep, OfAcceptor, ConnectStep,
           ClientCall, OfClient
<1>2. CASE LoopStep
  <2>1. ASSUME Frame, OfLoop
        PROVE  (RunClose /\ FrameQuiet) \/ Aside
    <3>1. CASE SkipCqe \/ ReadEventfd
      BY <2>1, <3>1
         DEF SkipCqe, ReadEventfd, TakeCqe, OfLoop, streamVars, acceptorVars,
             Aside
    <3>2. CASE Onward /\ FrameQuiet
      BY <2>1, <3>2, ContextFacts
         DEF Onward, FrameQuiet, CqAdvance, RunMux, SwapLocal, DoneLocal,
             OnTimer, TaskReturn, AtLoop, Returns, OfLoop, streamVars,
             acceptorVars, Aside
    <3>3. CASE ErrorReturn /\ FrameQuiet
      <4>1. ctx'.op = ctx.op /\ ctx'.late = ctx.late
        BY <3>3, ContextMoves DEF IndInv
      <4>. QED
        BY <2>1, <3>3, <4>1
           DEF ErrorReturn, FrameQuiet, OfLoop, streamVars, acceptorVars, Aside
    <3>. QED
      BY <2>1, <3>1, <3>2, <3>3 DEF Frame, Onward, FrameQuiet
  <2>. QED
    BY <1>2, <2>1
       DEF LoopStep, OfLoop, StreamStep, OfStream, AcceptorStep, OfAcceptor,
           ConnectStep, OfClient
<1>3. CASE Kernel
    BY <1>3
       DEF Kernel, Completed, Cancelled, KComplete, KCancel, closeVars,
           streamVars, acceptorVars, Aside
<1>4. CASE UNCHANGED vars
    BY <1>4 DEF vars, reactorVars, closeVars, streamVars, acceptorVars, Aside
<1>. QED
    BY <1>1, <1>2, <1>3, <1>4 DEF Next

-----------------------------------------------------------------------------
(* register_cb.                                                             *)

LEMMA RegisterStep == ASSUME UserContract, IndInv, [Next]_vars
                      PROVE  RegisterInv'
<1>a. /\ RegisterInv /\ LifeInv /\ KernelInv
      /\ flags \subseteq Ops /\ close_ \subseteq stop_
      /\ stop_ \subseteq Objects /\ failed \subseteq Acceptors
      /\ registered \subseteq Objects
      /\ life \in [Objects -> {"new", "live", "deleted", "unused"}]
    BY DEF IndInv, BaseInv, TypeOK, ReactorType
<1>q. UNCHANGED <<life, flags, registered, close_, failed>> => RegisterInv'
    BY <1>a DEF RegisterInv
<1>s. ASSUME NEW o \in Objects, Register(o), close_' = close_,
             failed' = failed, \A op \in flags' : op \in flags \/ op.o = o
      PROVE  RegisterInv'
    BY <1>a, <1>s DEF Register, RegisterInv, LifeInv
<1>p. ASSUME NEW op \in Ops, op.o \in registered, flags' = flags \union {op},
             UNCHANGED <<life, registered, close_, failed>>
      PROVE  RegisterInv'
    BY <1>a, <1>p DEF RegisterInv
<1>d. ASSUME NEW op \in Ops, flags' = flags \ {op},
             UNCHANGED <<life, registered, close_, failed>>
      PROVE  RegisterInv'
    BY <1>a, <1>d DEF RegisterInv
<1>c. ASSUME NEW o \in Objects, o \in registered \/ o \in close_, CloseOnce(o),
             \A op \in flags : op.o # o, UNCHANGED <<life, flags, failed>>
      PROVE  RegisterInv'
    BY <1>a, <1>c DEF CloseOnce, Unregister, NoClose, closeVars, RegisterInv
<1>1. ASSUME NEW s \in Streams, StreamStep(s), OfStream
      PROVE  RegisterInv'
  <2>a. failed' = failed
    BY <1>1 DEF OfStream, acceptorVars
  <2>b. Read(s) \notin flags /\ Write(s) \notin flags =>
           \A op \in flags : op.o # s
    BY <1>a, OpFacts
  <2>1. CASE StreamStart(s)
    BY <1>s, <2>a, <2>1, Disjoint DEF StreamStart, NoSubmit
  <2>2. CASE StreamRead(s)
    BY <1>p, <1>q, <2>a, <2>2, Found, OpFacts DEF StreamRead, Post, Submit, NoSubmit, closeVars
  <2>3. CASE StreamWrite(s)
    BY <1>p, <2>a, <2>3, Found, OpFacts DEF StreamWrite, Post, Submit, closeVars
  <2>4. CASE StreamStop(s)
    BY <1>c, <1>q, <2>a, <2>b, <2>4, Found, Disjoint
       DEF StreamStop, StreamPostToClose, Cancel, NoCancel, NoClose, closeVars,
           reading_, writing_
  <2>5. CASE RunRead(s) \/ RunWrite(s)
    BY <1>d, <2>a, <2>5, OpFacts DEF RunRead, RunWrite, Dispatch, TakeCqe
  <2>8. CASE RunAllocReturn(s) \/ RunReadV(s)
    BY <1>q, <2>a, <2>8
       DEF RunAllocReturn, RunReadV, NoSubmit, NoClose, closeVars
  <2>6. CASE RunReadReturn(s)
    BY <1>c, <1>p, <1>q, <2>a, <2>b, <2>6, Found, OpFacts, Disjoint
       DEF RunReadReturn, Post, Submit, NoSubmit, StreamPostToClose, NoClose, closeVars,
           ClosesAfterRead, ReadsAgain, writing_, IndInv, BaseInv, TypeOK, ReactorType
  <2>7. CASE RunWriteReturn(s)
    BY <1>c, <1>q, <2>a, <2>b, <2>7, Found, Disjoint
       DEF RunWriteReturn, StreamPostToClose, NoSubmit, NoClose, closeVars,
           ClosesAfterWrite, reading_
  <2>. QED
    BY <1>1, <2>1, <2>2, <2>3, <2>4, <2>5, <2>6, <2>7, <2>8
       DEF StreamStep, StreamCall, StreamHandler
<1>2. ASSUME NEW a \in Acceptors, AcceptorStep(a)
      PROVE  RegisterInv'
  <2>b. Accept(a) \notin flags => \A op \in flags : op.o # a
    BY <1>a, OpFacts
  <2>1. CASE AcceptorStart(a)
    <3>1. a \in Objects /\ Accept(a).o = a
      BY OpFacts, Disjoint
    <3>2. /\ Register(a) /\ flags' = flags \union {Accept(a)}
          /\ close_' = close_ /\ failed' = failed
      BY <2>1 DEF AcceptorStart, Submit
    <3>. QED
      BY <1>s, <3>1, <3>2
  <2>2. CASE AcceptorStartFails(a)
    BY <1>a, <2>2, Disjoint
       DEF AcceptorStartFails, NoSubmit, closeVars, RegisterInv
  <2>3. CASE AcceptorStop(a)
    BY <1>c, <1>q, <2>b, <2>3, Found, Disjoint
       DEF AcceptorStop, AcceptorPostToClose, Cancel, NoClose, closeVars
  <2>4. CASE RunAccept(a)
    BY <1>d, <2>4, OpFacts DEF RunAccept, Dispatch, TakeCqe
  <2>5. CASE RunAcceptReturn(a)
    BY <1>c, <1>p, <1>a, <2>b, <2>5, Found, OpFacts, Disjoint
       DEF RunAcceptReturn, PostAccept, AcceptorPostToClose, Post, Submit,
           NoSubmit, closeVars
  <2>. QED
    BY <1>2, <2>1, <2>2, <2>3, <2>4, <2>5
       DEF AcceptorStep, AcceptorCall, AcceptorHandler
<1>3. ASSUME NEW c \in Clients, ConnectStep(c), OfClient
      PROVE  RegisterInv'
  <2>a. failed' = failed
    BY <1>3 DEF OfClient, acceptorVars
  <2>1. CASE ClientStart(c)
    <3>1. c \in Objects /\ Connect(c).o = c
      BY OpFacts, Disjoint
    <3>2. Register(c) /\ flags' = flags \union {Connect(c)} /\ close_' = close_
      BY <2>1 DEF ClientStart, Submit
    <3>. QED
      BY <1>s, <2>a, <3>1, <3>2
  <2>2. CASE RunConnect(c)
    <3>1. /\ flags' = flags \ {Connect(c)} /\ registered' = registered \ {c}
          /\ UNCHANGED <<life, close_, failed>>
      BY <2>a, <2>2 DEF RunConnect, Dispatch, TakeCqe
    <3>2. \A op \in flags \ {Connect(c)} : op.o # c
      BY <1>a, OpFacts
    <3>. QED
      BY <1>a, <3>1, <3>2, Disjoint DEF RegisterInv
  <2>3. CASE RunConnectReturn(c)
    BY <1>q, <2>a, <2>3, Found
       DEF RunConnectReturn, NoSubmit, NoClose, closeVars
  <2>. QED
    BY <1>3, <2>1, <2>2, <2>3 DEF ConnectStep, ClientHandler
<1>4. CASE Aside
    BY <1>q, <1>4 DEF Aside
<1>5. CASE RunClose /\ FrameQuiet /\ OfLoop
  <2>1. /\ pendings1 # <<>> /\ life' = [life EXCEPT ![Head(pendings1)] = "deleted"]
        /\ UNCHANGED <<flags, registered, close_, failed>>
    BY <1>5 DEF RunClose, FrameQuiet, OfLoop, acceptorVars
  <2>2. Head(pendings1) \in close_
    BY <2>1, FrontClosed DEF IndInv
  <2>. QED
    BY <1>a, <2>1, <2>2 DEF RegisterInv
<1>. QED
    BY <1>1, <1>2, <1>3, <1>4, <1>5, ContractSteps

-----------------------------------------------------------------------------
(* The life of an object.                                                   *)

LEMMA LifeStep == ASSUME UserContract, IndInv, [Next]_vars
                  PROVE  LifeInv'
<1>a. /\ LifeInv /\ close_ \subseteq stop_
      /\ stop_ \subseteq Objects /\ failed \subseteq Acceptors
      /\ life \in [Objects -> {"new", "live", "deleted", "unused"}]
    BY DEF IndInv, BaseInv, TypeOK, ReactorType
<1>q. UNCHANGED <<life, stop_, failed>> /\ close_ \subseteq close_' => LifeInv'
    BY <1>a DEF LifeInv
<1>s. ASSUME NEW o \in Objects, Register(o), UNCHANGED <<stop_, close_, failed>>
      PROVE  LifeInv'
    BY <1>a, <1>s DEF Register, LifeInv
<1>t. ASSUME NEW o \in Objects \ (failed \union Clients), life[o] = "live",
             stop_' = stop_ \union {o}, UNCHANGED <<life, failed>>,
             close_ \subseteq close_'
      PROVE  LifeInv'
    BY <1>a, <1>t DEF LifeInv
<1>c. \A o \in Objects : CloseOnce(o) => close_ \subseteq close_'
    BY DEF CloseOnce, NoClose, closeVars
<1>1. ASSUME NEW s \in Streams, StreamStep(s), OfStream
      PROVE  LifeInv'
  <2>a. failed' = failed /\ s \in Objects \ (failed \union Clients)
    BY <1>a, <1>1, Disjoint DEF OfStream, acceptorVars
  <2>1. CASE StreamStart(s)
    BY <1>s, <2>a, <2>1 DEF StreamStart
  <2>2. CASE StreamStop(s)
    <3>1. close_ \subseteq close_'
      BY <1>c, <2>a, <2>2
         DEF StreamStop, StreamPostToClose, Cancel, NoClose, closeVars
    <3>. QED
      BY <1>t, <2>a, <2>2, <3>1 DEF StreamStop, Calls
  <2>3. CASE StreamRead(s) \/ StreamWrite(s) \/ RunRead(s) \/ RunWrite(s)
    BY <1>q, <2>a, <2>3
       DEF StreamRead, StreamWrite, RunRead, RunWrite, Dispatch, TakeCqe,
           closeVars
  <2>5. CASE RunAllocReturn(s) \/ RunReadV(s)
    BY <1>q, <2>a, <2>5 DEF RunAllocReturn, RunReadV, NoClose, closeVars
  <2>4. CASE RunReadReturn(s) \/ RunWriteReturn(s)
    <3>1. close_ \subseteq close_'
      BY <1>c, <2>a, <2>4
         DEF RunReadReturn, RunWriteReturn, StreamPostToClose, NoClose, closeVars
    <3>. QED
      BY <1>q, <2>a, <2>4, <3>1 DEF RunReadReturn, RunWriteReturn
  <2>. QED
    BY <1>1, <2>1, <2>2, <2>3, <2>4, <2>5
       DEF StreamStep, StreamCall, StreamHandler
<1>2. ASSUME NEW a \in Acceptors, AcceptorStep(a)
      PROVE  LifeInv'
  <2>a. a \in Objects /\ a \notin Clients
    BY Disjoint
  <2>1. CASE AcceptorStart(a)
    BY <1>s, <2>a, <2>1 DEF AcceptorStart
  <2>2. CASE AcceptorStartFails(a)
    BY <1>a, <2>a, <2>2 DEF AcceptorStartFails, closeVars, LifeInv
  <2>3. CASE AcceptorStop(a)
    <3>1. close_ \subseteq close_'
      BY <1>c, <2>a, <2>3
         DEF AcceptorStop, AcceptorPostToClose, Cancel, NoClose, closeVars
    <3>. QED
      BY <1>t, <2>a, <2>3, <3>1 DEF AcceptorStop, Calls, UserContract
  <2>4. CASE RunAccept(a)
    BY <1>q, <2>4 DEF RunAccept, Dispatch, TakeCqe
  <2>5. CASE RunAcceptReturn(a)
    <3>1. close_ \subseteq close_'
      BY <1>c, <2>a, <2>5
         DEF RunAcceptReturn, AcceptorPostToClose, closeVars
    <3>. QED
      BY <1>q, <2>5, <3>1 DEF RunAcceptReturn
  <2>. QED
    BY <1>2, <2>1, <2>2, <2>3, <2>4, <2>5
       DEF AcceptorStep, AcceptorCall, AcceptorHandler
<1>3. ASSUME NEW c \in Clients, ConnectStep(c), OfClient
      PROVE  LifeInv'
  <2>a. failed' = failed /\ c \in Objects
    BY <1>3, Disjoint DEF OfClient, acceptorVars
  <2>1. CASE ClientStart(c)
    BY <1>s, <2>a, <2>1 DEF ClientStart
  <2>2. CASE RunConnect(c) \/ RunConnectReturn(c)
    BY <1>q, <2>a, <2>2, Found
       DEF RunConnect, RunConnectReturn, Dispatch, TakeCqe, NoClose, closeVars
  <2>. QED
    BY <1>3, <2>1, <2>2 DEF ConnectStep, ClientHandler
<1>4. CASE Aside
    BY <1>q, <1>4 DEF Aside
<1>5. CASE RunClose /\ FrameQuiet /\ OfLoop
  <2>1. /\ pendings1 # <<>> /\ life' = [life EXCEPT ![Head(pendings1)] = "deleted"]
        /\ UNCHANGED <<stop_, close_, failed>>
    BY <1>5 DEF RunClose, FrameQuiet, OfLoop, acceptorVars
  <2>2. Head(pendings1) \in close_
    BY <2>1, FrontClosed DEF IndInv
  <2>. QED
    BY <1>a, <2>1, <2>2 DEF LifeInv
<1>. QED
    BY <1>1, <1>2, <1>3, <1>4, <1>5, ContractSteps

-----------------------------------------------------------------------------
(* The callbacks.                                                           *)

LEMMA ContextStep == ASSUME UserContract, IndInv, [Next]_vars
                     PROVE  ContextInv'
<1>a. /\ ContextInv /\ RegisterInv /\ LifeInv /\ ReadInv /\ CallInv
      /\ close_ \subseteq stop_ /\ stop_ \subseteq Objects
      /\ flags \subseteq Ops /\ flags \subseteq posted
      /\ failed \subseteq Acceptors
      /\ life \in [Objects -> {"new", "live", "deleted", "unused"}]
    BY DEF IndInv, BaseInv, TypeOK, ReactorType
<1>b. BaseInv
    BY DEF IndInv
<1>q. UNCHANGED <<life, stop_, close_, flags, failed>>
      /\ ctx'.op = ctx.op /\ ctx'.late = ctx.late => ContextInv'
    BY <1>a DEF ContextInv
<1>i. ctx' \in {Idle, Task} => ContextInv'
    BY ContextFacts, OpFacts, EnteredFacts DEF ContextInv
<1>s. ASSUME NEW o \in Objects, Register(o),
             UNCHANGED <<ctx, stop_, close_, failed>>,
             flags \subseteq flags',
             \A op \in flags' : op \in flags \/ (op.o = o /\ o \notin Streams)
      PROVE  ContextInv'
    BY <1>a, <1>s, OpFacts, Disjoint DEF Register, ContextInv
<1>e. ASSUME NEW e \in Entered, NEW op \in Ops, op = OpOf(e), Dispatch(op),
             Enter(e), UNCHANGED failed
      PROVE  ContextInv'
  <2>1. /\ ctx = Idle /\ op.o \in registered /\ e.o = op.o
        /\ flags' = flags \ {op} /\ UNCHANGED <<life, stop_, close_>>
        /\ cq # <<>> /\ Head(cq) = op
    BY <1>e, EnteredFacts DEF Dispatch, TakeCqe, AtLoop
  <2>2. ctx'.op = e /\ (ctx'.late <=> e.o \in stop_)
    <3>1. ctx'.op = e
      BY <1>e, Zenon DEF Enter, Callback
    <3>2. ctx'.late <=> e.o \in stop_
      BY <1>e, Zenon DEF Enter, Callback
    <3>. QED
      BY <3>1, <3>2
  <2>3. life[op.o] = "live" /\ op.o \notin close_ /\ op.o \notin failed
    BY <1>a, <2>1 DEF RegisterInv
  <2>4. op \in posted
    BY <1>b, <2>1, CqHead
  <2>5. ASSUME NEW s \in Streams, e = Write(s)
        PROVE  Read(s) \in flags' \/ (s \in stop_ /\ Write(s) \notin flags')
    <3>1. op = Write(s)
      BY <1>e, <2>5, OpFacts, EnteredFacts
    <3>2. CASE s \in stop_
      BY <2>1, <3>1, <3>2
    <3>3. CASE s \notin stop_
      <4>1. asked[s] = "ok" /\ ctx.op.o # s
        BY <1>a, <2>1, <2>4, <3>1, ContextFacts, OpFacts DEF CallInv
      <4>2. Read(s) \in flags
        BY <1>a, <3>3, <4>1 DEF ReadInv
      <4>. QED
        BY <2>1, <3>1, <4>2, OpFacts
    <3>. QED
      BY <3>2, <3>3
  <2>6. \A s \in Streams : e = Write(s) =>
           Read(s) \in flags' \/ (ctx'.late /\ Write(s) \notin flags')
    BY <2>2, <2>5, OpFacts
  <2>7. /\ life'[e.o] = "live" /\ e.o \notin failed'
        /\ ctx'.late => e.o \in stop_' \ close_'
    BY <1>e, <2>1, <2>2, <2>3
  <2>. QED
    BY <1>e, <2>2, <2>6, <2>7 DEF ContextInv
<1>1. ASSUME NEW s \in Streams, StreamStep(s), OfStream
      PROVE  ContextInv'
  <2>a. failed' = failed /\ s \in Objects
    BY <1>1, Disjoint DEF OfStream, acceptorVars
  <2>1. CASE StreamStart(s)
    BY <1>s, <2>a, <2>1 DEF StreamStart, NoSubmit
  <2>2. CASE StreamRead(s)
    <3>1. /\ flags' \in {flags, flags \union {Read(s)}}
          /\ UNCHANGED <<life, stop_, close_>>
      BY <2>2, Found, OpFacts DEF StreamRead, Post, Submit, NoSubmit, closeVars
    <3>2. ctx'.op = ctx.op /\ ctx'.late = ctx.late
      BY <1>b, <2>2, ContextMoves DEF StreamRead, Nests
    <3>3. ctx.op # Write(s)
      BY <1>a, <2>2, OpFacts DEF StreamRead, CallInv
    <3>. QED
      BY <1>a, <2>a, <3>1, <3>2, <3>3, OpFacts DEF ContextInv
  <2>3. CASE StreamWrite(s)
    <3>1. /\ flags' = flags \union {Write(s)}
          /\ UNCHANGED <<ctx, life, stop_, close_>>
      BY <2>3, Found, OpFacts DEF StreamWrite, Post, Submit, closeVars
    <3>2. ctx.op = Write(s) => Read(s) \in flags
      BY <1>a, <2>3, OpFacts
         DEF StreamWrite, MayWrite, ContextInv, UserContract
    <3>. QED
      BY <1>a, <2>a, <3>1, <3>2, OpFacts, Disjoint DEF ContextInv
  <2>4. CASE StreamStop(s)
    <3>1. /\ s \notin stop_ /\ stop_' = stop_ \union {s}
          /\ close_' \subseteq close_ \union {s}
          /\ UNCHANGED <<ctx, life, flags>>
      BY <2>4 DEF StreamStop, StreamPostToClose, CloseOnce, Cancel, NoClose,
                  closeVars
    <3>. QED
      BY <1>a, <2>a, <3>1 DEF ContextInv
  <2>5. CASE RunRead(s) \/ RunWrite(s)
    BY <1>e, <2>a, <2>5, OpFacts, EnteredFacts DEF RunRead, RunWrite
  <2>6. CASE RunAllocReturn(s) \/ RunReadV(s)
    <3>1. /\ ctx.op \in {Alloc(s), ReadV(s)} /\ ctx'.op \in {ReadV(s), Read(s)}
          /\ ctx'.late = ctx.late
          /\ UNCHANGED <<life, stop_, close_, flags>>
      <4>1. GoesOn(s)
        BY <2>a, <2>6, <1>1
           DEF RunAllocReturn, RunReadV, Returns, NoClose, closeVars, GoesOn,
               KernelQuiet, OfStream, acceptorVars
      <4>. QED
        BY <1>b, <4>1, ContextMoves DEF GoesOn, NoSubmit
    <3>2. /\ ctx.op \in Entered /\ ctx'.op \in Entered /\ ctx'.op.o = ctx.op.o
          /\ \A r \in Streams : ctx'.op # Write(r)
      BY <3>1, OpFacts, EnteredFacts
    <3>. QED
      BY <1>a, <2>a, <3>1, <3>2 DEF ContextInv
  <2>7. CASE RunReadReturn(s) \/ RunWriteReturn(s)
    BY <1>i, <2>7 DEF RunReadReturn, RunWriteReturn
  <2>. QED
    BY <1>1, <2>1, <2>2, <2>3, <2>4, <2>5, <2>6, <2>7
       DEF StreamStep, StreamCall, StreamHandler
<1>2. ASSUME NEW a \in Acceptors, AcceptorStep(a)
      PROVE  ContextInv'
  <2>a. a \in Objects /\ a \notin Streams /\ Accept(a).o = a
    BY Disjoint, OpFacts
  <2>1. CASE AcceptorStart(a)
    BY <1>s, <2>a, <2>1 DEF AcceptorStart, Submit
  <2>2. CASE AcceptorStartFails(a)
    <3>1. /\ life[a] = "new" /\ life' = [life EXCEPT ![a] = "live"]
          /\ failed' = failed \union {a}
          /\ UNCHANGED <<stop_, close_, flags>>
      BY <2>2 DEF AcceptorStartFails, NoSubmit, closeVars
    <3>2. ctx'.op = ctx.op /\ ctx'.late = ctx.late
      BY <1>b, <2>2, ContextMoves DEF AcceptorStartFails, Nests
    <3>3. ctx.op \in Entered => ctx.op.o # a
      BY <1>a, <3>1 DEF ContextInv
    <3>. QED
      BY <1>a, <2>a, <3>1, <3>2, <3>3, EnteredFacts DEF ContextInv
  <2>3. CASE AcceptorStop(a)
    <3>1. /\ a \notin stop_ /\ stop_' = stop_ \union {a}
          /\ close_' \subseteq close_ \union {a}
          /\ UNCHANGED <<ctx, life, flags, failed>>
      BY <2>3 DEF AcceptorStop, AcceptorPostToClose, CloseOnce, Cancel,
                  NoClose, closeVars
    <3>. QED
      BY <1>a, <2>a, <3>1 DEF ContextInv
  <2>4. CASE RunAccept(a)
    BY <1>e, <2>4, OpFacts, EnteredFacts DEF RunAccept
  <2>5. CASE RunAcceptReturn(a)
    BY <1>i, <2>5 DEF RunAcceptReturn
  <2>. QED
    BY <1>2, <2>1, <2>2, <2>3, <2>4, <2>5
       DEF AcceptorStep, AcceptorCall, AcceptorHandler
<1>3. ASSUME NEW c \in Clients, ConnectStep(c), OfClient
      PROVE  ContextInv'
  <2>a. failed' = failed /\ c \in Objects \ Streams /\ Connect(c).o = c
    BY <1>3, Disjoint, OpFacts DEF OfClient, acceptorVars
  <2>1. CASE ClientStart(c)
    BY <1>s, <2>a, <2>1 DEF ClientStart, Submit
  <2>2. CASE RunConnect(c)
    BY <1>e, <2>a, <2>2, OpFacts, EnteredFacts DEF RunConnect
  <2>3. CASE RunConnectReturn(c)
    BY <1>i, <2>3 DEF RunConnectReturn
  <2>. QED
    BY <1>3, <2>1, <2>2, <2>3 DEF ConnectStep, ClientHandler
<1>4. CASE RunClose
    BY <1>i, <1>4 DEF RunClose
<1>5. CASE Aside
    BY <1>i, <1>q, <1>5 DEF Aside
<1>. QED
    BY <1>1, <1>2, <1>3, <1>4, <1>5, ContractSteps

-----------------------------------------------------------------------------
(* Reads and writes.                                                        *)

LEMMA ReadStep == ASSUME UserContract, IndInv, [Next]_vars
                  PROVE  ReadInv'
<1>a. /\ ReadInv /\ flags \subseteq Ops
      /\ asked \in [Streams -> {"no", "ok", "failed"}]
    BY DEF IndInv, BaseInv, TypeOK, ReactorType
<1>b. BaseInv
    BY DEF IndInv
<1>q. UNCHANGED <<flags, asked>> /\ stop_ \subseteq stop_'
      /\ ctx'.op = ctx.op => ReadInv'
    BY <1>a DEF ReadInv
<1>n. ASSUME flags \subseteq flags', UNCHANGED <<asked, stop_>>,
             ctx.op.o \notin Streams
      PROVE  ReadInv'
    BY <1>a, <1>n DEF ReadInv
<1>p. ASSUME flags \subseteq flags', UNCHANGED <<ctx, asked, stop_>>
      PROVE  ReadInv'
    BY <1>a, <1>p DEF ReadInv
<1>e. ASSUME NEW e \in Entered, NEW op \in Ops, op = OpOf(e), Dispatch(op),
             Enter(e), UNCHANGED asked
      PROVE  ReadInv'
  <2>1. /\ ctx = Idle /\ e.o = op.o
        /\ flags' = flags \ {op} /\ UNCHANGED stop_
    BY <1>e, EnteredFacts DEF Dispatch, TakeCqe, AtLoop
  <2>2. ctx'.op = e
    BY <1>e, Zenon DEF Enter, Callback
  <2>3. ASSUME NEW s \in Streams, asked[s] = "ok", s \notin stop_
        PROVE  Read(s) \in flags' \/ (ctx'.op.o = s /\ ctx'.op # Write(s))
    <3>1. Read(s) \in flags
      BY <1>a, <2>1, <2>3, ContextFacts, Disjoint DEF ReadInv
    <3>2. ASSUME op = Read(s)
          PROVE  e.o = s /\ e # Write(s)
      <4>1. OpOf(Write(s)) = Write(s) /\ Write(s) # Read(s) /\ op.o = s
        BY <3>2, OpFacts, EnteredFacts
      <4>. QED
        BY <1>e, <2>1, <3>2, <4>1
    <3>. QED
      BY <2>1, <2>2, <3>1, <3>2
  <2>. QED
    BY <1>e, <2>1, <2>3 DEF ReadInv
<1>1. ASSUME NEW s \in Streams, StreamStep(s)
      PROVE  ReadInv'
  <2>1. CASE StreamStart(s) \/ StreamStop(s)
    BY <1>q, <2>1 DEF StreamStart, StreamStop, NoSubmit
  <2>2. CASE StreamRead(s)
    <3>1. /\ \/ flags' = flags \union {Read(s)}
                /\ asked' = [asked EXCEPT ![s] = "ok"]
             \/ flags' = flags /\ asked' = [asked EXCEPT ![s] = "failed"]
          /\ UNCHANGED stop_
      BY <2>2, Found, OpFacts DEF StreamRead, Post, Submit, NoSubmit
    <3>2. ctx'.op = ctx.op
      BY <1>b, <2>2, ContextMoves DEF StreamRead, Nests
    <3>. QED
      BY <1>a, <3>1, <3>2, OpFacts DEF ReadInv
  <2>3. CASE StreamWrite(s)
    BY <1>p, <2>3, Found, OpFacts DEF StreamWrite, Post, Submit
  <2>4. CASE RunRead(s) \/ RunWrite(s)
    BY <1>e, <2>4, OpFacts, EnteredFacts DEF RunRead, RunWrite
  <2>5. CASE RunAllocReturn(s) \/ RunReadV(s)
    <3>1. /\ ctx.op.o = s /\ ctx'.op.o = s /\ ctx'.op # Write(s)
          /\ UNCHANGED <<flags, asked, stop_>>
      <4>1. /\ ctx.op \in {Alloc(s), ReadV(s)} /\ ctx'.op \in {ReadV(s), Read(s)}
            /\ UNCHANGED <<flags, asked, stop_>>
        BY <1>b, <2>5, TypeParts
           DEF RunAllocReturn, RunReadV, Returns, NoSubmit, BaseInv, FrameType,
               ContextType
      <4>. QED
        BY <4>1, OpFacts, EnteredFacts
    <3>. QED
      BY <1>a, <3>1 DEF ReadInv
  <2>6. CASE RunReadReturn(s)
    <3>1. /\ ctx.op = Read(s) /\ UNCHANGED <<asked, stop_>>
          /\ s \notin stop_ => flags' = flags \union {Read(s)}
          /\ flags \subseteq flags'
      BY <2>6, Found, OpFacts
         DEF RunReadReturn, Returns, ReadsAgain, ClosesAfterRead, Post, Submit,
             NoSubmit, IndInv, BaseInv, TypeOK, ReactorType
    <3>2. \A r \in Streams : ctx.op.o = r => r = s
      BY <3>1, OpFacts
    <3>. QED
      BY <1>a, <3>1, <3>2 DEF ReadInv
  <2>7. CASE RunWriteReturn(s)
    <3>1. ctx.op = Write(s) /\ UNCHANGED <<flags, asked, stop_>>
      BY <2>7 DEF RunWriteReturn, Returns, NoSubmit
    <3>2. \A r \in Streams : ctx.op.o = r => ctx.op = Write(r)
      BY <3>1, OpFacts
    <3>. QED
      BY <1>a, <3>1, <3>2 DEF ReadInv
  <2>. QED
    BY <1>1, <2>1, <2>2, <2>3, <2>4, <2>5, <2>6, <2>7
       DEF StreamStep, StreamCall, StreamHandler
<1>2. ASSUME NEW a \in Acceptors, AcceptorStep(a), OfAcceptor
      PROVE  ReadInv'
  <2>a. /\ asked' = asked
        /\ Accept(a) \in Ops /\ Accept(a).o = a /\ a \notin Streams
    BY <1>2, OpFacts, Disjoint DEF OfAcceptor, streamVars
  <2>1. CASE AcceptorStart(a)
    BY <1>p, <2>a, <2>1 DEF AcceptorStart, Submit
  <2>2. CASE AcceptorStartFails(a)
    <3>1. ctx'.op = ctx.op
      BY <1>b, <2>2, ContextMoves DEF AcceptorStartFails, Nests
    <3>. QED
      BY <1>q, <2>a, <2>2, <3>1 DEF AcceptorStartFails, NoSubmit
  <2>3. CASE AcceptorStop(a)
    BY <1>q, <2>a, <2>3 DEF AcceptorStop
  <2>4. CASE RunAccept(a)
    BY <1>e, <2>a, <2>4, EnteredFacts DEF RunAccept
  <2>5. CASE RunAcceptReturn(a)
    <3>1. /\ ctx.op = Accept(a) /\ UNCHANGED stop_ /\ flags \subseteq flags'
      BY <2>5 DEF RunAcceptReturn, Returns, PostAccept, Post, Submit, NoSubmit
    <3>. QED
      BY <1>n, <2>a, <3>1
  <2>. QED
    BY <1>2, <2>1, <2>2, <2>3, <2>4, <2>5
       DEF AcceptorStep, AcceptorCall, AcceptorHandler
<1>3. ASSUME NEW c \in Clients, ConnectStep(c), OfClient
      PROVE  ReadInv'
  <2>a. /\ asked' = asked
        /\ Connect(c) \in Ops /\ Connect(c).o = c /\ c \notin Streams
    BY <1>3, OpFacts, Disjoint DEF OfClient, streamVars
  <2>1. CASE ClientStart(c)
    BY <1>p, <2>a, <2>1 DEF ClientStart, Submit
  <2>2. CASE RunConnect(c)
    BY <1>e, <2>a, <2>2, EnteredFacts DEF RunConnect
  <2>3. CASE RunConnectReturn(c)
    BY <1>n, <2>a, <2>3 DEF RunConnectReturn, Returns, NoSubmit
  <2>. QED
    BY <1>3, <2>1, <2>2, <2>3 DEF ConnectStep, ClientHandler
<1>4. CASE RunClose /\ FrameQuiet /\ OfLoop
    BY <1>n, <1>4, ContextFacts, Disjoint
       DEF RunClose, FrameQuiet, OfLoop, streamVars, AtLoop
<1>5. CASE Aside
    BY <1>n, <1>q, <1>5, ContextFacts, Disjoint DEF Aside
<1>. QED
    BY <1>1, <1>2, <1>3, <1>4, <1>5, ContractSteps

-----------------------------------------------------------------------------
(* No panic() fails.                                                        *)

LEMMA PanicStep == ASSUME UserContract, IndInv, [Next]_vars
                   PROVE  panicked' \in {panicked, "handle_eventfd"}
<1>c. ASSUME NEW o, o \in registered <=> o \notin close_, CloseOnce(o)
      PROVE  UNCHANGED panicked
    BY <1>c DEF CloseOnce, Unregister, NoClose
<1>p. ASSUME NEW op, op.o \in registered, Post(op)
      PROVE  UNCHANGED panicked
    BY <1>p DEF Post
<1>r. \A o \in registered : o \notin close_
    BY DEF IndInv, RegisterInv
<1>1. ASSUME NEW s \in Streams, StreamStep(s)
      PROVE  UNCHANGED panicked
  <2>1. CASE StreamStart(s) \/ RunRead(s) \/ RunWrite(s)
    BY <2>1 DEF StreamStart, RunRead, RunWrite, Dispatch
  <2>2. CASE StreamRead(s) \/ StreamWrite(s)
    BY <1>p, <2>2, Found, OpFacts DEF StreamRead, StreamWrite
  <2>3. CASE StreamStop(s)
    BY <1>c, <1>r, <2>3, Found
       DEF StreamStop, StreamPostToClose, Cancel, NoClose
  <2>4. CASE RunReadReturn(s)
    <3>1. s \notin stop_ => s \in registered
      BY <2>4, Found DEF IndInv, BaseInv, TypeOK, ReactorType
    <3>. QED
      BY <1>c, <1>p, <2>4, <3>1, Found, OpFacts
         DEF RunReadReturn, ReadsAgain, StreamPostToClose, NoClose
  <2>5. CASE RunWriteReturn(s)
    BY <1>c, <2>5, Found DEF RunWriteReturn, StreamPostToClose, NoClose
  <2>6. CASE RunAllocReturn(s) \/ RunReadV(s)
    BY <2>6 DEF RunAllocReturn, RunReadV, NoClose
  <2>. QED
    BY <1>1, <2>1, <2>2, <2>3, <2>4, <2>5, <2>6
       DEF StreamStep, StreamCall, StreamHandler
<1>2. ASSUME NEW a \in Acceptors, AcceptorStep(a)
      PROVE  UNCHANGED panicked
  <2>1. CASE AcceptorStart(a) \/ AcceptorStartFails(a) \/ RunAccept(a)
    BY <2>1
       DEF AcceptorStart, AcceptorStartFails, RunAccept, Dispatch, TakeCqe
  <2>2. CASE AcceptorStop(a)
    BY <1>c, <1>r, <2>2, Found
       DEF AcceptorStop, AcceptorPostToClose, Cancel, NoClose
  <2>3. CASE RunAcceptReturn(a)
    <3>1. a \notin stop_ => a \in registered
      BY <2>3, Found DEF IndInv, BaseInv, TypeOK, ReactorType
    <3>. QED
      BY <1>c, <1>p, <2>3, <3>1, Found, OpFacts
         DEF RunAcceptReturn, PostAccept, AcceptorPostToClose
  <2>. QED
    BY <1>2, <2>1, <2>2, <2>3 DEF AcceptorStep, AcceptorCall, AcceptorHandler
<1>3. ASSUME NEW c \in Clients, ConnectStep(c)
      PROVE  UNCHANGED panicked
    BY <1>3, Found
       DEF ConnectStep, ClientHandler, ClientStart, RunConnect,
           RunConnectReturn, Dispatch, TakeCqe, NoClose
<1>4. CASE FrameQuiet
    BY <1>4 DEF FrameQuiet
<1>5. CASE Aside
    BY <1>5 DEF Aside
<1>. QED
    BY <1>1, <1>2, <1>3, <1>4, <1>5, ContractSteps

-----------------------------------------------------------------------------
(* The theorems.                                                            *)

(* A program that keeps to the contract finds every object and operation    *)
(* where the handlers expect it, whatever it calls in which callback.       *)
THEOREM InductiveInvariant == ASSUME UserContract
                              PROVE  Spec => []IndInv
<1>1. Init => IndInv
  <2> SUFFICES ASSUME Init PROVE IndInv
      OBVIOUS
  <2>a. PICK scene \in Scenes \union LongScenes, long \in BOOLEAN :
           ReactorInit(scene, long)
    BY DEF Init
  <2>1. KernelInv
    BY <2>a DEF ReactorInit, KernelInv
  <2>2. RegisterInv /\ LifeInv
    BY <2>a, Disjoint DEF ReactorInit, Init, RegisterInv, LifeInv
  <2>3. ContextInv
    BY <2>a, ContextFacts, OpFacts, EnteredFacts DEF ReactorInit, ContextInv
  <2>4. ReadInv
    BY <2>a, ContextFacts, OpFacts DEF ReactorInit, Init, ReadInv
  <2>5. NoPanic
    BY <2>a DEF ReactorInit, NoPanic
  <2>. QED
    BY <2>1, <2>2, <2>3, <2>4, <2>5, BaseInit DEF IndInv
<1>2. IndInv /\ [Next]_vars => IndInv'
  <2> SUFFICES ASSUME IndInv, [Next]_vars PROVE IndInv'
      OBVIOUS
  <2>1. NoPanic'
    BY PanicStep DEF IndInv, NoPanic
  <2>2. BaseInv'
    BY BaseStep DEF IndInv
  <2>3. RegisterInv'
    BY RegisterStep
  <2>4. KernelInv'
    BY <2>2, <2>3 DEF BaseInv, KeepInv, RegisterInv, KernelInv
  <2>. QED
    BY <2>1, <2>2, <2>3, <2>4, LifeStep, ContextStep, ReadStep DEF IndInv
<1>. QED
    BY <1>1, <1>2, PTL DEF Spec

(* No program that keeps to the contract is ended by a panic() of an object.*)
THEOREM NeverPanics == ASSUME UserContract
                       PROVE  Spec => []NoPanic
<1>1. IndInv => NoPanic
    BY DEF IndInv
<1>. QED
    BY <1>1, InductiveInvariant, PTL

(* reading_, writing_ and op_ are true exactly while the kernel or the ring *)
(* holds the one operation of their kind, unless the completion of a        *)
(* cancellation was mistaken for it: whatever the users of the contract do, *)
(* nothing else can part them.                                              *)
THEOREM FlagsAreTrue == ASSUME UserContract
                        PROVE  Spec => []FlagsMatchKernel
<1>1. IndInv => FlagsMatchKernel
  <2> SUFFICES ASSUME IndInv, NEW op \in Ops \ mistaken
               PROVE  /\ op \in flags <=> Pending(op)
                      /\ Cardinality({i \in DOMAIN cq : cq[i] = op})
                            + inflight[op] <= 1
      BY DEF FlagsMatchKernel
  <2>1. BaseInv
    BY DEF IndInv
  <2>2. /\ Comes(op) => op \in flags
        /\ inflight[op] <= 1
        /\ inflight[op] = 1 => ~In(op, cq)
        /\ Single(op, cq)
    BY <2>1 DEF BaseInv, RingInv
  <2>3. op \in flags <=> Pending(op)
    BY <2>1, <2>2, PendingComes DEF IndInv, KernelInv
  <2>4. inflight[op] \in Nat /\ DOMAIN cq = 1 .. Len(cq)
    BY <2>1, KernelTypes, LenProperties
  <2>. DEFINE places == {i \in DOMAIN cq : cq[i] = op}
  <2>5. CASE In(op, cq)
    <3>1. PICK j \in 1 .. Len(cq) : cq[j] = op
      BY <2>5 DEF In
    <3>2. places = {j}
      BY <2>2, <2>4, <3>1 DEF Single
    <3>3. Cardinality(places) = 1
      BY <3>2, FS_Singleton
    <3>4. inflight[op] = 0
      BY <2>2, <2>4, <2>5
    <3>. QED
      BY <2>3, <3>3, <3>4
  <2>6. CASE ~In(op, cq)
    <3>1. places = {}
      BY <2>4, <2>6 DEF In
    <3>2. Cardinality(places) = 0
      BY <3>1, FS_EmptySet
    <3>. QED
      BY <2>2, <2>3, <2>4, <3>2
  <2>. QED
    BY <2>5, <2>6
<1>. QED
    BY <1>1, InductiveInvariant, PTL

(* When evClose is queued the kernel holds nothing of the object any more,  *)
(* and will not again, unless the completion of a cancellation was mistaken *)
(* for it.                                                                  *)
THEOREM ClosedStaysQuiet == ASSUME UserContract
                            PROVE  Spec => []ClosedIsQuiet
<1>1. IndInv => ClosedIsQuiet
  <2> SUFFICES ASSUME IndInv, NEW op \in Ops \ mistaken, op.o \in close_,
                      Pending(op)
               PROVE  FALSE
      BY DEF ClosedIsQuiet
  <2>1. BaseInv
    BY DEF IndInv
  <2>2. op \in flags
    BY <2>1, PendingComes DEF BaseInv, RingInv
  <2>. QED
    BY <2>2 DEF IndInv, RegisterInv
<1>. QED
    BY <1>1, InductiveInvariant, PTL

(* No callback and no evClose comes to an object that was deleted, and      *)
(* evClose comes once.                                                      *)
THEOREM CallbacksAreSafe == ASSUME UserContract
                            PROVE  Spec => []CallbacksFindObject
<1>1. IndInv => CallbacksFindObject
    BY BaseFindsObject DEF IndInv
<1>. QED
    BY <1>1, InductiveInvariant, PTL

(* Of a stopped object that is not closed yet the kernel, the ring or the   *)
(* loop still has an operation to end: nothing waits for a completion that  *)
(* nobody owes.                                                             *)
THEOREM StopsAreHeard == ASSUME UserContract
                         PROVE  Spec => []StopIsHeard
<1>1. IndInv => StopIsHeard
    BY BaseHears DEF IndInv
<1>. QED
    BY <1>1, InductiveInvariant, PTL
=============================================================================
