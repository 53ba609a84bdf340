----------------------------- MODULE WinAcceptor -----------------------------
(***************************************************************************)
(* The acceptors of shuio/win32/shu_acceptor.cpp: as many accepts in flight*)
(* as there are slots, each posted again by its own completion until stop()*)
(* or an error.  start() posts them one after the other, and evConn may be *)
(* called between two of them.  A slot's operation is its name.            *)
(***************************************************************************)
EXTENDS WinReactor

VARIABLES
    tried,             \* slots whose accept start() has posted, by acceptor
    told               \* acceptors whose evConn got the error of a post

Accept(a, n) == [o |-> a, ev |-> "accept", slot |-> n]

AcceptOps(a) == {Accept(a, n) : n \in 1 .. NSlots}

(* doing_ *)
Doing(a) == flags \intersect AcceptOps(a)

AcceptorPostClose(a) == PostToClose(a)

(* A faulty post_acceptor(): nobody hears of an error.                      *)
PostAcceptorQuiet(op, st, stFailed) ==
    \/ (Pend(op, st) \/ Ends(op, st)) /\ UNCHANGED told
    \/ NoPost(stFailed) /\ UNCHANGED told

(* post_acceptor() past its test of stop_, with the stack st left when it   *)
(* returns, and stFailed if it returns an error.                            *)
PostAcceptor(op, st, stFailed) ==
    \/ Pend(op, st) /\ UNCHANGED told
    \/ Ends(op, st) /\ UNCHANGED told
    \/ Fails(op, stFailed) /\ told' = told \union {op.o}

(* start(): a failed bind() or listen() is reported through evConn, before  *)
(* there are slots.                                                         *)
AcceptorStartFails(a) ==
    /\ CallInline(stack, Op(a, "error"))
    /\ told' = told \union {a}

AcceptorStart(a) ==
    /\ InUser
    /\ life[a] = "new"
    /\ life' = [life EXCEPT ![a] = "live"]
    /\ \/ CallNone(Append(stack, Callback(Op(a, "start"), FALSE))) /\ UNCHANGED told
       \/ AcceptorStartFails(a)
    /\ UNCHANGED <<stop_, close_, flags, inflight, cancel, port, frameVars,
                   taks_nmux_, crashed, tried>>

(* The loop of start(), which a stop() in evConn or an error ends.          *)
StartPosts(a) ==
    /\ Running
    /\ stack # <<>>
    /\ Top.op = Op(a, "start")
    /\ \/ /\ a \in stop_ \/ tried[a] = NSlots
          /\ NoPost(Popped)
          /\ UNCHANGED <<tried, told>>
       \/ /\ a \notin stop_
          /\ tried[a] < NSlots
          /\ tried' = [tried EXCEPT ![a] = @ + 1]
          /\ PostAcceptor(Accept(a, tried[a] + 1), stack, Popped)
    /\ UNCHANGED <<life, stop_, close_, cancel, port, frameVars, taks_nmux_,
                   crashed>>

(* stop() cancels what is in flight, or closes.                             *)
AcceptorStop(a) ==
    /\ Calls(a)
    /\ a \notin stop_
    /\ stop_' = stop_ \union {a}
    /\ cancel' = cancel \union Doing(a)
    /\ \/ Doing(a) = {} /\ AcceptorPostClose(a)
       \/ Doing(a) # {} /\ NoClose
    /\ UNCHANGED <<life, flags, inflight, port, frameVars, stack, inlines,
                   crashed, tried, told>>

-----------------------------------------------------------------------------
(* run() for a packet, up to evConn.                                        *)
RunAccept(op) == Visit(op) /\ Enter(op) /\ UNCHANGED <<crashed, tried, told>>

(* After evConn.  A faulty one closes with the first accept that ends after *)
(* stop().                                                                  *)
ClosesWithFirst(a) == TRUE
ClosesWithLast(a)  == Doing(a) = {}

RunAcceptReturn(op) ==
    /\ Returns(op)
    /\ \/ /\ op.o \in stop_ /\ ClosesWithLast(op.o)
          /\ AcceptorPostClose(op.o)
          /\ NoPost(Popped) /\ UNCHANGED told
       \/ /\ op.o \in stop_ /\ ~ClosesWithLast(op.o)
          /\ NoClose
          /\ NoPost(Popped) /\ UNCHANGED told
       \/ /\ op.o \notin stop_
          /\ PostAcceptor(op, Popped, Popped)
          /\ NoClose
    /\ UNCHANGED <<life, stop_, cancel, port, frameVars, crashed, tried>>

AcceptorCall(a) == AcceptorStart(a) \/ AcceptorStop(a)

AcceptorHandler(a) ==
    StartPosts(a) \/ \E op \in AcceptOps(a) : RunAccept(op) \/ RunAcceptReturn(op)
=============================================================================
