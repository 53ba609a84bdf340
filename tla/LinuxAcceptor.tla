---------------------------- MODULE LinuxAcceptor ----------------------------
(***************************************************************************)
(* The acceptors of shuio/linux/shu_acceptor.cpp: one accept with the      *)
(* kernel at a time, posted again by its completion until stop().  evConn  *)
(* is the callback "conn"; what it is given (a connection or an error) is  *)
(* between it and the user.                                                *)
(***************************************************************************)
EXTENDS LinuxReactor

CONSTANT StopFailed                \* users stop an acceptor that failed to start

VARIABLE failed        \* acceptors that could not bind or listen

Accept(a) == Op(a, "conn")

AcceptorPostToClose(a) == CloseOnce(a)

(* post_accept().                                                           *)
PostAccept(a) == Post(Accept(a))

(* start(): a failed bind() or listen() is reported through evConn, before  *)
(* start() returns to the user code that called it.                         *)
AcceptorStartFails(a) ==
    /\ InUser
    /\ life[a] = "new"
    /\ life' = [life EXCEPT ![a] = "live"]
    /\ failed' = failed \union {a}
    /\ ctx' = [ctx EXCEPT !.errors = Append(@, a)]
    /\ NoSubmit
    /\ UNCHANGED <<stop_, cancel, cq, closeVars, frameVars, panicked>>

AcceptorStart(a) ==
    /\ InUser
    /\ Register(a)
    /\ Submit(Accept(a))
    /\ UNCHANGED <<stop_, cancel, cq, close_, taks_nmux_, frameVars, ctx,
                   panicked, failed>>

(* stop() cancels the accept, which its completion closes, or closes.       *)
AcceptorStop(a) ==
    /\ Calls(a)
    /\ a \notin stop_
    /\ a \in failed => StopFailed
    /\ stop_' = stop_ \union {a}
    /\ \/ /\ Accept(a) \in flags
          /\ Cancel(Accept(a))
       \/ /\ Accept(a) \notin flags
          /\ AcceptorPostToClose(a) /\ NoCancel
    /\ UNCHANGED <<life, flags, cq, frameVars, ctx, failed>>

(* run(), up to evConn and after it.                                        *)
RunAccept(a) ==
    /\ Dispatch(Accept(a))
    /\ Enter(Accept(a))
    /\ UNCHANGED <<registered, failed>>

RunAcceptReturn(a) ==
    /\ Returns(Accept(a))
    /\ ctx' = Idle
    /\ \/ /\ a \in stop_
          /\ AcceptorPostToClose(a)
          /\ NoSubmit
       \/ /\ a \notin stop_
          /\ PostAccept(a)
          /\ UNCHANGED closeVars
    /\ UNCHANGED <<life, stop_, cancel, cq, frameVars, failed>>

AcceptorCall(a) == AcceptorStart(a) \/ AcceptorStartFails(a) \/ AcceptorStop(a)

AcceptorHandler(a) == RunAccept(a) \/ RunAcceptReturn(a)
=============================================================================
