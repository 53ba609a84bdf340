------------------------------ MODULE WinClient ------------------------------
(***************************************************************************)
(* The clients of shuio/win32/shu_client.cpp: one ConnectEx each, which    *)
(* stays pending, completes inside start() or fails there.  sock_ is moved *)
(* into evConn's argument.                                                 *)
(***************************************************************************)
EXTENDS WinReactor

VARIABLE sock_         \* clients that hold their socket

Connect(c) == Op(c, "connect")

ClientPostToClose(c) == PostToClose(c)

(* start(): ConnectEx() pending, done at once, or failed; or a failed bind().*)
ClientStart(c) ==
    /\ InUser
    /\ life[c] = "new"
    /\ life' = [life EXCEPT ![c] = "live"]
    /\ \/ /\ inflight' = inflight \union {Connect(c)}
          /\ CallNone(stack)
          /\ sock_' = sock_ \union {c}
       \/ /\ CallInline(stack, Connect(c)) \/ CallInline(stack, Error(Connect(c)))
          /\ UNCHANGED <<inflight, sock_>>
       \/ /\ CallInline(stack, Error(Connect(c)))
          /\ sock_' = sock_ \union {c}
          /\ UNCHANGED inflight
    /\ UNCHANGED <<stop_, close_, flags, cancel, port, frameVars, taks_nmux_,
                   crashed>>

(* stop() of a client that holds its socket cancels its connect, and leaves *)
(* the close to the completion.                                             *)
ClientStop(c) ==
    /\ Calls(c)
    /\ c \notin stop_
    /\ stop_' = stop_ \union {c}
    /\ \/ /\ c \in sock_
          /\ cancel' = cancel \union {Connect(c)}
          /\ NoClose
       \/ /\ c \notin sock_
          /\ ClientPostToClose(c)
          /\ UNCHANGED cancel
    /\ UNCHANGED <<life, flags, inflight, port, frameVars, stack, inlines,
                   crashed, sock_>>

(* run() asks how many bytes were transferred: with nothing to send along,  *)
(* ConnectEx() transfers none, connected or not: evConn is told it did.     *)
ConnectReported(c) == TRUE

RunConnect(c) ==
    /\ Visit(Connect(c))
    /\ Enter(Connect(c))
    /\ sock_' = sock_ \ {c}
    /\ UNCHANGED crashed

RunConnectReturn(c) ==
    /\ Returns(Connect(c))
    /\ NoPost(Popped)
    /\ \/ c \in stop_ /\ ClientPostToClose(c)
       \/ c \notin stop_ /\ NoClose
    /\ UNCHANGED <<life, stop_, cancel, port, frameVars, crashed, sock_>>

ClientCall(c) == ClientStart(c) \/ ClientStop(c)

ClientHandler(c) == RunConnect(c) \/ RunConnectReturn(c)
=============================================================================
