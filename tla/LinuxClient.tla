----------------------------- MODULE LinuxClient -----------------------------
(***************************************************************************)
(* The clients of shuio/linux/shu_client.cpp: one connect each, whose      *)
(* completion unregisters the socket and hands it to evConn.               *)
(***************************************************************************)
EXTENDS LinuxReactor

CONSTANT StopClients               \* users call stop() of a client

VARIABLE sock_         \* clients that hold their socket

Connect(c) == Op(c, "conn")

(* post_to_close(): unregister_loop() is given the socket the client holds, *)
(* and a null pointer kills the process.                                    *)
ClientPostToClose(c) ==
    \/ /\ c \in sock_ \union close_
       /\ CloseOnce(c)
    \/ /\ c \notin sock_ \union close_
       /\ panicked' = "null_socket"
       /\ UNCHANGED closeVars

(* start().                                                                 *)
ClientStart(c) ==
    /\ InUser
    /\ Register(c)
    /\ sock_' = sock_ \union {c}
    /\ Submit(Connect(c))
    /\ UNCHANGED <<stop_, cancel, cq, close_, taks_nmux_, frameVars, ctx,
                   panicked>>

ClientStop(c) ==
    /\ StopClients
    /\ Calls(c)
    /\ c \notin stop_
    /\ stop_' = stop_ \union {c}
    /\ \/ /\ Connect(c) \in flags
          /\ Cancel(Connect(c))
       \/ /\ Connect(c) \notin flags
          /\ ClientPostToClose(c) /\ NoCancel
    /\ UNCHANGED <<life, flags, cq, frameVars, ctx, sock_>>

(* run(): the socket is unregistered, then moved into evConn's argument.    *)
RunConnect(c) ==
    /\ Dispatch(Connect(c))
    /\ Enter(Connect(c))
    /\ registered' = registered \ {c}
    /\ sock_' = sock_ \ {c}

RunConnectReturn(c) ==
    /\ Returns(Connect(c))
    /\ ctx' = Idle
    /\ \/ c \in stop_ /\ ClientPostToClose(c)
       \/ c \notin stop_ /\ NoClose
    /\ NoSubmit
    /\ UNCHANGED <<life, stop_, cancel, cq, frameVars, sock_>>

ClientCall(c) == ClientStart(c) \/ ClientStop(c)

ClientHandler(c) == RunConnect(c) \/ RunConnectReturn(c)
=============================================================================
