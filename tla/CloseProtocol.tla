---------------------------- MODULE CloseProtocol ----------------------------
(***************************************************************************)
(* What sstream, sacceptor and sclient promise their user about the end of *)
(* an object (README.md, design rule 3): it closes only after stop(), and  *)
(* evClose is called once, inside no callback, as the object's last.       *)
(*                                                                         *)
(* The promise leaves open what one might expect of it: a call that ends or*)
(* fails at once calls back before it returns, inside the callback that    *)
(* made it, and callbacks may still come between the decision to close and *)
(* evClose.                                                                *)
(***************************************************************************)
EXTENDS Naturals, Sequences

CONSTANT Objects

VARIABLES
    status,            \* of each object
    stopped,           \* objects stop() was called on
    running            \* the objects whose callbacks run, innermost last

vars == <<status, stopped, running>>

Init ==
    /\ status = [o \in Objects |-> "new"]
    /\ stopped = {}
    /\ running = <<>>

(* start() may call back before it returns.                                 *)
Start(o) ==
    /\ status[o] = "new"
    /\ status' = [status EXCEPT ![o] = "open"]
    /\ \/ UNCHANGED running
       \/ running' = Append(running, o)
    /\ UNCHANGED stopped

(* stop(), with or without an operation in flight to wait for.              *)
Stop(o) ==
    /\ status[o] = "open"
    /\ o \notin stopped
    /\ stopped' = stopped \union {o}
    /\ \/ status' = [status EXCEPT ![o] = "closing"]
       \/ UNCHANGED status
    /\ UNCHANGED running

Callback(o) ==
    /\ status[o] \in {"open", "closing"}
    /\ running' = Append(running, o)
    /\ UNCHANGED <<status, stopped>>

(* A callback returns, maybe the last one before the close.                 *)
Return(o) ==
    /\ running # <<>>
    /\ running[Len(running)] = o
    /\ running' = SubSeq(running, 1, Len(running) - 1)
    /\ \/ UNCHANGED status
       \/ /\ status[o] = "open"
          /\ o \in stopped
          /\ status' = [status EXCEPT ![o] = "closing"]
    /\ UNCHANGED stopped

(* evClose.                                                                 *)
Close(o) ==
    /\ running = <<>>
    /\ status[o] = "closing"
    /\ status' = [status EXCEPT ![o] = "closed"]
    /\ UNCHANGED <<stopped, running>>

Next ==
    \E o \in Objects :
        Start(o) \/ Stop(o) \/ Callback(o) \/ Return(o) \/ Close(o)

SafeSpec == Init /\ [][Next]_vars

(* An object that was stopped is closed in the end.                         *)
StopCloses == \A o \in Objects : o \in stopped ~> status[o] = "closed"
=============================================================================
