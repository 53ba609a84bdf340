------------------------------- MODULE Mailbox -------------------------------
(***************************************************************************)
(* What an event loop promises of the tasks it is given, whatever the      *)
(* platform: two first-in first-out queues, one fed by other threads, one  *)
(* by the loop thread itself; every task that is delivered was sent, in    *)
(* the order its queue received it, at most once; and nothing is delivered *)
(* after the loop has returned.                                            *)
(*                                                                         *)
(* LinuxLoop implements SafeSpec and, under fairness, Spec (LinuxLoop!Box). *)
(* WinLoop, whose run() may be called again, implements ReopenSpec.        *)
(***************************************************************************)
EXTENDS Sequences

CONSTANT Tasks                 \* the closures handed to the loop

VARIABLES
    inbox,                     \* sent by other threads, not yet delivered
    local,                     \* sent by the loop thread, not yet delivered
    delivered,                 \* history: the tasks delivered, in order
    open                       \* FALSE once the loop has returned

vars == <<inbox, local, delivered, open>>

Init ==
    /\ inbox = <<>>
    /\ local = <<>>
    /\ delivered = <<>>
    /\ open = TRUE

(* Another thread sends a task. The loop may have returned already. *)
Send ==
    /\ \E t \in Tasks : inbox' = Append(inbox, t)
    /\ UNCHANGED <<local, delivered, open>>

(* The loop thread sends itself a task. *)
SendLocal ==
    /\ open
    /\ \E t \in Tasks : local' = Append(local, t)
    /\ UNCHANGED <<inbox, delivered, open>>

Deliver ==
    /\ open
    /\ inbox # <<>>
    /\ delivered' = Append(delivered, Head(inbox))
    /\ inbox' = Tail(inbox)
    /\ UNCHANGED <<local, open>>

DeliverLocal ==
    /\ open
    /\ local # <<>>
    /\ delivered' = Append(delivered, Head(local))
    /\ local' = Tail(local)
    /\ UNCHANGED <<inbox, open>>

(* The loop returns, or the process dies; what is still queued is lost. *)
Return ==
    /\ open
    /\ open' = FALSE
    /\ UNCHANGED <<inbox, local, delivered>>

(* The loop is run again, with what was left in the queues. *)
Reopen ==
    /\ ~open
    /\ open' = TRUE
    /\ UNCHANGED <<inbox, local, delivered>>

Next == Send \/ SendLocal \/ Deliver \/ DeliverLocal \/ Return

SafeSpec == Init /\ [][Next]_vars

ReopenSpec == Init /\ [][Next \/ Reopen]_vars

(* While the loop runs, both queues are served. *)
Progress == WF_vars(Deliver) /\ WF_vars(DeliverLocal)

Spec == SafeSpec /\ Progress
=============================================================================
