----------------------------- MODULE LinuxObjects -----------------------------
(***************************************************************************)
(* Acceptors, clients and streams of shuio/linux on one loop: each user    *)
(* callback may call any function of any of them, and evConn starts the    *)
(* streams.                                                                *)
(***************************************************************************)
EXTENDS LinuxStream, LinuxAcceptor, LinuxClient

CONSTANTS
    Scenes,            \* the objects that the programs considered have
    LongScenes         \* the same, of programs that have filled the submission
                       \* queue once before they start any of these objects

ASSUME ScenesAssumption == Scenes \union LongScenes \subseteq SUBSET Objects

streamVars   == <<asked>>
acceptorVars == <<failed>>
clientVars   == <<sock_>>
vars == <<reactorVars, streamVars, acceptorVars, clientVars>>

TypeOK ==
    /\ ReactorType
    /\ asked \in [Streams -> {"no", "ok", "failed"}]
    /\ failed \subseteq Acceptors
    /\ {op.o : op \in flags} \intersect failed = {}
    /\ sock_ \subseteq Clients

Init ==
    /\ \/ \E scene \in Scenes : ReactorInit(scene, FALSE)
       \/ \E scene \in LongScenes : ReactorInit(scene, TRUE)
    /\ asked = [s \in Streams |-> "no"]
    /\ failed = {}
    /\ sock_ = {}

Call ==
    \/ (\E s \in Streams : StreamCall(s)) /\ UNCHANGED <<acceptorVars, clientVars>>
    \/ (\E a \in Acceptors : AcceptorCall(a)) /\ UNCHANGED <<streamVars, clientVars>>
    \/ (\E c \in Clients : ClientCall(c)) /\ UNCHANGED <<streamVars, acceptorVars>>

LoopStep ==
    \/ Frame /\ UNCHANGED <<streamVars, acceptorVars, clientVars>>
    \/ /\ \E s \in Streams : StreamHandler(s)
       /\ UNCHANGED <<acceptorVars, clientVars>>
    \/ /\ \E a \in Acceptors : AcceptorHandler(a)
       /\ UNCHANGED <<streamVars, clientVars>>
    \/ /\ \E c \in Clients : ClientHandler(c)
       /\ UNCHANGED <<streamVars, acceptorVars>>

Completed(id) ==
    KComplete(id) /\ UNCHANGED <<streamVars, acceptorVars, clientVars>>
Cancelled(op) ==
    KCancel(op) /\ UNCHANGED <<streamVars, acceptorVars, clientVars>>

Kernel ==
    (\E id \in Ids : Completed(id)) \/ (\E op \in Ops : Cancelled(op))

(* A failed panic() ends the process, and no step follows.                  *)
Next == Call \/ LoopStep \/ Kernel

Spec == Init /\ [][Next]_vars

(* The loop runs, callbacks return, and the kernel cancels what it is told  *)
(* to.  The peers owe nobody anything: neither to send nor to take what they*)
(* are sent.                                                                *)
FairSpec ==
    /\ Spec
    /\ WF_vars(LoopStep)
    /\ WF_vars(\E op \in Ops : Cancelled(op))

-----------------------------------------------------------------------------
(* Properties.                                                              *)

(* No callback that can still run would find its object deleted: neither    *)
(* one of register_cb nor an evClose in the queue, where a closed object has*)
(* exactly one until it is deleted.                                         *)
CallbacksFindObject ==
    LET queue == pendings1 \o taks_nmux_
    IN  /\ \A o \in registered : life[o] = "live"
        /\ \A o \in Objects :
              Cardinality({i \in DOMAIN queue : queue[i] = o}) =
                  IF o \in close_ /\ life[o] = "live" THEN 1 ELSE 0

Pending(op) == inflight[op] > 0 \/ \E i \in DOMAIN cq : cq[i] = op

(* reading_, writing_ and op_ tell what the kernel and the completion ring  *)
(* hold, which is one operation of each kind at most: so that stop() cancels*)
(* or waits for what is there, and no accept is lost.  Not of an operation  *)
(* that the completion of a cancellation was mistaken for: its flag is      *)
(* cleared by the wrong completion.                                         *)
FlagsMatchKernel ==
    \A op \in Ops \ mistaken :
        /\ op \in flags <=> Pending(op)
        /\ Cardinality({i \in DOMAIN cq : cq[i] = op}) + inflight[op] <= 1

(* A closed object has nothing in flight: the buffers, addresses and the    *)
(* descriptor its evClose frees are the kernel's no more.                   *)
ClosedIsQuiet ==
    \A op \in Ops \ mistaken : op.o \in close_ => ~Pending(op)

(* No use of an object after it left register_cb.                           *)
NoPanic == panicked \in {"no", "handle_eventfd"}

Promise == INSTANCE CloseProtocol WITH
    status <- [o \in Objects |->
                  IF life[o] # "live" THEN
                      IF life[o] = "deleted" THEN "closed" ELSE "new"
                  ELSE IF o \in close_ THEN "closing" ELSE "open"],
    stopped <- stop_,
    running <- (IF ctx.op.o = NoObject \/ ctx.op.ev = "readv" THEN <<>>
                ELSE <<ctx.op.o>>) \o ctx.errors

(* Callbacks, stop and evClose come in the order CloseProtocol allows.      *)
CloseSafety == Promise!SafeSpec

(* Every stopped object gets its evClose (README.md:55).                    *)
StopCloses == Promise!StopCloses

(* A stopped object is not forgotten: its evClose is posted, or an operation*)
(* or the callback of it is still to end, after which it will be.           *)
StopIsHeard ==
    \A o \in stop_ \ close_ :
        ctx.op.o = o \/ \E op \in Ops : op.o = o /\ Pending(op)

(* The process goes on as long as no completion of a cancellation makes the *)
(* loop read an empty eventfd.                                              *)
Ended == panicked = "handle_eventfd"

EvCloseComes(o) == o \in stop_ ~> (life[o] = "deleted" \/ Ended)

WritesEnd == \A s \in Streams : WF_vars(Completed(Write(s)))
ReadsEnd  == \A s \in Streams : WF_vars(Completed(Read(s)))

(* It does if the peers of streams take what they are sent, and send        *)
(* something or close.  An acceptor needs nobody to connect.                *)
StopClosesWithPeer == WritesEnd /\ ReadsEnd => \A o \in Objects : EvCloseComes(o)

(* And if they only take what they are sent?                                *)
StopClosesIdle == WritesEnd => StopCloses

(* It needs no help from the peer once stop() cancelled something, unless   *)
(* the user then wrote in the callback of the read that was cancelled.      *)
CancelCloses ==
    \A o \in Objects :
        (\E op \in cancel : op.o = o) ~>
            (life[o] = "deleted" \/ o \in writing_ \/ Ended)

(* The user can stop any acceptor it started: "all classes start with start,*)
(* and stop with stop (on an error the outside has to call stop)".          *)
StopFindsRegistered == panicked # "unregister_loop"
=============================================================================
