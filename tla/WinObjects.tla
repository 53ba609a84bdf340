------------------------------ MODULE WinObjects ------------------------------
(***************************************************************************)
(* Acceptors, clients and streams of shuio/win32 on one loop: each user    *)
(* callback may call any function of any of them, and evConn starts the    *)
(* streams.                                                                *)
(***************************************************************************)
EXTENDS WinStream, WinAcceptor, WinClient

CONSTANT Scenes        \* the objects that the programs considered have

ASSUME ScenesAssumption == Scenes \subseteq SUBSET Objects

streamVars   == <<asked, wcb, shut>>
acceptorVars == <<tried, told>>
clientVars   == <<sock_>>
vars == <<reactorVars, streamVars, acceptorVars, clientVars>>

TypeOK ==
    /\ ReactorType
    /\ {op \in inflight : op.o \notin Clients} \subseteq flags
    /\ asked \in [Streams -> {"no", "ok", "failed"}]
    /\ wcb \subseteq Streams
    /\ shut \subseteq close_
    /\ tried \in [Acceptors -> 0 .. NSlots]
    /\ told \subseteq Acceptors
    /\ sock_ \subseteq Clients

Init ==
    /\ \E scene \in Scenes : ReactorInit(scene)
    /\ asked = [s \in Streams |-> "no"]
    /\ wcb = {} /\ shut = {}
    /\ tried = [a \in Acceptors |-> 0]
    /\ told = {}
    /\ sock_ = {}

Call ==
    \/ (\E s \in Streams : StreamCall(s)) /\ UNCHANGED <<acceptorVars, clientVars>>
    \/ (\E a \in Acceptors : AcceptorCall(a)) /\ UNCHANGED <<streamVars, clientVars>>
    \/ (\E c \in Clients : ClientCall(c)) /\ UNCHANGED <<streamVars, acceptorVars>>

LoopStep ==
    \/ Frame /\ UNCHANGED <<streamVars, acceptorVars, clientVars>>
    \/ /\ \E s \in Streams : StreamHandler(s)
       /\ UNCHANGED <<acceptorVars, clientVars>>
    \/ /\ \E a \in Acceptors : AcceptorHandler(a)
       /\ UNCHANGED <<streamVars, clientVars>>
    \/ /\ \E c \in Clients : ClientHandler(c)
       /\ UNCHANGED <<streamVars, acceptorVars>>

(* Whether it succeeded matters for a connect only; of what is cancelled    *)
(* nothing comes but the abort.                                             *)
Completed(op, ok) ==
    /\ op \notin cancel
    /\ op.o \in Clients \/ ok
    /\ KPacket(op, ok)
    /\ UNCHANGED <<streamVars, acceptorVars, clientVars>>

Aborted(op) == KAbort(op) /\ UNCHANGED <<streamVars, acceptorVars, clientVars>>

System ==
    \E op \in Ops : Aborted(op) \/ \E ok \in BOOLEAN : Completed(op, ok)

Crashed == ~Running /\ UNCHANGED vars

Next == Call \/ LoopStep \/ System \/ Crashed

Spec == Init /\ [][Next]_vars

(* The loop runs, callbacks return, and aborted operations complete: where  *)
(* CancelIoEx() does nothing, the close of the socket that follows it ends  *)
(* them.  The peers owe nobody anything: neither to send nor to take what   *)
(* they are sent.                                                           *)
FairSpec ==
    /\ Spec
    /\ WF_vars(LoopStep)
    /\ \A op \in Ops : WF_vars(Aborted(op))

-----------------------------------------------------------------------------
(* Properties.                                                              *)

Queued(op) ==
    \E q \in {port, entries} : \E i \in DOMAIN q : q[i].op = op

Pending(op) == op \in inflight \/ Queued(op)

(* reader_.running, writer_.running and doing_ tell what is pending or      *)
(* queued at the port, whatever nested callbacks did meanwhile.             *)
FlagsMatchSystem ==
    \A op \in Ops :
        life[op.o] = "live" /\ op.o \notin Clients /\ Running =>
            /\ op \in flags <=> Pending(op)
            /\ ~(op \in inflight /\ Queued(op))

(* An object that is closed has no operation in flight, but for a read whose*)
(* socket was closed under it: the memory evClose frees is not the system's *)
(* any more.                                                                *)
ClosedIsQuiet ==
    \A op \in Ops :
        op.o \in close_ /\ Pending(op) => op.ev = "read" /\ op.o \in shut

(* evClose is posted once, and the object is there until it has run.        *)
ClosesOnce ==
    LET queue == pendings1 \o taks_nmux_
    IN  \A o \in Objects :
            Cardinality({i \in DOMAIN queue : queue[i] = o}) =
                IF o \in close_ /\ life[o] = "live" THEN 1 ELSE 0

(* An acceptor that was not stopped and has no accept in flight any more    *)
(* accepts nothing ever again, and has told its user of an error.           *)
SilenceIsTold ==
    \A a \in Acceptors :
        /\ life[a] = "live" /\ a \notin stop_ /\ Doing(a) = {}
        /\ \A i \in DOMAIN stack : stack[i].op.o # a
        => a \in told

(* The callbacks of objects among the frames of st, and the objects they are*)
(* of, innermost last: the j-th is of the callback with which there are j.  *)
(* It is a function without recursion, as SelectSeq is not, for the proofs. *)
CallbackAt(st) == {i \in DOMAIN st : st[i].op.ev \notin {"task", "start"}}

Caller(st, j) ==
    {st[i].op.o : i \in {k \in CallbackAt(st) :
                             Cardinality(CallbackAt(st) \intersect 1 .. k) = j}}

Callers(st) ==
    [j \in 1 .. Cardinality(CallbackAt(st)) |-> CHOOSE o \in Caller(st, j) : TRUE]

Promise == INSTANCE CloseProtocol WITH
    status <- [o \in Objects |->
                  IF life[o] # "live" THEN
                      IF life[o] = "deleted" THEN "closed" ELSE "new"
                  ELSE IF o \in close_ THEN "closing" ELSE "open"],
    stopped <- stop_,
    running <- Callers(stack)

(* Nested and late callbacks, stop and evClose come in the order            *)
(* CloseProtocol allows.                                                    *)
CloseSafety == Promise!SafeSpec

(* Every stopped object gets its evClose if the peer of a stream takes what *)
(* it is sent, and sends something or closes, but for a client whose connect*)
(* was never posted; or the process ran into one of the crashes.            *)
PeerActs ==
    \A s \in Streams : /\ WF_vars(Completed(Read(s), TRUE))
                        /\ WF_vars(Completed(Write(s), TRUE))

NeverPosted(o) == o \in sock_ /\ ~Pending(Connect(o))

StopClosesWithPeer ==
    PeerActs =>
        \A o \in Objects :
            o \in stop_ ~> life[o] = "deleted" \/ NeverPosted(o) \/ ~Running

(* A stopped object is not forgotten: its evClose is posted, or an operation*)
(* or a callback of it is still to end, after which it will be.             *)
StopIsHeard ==
    Running =>
        \A o \in stop_ \ close_ :
            \/ NeverPosted(o)
            \/ \E op \in Ops :
                  /\ op.o = o
                  /\ Pending(op) \/ \E i \in DOMAIN stack : stack[i].op = op

(* The read that stop() cancelled is over before evClose is called: "the    *)
(* next frame releases itself" (shu_stream.cpp:261).                        *)
AbortBeforeClose == crashed # "dangling"

(* evConn's res is ">0 ... connect suc; <0 error; 0 eof or manual stop"     *)
(* (shu_common.h:57): a completion reported as a connection is one.         *)
ConnTellsOutcome ==
    [][\A c \in Clients :
          RunConnect(c) /\ ConnectReported(c) => Head(entries).ok]_vars
=============================================================================
