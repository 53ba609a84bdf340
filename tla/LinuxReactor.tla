----------------------------- MODULE LinuxReactor -----------------------------
(***************************************************************************)
(* What the objects of shuio/linux see of the loop: the table register_cb  *)
(* of linux_detail.h, the operations they give to the ring, the completions*)
(* that run() looks up in the table, and the closures they post() from the *)
(* loop thread.  LinuxLoop has the loop itself; here a frame of run() is   *)
(* its phases, and user code runs inside callbacks only, on the loop       *)
(* thread.                                                                 *)
(*                                                                         *)
(* An object stands for its register id, which make_register_id() never    *)
(* gives twice.  LinuxStream, LinuxAcceptor and LinuxClient extend this    *)
(* module with the operations of their class, LinuxObjects puts them on one*)
(* loop.                                                                   *)
(*                                                                         *)
(* The submissions of stop() that cancel an operation set no user_data, and*)
(* io_uring_get_sqe() does not clear what an entry of the queue held when  *)
(* it was last used.  Such a cancellation completes under the id of an     *)
(* older operation, which run() cannot tell from that operation.           *)
(***************************************************************************)
EXTENDS Naturals, Sequences, FiniteSets

CONSTANTS
    Streams, Acceptors, Clients,   \* each started once
    NoObject,
    CqSize,                        \* entries of the completion ring
    MaxMistaken                    \* bound: ids that cancellations borrow

Objects == Streams \union Acceptors \union Clients

ASSUME ReactorAssumption ==
    /\ NoObject \notin Objects
    /\ Streams \intersect Acceptors = {}
    /\ (Streams \union Acceptors) \intersect Clients = {}
    /\ CqSize \in Nat \ {0}
    /\ MaxMistaken \in Nat

VARIABLES
    life,              \* "new", "live", "deleted" by evClose, or "unused"
    stop_, close_,     \* the flags of every object
    flags,             \* operations whose flag is set: reading_, writing_, op_
    registered,        \* objects register_cb has an entry for
    inflight,          \* completions to come from the kernel, by id
    reused,            \* whether the submission queue has turned: its entries
                       \* are used again
    posted,            \* ids that it was given
    mistaken,          \* those that a cancellation's completion has
    cancel,            \* operations the kernel was told to cancel
    cq,                \* ids completed and not yet handled, in order
    handled,           \* of them, those run() handled before its cq_advance
    taks_nmux_,        \* evClose closures posted, by object
    pendings1,         \* those of the batch being run
    phase,             \* of the loop's frame
    ctx,               \* the callback user code runs in
    panicked           \* "no", or the check that ended the process

closeVars == <<close_, registered, taks_nmux_>>
frameVars == <<handled, pendings1, phase>>
idVars    == <<reused, posted, mistaken>>
reactorVars == <<life, stop_, flags, inflight, idVars, cancel, cq, closeVars,
                 frameVars, ctx, panicked>>

(* The operations, by the object and the callback their completion calls.   *)
Op(o, ev) == [o |-> o, ev |-> ev]

Ops == [o : Streams, ev : {"read", "write"}]
           \union [o : Acceptors \union Clients, ev : {"conn"}]

NoOp == Op(NoObject, "none")

(* The loop's poll of its eventfd, which LinuxLoop models.  Here are the    *)
(* completions under its id, and the polls, that are one too many.          *)
Efd == Op(NoObject, "efd")

Ids == Ops \union {Efd}

(* An operation is completed up to the callbacks it has: a read may first   *)
(* ask for a buffer.  In "readv" no user code runs, and in all others the   *)
(* user may be in a callback of errors, innermost last: a call that fails   *)
(* reports it so before it returns.                                         *)
Entered == Ops \union [o : Streams, ev : {"alloc", "readv"}]

Callback(op, late) == [op |-> op, late |-> late, errors |-> <<>>]

Idle == Callback(NoOp, FALSE)

(* Tasks of the user's, timers, and what main() does before run().          *)
Task == Callback(Op(NoObject, "task"), FALSE)

ReactorType ==
    /\ life \in [Objects -> {"new", "live", "deleted", "unused"}]
    /\ close_ \subseteq stop_
    /\ stop_ \subseteq Objects
    /\ inflight \in [Ids -> Nat]
    /\ reused \in BOOLEAN
    /\ mistaken \subseteq posted
    /\ posted \subseteq Ids
    /\ flags \subseteq posted \intersect Ops
    /\ cancel \subseteq {op \in Ops : op.o \in stop_}
    /\ registered \subseteq Objects
    /\ cq \in Seq(Ids)
    /\ handled \in 0 .. CqSize
    /\ {taks_nmux_, pendings1} \subseteq Seq(Objects)
    /\ phase \in {"cqe", "mux", "swap", "local", "timer"}
    /\ ctx \in [op : {NoOp, Task.op} \union Entered, late : BOOLEAN,
                errors : Seq(Objects)]
    /\ panicked \in {"no", "ud_pack", "unregister_loop", "null_socket",
                     "handle_eventfd"}

ReactorInit(used, long) ==
    /\ life = [o \in Objects |-> IF o \in used THEN "new" ELSE "unused"]
    /\ stop_ = {} /\ close_ = {} /\ flags = {}
    /\ registered = {}
    /\ inflight = [op \in Ids |-> 0] /\ cancel = {}
    /\ reused = long /\ posted = {Efd} /\ mistaken = {}
    /\ cq = <<>> /\ handled = 0
    /\ taks_nmux_ = <<>> /\ pendings1 = <<>>
    /\ phase = "cqe"
    /\ ctx = Task
    /\ panicked = "no"

Running == panicked = "no"

AtLoop(p) == Running /\ phase = p /\ ctx = Idle

InUser == Running /\ ctx # Idle /\ ctx.op.ev # "readv"

(* A callback returns when those of the errors within it have.              *)
Returns(op) == Running /\ ctx.op = op /\ ctx.errors = <<>>

(* User code calls a function of an object that it started and that its     *)
(* evClose has not deleted yet.                                             *)
Calls(o) == InUser /\ life[o] = "live"

-----------------------------------------------------------------------------
(* The frame of run().  io_uring_for_each_cqe handles what the ring holds;  *)
(* completions beyond CqSize stay with the kernel until io_uring_cq_advance.*)

TakeCqe(id) ==
    /\ AtLoop("cqe")
    /\ handled < CqSize
    /\ cq # <<>>
    /\ Head(cq) = id
    /\ cq' = Tail(cq)
    /\ handled' = handled + 1
    /\ UNCHANGED <<life, stop_, close_, idVars, cancel, taks_nmux_,
                   pendings1, phase>>

(* A faulty handler: the flag stays set.                                    *)
DispatchKeepsFlag(op) ==
    /\ TakeCqe(op)
    /\ op.o \in registered
    /\ UNCHANGED <<flags, inflight, panicked>>

(* The callback of register_cb is entered, which clears the flag first.     *)
Dispatch(op) ==
    /\ TakeCqe(op)
    /\ op.o \in registered
    /\ flags' = flags \ {op}
    /\ UNCHANGED <<inflight, panicked>>

(* And it calls the user's.                                                 *)
Enter(op) == ctx' = Callback(op, op.o \in stop_)

(* A completion whose id has left register_cb is skipped.                   *)
SkipCqe ==
    /\ \E op \in Ops : TakeCqe(op) /\ op.o \notin registered
    /\ UNCHANGED <<flags, registered, inflight, ctx, panicked>>

(* handle_eventfd() and post_read_eventfd() for a completion too many: the  *)
(* eventfd is empty, or it was just written to and has two polls from now.  *)
ReadEventfd ==
    /\ TakeCqe(Efd)
    /\ \/ /\ panicked' = "handle_eventfd"
          /\ UNCHANGED inflight
       \/ /\ inflight' = [inflight EXCEPT ![Efd] = @ + 1]
          /\ UNCHANGED panicked
    /\ UNCHANGED <<flags, registered, ctx>>

CqAdvance ==
    /\ AtLoop("cqe")
    /\ cq = <<>> \/ handled = CqSize
    /\ handled' = 0
    /\ phase' = "mux"
    /\ UNCHANGED <<life, cq, taks_nmux_, pendings1, ctx>>

(* on_tasks() runs the batch of the other threads' tasks, if there is one.  *)
RunMux ==
    /\ AtLoop("mux")
    /\ ctx' \in {Idle, Task}
    /\ phase' = "swap"
    /\ UNCHANGED <<life, cq, handled, taks_nmux_, pendings1>>

(* on_tasks(), lines 330-331 of shu_loop.cpp.                               *)
SwapLocal ==
    /\ AtLoop("swap")
    /\ pendings1' = taks_nmux_
    /\ taks_nmux_' = <<>>
    /\ phase' = "local"
    /\ UNCHANGED <<life, cq, handled, ctx>>

(* The user's evClose, which deletes the object.                            *)
RunClose ==
    /\ AtLoop("local")
    /\ pendings1 # <<>>
    /\ pendings1' = Tail(pendings1)
    /\ life' = [life EXCEPT ![Head(pendings1)] = "deleted"]
    /\ ctx' = Task
    /\ UNCHANGED <<cq, handled, taks_nmux_, phase>>

DoneLocal ==
    /\ AtLoop("local")
    /\ pendings1 = <<>>
    /\ phase' = "timer"
    /\ UNCHANGED <<life, cq, handled, taks_nmux_, pendings1, ctx>>

OnTimer ==
    /\ AtLoop("timer")
    /\ ctx' \in {Idle, Task}
    /\ phase' = "cqe"
    /\ UNCHANGED <<life, cq, handled, taks_nmux_, pendings1>>

TaskReturn ==
    /\ Returns(Task.op)
    /\ ctx' = Idle
    /\ UNCHANGED <<life, cq, handled, taks_nmux_, pendings1, phase>>

(* The callback of an error returns, into the call that failed.             *)
ErrorReturn ==
    /\ Running
    /\ ctx.errors # <<>>
    /\ ctx' = [ctx EXCEPT !.errors = SubSeq(@, 1, Len(@) - 1)]
    /\ UNCHANGED <<life, cq, handled, taks_nmux_, pendings1, phase>>

Frame ==
    \/ SkipCqe
    \/ ReadEventfd
    \/ /\ \/ CqAdvance \/ RunMux \/ SwapLocal \/ RunClose \/ DoneLocal
          \/ OnTimer \/ TaskReturn \/ ErrorReturn
       /\ UNCHANGED <<stop_, close_, flags, registered, inflight, idVars,
                      cancel, panicked>>

-----------------------------------------------------------------------------
(* What the operations of the objects are made of.                          *)

NoClose == UNCHANGED <<closeVars, panicked>>

(* register_loop_cb() for an object that is started.                        *)
Register(o) ==
    /\ life[o] = "new"
    /\ life' = [life EXCEPT ![o] = "live"]
    /\ registered' = registered \union {o}

(* The ring is given an operation.                                          *)
Submit(op) ==
    /\ flags' = flags \union {op}
    /\ inflight' = [inflight EXCEPT ![op] = @ + 1]
    /\ posted' = posted \union {op}
    /\ UNCHANGED <<reused, mistaken>>

NoSubmit == UNCHANGED <<flags, inflight, idVars>>

(* ud_pack() panics for an object that is not registered any more.          *)
Post(op) ==
    \/ /\ op.o \in registered
       /\ Submit(op)
       /\ UNCHANGED panicked
    \/ /\ op.o \notin registered
       /\ panicked' = "ud_pack"
       /\ NoSubmit

(* register_cb keeps its entry.                                             *)
UnregisterKeepsCallback(o) ==
    /\ taks_nmux_' = Append(taks_nmux_, o)
    /\ UNCHANGED <<registered, panicked>>

(* unregister_loop(), which panics for an object that is not registered,    *)
(* and the post of evClose.                                                 *)
Unregister(o) ==
    \/ /\ o \in registered
       /\ registered' = registered \ {o}
       /\ taks_nmux_' = Append(taks_nmux_, o)
       /\ UNCHANGED panicked
    \/ /\ o \notin registered
       /\ panicked' = "unregister_loop"
       /\ UNCHANGED <<registered, taks_nmux_>>

(* Of the calls of post_to_close(), the first does it.                      *)
CloseOnce(o) ==
    \/ /\ o \notin close_
       /\ close_' = close_ \union {o}
       /\ Unregister(o)
    \/ /\ o \in close_
       /\ NoClose

(* The rest of stop() for an operation in flight: it is cancelled.  The     *)
(* cancellation has a completion too.  In a fresh entry its user_data is    *)
(* zero, which run() skips; in an entry used before, it is what was there.  *)
Cancel(op) ==
    /\ cancel' = cancel \union {op}
    /\ \/ UNCHANGED <<inflight, mistaken>>
       \/ \E id \in posted :
             /\ reused
             /\ Cardinality(mistaken) < MaxMistaken
             /\ inflight' = [inflight EXCEPT ![id] = @ + 1]
             /\ mistaken' = mistaken \union {id}
    /\ UNCHANGED <<reused, posted>>
    /\ NoClose

NoCancel == UNCHANGED <<cancel, inflight, idVars>>

-----------------------------------------------------------------------------
(* The kernel completes an operation (data, end of file, a connection or an *)
(* error: to the object that is all one), or a cancellation, or a poll.     *)
KComplete(id) ==
    /\ Running
    /\ inflight[id] > 0
    /\ inflight' = [inflight EXCEPT ![id] = @ - 1]
    /\ cq' = Append(cq, id)
    /\ UNCHANGED <<life, stop_, flags, idVars, cancel, closeVars, frameVars,
                   ctx, panicked>>

(* The cancellation finds an operation with that id, or comes too late.     *)
KCancel(op) ==
    /\ Running
    /\ op \in cancel
    /\ cancel' = cancel \ {op}
    /\ \/ /\ inflight[op] > 0
          /\ inflight' = [inflight EXCEPT ![op] = @ - 1]
          /\ cq' = Append(cq, op)
       \/ /\ inflight[op] = 0
          /\ UNCHANGED <<inflight, cq>>
    /\ UNCHANGED <<life, stop_, flags, idVars, closeVars, frameVars, ctx,
                   panicked>>
=============================================================================
