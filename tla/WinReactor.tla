------------------------------ MODULE WinReactor ------------------------------
(***************************************************************************)
(* What the objects of shuio/win32 see of the loop: the packets of their   *)
(* operations at the completion port, handled in batches by run(), and the *)
(* evClose closures they post() from the loop thread.  WinLoop has the loop*)
(* itself.                                                                 *)
(*                                                                         *)
(* Unlike on Linux an operation may complete inside the call that begins   *)
(* it, without a packet (ssocket::init asks for that), and its callback    *)
(* runs there: stack holds the callbacks user code is in, innermost last,  *)
(* and the loops of the acceptors' start() that they interrupt.  A packet  *)
(* leads to its object by an address: nothing notices when the object is   *)
(* gone.                                                                   *)
(***************************************************************************)
EXTENDS Naturals, Sequences, FiniteSets

CONSTANTS
    Streams, Acceptors, Clients,   \* each started once
    NSlots,                        \* of an acceptor's accept_ops
    NoObject,
    MaxDepth,                      \* bound: callbacks inside callbacks
    MaxInline                      \* bound: operations that end in their call

Objects == Streams \union Acceptors \union Clients

ASSUME WinReactorAssumption ==
    /\ NoObject \notin Objects
    /\ Streams \intersect Acceptors = {}
    /\ (Streams \union Acceptors) \intersect Clients = {}
    /\ NSlots \in Nat \ {0}
    /\ {MaxDepth, MaxInline} \subseteq Nat

VARIABLES
    life,              \* "new", "live", "deleted" by evClose, or "unused"
    stop_, close_,     \* the flags of every object
    flags,             \* operations with running or doing_ set
    inflight,          \* operations pending in the system
    cancel,            \* those that CancelIoEx or closesocket aborts
    port,              \* packets [op, ok] queued at the completion port
    entries,           \* those of the batch run() is handling
    taks_nmux_,        \* evClose closures posted, by object
    pendings1,         \* those of the batch being run
    phase,             \* of the loop's frame
    stack,             \* callbacks user code runs in
    inlines,           \* operations that completed inside their call
    crashed            \* "no", or what the process ran into

frameVars == <<entries, pendings1, phase>>
reactorVars == <<life, stop_, close_, flags, inflight, cancel, port, frameVars,
                 taks_nmux_, stack, inlines, crashed>>

(* The operations, by their object, the callback their completion calls and,*)
(* for an acceptor, the slot.                                               *)
Op(o, ev) == [o |-> o, ev |-> ev, slot |-> 0]

Ops == [o : Streams, ev : {"read", "write"}, slot : {0}]
           \union [o : Acceptors, ev : {"accept"}, slot : 1 .. NSlots]
           \union [o : Clients, ev : {"connect"}, slot : {0}]

(* A callback is that of an operation, of a failed one ("error") or a task. *)
Callback(op, late) == [op |-> op, late |-> late]

Error(op) == Op(op.o, "error")

(* Tasks of the user's, timers, evClose, and what main() does before run(). *)
Task == Callback(Op(NoObject, "task"), FALSE)

ReactorType ==
    /\ life \in [Objects -> {"new", "live", "deleted", "unused"}]
    /\ close_ \subseteq stop_
    /\ stop_ \subseteq Objects
    /\ {flags, inflight, cancel} \subseteq SUBSET Ops
    /\ {port, entries} \subseteq Seq([op : Ops, ok : BOOLEAN])
    /\ {taks_nmux_, pendings1} \subseteq Seq(Objects)
    /\ phase \in {"wait", "entries", "mux", "local", "timer"}
    /\ \A i \in DOMAIN stack :
          \/ stack[i] = Task
          \/ stack[i].op \in Ops
          \/ stack[i].op \in [o : Objects, ev : {"error", "start"}, slot : {0}]
    /\ inlines \in 0 .. MaxInline
    /\ crashed \in {"no", "dangling", "bad_function_call"}

ReactorInit(used) ==
    /\ life = [o \in Objects |-> IF o \in used THEN "new" ELSE "unused"]
    /\ stop_ = {} /\ close_ = {} /\ flags = {}
    /\ inflight = {} /\ cancel = {}
    /\ port = <<>> /\ entries = <<>>
    /\ taks_nmux_ = <<>> /\ pendings1 = <<>>
    /\ phase = "wait"
    /\ stack = <<Task>> /\ inlines = 0
    /\ crashed = "no"

Running == crashed = "no"

AtLoop(p) == Running /\ phase = p /\ stack = <<>>

Top == stack[Len(stack)]
Popped == SubSeq(stack, 1, Len(stack) - 1)

InUser == Running /\ stack # <<>> /\ Top.op.ev # "start"

(* User code calls a function of an object that it started and that its     *)
(* evClose has not deleted yet.                                             *)
Calls(o) == InUser /\ life[o] = "live"

(* The callback of an operation is about to return.                         *)
Returns(op) == InUser /\ Top.op = op

-----------------------------------------------------------------------------
(* The frame of run().                                                      *)

(* All that is there is taken, which may be nothing: the other reasons to   *)
(* wake are not modelled.                                                   *)
TakePackets ==
    /\ AtLoop("wait")
    /\ entries' = port
    /\ port' = <<>>
    /\ phase' = "entries"
    /\ UNCHANGED <<life, pendings1, taks_nmux_, stack, crashed>>

(* lpCompletionKey and lpOverlapped are in memory that evClose freed.       *)
VisitDeleted ==
    /\ AtLoop("entries")
    /\ entries # <<>>
    /\ life[Head(entries).op.o] = "deleted"
    /\ crashed' = "dangling"
    /\ UNCHANGED <<life, port, frameVars, taks_nmux_, stack>>

(* on_tasks() runs the batch of the other threads' tasks, if there is one.  *)
RunMux ==
    /\ AtLoop("entries")
    /\ entries = <<>>
    /\ stack' \in {<<>>, <<Task>>}
    /\ phase' = "mux"
    /\ UNCHANGED <<life, port, entries, pendings1, taks_nmux_, crashed>>

(* on_tasks(), lines 345-346 of shu_loop.cpp.                               *)
SwapLocal ==
    /\ AtLoop("mux")
    /\ pendings1' = taks_nmux_
    /\ taks_nmux_' = <<>>
    /\ phase' = "local"
    /\ UNCHANGED <<life, port, entries, stack, crashed>>

(* The user's evClose, which deletes the object.                            *)
RunClose ==
    /\ AtLoop("local")
    /\ pendings1 # <<>>
    /\ pendings1' = Tail(pendings1)
    /\ life' = [life EXCEPT ![Head(pendings1)] = "deleted"]
    /\ stack' = <<Task>>
    /\ UNCHANGED <<port, entries, phase, taks_nmux_, crashed>>

DoneLocal ==
    /\ AtLoop("local")
    /\ pendings1 = <<>>
    /\ phase' = "timer"
    /\ UNCHANGED <<life, port, entries, pendings1, taks_nmux_, stack, crashed>>

OnTimer ==
    /\ AtLoop("timer")
    /\ stack' \in {<<>>, <<Task>>}
    /\ phase' = "wait"
    /\ UNCHANGED <<life, port, entries, pendings1, taks_nmux_, crashed>>

(* Nothing follows the callback of a task or of an error.                   *)
PlainReturn ==
    /\ InUser
    /\ Top.op.ev \in {"task", "error"}
    /\ stack' = Popped
    /\ UNCHANGED <<life, port, frameVars, taks_nmux_, crashed>>

Frame ==
    /\ \/ TakePackets \/ VisitDeleted \/ RunMux \/ SwapLocal \/ RunClose
       \/ DoneLocal \/ OnTimer \/ PlainReturn
    /\ UNCHANGED <<stop_, close_, flags, inflight, cancel, inlines>>

-----------------------------------------------------------------------------
(* What the operations of the objects are made of.                          *)

Taken(op) ==
    /\ AtLoop("entries")
    /\ entries # <<>>
    /\ Head(entries).op = op
    /\ life[op.o] = "live"
    /\ entries' = Tail(entries)
    /\ UNCHANGED <<life, stop_, close_, inflight, cancel, port, pendings1,
                   phase, taks_nmux_, inlines>>

(* A faulty handler: the flag stays set.                                    *)
VisitKeepsFlag(op) == Taken(op) /\ UNCHANGED flags

(* A packet is taken for an object that is there: the flag is cleared.  The *)
(* callback it enters is the object's business.                             *)
Visit(op) == Taken(op) /\ flags' = flags \ {op}

Enter(op) == stack' = <<Callback(op, op.o \in stop_)>>

(* A faulty post_to_close(): every call posts evClose.                      *)
PostToCloseAgain(o) ==
    /\ close_' = close_ \union {o}
    /\ taks_nmux_' = Append(taks_nmux_, o)

(* post_to_close(): the first call posts evClose.                           *)
PostToClose(o) ==
    /\ close_' = close_ \union {o}
    /\ taks_nmux_' = IF o \in close_ THEN taks_nmux_ ELSE Append(taks_nmux_, o)

NoClose == UNCHANGED <<close_, taks_nmux_>>

Depth(st) == Cardinality({i \in DOMAIN st : st[i].op.ev # "start"})

(* A callback is run inside the call, from a stack that is st without it.   *)
CallInline(st, op) ==
    /\ inlines < MaxInline
    /\ Depth(st) < MaxDepth
    /\ inlines' = inlines + 1
    /\ stack' = Append(st, Callback(op, op.o \in stop_))

(* None is: the operation is pending, or there is none.                     *)
CallNone(st) == stack' = st /\ UNCHANGED inlines

NoPost(st) == CallNone(st) /\ UNCHANGED <<flags, inflight>>

(* A faulty operation: its flag is left as it was.                          *)
PendForgetsFlag(op, st) ==
    /\ inflight' = inflight \union {op}
    /\ UNCHANGED flags
    /\ CallNone(st)

(* The operation stays pending.                                             *)
Pend(op, st) ==
    /\ flags' = flags \union {op}
    /\ inflight' = inflight \union {op}
    /\ CallNone(st)

(* It completes inside the call, or fails there.                            *)
Ends(op, st)  == CallInline(st, op) /\ UNCHANGED <<flags, inflight>>
Fails(op, st) == CallInline(st, Error(op)) /\ UNCHANGED <<flags, inflight>>

-----------------------------------------------------------------------------
(* The system completes an operation.                                       *)
KPacket(op, ok) ==
    /\ Running
    /\ op \in inflight
    /\ inflight' = inflight \ {op}
    /\ port' = Append(port, [op |-> op, ok |-> ok])
    /\ UNCHANGED <<life, stop_, close_, flags, cancel, frameVars, taks_nmux_,
                   stack, inlines, crashed>>

(* An operation that was cancelled is aborted, if it is still there.        *)
KAbort(op) == op \in cancel /\ KPacket(op, FALSE)
=============================================================================
