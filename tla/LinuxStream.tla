----------------------------- MODULE LinuxStream -----------------------------
(***************************************************************************)
(* The streams of shuio/linux/shu_stream.cpp.                              *)
(*                                                                         *)
(* Users start a stream on a socket that an evConn gave them, read it once *)
(* and give an evClose that deletes it, as the examples do; LateWrites says*)
(* in which of its callbacks they still write to a stream that was stopped *)
(* before the callback.                                                    *)
(***************************************************************************)
EXTENDS LinuxReactor

CONSTANT LateWrites                \* subset of {"alloc", "read", "write"}

VARIABLE asked         \* what read() returned to the user: "no" if not called

Read(s)  == Op(s, "read")
Write(s) == Op(s, "write")

Alloc(s) == Op(s, "alloc")     \* in on_alloc_cb_
ReadV(s) == Op(s, "readv")     \* between it and on_read_cb_

reading_ == {s \in Streams : Read(s) \in flags}
writing_ == {s \in Streams : Write(s) \in flags}

StreamPostToClose(s) == CloseOnce(s)

(* start(), in the evConn that gives the socket.                            *)
StreamStart(s) ==
    /\ InUser
    /\ ctx.op.ev = "conn"
    /\ Register(s)
    /\ NoSubmit
    /\ UNCHANGED <<stop_, cancel, cq, close_, taks_nmux_, frameVars, ctx,
                   panicked, asked>>

(* read(): init_read(), which calls back with an error if the socket's      *)
(* options cannot be set.                                                   *)
StreamRead(s) ==
    /\ Calls(s)
    /\ asked[s] = "no"
    /\ s \notin stop_
    /\ \/ /\ asked' = [asked EXCEPT ![s] = "ok"]
          /\ Post(Read(s))
          /\ UNCHANGED ctx
       \/ /\ asked' = [asked EXCEPT ![s] = "failed"]
          /\ ctx' = [ctx EXCEPT !.errors = Append(@, s)]
          /\ NoSubmit /\ UNCHANGED panicked
    /\ UNCHANGED <<life, stop_, cancel, cq, closeVars, frameVars>>

(* Users write after read(), as shu_stream.h and shu_stream.cpp ask.        *)
MayWrite(s) ==
    /\ asked[s] = "ok"
    /\ s \in stop_ => ctx.op.o = s /\ ctx.late /\ ctx.op.ev \in LateWrites

(* write(): post_write(), which does nothing with a write in flight.        *)
StreamWrite(s) ==
    /\ Calls(s)
    /\ MayWrite(s)
    /\ s \notin writing_
    /\ Post(Write(s))
    /\ UNCHANGED <<life, stop_, cancel, cq, closeVars, frameVars, ctx, asked>>

(* stop() leaves all to the write, cancels the read, or closes at once.     *)
StreamStop(s) ==
    /\ Calls(s)
    /\ s \notin stop_
    /\ stop_' = stop_ \union {s}
    /\ \/ /\ s \in writing_
          /\ NoClose /\ NoCancel
       \/ /\ s \in reading_ \ writing_
          /\ Cancel(Read(s))
       \/ /\ s \notin reading_ \union writing_
          /\ StreamPostToClose(s) /\ NoCancel
    /\ UNCHANGED <<life, flags, cq, frameVars, ctx, asked>>

-----------------------------------------------------------------------------
(* run_read() and run_write(), up to the user's callback and after it.      *)

RunRead(s) ==
    /\ Dispatch(Read(s))
    /\ Enter(Alloc(s)) \/ Enter(Read(s))
    /\ UNCHANGED <<registered, asked>>

RunWrite(s) ==
    /\ Dispatch(Write(s))
    /\ Enter(Write(s))
    /\ UNCHANGED <<registered, asked>>

(* on_alloc_cb_ returns and readv() follows: whatever on_alloc_cb_ did, the *)
(* result goes to on_read_cb_.                                              *)
RunAllocReturn(s) ==
    /\ Returns(Alloc(s))
    /\ ctx' = [ctx EXCEPT !.op = ReadV(s)]
    /\ NoSubmit /\ NoClose
    /\ UNCHANGED <<life, stop_, cancel, cq, frameVars, asked>>

RunReadV(s) ==
    /\ Returns(ReadV(s))
    /\ ctx' = [ctx EXCEPT !.op = Read(s)]
    /\ NoSubmit /\ NoClose
    /\ UNCHANGED <<life, stop_, cancel, cq, frameVars, asked>>

(* What follows run_read()'s callback, if nothing is in flight to wait for. *)
ReadsWhenStopped(s) == TRUE
ReadsAgain(s)       == s \notin stop_

ClosesUnasked(s)    == s \notin writing_
ClosesAfterRead(s)  == s \in stop_ \ writing_

RunReadReturn(s) ==
    /\ Returns(Read(s))
    /\ ctx' = Idle
    /\ \/ /\ ReadsAgain(s)
          /\ Post(Read(s))
          /\ UNCHANGED closeVars
       \/ /\ ClosesAfterRead(s)
          /\ StreamPostToClose(s)
          /\ NoSubmit
       \/ /\ ~ReadsAgain(s) /\ ~ClosesAfterRead(s)
          /\ NoClose
          /\ NoSubmit
    /\ UNCHANGED <<life, stop_, cancel, cq, frameVars, asked>>

(* And run_write()'s: the read is waited for.                               *)
ClosesAtOnce(s)     == s \in stop_
NeverCloses(s)      == FALSE
ClosesAfterWrite(s) == s \in stop_ \ reading_

RunWriteReturn(s) ==
    /\ Returns(Write(s))
    /\ ctx' = Idle
    /\ \/ ClosesAfterWrite(s) /\ StreamPostToClose(s)
       \/ ~ClosesAfterWrite(s) /\ NoClose
    /\ NoSubmit
    /\ UNCHANGED <<life, stop_, cancel, cq, frameVars, asked>>

StreamCall(s) ==
    StreamStart(s) \/ StreamRead(s) \/ StreamWrite(s) \/ StreamStop(s)

StreamHandler(s) ==
    \/ RunRead(s) \/ RunAllocReturn(s) \/ RunReadV(s) \/ RunReadReturn(s)
    \/ RunWrite(s) \/ RunWriteReturn(s)
=============================================================================
