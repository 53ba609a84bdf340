------------------------------ MODULE WinStream ------------------------------
(***************************************************************************)
(* The streams of shuio/win32/shu_stream.cpp.                              *)
(*                                                                         *)
(* Every WSARecv or WSASend stays pending, completes inside the call, or   *)
(* fails inside it, and in the last two cases the user's callback runs     *)
(* there.  What a read or a write came to is all one to the stream.  The   *)
(* users are those of LinuxStream; LateWrites says in which of its         *)
(* callbacks they still write to a stream stopped before.                  *)
(***************************************************************************)
EXTENDS WinReactor

CONSTANT LateWrites                \* subset of {"read", "write"}

VARIABLES
    asked,             \* what read() returned: "no" if not called
    wcb,               \* streams whose writer_ holds a callback
    shut               \* streams whose socket stop() has closed

Read(s)  == Op(s, "read")
Write(s) == Op(s, "write")

reading == {s \in Streams : Read(s) \in flags}
writing == {s \in Streams : Write(s) \in flags}

StreamPostToClose(s) == PostToClose(s)

(* post_read() past its test, with the stack st left when it returns:       *)
(* WSARecv of no bytes.                                                     *)
PostRead(s, st) ==
    \/ s \notin shut /\ Pend(Read(s), st)
    \/ s \notin shut /\ Ends(Read(s), st)
    \/ Fails(Read(s), st)

(* post_write() past its test.  A write that is pending leaves the callback *)
(* unset.                                                                   *)
PostWrite(s, st) ==
    \/ s \notin shut /\ Pend(Write(s), st) /\ UNCHANGED wcb
    \/ s \notin shut /\ Ends(Write(s), st) /\ wcb' = wcb \union {s}
    \/ Fails(Write(s), st) /\ UNCHANGED wcb

-----------------------------------------------------------------------------
(* start(), in the evConn that gives the socket.                            *)
StreamStart(s) ==
    /\ InUser
    /\ Top.op.ev \in {"accept", "connect"}
    /\ life[s] = "new"
    /\ life' = [life EXCEPT ![s] = "live"]
    /\ UNCHANGED <<stop_, close_, flags, inflight, cancel, port, frameVars,
                   taks_nmux_, stack, inlines, crashed, asked, wcb, shut>>

(* read(): init_read(), which fails too if the socket's options cannot be   *)
(* set.                                                                     *)
StreamRead(s) ==
    /\ Calls(s)
    /\ asked[s] = "no"
    /\ s \notin stop_
    /\ \/ /\ asked' = [asked EXCEPT ![s] = "ok"]
          /\ Pend(Read(s), stack) \/ Ends(Read(s), stack)
       \/ /\ asked' = [asked EXCEPT ![s] = "failed"]
          /\ Fails(Read(s), stack)
    /\ UNCHANGED <<life, stop_, close_, cancel, port, frameVars, taks_nmux_,
                   crashed, wcb, shut>>

(* A late callback writes once: that write may complete inside the call, and*)
(* the stream be closed when it returns.                                    *)
MayWrite(s) ==
    /\ asked[s] = "ok"
    /\ s \in stop_ => Top.op.o = s /\ Top.late /\ Top.op.ev \in LateWrites

Written(s) == [stack EXCEPT ![Len(stack)].late = @ /\ Top.op.o # s]

(* write(), which does nothing with a write in flight.                      *)
StreamWrite(s) ==
    /\ Calls(s)
    /\ MayWrite(s)
    /\ s \notin writing
    /\ PostWrite(s, Written(s))
    /\ UNCHANGED <<life, stop_, close_, cancel, port, frameVars, taks_nmux_,
                   crashed, asked, shut>>

(* stop() leaves all to the write in flight, or closes at once; a read in   *)
(* flight is cancelled and its socket closed first.                         *)
StreamStop(s) ==
    /\ Calls(s)
    /\ s \notin stop_
    /\ stop_' = stop_ \union {s}
    /\ \/ /\ s \in writing
          /\ NoClose
          /\ UNCHANGED <<cancel, shut>>
       \/ /\ s \in reading \ writing
          /\ cancel' = cancel \union {Read(s)}
          /\ shut' = shut \union {s}
          /\ StreamPostToClose(s)
       \/ /\ s \notin reading \union writing
          /\ StreamPostToClose(s)
          /\ UNCHANGED <<cancel, shut>>
    /\ UNCHANGED <<life, flags, inflight, port, frameVars, stack, inlines,
                   crashed, asked, wcb>>

-----------------------------------------------------------------------------
(* run_read() and run_write(): called for a packet, up to the callback; and *)
(* what follows the callback, whoever called.                               *)

RunRead(s) ==
    /\ Visit(Read(s))
    /\ Enter(Read(s))
    /\ UNCHANGED <<crashed, asked, wcb, shut>>

ClosesUnasked(s)   == s \notin writing
ClosesAfterRead(s) == s \in stop_ \ writing

RunReadReturn(s) ==
    /\ Returns(Read(s))
    /\ \/ /\ ClosesAfterRead(s)
          /\ StreamPostToClose(s)
          /\ NoPost(Popped)
       \/ /\ s \notin stop_ \union reading
          /\ PostRead(s, Popped)
          /\ NoClose
       \/ /\ s \in (stop_ \intersect writing) \union (reading \ stop_)
          /\ NoPost(Popped)
          /\ NoClose
    /\ UNCHANGED <<life, stop_, cancel, port, frameVars, crashed, asked, wcb,
                   shut>>

(* on_write_cb is the callback of the last write that completed inside its  *)
(* call; there may be none.                                                 *)
RunWrite(s) ==
    /\ Visit(Write(s))
    /\ \/ s \in wcb /\ Enter(Write(s)) /\ UNCHANGED crashed
       \/ s \notin wcb /\ crashed' = "bad_function_call" /\ UNCHANGED stack
    /\ UNCHANGED <<asked, wcb, shut>>

NeverCloses(s)      == FALSE
ClosesAfterWrite(s) == s \in stop_ \ (reading \union writing)

RunWriteReturn(s) ==
    /\ Returns(Write(s))
    /\ NoPost(Popped)
    /\ \/ ClosesAfterWrite(s) /\ StreamPostToClose(s)
       \/ ~ClosesAfterWrite(s) /\ NoClose
    /\ UNCHANGED <<life, stop_, cancel, port, frameVars, crashed, asked, wcb,
                   shut>>

StreamCall(s) ==
    StreamStart(s) \/ StreamRead(s) \/ StreamWrite(s) \/ StreamStop(s)

StreamHandler(s) ==
    RunRead(s) \/ RunReadReturn(s) \/ RunWrite(s) \/ RunWriteReturn(s)
=============================================================================
