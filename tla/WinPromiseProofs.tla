--------------------------- MODULE WinPromiseProofs ---------------------------
(***************************************************************************)
(* Proof that WinObjects implements CloseProtocol, whatever its users call.*)
(* The callbacks that run are found on the stack, between the frames of    *)
(* tasks and of the acceptors' start(), which the user knows nothing of.   *)
(***************************************************************************)
EXTENDS WinObjectsProofs

-----------------------------------------------------------------------------
(* Sequences used as stacks.                                                *)

(* What is pushed is on top, and below it is what was there.                *)
LEMMA PushedOnTop ==
    ASSUME NEW S, NEW q \in Seq(S), NEW x \in S
    PROVE  /\ Append(q, x) # <<>>
           /\ Append(q, x)[Len(Append(q, x))] = x
           /\ SubSeq(Append(q, x), 1, Len(Append(q, x)) - 1) = q
<1>1. PICK a : a = Append(q, x)
    OBVIOUS
<1>2. PICK n \in Nat : n = Len(q)
    BY LenProperties
<1>3. /\ a \in Seq(S) /\ a # <<>> /\ Len(a) = n + 1 /\ a[n + 1] = x
      /\ \A i \in 1 .. n : a[i] = q[i]
    BY <1>1, <1>2, AppendProperties
<1>4. \A i \in 1 .. n : a[i] \in S
    BY <1>2, <1>3, ElementOfSeq
<1>5. \A i \in 1 .. n : 1 + i - 1 = i
    OBVIOUS
<1>6. PICK p : p = SubSeq(a, 1, n)
    OBVIOUS
<1>7. /\ p \in Seq(S)
      /\ Len(p) = IF 1 <= n THEN n - 1 + 1 ELSE 0
      /\ \A i \in 1 .. n - 1 + 1 : p[i] = a[1 + i - 1]
    BY <1>4, <1>6, SubSeqProperties
<1>8. n - 1 + 1 = n /\ (~(1 <= n) => n = 0) /\ n + 1 - 1 = n
    OBVIOUS
<1>9. Len(p) = Len(q) /\ \A i \in 1 .. Len(p) : p[i] = q[i]
    BY <1>2, <1>3, <1>5, <1>7, <1>8
<1>10. p = q
    BY <1>7, <1>9, SeqEqual
<1>. QED
    BY <1>1, <1>3, <1>6, <1>8, <1>10

(* A stack is its top pushed on the rest.                                   *)
LEMMA PoppedUnderTop ==
    ASSUME NEW S, NEW q \in Seq(S), q # <<>>
    PROVE  /\ SubSeq(q, 1, Len(q) - 1) \in Seq(S)
           /\ q[Len(q)] \in S
           /\ q = Append(SubSeq(q, 1, Len(q) - 1), q[Len(q)])
<1>1. PICK p \in Seq(S), x \in S : q = Append(p, x)
    BY SequenceEmptyOrAppend
<1>. QED
    BY <1>1, PushedOnTop

-----------------------------------------------------------------------------
(* The callbacks among the frames of a stack.                               *)

IsCallback(frame) == frame.op.ev \notin {"task", "start"}

LEMMA CallbackAtFinite ==
    ASSUME NEW S, NEW st \in Seq(S)
    PROVE  /\ DOMAIN st = 1 .. Len(st) /\ Len(st) \in Nat
           /\ CallbackAt(st) \subseteq 1 .. Len(st)
           /\ IsFiniteSet(CallbackAt(st))
           /\ Cardinality(CallbackAt(st)) \in Nat
           /\ \A k : /\ IsFiniteSet(CallbackAt(st) \intersect 1 .. k)
                     /\ Cardinality(CallbackAt(st) \intersect 1 .. k) <=
                            Cardinality(CallbackAt(st))
                     /\ Cardinality(CallbackAt(st) \intersect 1 .. k) \in Nat
<1>1. /\ DOMAIN st = 1 .. Len(st) /\ Len(st) \in Nat
      /\ CallbackAt(st) \subseteq 1 .. Len(st)
    BY LenProperties DEF CallbackAt
<1>2. IsFiniteSet(1 .. Len(st))
    BY <1>1, FS_Interval
<1>3. IsFiniteSet(CallbackAt(st)) /\ Cardinality(CallbackAt(st)) \in Nat
    BY <1>1, <1>2, FS_Subset, FS_CardinalityType
<1>4. ASSUME NEW k
      PROVE  /\ IsFiniteSet(CallbackAt(st) \intersect 1 .. k)
             /\ Cardinality(CallbackAt(st) \intersect 1 .. k) <=
                    Cardinality(CallbackAt(st))
             /\ Cardinality(CallbackAt(st) \intersect 1 .. k) \in Nat
  <2>1. CallbackAt(st) \intersect 1 .. k \in SUBSET CallbackAt(st)
    OBVIOUS
  <2>. QED
    BY <1>3, <2>1, FS_Subset, FS_CardinalityType
<1>. QED
    BY <1>1, <1>3, <1>4

(* The callers are a sequence, of whatever.                                 *)
LEMMA CallersAreSeq ==
    ASSUME NEW S, NEW st \in Seq(S), NEW o
    PROVE  \E T : o \in T /\ Callers(st) \in Seq(T)
<1>1. Cardinality(CallbackAt(st)) \in Nat
    BY CallbackAtFinite
<1>2. PICK n \in Nat : n = Cardinality(CallbackAt(st))
    BY <1>1
<1>3. PICK c : /\ c = Callers(st)
               /\ c = [j \in 1 .. n |-> CHOOSE x \in Caller(st, j) : TRUE]
    BY <1>2 DEF Callers
<1>4. PICK T : T = {c[j] : j \in 1 .. n} \union {o}
    OBVIOUS
<1>5. c \in [1 .. n -> T] /\ o \in T
  <2>1. \A j \in 1 .. n : c[j] \in T
    BY <1>4
  <2>. QED
    BY <1>3, <1>4, <2>1
<1>6. c \in Seq(T)
    BY <1>5
<1>. QED
    BY <1>3, <1>5, <1>6

(* Stacks with the same callbacks in the same places.                       *)
LEMMA SameCallers ==
    ASSUME NEW a, NEW b, DOMAIN a = DOMAIN b,
           \A i \in DOMAIN a : a[i].op = b[i].op
    PROVE  Callers(a) = Callers(b)
<1>1. CallbackAt(a) = CallbackAt(b)
    BY DEF CallbackAt
<1>2. ASSUME NEW j PROVE Caller(a, j) = Caller(b, j)
  <2>1. \A k \in CallbackAt(a) : a[k].op.o = b[k].op.o
    BY DEF CallbackAt
  <2>. QED
    BY <1>1, <2>1 DEF Caller
<1>. QED
    BY <1>1, <1>2 DEF Callers

(* A frame that is no callback changes nothing.                             *)
LEMMA PushFrame ==
    ASSUME NEW S, NEW st \in Seq(S), NEW frame \in S, ~IsCallback(frame)
    PROVE  Callers(Append(st, frame)) = Callers(st)
<1> DEFINE q == Append(st, frame)
<1>1. /\ Len(st) \in Nat /\ DOMAIN st = 1 .. Len(st)
      /\ DOMAIN q = 1 .. Len(st) + 1
      /\ \A i \in 1 .. Len(st) : q[i] = st[i]
      /\ q[Len(st) + 1] = frame
    BY AppendProperties, LenProperties
<1> HIDE DEF q
<1>2. CallbackAt(q) = CallbackAt(st)
    BY <1>1 DEF CallbackAt, IsCallback
<1>3. ASSUME NEW j PROVE Caller(q, j) = Caller(st, j)
  <2>1. \A k \in CallbackAt(st) : q[k] = st[k]
    BY <1>1 DEF CallbackAt
  <2>. QED
    BY <1>2, <2>1 DEF Caller
<1>4. Callers(q) = Callers(st)
    BY <1>2, <1>3 DEF Callers
<1>. QED
    BY <1>4 DEF q

(* A callback is the innermost.                                             *)
LEMMA PushCallback ==
    ASSUME NEW S, NEW st \in Seq(S), NEW frame \in S, IsCallback(frame)
    PROVE  Callers(Append(st, frame)) = Append(Callers(st), frame.op.o)
<1> DEFINE q == Append(st, frame)
           m == Len(st) + 1
           n == Cardinality(CallbackAt(st))
<1>1. /\ Len(st) \in Nat /\ DOMAIN st = 1 .. Len(st) /\ m \in Nat
      /\ q \in Seq(S) /\ DOMAIN q = 1 .. m
      /\ \A i \in 1 .. Len(st) : q[i] = st[i]
      /\ q[m] = frame /\ m \notin 1 .. Len(st)
    BY AppendProperties, LenProperties
<1>f. /\ CallbackAt(st) \subseteq 1 .. Len(st)
      /\ IsFiniteSet(CallbackAt(st)) /\ n \in Nat
      /\ \A k : /\ Cardinality(CallbackAt(st) \intersect 1 .. k) <= n
                /\ Cardinality(CallbackAt(st) \intersect 1 .. k) \in Nat
    BY CallbackAtFinite
<1> HIDE DEF q
<1>2. CallbackAt(q) = CallbackAt(st) \union {m}
    BY <1>1 DEF CallbackAt, IsCallback
<1>3. Cardinality(CallbackAt(q)) = n + 1
    BY <1>1, <1>2, <1>f, FS_AddElement
<1>4. \A k \in CallbackAt(st) :
          CallbackAt(q) \intersect 1 .. k = CallbackAt(st) \intersect 1 .. k
    BY <1>1, <1>2, <1>f
<1>5. CallbackAt(q) \intersect 1 .. m = CallbackAt(q)
    BY <1>1, <1>2, <1>f
<1>6. ASSUME NEW j \in 1 .. n PROVE Caller(q, j) = Caller(st, j)
  <2>1. {k \in CallbackAt(q) : Cardinality(CallbackAt(q) \intersect 1 .. k) = j}
        = {k \in CallbackAt(st) : Cardinality(CallbackAt(st) \intersect 1 .. k) = j}
    <3>1. Cardinality(CallbackAt(q) \intersect 1 .. m) # j
      BY <1>3, <1>5, <1>f
    <3>2. \A k \in CallbackAt(st) :
              Cardinality(CallbackAt(q) \intersect 1 .. k) =
              Cardinality(CallbackAt(st) \intersect 1 .. k)
      BY <1>4
    <3>. QED
      BY <1>2, <3>1, <3>2
  <2>2. \A k \in CallbackAt(st) : q[k].op.o = st[k].op.o
    BY <1>1, <1>f
  <2>. QED
    BY <2>1, <2>2 DEF Caller
<1>7. Caller(q, n + 1) = {frame.op.o}
  <2>1. {k \in CallbackAt(q) :
            Cardinality(CallbackAt(q) \intersect 1 .. k) = n + 1} = {m}
    <3>1. ASSUME NEW k \in CallbackAt(st)
          PROVE  Cardinality(CallbackAt(q) \intersect 1 .. k) # n + 1
      <4>1. PICK c \in Nat :
                c = Cardinality(CallbackAt(st) \intersect 1 .. k) /\ c <= n
        BY <1>f
      <4>2. Cardinality(CallbackAt(q) \intersect 1 .. k) = c
        BY <1>4, <4>1
      <4>. QED
        BY <1>f, <4>1, <4>2
    <3>2. Cardinality(CallbackAt(q) \intersect 1 .. m) = n + 1
      BY <1>3, <1>5
    <3>. QED
      BY <1>2, <3>1, <3>2
  <2>. QED
    BY <1>1, <2>1 DEF Caller
<1>8. PICK T : frame.op.o \in T /\ Callers(st) \in Seq(T)
    BY CallersAreSeq
<1>9. /\ Callers(q) = [j \in 1 .. n + 1 |-> CHOOSE o \in Caller(q, j) : TRUE]
      /\ Callers(st) = [j \in 1 .. n |-> CHOOSE o \in Caller(st, j) : TRUE]
    BY <1>3 DEF Callers
<1>10. Len(Callers(st)) = n
    BY <1>8, <1>9, <1>f, LenProperties
<1>11. \A j \in 1 .. n : Callers(q)[j] = Callers(st)[j]
  <2>1. \A j \in 1 .. n : j \in 1 .. n + 1
    BY <1>f
  <2>. QED
    BY <1>6, <1>9, <2>1
<1>12. Callers(q)[n + 1] = frame.op.o
  <2>1. n + 1 \in 1 .. n + 1
    BY <1>f
  <2>. QED
    BY <1>7, <1>9, <2>1
<1>13. Callers(q) = Append(Callers(st), frame.op.o)
  <2>1. /\ \A j \in 1 .. n + 1 : Callers(q)[j] \in T
        /\ Callers(q) \in [1 .. n + 1 -> T]
    <3>1. \A j \in 1 .. n : Callers(st)[j] \in T
      BY <1>8, <1>10, ElementOfSeq
    <3>2. \A j \in 1 .. n + 1 : j \in 1 .. n \/ j = n + 1
      BY <1>f
    <3>3. \A j \in 1 .. n + 1 : Callers(q)[j] \in T
      BY <1>8, <1>11, <1>12, <3>1, <3>2
    <3>. QED
      BY <1>9, <3>3
  <2>2. Callers(q) \in Seq(T) /\ Len(Callers(q)) = n + 1
    BY <1>f, <2>1, LenProperties
  <2>3. /\ Append(Callers(st), frame.op.o) \in Seq(T)
        /\ Len(Append(Callers(st), frame.op.o)) = n + 1
        /\ \A j \in 1 .. n : Append(Callers(st), frame.op.o)[j] = Callers(st)[j]
        /\ Append(Callers(st), frame.op.o)[n + 1] = frame.op.o
    BY <1>8, <1>10, AppendProperties
  <2>4. \A j \in 1 .. n + 1 : j \in 1 .. n \/ j = n + 1
    BY <1>f
  <2>. QED
    BY <1>11, <1>12, <2>2, <2>3, <2>4, SeqEqual
<1>. QED
    BY <1>13 DEF q

(* No frame, no caller; and one that is no callback on top of none.         *)
LEMMA NoCallers == Callers(<<>>) = <<>> /\ Callers(<<Task>>) = <<>>
<1>1. Callers(<<>>) = <<>>
  <2>1. CallbackAt(<<>>) = {}
    BY DEF CallbackAt
  <2>2. Cardinality(CallbackAt(<<>>)) = 0
    BY <2>1, FS_EmptySet
  <2>3. Callers(<<>>) = [j \in 1 .. 0 |-> CHOOSE o \in Caller(<<>>, j) : TRUE]
    BY <2>2 DEF Callers
  <2>4. PICK T : Callers(<<>>) \in Seq(T)
    <3>1. <<>> \in Seq({0})
      BY EmptySeq
    <3>. QED
      BY <3>1, CallersAreSeq
  <2>5. DOMAIN Callers(<<>>) = 1 .. 0
    BY <2>3
  <2>6. Len(Callers(<<>>)) = 0
    BY <2>4, <2>5, LenProperties
  <2>. QED
    BY <2>4, <2>6, EmptySeq
<1>2. Callers(Append(<<>>, Task)) = Callers(<<>>)
  <2>1. ~IsCallback(Task) /\ Task \in {Task} /\ <<>> \in Seq({Task})
    BY ContextFacts, EmptySeq DEF IsCallback
  <2>. QED
    BY <2>1, PushFrame
<1>3. Append(<<>>, Task) = <<Task>>
    OBVIOUS
<1>. QED
    BY <1>1, <1>2, <1>3

-----------------------------------------------------------------------------
(* The callers a step leaves.                                               *)

LEMMA CallbackOps ==
    /\ \A op \in Ops : op.ev \notin {"task", "start"}
    /\ \A o \in Objects : Op(o, "error").ev \notin {"task", "start"}
    BY DEF Ops, Op

(* A callback begins, from a stack that is st without it.                   *)
LEMMA CallersPush ==
    ASSUME NEW st \in Seq(Contexts), NEW e \in Ops \union ErrorOps,
           e.ev # "start", stack' = Append(st, Callback(e, e.o \in stop_))
    PROVE  Callers(stack)' = Append(Callers(st), e.o)
<1>1. PICK f \in Contexts : f = Callback(e, e.o \in stop_) /\ f.op = e
    BY NowFacts
<1>2. e.ev # "task"
    BY DEF Ops, ErrorOps
<1>3. IsCallback(f)
    BY <1>1, <1>2 DEF IsCallback
<1>4. Callers(Append(st, f)) = Append(Callers(st), f.op.o)
    BY <1>3, PushCallback
<1>. QED
    BY <1>1, <1>4

LEMMA CallersPost ==
    ASSUME NEW op \in Ops, NEW st \in Seq(Contexts), Posts(op, st)
    PROVE  \/ Callers(stack)' = Callers(st)
           \/ Callers(stack)' = Append(Callers(st), op.o)
<1>1. CASE stack' = st
    BY <1>1
<1>2. ASSUME NEW e \in {op, Error(op)},
             stack' = Append(st, Callback(e, e.o \in stop_))
      PROVE  Callers(stack)' = Append(Callers(st), op.o)
  <2>1. e \in Ops \union ErrorOps /\ e.o = op.o /\ e.ev # "start"
    BY <1>2, ErrorFacts, CallbackOps
  <2>. QED
    BY <1>2, <2>1, CallersPush
<1>. QED
    BY <1>1, <1>2, PostFacts

LEMMA CallersPopped ==
    ASSUME IndInv, stack # <<>>
    PROVE  /\ IsCallback(Top) =>
                 Callers(stack) = Append(Callers(Popped), Top.op.o)
           /\ ~IsCallback(Top) => Callers(stack) = Callers(Popped)
<1>1. /\ Popped \in Seq(Contexts) /\ Top \in Contexts
      /\ stack = Append(Popped, Top)
    BY PoppedUnderTop DEF Popped, Top, IndInv
<1>. QED
    BY <1>1, PushCallback, PushFrame

LEMMA CallersWritten ==
    ASSUME IndInv, stack # <<>>, NEW s \in Streams
    PROVE  Callers(Written(s)) = Callers(stack)
<1>1. /\ stack \in Seq(Contexts) /\ Written(s) \in Seq(Contexts)
      /\ Len(stack) \in 1 .. Len(stack) /\ DOMAIN stack = 1 .. Len(stack)
    BY WrittenFacts, LenProperties, EmptySeq DEF IndInv
<1>2. DOMAIN Written(s) = DOMAIN stack
    BY DEF Written
<1>3. ASSUME NEW i \in DOMAIN stack
      PROVE  Written(s)[i].op = stack[i].op
  <2>1. CASE i # Len(stack)
    BY <1>3, <2>1 DEF Written
  <2>2. CASE i = Len(stack)
    <3>1. Written(s)[i] = [stack[i] EXCEPT !.late = @ /\ Top.op.o # s]
      BY <1>1, <2>2 DEF Written
    <3>2. stack[i] \in Contexts
      BY <1>1, <1>3, ElementOfSeq
    <3>3. stack[i] = Task \/ stack[i] \in [op : Ops \union ErrorOps, late : BOOLEAN]
      BY <3>2 DEF Contexts
    <3>4. PICK v : Written(s)[i] = [stack[i] EXCEPT !.late = v]
      BY <3>1
    <3>. QED
      BY <3>3, <3>4 DEF Task, Callback
  <2>. QED
    BY <2>1, <2>2
<1>. QED
    BY <1>2, <1>3, SameCallers

-----------------------------------------------------------------------------
(* The state of CloseProtocol, and its steps.                               *)

StatusOf(o) ==
    IF life[o] # "live" THEN IF life[o] = "deleted" THEN "closed" ELSE "new"
    ELSE IF o \in close_ THEN "closing" ELSE "open"

status == [o \in Objects |-> StatusOf(o)]

running == Callers(stack)

(* A step that moves at most one object.                                    *)
LEMMA StatusMoves ==
    /\ UNCHANGED <<life, close_>> => status' = status
    /\ \A o \in Objects :
          (\A p \in Objects : p # o => StatusOf(p)' = StatusOf(p)) =>
              status' = [status EXCEPT ![o] = StatusOf(o)']
<1>1. UNCHANGED <<life, close_>> => status' = status
    BY DEF status, StatusOf
<1>2. ASSUME NEW o \in Objects,
             \A p \in Objects : p # o => StatusOf(p)' = StatusOf(p)
      PROVE  status' = [status EXCEPT ![o] = StatusOf(o)']
    BY <1>2 DEF status
<1>. QED
    BY <1>1, <1>2

LEMMA PromiseStart ==
    ASSUME IndInv, NEW o \in Objects, life[o] = "new",
           life' = [life EXCEPT ![o] = "live"],
           UNCHANGED running \/ running' = Append(running, o),
           UNCHANGED <<stop_, close_>>
    PROVE  Promise!Start(o)
<1>1. life \in [Objects -> {"new", "live", "deleted", "unused"}]
    BY DEF IndInv, TypeOK, ReactorType
<1>2. o \notin close_
    BY DEF IndInv, LifeInv, TypeOK, ReactorType
<1>3. status[o] = "new" /\ StatusOf(o)' = "open"
    BY <1>1, <1>2 DEF status, StatusOf
<1>4. status' = [status EXCEPT ![o] = "open"]
  <2>1. \A p \in Objects : p # o => StatusOf(p)' = StatusOf(p)
    BY <1>1 DEF StatusOf
  <2>. QED
    BY <1>3, <2>1, StatusMoves
<1>. QED
    BY <1>3, <1>4 DEF Promise!Start, status, StatusOf, running

LEMMA PromiseStop ==
    ASSUME IndInv, NEW o \in Objects, life[o] = "live", o \notin stop_,
           stop_' = stop_ \union {o}, close_' \in {close_, close_ \union {o}},
           UNCHANGED <<life, stack>>
    PROVE  Promise!Stop(o)
<1>1. o \notin close_
    BY DEF IndInv, TypeOK, ReactorType
<1>2. status[o] = "open"
    BY <1>1 DEF status, StatusOf
<1>3. \/ status' = [status EXCEPT ![o] = "closing"]
      \/ UNCHANGED status
  <2>1. CASE close_' = close_
    BY <2>1, StatusMoves
  <2>2. CASE close_' = close_ \union {o}
    <3>1. /\ StatusOf(o)' = "closing"
          /\ \A p \in Objects : p # o => StatusOf(p)' = StatusOf(p)
      BY <2>2 DEF StatusOf
    <3>. QED
      BY <3>1, StatusMoves
  <2>. QED
    BY <2>1, <2>2
<1>. QED
    BY <1>2, <1>3 DEF Promise!Stop, status, StatusOf

LEMMA PromiseCallback ==
    ASSUME NEW o \in Objects, life[o] = "live",
           running' = Append(running, o),
           UNCHANGED <<life, stop_, close_>>
    PROVE  Promise!Callback(o)
<1>1. status[o] \in {"open", "closing"} /\ UNCHANGED status
    BY StatusMoves DEF status, StatusOf
<1>. QED
    BY <1>1 DEF Promise!Callback, status, StatusOf, running

LEMMA PromiseReturn ==
    ASSUME IndInv, NEW o \in Objects, life[o] = "live", stack # <<>>,
           IsCallback(Top), Top.op.o = o, stack' = Popped,
           \/ UNCHANGED close_
           \/ o \in stop_ \ close_ /\ close_' = close_ \union {o},
           UNCHANGED <<life, stop_>>
    PROVE  Promise!Return(o)
<1>1. running = Append(running', o)
    BY CallersPopped DEF running
<1>2. /\ running # <<>> /\ running[Len(running)] = o
      /\ running' = SubSeq(running, 1, Len(running) - 1)
  <2>1. Popped \in Seq(Contexts)
    BY TopFacts
  <2>2. PICK c : c = Callers(Popped)
    OBVIOUS
  <2>3. PICK T : o \in T /\ c \in Seq(T)
    BY <2>1, <2>2, CallersAreSeq
  <2>4. running = Append(c, o) /\ running' = c
    BY <1>1, <2>2 DEF running
  <2>. QED
    BY <2>3, <2>4, PushedOnTop
<1>3. \/ UNCHANGED status
      \/ /\ status[o] = "open"
         /\ o \in stop_
         /\ status' = [status EXCEPT ![o] = "closing"]
  <2>1. CASE UNCHANGED close_
    BY <2>1, StatusMoves
  <2>2. CASE o \in stop_ \ close_ /\ close_' = close_ \union {o}
    <3>1. /\ StatusOf(o)' = "closing"
          /\ \A p \in Objects : p # o => StatusOf(p)' = StatusOf(p)
      BY <2>2 DEF StatusOf
    <3>2. status[o] = "open"
      BY <2>2 DEF status, StatusOf
    <3>. QED
      BY <2>2, <3>1, <3>2, StatusMoves
  <2>. QED
    BY <2>1, <2>2
<1>. QED
    BY <1>2, <1>3 DEF Promise!Return, status, StatusOf, running

LEMMA PromiseClose ==
    ASSUME IndInv, RunClose, UNCHANGED <<stop_, close_>>,
           NEW o \in Objects, o = Head(pendings1)
    PROVE  Promise!Close(o)
<1>1. /\ stack = <<>> /\ stack' = <<Task>> /\ pendings1 # <<>>
      /\ life' = [life EXCEPT ![o] = "deleted"]
    BY DEF RunClose, AtLoop
<1>2. o \in close_ /\ life[o] = "live"
    BY <1>1, FrontClosed
<1>3. life \in [Objects -> {"new", "live", "deleted", "unused"}]
    BY DEF IndInv, TypeOK, ReactorType
<1>4. running = <<>> /\ running' = <<>>
    BY <1>1, NoCallers DEF running
<1>5. status[o] = "closing" /\ status' = [status EXCEPT ![o] = "closed"]
  <2>1. /\ StatusOf(o)' = "closed"
        /\ \A p \in Objects : p # o => StatusOf(p)' = StatusOf(p)
    BY <1>1, <1>2, <1>3 DEF StatusOf
  <2>2. status[o] = "closing"
    BY <1>2 DEF status, StatusOf
  <2>. QED
    BY <1>2, <2>1, <2>2, StatusMoves
<1>. QED
    BY <1>4, <1>5 DEF Promise!Close, status, StatusOf, running

(* The callback of an operation returns: it is the innermost.               *)
LEMMA PromiseReturns ==
    ASSUME IndInv, NEW op \in Ops, Returns(op), stack' = Popped,
           \/ UNCHANGED close_
           \/ op.o \in stop_ /\ close_' = close_ \union {op.o},
           UNCHANGED <<life, stop_>>
    PROVE  Promise!Return(op.o)
<1>1. /\ stack # <<>> /\ Top.op = op /\ life[op.o] = "live"
      /\ op.o \in Objects
    BY ReturnFacts, OpFacts DEF Returns
<1>2. IsCallback(Top)
    BY <1>1, CallbackOps DEF IsCallback
<1>3. \/ UNCHANGED close_
      \/ op.o \in stop_ \ close_ /\ close_' = close_ \union {op.o}
    OBVIOUS
<1>. QED
    BY <1>1, <1>2, <1>3, PromiseReturn

(* A post from a stack that has the callers there are.                      *)
LEMMA PromisePost ==
    ASSUME NEW op \in Ops, NEW st \in Seq(Contexts),
           Callers(st) = Callers(stack), Posts(op, st), life[op.o] = "live",
           UNCHANGED <<life, stop_, close_>>
    PROVE  Promise!Callback(op.o) \/ UNCHANGED <<life, stop_, close_, running>>
<1>1. UNCHANGED running \/ running' = Append(running, op.o)
    BY CallersPost DEF running
<1>. QED
    BY <1>1, PromiseCallback, OpFacts

(* A post by a callback of the object as it returns: nothing has changed if *)
(* it calls back at once, and the callback has returned if it does not.     *)
LEMMA PromisePostAgain ==
    ASSUME IndInv, NEW op \in Ops, Returns(op), Posts(op, Popped),
           UNCHANGED <<life, stop_, close_>>
    PROVE  Promise!Return(op.o) \/ UNCHANGED <<life, stop_, close_, running>>
<1>1. stack # <<>> /\ Top.op = op /\ Popped \in Seq(Contexts)
    BY ReturnFacts, TopFacts DEF Returns
<1>2. IsCallback(Top)
    BY <1>1, CallbackOps DEF IsCallback
<1>3. Callers(stack) = Append(Callers(Popped), op.o)
    BY <1>1, <1>2, CallersPopped
<1>4. CASE stack' = Popped
    BY <1>4, PromiseReturns
<1>5. CASE UNCHANGED running
    BY <1>5
<1>6. ASSUME NEW e \in {op, Error(op)},
             stack' = Append(Popped, Callback(e, e.o \in stop_))
      PROVE  UNCHANGED running
  <2>1. e \in Ops \union ErrorOps /\ e.o = op.o /\ e.ev # "start"
    BY <1>6, ErrorFacts, CallbackOps
  <2>2. Callers(stack)' = Append(Callers(Popped), e.o)
    BY <1>1, <1>6, <2>1, CallersPush
  <2>. QED
    BY <1>3, <2>1, <2>2 DEF running
<1>. QED
    BY <1>1, <1>4, <1>5, <1>6, PostFacts

(* A callback for a packet is the only one.                                 *)
LEMMA PromiseEnter ==
    ASSUME IndInv, NEW op \in Ops, Visit(op), Enter(op)
    PROVE  Promise!Callback(op.o)
<1>1. /\ stack = <<>> /\ life[op.o] = "live" /\ op.o \in Objects
      /\ UNCHANGED <<life, stop_, close_>>
    BY OpFacts DEF Visit, Taken, AtLoop
<1>2. /\ stack' = Append(<<>>, Callback(op, op.o \in stop_))
      /\ <<>> \in Seq(Contexts)
    BY EmptySeq DEF Enter
<1>3. Callers(stack)' = Append(Callers(<<>>), op.o)
    BY <1>2, CallbackOps, CallersPush
<1>4. running' = Append(running, op.o)
    BY <1>1, <1>3 DEF running
<1>. QED
    BY <1>1, <1>4, PromiseCallback

LEMMA PromiseStep ==
    ASSUME IndInv, [Next]_vars
    PROVE  [Promise!Next]_(Promise!vars)
<1>q. UNCHANGED <<life, stop_, close_, running>> => UNCHANGED Promise!vars
    BY DEF Promise!vars, running
<1>n. ASSUME NEW o \in Objects,
             \/ Promise!Start(o) \/ Promise!Stop(o) \/ Promise!Callback(o)
             \/ Promise!Return(o) \/ Promise!Close(o)
      PROVE  Promise!Next
    BY <1>n DEF Promise!Next
<1>a. stack \in Seq(Contexts)
    BY DEF IndInv
<1>s. UNCHANGED stack => UNCHANGED running
    BY DEF running
<1>1. ASSUME NEW s \in Streams, StreamStep(s)
      PROVE  [Promise!Next]_(Promise!vars)
  <2>0. /\ Read(s) \in Ops /\ Read(s).o = s
        /\ Write(s) \in Ops /\ Write(s).o = s
        /\ s \in Objects
    BY OpFacts, Disjoint
  <2>1. CASE StreamStart(s)
    BY <2>0, <2>1, <1>n, <1>s, PromiseStart DEF StreamStart
  <2>2. CASE StreamRead(s)
    <3>1. Posts(Read(s), stack) /\ life[s] = "live"
      BY <2>2 DEF StreamRead, Posts, Calls
    <3>2. UNCHANGED <<life, stop_, close_>>
      BY <2>2 DEF StreamRead
    <3>. QED
      BY <2>0, <3>1, <3>2, <1>a, <1>n, <1>q, PromisePost
  <2>3. CASE StreamWrite(s)
    <3>1. Posts(Write(s), Written(s)) /\ life[s] = "live" /\ stack # <<>>
      BY <2>3 DEF StreamWrite, PostWrite, Posts, Calls, InUser
    <3>2. UNCHANGED <<life, stop_, close_>>
      BY <2>3 DEF StreamWrite
    <3>3. /\ Written(s) \in Seq(Contexts)
          /\ Callers(Written(s)) = Callers(stack)
      BY <3>1, WrittenFacts, CallersWritten
    <3>. QED
      BY <2>0, <3>1, <3>2, <3>3, <1>n, <1>q, PromisePost
  <2>4. CASE StreamStop(s)
    <3>1. close_' \in {close_, close_ \union {s}}
      BY <2>4 DEF StreamStop, NoClose, StreamPostToClose, PostToClose
    <3>. QED
      BY <2>0, <2>4, <3>1, <1>n, PromiseStop DEF StreamStop, Calls
  <2>5. CASE RunRead(s)
    BY <2>0, <2>5, <1>n, PromiseEnter DEF RunRead
  <2>6. CASE RunWrite(s)
    <3>1. CASE Enter(Write(s))
      BY <2>0, <2>6, <3>1, <1>n, PromiseEnter DEF RunWrite
    <3>2. CASE UNCHANGED stack
      BY <2>6, <3>2, <1>q, <1>s DEF RunWrite, Visit, Taken
    <3>. QED
      BY <2>6, <3>1, <3>2 DEF RunWrite
  <2>7. CASE RunReadReturn(s)
    <3>1. CASE NoPost(Popped)
      <4>1. \/ UNCHANGED close_
            \/ s \in stop_ /\ close_' = close_ \union {s}
        BY <2>7 DEF RunReadReturn, NoClose, StreamPostToClose, PostToClose,
                    ClosesAfterRead
      <4>2. stack' = Popped /\ UNCHANGED <<life, stop_>> /\ Returns(Read(s))
        BY <2>7, <3>1 DEF RunReadReturn, NoPost, CallNone
      <4>. QED
        BY <2>0, <4>1, <4>2, <1>n, PromiseReturns
    <3>2. CASE PostRead(s, Popped) /\ NoClose
      <4>1. Posts(Read(s), Popped)
        BY <3>2 DEF PostRead, Posts
      <4>2. UNCHANGED <<life, stop_, close_>> /\ Returns(Read(s))
        BY <2>7, <3>2 DEF RunReadReturn, NoClose
      <4>. QED
        BY <2>0, <4>1, <4>2, <1>n, <1>q, PromisePostAgain
    <3>. QED
      BY <2>7, <3>1, <3>2 DEF RunReadReturn
  <2>8. CASE RunWriteReturn(s)
    <3>1. \/ UNCHANGED close_
          \/ s \in stop_ /\ close_' = close_ \union {s}
      BY <2>8 DEF RunWriteReturn, NoClose, StreamPostToClose, PostToClose,
                  ClosesAfterWrite
    <3>2. stack' = Popped /\ UNCHANGED <<life, stop_>> /\ Returns(Write(s))
      BY <2>8 DEF RunWriteReturn, NoPost, CallNone
    <3>. QED
      BY <2>0, <3>1, <3>2, <1>n, PromiseReturns
  <2>. QED
    BY <1>1, <2>1, <2>2, <2>3, <2>4, <2>5, <2>6, <2>7, <2>8
       DEF StreamStep, StreamCall, StreamHandler
<1>2. ASSUME NEW a \in Acceptors, AcceptorStep(a)
      PROVE  [Promise!Next]_(Promise!vars)
  <2>0. /\ a \in Objects
        /\ Op(a, "start") \in ErrorOps /\ Op(a, "error") \in ErrorOps
        /\ Op(a, "start").ev = "start" /\ Op(a, "error").ev = "error"
        /\ Op(a, "error").o = a
    BY ErrorFacts, Disjoint
  <2>1. CASE AcceptorStart(a)
    <3>1. CASE stack' = Append(stack, Callback(Op(a, "start"), FALSE))
      <4>1. PICK f \in Contexts :
                f = Callback(Op(a, "start"), FALSE) /\ f.op = Op(a, "start")
        BY <2>0, ContextFacts
      <4>2. ~IsCallback(f)
        BY <2>0, <4>1 DEF IsCallback
      <4>3. UNCHANGED running
        BY <3>1, <4>1, <4>2, <1>a, PushFrame DEF running
      <4>. QED
        BY <2>0, <2>1, <4>3, <1>n, PromiseStart DEF AcceptorStart
    <3>2. CASE CallInline(stack, Op(a, "error"))
      <4>1. stack' = Append(stack, Callback(Op(a, "error"),
                                            Op(a, "error").o \in stop_))
        BY <3>2 DEF CallInline
      <4>2. running' = Append(running, a)
        BY <2>0, <4>1, <1>a, CallersPush DEF running
      <4>. QED
        BY <2>0, <2>1, <4>2, <1>n, PromiseStart DEF AcceptorStart
    <3>. QED
      BY <2>1, <3>1, <3>2 DEF AcceptorStart, AcceptorStartFails, CallNone
  <2>2. CASE AcceptorStop(a)
    <3>1. close_' \in {close_, close_ \union {a}}
      BY <2>2 DEF AcceptorStop, NoClose, AcceptorPostClose, PostToClose
    <3>. QED
      BY <2>0, <2>2, <3>1, <1>n, PromiseStop DEF AcceptorStop, Calls
  <2>3. CASE StartPosts(a)
    <3>1. /\ stack # <<>> /\ Top.op = Op(a, "start")
          /\ UNCHANGED <<life, stop_, close_>>
      BY <2>3 DEF StartPosts
    <3>2. /\ Popped \in Seq(Contexts) /\ Callers(Popped) = Callers(stack)
          /\ life[a] = "live"
      <4>1. ~IsCallback(Top) /\ On(Op(a, "start"), stack)
        BY <2>0, <3>1, TopFacts DEF IsCallback
      <4>2. Op(a, "start").o = a
        BY DEF Op
      <4>. QED
        BY <2>0, <3>1, <4>1, <4>2, TopFacts, CallersPopped DEF IndInv, LifeInv
    <3>3. CASE NoPost(Popped)
      BY <3>1, <3>2, <3>3, <1>q DEF NoPost, CallNone, running
    <3>4. CASE /\ tried[a] < NSlots
               /\ PostAcceptor(Accept(a, tried[a] + 1), stack, Popped)
      <4>1. tried[a] + 1 \in 1 .. NSlots
        BY <3>4, WinReactorAssumption DEF IndInv, TypeOK
      <4>2. PICK op \in Ops : op = Accept(a, tried[a] + 1) /\ op.o = a
        BY <4>1, OpFacts
      <4>3. Posts(op, stack) \/ Posts(op, Popped)
        BY <3>4, <4>2 DEF PostAcceptor, Posts
      <4>. QED
        BY <2>0, <3>1, <3>2, <4>2, <4>3, <1>a, <1>n, <1>q, PromisePost
    <3>. QED
      BY <2>3, <3>3, <3>4 DEF StartPosts
  <2>4. ASSUME NEW op \in AcceptOps(a), RunAccept(op)
        PROVE  [Promise!Next]_(Promise!vars)
    BY <2>0, <2>4, <1>n, OpFacts, PromiseEnter DEF RunAccept
  <2>5. ASSUME NEW op \in AcceptOps(a), RunAcceptReturn(op)
        PROVE  [Promise!Next]_(Promise!vars)
    <3>0. op \in Ops /\ op.o = a
      BY OpFacts
    <3>1. CASE NoPost(Popped)
      <4>1. \/ UNCHANGED close_
            \/ a \in stop_ /\ close_' = close_ \union {a}
        BY <2>5, <3>0 DEF RunAcceptReturn, NoClose, AcceptorPostClose,
                          PostToClose
      <4>2. stack' = Popped /\ UNCHANGED <<life, stop_>> /\ Returns(op)
        BY <2>5, <3>1 DEF RunAcceptReturn, NoPost, CallNone
      <4>. QED
        BY <2>0, <3>0, <4>1, <4>2, <1>n, PromiseReturns
    <3>2. CASE PostAcceptor(op, Popped, Popped) /\ NoClose
      <4>1. Posts(op, Popped)
        BY <3>2 DEF PostAcceptor, Posts
      <4>2. UNCHANGED <<life, stop_, close_>> /\ Returns(op)
        BY <2>5, <3>2 DEF RunAcceptReturn, NoClose
      <4>. QED
        BY <2>0, <3>0, <4>1, <4>2, <1>n, <1>q, PromisePostAgain
    <3>. QED
      BY <2>5, <3>1, <3>2 DEF RunAcceptReturn
  <2>. QED
    BY <1>2, <2>1, <2>2, <2>3, <2>4, <2>5
       DEF AcceptorStep, AcceptorCall, AcceptorHandler
<1>3. ASSUME NEW c \in Clients, ClientStep(c)
      PROVE  [Promise!Next]_(Promise!vars)
  <2>0. /\ c \in Objects /\ Connect(c) \in Ops /\ Connect(c).o = c
        /\ Error(Connect(c)) \in ErrorOps
        /\ Error(Connect(c)).ev = "error" /\ Error(Connect(c)).o = c
    BY OpFacts, ErrorFacts, Disjoint
  <2>1. CASE ClientStart(c)
    <3>1. CASE CallNone(stack)
      BY <2>0, <2>1, <3>1, <1>n, <1>s, PromiseStart DEF ClientStart, CallNone
    <3>2. ASSUME NEW e \in {Connect(c), Error(Connect(c))},
                 CallInline(stack, e)
          PROVE  [Promise!Next]_(Promise!vars)
      <4>1. e \in Ops \union ErrorOps /\ e.o = c /\ e.ev # "start"
        BY <2>0, <3>2, CallbackOps
      <4>2. stack' = Append(stack, Callback(e, e.o \in stop_))
        BY <3>2 DEF CallInline
      <4>3. running' = Append(running, c)
        BY <4>1, <4>2, <1>a, CallersPush DEF running
      <4>. QED
        BY <2>0, <2>1, <4>3, <1>n, PromiseStart DEF ClientStart
    <3>. QED
      BY <2>1, <3>1, <3>2 DEF ClientStart
  <2>2. CASE ClientStop(c)
    <3>1. close_' \in {close_, close_ \union {c}}
      BY <2>2 DEF ClientStop, NoClose, ClientPostToClose, PostToClose
    <3>. QED
      BY <2>0, <2>2, <3>1, <1>n, PromiseStop DEF ClientStop, Calls
  <2>3. CASE RunConnect(c)
    BY <2>0, <2>3, <1>n, PromiseEnter DEF RunConnect
  <2>4. CASE RunConnectReturn(c)
    <3>1. \/ UNCHANGED close_
          \/ c \in stop_ /\ close_' = close_ \union {c}
      BY <2>4 DEF RunConnectReturn, NoClose, ClientPostToClose, PostToClose
    <3>2. stack' = Popped /\ UNCHANGED <<life, stop_>> /\ Returns(Connect(c))
      BY <2>4 DEF RunConnectReturn, NoPost, CallNone
    <3>. QED
      BY <2>0, <3>1, <3>2, <1>n, PromiseReturns
  <2>. QED
    BY <1>3, <2>1, <2>2, <2>3, <2>4
       DEF ClientStep, ClientCall, ClientHandler
<1>4. CASE FrameStep
  <2>0. UNCHANGED <<stop_, close_>>
    BY <1>4 DEF FrameStep, Frame
  <2>1. CASE TakePackets \/ VisitDeleted \/ SwapLocal \/ DoneLocal
    BY <2>0, <2>1, <1>q, <1>s
       DEF TakePackets, VisitDeleted, SwapLocal, DoneLocal
  <2>2. CASE RunMux \/ OnTimer
    <3>1. /\ stack = <<>> /\ stack' \in {<<>>, <<Task>>}
          /\ UNCHANGED life
      BY <2>2 DEF RunMux, OnTimer, AtLoop
    <3>2. UNCHANGED running
      BY <3>1, NoCallers DEF running
    <3>. QED
      BY <2>0, <3>1, <3>2, <1>q
  <2>3. CASE RunClose
    <3>1. PICK o \in Objects : o = Head(pendings1)
      BY <2>3, FrontClosed DEF RunClose, IndInv, TypeOK, ReactorType
    <3>2. Promise!Close(o)
      BY <2>0, <2>3, <3>1, PromiseClose
    <3>. QED
      BY <3>2, <1>n
  <2>4. CASE PlainReturn
    <3>1. /\ stack # <<>> /\ stack' = Popped /\ UNCHANGED life
          /\ Top.op.ev \in {"task", "error"}
          /\ Popped \in Seq(Contexts) /\ Top \in Contexts
          /\ On(Top.op, stack)
      BY <2>4, TopFacts DEF PlainReturn, InUser
    <3>2. CASE Top.op.ev = "task"
      <4>1. ~IsCallback(Top)
        BY <3>2 DEF IsCallback
      <4>2. UNCHANGED running
        BY <3>1, <4>1, CallersPopped DEF running
      <4>. QED
        BY <2>0, <3>1, <4>2, <1>q
    <3>3. CASE Top.op.ev = "error"
      <4>1. IsCallback(Top) /\ Top # Task
        BY <3>3, ContextFacts DEF IsCallback
      <4>2. Top.op.o \in Objects
        BY <3>1, <4>1, ContextFacts, OpFacts DEF ErrorOps
      <4>3. life[Top.op.o] = "live"
        BY <3>1, <4>2 DEF IndInv, LifeInv
      <4>. QED
        BY <2>0, <3>1, <4>1, <4>2, <4>3, <1>n, PromiseReturn
    <3>. QED
      BY <3>1, <3>2, <3>3
  <2>. QED
    BY <1>4, <2>1, <2>2, <2>3, <2>4 DEF FrameStep, Frame
<1>5. ASSUME NEW op \in Ops, SystemStep(op)
      PROVE  [Promise!Next]_(Promise!vars)
    BY <1>5, <1>q, <1>s DEF SystemStep, KPacket
<1>6. CASE UNCHANGED vars
    BY <1>6, <1>q, <1>s DEF vars, reactorVars
<1>. QED
    BY <1>1, <1>2, <1>3, <1>4, <1>5, <1>6, StepCases

(* However deep callbacks are nested, an object closes only after stop(),   *)
(* and its evClose comes once, inside no other callback, and is its last    *)
(* (README.md:55).                                                          *)
THEOREM ObjectsKeepPromise == Spec => CloseSafety
<1>1. Init => Promise!Init
  <2> SUFFICES ASSUME Init PROVE Promise!Init
      OBVIOUS
  <2>1. PICK scene \in Scenes : ReactorInit(scene)
    BY DEF Init
  <2>2. \A o \in Objects : life[o] # "live" /\ life[o] # "deleted"
    BY <2>1 DEF ReactorInit
  <2>3. stop_ = {} /\ Callers(stack) = <<>>
    BY <2>1, NoCallers DEF ReactorInit
  <2>. QED
    BY <2>2, <2>3 DEF Promise!Init
<1>2. IndInv /\ [Next]_vars => [Promise!Next]_(Promise!vars)
    BY PromiseStep
<1>. QED
    BY <1>1, <1>2, InductiveInvariant, PTL
       DEF Spec, CloseSafety, Promise!SafeSpec
=============================================================================
