--------------------------- MODULE LoopTimerProofs ---------------------------
(***************************************************************************)
(* Proofs about LoopTimer, for both platforms and any number of threads,   *)
(* timers, delays and times.                                               *)
(*                                                                         *)
(* A timer's id is in one place at a time and only moves on: taken by its  *)
(* thread, queued, in the batch, in the heap, about to run, run.  That is  *)
(* PlaceInv, from which the cancellation and the single run follow.  That  *)
(* ids of one thread and one delay keep their order on the way is OrderInv.*)
(***************************************************************************)
EXTENDS LoopTimer, SequenceTheorems, WellFoundedInduction, TLAPS

-----------------------------------------------------------------------------
(* Queues of closures.                                                      *)

Adds(q) == {i \in DOMAIN q : q[i].op = "add"}

AddIds(q)   == {q[i].id : i \in Adds(q)}
EraseIds(q) == {q[i].id : i \in DOMAIN q \ Adds(q)}

Distinct(q) == \A i, j \in Adds(q) : q[i].id = q[j].id => i = j

LEMMA EmptyQueue ==
    AddIds(<<>>) = {} /\ EraseIds(<<>>) = {} /\ Distinct(<<>>)
BY EmptySeq DEF AddIds, EraseIds, Distinct, Adds

LEMMA QueueAppend ==
    ASSUME NEW q \in Seq(Closures), NEW c \in Closures
    PROVE  /\ Append(q, c) \in Seq(Closures)
           /\ c.op = "add" =>
                 /\ AddIds(Append(q, c)) = AddIds(q) \union {c.id}
                 /\ EraseIds(Append(q, c)) = EraseIds(q)
                 /\ Distinct(q) /\ c.id \notin AddIds(q) =>
                       Distinct(Append(q, c))
           /\ c.op = "erase" =>
                 /\ AddIds(Append(q, c)) = AddIds(q)
                 /\ EraseIds(Append(q, c)) = EraseIds(q) \union {c.id}
                 /\ Distinct(q) => Distinct(Append(q, c))
<1>1. /\ Append(q, c) \in Seq(Closures)
      /\ Len(q) \in Nat /\ DOMAIN q = 1 .. Len(q)
      /\ DOMAIN Append(q, c) = 1 .. Len(q) + 1
      /\ \A i \in 1 .. Len(q) : Append(q, c)[i] = q[i]
      /\ Append(q, c)[Len(q) + 1] = c
    BY AppendProperties, LenProperties
<1>2. DOMAIN Append(q, c) = DOMAIN q \union {Len(q) + 1}
    BY <1>1
<1>3. Len(q) + 1 \notin DOMAIN q
    BY <1>1
<1>4. CASE c.op = "add"
  <2>1. Adds(Append(q, c)) = Adds(q) \union {Len(q) + 1}
    BY <1>1, <1>2, <1>3, <1>4 DEF Adds
  <2>2. AddIds(Append(q, c)) = AddIds(q) \union {c.id}
    BY <1>1, <1>3, <2>1 DEF AddIds, Adds
  <2>3. EraseIds(Append(q, c)) = EraseIds(q)
    BY <1>1, <1>2, <1>3, <2>1 DEF EraseIds, Adds
  <2>4. ASSUME Distinct(q), c.id \notin AddIds(q)
        PROVE  Distinct(Append(q, c))
    BY <1>1, <1>3, <2>1, <2>4 DEF Distinct, AddIds, Adds
  <2>. QED
    BY <1>1, <1>4, <2>2, <2>3, <2>4
<1>5. CASE c.op = "erase"
  <2>1. Adds(Append(q, c)) = Adds(q)
    BY <1>1, <1>2, <1>3, <1>5 DEF Adds
  <2>2. AddIds(Append(q, c)) = AddIds(q)
    BY <1>1, <2>1 DEF AddIds, Adds
  <2>3. EraseIds(Append(q, c)) = EraseIds(q) \union {c.id}
    BY <1>1, <1>2, <1>3, <2>1 DEF EraseIds, Adds
  <2>4. Distinct(q) => Distinct(Append(q, c))
    BY <1>1, <2>1 DEF Distinct, Adds
  <2>. QED
    BY <1>1, <1>5, <2>2, <2>3, <2>4
<1>. QED
    BY <1>1, <1>4, <1>5

LEMMA QueueTail ==
    ASSUME NEW q \in Seq(Closures), q # <<>>
    PROVE  /\ Head(q) \in Closures
           /\ Tail(q) \in Seq(Closures)
           /\ AddIds(Tail(q)) \subseteq AddIds(q)
           /\ EraseIds(Tail(q)) \subseteq EraseIds(q)
           /\ Distinct(q) => Distinct(Tail(q))
           /\ Head(q).op = "add" =>
                 /\ Head(q).id \in AddIds(q)
                 /\ AddIds(q) = AddIds(Tail(q)) \union {Head(q).id}
                 /\ Distinct(q) => Head(q).id \notin AddIds(Tail(q))
           /\ Head(q).op = "erase" =>
                 /\ Head(q).id \in EraseIds(q)
                 /\ AddIds(q) = AddIds(Tail(q))
<1>1. /\ Head(q) \in Closures
      /\ Tail(q) \in Seq(Closures)
      /\ Head(q) = q[1]
      /\ Len(q) \in Nat \ {0} /\ DOMAIN q = 1 .. Len(q)
      /\ DOMAIN Tail(q) = 1 .. Len(q) - 1
      /\ \A i \in 1 .. Len(q) - 1 : Tail(q)[i] = q[i + 1]
    BY HeadTailProperties, LenProperties, EmptySeq
<1>2. \A i \in DOMAIN q : i = 1 \/ (i - 1 \in DOMAIN Tail(q) /\ Tail(q)[i - 1] = q[i])
    BY <1>1
<1>3. \A i \in DOMAIN Tail(q) : i + 1 \in DOMAIN q /\ Tail(q)[i] = q[i + 1]
    BY <1>1
<1>4. 1 \in DOMAIN q /\ 0 \notin DOMAIN Tail(q)
    BY <1>1
<1>5. \A i \in Adds(Tail(q)) : i + 1 \in Adds(q) /\ Tail(q)[i].id = q[i + 1].id
    BY <1>3 DEF Adds
<1>a. \A i \in Adds(q) :
         i = 1 \/ (i - 1 \in Adds(Tail(q)) /\ Tail(q)[i - 1].id = q[i].id)
    BY <1>2 DEF Adds
<1>6. AddIds(Tail(q)) \subseteq AddIds(q)
    BY <1>5 DEF AddIds
<1>7. EraseIds(Tail(q)) \subseteq EraseIds(q)
    BY <1>3 DEF EraseIds, Adds
<1>8. Distinct(q) => Distinct(Tail(q))
  <2>. SUFFICES ASSUME Distinct(q),
                       NEW i \in Adds(Tail(q)), NEW j \in Adds(Tail(q)),
                       Tail(q)[i].id = Tail(q)[j].id
                PROVE  i = j
    BY DEF Distinct
  <2>1. /\ i + 1 \in Adds(q) /\ j + 1 \in Adds(q)
        /\ q[i + 1].id = q[j + 1].id
    BY <1>5
  <2>2. i + 1 = j + 1
    BY <2>1 DEF Distinct
  <2>. QED
    BY <1>1, <2>2 DEF Adds
<1>9. ASSUME Head(q).op = "add"
      PROVE  /\ Head(q).id \in AddIds(q)
             /\ AddIds(q) = AddIds(Tail(q)) \union {Head(q).id}
             /\ Distinct(q) => Head(q).id \notin AddIds(Tail(q))
  <2>1. 1 \in Adds(q)
    BY <1>1, <1>4, <1>9 DEF Adds
  <2>2. Head(q).id \in AddIds(q)
    BY <1>1, <2>1 DEF AddIds
  <2>3. AddIds(q) \subseteq AddIds(Tail(q)) \union {Head(q).id}
    <3>. SUFFICES ASSUME NEW i \in Adds(q)
                  PROVE  q[i].id \in AddIds(Tail(q)) \union {Head(q).id}
      BY DEF AddIds
    <3>1. CASE i = 1
      BY <1>1, <3>1
    <3>2. CASE i # 1
      BY <1>a, <3>2 DEF AddIds
    <3>. QED
      BY <3>1, <3>2
  <2>4. ASSUME Distinct(q), Head(q).id \in AddIds(Tail(q))
        PROVE  FALSE
    <3>1. PICK i \in Adds(Tail(q)) : Tail(q)[i].id = Head(q).id
      BY <2>4 DEF AddIds
    <3>2. i + 1 \in Adds(q) /\ q[i + 1].id = q[1].id
      BY <1>1, <1>5, <3>1
    <3>3. i + 1 = 1
      BY <2>1, <2>4, <3>2 DEF Distinct
    <3>. QED
      BY <1>1, <3>1, <3>3 DEF Adds
  <2>. QED
    BY <1>6, <2>2, <2>3, <2>4
<1>10. ASSUME Head(q).op = "erase"
       PROVE  /\ Head(q).id \in EraseIds(q)
              /\ AddIds(q) = AddIds(Tail(q))
  <2>1. 1 \in DOMAIN q \ Adds(q)
    BY <1>1, <1>4, <1>10 DEF Adds
  <2>2. Head(q).id \in EraseIds(q)
    BY <1>1, <2>1 DEF EraseIds
  <2>3. AddIds(q) \subseteq AddIds(Tail(q))
    BY <1>a, <2>1 DEF AddIds
  <2>. QED
    BY <1>6, <2>2, <2>3
<1>. QED
    BY <1>1, <1>6, <1>7, <1>8, <1>9, <1>10

-----------------------------------------------------------------------------
(* The invariant.                                                           *)

Adding == {adding[w] : w \in Workers} \ {NoId}

(* Ids the heap has or had.                                                 *)
Placed == timers \union runs \union fired \union dead

(* Ids are numbered in the order they were issued, and their clock readings *)
(* are past.                                                                *)
IssueInv ==
    /\ \A i \in DOMAIN issued :
          /\ issued[i].id[2] < timerseq
          /\ issued[i].delay <= issued[i].id[1]
          /\ issued[i].id[1] <= now + issued[i].delay
    /\ \A i, j \in DOMAIN issued :
          i < j => issued[i].id[2] < issued[j].id[2]

(* An id is in one place.                                                   *)
PlaceInv ==
    /\ Adding \union AddIds(mail) \union AddIds(batch) \union Placed
          \subseteq Issued
    /\ \A v, w \in Workers : adding[v] = adding[w] /\ adding[v] # NoId => v = w
    /\ Distinct(mail) /\ Distinct(batch)
    /\ Adding \intersect (AddIds(mail) \union AddIds(batch) \union Placed) = {}
    /\ AddIds(mail) \intersect (AddIds(batch) \union Placed) = {}
    /\ AddIds(batch) \intersect Placed = {}
    /\ timers \intersect (runs \union fired) = {}
    /\ runs \intersect fired = {}

(* What was cancelled in the heap has its slot while it is there.           *)
CancelInv ==
    /\ CancelledStaysCancelled
    /\ dead \intersect timers \subseteq cancel_slots
    /\ \A id \in fired \union runs : id[1] <= now

-----------------------------------------------------------------------------
(* The nearest of a set of times is one of them, and no other is nearer.    *)
LEMMA MinInSet ==
    ASSUME NEW S \in SUBSET Nat, S # {}
    PROVE  /\ Min(S) \in S
           /\ \A s \in S : Min(S) <= s
<1> DEFINE R == {ss \in Nat \X Nat : ss[1] < ss[2]}
<1>1. IsWellFoundedOn(R, Nat)
    BY NatLessThanWellFounded DEF OpToRel
<1>2. \A y, x \in Nat : y < x => <<y, x>> \in R
    OBVIOUS
<1>. HIDE DEF R
<1>3. PICK x \in S : \A y \in S : ~ (<<y, x>> \in R)
    BY <1>1, WFMin
<1>4. \A y \in S : ~ (y < x)
    BY <1>2, <1>3
<1>5. \A y \in S : x =< y
    BY <1>4
<1>. QED
    BY <1>5 DEF Min

LEMMA DeadlineType ==
    ASSUME NEW heap \in SUBSET Ids, NEW base \in Nat
    PROVE  Min({id[1] : id \in heap} \union {base + MaxWait}) \in Nat
<1>1. {id[1] : id \in heap} \subseteq Nat
    BY DEF Ids
<1>2. {id[1] : id \in heap} \union {base + MaxWait} \in SUBSET Nat
    BY <1>1, TimerAssumption
<1>. QED
    BY <1>2, MinInSet

LEMMA SetTimerType ==
    ASSUME TypeOK, NEW base \in Nat, NEW heap \in SUBSET Ids,
           NEW first \in BOOLEAN, SetTimer(base, heap, first)
    PROVE  due' \subseteq Nat
<1> DEFINE expire == Min({id[1] : id \in heap} \union {base + MaxWait})
           diff   == IF base < expire THEN expire - base ELSE 0
<1>1. expire \in Nat
    BY DeadlineType
<1>. HIDE DEF expire
<1>2. diff \in Nat
    BY <1>1
<1>. HIDE DEF diff
<1>3. due' = {now + diff} \/ due' = due
    BY DEF SetTimer, expire, diff
<1>4. now \in Nat /\ due \subseteq Nat
    BY DEF TypeOK
<1>5. now + diff \in Nat
    BY <1>2, <1>4
<1>. QED
    BY <1>3, <1>4, <1>5

LEMMA IssuedType ==
    ASSUME TypeOK, NEW i \in DOMAIN issued
    PROVE  /\ i \in Nat
           /\ issued[i].id \in Ids
           /\ issued[i].id[1] \in Nat /\ issued[i].id[2] \in Nat
           /\ issued[i].by \in Workers \union {Loop}
           /\ issued[i].delay \in Nat
<1>1. issued \in Seq([id : Ids, by : Workers \union {Loop}, delay : Delays])
    BY DEF TypeOK
<1>2. issued[i] \in [id : Ids, by : Workers \union {Loop}, delay : Delays]
    BY <1>1, LenProperties, ElementOfSeq
<1>3. i \in Nat
    BY <1>1, LenProperties
<1>4. issued[i].id \in Nat \X (Nat \ {0})
    BY <1>2 DEF Ids
<1>5. issued[i].delay \in Nat
    BY <1>2, TimerAssumption
<1>. QED
    BY <1>2, <1>3, <1>4, <1>5 DEF Ids

(* A closure keeps the clock add_timer() read.                              *)
LEMMA AddedAtType ==
    ASSUME TypeOK, IssueInv, NEW id \in Issued
    PROVE  AddedAt(id) \in Nat
<1>1. PICK i \in DOMAIN issued : issued[i].id = id
    BY DEF Issued
<1>2. /\ issued[i].delay \in Nat /\ id[1] \in Nat
      /\ issued[i].delay <= id[1]
    BY <1>1, IssuedType DEF IssueInv
<1>3. /\ id[1] - issued[i].delay \in 0 .. id[1]
      /\ issued[i].delay + (id[1] - issued[i].delay) = id[1]
    BY <1>2
<1>4. \E t \in 0 .. id[1] :
         \E k \in DOMAIN issued : issued[k].id = id /\ issued[k].delay + t = id[1]
    BY <1>1, <1>3
<1>5. AddedAt(id) \in 0 .. id[1]
    BY <1>4 DEF AddedAt
<1>. QED
    BY <1>2, <1>5

-----------------------------------------------------------------------------
(* add_timer() takes an id nobody has.                                      *)
LEMMA NewIdFresh ==
    ASSUME TypeOK, IssueInv, NEW by \in Workers \union {Loop}, NEW d \in Delays,
           Issue(by, d), now' = now
    PROVE  /\ NewId(d) \in Ids /\ NewId(d) \notin Issued
           /\ Issued' = Issued \union {NewId(d)}
           /\ timerseq' \in Nat
           /\ issued' \in Seq([id : Ids, by : Workers \union {Loop}, delay : Delays])
           /\ IssueInv'
<1> DEFINE e == [id |-> NewId(d), by |-> by, delay |-> d]
           E == [id : Ids, by : Workers \union {Loop}, delay : Delays]
<1>1. now \in Nat /\ timerseq \in Nat /\ d \in Nat /\ issued \in Seq(E)
    BY TimerAssumption DEF TypeOK
<1>2. TimerSeq \in Nat \ {0} /\ timerseq <= TimerSeq
    BY <1>1 DEF TimerSeq
<1>3. /\ NewId(d) \in Ids
      /\ NewId(d)[1] = now + d /\ NewId(d)[2] = TimerSeq
    BY <1>1, <1>2 DEF NewId, Ids
<1>4. e \in E
    BY <1>3
<1>5. issued' = Append(issued, e) /\ timerseq' = TimerSeq + 1
    BY DEF Issue
<1>6. /\ issued' \in Seq(E)
      /\ DOMAIN issued = 1 .. Len(issued) /\ Len(issued) \in Nat
      /\ DOMAIN issued' = 1 .. Len(issued) + 1
      /\ \A i \in DOMAIN issued : issued'[i] = issued[i]
      /\ issued'[Len(issued) + 1] = e
    BY <1>1, <1>4, <1>5, AppendProperties, LenProperties
<1>7. DOMAIN issued' = DOMAIN issued \union {Len(issued) + 1}
    BY <1>6
<1>8. Issued' = Issued \union {NewId(d)}
  <2>1. Issued' = {issued'[i].id : i \in DOMAIN issued'}
    BY DEF Issued
  <2>2. Issued' = {issued'[i].id : i \in DOMAIN issued} \union {e.id}
    BY <1>6, <1>7, <2>1
  <2>. QED
    BY <1>6, <2>2 DEF Issued
<1>9. \A i \in DOMAIN issued :
         /\ issued[i].id[2] < TimerSeq
         /\ issued[i].id[2] < timerseq'
    BY <1>1, <1>2, <1>5, IssuedType DEF IssueInv
<1>10. NewId(d) \notin Issued
  <2>1. \A i \in DOMAIN issued : issued[i].id[2] # TimerSeq
    BY <1>2, <1>9, IssuedType
  <2>. QED
    BY <1>3, <2>1 DEF Issued
<1>11. ASSUME NEW i \in DOMAIN issued'
       PROVE  /\ issued'[i].id[2] < timerseq'
              /\ issued'[i].delay <= issued'[i].id[1]
              /\ issued'[i].id[1] <= now' + issued'[i].delay
  <2>1. CASE i \in DOMAIN issued
    BY <1>6, <1>9, <2>1 DEF IssueInv
  <2>2. CASE i = Len(issued) + 1
    BY <1>1, <1>2, <1>3, <1>5, <1>6, <2>2
  <2>. QED
    BY <1>7, <2>1, <2>2
<1>12. ASSUME NEW i \in DOMAIN issued', NEW j \in DOMAIN issued', i < j
       PROVE  issued'[i].id[2] < issued'[j].id[2]
  <2>1. i \in DOMAIN issued
    BY <1>6, <1>12
  <2>2. CASE j \in DOMAIN issued
    BY <1>6, <1>12, <2>1, <2>2 DEF IssueInv
  <2>3. CASE j = Len(issued) + 1
    BY <1>3, <1>6, <1>9, <2>1, <2>3
  <2>. QED
    BY <1>7, <2>2, <2>3
<1>13. IssueInv'
    BY <1>11, <1>12 DEF IssueInv
<1>. QED
    BY <1>1, <1>2, <1>3, <1>5, <1>6, <1>8, <1>10, <1>13

LEMMA IssueStep == TypeOK /\ IssueInv /\ [Next]_vars => IssueInv'
<1> SUFFICES ASSUME TypeOK, IssueInv, [Next]_vars
             PROVE  IssueInv'
    OBVIOUS
<1> USE DEF userVars
<1>1. ASSUME NEW w \in Workers, WorkerNewTimer(w)
      PROVE  IssueInv'
    BY <1>1, NewIdFresh DEF WorkerNewTimer
<1>2. CASE UserAddTimer
    BY <1>2, NewIdFresh DEF UserAddTimer
<1>3. CASE Tick
  <2>1. now' = now + 1 /\ UNCHANGED <<issued, timerseq>>
    BY <1>3 DEF Tick
  <2>2. \A i \in DOMAIN issued : issued[i].id[1] <= now' + issued[i].delay
    BY <2>1, IssuedType DEF IssueInv, TypeOK
  <2>. QED
    BY <2>1, <2>2 DEF IssueInv
<1>4. ASSUME UNCHANGED <<now, issued, timerseq>>
      PROVE  IssueInv'
    BY <1>4 DEF IssueInv
<1>5. ASSUME NEW w \in Workers, WorkerPost(w) \/ WorkerCancel(w)
      PROVE  IssueInv'
    BY <1>4, <1>5 DEF WorkerPost, WorkerCancel
<1>6. CASE \/ PostTick \/ UserCancelTimer \/ LoopStep \/ WakeIo \/ StopTimer
           \/ UNCHANGED vars
    BY <1>4, <1>6
       DEF PostTick, UserCancelTimer, LoopStep, StartTimer, StartWait, Wake,
           WakeIo, TakeCompletions, SwapTasks, RunTask, CollectDue, NoTick,
           RunTimer, TimerReturn, DropSlots, StopTimer, vars
<1>. QED
    BY <1>1, <1>2, <1>3, <1>5, <1>6 DEF Next, UserStep, Stopped

-----------------------------------------------------------------------------
(* Type correctness.                                                        *)
LEMMA TypeStep ==
    TypeOK /\ IssueInv /\ PlaceInv /\ [Next]_vars => TypeOK'
<1> SUFFICES ASSUME TypeOK, IssueInv, PlaceInv, [Next]_vars
             PROVE  TypeOK'
    OBVIOUS
<1> USE DEF userVars, heapVars, awakeVars
<1>a. /\ now \in Nat /\ called \in Nat /\ timerseq \in Nat
      /\ mail \in Seq(Closures) /\ batch \in Seq(Closures)
      /\ timers \subseteq Ids /\ cancel_slots \subseteq Ids /\ runs \subseteq Ids
      /\ cancelled \subseteq Ids /\ dead \subseteq Ids /\ fired \subseteq Ids
      /\ adding \in [Workers -> Ids \union {NoId}]
      /\ due \subseteq Nat /\ deadline \subseteq Nat
    BY DEF TypeOK
<1>b. \A id \in Ids, op \in {"add", "erase"} :
         Append(mail, [op |-> op, id |-> id]) \in Seq(Closures)
    BY <1>a, AppendProperties DEF Closures
<1>c. known \subseteq Ids
    BY IssuedType DEF known, Issued
<1>1. CASE Tick
    BY <1>1, <1>a DEF Tick, TypeOK
<1>2. CASE PostTick
    BY <1>2, <1>a, TimerAssumption DEF PostTick, TypeOK
<1>3. CASE StartTimer
  <2>1. due' \subseteq Nat
    BY <1>3, <1>a, SetTimerType DEF StartTimer
  <2>. QED
    BY <1>3, <2>1 DEF StartTimer, TypeOK
<1>4. ASSUME NEW w \in Workers, WorkerNewTimer(w)
      PROVE  TypeOK'
  <2>1. PICK d \in Delays :
           Issue(w, d) /\ adding' = [adding EXCEPT ![w] = NewId(d)]
    BY <1>4 DEF WorkerNewTimer
  <2>2. /\ NewId(d) \in Ids /\ timerseq' \in Nat
        /\ issued' \in Seq([id : Ids, by : Workers \union {Loop}, delay : Delays])
    BY <1>4, <2>1, NewIdFresh DEF WorkerNewTimer
  <2>3. adding' \in [Workers -> Ids \union {NoId}]
    BY <1>a, <2>1, <2>2
  <2>. QED
    BY <1>4, <2>2, <2>3 DEF WorkerNewTimer, TypeOK
<1>5. ASSUME NEW w \in Workers, WorkerPost(w)
      PROVE  TypeOK'
  <2>1. mail' \in Seq(Closures)
    BY <1>5, <1>a, <1>b DEF WorkerPost, Post
  <2>2. adding' \in [Workers -> Ids \union {NoId}]
    BY <1>5, <1>a DEF WorkerPost
  <2>. QED
    BY <1>5, <2>1, <2>2 DEF WorkerPost, TypeOK
<1>6. ASSUME NEW w \in Workers, WorkerCancel(w)
      PROVE  TypeOK'
  <2>1. mail' \in Seq(Closures)
    BY <1>6, <1>b, <1>c DEF WorkerCancel, Post
  <2>2. cancelled' \subseteq Ids
    BY <1>6, <1>a, <1>c DEF WorkerCancel
  <2>. QED
    BY <1>6, <2>1, <2>2 DEF WorkerCancel, TypeOK
<1>7. CASE UserAddTimer
  <2>1. PICK d \in Delays : Issue(Loop, d) /\ TimerAdd(NewId(d), now)
    BY <1>7 DEF UserAddTimer
  <2>2. /\ NewId(d) \in Ids /\ timerseq' \in Nat
        /\ issued' \in Seq([id : Ids, by : Workers \union {Loop}, delay : Delays])
    BY <1>7, <2>1, NewIdFresh DEF UserAddTimer
  <2>3. timers' \subseteq Ids /\ due' \subseteq Nat
    BY <1>a, <2>1, <2>2, SetTimerType DEF TimerAdd
  <2>. QED
    BY <1>7, <2>1, <2>2, <2>3 DEF UserAddTimer, TimerAdd, TypeOK
<1>8. CASE UserCancelTimer
  <2>1. /\ cancelled' \subseteq Ids /\ cancel_slots' \subseteq Ids
        /\ dead' \subseteq Ids
    BY <1>8, <1>a, <1>c DEF UserCancelTimer, TimerErase
  <2>2. UNCHANGED <<timers, due>>
    BY <1>8 DEF UserCancelTimer, TimerErase
  <2>. QED
    BY <1>8, <2>1, <2>2 DEF UserCancelTimer, TypeOK
<1>9. CASE StartWait
  <2>1. deadline' \subseteq Nat
    BY <1>9, <1>a, DeadlineType DEF StartWait, Deadline
  <2>. QED
    BY <1>9, <2>1 DEF StartWait, TypeOK
<1>10. CASE Wake \/ WakeIo
    BY <1>10, <1>a DEF Wake, WakeIo, TakeCompletions, TypeOK
<1>11. CASE SwapTasks
    BY <1>11, <1>a, EmptySeq DEF SwapTasks, TypeOK
<1>12. CASE RunTask
  <2>1. /\ Head(batch) \in Closures /\ Tail(batch) \in Seq(Closures)
        /\ Head(batch).op = "add" => Head(batch).id \in Issued
    BY <1>12, <1>a, QueueTail DEF RunTask, PlaceInv
  <2>2. Head(batch).id \in Ids
    BY <2>1 DEF Closures
  <2>3. /\ timers' \subseteq Ids /\ cancel_slots' \subseteq Ids
        /\ dead' \subseteq Ids /\ due' \subseteq Nat
    <3>1. CASE Head(batch).op = "add" /\ TimerAdd(Head(batch).id, AddedAt(Head(batch).id))
      <4>1. AddedAt(Head(batch).id) \in Nat
        BY <2>1, <3>1, AddedAtType
      <4>. QED
        BY <1>a, <2>2, <3>1, <4>1, SetTimerType DEF TimerAdd
    <3>2. CASE Head(batch).op = "erase" /\ TimerErase(Head(batch).id)
      BY <1>a, <2>2, <3>2 DEF TimerErase
    <3>. QED
      BY <1>12, <3>1, <3>2 DEF RunTask
  <2>. QED
    BY <1>12, <2>1, <2>3 DEF RunTask, TypeOK
<1>13. CASE CollectDue
    BY <1>13, <1>a DEF CollectDue, Left, Due, TypeOK
<1>14. CASE NoTick \/ TimerReturn
    BY <1>14 DEF NoTick, TimerReturn, TypeOK
<1>15. CASE RunTimer
  <2>1. runs' \subseteq Ids /\ fired' \subseteq Ids
    BY <1>15, <1>a DEF RunTimer
  <2>. QED
    BY <1>15, <2>1 DEF RunTimer, TypeOK
<1>16. CASE DropSlots
  <2>1. due' \subseteq Nat
    BY <1>16, <1>a, SetTimerType DEF DropSlots
  <2>2. cancel_slots' \subseteq Ids
    BY <1>16, <1>a DEF DropSlots
  <2>. QED
    BY <1>16, <2>1, <2>2 DEF DropSlots, TypeOK
<1>17. CASE StopTimer
    BY <1>17 DEF StopTimer, TypeOK
<1>18. CASE UNCHANGED vars
    BY <1>18 DEF vars, TypeOK
<1>. QED
    BY <1>1, <1>2, <1>3, <1>4, <1>5, <1>6, <1>7, <1>8, <1>9, <1>10, <1>11,
       <1>12, <1>13, <1>14, <1>15, <1>16, <1>17, <1>18
       DEF Next, LoopStep, UserStep, Stopped

-----------------------------------------------------------------------------
(* An id moves from one place to the next.                                  *)

LEMMA PlaceStep ==
    TypeOK /\ IssueInv /\ PlaceInv /\ [Next]_vars => PlaceInv'
<1> SUFFICES ASSUME TypeOK, IssueInv, PlaceInv, [Next]_vars
             PROVE  PlaceInv'
    OBVIOUS
<1> USE DEF userVars, heapVars, awakeVars
<1>a. /\ mail \in Seq(Closures) /\ batch \in Seq(Closures)
      /\ timers \subseteq Ids
      /\ adding \in [Workers -> Ids \union {NoId}]
    BY DEF TypeOK
<1>b. known \subseteq Ids
    BY IssuedType DEF known, Issued
<1>c. NoId \notin Ids
    BY TimerAssumption DEF Ids
<1>q. UNCHANGED <<issued, adding>> => UNCHANGED <<Adding, Issued>>
    BY DEF Adding, Issued
<1>r. UNCHANGED batch => UNCHANGED <<AddIds(batch), Distinct(batch)>>
    BY DEF AddIds, Adds, Distinct
<1>s. UNCHANGED mail => UNCHANGED <<AddIds(mail), Distinct(mail)>>
    BY DEF AddIds, Adds, Distinct
<1>1. ASSUME UNCHANGED <<issued, adding, mail, batch, runs, fired, dead>>,
             timers' \subseteq timers
      PROVE  PlaceInv'
    BY <1>1, <1>q, <1>r, <1>s DEF PlaceInv, Placed
<1>2. CASE \/ Tick \/ PostTick \/ StartTimer \/ StartWait \/ Wake \/ WakeIo
           \/ NoTick \/ TimerReturn \/ DropSlots \/ StopTimer \/ UNCHANGED vars
    BY <1>1, <1>2
       DEF Tick, PostTick, StartTimer, StartWait, Wake, WakeIo,
           TakeCompletions, NoTick, TimerReturn, DropSlots, StopTimer, vars
<1>3. ASSUME NEW w \in Workers, WorkerNewTimer(w)
      PROVE  PlaceInv'
  <2>1. PICK d \in Delays :
           Issue(w, d) /\ adding' = [adding EXCEPT ![w] = NewId(d)]
    BY <1>3 DEF WorkerNewTimer
  <2>2. /\ NewId(d) \in Ids /\ NewId(d) \notin Issued
        /\ Issued' = Issued \union {NewId(d)}
    BY <1>3, <2>1, NewIdFresh DEF WorkerNewTimer
  <2>3. UNCHANGED <<mail, batch, timers, runs, fired, dead>>
    BY <1>3 DEF WorkerNewTimer
  <2>4. /\ AddIds(mail)' = AddIds(mail) /\ AddIds(batch)' = AddIds(batch)
        /\ Distinct(mail)' = Distinct(mail) /\ Distinct(batch)' = Distinct(batch)
        /\ Placed' = Placed
    BY <2>3 DEF AddIds, Distinct, Adds, Placed
  <2>5. Adding' \subseteq Adding \union {NewId(d)}
    BY <1>a, <2>1 DEF Adding
  <2>6. \A u \in Workers : adding[u] # NoId => adding[u] # NewId(d)
    BY <2>2 DEF PlaceInv, Adding
  <2>7. ASSUME NEW u \in Workers, NEW v \in Workers,
               adding'[u] = adding'[v], adding'[u] # NoId
        PROVE  u = v
    BY <1>a, <2>1, <2>6, <2>7 DEF PlaceInv
  <2>. QED
    BY <2>2, <2>3, <2>4, <2>5, <2>7 DEF PlaceInv
<1>4. ASSUME NEW w \in Workers, WorkerPost(w)
      PROVE  PlaceInv'
  <2> DEFINE c == [op |-> "add", id |-> adding[w]]
  <2>1. /\ adding[w] \in Ids /\ adding[w] \in Adding
        /\ mail' = Append(mail, c)
        /\ adding' = [adding EXCEPT ![w] = NoId]
        /\ UNCHANGED <<issued, batch, timers, runs, fired, dead>>
    BY <1>4, <1>a DEF WorkerPost, Post, Adding
  <2>2. c \in Closures /\ c.op = "add" /\ c.id = adding[w]
    BY <2>1 DEF Closures
  <2>3. adding[w] \notin AddIds(mail)
    BY <2>1 DEF PlaceInv
  <2>4. /\ AddIds(mail') = AddIds(mail) \union {adding[w]}
        /\ Distinct(mail')
    BY <1>a, <2>1, <2>2, <2>3, QueueAppend DEF PlaceInv
  <2>5. /\ AddIds(batch)' = AddIds(batch) /\ Distinct(batch)' = Distinct(batch)
        /\ Placed' = Placed /\ Issued' = Issued
    BY <2>1 DEF AddIds, Distinct, Adds, Placed, Issued
  <2>6. Adding' \subseteq Adding \ {adding[w]}
    BY <1>a, <2>1 DEF Adding, PlaceInv
  <2>7. ASSUME NEW u \in Workers, NEW v \in Workers,
               adding'[u] = adding'[v], adding'[u] # NoId
        PROVE  u = v
    BY <1>a, <2>1, <2>7 DEF PlaceInv
  <2>. QED
    BY <2>1, <2>4, <2>5, <2>6, <2>7 DEF PlaceInv
<1>5. ASSUME NEW w \in Workers, WorkerCancel(w)
      PROVE  PlaceInv'
  <2>1. PICK id \in known : mail' = Append(mail, [op |-> "erase", id |-> id])
    BY <1>5 DEF WorkerCancel, Post
  <2>2. /\ AddIds(mail') = AddIds(mail)
        /\ Distinct(mail')
    BY <1>a, <1>b, <2>1, QueueAppend DEF PlaceInv, Closures
  <2>3. UNCHANGED <<issued, adding, batch, timers, runs, fired, dead>>
    BY <1>5 DEF WorkerCancel
  <2>. QED
    BY <2>2, <2>3 DEF PlaceInv, Placed, Adding, Issued
<1>6. CASE UserAddTimer
  <2>1. PICK d \in Delays : Issue(Loop, d) /\ TimerAdd(NewId(d), now)
    BY <1>6 DEF UserAddTimer
  <2>2. /\ NewId(d) \in Ids /\ NewId(d) \notin Issued
        /\ Issued' = Issued \union {NewId(d)}
    BY <1>6, <2>1, NewIdFresh DEF UserAddTimer
  <2>3. /\ timers' = timers \union {NewId(d)}
        /\ UNCHANGED <<adding, mail, batch, runs, fired, dead>>
    BY <1>6, <2>1 DEF UserAddTimer, TimerAdd
  <2>4. /\ Adding' = Adding /\ AddIds(mail)' = AddIds(mail)
        /\ AddIds(batch)' = AddIds(batch)
        /\ Distinct(mail)' = Distinct(mail) /\ Distinct(batch)' = Distinct(batch)
        /\ Placed' = Placed \union {NewId(d)}
    BY <2>3 DEF Adding, AddIds, Distinct, Adds, Placed
  <2>5. NewId(d) \notin Adding \union AddIds(mail) \union AddIds(batch) \union Placed
    BY <2>2 DEF PlaceInv
  <2>. QED
    BY <2>2, <2>3, <2>4, <2>5 DEF PlaceInv, Placed
<1>7. ASSUME UNCHANGED <<issued, adding, mail, batch, timers, runs, fired>>,
             dead' \subseteq dead \union timers
      PROVE  PlaceInv'
    BY <1>7, <1>q, <1>r, <1>s DEF PlaceInv, Placed
<1>8. CASE UserCancelTimer
    BY <1>7, <1>8 DEF UserCancelTimer, TimerErase
<1>9. CASE SwapTasks
  <2>1. /\ batch' = mail /\ mail' = <<>>
        /\ UNCHANGED <<issued, adding, timers, runs, fired, dead>>
    BY <1>9 DEF SwapTasks
  <2>2. AddIds(mail') = {} /\ Distinct(mail')
    BY <2>1, EmptyQueue
  <2>. QED
    BY <2>1, <2>2 DEF PlaceInv, Placed, Adding, Issued
<1>10. CASE RunTask
  <2>1. /\ batch' = Tail(batch) /\ batch # <<>>
        /\ UNCHANGED <<issued, adding, mail, runs, fired>>
    BY <1>10 DEF RunTask
  <2>2. CASE Head(batch).op = "add" /\ TimerAdd(Head(batch).id, AddedAt(Head(batch).id))
    <3>1. timers' = timers \union {Head(batch).id} /\ UNCHANGED dead
      BY <2>2 DEF TimerAdd
    <3>2. /\ AddIds(batch) = AddIds(batch') \union {Head(batch).id}
          /\ Head(batch).id \notin AddIds(batch')
          /\ Distinct(batch')
      BY <1>a, <2>1, <2>2, QueueTail DEF PlaceInv
    <3>. QED
      BY <2>1, <3>1, <3>2, <1>q, <1>s DEF PlaceInv, Placed
  <2>3. CASE Head(batch).op = "erase" /\ TimerErase(Head(batch).id)
    <3>1. UNCHANGED timers /\ dead' \subseteq dead \union timers
      BY <2>3 DEF TimerErase
    <3>2. AddIds(batch') = AddIds(batch) /\ Distinct(batch')
      BY <1>a, <2>1, <2>3, QueueTail DEF PlaceInv
    <3>. QED
      BY <2>1, <3>1, <3>2, <1>q, <1>s DEF PlaceInv, Placed
  <2>. QED
    BY <1>10, <2>2, <2>3 DEF RunTask
<1>11. CASE CollectDue
  <2>1. /\ runs' \subseteq Due /\ timers' = timers \ Due
        /\ UNCHANGED <<issued, adding, mail, batch, fired, dead>>
    BY <1>11 DEF CollectDue, Left
  <2>2. Due \subseteq timers
    BY DEF Due
  <2>. QED
    BY <2>1, <2>2, <1>q, <1>r, <1>s DEF PlaceInv, Placed
<1>12. CASE RunTimer
  <2>1. PICK id \in runs : fired' = fired \union {id} /\ runs' = runs \ {id}
    BY <1>12 DEF RunTimer
  <2>2. UNCHANGED <<issued, adding, mail, batch, timers, dead>>
    BY <1>12 DEF RunTimer
  <2>. QED
    BY <2>1, <2>2, <1>q, <1>r, <1>s DEF PlaceInv, Placed
<1>. QED
    BY <1>2, <1>3, <1>4, <1>5, <1>6, <1>8, <1>9, <1>10, <1>11, <1>12
       DEF Next, LoopStep, UserStep, Stopped

(* A slot outlives the timer it cancels.                                    *)
LEMMA CancelStep ==
    TypeOK /\ IssueInv /\ PlaceInv /\ CancelInv /\ [Next]_vars => CancelInv'
<1> SUFFICES ASSUME TypeOK, IssueInv, PlaceInv, CancelInv, [Next]_vars
             PROVE  CancelInv'
    OBVIOUS
<1> USE DEF userVars, heapVars, awakeVars, CancelInv, CancelledStaysCancelled
<1>a. now \in Nat /\ runs \subseteq Ids /\ fired \subseteq Ids /\ timers \subseteq Ids
    BY DEF TypeOK
<1>1. CASE Tick
  <2>1. \A id \in Ids : id[1] <= now => id[1] <= now + 1
    BY <1>a DEF Ids
  <2>. QED
    BY <1>1, <1>a, <2>1 DEF Tick
<1>2. ASSUME NEW w \in Workers, WorkerNewTimer(w) \/ WorkerPost(w) \/ WorkerCancel(w)
      PROVE  CancelInv'
    BY <1>2 DEF WorkerNewTimer, WorkerPost, WorkerCancel
<1>3. CASE \/ PostTick \/ StartTimer \/ StartWait \/ Wake \/ WakeIo \/ SwapTasks
           \/ NoTick \/ TimerReturn \/ StopTimer \/ UNCHANGED vars
    BY <1>3
       DEF PostTick, StartTimer, StartWait, Wake, WakeIo, TakeCompletions,
           SwapTasks, NoTick, TimerReturn, StopTimer, vars
<1>4. CASE UserAddTimer
  <2>1. PICK d \in Delays : Issue(Loop, d) /\ TimerAdd(NewId(d), now)
    BY <1>4 DEF UserAddTimer
  <2>2. NewId(d) \notin dead
    BY <1>4, <2>1, NewIdFresh DEF UserAddTimer, PlaceInv, Placed
  <2>. QED
    BY <1>4, <2>1, <2>2 DEF UserAddTimer, TimerAdd
<1>5. ASSUME NEW id, TimerErase(id), UNCHANGED <<now, runs, fired>>
      PROVE  CancelInv'
    BY <1>5 DEF TimerErase, PlaceInv
<1>6. CASE UserCancelTimer
    BY <1>5, <1>6 DEF UserCancelTimer
<1>7. CASE RunTask
  <2>1. CASE Head(batch).op = "add" /\ TimerAdd(Head(batch).id, AddedAt(Head(batch).id))
    <3>1. Head(batch).id \in AddIds(batch)
      BY <1>7, <2>1, QueueTail DEF RunTask, TypeOK
    <3>2. Head(batch).id \notin dead
      BY <3>1 DEF PlaceInv, Placed
    <3>. QED
      BY <1>7, <2>1, <3>2 DEF RunTask, TimerAdd
  <2>2. CASE Head(batch).op = "erase" /\ TimerErase(Head(batch).id)
    BY <1>5, <1>7, <2>2 DEF RunTask
  <2>. QED
    BY <1>7, <2>1, <2>2 DEF RunTask
<1>8. CASE CollectDue
    BY <1>8 DEF CollectDue, Left, Due
<1>9. CASE RunTimer
    BY <1>9 DEF RunTimer
<1>10. CASE DropSlots
  <2>1. \A id \in timers : ~ Redundant(id)
    BY <1>a DEF Redundant, Before, Ids
  <2>. QED
    BY <1>10, <2>1 DEF DropSlots
<1>. QED
    BY <1>1, <1>2, <1>3, <1>4, <1>6, <1>7, <1>8, <1>9, <1>10
       DEF Next, LoopStep, UserStep, Stopped

-----------------------------------------------------------------------------
(* The order of the timers of one thread and one delay.                     *)

Elder(a, b) ==
    \E i, j \in DOMAIN issued :
        /\ i < j
        /\ issued[i].by = issued[j].by /\ issued[i].delay = issued[j].delay
        /\ issued[i].id = a /\ issued[j].id = b

Sorted(q) == \A m, n \in Adds(q) : Elder(q[m].id, q[n].id) => m < n

(* The clock does not run back.                                             *)
ClockInv ==
    \A i, j \in DOMAIN issued :
        i < j => issued[i].id[1] + issued[j].delay
                     <= issued[j].id[1] + issued[i].delay

(* A worker posts its own timers, and the loop thread none.                 *)
SourceInv ==
    /\ \A w \in Workers :
          adding[w] # NoId =>
              \E i \in DOMAIN issued : issued[i].id = adding[w] /\ issued[i].by = w
    /\ \A i \in DOMAIN issued :
          issued[i].by = Loop =>
              issued[i].id \notin Adding \union AddIds(mail) \union AddIds(batch)

(* No timer is lost, but by the end of the loop or a cancellation.          *)
KeptInv ==
    /\ pc # "stopped" =>
          Issued \subseteq Adding \union AddIds(mail) \union AddIds(batch)
                              \union timers \union runs \union fired \union cancelled
    /\ cancel_slots \union EraseIds(mail) \union EraseIds(batch) \subseteq cancelled
    /\ pc \notin {"run", "cb"} => runs = {}
    /\ pc # "tasks" => batch = <<>>

(* The elder is never behind the younger.                                   *)
OrderInv ==
    /\ \A a, b : Elder(a, b) =>
          /\ b \in AddIds(mail)  => a \notin Adding
          /\ b \in AddIds(batch) => a \notin Adding \union AddIds(mail)
          /\ b \in timers => a \notin Adding \union AddIds(mail) \union AddIds(batch)
          /\ b \in runs   => a \notin Adding \union AddIds(mail) \union AddIds(batch)
                                        \union timers
          /\ b \in fired  => a \in fired \union cancelled
    /\ Sorted(mail) /\ Sorted(batch)

LEMMA IssuedAppend ==
    ASSUME TypeOK, NEW by \in Workers \union {Loop}, NEW d \in Delays,
           Issue(by, d)
    PROVE  /\ Len(issued) \in Nat /\ DOMAIN issued = 1 .. Len(issued)
           /\ DOMAIN issued' = DOMAIN issued \union {Len(issued) + 1}
           /\ \A i \in DOMAIN issued : issued'[i] = issued[i]
           /\ issued'[Len(issued) + 1] = [id |-> NewId(d), by |-> by, delay |-> d]
<1> DEFINE E == [id : Ids, by : Workers \union {Loop}, delay : Delays]
           e == [id |-> NewId(d), by |-> by, delay |-> d]
<1>1. /\ now \in Nat /\ timerseq \in Nat /\ d \in Nat /\ issued \in Seq(E)
    BY TimerAssumption DEF TypeOK
<1>2. NewId(d) \in Ids
    BY <1>1 DEF NewId, TimerSeq, Ids
<1>3. e \in E
    BY <1>2
<1>. HIDE DEF e, E
<1>4. issued' = Append(issued, e)
    BY DEF Issue, e
<1>5. /\ Len(issued) \in Nat /\ DOMAIN issued = 1 .. Len(issued)
      /\ DOMAIN issued' = 1 .. Len(issued) + 1
      /\ \A i \in 1 .. Len(issued) : issued'[i] = issued[i]
      /\ issued'[Len(issued) + 1] = e
    BY <1>1, <1>3, <1>4, AppendProperties, LenProperties
<1>. QED
    BY <1>5 DEF e

LEMMA ClockStep == TypeOK /\ IssueInv /\ ClockInv /\ [Next]_vars => ClockInv'
<1> SUFFICES ASSUME TypeOK, IssueInv, ClockInv, [Next]_vars
             PROVE  ClockInv'
    OBVIOUS
<1> USE DEF userVars
<1>1. ASSUME NEW by \in Workers \union {Loop}, NEW d \in Delays, Issue(by, d)
      PROVE  ClockInv'
  <2>a. /\ Len(issued) \in Nat /\ DOMAIN issued = 1 .. Len(issued)
        /\ DOMAIN issued' = DOMAIN issued \union {Len(issued) + 1}
        /\ \A i \in DOMAIN issued : issued'[i] = issued[i]
        /\ issued'[Len(issued) + 1] = [id |-> NewId(d), by |-> by, delay |-> d]
    BY <1>1, IssuedAppend
  <2>1. /\ NewId(d)[1] = now + d
        /\ now \in Nat /\ d \in Nat
    BY TimerAssumption DEF NewId, TypeOK
  <2>2. SUFFICES ASSUME NEW i \in DOMAIN issued', NEW j \in DOMAIN issued', i < j
                 PROVE  issued'[i].id[1] + issued'[j].delay
                            <= issued'[j].id[1] + issued'[i].delay
    BY DEF ClockInv
  <2>3. i \in DOMAIN issued
    BY <2>2, <2>a
  <2>4. CASE j \in DOMAIN issued
    BY <2>2, <2>3, <2>4, <2>a DEF ClockInv
  <2>5. CASE j = Len(issued) + 1
    <3>1. /\ issued'[i] = issued[i]
          /\ issued'[j].id[1] = now + d /\ issued'[j].delay = d
      BY <2>1, <2>3, <2>5, <2>a
    <3>2. /\ issued[i].id[1] \in Nat /\ issued[i].delay \in Nat
          /\ issued[i].id[1] <= now + issued[i].delay
      BY <2>3, IssuedType DEF IssueInv
    <3>. QED
      BY <2>1, <3>1, <3>2
  <2>. QED
    BY <2>2, <2>4, <2>5, <2>a
<1>2. UNCHANGED issued => ClockInv'
    BY DEF ClockInv
<1>3. ASSUME NEW w \in Workers, WorkerNewTimer(w)
      PROVE  ClockInv'
    BY <1>1, <1>3 DEF WorkerNewTimer
<1>4. ASSUME NEW w \in Workers, WorkerPost(w) \/ WorkerCancel(w)
      PROVE  ClockInv'
    BY <1>2, <1>4 DEF WorkerPost, WorkerCancel
<1>5. CASE UserAddTimer
    BY <1>1, <1>5 DEF UserAddTimer
<1>6. CASE \/ Tick \/ PostTick \/ UserCancelTimer \/ LoopStep \/ WakeIo
           \/ StopTimer \/ UNCHANGED vars
    BY <1>2, <1>6
       DEF Tick, PostTick, UserCancelTimer, LoopStep, StartTimer, StartWait,
           Wake, WakeIo, TakeCompletions, SwapTasks, RunTask, CollectDue,
           NoTick, RunTimer, TimerReturn, DropSlots, StopTimer, vars
<1>. QED
    BY <1>3, <1>4, <1>5, <1>6 DEF Next, UserStep, Stopped

LEMMA ElderFacts ==
    ASSUME TypeOK, IssueInv, ClockInv, NEW a, NEW b, Elder(a, b)
    PROVE  /\ a \in Issued /\ b \in Issued /\ a # b
           /\ a[1] <= b[1] /\ a[2] < b[2]
           /\ a \in Ids /\ b \in Ids
           /\ ~ Before(b, a)
<1>1. PICK i, j \in DOMAIN issued :
         /\ i < j /\ issued[i].delay = issued[j].delay
         /\ issued[i].id = a /\ issued[j].id = b
    BY DEF Elder
<1>2. /\ a[1] \in Nat /\ b[1] \in Nat /\ a[2] \in Nat /\ b[2] \in Nat
      /\ a \in Ids /\ b \in Ids
      /\ issued[i].delay \in Nat
    BY <1>1, IssuedType
<1>3. a[2] < b[2]
    BY <1>1 DEF IssueInv
<1>4. a[1] + issued[i].delay <= b[1] + issued[i].delay
    BY <1>1 DEF ClockInv
<1>5. a[1] <= b[1]
    BY <1>2, <1>4
<1>. QED
    BY <1>1, <1>2, <1>3, <1>5 DEF Issued, Before

LEMMA ElderIssue ==
    ASSUME TypeOK, IssueInv, NEW by \in Workers \union {Loop}, NEW d \in Delays,
           Issue(by, d), NEW a, NEW b, Elder(a, b)'
    PROVE  \/ Elder(a, b)
           \/ /\ b = NewId(d)
              /\ \E i \in DOMAIN issued : issued[i].id = a /\ issued[i].by = by
<1>a. /\ Len(issued) \in Nat /\ DOMAIN issued = 1 .. Len(issued)
      /\ DOMAIN issued' = DOMAIN issued \union {Len(issued) + 1}
      /\ \A i \in DOMAIN issued : issued'[i] = issued[i]
      /\ issued'[Len(issued) + 1] = [id |-> NewId(d), by |-> by, delay |-> d]
    BY IssuedAppend
<1>1. PICK i, j \in DOMAIN issued' :
        /\ i < j
        /\ issued'[i].by = issued'[j].by /\ issued'[i].delay = issued'[j].delay
        /\ issued'[i].id = a /\ issued'[j].id = b
    BY DEF Elder
<1>2. i \in DOMAIN issued
    BY <1>1, <1>a
<1>3. CASE j \in DOMAIN issued
    BY <1>1, <1>2, <1>3, <1>a DEF Elder
<1>4. CASE j = Len(issued) + 1
    BY <1>1, <1>2, <1>4, <1>a
<1>. QED
    BY <1>3, <1>4, <1>a

LEMMA ElderSame == UNCHANGED issued => \A a, b : Elder(a, b)' <=> Elder(a, b)
BY DEF Elder

LEMMA SortedAppend ==
    ASSUME NEW q \in Seq(Closures), NEW c \in Closures, Sorted(q),
           c.op = "add" =>
               /\ \A b \in AddIds(q) : ~ Elder(c.id, b)
               /\ ~ Elder(c.id, c.id)
    PROVE  Sorted(Append(q, c))
<1>1. /\ Len(q) \in Nat /\ DOMAIN q = 1 .. Len(q)
      /\ DOMAIN Append(q, c) = 1 .. Len(q) + 1
      /\ \A i \in 1 .. Len(q) : Append(q, c)[i] = q[i]
      /\ Append(q, c)[Len(q) + 1] = c
    BY AppendProperties, LenProperties
<1>. DEFINE r == Append(q, c)
<1>2. \A i \in Adds(r) : \/ i \in Adds(q) /\ r[i] = q[i]
                         \/ i = Len(q) + 1 /\ r[i] = c /\ c.op = "add"
    BY <1>1 DEF Adds
<1>3. \A i \in Adds(q) : i < Len(q) + 1 /\ q[i].id \in AddIds(q)
    BY <1>1 DEF Adds, AddIds
<1>. HIDE DEF r
<1>4. SUFFICES ASSUME NEW m \in Adds(r), NEW n \in Adds(r),
                      Elder(r[m].id, r[n].id)
               PROVE  m < n
    BY DEF Sorted, r
<1>5. CASE m \in Adds(q) /\ r[m] = q[m]
  <2>1. CASE n \in Adds(q) /\ r[n] = q[n]
    BY <1>4, <1>5, <2>1 DEF Sorted
  <2>2. CASE n = Len(q) + 1
    BY <1>3, <1>5, <2>2
  <2>. QED
    BY <1>2, <2>1, <2>2
<1>6. CASE m = Len(q) + 1 /\ r[m] = c /\ c.op = "add"
  <2>1. CASE n \in Adds(q) /\ r[n] = q[n]
    BY <1>3, <1>4, <1>6, <2>1
  <2>2. CASE r[n] = c
    BY <1>4, <1>6, <2>2
  <2>. QED
    BY <1>2, <2>1, <2>2
<1>. QED
    BY <1>2, <1>5, <1>6

LEMMA SortedTail ==
    ASSUME NEW q \in Seq(Closures), q # <<>>, Sorted(q)
    PROVE  /\ Sorted(Tail(q))
           /\ Head(q).op = "add" =>
                 \A a \in AddIds(Tail(q)) : ~ Elder(a, Head(q).id)
<1>1. /\ Head(q) = q[1]
      /\ Len(q) \in Nat \ {0} /\ DOMAIN q = 1 .. Len(q)
      /\ DOMAIN Tail(q) = 1 .. Len(q) - 1
      /\ \A i \in 1 .. Len(q) - 1 : Tail(q)[i] = q[i + 1]
    BY HeadTailProperties, LenProperties, EmptySeq
<1>. DEFINE r == Tail(q)
<1>2. \A i \in Adds(r) : i \in Nat \ {0} /\ i + 1 \in Adds(q) /\ r[i] = q[i + 1]
    BY <1>1 DEF Adds
<1>3. Head(q).op = "add" => 1 \in Adds(q)
    BY <1>1 DEF Adds
<1>. HIDE DEF r
<1>4. ASSUME NEW m \in Adds(r), NEW n \in Adds(r), Elder(r[m].id, r[n].id)
      PROVE  m < n
  <2>1. m + 1 < n + 1
    BY <1>2, <1>4 DEF Sorted
  <2>. QED
    BY <1>2, <2>1
<1>5. ASSUME Head(q).op = "add", NEW a \in AddIds(r), Elder(a, Head(q).id)
      PROVE  FALSE
  <2>1. PICK m \in Adds(r) : r[m].id = a
    BY <1>5 DEF AddIds
  <2>2. m + 1 < 1
    BY <1>1, <1>2, <1>3, <1>5, <2>1 DEF Sorted
  <2>. QED
    BY <1>2, <2>2
<1>. QED
    BY <1>4, <1>5 DEF Sorted, r

LEMMA SourceStep ==
    TypeOK /\ IssueInv /\ PlaceInv /\ SourceInv /\ [Next]_vars => SourceInv'
<1> SUFFICES ASSUME TypeOK, IssueInv, PlaceInv, SourceInv, [Next]_vars
             PROVE  SourceInv'
    OBVIOUS
<1> USE DEF userVars
<1>a. /\ mail \in Seq(Closures) /\ batch \in Seq(Closures)
      /\ adding \in [Workers -> Ids \union {NoId}]
    BY DEF TypeOK
<1>b. Loop \notin Workers
    BY TimerAssumption
<1>q. UNCHANGED adding => UNCHANGED Adding
    BY DEF Adding
<1>r. UNCHANGED batch => UNCHANGED AddIds(batch)
    BY DEF AddIds, Adds
<1>s. UNCHANGED mail => UNCHANGED AddIds(mail)
    BY DEF AddIds, Adds
<1>1. ASSUME UNCHANGED <<issued, adding>>,
             AddIds(mail') \union AddIds(batch') \subseteq AddIds(mail) \union AddIds(batch)
      PROVE  SourceInv'
    BY <1>1, <1>q DEF SourceInv
<1>2. CASE \/ Tick \/ PostTick \/ StartTimer \/ StartWait \/ Wake \/ WakeIo
           \/ CollectDue \/ NoTick \/ RunTimer \/ TimerReturn \/ DropSlots
           \/ StopTimer \/ UserCancelTimer \/ UNCHANGED vars
  <2>1. UNCHANGED <<issued, adding, mail, batch>>
    BY <1>2
       DEF Tick, PostTick, StartTimer, StartWait, Wake, WakeIo,
           TakeCompletions, CollectDue, NoTick, RunTimer, TimerReturn,
           DropSlots, StopTimer, UserCancelTimer, vars
  <2>. QED
    BY <1>1, <2>1
<1>3. ASSUME NEW w \in Workers, WorkerNewTimer(w)
      PROVE  SourceInv'
  <2>1. PICK d \in Delays :
           Issue(w, d) /\ adding' = [adding EXCEPT ![w] = NewId(d)]
    BY <1>3 DEF WorkerNewTimer
  <2>2. UNCHANGED <<mail, batch>>
    BY <1>3 DEF WorkerNewTimer
  <2>3. /\ Len(issued) \in Nat /\ DOMAIN issued = 1 .. Len(issued)
        /\ DOMAIN issued' = DOMAIN issued \union {Len(issued) + 1}
        /\ \A i \in DOMAIN issued : issued'[i] = issued[i]
        /\ issued'[Len(issued) + 1] = [id |-> NewId(d), by |-> w, delay |-> d]
    BY <2>1, IssuedAppend
  <2>4. NewId(d) \notin Issued
    BY <1>3, <2>1, NewIdFresh DEF WorkerNewTimer
  <2>5. ASSUME NEW u \in Workers, adding'[u] # NoId
        PROVE  \E i \in DOMAIN issued' :
                  issued'[i].id = adding'[u] /\ issued'[i].by = u
    <3>1. CASE u = w
      BY <1>a, <2>1, <2>3, <3>1
    <3>2. CASE u # w
      <4>1. PICK i \in DOMAIN issued : issued[i].id = adding[u] /\ issued[i].by = u
        BY <1>a, <2>1, <2>5, <3>2 DEF SourceInv
      <4>. QED
        BY <1>a, <2>1, <2>3, <3>2, <4>1
    <3>. QED
      BY <3>1, <3>2
  <2>6. Adding' \subseteq Adding \union {NewId(d)}
    BY <1>a, <2>1 DEF Adding
  <2>7. ASSUME NEW i \in DOMAIN issued', issued'[i].by = Loop
        PROVE  /\ issued'[i].id \notin Adding
               /\ issued'[i].id \notin AddIds(mail) \union AddIds(batch)
               /\ issued'[i].id # NewId(d)
    <3>1. i \in DOMAIN issued /\ issued[i].by = Loop
      BY <1>b, <2>3, <2>7
    <3>. QED
      BY <2>3, <2>4, <3>1 DEF SourceInv, Issued
  <2>. QED
    BY <2>2, <2>5, <2>6, <2>7, <1>r, <1>s DEF SourceInv
<1>4. ASSUME NEW w \in Workers, WorkerPost(w)
      PROVE  SourceInv'
  <2>1. /\ adding[w] \in Ids /\ adding[w] \in Adding
        /\ mail' = Append(mail, [op |-> "add", id |-> adding[w]])
        /\ adding' = [adding EXCEPT ![w] = NoId]
        /\ UNCHANGED <<issued, batch>>
    BY <1>4, <1>a DEF WorkerPost, Post, Adding
  <2>2. [op |-> "add", id |-> adding[w]] \in Closures
    BY <2>1 DEF Closures
  <2>3. AddIds(mail') = AddIds(mail) \union {adding[w]}
    BY <1>a, <2>1, <2>2, QueueAppend
  <2>4. Adding' \subseteq Adding
    BY <1>a, <2>1 DEF Adding
  <2>5. \A u \in Workers : adding'[u] # NoId => adding'[u] = adding[u]
    BY <1>a, <2>1
  <2>. QED
    BY <1>a, <2>1, <2>3, <2>4, <2>5, <1>r DEF SourceInv
<1>5. ASSUME NEW w \in Workers, WorkerCancel(w)
      PROVE  SourceInv'
  <2>1. PICK id \in known : mail' = Append(mail, [op |-> "erase", id |-> id])
    BY <1>5 DEF WorkerCancel, Post
  <2>2. id \in Ids
    BY IssuedType DEF known, Issued
  <2>3. AddIds(mail') = AddIds(mail)
    BY <1>a, <2>1, <2>2, QueueAppend DEF Closures
  <2>4. UNCHANGED <<issued, adding, batch>>
    BY <1>5 DEF WorkerCancel
  <2>. QED
    BY <1>1, <2>3, <2>4
<1>6. CASE UserAddTimer
  <2>1. PICK d \in Delays : Issue(Loop, d)
    BY <1>6 DEF UserAddTimer
  <2>2. UNCHANGED <<adding, mail, batch>>
    BY <1>6 DEF UserAddTimer
  <2>3. /\ Len(issued) \in Nat /\ DOMAIN issued = 1 .. Len(issued)
        /\ DOMAIN issued' = DOMAIN issued \union {Len(issued) + 1}
        /\ \A i \in DOMAIN issued : issued'[i] = issued[i]
        /\ issued'[Len(issued) + 1] = [id |-> NewId(d), by |-> Loop, delay |-> d]
    BY <2>1, IssuedAppend
  <2>4. NewId(d) \notin Adding \union AddIds(mail) \union AddIds(batch)
    BY <1>6, <2>1, NewIdFresh DEF UserAddTimer, PlaceInv
  <2>. QED
    BY <2>2, <2>3, <2>4, <1>q, <1>r, <1>s DEF SourceInv
<1>7. CASE SwapTasks
    BY <1>1, <1>7, EmptyQueue DEF SwapTasks
<1>8. CASE RunTask
    BY <1>1, <1>8, <1>a, QueueTail DEF RunTask
<1>. QED
    BY <1>2, <1>3, <1>4, <1>5, <1>6, <1>7, <1>8
       DEF Next, LoopStep, UserStep, Stopped

LEMMA KeptStep ==
    TypeOK /\ IssueInv /\ PlaceInv /\ KeptInv /\ [Next]_vars => KeptInv'
<1> SUFFICES ASSUME TypeOK, IssueInv, PlaceInv, KeptInv, [Next]_vars
             PROVE  KeptInv'
    OBVIOUS
<1> USE DEF userVars, heapVars, awakeVars
<1>a. /\ mail \in Seq(Closures) /\ batch \in Seq(Closures)
      /\ adding \in [Workers -> Ids \union {NoId}]
    BY DEF TypeOK
<1>q. UNCHANGED <<issued, adding>> => UNCHANGED <<Adding, Issued>>
    BY DEF Adding, Issued
<1>r. UNCHANGED batch => UNCHANGED <<AddIds(batch), EraseIds(batch)>>
    BY DEF AddIds, EraseIds, Adds
<1>s. UNCHANGED mail => UNCHANGED <<AddIds(mail), EraseIds(mail)>>
    BY DEF AddIds, EraseIds, Adds
<1>1. ASSUME UNCHANGED <<issued, adding, cancelled, mail, batch, timers, runs, fired>>,
             cancel_slots' \subseteq cancel_slots,
             pc' # "stopped" => pc # "stopped",
             pc' \notin {"run", "cb"} => runs = {},
             pc' # "tasks" => batch = <<>>
      PROVE  KeptInv'
    BY <1>1, <1>q, <1>r, <1>s DEF KeptInv
<1>2. CASE \/ Tick \/ PostTick \/ StartTimer \/ StartWait \/ Wake \/ WakeIo
           \/ NoTick \/ TimerReturn \/ DropSlots \/ UNCHANGED vars
    BY <1>1, <1>2
       DEF KeptInv, Tick, PostTick, StartTimer, StartWait, Wake, WakeIo,
           TakeCompletions, NoTick, TimerReturn, DropSlots, vars
<1>3. ASSUME NEW w \in Workers, WorkerNewTimer(w)
      PROVE  KeptInv'
  <2>1. PICK d \in Delays :
           Issue(w, d) /\ adding' = [adding EXCEPT ![w] = NewId(d)]
    BY <1>3 DEF WorkerNewTimer
  <2>2. /\ NewId(d) \in Ids
        /\ Issued' = Issued \union {NewId(d)}
    BY <1>3, <2>1, NewIdFresh DEF WorkerNewTimer
  <2>3. Adding \union {NewId(d)} \subseteq Adding'
    <3>1. NewId(d) # NoId
      BY <2>2, TimerAssumption DEF Ids
    <3>2. adding[w] = NoId
      BY <1>3 DEF WorkerNewTimer
    <3>3. \A u \in Workers : adding[u] # NoId => adding'[u] = adding[u]
      BY <1>a, <2>1, <3>2
    <3>4. adding'[w] = NewId(d)
      BY <1>a, <2>1
    <3>. QED
      BY <3>1, <3>3, <3>4 DEF Adding
  <2>4. UNCHANGED <<cancelled, mail, batch, timers, runs, fired, cancel_slots, pc>>
    BY <1>3 DEF WorkerNewTimer
  <2>. QED
    BY <2>2, <2>3, <2>4, <1>r, <1>s DEF KeptInv
<1>4. ASSUME NEW w \in Workers, WorkerPost(w)
      PROVE  KeptInv'
  <2>1. /\ adding[w] \in Ids
        /\ mail' = Append(mail, [op |-> "add", id |-> adding[w]])
        /\ adding' = [adding EXCEPT ![w] = NoId]
        /\ UNCHANGED <<issued, cancelled, batch, timers, runs, fired, cancel_slots, pc>>
    BY <1>4, <1>a DEF WorkerPost, Post
  <2>2. [op |-> "add", id |-> adding[w]] \in Closures
    BY <2>1 DEF Closures
  <2>3. /\ AddIds(mail') = AddIds(mail) \union {adding[w]}
        /\ EraseIds(mail') = EraseIds(mail)
    BY <1>a, <2>1, <2>2, QueueAppend
  <2>4. Adding \subseteq Adding' \union {adding[w]}
    BY <1>a, <2>1 DEF Adding
  <2>5. Issued' = Issued
    BY <2>1 DEF Issued
  <2>. QED
    BY <2>1, <2>3, <2>4, <2>5, <1>r DEF KeptInv
<1>5. ASSUME NEW w \in Workers, WorkerCancel(w)
      PROVE  KeptInv'
  <2>1. PICK id \in known :
           /\ mail' = Append(mail, [op |-> "erase", id |-> id])
           /\ cancelled' = cancelled \union {id}
    BY <1>5 DEF WorkerCancel, Post
  <2>2. id \in Ids
    BY IssuedType DEF known, Issued
  <2>3. /\ AddIds(mail') = AddIds(mail)
        /\ EraseIds(mail') = EraseIds(mail) \union {id}
    BY <1>a, <2>1, <2>2, QueueAppend DEF Closures
  <2>4. UNCHANGED <<issued, adding, batch, timers, runs, fired, cancel_slots, pc>>
    BY <1>5 DEF WorkerCancel
  <2>. QED
    BY <2>1, <2>3, <2>4, <1>q, <1>r DEF KeptInv
<1>6. CASE UserAddTimer
  <2>1. PICK d \in Delays : Issue(Loop, d) /\ TimerAdd(NewId(d), now)
    BY <1>6 DEF UserAddTimer
  <2>2. Issued' = Issued \union {NewId(d)}
    BY <1>6, <2>1, NewIdFresh DEF UserAddTimer
  <2>3. /\ timers' = timers \union {NewId(d)}
        /\ UNCHANGED <<adding, cancelled, mail, batch, runs, fired, cancel_slots, pc>>
    BY <1>6, <2>1 DEF UserAddTimer, TimerAdd
  <2>4. Adding' = Adding
    BY <2>3 DEF Adding
  <2>. QED
    BY <2>2, <2>3, <2>4, <1>r, <1>s DEF KeptInv
<1>7. CASE UserCancelTimer
  <2>1. PICK id \in known :
           /\ cancel_slots' = cancel_slots \union {id}
           /\ cancelled' = cancelled \union {id}
           /\ UNCHANGED timers
    BY <1>7 DEF UserCancelTimer, TimerErase
  <2>2. UNCHANGED <<issued, adding, mail, batch, runs, fired, pc>>
    BY <1>7 DEF UserCancelTimer
  <2>. QED
    BY <2>1, <2>2, <1>q, <1>r, <1>s DEF KeptInv
<1>8. CASE SwapTasks
  <2>1. /\ batch' = mail /\ mail' = <<>> /\ pc = "io" /\ pc' = "tasks"
        /\ UNCHANGED <<issued, adding, cancelled, timers, runs, fired, cancel_slots>>
    BY <1>8 DEF SwapTasks
  <2>2. batch = <<>>
    BY <2>1 DEF KeptInv
  <2>3. AddIds(batch) = {} /\ AddIds(mail') = {} /\ EraseIds(mail') = {}
    BY <2>1, <2>2, EmptyQueue
  <2>. QED
    BY <2>1, <2>3, <1>q DEF KeptInv
<1>9. CASE RunTask
  <2>1. /\ batch' = Tail(batch) /\ batch # <<>> /\ pc = "tasks"
        /\ UNCHANGED <<issued, adding, cancelled, mail, runs, fired, pc>>
    BY <1>9 DEF RunTask
  <2>2. CASE Head(batch).op = "add" /\ TimerAdd(Head(batch).id, AddedAt(Head(batch).id))
    <3>1. timers' = timers \union {Head(batch).id} /\ UNCHANGED cancel_slots
      BY <2>2 DEF TimerAdd
    <3>2. /\ AddIds(batch) = AddIds(batch') \union {Head(batch).id}
          /\ EraseIds(batch') \subseteq EraseIds(batch)
      BY <1>a, <2>1, <2>2, QueueTail
    <3>. QED
      BY <2>1, <3>1, <3>2, <1>q, <1>s DEF KeptInv
  <2>3. CASE Head(batch).op = "erase" /\ TimerErase(Head(batch).id)
    <3>1. UNCHANGED timers /\ cancel_slots' = cancel_slots \union {Head(batch).id}
      BY <2>3 DEF TimerErase
    <3>2. /\ AddIds(batch) = AddIds(batch') /\ Head(batch).id \in EraseIds(batch)
          /\ EraseIds(batch') \subseteq EraseIds(batch)
      BY <1>a, <2>1, <2>3, QueueTail
    <3>. QED
      BY <2>1, <3>1, <3>2, <1>q, <1>s DEF KeptInv
  <2>. QED
    BY <1>9, <2>2, <2>3 DEF RunTask
<1>10. CASE CollectDue
  <2>1. /\ runs' = Due \ cancel_slots /\ timers' = timers \ Due
        /\ cancel_slots' \subseteq cancel_slots
        /\ batch = <<>> /\ pc = "tasks" /\ pc' = "run"
        /\ UNCHANGED <<issued, adding, cancelled, mail, batch, fired>>
    BY <1>10 DEF CollectDue, Left
  <2>2. runs = {} /\ cancel_slots \subseteq cancelled
    BY <2>1 DEF KeptInv
  <2>. QED
    BY <2>1, <2>2, <1>q, <1>r, <1>s DEF KeptInv
<1>11. CASE RunTimer
  <2>1. PICK id \in runs : fired' = fired \union {id} /\ runs' = runs \ {id}
    BY <1>11 DEF RunTimer
  <2>2. /\ pc = "run" /\ pc' = "cb"
        /\ UNCHANGED <<issued, adding, cancelled, mail, batch, timers, cancel_slots>>
    BY <1>11 DEF RunTimer
  <2>. QED
    BY <2>1, <2>2, <1>q, <1>r, <1>s DEF KeptInv
<1>12. CASE StopTimer
    BY <1>12, <1>q, <1>r, <1>s DEF StopTimer, KeptInv
<1>. QED
    BY <1>2, <1>3, <1>4, <1>5, <1>6, <1>7, <1>8, <1>9, <1>10, <1>11, <1>12
       DEF Next, LoopStep, UserStep, Stopped

LEMMA OrderStep ==
    /\ TypeOK /\ IssueInv /\ PlaceInv /\ ClockInv /\ SourceInv /\ KeptInv
    /\ OrderInv /\ [Next]_vars
    => OrderInv'
<1> SUFFICES ASSUME TypeOK, IssueInv, PlaceInv, ClockInv, SourceInv, KeptInv,
                    OrderInv, [Next]_vars
             PROVE  OrderInv'
    OBVIOUS
<1> USE DEF userVars, heapVars, awakeVars
<1>a. /\ mail \in Seq(Closures) /\ batch \in Seq(Closures)
      /\ adding \in [Workers -> Ids \union {NoId}]
    BY DEF TypeOK
<1>b. now \in Nat
    BY DEF TypeOK
<1>c. \A a, b : Elder(a, b) => a \in Issued /\ b \in Issued /\ a # b
    BY ElderFacts
<1>d. ASSUME NEW a, NEW b, Elder(a, b), a \in Adding, b \in Adding
      PROVE  FALSE
  <2>1. PICK i, j \in DOMAIN issued :
          /\ i < j /\ issued[i].by = issued[j].by
          /\ issued[i].id = a /\ issued[j].id = b
    BY <1>d DEF Elder
  <2>2. \A k, l \in DOMAIN issued : issued[k].id = issued[l].id => k = l
    BY IssuedType DEF IssueInv
  <2>3. PICK u \in Workers : adding[u] = a
    BY <1>d DEF Adding
  <2>4. PICK v \in Workers : adding[v] = b
    BY <1>d DEF Adding
  <2>5. issued[i].by = u
    BY <1>d, <2>1, <2>2, <2>3 DEF SourceInv, Adding
  <2>6. issued[j].by = v
    BY <1>d, <2>1, <2>2, <2>4 DEF SourceInv, Adding
  <2>. QED
    BY <1>c, <1>d, <2>1, <2>3, <2>4, <2>5, <2>6
<1>e. UNCHANGED issued => \A a, b : Elder(a, b)' <=> Elder(a, b)
    BY ElderSame
<1>f. UNCHANGED issued => \A q : Sorted(q)' <=> Sorted(q)
    BY DEF Sorted, Elder, Adds
<1>q. UNCHANGED adding => UNCHANGED Adding
    BY DEF Adding
<1>r. UNCHANGED <<issued, batch>> => UNCHANGED <<AddIds(batch), Sorted(batch)>>
    BY DEF AddIds, Adds, Sorted, Elder
<1>s. UNCHANGED <<issued, mail>> => UNCHANGED <<AddIds(mail), Sorted(mail)>>
    BY DEF AddIds, Adds, Sorted, Elder
<1>g. ASSUME NEW by \in Workers \union {Loop}, NEW d \in Delays, Issue(by, d),
             UNCHANGED <<now, mail, batch>>
      PROVE  /\ NewId(d) \notin Adding \union AddIds(mail) \union AddIds(batch)
                                       \union Placed
             /\ \A a, b : Elder(a, b) => a # NewId(d) /\ b # NewId(d)
             /\ \A a, b : Elder(a, b)' =>
                   \/ Elder(a, b)
                   \/ /\ b = NewId(d)
                      /\ by = Loop => a \notin Adding \union AddIds(mail)
                                                     \union AddIds(batch)
             /\ UNCHANGED <<AddIds(mail), AddIds(batch)>>
             /\ Sorted(mail)' /\ Sorted(batch)'
  <2>1. NewId(d) \notin Issued
    BY <1>g, NewIdFresh
  <2>2. NewId(d) \notin Adding \union AddIds(mail) \union AddIds(batch) \union Placed
    BY <2>1 DEF PlaceInv
  <2>3. ASSUME NEW a, NEW b, Elder(a, b)'
        PROVE  \/ Elder(a, b)
               \/ /\ b = NewId(d)
                  /\ by = Loop => a \notin Adding \union AddIds(mail)
                                                 \union AddIds(batch)
    BY <1>g, <2>3, ElderIssue DEF SourceInv
  <2>4. UNCHANGED <<AddIds(mail), AddIds(batch)>>
    BY <1>g DEF AddIds, Adds
  <2>5. ASSUME NEW q, q \in {mail, batch}
        PROVE  Sorted(q)'
    <3>1. \A n \in Adds(q) : q[n].id # NewId(d)
      BY <2>2, <2>5 DEF AddIds
    <3>2. Sorted(q)
      BY <2>5 DEF OrderInv
    <3>. QED
      BY <2>3, <3>1, <3>2 DEF Sorted, Adds
  <2>6. Sorted(mail)' /\ Sorted(batch)'
    <3>1. Sorted(mail') = Sorted(mail) /\ Sorted(batch') = Sorted(batch)
      BY <1>g
    <3>. QED
      BY <1>g, <2>5 DEF Sorted, Adds
  <2>. QED
    BY <1>c, <2>1, <2>2, <2>3, <2>4, <2>6
<1>1. ASSUME UNCHANGED <<issued, adding, cancelled, mail, batch, runs, fired>>,
             timers' \subseteq timers
      PROVE  OrderInv'
    BY <1>1, <1>e, <1>q, <1>r, <1>s DEF OrderInv
<1>2. CASE \/ Tick \/ PostTick \/ StartTimer \/ StartWait \/ Wake \/ WakeIo
           \/ NoTick \/ TimerReturn \/ DropSlots \/ StopTimer \/ UNCHANGED vars
    BY <1>1, <1>2
       DEF Tick, PostTick, StartTimer, StartWait, Wake, WakeIo,
           TakeCompletions, NoTick, TimerReturn, DropSlots, StopTimer, vars
<1>3. ASSUME NEW w \in Workers, WorkerNewTimer(w)
      PROVE  OrderInv'
  <2>1. PICK d \in Delays :
           Issue(w, d) /\ adding' = [adding EXCEPT ![w] = NewId(d)]
    BY <1>3 DEF WorkerNewTimer
  <2>2. UNCHANGED <<now, cancelled, mail, batch, timers, runs, fired>>
    BY <1>3 DEF WorkerNewTimer
  <2>3. Adding' \subseteq Adding \union {NewId(d)}
    BY <1>a, <2>1 DEF Adding
  <2>. QED
    BY <1>g, <2>1, <2>2, <2>3 DEF OrderInv, Placed
<1>4. ASSUME NEW w \in Workers, WorkerPost(w)
      PROVE  OrderInv'
  <2> DEFINE c == [op |-> "add", id |-> adding[w]]
  <2>1. /\ adding[w] \in Ids /\ adding[w] \in Adding
        /\ mail' = Append(mail, c)
        /\ adding' = [adding EXCEPT ![w] = NoId]
        /\ UNCHANGED <<issued, cancelled, batch, timers, runs, fired>>
    BY <1>4, <1>a DEF WorkerPost, Post, Adding
  <2>2. c \in Closures /\ c.op = "add" /\ c.id = adding[w]
    BY <2>1 DEF Closures
  <2>. HIDE DEF c
  <2>3. AddIds(mail') = AddIds(mail) \union {adding[w]}
    BY <1>a, <2>1, <2>2, QueueAppend
  <2>4. Adding' \subseteq Adding
    BY <1>a, <2>1 DEF Adding
  <2>5. /\ \A b \in AddIds(mail) : ~ Elder(adding[w], b)
        /\ ~ Elder(adding[w], adding[w])
    BY <1>c, <2>1 DEF OrderInv
  <2>6. Sorted(mail')
    BY <1>a, <2>1, <2>2, <2>5, SortedAppend DEF OrderInv
  <2>7. Sorted(mail)'
    BY <2>1, <2>6 DEF Sorted, Elder, Adds
  <2>. QED
    BY <1>d, <1>e, <1>r, <2>1, <2>3, <2>4, <2>7 DEF OrderInv
<1>5. ASSUME NEW w \in Workers, WorkerCancel(w)
      PROVE  OrderInv'
  <2>1. PICK id \in known :
           /\ mail' = Append(mail, [op |-> "erase", id |-> id])
           /\ cancelled' = cancelled \union {id}
    BY <1>5 DEF WorkerCancel, Post
  <2>2. [op |-> "erase", id |-> id] \in Closures
    BY IssuedType DEF known, Issued, Closures
  <2>3. AddIds(mail') = AddIds(mail)
    BY <1>a, <2>1, <2>2, QueueAppend
  <2>4. Sorted(mail')
    BY <1>a, <2>1, <2>2, SortedAppend DEF OrderInv
  <2>5. UNCHANGED <<issued, adding, batch, timers, runs, fired>>
    BY <1>5 DEF WorkerCancel
  <2>6. Sorted(mail)'
    BY <2>4, <2>5 DEF Sorted, Elder, Adds
  <2>. QED
    BY <1>e, <1>q, <1>r, <2>1, <2>3, <2>5, <2>6 DEF OrderInv
<1>6. CASE UserAddTimer
  <2>1. PICK d \in Delays : Issue(Loop, d) /\ TimerAdd(NewId(d), now)
    BY <1>6 DEF UserAddTimer
  <2>2. /\ timers' = timers \union {NewId(d)}
        /\ UNCHANGED <<now, adding, cancelled, mail, batch, runs, fired>>
    BY <1>6, <2>1 DEF UserAddTimer, TimerAdd
  <2>. QED
    BY <1>g, <1>q, <2>1, <2>2 DEF OrderInv, Placed
<1>7. CASE UserCancelTimer
  <2>1. /\ cancelled \subseteq cancelled' /\ UNCHANGED timers
        /\ UNCHANGED <<issued, adding, mail, batch, runs, fired>>
    BY <1>7 DEF UserCancelTimer, TimerErase
  <2>. QED
    BY <1>e, <1>q, <1>r, <1>s, <2>1 DEF OrderInv
<1>8. CASE SwapTasks
  <2>1. /\ batch' = mail /\ mail' = <<>>
        /\ UNCHANGED <<issued, adding, cancelled, timers, runs, fired>>
    BY <1>8 DEF SwapTasks
  <2>2. AddIds(mail') = {}
    BY <2>1, EmptyQueue
  <2>3. Sorted(mail)' /\ Sorted(batch)'
    BY <2>1, <2>2 DEF Sorted, Elder, Adds, AddIds, OrderInv
  <2>. QED
    BY <1>e, <1>q, <2>1, <2>2, <2>3 DEF OrderInv
<1>9. CASE RunTask
  <2>1. /\ batch' = Tail(batch) /\ batch # <<>>
        /\ UNCHANGED <<issued, adding, cancelled, mail, runs, fired>>
    BY <1>9 DEF RunTask
  <2>2. Sorted(batch') /\ AddIds(batch') \subseteq AddIds(batch)
    BY <1>a, <2>1, SortedTail, QueueTail DEF OrderInv
  <2>3. Sorted(batch)'
    BY <2>1, <2>2 DEF Sorted, Elder, Adds
  <2>4. CASE Head(batch).op = "add" /\ TimerAdd(Head(batch).id, AddedAt(Head(batch).id))
    <3>1. timers' = timers \union {Head(batch).id}
      BY <2>4 DEF TimerAdd
    <3>2. Head(batch).id \in AddIds(batch)
      BY <1>a, <2>1, <2>4, QueueTail
    <3>3. \A a \in AddIds(batch') : ~ Elder(a, Head(batch).id)
      BY <1>a, <2>1, <2>4, SortedTail DEF OrderInv
    <3>. QED
      BY <1>e, <1>q, <1>s, <2>1, <2>2, <2>3, <3>1, <3>2, <3>3 DEF OrderInv
  <2>5. CASE Head(batch).op = "erase" /\ TimerErase(Head(batch).id)
    <3>1. UNCHANGED timers
      BY <2>5 DEF TimerErase
    <3>. QED
      BY <1>e, <1>q, <1>s, <2>1, <2>2, <2>3, <3>1 DEF OrderInv
  <2>. QED
    BY <1>9, <2>4, <2>5 DEF RunTask
<1>10. CASE CollectDue
  <2>1. /\ runs' \subseteq Due /\ timers' = timers \ Due
        /\ UNCHANGED <<issued, adding, cancelled, mail, batch, fired>>
    BY <1>10 DEF CollectDue, Left
  <2>2. \A a, b : Elder(a, b) /\ b \in Due => a \notin timers \ Due
    <3>1. \A a, b : Elder(a, b) =>
             a[1] \in Nat /\ b[1] \in Nat /\ a[1] <= b[1]
      BY ElderFacts DEF Ids
    <3>. QED
      BY <1>b, <3>1 DEF Due
  <2>3. Due \subseteq timers
    BY DEF Due
  <2>. QED
    BY <1>e, <1>q, <1>r, <1>s, <2>1, <2>2, <2>3 DEF OrderInv
<1>11. CASE RunTimer
  <2>1. PICK id \in runs :
           IsNext(id) /\ fired' = fired \union {id} /\ runs' = runs \ {id}
    BY <1>11 DEF RunTimer
  <2>2. /\ pc = "run"
        /\ UNCHANGED <<issued, adding, cancelled, mail, batch, timers>>
    BY <1>11 DEF RunTimer
  <2>3. \A a : Elder(a, id) => a \in fired \union cancelled
    <3>1. SUFFICES ASSUME NEW a, Elder(a, id)
                   PROVE  a \in fired \union cancelled
      OBVIOUS
    <3>2. a \notin runs
      BY <2>1, <3>1, ElderFacts DEF IsNext
    <3>. QED
      BY <1>c, <2>1, <2>2, <3>1, <3>2 DEF OrderInv, KeptInv
  <2>. QED
    BY <1>e, <1>q, <1>r, <1>s, <2>1, <2>2, <2>3 DEF OrderInv
<1>. QED
    BY <1>2, <1>3, <1>4, <1>5, <1>6, <1>7, <1>8, <1>9, <1>10, <1>11
       DEF Next, LoopStep, UserStep, Stopped

-----------------------------------------------------------------------------
(* What wakes the loop for its timers.                                      *)

(* The waitable timer is set while run() runs, and never for later than     *)
(* MaxWait from now.                                                        *)
AwaitInv ==
    /\ platform = "win32" /\ pc \notin {"start", "stopped"} =>
          \E t \in due : t <= now + MaxWait
    /\ AwaitsTimers

(* Whatever _set_timer() counts from, it waits no longer than MaxWait.      *)
LEMMA SetTimerAhead ==
    ASSUME TypeOK, NEW base \in Nat, NEW heap \in SUBSET Ids,
           NEW first \in BOOLEAN, SetTimer(base, heap, first)
    PROVE  /\ due' = due \/ \E t \in due' : t <= now + MaxWait
           /\ platform = "win32" /\ first => \E t \in due' : t <= now + MaxWait
<1> DEFINE expire == Min({id[1] : id \in heap} \union {base + MaxWait})
           diff   == IF base < expire THEN expire - base ELSE 0
<1>1. {id[1] : id \in heap} \union {base + MaxWait} \in SUBSET Nat
    BY TimerAssumption DEF Ids
<1>2. expire \in Nat /\ expire <= base + MaxWait
    BY <1>1, MinInSet
<1>. HIDE DEF expire
<1>3. diff \in Nat /\ diff <= MaxWait
    BY <1>2, TimerAssumption
<1>. HIDE DEF diff
<1>4. /\ due' = {now + diff} \/ due' = due
      /\ platform = "win32" /\ first => due' = {now + diff}
    BY DEF SetTimer, expire, diff
<1>5. now + diff <= now + MaxWait
    BY <1>3, TimerAssumption DEF TypeOK
<1>. QED
    BY <1>4, <1>5

LEMMA AwaitStep ==
    ASSUME TypeOK, IssueInv, PlaceInv, AwaitInv, [Next]_vars
    PROVE  AwaitInv'
<1>a. /\ now \in Nat /\ called \in Nat /\ MaxWait \in Nat \ {0}
      /\ due \subseteq Nat /\ deadline \subseteq Nat /\ timers \subseteq Ids
      /\ batch \in Seq(Closures)
      /\ platform \in {"linux", "win32"}
    BY TimerAssumption DEF TypeOK
<1> USE DEF AwaitInv, AwaitsTimers, heapVars, awakeVars
<1>1. CASE Tick
  <2>1. \A t \in Nat : t <= now + MaxWait => t <= now + 1 + MaxWait
    BY <1>a
  <2>. QED
    BY <1>1, <1>a, <2>1 DEF Tick
<1>2. CASE PostTick
    BY <1>2, <1>a DEF PostTick
<1>3. CASE StartTimer
    BY <1>3, <1>a, SetTimerAhead DEF StartTimer
<1>4. ASSUME NEW w \in Workers, WorkerNewTimer(w) \/ WorkerPost(w) \/ WorkerCancel(w)
      PROVE  AwaitInv'
    BY <1>4 DEF WorkerNewTimer, WorkerPost, WorkerCancel
<1>5. CASE UserAddTimer
  <2>1. PICK d \in Delays : Issue(Loop, d) /\ TimerAdd(NewId(d), now)
    BY <1>5 DEF UserAddTimer
  <2>2. NewId(d) \in Ids
    BY <1>5, <2>1, NewIdFresh DEF UserAddTimer
  <2>3. due' = due \/ \E t \in due' : t <= now + MaxWait
    BY <1>a, <2>1, <2>2, SetTimerAhead DEF TimerAdd
  <2>4. pc # "wait" /\ UNCHANGED <<pc, platform, now>>
    BY <1>5 DEF UserAddTimer, InUser
  <2>. QED
    BY <2>3, <2>4
<1>6. CASE UserCancelTimer
    BY <1>6 DEF UserCancelTimer, TimerErase, InUser
<1>7. CASE StartWait
  <2>1. CASE platform = "linux"
    <3> DEFINE S == {id[1] : id \in timers} \union {now + MaxWait}
    <3>1. S \in SUBSET Nat
      BY <1>a DEF Ids
    <3>2. Min(S) <= now + MaxWait /\ \A id \in timers : Min(S) <= id[1]
      <4>1. now + MaxWait \in S /\ \A id \in timers : id[1] \in S
        OBVIOUS
      <4>2. S # {}
        BY <4>1
      <4>. HIDE DEF S
      <4>. QED
        BY <3>1, <4>1, <4>2, MinInSet
    <3>3. /\ deadline' = {Min(S)}
          /\ UNCHANGED <<platform, now, timers>>
      BY <1>7, <2>1 DEF StartWait, Deadline
    <3>. QED
      BY <2>1, <3>2, <3>3
  <2>2. CASE platform = "win32"
    BY <1>7, <2>2 DEF StartWait
  <2>. QED
    BY <1>a, <2>1, <2>2
<1>8. CASE Wake \/ WakeIo
    BY <1>8 DEF Wake, WakeIo, TakeCompletions
<1>9. CASE RunTask
  <2>1. /\ Head(batch) \in Closures
        /\ Head(batch).op = "add" => Head(batch).id \in Issued
    BY <1>9, <1>a, QueueTail DEF RunTask, PlaceInv
  <2>2. Head(batch).id \in Ids
    BY <2>1 DEF Closures
  <2>3. due' = due \/ \E t \in due' : t <= now + MaxWait
    <3>1. CASE Head(batch).op = "add" /\ TimerAdd(Head(batch).id, AddedAt(Head(batch).id))
      <4>1. AddedAt(Head(batch).id) \in Nat
        BY <2>1, <3>1, AddedAtType
      <4>. QED
        BY <1>a, <2>2, <3>1, <4>1, SetTimerAhead DEF TimerAdd
    <3>2. CASE Head(batch).op = "erase" /\ TimerErase(Head(batch).id)
      BY <3>2 DEF TimerErase
    <3>. QED
      BY <1>9, <3>1, <3>2 DEF RunTask
  <2>4. pc = "tasks" /\ UNCHANGED <<pc, platform, now>>
    BY <1>9 DEF RunTask
  <2>. QED
    BY <2>3, <2>4
<1>10. CASE SwapTasks \/ CollectDue \/ NoTick \/ RunTimer \/ TimerReturn
    BY <1>10 DEF SwapTasks, CollectDue, NoTick, RunTimer, TimerReturn
<1>11. CASE DropSlots
  <2>1. due' = due \/ \E t \in due' : t <= now + MaxWait
    BY <1>11, <1>a, SetTimerAhead DEF DropSlots
  <2>2. pc = "run" /\ pc' = "check" /\ UNCHANGED <<platform, now>>
    BY <1>11 DEF DropSlots
  <2>. QED
    BY <2>1, <2>2
<1>12. CASE StopTimer
    BY <1>12 DEF StopTimer
<1>13. CASE UNCHANGED vars
    BY <1>13 DEF vars
<1>. QED
    BY <1>1, <1>2, <1>3, <1>4, <1>5, <1>6, <1>7, <1>8, <1>9, <1>10, <1>11,
       <1>12, <1>13
       DEF Next, LoopStep, UserStep, Stopped

-----------------------------------------------------------------------------
(* The inductive invariant and what follows from it.                        *)

IndInv ==
    /\ TypeOK /\ IssueInv /\ PlaceInv /\ CancelInv
    /\ ClockInv /\ SourceInv /\ KeptInv /\ OrderInv /\ AwaitInv

(* Every reachable state satisfies the conjunction that each step of the    *)
(* threads, the timer thread and the loop preserves.                        *)
THEOREM InductiveInvariant == Spec => []IndInv
<1>1. Init => IndInv
  <2> SUFFICES ASSUME Init PROVE IndInv
      OBVIOUS
  <2>1. /\ AddIds(mail) = {} /\ EraseIds(mail) = {} /\ Distinct(mail)
        /\ AddIds(batch) = {} /\ EraseIds(batch) = {} /\ Distinct(batch)
    BY EmptyQueue DEF Init
  <2>2. DOMAIN issued = {} /\ Issued = {} /\ Adding = {} /\ Placed = {}
    BY EmptySeq DEF Init, Issued, Adding, Placed
  <2>3. TypeOK
    <3>1. /\ issued \in Seq([id : Ids, by : Workers \union {Loop}, delay : Delays])
          /\ mail \in Seq(Closures) /\ batch \in Seq(Closures)
      BY EmptySeq DEF Init
    <3>2. adding \in [Workers -> Ids \union {NoId}]
      BY DEF Init
    <3>3. {now, timerseq, called} \subseteq Nat
      BY DEF Init
    <3>4. {cancelled, timers, cancel_slots, runs, dead, fired} \subseteq SUBSET Ids
      BY DEF Init
    <3>. QED
      BY <3>1, <3>2, <3>3, <3>4 DEF Init, TypeOK
  <2>4. Sorted(mail) /\ Sorted(batch)
    BY <2>1 DEF Sorted, AddIds
  <2>5. IssueInv /\ ClockInv
    BY <2>2 DEF IssueInv, ClockInv
  <2>6. PlaceInv
    <3>1. \A w \in Workers : adding[w] = NoId
      BY DEF Init
    <3>. QED
      BY <2>1, <2>2, <3>1 DEF Init, PlaceInv
  <2>7. CancelInv
    BY DEF Init, CancelInv, CancelledStaysCancelled
  <2>8. SourceInv
    BY <2>2 DEF Init, SourceInv
  <2>9. KeptInv
    BY <2>1, <2>2 DEF Init, KeptInv
  <2>10. OrderInv
    BY <2>2, <2>4 DEF OrderInv, Elder
  <2>11. AwaitInv
    BY DEF Init, AwaitInv, AwaitsTimers
  <2>. QED
    BY <2>3, <2>5, <2>6, <2>7, <2>8, <2>9, <2>10, <2>11 DEF IndInv
<1>2. IndInv /\ [Next]_vars => IndInv'
    BY TypeStep, IssueStep, PlaceStep, CancelStep, ClockStep, SourceStep,
       KeptStep, OrderStep, AwaitStep
       DEF IndInv
<1>. QED
    BY <1>1, <1>2, PTL DEF Spec

(* The state of the timers stays well typed on either platform, the times   *)
(* the waits end at included.                                               *)
THEOREM TypeCorrect == Spec => []TypeOK
<1>1. IndInv => TypeOK
    BY DEF IndInv
<1>. QED
    BY <1>1, InductiveInvariant, PTL

(* A timer cancelled while it is in the heap never runs, whatever the       *)
(* clean-up of cancel_slots drops.                                          *)
THEOREM CancellationHolds == Spec => []CancelledStaysCancelled
<1>1. IndInv => CancelledStaysCancelled
    BY DEF IndInv, CancelInv
<1>. QED
    BY <1>1, InductiveInvariant, PTL

(* timer_call() runs a timer once, and not before its time.                 *)
THEOREM RunsOnceWhenDue == Spec => []FiresOnceWhenDue
<1>1. IndInv => FiresOnceWhenDue
    BY DEF IndInv, CancelInv, PlaceInv, FiresOnceWhenDue
<1>. QED
    BY <1>1, InductiveInvariant, PTL

(* Timers of one thread with one delay run in the order of add_timer(),     *)
(* through the queue, the batch, the heap and the run of what is due.       *)
THEOREM SameDelayKeepsOrder == Spec => []SameDelayInOrder
<1>1. IndInv => SameDelayInOrder
    BY DEF IndInv, OrderInv, Elder, SameDelayInOrder
<1>. QED
    BY <1>1, InductiveInvariant, PTL

(* Whatever time the waits are counted from, a loop that blocks is woken for*)
(* its timers.                                                              *)
THEOREM TimersAreAwaited == Spec => []AwaitsTimers
<1>1. IndInv => AwaitsTimers
    BY DEF IndInv, AwaitInv
<1>. QED
    BY <1>1, InductiveInvariant, PTL
=============================================================================
