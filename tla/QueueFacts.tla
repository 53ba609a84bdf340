----------------------------- MODULE QueueFacts -----------------------------
(***************************************************************************)
(* Facts about queues: the two ends of a concatenated one, which the proofs*)
(* that the loops implement Mailbox rest on, and queues that hold nothing  *)
(* twice.                                                                  *)
(***************************************************************************)
EXTENDS Integers, Sequences, SequenceTheorems, TLAPS

(* What arrives at the end of the second part arrives at the end.           *)
LEMMA AppendConcat ==
    ASSUME NEW S, NEW a \in Seq(S), NEW b \in Seq(S), NEW x \in S
    PROVE  a \o Append(b, x) = Append(a \o b, x)
<1>1. <<x>> \in Seq(S)
    OBVIOUS
<1>2. a \o Append(b, x) = a \o (b \o <<x>>)
    BY AppendIsConcat
<1>3. Append(a \o b, x) = (a \o b) \o <<x>>
    BY ConcatProperties, AppendIsConcat
<1>. QED
    BY <1>1, <1>2, <1>3, ConcatAssociative

(* What leaves the front of the first part leaves the front.               *)
LEMMA HeadTailConcat ==
    ASSUME NEW S, NEW a \in Seq(S), NEW b \in Seq(S), a # <<>>
    PROVE  /\ a \o b # <<>>
           /\ Head(a \o b) = Head(a)
           /\ Tail(a \o b) = Tail(a) \o b
<1>1. /\ a \o b \in Seq(S)
      /\ Len(a \o b) = Len(a) + Len(b)
      /\ \A i \in 1 .. Len(a) + Len(b) :
            (a \o b)[i] = IF i <= Len(a) THEN a[i] ELSE b[i - Len(a)]
    BY ConcatProperties
<1>2. Len(a) \in Nat \ {0} /\ Len(b) \in Nat
    BY EmptySeq, LenProperties
<1>3. a \o b # <<>>
    BY <1>1, <1>2, EmptySeq
<1>4. /\ Tail(a) \in Seq(S)
      /\ Len(Tail(a)) = Len(a) - 1
      /\ \A i \in 1 .. Len(Tail(a)) : Tail(a)[i] = a[i + 1]
    BY HeadTailProperties
<1>5. /\ Tail(a \o b) \in Seq(S)
      /\ Len(Tail(a \o b)) = Len(a \o b) - 1
      /\ \A i \in 1 .. Len(Tail(a \o b)) : Tail(a \o b)[i] = (a \o b)[i + 1]
    BY <1>1, <1>3, HeadTailProperties
<1>6. /\ Tail(a) \o b \in Seq(S)
      /\ Len(Tail(a) \o b) = Len(Tail(a)) + Len(b)
      /\ \A i \in 1 .. Len(Tail(a)) + Len(b) : (Tail(a) \o b)[i] =
            IF i <= Len(Tail(a)) THEN Tail(a)[i] ELSE b[i - Len(Tail(a))]
    BY <1>4, ConcatProperties
<1>7. Head(a \o b) = Head(a)
    BY <1>1, <1>2
<1>8. Tail(a \o b) = Tail(a) \o b
  <2>1. Len(Tail(a \o b)) = Len(Tail(a) \o b)
    BY <1>1, <1>2, <1>4, <1>5, <1>6
  <2>2. ASSUME NEW i \in 1 .. Len(Tail(a \o b))
        PROVE  Tail(a \o b)[i] = (Tail(a) \o b)[i]
    <3>1. Tail(a \o b)[i] = IF i + 1 <= Len(a) THEN a[i + 1]
                                              ELSE b[i + 1 - Len(a)]
      BY <1>1, <1>2, <1>5
    <3>2. (Tail(a) \o b)[i] = IF i <= Len(Tail(a)) THEN Tail(a)[i]
                                                  ELSE b[i - Len(Tail(a))]
      BY <1>1, <1>2, <1>4, <1>5, <1>6
    <3>3. CASE i + 1 <= Len(a)
      BY <1>2, <1>4, <3>1, <3>2, <3>3
    <3>4. CASE ~(i + 1 <= Len(a))
      <4>1. i + 1 - Len(a) = i - Len(Tail(a))
        BY <1>2, <1>4
      <4>. QED
        BY <1>2, <1>4, <3>1, <3>2, <3>4, <4>1
    <3>. QED
      BY <3>3, <3>4
  <2>. QED
    BY <1>5, <1>6, <2>1, <2>2, SeqEqual
<1>. QED
    BY <1>3, <1>7, <1>8

-----------------------------------------------------------------------------
In(x, q) == \E i \in 1 .. Len(q) : q[i] = x

Unique(q) == \A i, j \in 1 .. Len(q) : q[i] = q[j] => i = j

LEMMA InEmpty == \A x : ~In(x, <<>>)
    BY EmptySeq DEF In

(* Of one element only.                                                     *)
Single(x, q) == \A i, j \in 1 .. Len(q) : q[i] = x /\ q[j] = x => i = j

(* What leaves the front may be in the rest too, unless it was there once.  *)
LEMMA QueueTail ==
    ASSUME NEW S, NEW q \in Seq(S), q # <<>>
    PROVE  /\ Head(q) \in S
           /\ In(Head(q), q)
           /\ Tail(q) \in Seq(S)
           /\ \A x : In(x, Tail(q)) => In(x, q)
           /\ \A x : In(x, q) /\ x # Head(q) => In(x, Tail(q))
           /\ \A x : Single(x, q) => Single(x, Tail(q))
           /\ Single(Head(q), q) => ~In(Head(q), Tail(q))
<1>1. /\ Len(q) \in Nat \ {0}
      /\ Head(q) = q[1] /\ Head(q) \in S
      /\ Tail(q) \in Seq(S)
      /\ Len(Tail(q)) = Len(q) - 1
      /\ \A i \in 1 .. Len(Tail(q)) : Tail(q)[i] = q[i + 1]
    BY HeadTailProperties, LenProperties, EmptySeq
<1>2. ASSUME NEW x, Single(x, q)
      PROVE  Single(x, Tail(q))
  <2> SUFFICES ASSUME NEW i \in 1 .. Len(Tail(q)), NEW j \in 1 .. Len(Tail(q)),
                      Tail(q)[i] = x, Tail(q)[j] = x
               PROVE  i = j
      BY DEF Single
  <2>1. /\ q[i + 1] = x /\ q[j + 1] = x
        /\ i + 1 \in 1 .. Len(q) /\ j + 1 \in 1 .. Len(q)
    BY <1>1
  <2>2. i + 1 = j + 1
    BY <1>2, <2>1 DEF Single
  <2>. QED
    BY <1>1, <2>2
<1>3. ASSUME NEW x, In(x, Tail(q))
      PROVE  In(x, q) /\ (x = Head(q) => ~Single(x, q))
  <2>1. PICK i \in 1 .. Len(Tail(q)) : Tail(q)[i] = x
    BY <1>3 DEF In
  <2>2. i + 1 \in 1 .. Len(q) /\ q[i + 1] = x /\ i + 1 # 1
    BY <1>1, <2>1
  <2>3. 1 \in 1 .. Len(q)
    BY <1>1
  <2>4. In(x, q)
    BY <2>2 DEF In
  <2>5. Single(x, q) => q[1] # x
    BY <2>2, <2>3 DEF Single
  <2>. QED
    BY <1>1, <2>4, <2>5
<1>4. ASSUME NEW x, In(x, q), x # Head(q)
      PROVE  In(x, Tail(q))
  <2>1. PICK i \in 1 .. Len(q) : q[i] = x
    BY <1>4 DEF In
  <2>2. i # 1
    BY <1>1, <1>4, <2>1
  <2>3. i - 1 \in 1 .. Len(Tail(q)) /\ (i - 1) + 1 = i
    BY <1>1, <2>2
  <2>4. Tail(q)[i - 1] = x
    BY <1>1, <2>1, <2>3
  <2>. QED
    BY <2>3, <2>4 DEF In
<1>5. In(Head(q), q)
    BY <1>1 DEF In
<1>. QED
    BY <1>1, <1>2, <1>3, <1>4, <1>5

(* What a queue does not hold is there once when it is added to its end.    *)
LEMMA QueueAppend ==
    ASSUME NEW S, NEW q \in Seq(S), NEW y \in S
    PROVE  /\ Append(q, y) \in Seq(S)
           /\ \A x : In(x, Append(q, y)) <=> In(x, q) \/ x = y
           /\ \A x : Single(x, q) /\ x # y => Single(x, Append(q, y))
           /\ ~In(y, q) => Single(y, Append(q, y))
<1>1. /\ Len(q) \in Nat
      /\ Append(q, y) \in Seq(S)
      /\ Len(Append(q, y)) = Len(q) + 1
      /\ \A i \in 1 .. Len(q) : Append(q, y)[i] = q[i]
      /\ Append(q, y)[Len(q) + 1] = y
    BY AppendProperties, LenProperties
<1>2. ASSUME NEW x, Single(x, q), x # y
      PROVE  Single(x, Append(q, y))
  <2> SUFFICES ASSUME NEW i \in 1 .. Len(q) + 1, NEW j \in 1 .. Len(q) + 1,
                      Append(q, y)[i] = x, Append(q, y)[j] = x
               PROVE  i = j
      BY <1>1 DEF Single
  <2>1. i \in 1 .. Len(q) /\ j \in 1 .. Len(q)
    BY <1>1, <1>2
  <2>. QED
    BY <1>1, <1>2, <2>1 DEF Single
<1>3. ASSUME ~In(y, q)
      PROVE  Single(y, Append(q, y))
    BY <1>1, <1>3 DEF In, Single
<1>4. ASSUME NEW x
      PROVE  In(x, Append(q, y)) <=> In(x, q) \/ x = y
  <2>1. ASSUME In(x, Append(q, y)) PROVE In(x, q) \/ x = y
    <3>1. PICK i \in 1 .. Len(q) + 1 : Append(q, y)[i] = x
      BY <1>1, <2>1 DEF In
    <3>2. i \in 1 .. Len(q) \/ i = Len(q) + 1
      BY <1>1
    <3>. QED
      BY <1>1, <3>1, <3>2 DEF In
  <2>2. ASSUME In(x, q) PROVE In(x, Append(q, y))
    <3>1. PICK i \in 1 .. Len(q) : q[i] = x
      BY <2>2 DEF In
    <3>2. i \in 1 .. Len(Append(q, y)) /\ Append(q, y)[i] = x
      BY <1>1, <3>1
    <3>. QED
      BY <3>2 DEF In
  <2>3. In(y, Append(q, y))
    <3>1. Len(q) + 1 \in 1 .. Len(Append(q, y))
      BY <1>1
    <3>. QED
      BY <1>1, <3>1 DEF In
  <2>. QED
    BY <2>1, <2>2, <2>3
<1>. QED
    BY <1>1, <1>2, <1>3, <1>4

LEMMA UniqueIsSingle ==
    ASSUME NEW S, NEW q \in Seq(S)
    PROVE  Unique(q) <=> \A x : Single(x, q)
    BY DEF Unique, Single

(* The front of a queue that holds nothing twice leaves it.                 *)
LEMMA UniqueTail ==
    ASSUME NEW S, NEW q \in Seq(S), q # <<>>, Unique(q)
    PROVE  /\ Head(q) \in S
           /\ In(Head(q), q)
           /\ Tail(q) \in Seq(S)
           /\ Unique(Tail(q))
           /\ \A x : In(x, Tail(q)) <=> In(x, q) /\ x # Head(q)
<1>1. \A x : Single(x, q)
    BY UniqueIsSingle
<1>2. Tail(q) \in Seq(S)
    BY QueueTail
<1>3. (\A x : Single(x, Tail(q))) => Unique(Tail(q))
    BY <1>2, UniqueIsSingle
<1>. QED
    BY <1>1, <1>3, QueueTail

(* What a queue does not hold can be added to its end.                      *)
LEMMA UniqueAppend ==
    ASSUME NEW S, NEW q \in Seq(S), NEW y \in S, Unique(q), ~In(y, q)
    PROVE  /\ Append(q, y) \in Seq(S)
           /\ Unique(Append(q, y))
           /\ \A x : In(x, Append(q, y)) <=> In(x, q) \/ x = y
<1>1. \A x : Single(x, q)
    BY UniqueIsSingle
<1>2. Append(q, y) \in Seq(S)
    BY QueueAppend
<1>3. (\A x : Single(x, Append(q, y))) => Unique(Append(q, y))
    BY <1>2, UniqueIsSingle
<1>. QED
    BY <1>1, <1>3, QueueAppend

-----------------------------------------------------------------------------
(* A stack on top of another: what is pushed and popped is the top's.       *)
LEMMA ConcatPop ==
    ASSUME NEW S, NEW a \in Seq(S), NEW b \in Seq(S), b # <<>>
    PROVE  /\ a \o b # <<>>
           /\ (a \o b)[Len(a \o b)] = b[Len(b)]
           /\ b[Len(b)] \in S
           /\ SubSeq(a \o b, 1, Len(a \o b) - 1) =
                 a \o SubSeq(b, 1, Len(b) - 1)
           /\ SubSeq(b, 1, Len(b) - 1) \in Seq(S)
<1>1. /\ a \o b \in Seq(S)
      /\ Len(a \o b) = Len(a) + Len(b)
      /\ \A i \in 1 .. Len(a) + Len(b) :
            (a \o b)[i] = IF i <= Len(a) THEN a[i] ELSE b[i - Len(a)]
    BY ConcatProperties
<1>2. Len(a) \in Nat /\ Len(b) \in Nat \ {0}
    BY EmptySeq, LenProperties
<1>3. a \o b # <<>>
    BY <1>1, <1>2, EmptySeq
<1>4. (a \o b)[Len(a \o b)] = b[Len(b)] /\ b[Len(b)] \in S
  <2>1. /\ (a \o b)[Len(a) + Len(b)] = b[Len(a) + Len(b) - Len(a)]
        /\ Len(a) + Len(b) - Len(a) = Len(b)
    BY <1>1, <1>2
  <2>. QED
    BY <1>1, <1>2, <2>1, ElementOfSeq
<1> DEFINE l == SubSeq(a \o b, 1, Len(a \o b) - 1)
           r == SubSeq(b, 1, Len(b) - 1)
<1>5. /\ r \in Seq(S) /\ Len(r) = Len(b) - 1
      /\ \A i \in 1 .. Len(b) - 1 : r[i] = b[i]
  <2>1. \A i \in 1 .. Len(b) - 1 : b[i] \in S
    BY <1>2, ElementOfSeq
  <2>2. Len(b) - 1 \in Int
    BY <1>2
  <2>3. /\ r \in Seq(S)
        /\ Len(r) = IF 1 <= Len(b) - 1 THEN (Len(b) - 1) - 1 + 1 ELSE 0
        /\ \A i \in 1 .. (Len(b) - 1) - 1 + 1 : r[i] = b[1 + i - 1]
    BY <2>1, <2>2, SubSeqProperties
  <2> HIDE DEF r
  <2>4. CASE Len(b) = 1
    BY <2>3, <2>4
  <2>5. CASE Len(b) # 1
    <3>1. 1 <= Len(b) - 1 /\ (Len(b) - 1) - 1 + 1 = Len(b) - 1
      <4>1. \A n \in Nat \ {0} : n # 1 => 1 <= n - 1 /\ (n - 1) - 1 + 1 = n - 1
        OBVIOUS
      <4>. QED
        BY <1>2, <2>5, <4>1
    <3>2. \A i \in 1 .. Len(b) - 1 : 1 + i - 1 = i
      BY <1>2
    <3>. QED
      BY <2>3, <3>1, <3>2
  <2>. QED
    BY <2>4, <2>5
<1>6. /\ l \in Seq(S) /\ Len(l) = Len(a) + Len(b) - 1
      /\ \A i \in 1 .. Len(a) + Len(b) - 1 : l[i] = (a \o b)[i]
  <2>1. \A i \in 1 .. Len(a \o b) - 1 : (a \o b)[i] \in S
    BY <1>1, <1>2, ElementOfSeq
  <2>. QED
    BY <1>1, <1>2, <2>1, SubSeqProperties
<1>7. /\ a \o r \in Seq(S)
      /\ Len(a \o r) = Len(a) + Len(r)
      /\ \A i \in 1 .. Len(a) + Len(r) :
            (a \o r)[i] = IF i <= Len(a) THEN a[i] ELSE r[i - Len(a)]
    BY <1>5, ConcatProperties
<1>8. l = a \o r
  <2>1. Len(l) = Len(a \o r)
    BY <1>2, <1>5, <1>6, <1>7
  <2>2. ASSUME NEW i \in 1 .. Len(l)
        PROVE  l[i] = (a \o r)[i]
    <3>1. CASE i <= Len(a)
      BY <1>1, <1>2, <1>5, <1>6, <1>7, <3>1
    <3>2. CASE ~(i <= Len(a))
      <4>1. i - Len(a) \in 1 .. Len(b) - 1
        BY <1>2, <1>6, <3>2
      <4>2. l[i] = b[i - Len(a)]
        BY <1>1, <1>2, <1>6, <3>2
      <4>3. (a \o r)[i] = r[i - Len(a)]
        BY <1>2, <1>5, <1>6, <1>7, <3>2
      <4>. QED
        BY <1>5, <4>1, <4>2, <4>3
    <3>. QED
      BY <3>1, <3>2
  <2>. QED
    BY <1>6, <1>7, <2>1, <2>2, SeqEqual
<1>. QED
    BY <1>3, <1>4, <1>5, <1>8
=============================================================================
