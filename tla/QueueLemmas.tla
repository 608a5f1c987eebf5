---------------------------- MODULE QueueLemmas -----------------------------
(***************************************************************************)
(* Facts about sequences used as queues: what Append and Tail do to the    *)
(* elements of a queue, and to a history that is split into what has left  *)
(* the queue and what is still in it.                                      *)
(***************************************************************************)
EXTENDS Naturals, Sequences, SequenceTheorems, TLAPS

Elems(q)    == {q[i] : i \in 1 .. Len(q)}
Distinct(q) == \A i, j \in 1 .. Len(q) : q[i] = q[j] => i = j

(* What is appended to a queue and taken from it, by index. *)
LEMMA AppendAt ==
  ASSUME NEW S, NEW q \in Seq(S), NEW x \in S
  PROVE  /\ Len(q) \in Nat /\ Len(Append(q, x)) = Len(q) + 1
         /\ \A i \in 1 .. Len(q) : Append(q, x)[i] = q[i]
         /\ Append(q, x)[Len(q) + 1] = x
  OBVIOUS

LEMMA TailAt ==
  ASSUME NEW S, NEW q \in Seq(S), q # <<>>
  PROVE  /\ Len(q) \in Nat \ {0} /\ Len(Tail(q)) = Len(q) - 1 /\ Head(q) = q[1]
         /\ \A i \in 1 .. Len(q) - 1 : Tail(q)[i] = q[i + 1]
         /\ Tail(q) \in Seq(S) /\ Head(q) \in S
  OBVIOUS

(* The elements of a queue over S are in S. *)
LEMMA ElemsType ==
  ASSUME NEW S, NEW q \in Seq(S)
  PROVE  Elems(q) \subseteq S
  BY DEF Elems

(* Appending a new element adds it to the elements and keeps them distinct. *)
LEMMA AppendElems ==
  ASSUME NEW S, NEW q \in Seq(S), NEW x \in S, x \notin Elems(q), Distinct(q)
  PROVE  Elems(Append(q, x)) = Elems(q) \cup {x} /\ Distinct(Append(q, x))
  <1> DEFINE r == Append(q, x)
  <1>1. Len(r) = Len(q) + 1 /\ Len(q) \in Nat
    OBVIOUS
  <1>2. \A i \in 1 .. Len(q) : r[i] = q[i]
    OBVIOUS
  <1>3. r[Len(q) + 1] = x
    OBVIOUS
  <1> HIDE DEF r
  <1>4. Elems(r) = Elems(q) \cup {x}
    BY <1>1, <1>2, <1>3 DEF Elems
  <1>5. Distinct(r)
    BY <1>1, <1>2, <1>3 DEF Elems, Distinct
  <1> QED BY <1>4, <1>5 DEF r

(* Taking the head away removes it from the elements, if they are distinct. *)
LEMMA TailElems ==
  ASSUME NEW S, NEW q \in Seq(S), q # <<>>, Distinct(q)
  PROVE  /\ Elems(Tail(q)) = Elems(q) \ {Head(q)} /\ Distinct(Tail(q))
         /\ Head(q) \in Elems(q)
  <1> DEFINE r == Tail(q)
  <1>1. Len(q) \in Nat /\ Len(q) > 0 /\ Len(r) = Len(q) - 1
    OBVIOUS
  <1>2. \A i \in 1 .. Len(r) : r[i] = q[i + 1]
    OBVIOUS
  <1>3. Head(q) = q[1]
    OBVIOUS
  <1> HIDE DEF r
  <1>4. Elems(r) = Elems(q) \ {Head(q)}
    <2>1. \A x \in Elems(r) : x \in Elems(q) \ {Head(q)}
      BY <1>1, <1>2, <1>3 DEF Elems, Distinct
    <2>2. ASSUME NEW x \in Elems(q), x # Head(q) PROVE x \in Elems(r)
      <3>1. PICK i \in 1 .. Len(q) : q[i] = x
        BY DEF Elems
      <3>2. i - 1 \in 1 .. Len(r) /\ r[i - 1] = x
        BY <1>1, <1>2, <1>3, <2>2, <3>1
      <3> QED BY <3>2 DEF Elems
    <2> QED BY <2>1, <2>2
  <1>5. Distinct(r)
    BY <1>1, <1>2 DEF Distinct
  <1>6. Head(q) \in Elems(q)
    BY <1>1, <1>3 DEF Elems
  <1> QED BY <1>4, <1>5, <1>6 DEF r

(* What is appended to the queue is appended to the history. *)
LEMMA HistoryAppend ==
  ASSUME NEW S, NEW h \in Seq(S), NEW q \in Seq(S), NEW x \in S,
         NEW a, a = h \o q, NEW a2, a2 = Append(a, x), NEW q2, q2 = Append(q, x)
  PROVE  a2 = h \o q2
  <1>1. a \in Seq(S) /\ <<x>> \in Seq(S)
    BY ConcatProperties
  <1>2. a2 = a \o <<x>>
    BY <1>1, AppendIsConcat
  <1>3. q2 = q \o <<x>>
    BY AppendIsConcat
  <1>4. (h \o q) \o <<x>> = h \o (q \o <<x>>)
    BY <1>1, ConcatAssociative
  <1> QED BY ONLY <1>2, <1>3, <1>4, a = h \o q, Zenon

(* Moving the head of the queue to what has left it keeps the history. *)
LEMMA HistoryTail ==
  ASSUME NEW S, NEW h \in Seq(S), NEW q \in Seq(S), q # <<>>
  PROVE  Append(h, Head(q)) \o Tail(q) = h \o q
  OBVIOUS
=============================================================================
