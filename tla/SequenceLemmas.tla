---------------------------- MODULE SequenceLemmas ----------------------------
(***************************************************************************)
(* Facts about sequences used as queues, for the proofs about the locks:   *)
(* what joining and leaving a queue without repetition does to its members.*)
(***************************************************************************)
EXTENDS Naturals, Sequences, TLAPS

Occurs(e, q) == \E i \in 1 .. Len(q) : q[i] = e

Distinct(q) == \A i, j \in 1 .. Len(q) : q[i] = q[j] => i = j

Precedes(e, d, q) == \E i, j \in 1 .. Len(q) : i < j /\ q[i] = e /\ q[j] = d

\* The first element of a queue, and the others.
LEMMA HeadIsFirst ==
  ASSUME NEW S, NEW q \in Seq(S), q # <<>>
  PROVE  /\ Len(q) \in Nat /\ Len(q) >= 1 /\ 1 \in 1 .. Len(q)
         /\ Head(q) = q[1]
         /\ Head(q) \in S
         /\ Occurs(Head(q), q)
         /\ Tail(q) \in Seq(S)
         /\ Len(Tail(q)) = Len(q) - 1
         /\ \A i \in 1 .. Len(Tail(q)) : Tail(q)[i] = q[i + 1]
  BY SMT DEF Occurs

\* Nobody is in an empty queue, and only an empty queue has no members.
LEMMA EmptyQueue ==
  ASSUME NEW S, NEW q \in Seq(S)
  PROVE  q = <<>> <=> \A e \in S : ~Occurs(e, q)
  <1>1. ASSUME q = <<>>, NEW e \in S PROVE ~Occurs(e, q)
    BY <1>1, SMT DEF Occurs
  <1>2. ASSUME q # <<>> PROVE \E e \in S : Occurs(e, q)
    BY <1>2, HeadIsFirst
  <1> QED BY <1>1, <1>2

\* Whoever is not in a queue may join it.
LEMMA Joins ==
  ASSUME NEW S, NEW q \in Seq(S), NEW e \in S
  PROVE  /\ Append(q, e) \in Seq(S)
         /\ Append(q, e) # <<>>
         /\ q # <<>> => Head(Append(q, e)) = Head(q)
         /\ \A d : Occurs(d, Append(q, e)) <=> d = e \/ Occurs(d, q)
         /\ Distinct(q) /\ ~Occurs(e, q) => Distinct(Append(q, e))
  <1>1. /\ Append(q, e) \in Seq(S)
        /\ Len(q) \in Nat
        /\ Len(Append(q, e)) = Len(q) + 1
        /\ Append(q, e)[Len(q) + 1] = e
        /\ \A i \in 1 .. Len(q) : Append(q, e)[i] = q[i]
    BY SMT
  <1>2. Append(q, e) # <<>> /\ (q # <<>> => Head(Append(q, e)) = Head(q))
    <2>1. Append(q, e) # <<>>
      <3>1. Len(<<>>) = 0
        OBVIOUS
      <3> QED BY <1>1, <3>1
    <2>2. q # <<>> => Head(Append(q, e)) = Head(q)
      BY SMT
    <2> QED BY <2>1, <2>2
  <1>3. \A d : Occurs(d, Append(q, e)) <=> d = e \/ Occurs(d, q)
    BY <1>1, SMT DEF Occurs
  <1>4. Distinct(q) /\ ~Occurs(e, q) => Distinct(Append(q, e))
    BY <1>1, SMT DEF Occurs, Distinct
  <1> QED BY <1>1, <1>2, <1>3, <1>4

\* The head of a queue without repetition leaves it, and nobody else does.
LEMMA Leaves ==
  ASSUME NEW S, NEW q \in Seq(S), q # <<>>, Distinct(q)
  PROVE  /\ Distinct(Tail(q))
         /\ \A e : Occurs(e, Tail(q)) <=> e # Head(q) /\ Occurs(e, q)
  <1>1. Distinct(Tail(q))
    BY HeadIsFirst, SMT DEF Distinct
  <1>2. ASSUME NEW e, NEW i \in 1 .. Len(Tail(q)), Tail(q)[i] = e
        PROVE  e # Head(q) /\ \E j \in 1 .. Len(q) : q[j] = e
    <2>1. i + 1 \in 1 .. Len(q) /\ q[i + 1] = e /\ i + 1 # 1
      BY <1>2, HeadIsFirst
    <2> QED BY <2>1, HeadIsFirst DEF Distinct
  <1>3. ASSUME NEW e, NEW i \in 1 .. Len(q), q[i] = e, e # Head(q)
        PROVE  \E j \in 1 .. Len(Tail(q)) : Tail(q)[j] = e
    <2>1. i # 1
      BY <1>3, HeadIsFirst
    <2>2. i - 1 \in 1 .. Len(Tail(q)) /\ Tail(q)[i - 1] = q[(i - 1) + 1]
      BY <2>1, <1>3, HeadIsFirst
    <2> QED BY <2>2, <1>3
  <1> QED BY <1>1, <1>2, <1>3 DEF Occurs

\* The order of a queue outlasts those who join it.
LEMMA JoinsBehind ==
  ASSUME NEW S, NEW q \in Seq(S), NEW c \in S
  PROVE  \A e, d : Precedes(e, d, q) => Precedes(e, d, Append(q, c))
  <1>1. /\ Len(q) \in Nat /\ Len(Append(q, c)) = Len(q) + 1
        /\ \A i \in 1 .. Len(q) : i \in 1 .. Len(q) + 1 /\ Append(q, c)[i] = q[i]
    BY SMT
  <1> QED BY <1>1 DEF Precedes

\* The head leaves before all the others, who keep their order.
LEMMA LeavesInOrder ==
  ASSUME NEW S, NEW q \in Seq(S), NEW e, NEW d, Precedes(e, d, q)
  PROVE  q # <<>> /\ (Head(q) = e \/ Precedes(e, d, Tail(q)))
  <1>1. PICK i \in 1 .. Len(q), j \in 1 .. Len(q) : i < j /\ q[i] = e /\ q[j] = d
    BY DEF Precedes
  <1>2. q # <<>> /\ Len(q) \in Nat
    BY <1>1
  <1>3. CASE i = 1
    BY <1>1, <1>2, <1>3, HeadIsFirst
  <1>4. CASE i # 1
    <2>1. /\ i - 1 \in 1 .. Len(Tail(q)) /\ j - 1 \in 1 .. Len(Tail(q)) /\ i - 1 < j - 1
          /\ (i - 1) + 1 = i /\ (j - 1) + 1 = j
      BY <1>1, <1>2, <1>4, HeadIsFirst
    <2>2. Tail(q)[i - 1] = e /\ Tail(q)[j - 1] = d
      BY <1>1, <1>2, <2>1, HeadIsFirst
    <2> QED BY <1>2, <2>1, <2>2 DEF Precedes
  <1> QED BY <1>2, <1>3, <1>4
===============================================================================
