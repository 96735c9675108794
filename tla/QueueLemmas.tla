---------------------------- MODULE QueueLemmas ----------------------------
(***************************************************************************)
(* Facts about sequences used as queues and buffers, and the least of a    *)
(* set of positions, which the proofs about both transports rest on.       *)
(***************************************************************************)
EXTENDS Integers, Sequences, SequenceTheorems, WellFoundedInduction, TLAPS

(* One sequence after another.                                             *)
LEMMA Joined ==
  ASSUME NEW S, NEW s \in Seq(S), NEW t \in Seq(S)
  PROVE  /\ s \o t \in Seq(S) /\ DOMAIN (s \o t) = 1..Len(s \o t)
         /\ Len(s) \in Nat /\ Len(t) \in Nat
         /\ Len(s \o t) = Len(s) + Len(t)
         /\ \A i \in 1..Len(s) : (s \o t)[i] = s[i]
         /\ \A i \in Len(s) + 1 .. Len(s) + Len(t) :
              (s \o t)[i] = t[i - Len(s)]
<1>1. /\ s \o t \in Seq(S) /\ Len(s \o t) = Len(s) + Len(t)
      /\ \A i \in 1 .. Len(s) + Len(t) :
           (s \o t)[i] = IF i <= Len(s) THEN s[i] ELSE t[i - Len(s)]
  BY ConcatProperties
<1>2. /\ Len(s) \in Nat /\ Len(t) \in Nat
      /\ DOMAIN (s \o t) = 1..Len(s \o t)
  BY <1>1
<1>3. \A i \in 1..Len(s) : (s \o t)[i] = s[i]
  BY <1>1, <1>2
<1>4. \A i \in Len(s) + 1 .. Len(s) + Len(t) : (s \o t)[i] = t[i - Len(s)]
  BY <1>1, <1>2
<1>. QED BY <1>1, <1>2, <1>3, <1>4

(* What is in two sequences joined is in one of them.                      *)
LEMMA ElementsJoined ==
  ASSUME NEW S, NEW s \in Seq(S), NEW t \in Seq(S), NEW i \in DOMAIN (s \o t)
  PROVE  \/ \E j \in DOMAIN s : (s \o t)[i] = s[j]
         \/ \E j \in DOMAIN t : (s \o t)[i] = t[j]
<1>1. /\ DOMAIN (s \o t) = 1..Len(s \o t)
      /\ Len(s) \in Nat /\ Len(t) \in Nat
      /\ Len(s \o t) = Len(s) + Len(t)
      /\ \A j \in 1..Len(s) : (s \o t)[j] = s[j]
      /\ \A j \in Len(s) + 1 .. Len(s) + Len(t) : (s \o t)[j] = t[j - Len(s)]
  BY Joined
<1>2. DOMAIN s = 1..Len(s) /\ DOMAIN t = 1..Len(t)
  OBVIOUS
<1>3. i \in 1..Len(s) \/ i \in Len(s) + 1 .. Len(s) + Len(t)
  BY <1>1
<1>4. \A j \in Len(s) + 1 .. Len(s) + Len(t) : j - Len(s) \in 1..Len(t)
  BY <1>1
<1>. QED BY <1>1, <1>2, <1>3, <1>4

(* What follows the first e of a sequence.                                 *)
LEMMA Remaining ==
  ASSUME NEW S, NEW q \in Seq(S), NEW e \in 0..Len(q)
  PROVE  /\ SubSeq(q, e + 1, Len(q)) \in Seq(S)
         /\ Len(SubSeq(q, e + 1, Len(q))) = Len(q) - e
         /\ \A i \in 1..Len(q) - e : SubSeq(q, e + 1, Len(q))[i] = q[i + e]
OBVIOUS

(* A sequence is what comes first in it and what follows that.             *)
LEMMA CutInTwo ==
  ASSUME NEW S, NEW q \in Seq(S), NEW n \in 0..Len(q)
  PROVE  /\ SubSeq(q, 1, n) \in Seq(S) /\ Len(SubSeq(q, 1, n)) = n
         /\ \A i \in 1..n : SubSeq(q, 1, n)[i] = q[i]
         /\ SubSeq(q, 1, n) \o SubSeq(q, n + 1, Len(q)) = q
<1>1. /\ SubSeq(q, 1, n) \in Seq(S) /\ Len(SubSeq(q, 1, n)) = n
      /\ \A i \in 1..n : SubSeq(q, 1, n)[i] = q[i]
  OBVIOUS
<1>2. /\ 1 \in 1 .. Len(q) + 1 /\ n \in 1 - 1 .. Len(q)
      /\ Len(q) \in n .. Len(q)
  OBVIOUS
<1>3. SubSeq(q, 1, n) \o SubSeq(q, n + 1, Len(q)) = SubSeq(q, 1, Len(q))
  BY <1>2, ConcatAdjacentSubSeq
<1>. QED BY <1>1, <1>3, SubSeqFull

(* The first e of the first of two sequences may go before they are joined *)
(* or after.                                                               *)
LEMMA CutBefore ==
  ASSUME NEW S, NEW q \in Seq(S), NEW r \in Seq(S), NEW e \in 0..Len(q)
  PROVE  SubSeq(q, e + 1, Len(q)) \o r = SubSeq(q \o r, e + 1, Len(q \o r))
<1>. DEFINE t == SubSeq(q, e + 1, Len(q))
            w == q \o r
            v == SubSeq(w, e + 1, Len(w))
<1>1. /\ t \in Seq(S) /\ Len(t) = Len(q) - e
      /\ \A i \in 1..Len(q) - e : t[i] = q[i + e]
  BY Remaining
<1>2. /\ w \in Seq(S) /\ Len(w) = Len(q) + Len(r)
      /\ Len(q) \in Nat /\ Len(r) \in Nat
      /\ \A i \in 1..Len(q) : w[i] = q[i]
      /\ \A i \in Len(q) + 1 .. Len(q) + Len(r) : w[i] = r[i - Len(q)]
  BY Joined
<1>3. e \in 0..Len(w)
  BY <1>2
<1>4. /\ v \in Seq(S) /\ Len(v) = Len(w) - e
      /\ \A i \in 1..Len(w) - e : v[i] = w[i + e]
  <2>. HIDE DEF w
  <2>. QED BY <1>2, <1>3, Remaining
<1>5. /\ t \o r \in Seq(S) /\ Len(t \o r) = Len(t) + Len(r)
      /\ \A i \in 1..Len(t) : (t \o r)[i] = t[i]
      /\ \A i \in Len(t) + 1 .. Len(t) + Len(r) : (t \o r)[i] = r[i - Len(t)]
  <2>. HIDE DEF t
  <2>. QED BY <1>1, Joined
<1>. HIDE DEF t, v, w
<1>6. Len(t \o r) = Len(v)
  BY <1>1, <1>2, <1>4, <1>5
<1>7. ASSUME NEW i \in 1..Len(v)
      PROVE  (t \o r)[i] = v[i]
  <2>1. PICK j \in Nat : j = i + e /\ j \in 1..Len(w)
    BY <1>2, <1>4
  <2>2. v[i] = w[j]
    BY <1>2, <1>4, <2>1
  <2>3. CASE i <= Len(t)
    <3>1. j \in 1..Len(q) /\ i \in 1..Len(q) - e /\ i \in 1..Len(t)
      BY <1>1, <1>2, <2>1, <2>3
    <3>. QED BY <1>1, <1>2, <1>5, <2>1, <2>2, <3>1
  <2>4. CASE i > Len(t)
    <3>1. /\ j \in Len(q) + 1 .. Len(q) + Len(r)
          /\ i \in Len(t) + 1 .. Len(t) + Len(r)
          /\ j - Len(q) = i - Len(t)
      BY <1>1, <1>2, <1>4, <2>1, <2>4
    <3>2. w[j] = r[j - Len(q)]
      BY <1>2, <3>1
    <3>3. (t \o r)[i] = r[i - Len(t)]
      BY <1>5, <3>1
    <3>. QED BY <2>2, <3>1, <3>2, <3>3
  <2>5. i <= Len(t) \/ i > Len(t)
    BY <1>1
  <2>. QED BY <2>3, <2>4, <2>5
<1>8. Len(v) \in Nat
  BY <1>4
<1>. QED BY <1>4, <1>5, <1>6, <1>7, SeqEqual DEF t, v, w

(* What is appended to the second of two sequences ends both.              *)
LEMMA AppendJoined ==
  ASSUME NEW S, NEW s \in Seq(S), NEW t \in Seq(S), NEW p \in S
  PROVE  s \o Append(t, p) = Append(s \o t, p)
OBVIOUS

(* The first of the first of two sequences may go before they are joined   *)
(* or after.                                                               *)
LEMMA TailJoined ==
  ASSUME NEW S, NEW s \in Seq(S), NEW t \in Seq(S), s # <<>>
  PROVE  s \o t # <<>> /\ s \o t \in Seq(S) /\ Tail(s) \o t = Tail(s \o t)
<1>1. /\ Tail(s) \in Seq(S) /\ Len(Tail(s)) = Len(s) - 1
      /\ \A i \in 1..Len(Tail(s)) : Tail(s)[i] = s[i + 1]
      /\ Len(s) \in Nat \ {0} /\ Len(t) \in Nat
  BY HeadTailProperties
<1>2. /\ s \o t \in Seq(S) /\ Len(s \o t) = Len(s) + Len(t)
      /\ \A i \in 1..Len(s) : (s \o t)[i] = s[i]
      /\ \A i \in Len(s) + 1 .. Len(s) + Len(t) : (s \o t)[i] = t[i - Len(s)]
  BY Joined
<1>3. s \o t # <<>>
  BY <1>1, <1>2
<1>. DEFINE v == Tail(s) \o t
            w == Tail(s \o t)
<1>4. /\ w \in Seq(S) /\ Len(w) = Len(s) + Len(t) - 1
      /\ \A i \in 1..Len(w) : w[i] = (s \o t)[i + 1]
  BY <1>1, <1>2, <1>3, HeadTailProperties
<1>5. /\ v \in Seq(S) /\ Len(v) = Len(s) - 1 + Len(t)
      /\ \A i \in 1 .. Len(s) - 1 : v[i] = Tail(s)[i]
      /\ \A i \in Len(s) .. Len(s) - 1 + Len(t) : v[i] = t[i - (Len(s) - 1)]
  <2>1. \A i \in Len(s) .. Len(s) - 1 + Len(t) :
          i \in (Len(s) - 1) + 1 .. (Len(s) - 1) + Len(t)
    BY <1>1
  <2>. QED BY <1>1, <2>1, Joined
<1>. HIDE DEF v, w
<1>6. ASSUME NEW i \in 1..Len(v) PROVE v[i] = w[i]
  <2>1. w[i] = (s \o t)[i + 1]
    BY <1>1, <1>4, <1>5
  <2>2. CASE i <= Len(s) - 1
    BY <1>1, <1>2, <1>5, <2>1, <2>2
  <2>3. CASE i > Len(s) - 1
    <3>1. v[i] = t[i - (Len(s) - 1)]
      BY <1>1, <1>5, <2>3
    <3>2. (s \o t)[i + 1] = t[i + 1 - Len(s)]
      BY <1>1, <1>2, <1>5, <2>3
    <3>3. i - (Len(s) - 1) = i + 1 - Len(s)
      BY <1>1
    <3>. QED BY <2>1, <3>1, <3>2, <3>3
  <2>. QED BY <1>1, <2>2, <2>3
<1>7. v = w
  <2>1. v \in Seq(S) /\ w \in Seq(S) /\ Len(v) = Len(w)
    BY <1>1, <1>4, <1>5
  <2>2. \A i \in 1..Len(v) : v[i] = w[i]
    BY <1>6
  <2>. QED BY <2>1, <2>2, SeqEqual
<1>. QED BY <1>2, <1>3, <1>7 DEF v, w

(* The first of the second of two sequences may as well be the last of the *)
(* first.                                                                  *)
LEMMA HeadMoves ==
  ASSUME NEW S, NEW s \in Seq(S), NEW t \in Seq(S), t # <<>>
  PROVE  Append(s, Head(t)) \o Tail(t) = s \o t
<1>. DEFINE v == Append(s, Head(t)) \o Tail(t)
            w == s \o t
<1>1. /\ Tail(t) \in Seq(S) /\ Len(Tail(t)) = Len(t) - 1
      /\ \A i \in 1..Len(Tail(t)) : Tail(t)[i] = t[i + 1]
      /\ Head(t) = t[1] /\ Head(t) \in S
      /\ Len(t) \in Nat \ {0} /\ Len(s) \in Nat
  BY HeadTailProperties
<1>2. PICK a \in Seq(S) : a = Append(s, Head(t))
  BY <1>1, AppendProperties
<1>3. /\ Len(a) = Len(s) + 1 /\ a[Len(s) + 1] = t[1]
      /\ \A i \in 1..Len(s) : a[i] = s[i]
  BY <1>1, <1>2, AppendProperties
<1>4. PICK b \in Seq(S) : b = Tail(t)
  BY <1>1
<1>5. /\ v \in Seq(S) /\ Len(v) = Len(a) + Len(b)
      /\ \A i \in 1..Len(a) : v[i] = a[i]
      /\ \A i \in Len(a) + 1 .. Len(a) + Len(b) : v[i] = b[i - Len(a)]
  BY <1>2, <1>4, Joined
<1>6. /\ w \in Seq(S) /\ Len(w) = Len(s) + Len(t)
      /\ \A i \in 1..Len(s) : w[i] = s[i]
      /\ \A i \in Len(s) + 1 .. Len(s) + Len(t) : w[i] = t[i - Len(s)]
  BY Joined
<1>. HIDE DEF v, w
<1>7. Len(b) = Len(t) - 1 /\ \A i \in 1..Len(b) : b[i] = t[i + 1]
  BY <1>1, <1>4
<1>8. Len(v) = Len(w) /\ Len(w) \in Nat
  BY <1>1, <1>3, <1>5, <1>6, <1>7
<1>9. ASSUME NEW i \in 1..Len(v)
      PROVE  v[i] = w[i]
  <2>1. i \in 1 .. Len(s) + Len(t)
    BY <1>6, <1>8
  <2>2. CASE i \in 1..Len(s)
    BY <1>1, <1>3, <1>5, <1>6, <2>2
  <2>3. CASE i = Len(s) + 1
    <3>1. v[i] = t[1]
      BY <1>1, <1>3, <1>5, <2>3
    <3>2. i - Len(s) = 1 /\ i \in Len(s) + 1 .. Len(s) + Len(t)
      BY <1>1, <2>3
    <3>. QED BY <1>6, <3>1, <3>2
  <2>4. CASE i \in Len(s) + 2 .. Len(s) + Len(t)
    <3>1. PICK j \in Nat : j = i - Len(a)
      <4>1. i - Len(a) \in Nat
        BY <1>1, <1>3, <2>4
      <4>. QED BY <4>1
    <3>2. /\ i \in Len(a) + 1 .. Len(a) + Len(b) /\ j \in 1..Len(b)
          /\ j + 1 = i - Len(s) /\ i \in Len(s) + 1 .. Len(s) + Len(t)
      BY <1>1, <1>3, <1>7, <2>4, <3>1
    <3>. QED BY <1>5, <1>6, <1>7, <3>1, <3>2
  <2>. QED BY SMTT(30), <1>1, <2>1, <2>2, <2>3, <2>4
<1>10. v = w
  BY <1>5, <1>6, <1>8, <1>9, SeqEqual
<1>. QED BY <1>10 DEF v, w

(* A set of positions has a first one.                                     *)
LEMMA FirstOf ==
  ASSUME NEW T, T \subseteq Nat, T # {}
  PROVE  \E x \in T : \A y \in T : x <= y
<1>. DEFINE R == OpToRel(<, Nat)
<1>1. IsWellFoundedOn(R, Nat)
  BY NatLessThanWellFounded
<1>2. \E x \in T : \A y \in T : ~(<<y, x>> \in R)
  <2>. HIDE DEF R
  <2>. QED BY <1>1, WFMin
<1>3. \A x, y \in Nat : x < y => <<x, y>> \in R
  BY DEF OpToRel
<1>. HIDE DEF R
<1>4. PICK x \in T : \A y \in T : ~(<<y, x>> \in R)
  BY <1>2
<1>5. \A y \in T : y \in Nat /\ x \in Nat /\ ~(y < x)
  BY <1>3, <1>4
<1>6. \A y \in T : x <= y
  BY <1>5
<1>. QED BY <1>6

(* Counting up from 0 reaches every number.                                *)
LEMMA CountingUp ==
  ASSUME NEW T, 0 \in T, \A n \in Nat : n \in T => n + 1 \in T
  PROVE  Nat \subseteq T
<1>. SUFFICES ASSUME Nat \ T # {} PROVE FALSE
  OBVIOUS
<1>1. PICK x \in Nat \ T : \A y \in Nat \ T : x <= y
  <2>. DEFINE U == Nat \ T
  <2>1. U \subseteq Nat /\ U # {}
    OBVIOUS
  <2>. HIDE DEF U
  <2>2. \E x \in U : \A y \in U : x <= y
    BY <2>1, FirstOf
  <2>. QED BY <2>2 DEF U
<1>2. x # 0
  BY <1>1
<1>3. x - 1 \in Nat /\ (x - 1) + 1 = x
  BY <1>1, <1>2
<1>4. x - 1 \in T
  BY <1>1, <1>3
<1>. QED BY <1>1, <1>3, <1>4
=============================================================================
