------------------------- MODULE UnityServerProofs -------------------------
(***************************************************************************)
(* Theorems about UnityServer, for every value of its constants.           *)
(*                                                                         *)
(* Each step does one of a few things to a connection (LinkStep), whatever *)
(* the server and the other clients do.  What is under way on a connection *)
(* is compared before and after such a step: one sequence is found in the  *)
(* other by a map of positions that keeps identifiers and order (Within).  *)
(***************************************************************************)
EXTENDS UnityServer, QueueLemmas

Items == Pieces \cup Answers

(* What is under way on a connection, as Wire has it.                      *)
Rest(l) == l.inbound \o l.c2s
Flow(l) == l.s2c \o l.outbound \o Rest(l)

-----------------------------------------------------------------------------
(* The inductive invariant.                                                *)

(* A tail directly follows its head, and nothing else follows a head.      *)
Framed(q) ==
  \A i \in DOMAIN q :
    /\ q[i].part = "tail" => i > 1 /\ q[i - 1].part = "head"
    /\ q[i].part = "head" /\ i < Len(q) => q[i + 1].part = "tail"

(* No identifier is under way twice.                                       *)
OneEach(w) == \A i, j \in Starts(w) : w[i].id = w[j].id => i = j

LinkInv(l) ==
  /\ Len(l.s2c) <= Capacity
  /\ Framed(Rest(l))
  /\ l.client /\ l.server => OneEach(Flow(l))

IInv == TypeOK /\ \A k \in Links : LinkInv(link[k])

-----------------------------------------------------------------------------
(* Sequences of items.                                                     *)

(* v's requests are all under way in w, in the order that they have in v.  *)
Within(v, w) ==
  \E f \in [Starts(v) -> Starts(w)] :
    /\ \A i, j \in Starts(v) : i < j => f[i] < f[j]
    /\ \A i \in Starts(v) : w[f[i]].id = v[i].id

(* What is found within a sequence is in the same order there.             *)
LEMMA SameOrder ==
  ASSUME NEW v \in Seq(Items), NEW w \in Seq(Items), Within(v, w), OneEach(w)
  PROVE  /\ OneEach(v)
         /\ Requests(v) \subseteq Requests(w)
         /\ \A a, b \in Requests(v) : Ahead(v, a, b) <=> Ahead(w, a, b)
<1>1. PICK f \in [Starts(v) -> Starts(w)] :
        /\ \A i, j \in Starts(v) : i < j => f[i] < f[j]
        /\ \A i \in Starts(v) : w[f[i]].id = v[i].id
  BY DEF Within
<1>2. /\ \A i \in Starts(v) : i \in Nat
      /\ \A i \in Starts(w) : i \in Nat
  BY DEF Starts
<1>3. OneEach(v)
  <2>1. SUFFICES ASSUME NEW i \in Starts(v), NEW j \in Starts(v),
                        v[i].id = v[j].id
                 PROVE  i = j
    BY DEF OneEach
  <2>2. f[i] = f[j]
    BY <1>1, <2>1 DEF OneEach
  <2>. QED BY <1>1, <1>2, <2>2
<1>4. Requests(v) \subseteq Requests(w)
  BY <1>1 DEF Requests
<1>5. ASSUME NEW a \in Requests(v), NEW b \in Requests(v)
      PROVE  Ahead(v, a, b) <=> Ahead(w, a, b)
  <2>1. ASSUME Ahead(v, a, b) PROVE Ahead(w, a, b)
    <3>1. PICK i \in Starts(v), j \in Starts(v) :
            i < j /\ v[i].id = a /\ v[j].id = b
      BY <2>1 DEF Ahead
    <3>2. /\ f[i] \in Starts(w) /\ f[j] \in Starts(w)
          /\ f[i] < f[j] /\ w[f[i]].id = a /\ w[f[j]].id = b
      BY <1>1, <3>1
    <3>. QED BY <3>2 DEF Ahead
  <2>2. ASSUME Ahead(w, a, b) PROVE Ahead(v, a, b)
    <3>1. PICK p \in Starts(w), q \in Starts(w) :
            p < q /\ w[p].id = a /\ w[q].id = b
      BY <2>2 DEF Ahead
    <3>2. PICK i \in Starts(v), j \in Starts(v) : v[i].id = a /\ v[j].id = b
      BY DEF Requests
    <3>3. f[i] = p /\ f[j] = q
      BY <1>1, <3>1, <3>2 DEF OneEach
    <3>4. i < j
      BY <1>1, <1>2, <3>1, <3>2, <3>3
    <3>. QED BY <3>2, <3>4 DEF Ahead
  <2>. QED BY <2>1, <2>2
<1>. QED BY <1>3, <1>4, <1>5

(* With the first of a sequence gone, the others keep their order.         *)
LEMMA WithoutFirst ==
  ASSUME NEW w \in Seq(Items), w # <<>>
  PROVE  /\ Within(Tail(w), w)
         /\ \A a \in Requests(w) \ Requests(Tail(w)), b \in Ids :
              ~Ahead(w, b, a)
<1>. DEFINE v == Tail(w)
<1>1. /\ v \in Seq(Items) /\ Len(v) = Len(w) - 1
      /\ \A i \in 1..Len(v) : v[i] = w[i + 1]
  BY HeadTailProperties
<1>. HIDE DEF v
<1>2. /\ DOMAIN v = 1..Len(v) /\ DOMAIN w = 1..Len(w)
      /\ Len(v) \in Nat /\ Len(w) \in Nat
  BY <1>1
<1>3. \A i \in DOMAIN v : i + 1 \in DOMAIN w /\ v[i] = w[i + 1]
  BY <1>2, <1>1
<1>4. Within(v, w)
  <2>. DEFINE f == [i \in Starts(v) |-> i + 1]
  <2>1. f \in [Starts(v) -> Starts(w)]
    BY <1>3 DEF Starts
  <2>2. \A i, j \in Starts(v) : i < j => f[i] < f[j]
    BY <1>2 DEF Starts
  <2>3. \A i \in Starts(v) : w[f[i]].id = v[i].id
    BY <1>3 DEF Starts
  <2>. QED BY <2>1, <2>2, <2>3 DEF Within
<1>5. ASSUME NEW a \in Requests(w) \ Requests(v), NEW b \in Ids,
             Ahead(w, b, a)
      PROVE  FALSE
  <2>1. PICK i \in Starts(w), j \in Starts(w) :
          i < j /\ w[i].id = b /\ w[j].id = a
    BY <1>5 DEF Ahead
  <2>2. j - 1 \in Starts(v) /\ v[j - 1].id = a
    BY <1>2, <1>1, <2>1 DEF Starts
  <2>. QED BY <2>2 DEF Requests
<1>. QED BY <1>4, <1>5 DEF v

(* One that joins behind all the others has nobody behind it.              *)
LEMMA JoinsLast ==
  ASSUME NEW w \in Seq(Items), OneEach(w),
         NEW p \in Items, p.part # "tail", p.id \notin Requests(w)
  PROVE  /\ OneEach(Append(w, p))
         /\ Within(w, Append(w, p))
         /\ Requests(Append(w, p)) = Requests(w) \cup {p.id}
         /\ \A b : ~Ahead(Append(w, p), p.id, b)
<1>. DEFINE v == Append(w, p)
<1>1. /\ v \in Seq(Items) /\ Len(v) = Len(w) + 1 /\ v[Len(v)] = p
      /\ \A i \in DOMAIN w : i \in DOMAIN v /\ v[i] = w[i]
      /\ \A i \in DOMAIN v : i \in Nat /\ (i \in DOMAIN w \/ i = Len(v))
      /\ Len(v) \in DOMAIN v
  OBVIOUS
<1>. HIDE DEF v
<1>2. /\ Starts(v) = Starts(w) \cup {Len(v)}
      /\ \A i \in Starts(w) : i < Len(v) /\ i \in Nat
  BY <1>1 DEF Starts
<1>3. \A i \in Starts(w) : v[i] = w[i]
  BY <1>1 DEF Starts
<1>4. \A i \in Starts(w) : v[i].id # p.id
  BY <1>3 DEF Requests
<1>5. OneEach(v)
  BY <1>1, <1>2, <1>3, <1>4 DEF OneEach
<1>6. Within(w, v)
  <2>. DEFINE f == [i \in Starts(w) |-> i]
  <2>1. f \in [Starts(w) -> Starts(v)]
    BY <1>2
  <2>2. /\ \A i, j \in Starts(w) : i < j => f[i] < f[j]
        /\ \A i \in Starts(w) : v[f[i]].id = w[i].id
    BY <1>3
  <2>. QED BY <2>1, <2>2 DEF Within
<1>7. Requests(v) = Requests(w) \cup {p.id}
  BY <1>1, <1>2, <1>3 DEF Requests
<1>8. \A b : ~Ahead(v, p.id, b)
  BY <1>1, <1>2, <1>4 DEF Ahead
<1>. QED BY <1>5, <1>6, <1>7, <1>8 DEF v

(* A tail changes nothing of what is under way.                            *)
LEMMA TailJoins ==
  ASSUME NEW w \in Seq(Items), NEW p \in Items, p.part = "tail"
  PROVE  Within(Append(w, p), w) /\ Requests(Append(w, p)) = Requests(w)
<1>. DEFINE v == Append(w, p)
<1>1. /\ v \in Seq(Items) /\ Len(v) = Len(w) + 1 /\ v[Len(v)] = p
      /\ \A i \in DOMAIN w : i \in DOMAIN v /\ v[i] = w[i]
      /\ \A i \in DOMAIN v : i \in DOMAIN w \/ i = Len(v)
  OBVIOUS
<1>. HIDE DEF v
<1>2. Starts(v) = Starts(w) /\ \A i \in Starts(w) : v[i] = w[i]
  BY <1>1 DEF Starts
<1>3. Within(v, w)
  <2>. DEFINE f == [i \in Starts(v) |-> i]
  <2>1. f \in [Starts(v) -> Starts(w)]
    BY <1>2
  <2>2. /\ \A i, j \in Starts(v) : i < j => f[i] < f[j]
        /\ \A i \in Starts(v) : w[f[i]].id = v[i].id
    BY <1>2
  <2>. QED BY <2>1, <2>2 DEF Within
<1>4. Requests(v) = Requests(w)
  BY <1>2 DEF Requests
<1>. QED BY <1>3, <1>4 DEF v

(* A line of one piece or of two, at position n, gives way to its answer.  *)
LEMMA LineAnswered ==
  ASSUME NEW w \in Seq(Items), NEW v \in Seq(Items),
         NEW n \in Nat \ {0}, NEW d \in 0..1, n + d <= Len(w),
         Len(v) = Len(w) - d,
         \A i \in 1 .. n - 1 : v[i] = w[i],
         \A i \in n + 1 .. Len(v) : v[i] = w[i + d],
         v[n].id = w[n].id, v[n].part # "tail", w[n].part # "tail",
         d = 1 => w[n + 1].part = "tail"
  PROVE  Within(v, w) /\ Requests(v) = Requests(w)
<1>1. DOMAIN v = 1..Len(v) /\ DOMAIN w = 1..Len(w)
  OBVIOUS
<1>. DEFINE f == [i \in Starts(v) |-> IF i <= n THEN i ELSE i + d]
<1>2. ASSUME NEW i \in Starts(v)
      PROVE  f[i] \in Starts(w) /\ w[f[i]].id = v[i].id
  <2>1. i \in 1..Len(v) /\ v[i].part # "tail"
    BY <1>1 DEF Starts
  <2>2. CASE i < n
    BY <1>1, <2>1, <2>2 DEF Starts
  <2>3. CASE i = n
    BY <1>1, <2>1, <2>3 DEF Starts
  <2>4. CASE i > n
    <3>1. i + d \in 1..Len(w) /\ i \in n + 1 .. Len(v) /\ ~(i <= n)
      BY <2>1, <2>4
    <3>2. v[i] = w[i + d] /\ f[i] = i + d
      BY <3>1
    <3>. HIDE DEF f
    <3>. QED BY <1>1, <2>1, <3>1, <3>2 DEF Starts
  <2>. QED BY <2>1, <2>2, <2>3, <2>4
<1>3. ASSUME NEW j \in Starts(w)
      PROVE  w[j].id \in Requests(v)
  <2>1. j \in 1..Len(w) /\ w[j].part # "tail"
    BY <1>1 DEF Starts
  <2>2. CASE j <= n
    <3>1. j \in 1..Len(v) /\ v[j].part # "tail" /\ v[j].id = w[j].id
      <4>1. CASE j = n
        BY <2>1, <4>1
      <4>2. CASE j < n
        BY <2>1, <4>2
      <4>. QED BY <2>1, <2>2, <4>1, <4>2
    <3>. QED BY <1>1, <3>1 DEF Requests, Starts
  <2>3. CASE j > n
    <3>1. j > n + d
      BY <2>1, <2>3
    <3>2. j - d \in 1..Len(v) /\ j - d > n /\ j - d + d = j
      BY <2>1, <3>1
    <3>3. v[j - d] = w[j]
      BY <3>2
    <3>. QED BY <1>1, <2>1, <3>2, <3>3 DEF Requests, Starts
  <2>. QED BY <2>1, <2>2, <2>3
<1>4. \A i, j \in Starts(v) : i < j => f[i] < f[j]
  <2>1. ASSUME NEW i \in Starts(v), NEW j \in Starts(v), i < j
        PROVE  f[i] < f[j]
    <3>1. i \in Nat /\ j \in Nat
      BY <1>1 DEF Starts
    <3>. QED BY <2>1, <3>1
  <2>. QED BY <2>1
<1>5. Requests(v) = Requests(w)
  <2>. HIDE DEF f
  <2>. QED BY SMTT(30), <1>2, <1>3 DEF Requests
<1>6. f \in [Starts(v) -> Starts(w)]
  BY <1>2
<1>. QED BY <1>2, <1>4, <1>5, <1>6 DEF Within

(* A line at position n, of one piece or of two, is gone.                  *)
LEMMA LineDropped ==
  ASSUME NEW w \in Seq(Items), NEW v \in Seq(Items),
         NEW n \in Nat \ {0}, NEW e \in 1..2, n + e - 1 <= Len(w),
         Len(v) = Len(w) - e,
         \A i \in 1 .. n - 1 : v[i] = w[i],
         \A i \in n .. Len(v) : v[i] = w[i + e],
         e = 2 => w[n + 1].part = "tail"
  PROVE  /\ Within(v, w)
         /\ Requests(w) \ Requests(v) \subseteq {w[n].id}
<1>1. DOMAIN v = 1..Len(v) /\ DOMAIN w = 1..Len(w)
  OBVIOUS
<1>. DEFINE f == [i \in Starts(v) |-> IF i < n THEN i ELSE i + e]
<1>2. ASSUME NEW i \in Starts(v)
      PROVE  f[i] \in Starts(w) /\ w[f[i]].id = v[i].id
  <2>1. i \in 1..Len(v) /\ v[i].part # "tail"
    BY <1>1 DEF Starts
  <2>2. CASE i < n
    BY <1>1, <2>1, <2>2 DEF Starts
  <2>3. CASE i >= n
    <3>1. i + e \in 1..Len(w) /\ i \in n .. Len(v) /\ ~(i < n)
      BY <2>1, <2>3
    <3>2. v[i] = w[i + e] /\ f[i] = i + e
      BY <3>1
    <3>. HIDE DEF f
    <3>. QED BY <1>1, <2>1, <3>1, <3>2 DEF Starts
  <2>. QED BY <2>1, <2>2, <2>3
<1>3. ASSUME NEW i \in Starts(v), NEW j \in Starts(v), i < j
      PROVE  f[i] < f[j]
  <2>1. i \in Nat /\ j \in Nat
    BY <1>1 DEF Starts
  <2>. QED BY <1>3, <2>1
<1>4. f \in [Starts(v) -> Starts(w)]
  BY <1>2
<1>5. ASSUME NEW j \in Starts(w), w[j].id # w[n].id
      PROVE  w[j].id \in Requests(v)
  <2>1. j \in 1..Len(w) /\ w[j].part # "tail" /\ j # n
    BY <1>1, <1>5 DEF Starts
  <2>2. CASE j < n
    <3>1. j \in 1..Len(v) /\ v[j] = w[j]
      BY <2>1, <2>2
    <3>. QED BY <1>1, <2>1, <3>1 DEF Requests, Starts
  <2>3. CASE j > n
    <3>1. j > n + e - 1
      BY <2>1, <2>3
    <3>2. j - e \in n .. Len(v) /\ j - e \in 1..Len(v) /\ j - e + e = j
      BY <2>1, <3>1
    <3>3. v[j - e] = w[j]
      BY <3>2
    <3>. QED BY <1>1, <2>1, <3>2, <3>3 DEF Requests, Starts
  <2>. QED BY <2>1, <2>2, <2>3
<1>6. Requests(w) \ Requests(v) \subseteq {w[n].id}
  BY <1>5 DEF Requests
<1>. QED BY <1>2, <1>3, <1>4, <1>6 DEF Within

-----------------------------------------------------------------------------
(* What the server has read of a connection, and what is to be read.       *)

(* The first line is one piece, or a head and its tail.                    *)
LEMMA FirstLine ==
  ASSUME NEW q \in Seq(Pieces), Framed(q), HasLine(q)
  PROVE  /\ LineEnd(q) \in 1..2 /\ LineEnd(q) <= Len(q)
         /\ q[1].part # "tail" /\ q[LineEnd(q)].part # "head"
         /\ LineEnd(q) = 2 => q[2].part = "tail"
<1>1. DOMAIN q = 1..Len(q) /\ Len(q) \in Nat /\ Len(q) >= 1
  <2>1. DOMAIN q = 1..Len(q) /\ Len(q) \in Nat
    OBVIOUS
  <2>2. \E i : i \in 1..Len(q)
    BY <2>1 DEF HasLine, LineEnds
  <2>. QED BY <2>1, <2>2
<1>2. q[1].part # "tail"
  BY <1>1 DEF Framed
<1>3. CASE q[1].part # "head"
  <2>1. 1 \in LineEnds(q) /\ \A j \in LineEnds(q) : 1 <= j
    BY <1>1, <1>3 DEF LineEnds
  <2>2. LineEnd(q) = 1
    BY <1>1, <2>1 DEF LineEnd, LineEnds
  <2>. QED BY <1>1, <1>2, <1>3, <2>2
<1>4. CASE q[1].part = "head"
  <2>1. Len(q) > 1
    BY <1>1, <1>4 DEF HasLine, LineEnds
  <2>2. q[2].part = "tail"
    BY <1>1, <1>4, <2>1 DEF Framed
  <2>3. 2 \in LineEnds(q) /\ \A j \in LineEnds(q) : 2 <= j
    BY <1>1, <1>4, <2>1, <2>2 DEF LineEnds
  <2>4. LineEnd(q) = 2
    BY <1>1, <2>3 DEF LineEnd, LineEnds
  <2>. QED BY <1>1, <1>2, <2>1, <2>2, <2>4
<1>. QED BY <1>3, <1>4

(* Lines stay framed when more follows them, when the first is taken, and  *)
(* when a piece comes that may come next.                                  *)
LEMMA FramedBefore ==
  ASSUME NEW q \in Seq(Items), NEW r \in Seq(Items), Framed(q \o r)
  PROVE  Framed(q)
<1>1. /\ DOMAIN q = 1..Len(q) /\ Len(q) \in Nat
      /\ DOMAIN (q \o r) = 1..Len(q) + Len(r) /\ Len(r) \in Nat
      /\ \A i \in 1..Len(q) : (q \o r)[i] = q[i]
  BY Joined
<1>2. ASSUME NEW i \in DOMAIN q, q[i].part = "tail"
      PROVE  i > 1 /\ q[i - 1].part = "head"
  <2>1. i > 1 /\ (q \o r)[i - 1].part = "head"
    BY <1>1, <1>2 DEF Framed
  <2>. QED BY <1>1, <2>1
<1>3. ASSUME NEW i \in DOMAIN q, q[i].part = "head", i < Len(q)
      PROVE  q[i + 1].part = "tail"
  <2>1. i < Len(q \o r)
    BY <1>1, <1>3, Joined
  <2>2. (q \o r)[i + 1].part = "tail"
    BY <1>1, <1>3, <2>1 DEF Framed
  <2>. QED BY <1>1, <1>3, <2>2
<1>. QED BY <1>2, <1>3 DEF Framed

LEMMA FramedAfter ==
  ASSUME NEW q \in Seq(Items), Framed(q),
         NEW e \in 1..Len(q), q[e].part # "head"
  PROVE  Framed(SubSeq(q, e + 1, Len(q)))
<1>. DEFINE r == SubSeq(q, e + 1, Len(q))
<1>1. /\ r \in Seq(Items) /\ Len(r) = Len(q) - e
      /\ \A i \in 1..Len(q) - e : r[i] = q[i + e]
  BY Remaining
<1>2. /\ DOMAIN r = 1..Len(r) /\ DOMAIN q = 1..Len(q) /\ Len(q) \in Nat
      /\ Len(r) \in Nat
  BY <1>1
<1>. HIDE DEF r
<1>3. ASSUME NEW i \in DOMAIN r, r[i].part = "tail"
      PROVE  i > 1 /\ r[i - 1].part = "head"
  <2>1. PICK j \in DOMAIN q : j = i + e
    BY <1>1, <1>2
  <2>2. q[j].part = "tail"
    BY <1>1, <1>2, <1>3, <2>1
  <2>3. q[j - 1].part = "head"
    BY <2>2 DEF Framed
  <2>4. i > 1
    <3>1. i = 1 => j - 1 = e
      BY <1>2, <2>1
    <3>. QED BY <1>2, <2>3, <3>1
  <2>5. i - 1 \in 1..Len(q) - e /\ i - 1 + e = j - 1
    BY <1>1, <1>2, <2>1, <2>4
  <2>6. r[i - 1] = q[j - 1]
    BY <1>1, <2>5
  <2>. QED BY <2>3, <2>4, <2>6
<1>4. ASSUME NEW i \in DOMAIN r, r[i].part = "head", i < Len(r)
      PROVE  r[i + 1].part = "tail"
  <2>1. i + e \in DOMAIN q /\ q[i + e].part = "head" /\ i + e < Len(q)
    BY <1>1, <1>2, <1>4
  <2>2. q[i + e + 1].part = "tail"
    BY <2>1 DEF Framed
  <2>3. r[i + 1] = q[i + e + 1]
    BY <1>1, <1>2, <1>4
  <2>. QED BY <2>2, <2>3
<1>. QED BY <1>3, <1>4 DEF Framed, r

LEMMA FramedNext ==
  ASSUME NEW q \in Seq(Items), Framed(q), NEW p \in Items,
         p.part = "tail" <=> q # <<>> /\ q[Len(q)].part = "head"
  PROVE  Framed(Append(q, p))
<1>. DEFINE r == Append(q, p)
<1>1. /\ Len(r) = Len(q) + 1 /\ r[Len(q) + 1] = p
      /\ \A i \in 1..Len(q) : r[i] = q[i]
      /\ DOMAIN r = 1..Len(q) + 1 /\ DOMAIN q = 1..Len(q) /\ Len(q) \in Nat
      /\ q # <<>> <=> Len(q) > 0
  OBVIOUS
<1>. HIDE DEF r
<1>2. ASSUME NEW i \in DOMAIN r, r[i].part = "tail"
      PROVE  i > 1 /\ r[i - 1].part = "head"
  <2>1. CASE i = Len(q) + 1
    BY <1>1, <1>2, <2>1
  <2>2. CASE i \in DOMAIN q
    BY <1>1, <1>2, <2>2 DEF Framed
  <2>. QED BY <1>1, <2>1, <2>2
<1>3. ASSUME NEW i \in DOMAIN r, r[i].part = "head", i < Len(r)
      PROVE  r[i + 1].part = "tail"
  <2>1. CASE i = Len(q)
    BY <1>1, <1>3, <2>1
  <2>2. CASE i < Len(q)
    BY <1>1, <1>3, <2>2 DEF Framed
  <2>. QED BY <1>1, <1>3, <2>1, <2>2
<1>. QED BY <1>2, <1>3 DEF Framed, r

-----------------------------------------------------------------------------
(* What a step may do to a connection.                                     *)

Shut(l, m) ==
  \/ m \in CloseClient(l) /\ (~l.client \/ Overflows(l) \/ ~listening')
  \/ m = ClientCloses(l)
  \/ ~l.client /\ m = [l EXCEPT !.c2s = <<>>]

Opened(l, m) == l = NoLink /\ m = [l EXCEPT !.client = TRUE, !.server = TRUE]

EndsHalf(q) == q # <<>> /\ q[Len(q)].part = "head"

Asked(l, m) ==
  \E id \in Ids, part \in {"line", "head"} :
    /\ id \notin Requests(Flow(l)) /\ ~EndsHalf(Rest(l))
    /\ m = [l EXCEPT !.c2s = Append(@, [id |-> id, part |-> part])]

Completed(l, m) ==
  /\ EndsHalf(Rest(l))
  /\ m = [l EXCEPT !.c2s = Append(@, [id |-> Rest(l)[Len(Rest(l))].id,
                                      part |-> "tail"])]

Taken(l, m) == l.s2c # <<>> /\ m = [l EXCEPT !.s2c = Tail(@)]

Passed(l, m) ==
  \/ m = Flushed(l)
  \/ m = [l EXCEPT !.inbound = @ \o l.c2s, !.c2s = <<>>]

FirstTaken(q) == SubSeq(q, LineEnd(q) + 1, Len(q))

Replied(l, m) ==
  /\ HasLine(l.inbound)
  /\ m = [l EXCEPT !.inbound = FirstTaken(l.inbound),
                   !.outbound = AnswerLast(@, l.inbound[1].id)]

Lost(l, m) ==
  HasLine(l.inbound) /\ m = [l EXCEPT !.inbound = FirstTaken(l.inbound)]

LinkStep(l, m) ==
  \/ m = l \/ Shut(l, m) \/ Opened(l, m)
  \/ Asked(l, m) \/ Completed(l, m) \/ Taken(l, m)
  \/ Passed(l, m) \/ Replied(l, m)
  \/ Lost(l, m) /\ raised' # raised

LEMMA LinkFields ==
  ASSUME NEW l \in LinkType
  PROVE  /\ l.client \in BOOLEAN /\ l.server \in BOOLEAN
         /\ l.c2s \in Seq(Pieces) /\ l.inbound \in Seq(Pieces)
         /\ l.s2c \in Seq(Answers) /\ l.outbound \in Seq(Answers)
BY DEF LinkType

(* A connection stays in its type when its fields do.                      *)
LEMMA LinkUpdated ==
  ASSUME NEW l \in LinkType, NEW p \in Seq(Pieces), NEW q \in Seq(Pieces),
         NEW a \in Seq(Answers), NEW b \in Seq(Answers)
  PROVE  /\ [l EXCEPT !.c2s = p] \in LinkType
         /\ [l EXCEPT !.s2c = a] \in LinkType
         /\ [l EXCEPT !.inbound = p] \in LinkType
         /\ [l EXCEPT !.inbound = p, !.c2s = q] \in LinkType
         /\ [l EXCEPT !.inbound = p, !.outbound = a] \in LinkType
         /\ [l EXCEPT !.client = FALSE, !.s2c = a] \in LinkType
         /\ [l EXCEPT !.server = FALSE, !.c2s = p, !.inbound = q,
                      !.outbound = a, !.s2c = b] \in LinkType
BY DEF LinkType

LEMMA EmptyTypes == <<>> \in Seq(Pieces) /\ <<>> \in Seq(Answers)
OBVIOUS

(* Sequences of pieces, and of answers, are sequences of items.            *)
LEMMA ItemSequences ==
  /\ \A q \in Seq(Pieces) : q \in Seq(Items)
  /\ \A q \in Seq(Answers) : q \in Seq(Items)
BY DEF Items

LEMMA FlowItems ==
  ASSUME NEW l \in LinkType
  PROVE  /\ Rest(l) \in Seq(Pieces) /\ Rest(l) \in Seq(Items)
         /\ l.s2c \o l.outbound \in Seq(Answers)
         /\ l.s2c \o l.outbound \in Seq(Items)
         /\ Flow(l) \in Seq(Items)
<1>1. Rest(l) \in Seq(Pieces) /\ l.s2c \o l.outbound \in Seq(Answers)
  BY LinkFields, ConcatProperties DEF Rest
<1>2. Rest(l) \in Seq(Items) /\ l.s2c \o l.outbound \in Seq(Items)
  BY <1>1, ItemSequences
<1>. QED BY <1>1, <1>2, Joined DEF Flow

LEMMA Regrouped ==
  \A s, t, u \in Seq(Answers) : (s \o t) \o u = s \o (t \o u)
BY ConcatAssociative

LEMMA NoLinkType == NoLink \in LinkType
BY DEF NoLink, LinkType

(* What a flush does to the answers.                                       *)
LEMMA FlushedFacts ==
  ASSUME NEW l \in LinkType, Len(l.s2c) <= Capacity
  PROVE  /\ Flushed(l) \in LinkType
         /\ Flushed(l).s2c \o Flushed(l).outbound = l.s2c \o l.outbound
         /\ Len(Flushed(l).s2c) <= Capacity
         /\ Flushed(l).inbound = l.inbound /\ Flushed(l).c2s = l.c2s
         /\ Flushed(l).client = l.client /\ Flushed(l).server = l.server
<1>. DEFINE n == Takes(l)
            o == l.outbound
            c == SubSeq(o, 1, n)
            d == SubSeq(o, n + 1, Len(o))
<1>1. /\ n \in 0..Len(o) /\ n <= Capacity - Len(l.s2c)
      /\ o \in Seq(Answers) /\ l.s2c \in Seq(Answers)
      /\ Len(o) \in Nat /\ Len(l.s2c) \in Nat
  <2>1. /\ o \in Seq(Answers) /\ l.s2c \in Seq(Answers)
        /\ Len(o) \in Nat /\ Len(l.s2c) \in Nat
    BY LinkFields
  <2>2. n \in {Len(o), Capacity - Len(l.s2c)} /\ n <= Len(o)
        /\ n <= Capacity - Len(l.s2c)
    <3>1. n = IF Len(o) < Capacity - Len(l.s2c)
                THEN Len(o) ELSE Capacity - Len(l.s2c)
      BY DEF Takes
    <3>2. Capacity - Len(l.s2c) \in Int
      BY <2>1, LimitAssumption
    <3>. HIDE DEF n, o
    <3>. QED BY <2>1, <3>1, <3>2
  <2>. HIDE DEF n, o
  <2>. QED BY <2>1, <2>2, LimitAssumption
<1>. HIDE DEF n, o
<1>2. c \in Seq(Answers) /\ Len(c) = n
  BY <1>1, CutInTwo
<1>3. d \in Seq(Answers)
  BY <1>1, Remaining
<1>4. c \o d = o
  BY <1>1, CutInTwo
<1>. HIDE DEF c, d
<1>5. l.s2c \o c \in Seq(Answers) /\ Len(l.s2c \o c) = Len(l.s2c) + n
  BY <1>1, <1>2, ConcatProperties
<1>6. (l.s2c \o c) \o d = l.s2c \o o
  <2>1. (l.s2c \o c) \o d = l.s2c \o (c \o d)
    BY <1>1, <1>2, <1>3, Regrouped
  <2>. QED BY <2>1, <1>4
<1>7. Flushed(l) = [l EXCEPT !.s2c = @ \o c, !.outbound = d]
  BY DEF Flushed, c, d, n, o
<1>8. Flushed(l) = [client |-> l.client, server |-> l.server, c2s |-> l.c2s,
                    s2c |-> l.s2c \o c, inbound |-> l.inbound,
                    outbound |-> d]
  BY <1>7 DEF LinkType
<1>9. Len(l.s2c \o c) <= Capacity
  BY <1>1, <1>5, LimitAssumption
<1>. QED BY SMTT(30), <1>3, <1>5, <1>6, <1>8, <1>9, LinkFields DEF LinkType, o

(* The order of what is under way, before and after.                       *)
Kept(w, v) ==
  \A a, b \in Requests(w) \cap Requests(v) :
    Ahead(v, a, b) <=> Ahead(w, a, b)
JoinLast(w, v) ==
  \A a \in Requests(v) \ Requests(w), b \in Requests(v) : ~Ahead(v, a, b)

LEMMA WithinKept ==
  ASSUME NEW v \in Seq(Items), NEW w \in Seq(Items), Within(v, w), OneEach(w)
  PROVE  OneEach(v) /\ Kept(w, v) /\ JoinLast(w, v)
BY SameOrder DEF Kept, JoinLast

-----------------------------------------------------------------------------
(* Each kind of step, one by one.                                          *)

LEMMA ShutStep ==
  ASSUME NEW l \in LinkType, LinkInv(l), NEW m, Shut(l, m)
  PROVE  m \in LinkType /\ LinkInv(m) /\ ~(l.client /\ l.server /\ m.client /\ m.server)
<1>1. /\ Framed(<<>>) /\ NoLink \in LinkType /\ LinkInv(NoLink)
      /\ ~NoLink.client
  <2>1. Framed(<<>>)
    BY DEF Framed
  <2>2. Rest(NoLink) = <<>> /\ Len(NoLink.s2c) = 0 /\ ~NoLink.client
    BY DEF Rest, NoLink
  <2>. QED BY <2>1, <2>2, NoLinkType, LimitAssumption DEF LinkInv
<1>2. \A q \in Seq(Pieces) : q \o <<>> = q
  BY ConcatEmptySeq
<1>3. CASE m \in CloseClient(l)
  <2>1. PICK kept \in {l.s2c, <<>>} :
          m = Settled([l EXCEPT !.server = FALSE, !.c2s = <<>>,
                                !.inbound = <<>>, !.outbound = <<>>,
                                !.s2c = kept])
    BY <1>3 DEF CloseClient
  <2>. DEFINE n == [l EXCEPT !.server = FALSE, !.c2s = <<>>, !.inbound = <<>>,
                             !.outbound = <<>>, !.s2c = kept]
  <2>2. m \in {n, NoLink}
    BY <2>1 DEF Settled
  <2>3. kept \in Seq(Answers) /\ Len(kept) <= Capacity
    <3>1. Len(<<>>) <= Capacity
      BY LimitAssumption
    <3>. QED BY <3>1, LinkFields, EmptyTypes DEF LinkInv
  <2>4. n \in LinkType
    BY <2>3, EmptyTypes, LinkUpdated
  <2>5. n.inbound = <<>> /\ n.c2s = <<>> /\ n.server = FALSE /\ n.s2c = kept
    BY DEF LinkType
  <2>. HIDE DEF n
  <2>6. Rest(n) = <<>>
    BY <2>5 DEF Rest
  <2>7. LinkInv(n) /\ ~n.server
    BY <1>1, <2>3, <2>5, <2>6 DEF LinkInv
  <2>. QED BY <1>1, <2>2, <2>4, <2>7
<1>4. CASE m = ClientCloses(l)
  <2>. DEFINE n == [l EXCEPT !.client = FALSE, !.s2c = <<>>]
  <2>1. m \in {n, NoLink}
    BY <1>4 DEF ClientCloses, Settled
  <2>2. n \in LinkType
    BY EmptyTypes, LinkUpdated
  <2>3. /\ n.inbound = l.inbound /\ n.c2s = l.c2s /\ n.s2c = <<>>
        /\ n.client = FALSE
    BY DEF LinkType
  <2>. HIDE DEF n
  <2>4. LinkInv(n) /\ ~n.client
    BY <2>3, LimitAssumption DEF LinkInv, Rest
  <2>. QED BY <1>1, <2>1, <2>2, <2>4
<1>5. CASE ~l.client /\ m = [l EXCEPT !.c2s = <<>>]
  <2>1. m \in LinkType
    BY <1>5, EmptyTypes, LinkUpdated
  <2>2. /\ m.client = l.client /\ m.s2c = l.s2c /\ m.inbound = l.inbound
        /\ m.c2s = <<>>
    BY <1>5 DEF LinkType
  <2>3. Rest(m) = l.inbound
    BY <1>2, <2>2, LinkFields DEF Rest
  <2>4. Framed(Rest(m))
    BY <2>3, LinkFields, ItemSequences, FramedBefore DEF LinkInv, Rest
  <2>. QED BY <1>5, <2>1, <2>2, <2>4 DEF LinkInv
<1>. QED BY <1>3, <1>4, <1>5 DEF Shut

LEMMA OpenedStep ==
  ASSUME NEW l \in LinkType, NEW m, Opened(l, m)
  PROVE  m \in LinkType /\ LinkInv(m) /\ ~l.client
<1>1. m = [client |-> TRUE, server |-> TRUE, c2s |-> <<>>, s2c |-> <<>>,
           inbound |-> <<>>, outbound |-> <<>>] /\ ~l.client
  BY DEF Opened, NoLink
<1>2. Rest(m) = <<>> /\ Flow(m) = <<>> /\ Len(m.s2c) = 0
  BY <1>1 DEF Rest, Flow
<1>3. Framed(<<>>) /\ OneEach(<<>>)
  BY DEF Framed, OneEach, Starts
<1>. QED BY <1>1, <1>2, <1>3, LimitAssumption DEF LinkInv, LinkType

LEMMA ItemJoins ==
  \A s, t \in Seq(Items), p \in Items : s \o Append(t, p) = Append(s \o t, p)
BY AppendJoined

(* A piece that the client sends is the last of what is under way.         *)
LEMMA PieceSent ==
  ASSUME NEW l \in LinkType, NEW p \in Pieces
  PROVE  LET m == [l EXCEPT !.c2s = Append(@, p)]
         IN /\ m \in LinkType /\ m.client = l.client /\ m.server = l.server
            /\ m.s2c = l.s2c
            /\ Rest(m) = Append(Rest(l), p) /\ Flow(m) = Append(Flow(l), p)
<1>. DEFINE m == [l EXCEPT !.c2s = Append(@, p)]
<1>1. Append(l.c2s, p) \in Seq(Pieces) /\ p \in Items
  BY LinkFields DEF Items
<1>2. m \in LinkType
  <2>1. PICK q \in Seq(Pieces) : q = Append(l.c2s, p)
    BY <1>1
  <2>2. m = [l EXCEPT !.c2s = q]
    BY <2>1
  <2>. HIDE DEF m
  <2>. QED BY <2>2, EmptyTypes, LinkUpdated
<1>3. /\ m.client = l.client /\ m.server = l.server /\ m.s2c = l.s2c
      /\ m.inbound = l.inbound /\ m.outbound = l.outbound
      /\ m.c2s = Append(l.c2s, p)
  BY DEF LinkType
<1>. HIDE DEF m
<1>4. Rest(m) = Append(Rest(l), p)
  <2>1. l.inbound \in Seq(Items) /\ l.c2s \in Seq(Items)
    BY LinkFields, ItemSequences
  <2>2. l.inbound \o Append(l.c2s, p) = Append(l.inbound \o l.c2s, p)
    BY <1>1, <2>1, ItemJoins
  <2>. QED BY <1>3, <2>2 DEF Rest
<1>5. Flow(m) = Append(Flow(l), p)
  BY <1>1, <1>3, <1>4, FlowItems, ItemJoins DEF Flow
<1>. QED BY <1>2, <1>3, <1>4, <1>5 DEF m

LEMMA AskedStep ==
  ASSUME NEW l \in LinkType, LinkInv(l), NEW m, Asked(l, m)
  PROVE  /\ m \in LinkType /\ LinkInv(m)
         /\ l.client /\ l.server =>
              /\ Kept(Flow(l), Flow(m)) /\ JoinLast(Flow(l), Flow(m))
              /\ Requests(Flow(l)) \subseteq Requests(Flow(m))
<1>1. PICK id \in Ids, part \in {"line", "head"} :
        /\ id \notin Requests(Flow(l)) /\ ~EndsHalf(Rest(l))
        /\ m = [l EXCEPT !.c2s = Append(@, [id |-> id, part |-> part])]
  BY DEF Asked
<1>. DEFINE p == [id |-> id, part |-> part]
<1>2. p \in Pieces /\ p \in Items /\ p.id = id /\ p.part # "tail"
  BY DEF Pieces, Items
<1>. HIDE DEF p
<1>3. /\ m \in LinkType /\ m.client = l.client /\ m.server = l.server
      /\ m.s2c = l.s2c
      /\ Rest(m) = Append(Rest(l), p) /\ Flow(m) = Append(Flow(l), p)
  BY <1>1, <1>2, PieceSent DEF p
<1>4. Framed(Rest(m))
  BY <1>1, <1>2, <1>3, FlowItems, FramedNext DEF LinkInv, EndsHalf
<1>5. ASSUME l.client, l.server
      PROVE  /\ OneEach(Flow(m)) /\ Within(Flow(l), Flow(m))
             /\ Requests(Flow(m)) = Requests(Flow(l)) \cup {id}
             /\ \A b : ~Ahead(Flow(m), id, b)
  <2>1. /\ Flow(l) \in Seq(Items) /\ OneEach(Flow(l))
        /\ p.id \notin Requests(Flow(l))
    BY <1>1, <1>2, <1>5, FlowItems DEF LinkInv
  <2>. QED BY <1>2, <1>3, <2>1, JoinsLast
<1>6. ASSUME l.client, l.server
      PROVE  Kept(Flow(l), Flow(m)) /\ JoinLast(Flow(l), Flow(m))
  <2>1. /\ Requests(Flow(l)) \subseteq Requests(Flow(m))
        /\ \A a, b \in Requests(Flow(l)) :
             Ahead(Flow(l), a, b) <=> Ahead(Flow(m), a, b)
    BY <1>3, <1>5, <1>6, FlowItems, SameOrder
  <2>. QED BY <1>5, <1>6, <2>1 DEF Kept, JoinLast
<1>. QED BY <1>3, <1>4, <1>5, <1>6 DEF LinkInv

LEMMA CompletedStep ==
  ASSUME NEW l \in LinkType, LinkInv(l), NEW m, Completed(l, m)
  PROVE  /\ m \in LinkType /\ LinkInv(m)
         /\ l.client /\ l.server =>
              /\ Kept(Flow(l), Flow(m)) /\ JoinLast(Flow(l), Flow(m))
              /\ Requests(Flow(l)) = Requests(Flow(m))
<1>. DEFINE p == [id |-> Rest(l)[Len(Rest(l))].id, part |-> "tail"]
<1>1. Rest(l)[Len(Rest(l))] \in Pieces
  BY FlowItems DEF Completed, EndsHalf
<1>2. p \in Pieces /\ p \in Items /\ p.part = "tail"
  BY <1>1 DEF Pieces, Items
<1>3. m = [l EXCEPT !.c2s = Append(@, p)]
  BY DEF Completed
<1>. HIDE DEF p
<1>4. /\ m \in LinkType /\ m.client = l.client /\ m.server = l.server
      /\ m.s2c = l.s2c
      /\ Rest(m) = Append(Rest(l), p) /\ Flow(m) = Append(Flow(l), p)
  BY <1>2, <1>3, PieceSent
<1>5. Framed(Rest(m))
  BY <1>2, <1>4, FlowItems, FramedNext DEF LinkInv, EndsHalf, Completed
<1>6. /\ Within(Flow(m), Flow(l))
      /\ Requests(Flow(m)) = Requests(Flow(l))
  BY <1>2, <1>4, FlowItems, TailJoins
<1>7. ASSUME l.client, l.server
      PROVE  /\ OneEach(Flow(m)) /\ Kept(Flow(l), Flow(m))
             /\ JoinLast(Flow(l), Flow(m))
  BY <1>4, <1>6, <1>7, FlowItems, WithinKept DEF LinkInv
<1>. QED BY <1>4, <1>5, <1>6, <1>7 DEF LinkInv

LEMMA TakenStep ==
  ASSUME NEW l \in LinkType, LinkInv(l), NEW m, Taken(l, m)
  PROVE  /\ m \in LinkType /\ LinkInv(m) /\ m.s2c # l.s2c
         /\ l.client /\ l.server =>
              /\ Kept(Flow(l), Flow(m)) /\ JoinLast(Flow(l), Flow(m))
              /\ \A a \in Requests(Flow(l)) \ Requests(Flow(m)), b \in Ids :
                   ~Ahead(Flow(l), b, a)
<1>. DEFINE a == l.s2c
            w == Flow(l)
<1>1. /\ a \in Seq(Answers) /\ a # <<>> /\ Tail(a) \in Seq(Answers)
      /\ a[1] \in Answers /\ Len(Tail(a)) = Len(a) - 1
      /\ l.outbound \in Seq(Answers) /\ Len(a) \in Nat
  <2>1. a \in Seq(Answers) /\ a # <<>> /\ l.outbound \in Seq(Answers)
    BY LinkFields DEF Taken
  <2>. HIDE DEF a
  <2>. QED BY <2>1, HeadTailProperties
<1>2. m \in LinkType
  BY <1>1, EmptyTypes, LinkUpdated DEF Taken
<1>3. /\ m.client = l.client /\ m.server = l.server /\ m.s2c = Tail(a)
      /\ m.inbound = l.inbound /\ m.outbound = l.outbound /\ m.c2s = l.c2s
  BY DEF LinkType, Taken
<1>4. Rest(m) = Rest(l)
  BY <1>3 DEF Rest
<1>5. /\ Flow(m) = Tail(w) /\ w # <<>>
  <2>1. /\ a \in Seq(Items) /\ l.outbound \in Seq(Items)
        /\ Rest(l) \in Seq(Items)
    BY <1>1, FlowItems, ItemSequences
  <2>2. /\ Tail(a) \o l.outbound = Tail(a \o l.outbound)
        /\ a \o l.outbound # <<>> /\ a \o l.outbound \in Seq(Items)
    BY <1>1, <2>1, TailJoined
  <2>. DEFINE u == a \o l.outbound
  <2>3. Tail(u) \o Rest(l) = Tail(u \o Rest(l)) /\ u \o Rest(l) # <<>>
    <3>. HIDE DEF u
    <3>. QED BY <2>1, <2>2, TailJoined DEF u
  <2>. QED BY <1>3, <1>4, <2>2, <2>3 DEF Flow
<1>6. /\ Within(Flow(m), w)
      /\ \A x \in Requests(w) \ Requests(Flow(m)), b \in Ids : ~Ahead(w, b, x)
  <2>. HIDE DEF w
  <2>. QED BY <1>5, FlowItems, WithoutFirst DEF w
<1>7. ASSUME l.client, l.server
      PROVE  /\ OneEach(Flow(m)) /\ Kept(w, Flow(m)) /\ JoinLast(w, Flow(m))
  BY <1>2, <1>6, <1>7, FlowItems, WithinKept DEF LinkInv
<1>8. Len(m.s2c) <= Capacity /\ m.s2c # l.s2c
  <2>1. Len(a) <= Capacity
    BY DEF LinkInv
  <2>2. Len(m.s2c) = Len(a) - 1
    BY <1>1, <1>3
  <2>. QED BY <1>1, <2>1, <2>2, LimitAssumption
<1>. QED BY <1>2, <1>3, <1>4, <1>6, <1>7, <1>8 DEF LinkInv

LEMMA PassedStep ==
  ASSUME NEW l \in LinkType, LinkInv(l), NEW m, Passed(l, m)
  PROVE  m \in LinkType /\ LinkInv(m) /\ Flow(m) = Flow(l)
<1>1. CASE m = Flushed(l)
  <2>1. m \in LinkType /\ Rest(m) = Rest(l) /\ Len(m.s2c) <= Capacity
        /\ m.client = l.client /\ m.server = l.server
    BY <1>1, FlushedFacts DEF LinkInv, Rest
  <2>2. Flow(m) = Flow(l)
    BY <1>1, <2>1, FlushedFacts DEF LinkInv, Flow
  <2>. QED BY <2>1, <2>2 DEF LinkInv
<1>2. CASE m = [l EXCEPT !.inbound = @ \o l.c2s, !.c2s = <<>>]
  <2>1. m \in LinkType
    <3>1. PICK q \in Seq(Pieces) : q = l.inbound \o l.c2s
      BY LinkFields, ConcatProperties
    <3>2. m = [l EXCEPT !.inbound = q, !.c2s = <<>>]
      BY <1>2, <3>1
    <3>. QED BY <3>2, EmptyTypes, LinkUpdated
  <2>2. /\ m.client = l.client /\ m.server = l.server /\ m.s2c = l.s2c
        /\ m.inbound = l.inbound \o l.c2s /\ m.outbound = l.outbound
        /\ m.c2s = <<>>
    BY <1>2 DEF LinkType
  <2>3. Rest(m) = Rest(l)
    BY <2>2, FlowItems, ConcatEmptySeq DEF Rest
  <2>4. Flow(m) = Flow(l)
    BY <2>2, <2>3 DEF Flow
  <2>. QED BY <2>1, <2>2, <2>3, <2>4 DEF LinkInv
<1>. QED BY <1>1, <1>2 DEF Passed

(* The first line, and what is left when it is taken.                      *)
LEMMA FirstTakenFacts ==
  ASSUME NEW l \in LinkType, LinkInv(l), HasLine(l.inbound)
  PROVE  LET e == LineEnd(l.inbound)
             q == Rest(l)
             r == FirstTaken(l.inbound) \o l.c2s
         IN /\ e \in 1..2 /\ e <= Len(q) /\ (e = 2 => q[2].part = "tail")
            /\ q[1] = l.inbound[1] /\ q[1] \in Pieces /\ q[1].part # "tail"
            /\ FirstTaken(l.inbound) \in Seq(Pieces)
            /\ r \in Seq(Items) /\ Len(r) = Len(q) - e
            /\ \A i \in 1..Len(q) - e : r[i] = q[i + e]
            /\ Framed(r)
<1>. DEFINE s == l.inbound
            e == LineEnd(s)
            q == Rest(l)
            r == FirstTaken(s) \o l.c2s
<1>1. /\ s \in Seq(Pieces) /\ s \in Seq(Items) /\ l.c2s \in Seq(Items)
      /\ q \in Seq(Items) /\ q = s \o l.c2s /\ Framed(q)
  BY LinkFields, ItemSequences, FlowItems DEF Rest, LinkInv
<1>2. Framed(s)
  BY <1>1, FramedBefore
<1>3. /\ e \in 1..2 /\ e <= Len(s) /\ s[1].part # "tail"
      /\ s[e].part # "head" /\ (e = 2 => s[2].part = "tail")
  BY <1>1, <1>2, FirstLine
<1>. HIDE DEF s, e
<1>4. /\ Len(q) = Len(s) + Len(l.c2s) /\ Len(s) \in Nat /\ Len(l.c2s) \in Nat
      /\ Len(q) \in Nat
      /\ \A i \in 1..Len(s) : q[i] = s[i]
  BY <1>1, Joined
<1>5. e \in 0..Len(s) /\ e \in 1..Len(q) /\ e \in 0..Len(q)
      /\ 1 \in 1..Len(s) /\ e \in 1..Len(s)
  BY <1>3, <1>4
<1>6. r = SubSeq(q, e + 1, Len(q))
  BY <1>1, <1>5, CutBefore DEF FirstTaken, e
<1>7. /\ r \in Seq(Items) /\ Len(r) = Len(q) - e
      /\ \A i \in 1..Len(q) - e : r[i] = q[i + e]
  BY <1>1, <1>5, <1>6, Remaining
<1>8. Framed(r)
  <2>. HIDE DEF q, r
  <2>1. q[e] = s[e]
    BY <1>4, <1>5
  <2>2. q[e].part # "head"
    BY <1>3, <2>1
  <2>. QED BY <1>1, <1>5, <1>6, <2>2, FramedAfter
<1>9. FirstTaken(s) \in Seq(Pieces)
  BY <1>1, <1>5, Remaining DEF FirstTaken, e
<1>10. q[1] = s[1] /\ s[1] \in Pieces /\ (e = 2 => q[2] = s[2])
  BY <1>1, <1>3, <1>4, <1>5
<1>11. e <= Len(q) /\ (e = 2 => q[2].part = "tail") /\ q[1].part # "tail"
  <2>. HIDE DEF q
  <2>. QED BY <1>3, <1>4, <1>5, <1>10
<1>. QED BY <1>3, <1>7, <1>8, <1>9, <1>10, <1>11 DEF s, e

LEMMA RepliedStep ==
  ASSUME NEW l \in LinkType, LinkInv(l), NEW m, Replied(l, m)
  PROVE  /\ m \in LinkType /\ LinkInv(m)
         /\ l.client /\ l.server =>
              /\ Kept(Flow(l), Flow(m)) /\ JoinLast(Flow(l), Flow(m))
              /\ Requests(Flow(l)) = Requests(Flow(m))
<1>. DEFINE e == LineEnd(l.inbound)
            q == Rest(l)
            r == FirstTaken(l.inbound) \o l.c2s
            b == [id |-> l.inbound[1].id, part |-> "answer"]
            a == l.s2c \o l.outbound
            c == Append(a, b)
            w == a \o q
            v == c \o r
            n == Len(a) + 1
<1>1. /\ e \in 1..2 /\ e <= Len(q) /\ (e = 2 => q[2].part = "tail")
      /\ q[1] = l.inbound[1] /\ q[1] \in Pieces /\ q[1].part # "tail"
      /\ FirstTaken(l.inbound) \in Seq(Pieces)
      /\ r \in Seq(Items) /\ Len(r) = Len(q) - e
      /\ \A i \in 1..Len(q) - e : r[i] = q[i + e]
      /\ Framed(r)
  BY FirstTakenFacts DEF Replied
<1>2. b \in Answers /\ b \in Items /\ b.id = q[1].id /\ b.part # "tail"
  BY <1>1 DEF Pieces, Answers, Items
<1>3. m = [l EXCEPT !.inbound = FirstTaken(l.inbound),
                   !.outbound = Append(l.outbound, b)]
  BY DEF Replied, AnswerLast
<1>. HIDE DEF e, b
<1>4. m \in LinkType
  <2>1. PICK o \in Seq(Answers) : o = Append(l.outbound, b)
    <3>1. l.outbound \in Seq(Answers)
      BY LinkFields
    <3>2. \A u \in Seq(Answers) : Append(u, b) \in Seq(Answers)
      BY <1>2
    <3>. QED BY <3>1, <3>2
  <2>2. m = [l EXCEPT !.inbound = FirstTaken(l.inbound), !.outbound = o]
    BY <1>3, <2>1
  <2>. QED BY <1>1, <2>2, EmptyTypes, LinkUpdated
<1>5. /\ m.client = l.client /\ m.server = l.server /\ m.s2c = l.s2c
      /\ m.inbound = FirstTaken(l.inbound) /\ m.c2s = l.c2s
      /\ m.outbound = Append(l.outbound, b)
  BY <1>3 DEF LinkType
<1>6. Rest(m) = r /\ Flow(m) = v /\ Flow(l) = w
  <2>1. l.s2c \in Seq(Items) /\ l.outbound \in Seq(Items)
    BY LinkFields, ItemSequences
  <2>2. l.s2c \o Append(l.outbound, b) = Append(l.s2c \o l.outbound, b)
    BY <1>2, <2>1, ItemJoins
  <2>. QED BY <1>5, <2>2 DEF Rest, Flow
<1>7. a \in Seq(Items) /\ q \in Seq(Items) /\ Len(a) \in Nat /\ Len(q) \in Nat
  <2>1. a \in Seq(Items) /\ q \in Seq(Items)
    BY FlowItems
  <2>. HIDE DEF a, q
  <2>. QED BY <2>1
<1>. HIDE DEF a, q, r
<1>8. /\ c \in Seq(Items) /\ Len(c) = n /\ c[n] = b
      /\ \A i \in 1 .. n - 1 : c[i] = a[i]
  BY <1>2, <1>7
<1>. HIDE DEF c
<1>9. /\ w \in Seq(Items) /\ Len(w) = Len(a) + Len(q)
      /\ \A i \in 1..Len(a) : w[i] = a[i]
      /\ \A i \in Len(a) + 1 .. Len(a) + Len(q) : w[i] = q[i - Len(a)]
  BY <1>7, Joined
<1>10. /\ v \in Seq(Items) /\ Len(v) = Len(c) + Len(r)
       /\ \A i \in 1..Len(c) : v[i] = c[i]
       /\ \A i \in Len(c) + 1 .. Len(c) + Len(r) : v[i] = r[i - Len(c)]
  <2>1. c \in Seq(Items) /\ r \in Seq(Items)
    BY <1>1, <1>8
  <2>. QED BY <2>1, Joined
<1>. HIDE DEF w, v
<1>11. Within(v, w) /\ Requests(v) = Requests(w)
  <2>. DEFINE d == e - 1
  <2>0. /\ Len(a) \in Nat /\ Len(q) \in Nat /\ e \in 1..2 /\ e <= Len(q)
        /\ Len(w) = Len(a) + Len(q) /\ Len(v) = Len(a) + 1 + Len(q) - e
        /\ n = Len(a) + 1 /\ d = e - 1 /\ Len(c) = n /\ Len(r) = Len(q) - e
    BY <1>1, <1>7, <1>8, <1>9, <1>10
  <2>. HIDE DEF n, d
  <2>1. /\ n \in Nat \ {0} /\ d \in 0..1 /\ n + d <= Len(w)
        /\ Len(v) = Len(w) - d
    BY <2>0
  <2>2. v[n] = b /\ w[n] = q[1] /\ (d = 1 => w[n + 1] = q[2])
    <3>1. n \in Len(a) + 1 .. Len(a) + Len(q) /\ n - Len(a) = 1
      BY <2>0
    <3>2. d = 1 => /\ n + 1 \in Len(a) + 1 .. Len(a) + Len(q)
                   /\ n + 1 - Len(a) = 2
      BY <2>0
    <3>3. v[n] = b
      <4>1. n \in 1..Len(c)
        BY <2>0
      <4>. QED BY <1>8, <1>10, <4>1
    <3>. QED BY <1>9, <3>1, <3>2, <3>3
  <2>3. ASSUME NEW i \in 1 .. n - 1 PROVE v[i] = w[i]
    <3>1. i \in 1..Len(c) /\ i \in 1..Len(a)
      BY <2>0
    <3>. QED BY <1>8, <1>9, <1>10, <3>1
  <2>4. ASSUME NEW i \in n + 1 .. Len(v) PROVE v[i] = w[i + d]
    <3>1. v[i] = r[i - n]
      <4>1. i \in Len(c) + 1 .. Len(c) + Len(r) /\ Len(c) = n
        BY <2>0
      <4>. QED BY <1>10, <4>1
    <3>2. r[i - n] = q[i - n + e]
      <4>1. i - n \in 1 .. Len(q) - e
        BY <2>0
      <4>. QED BY <1>1, <4>1
    <3>3. w[i + d] = q[i + d - Len(a)]
      <4>1. PICK j \in Len(a) + 1 .. Len(a) + Len(q) : j = i + d
        BY <2>0
      <4>2. w[j] = q[j - Len(a)]
        BY <1>9
      <4>. QED BY <2>0, <4>1, <4>2
    <3>4. i + d - Len(a) = i - n + e
      BY <2>0
    <3>. QED BY <3>1, <3>2, <3>3, <3>4
  <2>5. /\ v[n].id = w[n].id /\ v[n].part # "tail" /\ w[n].part # "tail"
        /\ (d = 1 => w[n + 1].part = "tail")
    <3>1. d = 1 => e = 2
      BY <2>0
    <3>. QED BY <1>1, <1>2, <2>2, <3>1
  <2>. QED BY <1>9, <1>10, <2>1, <2>3, <2>4, <2>5, LineAnswered
<1>12. ASSUME l.client, l.server
       PROVE  OneEach(v) /\ Kept(w, v) /\ JoinLast(w, v)
  BY <1>6, <1>9, <1>10, <1>11, <1>12, WithinKept DEF LinkInv
<1>. QED BY <1>1, <1>4, <1>5, <1>6, <1>11, <1>12 DEF LinkInv

LEMMA LostStep ==
  ASSUME NEW l \in LinkType, LinkInv(l), NEW m, Lost(l, m)
  PROVE  /\ m \in LinkType /\ LinkInv(m)
         /\ l.client /\ l.server =>
              /\ Kept(Flow(l), Flow(m)) /\ JoinLast(Flow(l), Flow(m))
              /\ \A x, y \in Requests(Flow(l)) \ Requests(Flow(m)) : x = y
<1>. DEFINE e == LineEnd(l.inbound)
            q == Rest(l)
            r == FirstTaken(l.inbound) \o l.c2s
            a == l.s2c \o l.outbound
            w == a \o q
            v == a \o r
            n == Len(a) + 1
<1>1. /\ e \in 1..2 /\ e <= Len(q) /\ (e = 2 => q[2].part = "tail")
      /\ FirstTaken(l.inbound) \in Seq(Pieces)
      /\ r \in Seq(Items) /\ Len(r) = Len(q) - e
      /\ \A i \in 1..Len(q) - e : r[i] = q[i + e]
      /\ Framed(r)
  BY FirstTakenFacts DEF Lost
<1>. HIDE DEF e
<1>2. m \in LinkType
  BY <1>1, EmptyTypes, LinkUpdated DEF Lost
<1>3. /\ m.client = l.client /\ m.server = l.server /\ m.s2c = l.s2c
      /\ m.inbound = FirstTaken(l.inbound) /\ m.c2s = l.c2s
      /\ m.outbound = l.outbound
  BY DEF LinkType, Lost
<1>4. Rest(m) = r /\ Flow(m) = v /\ Flow(l) = w
  BY <1>3 DEF Rest, Flow
<1>5. a \in Seq(Items) /\ q \in Seq(Items) /\ Len(a) \in Nat /\ Len(q) \in Nat
  <2>1. a \in Seq(Items) /\ q \in Seq(Items)
    BY FlowItems
  <2>. HIDE DEF a, q
  <2>. QED BY <2>1
<1>. HIDE DEF a, q, r
<1>6. /\ w \in Seq(Items) /\ Len(w) = Len(a) + Len(q)
      /\ \A i \in 1..Len(a) : w[i] = a[i]
      /\ \A i \in Len(a) + 1 .. Len(a) + Len(q) : w[i] = q[i - Len(a)]
  BY <1>5, Joined
<1>7. /\ v \in Seq(Items) /\ Len(v) = Len(a) + Len(r)
      /\ \A i \in 1..Len(a) : v[i] = a[i]
      /\ \A i \in Len(a) + 1 .. Len(a) + Len(r) : v[i] = r[i - Len(a)]
  BY <1>1, <1>5, Joined
<1>. HIDE DEF w, v
<1>8. Within(v, w) /\ Requests(w) \ Requests(v) \subseteq {w[n].id}
  <2>0. /\ Len(a) \in Nat /\ Len(q) \in Nat /\ e \in 1..2 /\ e <= Len(q)
        /\ Len(w) = Len(a) + Len(q) /\ Len(v) = Len(a) + Len(q) - e
        /\ n = Len(a) + 1 /\ Len(r) = Len(q) - e
    BY <1>1, <1>5, <1>6, <1>7
  <2>. HIDE DEF n
  <2>1. /\ n \in Nat \ {0} /\ n + e - 1 <= Len(w) /\ Len(v) = Len(w) - e
    BY <2>0
  <2>2. e = 2 => w[n + 1].part = "tail"
    <3>1. e = 2 => /\ n + 1 \in Len(a) + 1 .. Len(a) + Len(q)
                   /\ n + 1 - Len(a) = 2
      BY <2>0
    <3>2. e = 2 => w[n + 1] = q[2]
      BY <1>6, <2>0, <3>1
    <3>. QED BY <1>1, <3>2
  <2>3. ASSUME NEW i \in 1 .. n - 1 PROVE v[i] = w[i]
    <3>1. i \in 1..Len(a)
      BY <2>0
    <3>. QED BY <1>6, <1>7, <3>1
  <2>4. ASSUME NEW i \in n .. Len(v) PROVE v[i] = w[i + e]
    <3>1. v[i] = r[i - Len(a)]
      <4>1. i \in Len(a) + 1 .. Len(a) + Len(r)
        BY <2>0
      <4>. QED BY <1>7, <4>1
    <3>2. r[i - Len(a)] = q[i - Len(a) + e]
      <4>1. i - Len(a) \in 1 .. Len(q) - e
        BY <2>0
      <4>. QED BY <1>1, <4>1
    <3>3. w[i + e] = q[i + e - Len(a)]
      <4>1. PICK j \in Len(a) + 1 .. Len(a) + Len(q) : j = i + e
        BY <2>0
      <4>2. w[j] = q[j - Len(a)]
        BY <1>6
      <4>. QED BY <2>0, <4>1, <4>2
    <3>4. i + e - Len(a) = i - Len(a) + e
      BY <2>0
    <3>. QED BY <3>1, <3>2, <3>3, <3>4
  <2>5. w \in Seq(Items) /\ v \in Seq(Items) /\ e \in 1..2
    BY <1>6, <1>7, <2>0
  <2>6. \A i \in 1 .. n - 1 : v[i] = w[i]
    BY <2>3
  <2>7. \A i \in n .. Len(v) : v[i] = w[i + e]
    BY <2>4
  <2>. QED BY <2>0, <2>1, <2>2, <2>5, <2>6, <2>7, LineDropped
<1>9. ASSUME l.client, l.server
      PROVE  OneEach(v) /\ Kept(w, v) /\ JoinLast(w, v)
  BY <1>4, <1>6, <1>7, <1>8, <1>9, WithinKept DEF LinkInv
<1>. QED BY <1>1, <1>2, <1>3, <1>4, <1>8, <1>9 DEF LinkInv

-----------------------------------------------------------------------------
(* What the clients' turns are.                                            *)

LEMMA FirstOfFirst ==
  ASSUME NEW S, NEW c \in Seq(S), NEW n \in 1..Len(c)
  PROVE  /\ SubSeq(c, 1, n - 1) \in Seq(S) /\ Len(SubSeq(c, 1, n - 1)) = n - 1
         /\ SubSeq(SubSeq(c, 1, n), 1, n - 1) = SubSeq(c, 1, n - 1)
         /\ SubSeq(c, 1, n)[n] \in S
         /\ RemoveAt(c, n) \in Seq(S) /\ Len(RemoveAt(c, n)) = Len(c) - 1
         /\ SubSeq(RemoveAt(c, n), 1, n - 1) = SubSeq(c, 1, n - 1)
<1>. DEFINE a == SubSeq(c, 1, n - 1)
            b == SubSeq(c, n + 1, Len(c))
            d == SubSeq(c, 1, n)
            r == a \o b
<1>1. n - 1 \in 0..Len(c) /\ n \in 0..Len(c) /\ Len(c) \in Nat /\ n \in Nat
      /\ n - 1 \in Nat
  OBVIOUS
<1>2. /\ a \in Seq(S) /\ Len(a) = n - 1 /\ \A i \in 1 .. n - 1 : a[i] = c[i]
      /\ d \in Seq(S) /\ Len(d) = n /\ \A i \in 1..n : d[i] = c[i]
      /\ b \in Seq(S) /\ Len(b) = Len(c) - n
  BY <1>1, CutInTwo, Remaining
<1>. HIDE DEF a, b, d
<1>3. /\ r \in Seq(S) /\ Len(r) = Len(c) - 1
      /\ \A i \in 1 .. n - 1 : r[i] = a[i]
  <2>1. /\ r \in Seq(S) /\ Len(r) = Len(a) + Len(b)
        /\ \A i \in 1 .. Len(a) + Len(b) :
             r[i] = IF i <= Len(a) THEN a[i] ELSE b[i - Len(a)]
    BY <1>2, ConcatProperties
  <2>. HIDE DEF r
  <2>2. Len(r) = Len(c) - 1
    BY <1>1, <1>2, <2>1
  <2>3. ASSUME NEW i \in 1 .. n - 1 PROVE r[i] = a[i]
    <3>1. i \in 1 .. Len(a) + Len(b) /\ i <= Len(a)
      BY <1>1, <1>2
    <3>. QED BY <2>1, <3>1
  <2>. QED BY <2>1, <2>2, <2>3
<1>. HIDE DEF r
<1>4. /\ SubSeq(d, 1, n - 1) \in Seq(S) /\ Len(SubSeq(d, 1, n - 1)) = n - 1
      /\ \A i \in 1 .. n - 1 : SubSeq(d, 1, n - 1)[i] = d[i]
  BY <1>1, <1>2, CutInTwo
<1>5. /\ SubSeq(r, 1, n - 1) \in Seq(S) /\ Len(SubSeq(r, 1, n - 1)) = n - 1
      /\ \A i \in 1 .. n - 1 : SubSeq(r, 1, n - 1)[i] = r[i]
  <2>1. n - 1 \in 0..Len(r)
    BY <1>1, <1>3
  <2>. QED BY <1>3, <2>1, CutInTwo
<1>6. \A i \in 1 .. n - 1 : SubSeq(d, 1, n - 1)[i] = a[i]
  BY <1>1, <1>2, <1>4
<1>7. SubSeq(d, 1, n - 1) = a
  BY <1>1, <1>2, <1>4, <1>6, SeqEqual
<1>8. \A i \in 1 .. n - 1 : SubSeq(r, 1, n - 1)[i] = a[i]
  BY <1>3, <1>5
<1>9. SubSeq(r, 1, n - 1) = a
  BY <1>1, <1>2, <1>5, <1>8, SeqEqual
<1>10. RemoveAt(c, n) = r
  BY DEF RemoveAt, r, a, b
<1>11. d[n] \in S
  BY <1>1, <1>2
<1>. QED BY <1>2, <1>3, <1>7, <1>9, <1>10, <1>11 DEF a, d

(* Whom a Poll serves is a client.                                         *)
LEMMA ServedIsClient ==
  ASSUME TypeOK, stage # "idle"
  PROVE  Served \in Links /\ link[Served] \in LinkType
         /\ Len(turn) \in 1..Len(clients)
<1>1. turn # <<>> /\ turn = SubSeq(clients, 1, Len(turn))
      /\ Len(turn) <= Len(clients) /\ clients \in Seq(Links)
  BY DEF TypeOK
<1>2. Len(turn) \in 1..Len(clients)
  <2>1. turn \in Seq(Links)
    BY <1>1
  <2>. QED BY <1>1, <2>1
<1>. DEFINE n == Len(turn)
<1>3. SubSeq(clients, 1, n)[n] \in Links
  <2>. HIDE DEF n
  <2>. QED BY <1>1, <1>2, FirstOfFirst DEF n
<1>4. Served \in Links
  BY <1>1, <1>3 DEF Served
<1>. QED BY <1>2, <1>4 DEF TypeOK

(* The next turn, with the client that was served in the list or not.      *)
LEMMA NextTurnType ==
  ASSUME TypeOK, stage # "idle", NextTurn, clients' \in {clients, Without}
  PROVE  /\ clients' \in Seq(Links) /\ Len(turn') <= Len(clients')
         /\ turn' = SubSeq(clients', 1, Len(turn'))
         /\ stage' \in {"idle", "read"} /\ (stage' = "idle" <=> turn' = <<>>)
         /\ remaining' \in 0..Budget
<1>. DEFINE n == Len(turn)
<1>1. /\ n \in 1..Len(clients) /\ clients \in Seq(Links)
      /\ turn = SubSeq(clients, 1, n)
  BY ServedIsClient DEF TypeOK
<1>. HIDE DEF n
<1>2. /\ clients' \in Seq(Links)
      /\ Len(clients') \in {Len(clients), Len(clients) - 1}
      /\ SubSeq(clients', 1, n - 1) = SubSeq(clients, 1, n - 1)
      /\ SubSeq(turn, 1, n - 1) = SubSeq(clients, 1, n - 1)
      /\ Len(SubSeq(clients, 1, n - 1)) = n - 1
  BY <1>1, FirstOfFirst DEF Without, n
<1>3. Len(clients') \in Nat /\ Len(clients) \in Nat /\ n \in Nat
  BY <1>1, <1>2
<1>4. CASE remaining > 0 /\ Len(turn) > 1
  <2>1. turn' = SubSeq(turn, 1, n - 1) /\ stage' = "read"
        /\ remaining' = remaining
    BY <1>4 DEF NextTurn, n
  <2>2. Len(turn') = n - 1 /\ turn' = SubSeq(clients', 1, n - 1)
    BY <1>2, <2>1
  <2>3. turn' # <<>>
    <3>1. Len(turn') > 0
      BY <1>3, <1>4, <2>2 DEF n
    <3>. QED BY <3>1
  <2>4. Len(turn') <= Len(clients')
    BY <1>1, <1>2, <1>3, <2>2
  <2>. QED BY <1>2, <2>1, <2>2, <2>3, <2>4 DEF TypeOK
<1>5. CASE ~(remaining > 0 /\ Len(turn) > 1)
  <2>1. turn' = <<>> /\ stage' = "idle" /\ remaining' = 0
    BY <1>5 DEF NextTurn, EndPoll
  <2>2. Len(turn') = 0 /\ SubSeq(clients', 1, 0) = <<>>
    BY <1>2, <2>1
  <2>. QED BY <1>2, <1>3, <2>1, <2>2, LimitAssumption
<1>. QED BY <1>4, <1>5

-----------------------------------------------------------------------------
(* Every step of the system.                                               *)

(* Only the connection k changes, and in one of the ways above.            *)
LEMMA OneLink ==
  ASSUME TypeOK, NEW k \in Links, NEW m, link' = [link EXCEPT ![k] = m],
         LinkStep(link[k], m)
  PROVE  \A j \in Links : LinkStep(link[j], link'[j])
BY DEF TypeOK, LinkStep

LEMMA PollingLinks ==
  ASSUME TypeOK, Polling
  PROVE  \A k \in Links : LinkStep(link[k], link'[k])
<1>. DEFINE l == link[Served]
<1>1. CASE Poll
  BY <1>1 DEF Poll, LinkStep
<1>2. ASSUME stage # "idle", NEW m \in CloseClient(l),
             ~l.client \/ Overflows(l), link' = [link EXCEPT ![Served] = m]
      PROVE  \A k \in Links : LinkStep(link[k], link'[k])
  <2>1. LinkStep(l, m)
    BY <1>2 DEF LinkStep, Shut
  <2>. HIDE DEF l
  <2>. QED BY <1>2, <2>1, ServedIsClient, OneLink DEF l
<1>3. CASE HangUp \/ TooLarge
  BY <1>2, <1>3 DEF HangUp, TooLarge
<1>4. CASE Receive
  <2>. DEFINE m == [l EXCEPT !.inbound = @ \o l.c2s, !.c2s = <<>>]
  <2>1. link' = [link EXCEPT ![Served] = m]
    BY <1>4, ServedIsClient DEF Receive, TypeOK
  <2>2. LinkStep(l, m)
    BY DEF LinkStep, Passed
  <2>. HIDE DEF l, m
  <2>. QED BY <1>4, <2>1, <2>2, ServedIsClient, OneLink DEF Receive, l
<1>5. CASE ReadRaises
  <2>. DEFINE m == [l EXCEPT !.c2s = <<>>]
  <2>1. link' = [link EXCEPT ![Served] = m]
    BY <1>5, ServedIsClient DEF ReadRaises, TypeOK
  <2>2. LinkStep(l, m)
    BY <1>5 DEF ReadRaises, LinkStep, Shut
  <2>. HIDE DEF l, m
  <2>. QED BY <1>5, <2>1, <2>2, ServedIsClient, OneLink DEF ReadRaises, l
<1>6. CASE Dispatch
  <2>. DEFINE m == [l EXCEPT !.inbound = FirstTaken(l.inbound),
                            !.outbound = AnswerLast(@, l.inbound[1].id)]
  <2>1. link' = [link EXCEPT ![Served] = m]
    BY <1>6, ServedIsClient
       DEF Dispatch, TypeOK, TakesLine, AfterLine, FirstTaken, Buffer
  <2>2. LinkStep(l, m)
    BY <1>6 DEF Dispatch, TakesLine, LinkStep, Replied, Buffer
  <2>. HIDE DEF l, m
  <2>. QED BY <1>6, <2>1, <2>2, ServedIsClient, OneLink
           DEF Dispatch, TakesLine, l
<1>7. CASE DispatchRaises
  <2>. DEFINE m == [l EXCEPT !.inbound = FirstTaken(l.inbound)]
  <2>1. link' = [link EXCEPT ![Served] = m]
    BY <1>7, ServedIsClient
       DEF DispatchRaises, TypeOK, TakesLine, AfterLine, FirstTaken, Buffer
  <2>2. raised' # raised
    BY <1>7 DEF DispatchRaises, TypeOK
  <2>3. LinkStep(l, m)
    BY <1>7, <2>2 DEF DispatchRaises, TakesLine, LinkStep, Lost, Buffer
  <2>. HIDE DEF l, m
  <2>. QED BY <1>7, <2>1, <2>3, ServedIsClient, OneLink
           DEF DispatchRaises, TakesLine, l
<1>8. CASE FinishTurn
  <2>1. CASE link' = [link EXCEPT ![Served] = Flushed(@)]
    <3>1. link' = [link EXCEPT ![Served] = Flushed(l)]
      BY <2>1
    <3>2. LinkStep(l, Flushed(l))
      BY DEF LinkStep, Passed
    <3>. HIDE DEF l
    <3>. QED BY <1>8, <3>1, <3>2, ServedIsClient, OneLink DEF FinishTurn, l
  <2>2. CASE /\ Broken(l)
             /\ \E m \in CloseClient(l) : link' = [link EXCEPT ![Served] = m]
    BY <1>2, <1>8, <2>2 DEF FinishTurn, Broken
  <2>. QED BY <1>8, <2>1, <2>2 DEF FinishTurn
<1>. QED BY <1>1, <1>3, <1>4, <1>5, <1>6, <1>7, <1>8 DEF Polling

LEMMA OtherLinks ==
  ASSUME TypeOK, Next, ~Polling
  PROVE  \A k \in Links : LinkStep(link[k], link'[k])
<1>1. CASE Start
  BY <1>1 DEF Start, LinkStep
<1>2. CASE Dispose
  BY <1>2 DEF Dispose, LinkStep, Shut
<1>3. ASSUME NEW k \in Links, Connect(k)
      PROVE  \A j \in Links : LinkStep(link[j], link'[j])
  <2>. DEFINE m == [link[k] EXCEPT !.client = TRUE, !.server = TRUE]
  <2>1. link' = [link EXCEPT ![k] = m]
    BY <1>3 DEF Connect, TypeOK
  <2>2. LinkStep(link[k], m)
    BY <1>3 DEF Connect, LinkStep, Opened
  <2>. HIDE DEF m
  <2>. QED BY <2>1, <2>2, OneLink
<1>4. ASSUME NEW k \in Links, NEW id \in Ids, NEW part \in {"line", "head"},
             Ask(k, id, part)
      PROVE  \A j \in Links : LinkStep(link[j], link'[j])
  <2>. DEFINE m == [link[k] EXCEPT
                     !.c2s = Append(@, [id |-> id, part |-> part])]
  <2>1. link' = [link EXCEPT ![k] = m]
    BY <1>4 DEF Ask, TypeOK
  <2>2. LinkStep(link[k], m)
    BY <1>4 DEF Ask, Fresh, UnderWay, Wire, Sent, HalfSent, LinkStep, Asked,
                Flow, Rest, EndsHalf
  <2>. HIDE DEF m
  <2>. QED BY <2>1, <2>2, OneLink
<1>5. ASSUME NEW k \in Links, SendTail(k)
      PROVE  \A j \in Links : LinkStep(link[j], link'[j])
  <2>. DEFINE q == Rest(link[k])
              m == [link[k] EXCEPT
                     !.c2s = Append(@, [id |-> q[Len(q)].id, part |-> "tail"])]
  <2>1. link' = [link EXCEPT ![k] = m]
    BY <1>5 DEF SendTail, TypeOK, Sent, Rest
  <2>2. LinkStep(link[k], m)
    BY <1>5 DEF SendTail, HalfSent, Sent, LinkStep, Completed, Rest, EndsHalf
  <2>. HIDE DEF m
  <2>. QED BY <2>1, <2>2, OneLink
<1>6. ASSUME NEW k \in Links, TakeAnswer(k)
      PROVE  \A j \in Links : LinkStep(link[j], link'[j])
  <2>. DEFINE m == [link[k] EXCEPT !.s2c = Tail(@)]
  <2>1. link' = [link EXCEPT ![k] = m]
    BY <1>6 DEF TakeAnswer, TypeOK
  <2>2. LinkStep(link[k], m)
    BY <1>6 DEF TakeAnswer, LinkStep, Taken
  <2>. HIDE DEF m
  <2>. QED BY <2>1, <2>2, OneLink
<1>7. ASSUME NEW k \in Links, Leave(k)
      PROVE  \A j \in Links : LinkStep(link[j], link'[j])
  <2>. DEFINE m == ClientCloses(link[k])
  <2>1. link' = [link EXCEPT ![k] = m]
    BY <1>7 DEF Leave
  <2>2. LinkStep(link[k], m)
    BY DEF LinkStep, Shut
  <2>. HIDE DEF m
  <2>. QED BY <2>1, <2>2, OneLink
<1>. QED BY <1>1, <1>2, <1>3, <1>4, <1>5, <1>6, <1>7 DEF Next

LEMMA NextLinks ==
  ASSUME TypeOK, [Next]_vars
  PROVE  \A k \in Links : LinkStep(link[k], link'[k])
BY PollingLinks, OtherLinks DEF vars, LinkStep

-----------------------------------------------------------------------------
(* The theorems.                                                           *)

LEMMA StepKeeps ==
  ASSUME NEW l \in LinkType, LinkInv(l), NEW m, LinkStep(l, m)
  PROVE  m \in LinkType /\ LinkInv(m)
BY ShutStep, OpenedStep, AskedStep, CompletedStep, TakenStep, PassedStep,
   RepliedStep, LostStep DEF LinkStep

(* The variables other than the connections.                               *)
ListsOK ==
  /\ listening \in BOOLEAN
  /\ backlog \in Seq(Links) /\ clients \in Seq(Links)
  /\ Len(turn) <= Len(clients) /\ turn = SubSeq(clients, 1, Len(turn))
  /\ stage \in {"idle", "read", "lines"} /\ (stage = "idle" <=> turn = <<>>)
  /\ remaining \in 0..Budget
  /\ raised \in 0..MaxRaises

LEMMA NoTurn ==
  /\ <<>> \in Seq(Links) /\ Len(<<>>) = 0
  /\ \A c \in Seq(Links) : SubSeq(c, 1, 0) = <<>> /\ 0 <= Len(c)
  /\ 0 \in 0..Budget
BY LimitAssumption

LEMMA NextLists ==
  ASSUME TypeOK, Next
  PROVE  ListsOK'
<1>1. CASE Poll
  <2>. DEFINE n == IF Len(backlog) < AcceptLimit THEN Len(backlog)
                                                 ELSE AcceptLimit
              all == clients \o SubSeq(backlog, 1, n)
  <2>1. n \in 0..Len(backlog) /\ backlog \in Seq(Links) /\ clients \in Seq(Links)
    <3>1. Len(backlog) \in Nat /\ AcceptLimit \in Nat
      BY LimitAssumption DEF TypeOK
    <3>. QED BY <3>1 DEF TypeOK
  <2>2. /\ all # <<>> /\ clients' = all /\ turn' = all /\ stage' = "read"
        /\ backlog' = SubSeq(backlog, n + 1, Len(backlog))
        /\ remaining' = Budget /\ UNCHANGED <<listening, raised>>
    BY <1>1 DEF Poll
  <2>. HIDE DEF n
  <2>3. SubSeq(backlog, 1, n) \in Seq(Links) /\ backlog' \in Seq(Links)
    BY <2>1, <2>2, CutInTwo, Remaining
  <2>4. all \in Seq(Links)
    BY <2>1, <2>3, ConcatProperties
  <2>. HIDE DEF all
  <2>5. SubSeq(all, 1, Len(all)) = all /\ Len(all) \in Nat
    BY <2>4, SubSeqFull
  <2>. QED BY <2>2, <2>3, <2>4, <2>5, LimitAssumption DEF ListsOK, TypeOK
<1>2. ASSUME stage # "idle", NextTurn, clients' \in {clients, Without},
             UNCHANGED <<listening, backlog, raised>>
      PROVE  ListsOK'
  BY <1>2, NextTurnType DEF ListsOK, TypeOK
<1>3. CASE HangUp \/ TooLarge \/ FinishTurn
  BY <1>2, <1>3 DEF HangUp, TooLarge, FinishTurn
<1>4. CASE Receive
  BY <1>4 DEF Receive, ListsOK, TypeOK
<1>5. CASE Dispatch
  BY <1>5, LimitAssumption DEF Dispatch, TakesLine, ListsOK, TypeOK
<1>6. CASE ReadRaises \/ DispatchRaises
  <2>1. /\ turn' = <<>> /\ stage' = "idle" /\ remaining' = 0
        /\ raised < MaxRaises /\ raised' = raised + 1
        /\ UNCHANGED <<listening, backlog, clients>>
    BY <1>6 DEF ReadRaises, DispatchRaises, EndPoll
  <2>2. raised' \in 0..MaxRaises
    BY <2>1, LimitAssumption DEF TypeOK
  <2>. QED BY <2>1, <2>2, NoTurn DEF ListsOK, TypeOK
<1>7. CASE Start
  BY <1>7 DEF Start, ListsOK, TypeOK
<1>8. CASE Dispose
  BY <1>8, NoTurn DEF Dispose, ListsOK, TypeOK
<1>9. ASSUME NEW k \in Links, Connect(k)
      PROVE  ListsOK'
  BY <1>9 DEF Connect, ListsOK, TypeOK
<1>10. CASE UNCHANGED server
  BY <1>10 DEF server, ListsOK, TypeOK
<1>. QED BY <1>1, <1>3, <1>4, <1>5, <1>6, <1>7, <1>8, <1>9, <1>10
         DEF Next, Polling, Ask, SendTail, TakeAnswer, Leave

LEMMA InitIInv == Init => IInv
<1>. SUFFICES ASSUME Init PROVE IInv
  OBVIOUS
<1>1. \A k \in Links : link[k] = NoLink
  BY DEF Init
<1>2. LinkInv(NoLink)
  <2>1. Framed(<<>>)
    BY DEF Framed
  <2>2. Rest(NoLink) = <<>> /\ Len(NoLink.s2c) = 0 /\ ~NoLink.client
    BY DEF Rest, NoLink
  <2>. QED BY <2>1, <2>2, LimitAssumption DEF LinkInv
<1>3. link \in [Links -> LinkType]
  BY NoLinkType DEF Init
<1>4. ListsOK
  <2>1. /\ listening = FALSE /\ backlog = <<>> /\ clients = <<>>
        /\ turn = <<>> /\ stage = "idle" /\ remaining = 0 /\ raised = 0
    BY DEF Init
  <2>2. SubSeq(clients, 1, Len(turn)) = turn /\ Len(turn) <= Len(clients)
    BY <2>1, NoTurn
  <2>3. 0 \in 0..MaxRaises
    BY LimitAssumption
  <2>. QED BY <2>1, <2>2, <2>3, NoTurn DEF ListsOK
<1>. QED BY <1>1, <1>2, <1>3, <1>4 DEF IInv, TypeOK, ListsOK

LEMMA NextIInv == IInv /\ [Next]_vars => IInv'
<1>. SUFFICES ASSUME IInv, [Next]_vars PROVE IInv'
  OBVIOUS
<1>1. \A k \in Links : link'[k] \in LinkType /\ LinkInv(link'[k])
  BY NextLinks, StepKeeps DEF IInv, TypeOK
<1>2. link' \in [Links -> LinkType]
  <2>1. CASE Next
    <3>1. DOMAIN link' = Links /\ link' = [k \in Links |-> link'[k]]
      BY <2>1 DEF IInv, TypeOK, Next, Polling, Poll, HangUp, TooLarge, Receive,
         ReadRaises, Dispatch, DispatchRaises, FinishTurn, Start, Dispose,
         Connect, Ask, SendTail, TakeAnswer, Leave
    <3>. QED BY <1>1, <3>1
  <2>2. CASE UNCHANGED vars
    BY <2>2 DEF vars, IInv, TypeOK
  <2>. QED BY <2>1, <2>2
<1>3. ListsOK'
  <2>1. CASE Next
    BY <2>1, NextLists DEF IInv
  <2>2. CASE UNCHANGED vars
    BY <2>2 DEF vars, server, ListsOK, IInv, TypeOK
  <2>. QED BY <2>1, <2>2
<1>. QED BY <1>1, <1>2, <1>3 DEF IInv, TypeOK, ListsOK

(* INDUCTIVE.  What is under way on a connection that is open has no       *)
(* identifier twice, requests are whole or a head and its tail, and the    *)
(* kernel never holds more answers than it has room for.                   *)
THEOREM Inductive == Spec => []IInv
BY InitIInv, NextIInv, PTL DEF Spec

(* TYPES.  Every variable stays in its range, and a Poll serves clients of *)
(* the list, in its order, within its budget (RoboVisionServer.cs:47-62).  *)
THEOREM TypeCorrect == Spec => []TypeOK
<1>1. IInv => TypeOK
  BY DEF IInv
<1>. QED BY <1>1, Inductive, PTL

(* IN ORDER.  The requests of a connection that stays open are one queue:  *)
(* none is lost but to an exception, none is repeated or overtaken         *)
(* (RoboVisionServer.cs:106-162).                                          *)
LEMMA OrderOfStep ==
  ASSUME NEW l \in LinkType, LinkInv(l), NEW m, LinkStep(l, m),
         l.client, l.server, m.client, m.server
  PROVE  /\ Kept(Flow(l), Flow(m)) /\ JoinLast(Flow(l), Flow(m))
         /\ \/ Requests(Flow(l)) \subseteq Requests(Flow(m))
            \/ /\ m.s2c # l.s2c
               /\ \A a \in Requests(Flow(l)) \ Requests(Flow(m)), b \in Ids :
                    ~Ahead(Flow(l), b, a)
            \/ /\ raised' # raised
               /\ \A x, y \in Requests(Flow(l)) \ Requests(Flow(m)) : x = y
<1>1. CASE Flow(m) = Flow(l)
  BY <1>1 DEF Kept, JoinLast
<1>2. CASE m = l \/ Passed(l, m)
  BY <1>1, <1>2, PassedStep
<1>3. CASE Shut(l, m) \/ Opened(l, m)
  BY <1>3, ShutStep, OpenedStep
<1>4. CASE Asked(l, m) \/ Completed(l, m) \/ Replied(l, m)
  BY <1>4, AskedStep, CompletedStep, RepliedStep
<1>5. CASE Taken(l, m)
  BY <1>5, TakenStep
<1>6. CASE Lost(l, m) /\ raised' # raised
  BY <1>6, LostStep
<1>. QED BY <1>2, <1>3, <1>4, <1>5, <1>6 DEF LinkStep

LEMMA NextInOrder ==
  ASSUME IInv, [Next]_vars, NEW k \in Links, Open(k), Open(k)'
  PROVE  LET before == Wire(k)
             after == Wire(k)'
             gone == Requests(before) \ Requests(after)
             come == Requests(after) \ Requests(before)
         IN /\ \A a, b \in Requests(before) \cap Requests(after) :
                 Ahead(after, a, b) <=> Ahead(before, a, b)
            /\ \A a \in come, b \in Requests(after) : ~Ahead(after, a, b)
            /\ \A a \in gone :
                 \/ link'[k].s2c # link[k].s2c
                      /\ \A b \in Ids : ~Ahead(before, b, a)
                 \/ raised' # raised /\ gone = {a}
<1>. DEFINE w == Flow(link[k])
            v == Flow(link'[k])
<1>1. Wire(k) = w /\ Wire(k)' = v
  BY DEF Wire, Sent, Flow, Rest
<1>2. /\ Kept(w, v) /\ JoinLast(w, v)
      /\ \/ Requests(w) \subseteq Requests(v)
         \/ /\ link'[k].s2c # link[k].s2c
            /\ \A a \in Requests(w) \ Requests(v), b \in Ids : ~Ahead(w, b, a)
         \/ /\ raised' # raised
            /\ \A x, y \in Requests(w) \ Requests(v) : x = y
  BY NextLinks, OrderOfStep DEF IInv, TypeOK, Open
<1>. HIDE DEF w, v
<1>. QED BY <1>1, <1>2 DEF Kept, JoinLast

THEOREM AnswersInOrder == Spec => InOrder
<1>1. IInv /\ [Next]_vars =>
        [\A k \in Links : Open(k) /\ Open(k)' =>
           LET before == Wire(k)
               after == Wire(k)'
               gone == Requests(before) \ Requests(after)
               come == Requests(after) \ Requests(before)
           IN /\ \A a, b \in Requests(before) \cap Requests(after) :
                   Ahead(after, a, b) <=> Ahead(before, a, b)
              /\ \A a \in come, b \in Requests(after) : ~Ahead(after, a, b)
              /\ \A a \in gone :
                   \/ link'[k].s2c # link[k].s2c
                        /\ \A b \in Ids : ~Ahead(before, b, a)
                   \/ raised' # raised /\ gone = {a}]_vars
  BY NextInOrder
<1>. QED BY <1>1, Inductive, PTL DEF Spec, InOrder

(* HEARD OUT.  While it listens, the server hangs up on a client that is   *)
(* still there only if that client is sending more than the limit          *)
(* (RoboVisionServer.cs:47-62, 93-97, 144-162).                            *)
LEMMA EndsOfStep ==
  ASSUME NEW l \in LinkType, LinkInv(l), NEW m, LinkStep(l, m),
         l.client, l.server, m.client, ~m.server, listening'
  PROVE  \E i \in DOMAIN l.c2s : l.c2s[i].part = "head"
<1>1. CASE Shut(l, m)
  <2>1. m # ClientCloses(l)
    <3>1. ~ClientCloses(l).client
      BY DEF ClientCloses, Settled, LinkType, NoLink
    <3>. QED BY <3>1
  <2>2. Overflows(l)
    BY <1>1, <2>1 DEF Shut
  <2>. QED BY <2>2 DEF Overflows
<1>2. CASE m = l \/ Opened(l, m)
  BY <1>2, OpenedStep
<1>3. CASE \/ Asked(l, m) \/ Completed(l, m) \/ Taken(l, m) \/ Replied(l, m)
           \/ Lost(l, m)
  <2>1. m.server = l.server
    BY <1>3 DEF Asked, Completed, Taken, Replied, Lost, LinkType
  <2>. QED BY <2>1
<1>4. CASE Passed(l, m)
  <2>1. CASE m = Flushed(l)
    BY <2>1, FlushedFacts DEF LinkInv
  <2>2. CASE m = [l EXCEPT !.inbound = @ \o l.c2s, !.c2s = <<>>]
    <3>1. m.server = l.server
      BY <2>2 DEF LinkType
    <3>. QED BY <3>1
  <2>. QED BY <1>4, <2>1, <2>2 DEF Passed
<1>. QED BY <1>1, <1>2, <1>3, <1>4 DEF LinkStep

THEOREM ClientsHeardOut == Spec => HeardOut
<1>1. IInv /\ [Next]_vars =>
        [\A k \in Links :
           Open(k) /\ listening' /\ link'[k].client /\ ~link'[k].server =>
             \E i \in DOMAIN link[k].c2s : link[k].c2s[i].part = "head"]_vars
  BY NextLinks, EndsOfStep DEF IInv, TypeOK, Open
<1>. QED BY <1>1, Inductive, PTL DEF Spec, HeardOut
=============================================================================
