----------------------- MODULE BlenderTransportProofs -----------------------
(***************************************************************************)
(* Theorems about BlenderTransport, for every value of its constants.      *)
(*                                                                         *)
(* A step does one of a few things to a connection (LinkStep), whatever    *)
(* the server and the other clients do.  Of a connection only two queues   *)
(* matter: the pieces on their way to dispatch, Arrived, and the answers   *)
(* on their way to the client, Replies.                                    *)
(***************************************************************************)
EXTENDS BlenderTransport, QueueLemmas

Replies(l) == l.s2c \o l.send

-----------------------------------------------------------------------------
(* The inductive invariant.                                                *)

(* A tail directly follows a head: it is never a line by itself.           *)
TailsFollow(q) ==
  \A i \in DOMAIN q : q[i].part = "tail" => i > 1 /\ q[i - 1].part = "head"

(* No request waits twice as a line that will be dispatched.               *)
Lines(q) == {i \in DOMAIN q : q[i].part = "line"}
Waits(q) == {q[i].id : i \in Lines(q)}
OnceEach(q) == \A i, j \in Lines(q) : q[i].id = q[j].id => i = j

(* An answer that is not the transport's own names its request.            *)
Replied(w) == {w[i].made : i \in {j \in DOMAIN w : w[j].id # "invalid"}}
Named(w) == \A i \in DOMAIN w : w[i].id = "invalid" \/ w[i].id = w[i].made

LinkInv(l) ==
  /\ Len(l.s2c) <= Capacity
  /\ ~l.server => Arrived(l) = <<>> /\ l.send = <<>>
  /\ TailsFollow(Arrived(l)) /\ OnceEach(Arrived(l)) /\ Named(Replies(l))

(* A call has a connection, which is its client's alone.  While it has a   *)
(* tail to send, the server's last piece is the head, and the request is   *)
(* nowhere a line, nor answered.                                           *)
EndsInHead(q) == q # <<>> /\ q[Len(q)].part = "head"
Half(l, id) ==
  /\ l.server => EndsInHead(Arrived(l))
  /\ id \notin Waits(Arrived(l)) \cup Replied(Replies(l))

(* Before a call on the connection has timed out, it carries one request,  *)
(* the one of the call under way, or one answer: its own or an error.      *)
Timely(l, id) ==
  ~l.late =>
    /\ Len(Replies(l)) <= 1
    /\ Arrived(l) # <<>> => Replies(l) = <<>>
    /\ \A i \in DOMAIN Arrived(l) :
         /\ Arrived(l)[i].id = id
         /\ i < Len(Arrived(l)) => Arrived(l)[i].part = "head"
    /\ \A i \in DOMAIN Replies(l) :
         Replies(l)[i].id = "invalid" \/ Replies(l)[i].made = id
    /\ l.server /\ id = None => Replies(l) = <<>>

ClientInv(c) ==
  /\ call[c] # None => sock[c] # None
  /\ sock[c] # None =>
       /\ link[sock[c]].client
       /\ \A d \in Clients : sock[d] = sock[c] => d = c
       /\ c \in unsent => Half(link[sock[c]], call[c])
       /\ Timely(link[sock[c]], call[c])

(* What waits was never dispatched, and waits on one connection only; what *)
(* is answered was dispatched once.                                        *)
History ==
  /\ \A id \in Ids : executed[id] <= 1 /\ (Fresh(id) => executed[id] = 0)
  /\ \A k \in Links :
       /\ \A id \in Waits(Arrived(link[k])) : executed[id] = 0
       /\ \A id \in Replied(Replies(link[k])) : executed[id] = 1
       /\ \A j \in Links \ {k} :
            Waits(Arrived(link[j])) \cap Waits(Arrived(link[k])) = {}

IInv ==
  /\ TypeOK
  /\ \A k \in Links : LinkInv(link[k])
  /\ \A c \in Clients : ClientInv(c)
  /\ History

-----------------------------------------------------------------------------
(* Pieces on their way to dispatch.                                        *)

(* The end of the first line.                                              *)
LEMMA LineEndIsFirst ==
  ASSUME NEW q \in Seq(Pieces), HasLine(q)
  PROVE  /\ LineEnd(q) \in 1..Len(q) /\ q[LineEnd(q)].part # "head"
         /\ \A i \in 1 .. LineEnd(q) - 1 : q[i].part = "head"
<1>1. LineEnds(q) \subseteq Nat /\ DOMAIN q = 1..Len(q) /\ Len(q) \in Nat
  BY DEF LineEnds
<1>2. PICK e \in LineEnds(q) : \A j \in LineEnds(q) : e <= j
  BY <1>1, FirstOf DEF HasLine
<1>3. LineEnd(q) \in LineEnds(q) /\ \A j \in LineEnds(q) : LineEnd(q) <= j
  BY <1>2 DEF LineEnd
<1>. QED BY <1>1, <1>3 DEF LineEnds

(* Lines leave at the front.                                               *)
LEMMA LineLeaves ==
  ASSUME NEW q \in Seq(Pieces), TailsFollow(q), OnceEach(q),
         NEW e \in 1..Len(q), q[e].part # "head",
         NEW r \in Seq(Pieces), Len(r) = Len(q) - e,
         \A i \in 1..Len(q) - e : r[i] = q[i + e]
  PROVE  /\ TailsFollow(r) /\ OnceEach(r)
         /\ Waits(r) \subseteq Waits(q)
         /\ q[e].part = "line" => q[e].id \notin Waits(r)
         /\ EndsInHead(q) => EndsInHead(r)
<1>1. \A i \in 1..Len(q) - e : r[i] = q[i + e]
  OBVIOUS
<1>2. /\ DOMAIN q = 1..Len(q) /\ DOMAIN r = 1..Len(r)
      /\ Len(q) \in Nat /\ Len(r) \in Nat /\ e \in Nat
  OBVIOUS
<1>3. \A i \in DOMAIN r : i + e \in DOMAIN q /\ r[i] = q[i + e] /\ i \in Nat
  BY <1>2
<1>4. TailsFollow(r)
  <2>1. SUFFICES ASSUME NEW i \in DOMAIN r, r[i].part = "tail"
                 PROVE  i > 1 /\ r[i - 1].part = "head"
    BY DEF TailsFollow
  <2>2. PICK j \in DOMAIN q : j = i + e /\ q[j].part = "tail"
    BY <1>3, <2>1
  <2>3. j > 1 /\ q[j - 1].part = "head"
    BY <2>2 DEF TailsFollow
  <2>4. i # 1
    BY <1>2, <2>2, <2>3
  <2>5. i > 1 /\ i - 1 \in 1..Len(q) - e /\ i - 1 + e = j - 1
    BY <1>1, <1>2, <2>2, <2>4
  <2>. QED BY <1>1, <2>3, <2>5
<1>5. \A i \in Lines(r) : i + e \in Lines(q) /\ r[i].id = q[i + e].id
  BY <1>3 DEF Lines
<1>6. OnceEach(r)
  <2>1. SUFFICES ASSUME NEW i \in Lines(r), NEW j \in Lines(r),
                        r[i].id = r[j].id
                 PROVE  i = j
    BY DEF OnceEach
  <2>2. i + e = j + e
    BY <1>5, <2>1 DEF OnceEach
  <2>3. i \in Nat /\ j \in Nat
    BY <1>3 DEF Lines
  <2>. QED BY <1>2, <2>2, <2>3
<1>7. Waits(r) \subseteq Waits(q)
  BY <1>5 DEF Waits
<1>8. ASSUME q[e].part = "line", q[e].id \in Waits(r)
      PROVE  FALSE
  <2>1. PICK i \in Lines(r) : r[i].id = q[e].id
    BY <1>8 DEF Waits
  <2>2. e \in Lines(q)
    BY <1>2, <1>8 DEF Lines
  <2>3. i + e = e
    BY <1>5, <2>1, <2>2 DEF OnceEach
  <2>4. i \in 1..Len(r)
    BY <1>2 DEF Lines
  <2>. QED BY <1>2, <2>3, <2>4
<1>9. ASSUME EndsInHead(q)
      PROVE  EndsInHead(r)
  <2>1. e # Len(q)
    BY <1>9 DEF EndsInHead
  <2>2. Len(r) \in 1..Len(q) - e /\ Len(r) + e = Len(q)
    BY <1>1, <1>2, <2>1
  <2>3. r[Len(r)] = q[Len(q)]
    BY <1>1, <2>2
  <2>4. r # <<>>
    BY <2>2
  <2>. QED BY <1>9, <2>3, <2>4 DEF EndsInHead
<1>. QED BY <1>4, <1>6, <1>7, <1>8, <1>9

LEMMA LinesLeft ==
  ASSUME NEW q \in Seq(Pieces), TailsFollow(q), OnceEach(q),
         NEW e \in 1..Len(q), q[e].part # "head"
  PROVE  LET r == SubSeq(q, e + 1, Len(q))
         IN /\ TailsFollow(r) /\ OnceEach(r)
            /\ Waits(r) \subseteq Waits(q)
            /\ q[e].part = "line" => q[e].id \notin Waits(r)
            /\ EndsInHead(q) => EndsInHead(r)
<1>1. e \in 0..Len(q)
  OBVIOUS
<1>2. PICK r : r = SubSeq(q, e + 1, Len(q))
  OBVIOUS
<1>3. /\ r \in Seq(Pieces) /\ Len(r) = Len(q) - e
      /\ \A i \in 1..Len(q) - e : r[i] = q[i + e]
  BY <1>1, <1>2, Remaining
<1>4. /\ TailsFollow(r) /\ OnceEach(r) /\ Waits(r) \subseteq Waits(q)
      /\ q[e].part = "line" => q[e].id \notin Waits(r)
      /\ EndsInHead(q) => EndsInHead(r)
  BY <1>3, LineLeaves
<1>. QED BY <1>2, <1>4

(* A piece joins at the end.                                               *)
LEMMA PieceJoins ==
  ASSUME NEW q \in Seq(Pieces), TailsFollow(q), OnceEach(q),
         NEW p \in Pieces, p.part = "tail" => EndsInHead(q),
         p.part = "line" => p.id \notin Waits(q)
  PROVE  /\ TailsFollow(Append(q, p)) /\ OnceEach(Append(q, p))
         /\ Waits(Append(q, p)) \subseteq
              Waits(q) \cup IF p.part = "line" THEN {p.id} ELSE {}
         /\ p.part = "head" => EndsInHead(Append(q, p))
<1>. DEFINE v == Append(q, p)
<1>1. /\ v \in Seq(Pieces) /\ Len(v) = Len(q) + 1 /\ v[Len(v)] = p
      /\ Len(q) \in Nat /\ DOMAIN q = 1..Len(q) /\ DOMAIN v = 1..Len(v)
      /\ \A i \in DOMAIN q : i \in DOMAIN v /\ v[i] = q[i]
      /\ \A i \in DOMAIN v : i \in Nat /\ (i \in DOMAIN q \/ i = Len(v))
  OBVIOUS
<1>. HIDE DEF v
<1>2. TailsFollow(v)
  <2>1. SUFFICES ASSUME NEW i \in DOMAIN v, v[i].part = "tail"
                 PROVE  i > 1 /\ v[i - 1].part = "head"
    BY DEF TailsFollow
  <2>2. CASE i \in DOMAIN q
    <3>1. i > 1 /\ q[i - 1].part = "head"
      BY <1>1, <2>1, <2>2 DEF TailsFollow
    <3>2. i - 1 \in DOMAIN q
      BY <1>1, <2>2, <3>1
    <3>. QED BY <1>1, <3>1, <3>2
  <2>3. CASE i = Len(v)
    <3>1. EndsInHead(q) /\ q # <<>>
      BY <1>1, <2>1, <2>3 DEF EndsInHead
    <3>2. Len(q) \in DOMAIN q /\ i - 1 = Len(q) /\ i > 1
      BY <1>1, <2>3, <3>1
    <3>. QED BY <1>1, <3>1, <3>2 DEF EndsInHead
  <2>. QED BY <1>1, <2>2, <2>3
<1>3. \A i \in Lines(v) : \/ i \in Lines(q) /\ v[i] = q[i]
                          \/ i = Len(v) /\ p.part = "line" /\ v[i] = p
  BY <1>1 DEF Lines
<1>4. OnceEach(v)
  BY <1>3 DEF OnceEach, Waits
<1>5. Waits(v) \subseteq Waits(q) \cup IF p.part = "line" THEN {p.id} ELSE {}
  BY <1>3 DEF Waits
<1>6. ASSUME p.part = "head"
      PROVE  EndsInHead(v)
  BY <1>1, <1>6 DEF EndsInHead
<1>. QED BY <1>2, <1>4, <1>5, <1>6 DEF v

LEMMA NoPieces ==
  /\ TailsFollow(<<>>) /\ OnceEach(<<>>) /\ Waits(<<>>) = {}
  /\ ~EndsInHead(<<>>) /\ Named(<<>>) /\ Replied(<<>>) = {}
BY DEF TailsFollow, OnceEach, Waits, Lines, EndsInHead, Named, Replied

-----------------------------------------------------------------------------
(* Answers on their way to the client.                                     *)

(* Every answer of v is one of w.                                          *)
Among(v, w) == \A i \in DOMAIN v : \E j \in DOMAIN w : v[i] = w[j]

LEMMA FewerAnswers ==
  ASSUME NEW w, NEW v, Among(v, w), Named(w)
  PROVE  Named(v) /\ Replied(v) \subseteq Replied(w)
BY DEF Among, Named, Replied

LEMMA AnswerJoins ==
  ASSUME NEW w \in Seq(Answer), Named(w), NEW a \in Answer,
         a.id = "invalid" \/ a.id = a.made
  PROVE  /\ Append(w, a) \in Seq(Answer)
         /\ Named(Append(w, a)) /\ Among(w, Append(w, a))
         /\ Replied(Append(w, a)) \subseteq
              Replied(w) \cup IF a.id = "invalid" THEN {} ELSE {a.made}
<1>. DEFINE v == Append(w, a)
<1>1. /\ v \in Seq(Answer)
      /\ \A i \in DOMAIN v : (i \in DOMAIN w /\ v[i] = w[i]) \/ v[i] = a
      /\ \A i \in DOMAIN w : i \in DOMAIN v /\ v[i] = w[i]
  OBVIOUS
<1>. HIDE DEF v
<1>. QED BY <1>1 DEF Named, Replied, Among, v

-----------------------------------------------------------------------------
(* Connections.                                                            *)

LEMMA LinkFields ==
  ASSUME NEW l \in LinkType
  PROVE  /\ l.client \in BOOLEAN /\ l.server \in BOOLEAN /\ l.late \in BOOLEAN
         /\ l.c2s \in Seq(Pieces) /\ l.recv \in Seq(Pieces)
         /\ l.s2c \in Seq(Answer) /\ l.send \in Seq(Answer)
BY DEF LinkType

LEMMA LinkUpdated ==
  ASSUME NEW l \in LinkType, NEW p \in Seq(Pieces), NEW q \in Seq(Pieces),
         NEW a \in Seq(Answer), NEW b \in Seq(Answer)
  PROVE  /\ [l EXCEPT !.c2s = p] \in LinkType
         /\ [l EXCEPT !.s2c = a] \in LinkType
         /\ [l EXCEPT !.recv = p] \in LinkType
         /\ [l EXCEPT !.late = TRUE] \in LinkType
         /\ [l EXCEPT !.recv = p, !.c2s = q] \in LinkType
         /\ [l EXCEPT !.recv = p, !.send = a] \in LinkType
         /\ [l EXCEPT !.s2c = a, !.send = b] \in LinkType
         /\ [l EXCEPT !.recv = p, !.c2s = q, !.send = a] \in LinkType
         /\ [l EXCEPT !.client = FALSE, !.s2c = a] \in LinkType
         /\ [l EXCEPT !.server = FALSE, !.c2s = p, !.recv = q,
                      !.send = a, !.s2c = b] \in LinkType
BY DEF LinkType

LEMMA EmptyTypes == <<>> \in Seq(Pieces) /\ <<>> \in Seq(Answer)
OBVIOUS

(* The first of two sequences that are joined.                             *)
LEMMA FirstPart ==
  ASSUME NEW S, NEW s \in Seq(S), NEW t \in Seq(S)
  PROVE  /\ s \o t \in Seq(S) /\ Len(s \o t) = Len(s) + Len(t)
         /\ Len(s) \in Nat /\ Len(t) \in Nat /\ Len(s) <= Len(s \o t)
         /\ \A i \in DOMAIN s : i \in DOMAIN (s \o t) /\ (s \o t)[i] = s[i]
<1>1. /\ s \o t \in Seq(S) /\ DOMAIN (s \o t) = 1..Len(s \o t)
      /\ Len(s) \in Nat /\ Len(t) \in Nat
      /\ Len(s \o t) = Len(s) + Len(t)
      /\ \A i \in 1..Len(s) : (s \o t)[i] = s[i]
  BY Joined
<1>2. DOMAIN s = 1..Len(s)
  OBVIOUS
<1>3. \A i \in 1..Len(s) : i \in 1..Len(s) + Len(t)
  BY <1>1
<1>4. Len(s) <= Len(s \o t)
  BY <1>1
<1>. QED BY <1>1, <1>2, <1>3, <1>4

(* The second of two sequences that are joined.                            *)
LEMMA LastPart ==
  ASSUME NEW S, NEW s \in Seq(S), NEW t \in Seq(S), NEW i \in DOMAIN t
  PROVE  \E j \in DOMAIN (s \o t) : t[i] = (s \o t)[j]
<1>1. /\ DOMAIN (s \o t) = 1..Len(s \o t)
      /\ Len(s) \in Nat /\ Len(t) \in Nat
      /\ Len(s \o t) = Len(s) + Len(t)
      /\ \A j \in Len(s) + 1 .. Len(s) + Len(t) : (s \o t)[j] = t[j - Len(s)]
  BY Joined
<1>2. i \in 1..Len(t)
  OBVIOUS
<1>3. PICK j \in Nat : j = i + Len(s)
  BY <1>1, <1>2
<1>4. /\ j \in Len(s) + 1 .. Len(s) + Len(t) /\ j - Len(s) = i
      /\ j \in 1..Len(s \o t)
  BY <1>1, <1>2, <1>3
<1>. QED BY <1>1, <1>4

LEMMA LinkQueues ==
  ASSUME NEW l \in LinkType
  PROVE  /\ Arrived(l) \in Seq(Pieces) /\ Replies(l) \in Seq(Answer)
         /\ Len(Arrived(l)) \in Nat /\ Len(Replies(l)) \in Nat
<1>1. Arrived(l) \in Seq(Pieces) /\ Replies(l) \in Seq(Answer)
  BY LinkFields, ConcatProperties DEF Arrived, Replies
<1>. QED BY <1>1, LenProperties

LEMMA Regrouped ==
  /\ \A s, t, u \in Seq(Answer) : (s \o t) \o u = s \o (t \o u)
  /\ \A s, t, u \in Seq(Pieces) : (s \o t) \o u = s \o (t \o u)
<1>1. \A s, t, u \in Seq(Answer) : (s \o t) \o u = s \o (t \o u)
  BY ConcatAssociative
<1>2. \A s, t, u \in Seq(Pieces) : (s \o t) \o u = s \o (t \o u)
  BY ConcatAssociative
<1>. QED BY <1>1, <1>2

LEMMA WithEmpty ==
  /\ \A s \in Seq(Answer) : s \o <<>> = s /\ <<>> \o s = s
  /\ \A s \in Seq(Pieces) : s \o <<>> = s /\ <<>> \o s = s
BY ConcatEmptySeq

LEMMA AppendsJoined ==
  /\ \A s, t \in Seq(Answer), a \in Answer :
       s \o Append(t, a) = Append(s \o t, a)
  /\ \A s, t \in Seq(Pieces), p \in Pieces :
       s \o Append(t, p) = Append(s \o t, p)
BY AppendJoined

LEMMA NoLinkType ==
  /\ NoLink \in LinkType /\ Arrived(NoLink) = <<>> /\ Replies(NoLink) = <<>>
  /\ LinkInv(NoLink)
<1>1. NoLink \in LinkType /\ Arrived(NoLink) = <<>> /\ Replies(NoLink) = <<>>
  BY WithEmpty, EmptyTypes DEF NoLink, LinkType, Arrived, Replies
<1>2. Len(NoLink.s2c) <= Capacity /\ NoLink.send = <<>>
  BY LimitAssumption DEF NoLink
<1>. QED BY <1>1, <1>2, NoPieces DEF LinkInv

(* What send() takes stays in front of what it leaves.                     *)
LEMMA FlushedFacts ==
  ASSUME NEW l \in LinkType, Len(l.s2c) <= Capacity
  PROVE  /\ Flushed(l) \in LinkType
         /\ Replies(Flushed(l)) = Replies(l)
         /\ Arrived(Flushed(l)) = Arrived(l)
         /\ Len(Flushed(l).s2c) <= Capacity
         /\ Flushed(l).client = l.client /\ Flushed(l).server = l.server
         /\ Flushed(l).late = l.late
         /\ Len(Replies(l)) <= Capacity => Flushed(l).send = <<>>
<1>. DEFINE n == Takes(l)
            o == l.send
            c == SubSeq(o, 1, n)
            d == SubSeq(o, n + 1, Len(o))
<1>1. /\ o \in Seq(Answer) /\ l.s2c \in Seq(Answer)
      /\ Len(o) \in Nat /\ Len(l.s2c) \in Nat /\ Capacity \in Nat
  BY LinkFields, LimitAssumption
<1>2. n = IF Len(o) < Capacity - Len(l.s2c)
            THEN Len(o) ELSE Capacity - Len(l.s2c)
  BY DEF Takes
<1>3. /\ n \in 0..Len(o) /\ n <= Capacity - Len(l.s2c)
      /\ Len(l.s2c) + Len(o) <= Capacity => n = Len(o)
  <2>. HIDE DEF n, o
  <2>1. PICK room \in Nat : room = Capacity - Len(l.s2c)
    <3>1. Capacity - Len(l.s2c) \in Nat
      BY <1>1
    <3>. QED BY <3>1
  <2>2. PICK waits \in Nat : waits = Len(o)
    BY <1>1
  <2>3. n = IF waits < room THEN waits ELSE room
    BY <1>2, <2>1, <2>2
  <2>4. n \in 0..waits /\ n <= room /\ (waits <= room => n = waits)
    BY <2>3
  <2>5. Len(l.s2c) + Len(o) <= Capacity => waits <= room
    BY <1>1, <2>1, <2>2
  <2>. QED BY <2>1, <2>2, <2>4, <2>5
<1>. HIDE DEF n
<1>4. /\ c \in Seq(Answer) /\ Len(c) = n /\ c \o d = o
      /\ d \in Seq(Answer) /\ Len(d) = Len(o) - n
  <2>. HIDE DEF o
  <2>1. c \in Seq(Answer) /\ Len(c) = n /\ c \o d = o
    BY <1>1, <1>3, CutInTwo
  <2>2. d \in Seq(Answer) /\ Len(d) = Len(o) - n
    BY <1>1, <1>3, Remaining
  <2>. QED BY <2>1, <2>2
<1>5. Flushed(l) = [l EXCEPT !.s2c = l.s2c \o c, !.send = d]
  BY DEF Flushed, Flushing, n
<1>. HIDE DEF c, d, o
<1>6. l.s2c \o c \in Seq(Answer) /\ Len(l.s2c \o c) = Len(l.s2c) + n
  BY <1>1, <1>4, ConcatProperties
<1>7. (l.s2c \o c) \o d = l.s2c \o o
  BY ZenonT(60), <1>1, <1>4, Regrouped
<1>8. Flushed(l) \in LinkType
  <2>1. PICK r \in Seq(Answer) : r = l.s2c \o c
    BY <1>6
  <2>2. Flushed(l) = [l EXCEPT !.s2c = r, !.send = d]
    BY <1>5, <2>1
  <2>3. [l EXCEPT !.s2c = r, !.send = d] \in LinkType
    BY <1>4, EmptyTypes, LinkUpdated
  <2>. QED BY <2>2, <2>3
<1>9. /\ Flushed(l).s2c = l.s2c \o c /\ Flushed(l).send = d
      /\ Flushed(l).recv = l.recv /\ Flushed(l).c2s = l.c2s
      /\ Flushed(l).client = l.client /\ Flushed(l).server = l.server
      /\ Flushed(l).late = l.late
  BY <1>5 DEF LinkType
<1>10. Len(Flushed(l).s2c) <= Capacity
  <2>1. Len(Flushed(l).s2c) = Len(l.s2c) + n
    BY <1>6, <1>9
  <2>. QED BY <1>1, <1>3, <2>1
<1>11. Len(Replies(l)) <= Capacity => Flushed(l).send = <<>>
  <2>1. Len(Replies(l)) = Len(l.s2c) + Len(o)
    BY <1>1, ConcatProperties DEF Replies, o
  <2>2. ASSUME Len(Replies(l)) <= Capacity
        PROVE  Flushed(l).send = <<>>
    <3>1. Len(d) = 0
      BY <1>1, <1>3, <1>4, <2>1, <2>2
    <3>. QED BY <1>4, <1>9, <3>1, EmptySeq
  <2>. QED BY <2>2
<1>12. Replies(Flushed(l)) = Replies(l)
  BY <1>7, <1>9 DEF Replies, o
<1>13. Arrived(Flushed(l)) = Arrived(l)
  BY <1>9 DEF Arrived
<1>. QED BY <1>8, <1>9, <1>10, <1>11, <1>12, <1>13

(* The server's end closes.                                                *)
LEMMA ServerClosesFacts ==
  ASSUME NEW l \in LinkType, NEW m \in ServerCloses(l)
  PROVE  /\ m \in LinkType /\ m.client = l.client /\ m.server = FALSE
         /\ m.recv = <<>> /\ m.c2s = <<>> /\ m.send = <<>>
         /\ m.s2c = l.s2c \/ m.s2c = <<>>
         /\ m.client => m.late = l.late
<1>1. PICK kept \in {l.s2c, <<>>} :
        m = Settled([l EXCEPT !.server = FALSE, !.c2s = <<>>, !.recv = <<>>,
                              !.send = <<>>, !.s2c = kept])
  BY DEF ServerCloses
<1>. DEFINE x == [l EXCEPT !.server = FALSE, !.c2s = <<>>, !.recv = <<>>,
                           !.send = <<>>, !.s2c = kept]
<1>2. kept \in Seq(Answer)
  BY LinkFields, EmptyTypes
<1>3. x \in LinkType
  BY <1>2, EmptyTypes, LinkUpdated
<1>4. /\ x.client = l.client /\ x.server = FALSE /\ x.late = l.late
      /\ x.recv = <<>> /\ x.c2s = <<>> /\ x.send = <<>> /\ x.s2c = kept
  BY DEF LinkType
<1>. HIDE DEF x
<1>5. m = IF x.client \/ x.server THEN x ELSE NoLink
  BY <1>1 DEF Settled, x
<1>6. CASE l.client
  BY <1>3, <1>4, <1>5, <1>6
<1>7. CASE ~l.client
  <2>1. m = NoLink
    BY <1>4, <1>5, <1>7
  <2>2. l.client = FALSE
    BY <1>7, LinkFields
  <2>. QED BY <2>1, <2>2, NoLinkType DEF NoLink
<1>. QED BY <1>6, <1>7

(* The client's end closes.                                                *)
LEMMA ClientClosesFacts ==
  ASSUME NEW l \in LinkType, LinkInv(l), NEW m, m = ClientCloses(l)
  PROVE  /\ m \in LinkType /\ m.client = FALSE /\ m.server = l.server
         /\ m.s2c = <<>> /\ m.send = l.send /\ Arrived(m) = Arrived(l)
<1>. DEFINE x == [l EXCEPT !.client = FALSE, !.s2c = <<>>]
<1>1. x \in LinkType
  BY EmptyTypes, LinkUpdated
<1>2. /\ x.client = FALSE /\ x.server = l.server /\ x.s2c = <<>>
      /\ x.recv = l.recv /\ x.c2s = l.c2s /\ x.send = l.send
  BY DEF LinkType
<1>3. m = Settled(x)
  BY DEF ClientCloses
<1>. HIDE DEF x
<1>4. CASE l.server
  <2>1. m = x
    BY <1>2, <1>3, <1>4 DEF Settled
  <2>2. Arrived(m) = Arrived(l)
    BY <1>2, <2>1 DEF Arrived
  <2>. QED BY <1>1, <1>2, <2>1, <2>2
<1>5. CASE ~l.server
  <2>1. m = NoLink
    BY <1>2, <1>3, <1>5 DEF Settled
  <2>2. Arrived(l) = <<>> /\ l.send = <<>>
    BY <1>5 DEF LinkInv
  <2>3. l.server = FALSE
    BY <1>5, LinkFields
  <2>4. /\ m.client = FALSE /\ m.server = FALSE
        /\ m.s2c = <<>> /\ m.send = <<>>
    BY <2>1 DEF NoLink
  <2>. QED BY <2>1, <2>2, <2>3, <2>4, NoLinkType
<1>. QED BY <1>4, <1>5

-----------------------------------------------------------------------------
(* What a step of the server does to a connection: `done` are the requests *)
(* it dispatches.                                                          *)
Effect(l, m, done) ==
  /\ m \in LinkType /\ LinkInv(m)
  /\ m.client = l.client /\ (m.server => l.server)
  /\ Waits(Arrived(m)) \subseteq Waits(Arrived(l)) \ done
  /\ Replied(Replies(m)) \subseteq Replied(Replies(l)) \cup done
  /\ m.server /\ EndsInHead(Arrived(l)) => EndsInHead(Arrived(m))
  /\ \A id \in Ids \cup {None} : m.client /\ Timely(l, id) => Timely(m, id)

LEMMA NoEffect ==
  ASSUME NEW l \in LinkType, LinkInv(l)
  PROVE  Effect(l, l, {})
BY DEF Effect

(* The server's end closes.                                                *)
LEMMA ServerClosesEffect ==
  ASSUME NEW l \in LinkType, LinkInv(l), NEW m \in ServerCloses(l)
  PROVE  Effect(l, m, {})
<1>1. /\ m \in LinkType /\ m.client = l.client /\ m.server = FALSE
      /\ m.recv = <<>> /\ m.c2s = <<>> /\ m.send = <<>>
      /\ m.s2c = l.s2c \/ m.s2c = <<>>
      /\ m.client => m.late = l.late
  BY ServerClosesFacts
<1>2. Arrived(m) = <<>> /\ Replies(m) = m.s2c
  BY <1>1, WithEmpty, EmptyTypes, LinkFields DEF Arrived, Replies
<1>3. /\ Len(l.s2c) \in Nat /\ Len(Replies(l)) \in Nat
      /\ Len(l.s2c) <= Len(Replies(l))
      /\ \A i \in DOMAIN l.s2c :
           i \in DOMAIN Replies(l) /\ l.s2c[i] = Replies(l)[i]
  <2>1. l.s2c \in Seq(Answer) /\ l.send \in Seq(Answer)
    BY LinkFields
  <2>. QED BY <2>1, FirstPart, LinkQueues DEF Replies
<1>4. \A i \in DOMAIN m.s2c : i \in DOMAIN Replies(l) /\ m.s2c[i] = Replies(l)[i]
  <2>1. CASE m.s2c = l.s2c
    BY <1>3, <2>1
  <2>2. CASE m.s2c = <<>>
    BY <2>2
  <2>. QED BY <1>1, <2>1, <2>2
<1>5. Len(m.s2c) <= Len(l.s2c) /\ Len(m.s2c) <= Len(Replies(l))
  <2>1. Len(m.s2c) = Len(l.s2c) \/ Len(m.s2c) = 0
    BY <1>1
  <2>. QED BY <1>3, <2>1
<1>6. Named(Replies(m)) /\ Replied(Replies(m)) \subseteq Replied(Replies(l))
  <2>1. Among(m.s2c, Replies(l))
    BY <1>4 DEF Among
  <2>. QED BY <1>2, <2>1, FewerAnswers DEF LinkInv
<1>7. LinkInv(m)
  <2>1. Len(m.s2c) <= Capacity
    BY <1>1, LimitAssumption DEF LinkInv
  <2>. QED BY <1>1, <1>2, <1>6, <2>1, NoPieces DEF LinkInv
<1>8. ASSUME NEW id \in Ids \cup {None}, m.client, Timely(l, id)
      PROVE  Timely(m, id)
  <2>1. SUFFICES ASSUME ~l.late
                 PROVE  /\ Len(m.s2c) <= 1
                        /\ \A i \in DOMAIN m.s2c :
                             m.s2c[i].id = "invalid" \/ m.s2c[i].made = id
    BY <1>1, <1>2, <1>8, NoPieces DEF Timely
  <2>2. /\ Len(Replies(l)) <= 1
        /\ \A i \in DOMAIN Replies(l) :
             Replies(l)[i].id = "invalid" \/ Replies(l)[i].made = id
    BY <1>8, <2>1 DEF Timely
  <2>3. Len(m.s2c) \in Nat /\ Len(Replies(l)) \in Nat
    <3>1. m.s2c \in Seq(Answer)
      BY <1>1, LinkFields
    <3>. QED BY <1>3, <3>1
  <2>. QED BY <1>4, <1>5, <2>2, <2>3
<1>. QED BY <1>1, <1>2, <1>6, <1>7, <1>8, NoPieces DEF Effect

(* Pieces and answers move on, and stay in order.                          *)
LEMMA MovedEffect ==
  ASSUME NEW l \in LinkType, LinkInv(l), NEW m \in LinkType,
         m.client = l.client, m.server = l.server, m.late = l.late,
         Len(m.s2c) <= Capacity, ~m.server => m.send = <<>>,
         Arrived(m) = Arrived(l), Replies(m) = Replies(l)
  PROVE  Effect(l, m, {})
BY DEF Effect, LinkInv, Timely

(* A line leaves the receive buffer.                                       *)
LEMMA LineTaken ==
  ASSUME NEW l \in LinkType, LinkInv(l), HasLine(l.recv),
         NEW e, e = LineEnd(l.recv), NEW r, r = Consumed(l.recv) \o l.c2s
  PROVE  /\ e \in 1..Len(l.recv) /\ Consumed(l.recv) \in Seq(Pieces)
         /\ e \in 1..Len(Arrived(l)) /\ l.recv[e] = Arrived(l)[e]
         /\ l.recv[e] \in Pieces /\ l.recv[e].part # "head"
         /\ e = 1 => l.recv[e].part = "line"
         /\ r \in Seq(Pieces) /\ Len(r) = Len(Arrived(l)) - e
         /\ TailsFollow(r) /\ OnceEach(r)
         /\ Waits(r) \subseteq Waits(Arrived(l))
         /\ l.recv[e].part = "line" => l.recv[e].id \notin Waits(r)
         /\ EndsInHead(Arrived(l)) => EndsInHead(r)
<1>1. l.recv \in Seq(Pieces) /\ l.c2s \in Seq(Pieces)
  BY LinkFields
<1>2. e \in 1..Len(l.recv) /\ l.recv[e].part # "head"
  BY <1>1, LineEndIsFirst
<1>3. /\ Arrived(l) \in Seq(Pieces) /\ Len(l.recv) \in Nat
      /\ Len(l.recv) <= Len(Arrived(l)) /\ Len(Arrived(l)) \in Nat
      /\ \A i \in DOMAIN l.recv :
           i \in DOMAIN Arrived(l) /\ Arrived(l)[i] = l.recv[i]
  BY <1>1, FirstPart, LinkQueues DEF Arrived
<1>4. /\ e \in 0..Len(l.recv) /\ e \in 1..Len(Arrived(l))
      /\ e \in 0..Len(Arrived(l))
  BY <1>2, <1>3
<1>5. Consumed(l.recv) = SubSeq(l.recv, e + 1, Len(l.recv))
  BY DEF Consumed
<1>6. Consumed(l.recv) \in Seq(Pieces)
  BY <1>1, <1>4, <1>5, Remaining
<1>7. r = SubSeq(Arrived(l), e + 1, Len(Arrived(l)))
  BY <1>1, <1>4, <1>5, CutBefore DEF Arrived
<1>8. /\ r \in Seq(Pieces) /\ Len(r) = Len(Arrived(l)) - e
      /\ \A i \in 1..Len(Arrived(l)) - e : r[i] = Arrived(l)[i + e]
  BY <1>3, <1>4, <1>7, Remaining
<1>9. l.recv[e] = Arrived(l)[e] /\ l.recv[e] \in Pieces
  BY <1>1, <1>2, <1>3
<1>10. ASSUME e = 1 PROVE l.recv[e].part = "line"
  <2>1. TailsFollow(Arrived(l)) /\ e \in DOMAIN Arrived(l)
    BY <1>3, <1>4 DEF LinkInv
  <2>2. l.recv[e].part # "tail"
    BY <1>9, <1>10, <2>1 DEF TailsFollow
  <2>3. l.recv[e].part \in {"line", "head", "tail"}
    BY <1>9 DEF Pieces
  <2>. QED BY <1>2, <2>2, <2>3
<1>11. TailsFollow(Arrived(l)) /\ OnceEach(Arrived(l))
  BY DEF LinkInv
<1>12. /\ TailsFollow(r) /\ OnceEach(r)
       /\ Waits(r) \subseteq Waits(Arrived(l))
       /\ l.recv[e].part = "line" => l.recv[e].id \notin Waits(r)
       /\ EndsInHead(Arrived(l)) => EndsInHead(r)
  <2>1. Arrived(l)[e].part # "head"
    BY <1>2, <1>9
  <2>2. PICK q \in Seq(Pieces) : q = Arrived(l)
    BY <1>3
  <2>3. /\ TailsFollow(q) /\ OnceEach(q) /\ e \in 1..Len(q)
        /\ q[e].part # "head"
    BY <1>4, <1>11, <2>1, <2>2
  <2>4. /\ TailsFollow(SubSeq(q, e + 1, Len(q)))
        /\ OnceEach(SubSeq(q, e + 1, Len(q)))
        /\ Waits(SubSeq(q, e + 1, Len(q))) \subseteq Waits(q)
        /\ q[e].part = "line" =>
             q[e].id \notin Waits(SubSeq(q, e + 1, Len(q)))
        /\ EndsInHead(q) => EndsInHead(SubSeq(q, e + 1, Len(q)))
    BY <2>3, LinesLeft
  <2>. QED BY <1>7, <1>9, <2>2, <2>4
<1>. QED BY <1>2, <1>4, <1>6, <1>8, <1>9, <1>10, <1>12

(* On a connection that is not late, it was all that was on its way.       *)
LEMMA LineTakenTimely ==
  ASSUME NEW l \in LinkType, LinkInv(l), HasLine(l.recv),
         NEW e, e = LineEnd(l.recv), NEW r, r = Consumed(l.recv) \o l.c2s,
         ~l.late, NEW id, Timely(l, id)
  PROVE  r = <<>> /\ Replies(l) = <<>> /\ l.recv[e].id = id
<1>1. /\ e \in 1..Len(Arrived(l)) /\ l.recv[e] = Arrived(l)[e]
      /\ l.recv[e].part # "head"
      /\ r \in Seq(Pieces) /\ Len(r) = Len(Arrived(l)) - e
  BY LineTaken
<1>2. /\ Arrived(l) # <<>> => Replies(l) = <<>>
      /\ \A i \in DOMAIN Arrived(l) :
           /\ Arrived(l)[i].id = id
           /\ i < Len(Arrived(l)) => Arrived(l)[i].part = "head"
  BY DEF Timely
<1>3. /\ Arrived(l) \in Seq(Pieces) /\ Len(Arrived(l)) \in Nat
      /\ DOMAIN Arrived(l) = 1..Len(Arrived(l))
  BY LinkQueues
<1>4. e \in DOMAIN Arrived(l) /\ ~(e < Len(Arrived(l)))
  BY <1>1, <1>2, <1>3
<1>5. Len(r) = 0
  BY <1>1, <1>3, <1>4
<1>6. Arrived(l) # <<>>
  BY <1>4
<1>. QED BY <1>1, <1>2, <1>4, <1>5, <1>6, EmptySeq

(* A line is gone, and perhaps its answer queued.                          *)
LEMMA LineTakenEffect ==
  ASSUME NEW l \in LinkType, LinkInv(l), HasLine(l.recv),
         NEW e, e = LineEnd(l.recv), NEW r, r = Consumed(l.recv) \o l.c2s,
         NEW done \in SUBSET Ids, done \subseteq {l.recv[e].id},
         done # {} => e = 1,
         NEW m \in LinkType, Arrived(m) = r,
         m.client = l.client, m.server = l.server, m.late = l.late,
         m.s2c = l.s2c, m.send \in Seq(Answer),
         \/ m.send = l.send
         \/ \E a \in Answer : /\ m.send = Append(l.send, a)
                              /\ a.made = l.recv[e].id
                              /\ \/ a.id = "invalid"
                                 \/ a.id = a.made /\ a.made \in done
  PROVE  Effect(l, m, done)
<1>1. /\ e \in 1..Len(Arrived(l)) /\ l.recv[e] \in Pieces
      /\ (e = 1 => l.recv[e].part = "line")
      /\ TailsFollow(r) /\ OnceEach(r)
      /\ Waits(r) \subseteq Waits(Arrived(l))
      /\ l.recv[e].part = "line" => l.recv[e].id \notin Waits(r)
      /\ EndsInHead(Arrived(l)) => EndsInHead(r)
  BY ZenonT(60), LineTaken
<1>4. Waits(Arrived(m)) \subseteq Waits(Arrived(l)) \ done
  BY <1>1
<1>5. \/ Replies(m) = Replies(l)
      \/ \E a \in Answer : /\ Replies(m) = Append(Replies(l), a)
                           /\ a.made = l.recv[e].id
                           /\ \/ a.id = "invalid"
                              \/ a.id = a.made /\ a.made \in done
  <2>1. l.s2c \in Seq(Answer) /\ l.send \in Seq(Answer)
    BY LinkFields
  <2>2. \A a \in Answer : l.s2c \o Append(l.send, a)
                            = Append(l.s2c \o l.send, a)
    BY <2>1, AppendsJoined
  <2>. QED BY <2>2 DEF Replies
<1>6. /\ Named(Replies(m))
      /\ Replied(Replies(m)) \subseteq Replied(Replies(l)) \cup done
  <2>1. Replies(l) \in Seq(Answer) /\ Named(Replies(l))
    BY LinkQueues DEF LinkInv
  <2>2. ASSUME NEW a \in Answer, Replies(m) = Append(Replies(l), a),
               a.id = "invalid" \/ (a.id = a.made /\ a.made \in done)
        PROVE  /\ Named(Replies(m))
               /\ Replied(Replies(m)) \subseteq Replied(Replies(l)) \cup done
    BY <2>1, <2>2, AnswerJoins
  <2>. QED BY <1>5, <2>1, <2>2
<1>7. l.server
  <2>1. Len(Arrived(l)) # 0
    BY <1>1
  <2>2. Arrived(l) # <<>>
    BY <2>1
  <2>. QED BY <2>2 DEF LinkInv
<1>8. LinkInv(m)
  BY <1>1, <1>6, <1>7 DEF LinkInv
<1>9. ASSUME NEW id \in Ids \cup {None}, Timely(l, id)
      PROVE  Timely(m, id)
  <2>1. CASE l.late
    BY <2>1 DEF Timely
  <2>2. CASE ~l.late
    <3>1. Arrived(m) = <<>> /\ Replies(l) = <<>> /\ l.recv[e].id = id
      BY <1>9, <2>2, LineTakenTimely
    <3>2. id # None
      BY <1>1, <3>1, NoneAssumption DEF Pieces
    <3>3. /\ Len(Replies(m)) <= 1
          /\ \A i \in DOMAIN Replies(m) :
               Replies(m)[i].id = "invalid" \/ Replies(m)[i].made = id
      <4>1. CASE Replies(m) = <<>>
        BY <4>1
      <4>2. ASSUME NEW a \in Answer, Replies(m) = Append(<<>>, a), a.made = id
            PROVE  /\ Len(Replies(m)) <= 1
                   /\ \A i \in DOMAIN Replies(m) :
                        \/ Replies(m)[i].id = "invalid"
                        \/ Replies(m)[i].made = id
        <5>1. Len(Replies(m)) = 1 /\ Replies(m)[1] = a
              /\ DOMAIN Replies(m) = 1..1
          BY <4>2
        <5>. QED BY <4>2, <5>1
      <4>. QED BY <1>5, <3>1, <4>1, <4>2
    <3>. QED BY <3>1, <3>2, <3>3 DEF Timely
  <2>. QED BY <2>1, <2>2
<1>. QED BY <1>1, <1>4, <1>6, <1>8, <1>9 DEF Effect

(* The first n pieces are read and found too large.                        *)
Read(l, n) == l.recv \o SubSeq(l.c2s, 1, n)
Noticed(l, n) ==
  [l EXCEPT !.recv = Read(l, n), !.c2s = SubSeq(@, n + 1, Len(@)),
            !.send = Append(@, TransportError(Read(l, n)[Len(Read(l, n))].id))]

LEMMA NoticedFacts ==
  ASSUME NEW l \in LinkType, LinkInv(l), NEW n \in DOMAIN l.c2s,
         NEW x, x = Noticed(l, n)
  PROVE  /\ x \in LinkType /\ LinkInv(x) /\ l.server /\ Arrived(l) # <<>>
         /\ x.client = l.client /\ x.server = l.server /\ x.late = l.late
         /\ x.s2c = l.s2c /\ Arrived(x) = Arrived(l)
         /\ \E a \in Answer :
              a.id = "invalid" /\ Replies(x) = Append(Replies(l), a)
         /\ Replied(Replies(x)) \subseteq Replied(Replies(l))
<1>. DEFINE first == SubSeq(l.c2s, 1, n)
            rest == SubSeq(l.c2s, n + 1, Len(l.c2s))
            read == Read(l, n)
            a == TransportError(read[Len(read)].id)
<1>1. /\ l.c2s \in Seq(Pieces) /\ l.recv \in Seq(Pieces)
      /\ l.s2c \in Seq(Answer) /\ l.send \in Seq(Answer)
  BY LinkFields
<1>2. n \in 0..Len(l.c2s) /\ n > 0 /\ n \in Nat
  BY <1>1
<1>3. /\ first \in Seq(Pieces) /\ Len(first) = n /\ first \o rest = l.c2s
      /\ rest \in Seq(Pieces)
  BY <1>1, <1>2, CutInTwo, Remaining
<1>. HIDE DEF first, rest
<1>4. read \in Seq(Pieces) /\ Len(read) = Len(l.recv) + n
  <2>1. /\ l.recv \o first \in Seq(Pieces)
        /\ Len(l.recv \o first) = Len(l.recv) + Len(first)
    BY <1>1, <1>3, ConcatProperties
  <2>. QED BY <1>3, <2>1 DEF Read, first
<1>5. read[Len(read)] \in Pieces
  <2>1. Len(l.recv) \in Nat
    BY <1>1
  <2>2. Len(read) \in 1..Len(read)
    BY <1>2, <1>4, <2>1
  <2>. HIDE DEF read
  <2>. QED BY <1>4, <2>2
<1>6. read \o rest = Arrived(l)
  <2>1. (l.recv \o first) \o rest = l.recv \o (first \o rest)
    BY <1>1, <1>3, Regrouped
  <2>. QED BY <1>3, <2>1 DEF Read, Arrived, first
<1>. HIDE DEF read
<1>7. a \in Answer /\ a.id = "invalid"
  BY <1>5 DEF Answer, TransportError, Pieces
<1>. HIDE DEF a
<1>8. Append(l.send, a) \in Seq(Answer)
  BY <1>1, <1>7
<1>9. x = [l EXCEPT !.recv = read, !.c2s = rest, !.send = Append(l.send, a)]
  BY DEF Noticed, read, rest, a
<1>10. x \in LinkType
  <2>1. PICK s \in Seq(Answer) : s = Append(l.send, a)
    BY <1>8
  <2>2. x = [l EXCEPT !.recv = read, !.c2s = rest, !.send = s]
    BY <1>9, <2>1
  <2>3. [l EXCEPT !.recv = read, !.c2s = rest, !.send = s] \in LinkType
    BY <1>3, <1>4, EmptyTypes, LinkUpdated
  <2>. QED BY <2>2, <2>3
<1>11. /\ x.client = l.client /\ x.server = l.server /\ x.late = l.late
       /\ x.s2c = l.s2c /\ x.recv = read /\ x.c2s = rest
       /\ x.send = Append(l.send, a)
  BY <1>9 DEF LinkType
<1>12. Arrived(x) = Arrived(l) /\ Replies(x) = Append(Replies(l), a)
  <2>1. l.s2c \o Append(l.send, a) = Append(l.s2c \o l.send, a)
    BY <1>1, <1>7, AppendsJoined
  <2>. QED BY <1>6, <1>11, <2>1 DEF Arrived, Replies
<1>13. /\ Named(Replies(x))
       /\ Replied(Replies(x)) \subseteq Replied(Replies(l))
  <2>1. Replies(l) \in Seq(Answer) /\ Named(Replies(l))
    BY LinkQueues DEF LinkInv
  <2>. QED BY <1>7, <1>12, <2>1, AnswerJoins
<1>14. l.server /\ Arrived(l) # <<>>
  <2>1. Len(read \o rest) = Len(read) + Len(rest)
    BY <1>3, <1>4, ConcatProperties
  <2>2. Len(Arrived(l)) # 0
    BY <1>1, <1>2, <1>3, <1>4, <1>6, <2>1
  <2>3. Arrived(l) # <<>>
    BY <2>2
  <2>. QED BY <2>3 DEF LinkInv
<1>15. LinkInv(x)
  BY <1>11, <1>12, <1>13, <1>14 DEF LinkInv
<1>. QED BY <1>7, <1>10, <1>11, <1>12, <1>13, <1>14, <1>15

LEMMA TooLargeEffect ==
  ASSUME NEW l \in LinkType, LinkInv(l), NEW n \in DOMAIN l.c2s,
         NEW sent, sent = Flushed(Noticed(l, n)),
         NEW m \in IF sent.send = <<>> THEN ServerCloses(sent) ELSE {sent}
  PROVE  Effect(l, m, {})
<1>. DEFINE x == Noticed(l, n)
<1>1. /\ x \in LinkType /\ LinkInv(x) /\ l.server /\ Arrived(l) # <<>>
      /\ x.client = l.client /\ x.server = l.server /\ x.late = l.late
      /\ Arrived(x) = Arrived(l)
      /\ Replied(Replies(x)) \subseteq Replied(Replies(l))
  BY NoticedFacts
<1>2. PICK a \in Answer : a.id = "invalid" /\ Replies(x) = Append(Replies(l), a)
  BY NoticedFacts
<1>3. sent = Flushed(x)
  OBVIOUS
<1>. HIDE DEF x
<1>4. /\ sent \in LinkType /\ sent.client = x.client
      /\ sent.server = x.server /\ sent.late = x.late
      /\ Len(sent.s2c) <= Capacity
      /\ Replies(sent) = Replies(x) /\ Arrived(sent) = Arrived(x)
      /\ Len(Replies(x)) <= Capacity => sent.send = <<>>
  BY <1>1, <1>3, FlushedFacts DEF LinkInv
<1>5. LinkInv(sent)
  BY <1>1, <1>4 DEF LinkInv
<1>6. Effect(sent, m, {})
  BY <1>4, <1>5, ServerClosesEffect, NoEffect
<1>7. ASSUME NEW id \in Ids \cup {None}, m.client, Timely(l, id), ~l.late
      PROVE  Timely(m, id)
  <2>1. Replies(l) = <<>>
    BY <1>1, <1>7 DEF Timely
  <2>2. Replies(x) = Append(<<>>, a)
    BY <1>2, <2>1
  <2>3. sent.send = <<>>
    <3>1. Len(Replies(x)) = 1
      BY <2>2
    <3>. QED BY <1>4, <3>1, LimitAssumption
  <2>4. m \in ServerCloses(sent)
    BY <2>3
  <2>5. /\ m.server = FALSE /\ m.recv = <<>> /\ m.c2s = <<>>
        /\ m.send = <<>> /\ (m.s2c = sent.s2c \/ m.s2c = <<>>)
    BY <1>4, <2>4, ServerClosesFacts
  <2>6. Arrived(m) = <<>> /\ (Replies(m) = Replies(sent) \/ Replies(m) = <<>>)
    BY <2>3, <2>5, WithEmpty, EmptyTypes DEF Arrived, Replies
  <2>7. Replies(m) = Append(<<>>, a) \/ Replies(m) = <<>>
    BY <1>4, <2>2, <2>6
  <2>8. /\ Len(Replies(m)) <= 1
        /\ \A i \in DOMAIN Replies(m) : Replies(m)[i].id = "invalid"
    <3>1. CASE Replies(m) = Append(<<>>, a)
      <4>1. Len(Replies(m)) = 1 /\ Replies(m)[1] = a
            /\ DOMAIN Replies(m) = 1..1
        BY <3>1
      <4>. QED BY <1>2, <4>1
    <3>2. CASE Replies(m) = <<>>
      BY <3>2
    <3>. QED BY <2>7, <3>1, <3>2
  <2>. QED BY <2>5, <2>6, <2>8 DEF Timely
<1>8. ASSUME NEW id \in Ids \cup {None}, m.client, l.late
      PROVE  Timely(m, id)
  <2>1. Timely(sent, id)
    BY <1>1, <1>4, <1>8 DEF Timely
  <2>. QED BY <1>6, <1>8, <2>1 DEF Effect
<1>. QED BY <1>1, <1>4, <1>6, <1>7, <1>8 DEF Effect

-----------------------------------------------------------------------------
(* The steps of the server.                                                *)
LinksOK == TypeOK /\ \A k \in Links : LinkInv(link[k])

LEMMA ServedIsLink ==
  ASSUME LinksOK, stage # "idle"
  PROVE  Served \in Links /\ link[Served] \in LinkType /\ LinkInv(link[Served])
<1>1. turn \in Seq(Links) /\ turn # <<>>
  BY DEF LinksOK, TypeOK
<1>2. Served \in Links
  BY <1>1, HeadTailProperties DEF Served
<1>. QED BY <1>2 DEF LinksOK, TypeOK

LEMMA OneLink ==
  ASSUME LinksOK, NEW k \in Links, NEW m \in LinkType,
         link' = [link EXCEPT ![k] = m]
  PROVE  /\ link' \in [Links -> LinkType]
         /\ link'[k] = m /\ \A j \in Links \ {k} : link'[j] = link[j]
BY DEF LinksOK, TypeOK

LEMMA OneLinkOnly ==
  ASSUME LinksOK, NEW k \in Links, NEW m,
         link' = [link EXCEPT ![k] = m], Effect(link[k], m, {})
  PROVE  /\ link' \in [Links -> LinkType]
         /\ \A j \in Links : Effect(link[j], link'[j], {})
<1>1. /\ link' \in [Links -> LinkType]
      /\ link'[k] = m /\ \A j \in Links \ {k} : link'[j] = link[j]
  BY DEF LinksOK, TypeOK, Effect
<1>2. \A j \in Links : Effect(link[j], link[j], {})
  BY NoEffect DEF LinksOK, TypeOK
<1>. QED BY <1>1, <1>2

(* A line taken by Dispatch, DispatchRaises or RejectLine.                 *)
LEMMA TakenLinks ==
  ASSUME NEW l \in LinkType, LinkInv(l), HasLine(l.recv),
         NEW a \in Answer, NEW m,
         \/ m = [l EXCEPT !.recv = Consumed(@)]
         \/ m = [l EXCEPT !.recv = Consumed(@), !.send = Append(@, a)]
  PROVE  /\ m \in LinkType /\ m.send \in Seq(Answer)
         /\ Arrived(m) = Consumed(l.recv) \o l.c2s
         /\ m.client = l.client /\ m.server = l.server /\ m.late = l.late
         /\ m.s2c = l.s2c
         /\ m.send = l.send \/ m.send = Append(l.send, a)
<1>1. Consumed(l.recv) \in Seq(Pieces)
  <2>1. \A r : r = Consumed(l.recv) \o l.c2s => Consumed(l.recv) \in Seq(Pieces)
    BY LineTaken
  <2>. QED BY <2>1
<1>2. l.send \in Seq(Answer)
  BY LinkFields
<1>3. PICK q \in Seq(Pieces) : q = Consumed(l.recv)
  BY <1>1
<1>4. CASE m = [l EXCEPT !.recv = Consumed(@)]
  <2>1. m = [l EXCEPT !.recv = q]
    BY <1>3, <1>4
  <2>2. m \in LinkType
    BY <2>1, EmptyTypes, LinkUpdated
  <2>3. /\ m.client = l.client /\ m.server = l.server /\ m.late = l.late
        /\ m.s2c = l.s2c /\ m.recv = q /\ m.c2s = l.c2s /\ m.send = l.send
    BY <2>1 DEF LinkType
  <2>. QED BY <1>2, <1>3, <2>2, <2>3 DEF Arrived
<1>5. CASE m = [l EXCEPT !.recv = Consumed(@), !.send = Append(@, a)]
  <2>1. PICK s \in Seq(Answer) : s = Append(l.send, a)
    <3>1. Append(l.send, a) \in Seq(Answer)
      BY <1>2, AppendProperties
    <3>. QED BY <3>1
  <2>2. m = [l EXCEPT !.recv = q, !.send = s]
    BY <1>3, <1>5, <2>1
  <2>3. m \in LinkType
    BY <2>2, EmptyTypes, LinkUpdated
  <2>4. /\ m.client = l.client /\ m.server = l.server /\ m.late = l.late
        /\ m.s2c = l.s2c /\ m.recv = q /\ m.c2s = l.c2s /\ m.send = s
    BY <2>2 DEF LinkType
  <2>. QED BY <1>3, <2>1, <2>3, <2>4 DEF Arrived
<1>. QED BY <1>4, <1>5

LEMMA RejectEffect ==
  ASSUME NEW l \in LinkType, LinkInv(l), HasLine(l.recv), NEW m,
         m = [l EXCEPT
               !.recv = Consumed(@),
               !.send = Append(@, TransportError(l.recv[LineEnd(l.recv)].id))]
  PROVE  Effect(l, m, {})
<1>. DEFINE e == LineEnd(l.recv)
            a == TransportError(l.recv[e].id)
            r == Consumed(l.recv) \o l.c2s
<1>1. l.recv[e] \in Pieces
  BY LineTaken
<1>2. a \in Answer /\ a.id = "invalid" /\ a.made = l.recv[e].id
  BY <1>1 DEF Answer, TransportError, Pieces
<1>. HIDE DEF a
<1>3. m = [l EXCEPT !.recv = Consumed(@), !.send = Append(@, a)]
  BY DEF a, e
<1>4. /\ m \in LinkType /\ m.send \in Seq(Answer)
      /\ Arrived(m) = r
      /\ m.client = l.client /\ m.server = l.server /\ m.late = l.late
      /\ m.s2c = l.s2c
      /\ m.send = l.send \/ m.send = Append(l.send, a)
  BY ZenonT(60), <1>2, <1>3, TakenLinks
<1>. HIDE DEF e, r
<1>5. \/ m.send = l.send
      \/ \E b \in Answer : /\ m.send = Append(l.send, b)
                           /\ b.made = l.recv[e].id
                           /\ \/ b.id = "invalid"
                              \/ b.id = b.made /\ b.made \in {}
  BY <1>2, <1>4
<1>. QED BY <1>4, <1>5, LineTakenEffect DEF e, r

(* Dispatched, with its answer queued or, when dispatch raises, without.   *)
LEMMA DispatchEffect ==
  ASSUME NEW l \in LinkType, LinkInv(l), HasLine(l.recv), LineEnd(l.recv) = 1,
         NEW m,
         \/ m = [l EXCEPT !.recv = Consumed(@)]
         \/ m = [l EXCEPT !.recv = Consumed(@),
                          !.send = Append(@, Reply(l.recv[1].id))]
  PROVE  /\ l.recv[1].id \in Ids /\ l.recv[1].id \in Waits(Arrived(l))
         /\ Effect(l, m, {l.recv[1].id})
<1>. DEFINE e == LineEnd(l.recv)
            a == Reply(l.recv[1].id)
            r == Consumed(l.recv) \o l.c2s
<1>1. /\ l.recv[1] \in Pieces /\ l.recv[1].part = "line"
      /\ l.recv[1] = Arrived(l)[1] /\ 1 \in 1..Len(Arrived(l))
  BY LineTaken
<1>2. l.recv[1].id \in Ids
  BY <1>1 DEF Pieces
<1>3. l.recv[1].id \in Waits(Arrived(l))
  <2>1. 1 \in DOMAIN Arrived(l)
    BY <1>1, LinkQueues
  <2>. QED BY <1>1, <2>1 DEF Waits, Lines
<1>4. a \in Answer /\ a.id = a.made /\ a.made = l.recv[1].id
  BY <1>2 DEF Answer, Reply
<1>. HIDE DEF a
<1>5. /\ m \in LinkType /\ m.send \in Seq(Answer)
      /\ Arrived(m) = r
      /\ m.client = l.client /\ m.server = l.server /\ m.late = l.late
      /\ m.s2c = l.s2c
      /\ m.send = l.send \/ m.send = Append(l.send, a)
  <2>1. \/ m = [l EXCEPT !.recv = Consumed(@)]
        \/ m = [l EXCEPT !.recv = Consumed(@), !.send = Append(@, a)]
    BY DEF a
  <2>. QED BY <1>4, <2>1, TakenLinks
<1>. HIDE DEF r
<1>6. \/ m.send = l.send
      \/ \E b \in Answer : /\ m.send = Append(l.send, b)
                           /\ b.made = l.recv[1].id
                           /\ \/ b.id = "invalid"
                              \/ b.id = b.made /\ b.made \in {l.recv[1].id}
  BY <1>4, <1>5
<1>. QED BY <1>2, <1>3, <1>5, <1>6, LineTakenEffect DEF r

LEMMA ReceiveEffect ==
  ASSUME NEW l \in LinkType, LinkInv(l), NEW m,
         m = [l EXCEPT !.recv = Arrived(l), !.c2s = <<>>]
  PROVE  Effect(l, m, {})
<1>1. Arrived(l) \in Seq(Pieces)
  BY LinkQueues
<1>2. m \in LinkType
  BY <1>1, EmptyTypes, LinkUpdated
<1>3. /\ m.client = l.client /\ m.server = l.server /\ m.late = l.late
      /\ m.s2c = l.s2c /\ m.send = l.send
      /\ m.recv = Arrived(l) /\ m.c2s = <<>>
  BY DEF LinkType
<1>4. Arrived(m) = Arrived(l)
  BY <1>1, <1>3, WithEmpty DEF Arrived
<1>5. Replies(m) = Replies(l)
  BY <1>3 DEF Replies
<1>6. Len(m.s2c) <= Capacity /\ (~m.server => m.send = <<>>)
  BY <1>3 DEF LinkInv
<1>. QED BY <1>2, <1>3, <1>4, <1>5, <1>6, MovedEffect

LEMMA FlushedEffect ==
  ASSUME NEW l \in LinkType, LinkInv(l)
  PROVE  Effect(l, Flushed(l), {})
<1>. DEFINE m == Flushed(l)
<1>1. /\ m \in LinkType
      /\ Replies(m) = Replies(l) /\ Arrived(m) = Arrived(l)
      /\ Len(m.s2c) <= Capacity
      /\ m.client = l.client /\ m.server = l.server /\ m.late = l.late
      /\ Len(Replies(l)) <= Capacity => m.send = <<>>
  BY FlushedFacts DEF LinkInv
<1>2. ~l.server => m.send = <<>>
  <2>1. ASSUME ~l.server PROVE Replies(l) = l.s2c
    BY <2>1, WithEmpty, LinkFields DEF LinkInv, Replies
  <2>. HIDE DEF m
  <2>. QED BY <1>1, <2>1 DEF LinkInv
<1>. HIDE DEF m
<1>. QED BY <1>1, <1>2, MovedEffect DEF m

(* The steps of the server that dispatch nothing.                          *)
Serving ==
  Poll \/ HangUp \/ TooLarge \/ Receive \/ RejectLine \/ FinishTurn
    \/ Start \/ Stop

LEMMA ServingLinks ==
  ASSUME LinksOK, Serving
  PROVE  /\ link' \in [Links -> LinkType]
         /\ \A k \in Links : Effect(link[k], link'[k], {})
<1>. DEFINE l == link[Served]
<1>1. CASE UNCHANGED link
  BY <1>1, NoEffect DEF LinksOK, TypeOK
<1>2. CASE HangUp
  <2>1. /\ Served \in Links /\ l \in LinkType /\ LinkInv(l)
        /\ \E m \in ServerCloses(l) : link' = [link EXCEPT ![Served] = m]
    BY <1>2, ServedIsLink DEF HangUp
  <2>2. PICK m \in ServerCloses(l) : link' = [link EXCEPT ![Served] = m]
    BY <2>1
  <2>3. Effect(l, m, {})
    BY <2>1, ServerClosesEffect
  <2>. QED BY <2>1, <2>2, <2>3, OneLinkOnly
<1>3. CASE TooLarge
  <2>1. Served \in Links /\ l \in LinkType /\ LinkInv(l)
    BY <1>3, ServedIsLink DEF TooLarge
  <2>2. PICK n \in DOMAIN l.c2s :
          LET read == l.recv \o SubSeq(l.c2s, 1, n)
              error == TransportError(read[Len(read)].id)
              sent == Flushed([l EXCEPT !.recv = read,
                                        !.c2s = SubSeq(@, n + 1, Len(@)),
                                        !.send = Append(@, error)])
              closes == sent.send = <<>>
          IN \E m \in IF closes THEN ServerCloses(sent) ELSE {sent} :
               link' = [link EXCEPT ![Served] = m]
    BY <1>3 DEF TooLarge
  <2>3. PICK sent : sent = Flushed(Noticed(l, n))
    OBVIOUS
  <2>4. PICK m \in IF sent.send = <<>> THEN ServerCloses(sent) ELSE {sent} :
          link' = [link EXCEPT ![Served] = m]
    BY <2>2, <2>3 DEF Noticed, Read
  <2>5. Effect(l, m, {})
    BY <2>1, <2>3, TooLargeEffect
  <2>. QED BY <2>1, <2>4, <2>5, OneLinkOnly
<1>4. CASE Receive
  <2>1. Served \in Links /\ l \in LinkType /\ LinkInv(l)
    BY <1>4, ServedIsLink DEF Receive
  <2>2. PICK m : m = [l EXCEPT !.recv = Arrived(l), !.c2s = <<>>]
    OBVIOUS
  <2>3. link' = [link EXCEPT ![Served] = m]
    BY <1>4, <2>1, <2>2 DEF Receive, LinksOK, TypeOK
  <2>4. Effect(l, m, {})
    BY <2>1, <2>2, ReceiveEffect
  <2>. QED BY <2>1, <2>3, <2>4, OneLinkOnly
<1>5. CASE RejectLine
  <2>1. /\ Served \in Links /\ l \in LinkType /\ LinkInv(l) /\ HasLine(l.recv)
    BY <1>5, ServedIsLink DEF RejectLine, TakesLine, Buffer
  <2>2. PICK m :
          m = [l EXCEPT
                !.recv = Consumed(@),
                !.send = Append(@, TransportError(l.recv[LineEnd(l.recv)].id))]
    OBVIOUS
  <2>3. link' = [link EXCEPT ![Served] = m]
    BY <1>5, <2>1, <2>2 DEF RejectLine, Buffer, LinksOK, TypeOK
  <2>4. Effect(l, m, {})
    BY <2>1, <2>2, RejectEffect
  <2>. QED BY <2>1, <2>3, <2>4, OneLinkOnly
<1>6. CASE FinishTurn
  <2>1. /\ Served \in Links /\ l \in LinkType /\ LinkInv(l)
    BY <1>6, ServedIsLink DEF FinishTurn
  <2>2. CASE link' = [link EXCEPT ![Served] = Flushed(@)]
    <3>1. PICK m : m = Flushed(l)
      OBVIOUS
    <3>2. link' = [link EXCEPT ![Served] = m]
      BY <2>2, <3>1
    <3>3. Effect(l, m, {})
      BY <2>1, <3>1, FlushedEffect
    <3>. QED BY <2>1, <3>2, <3>3, OneLinkOnly
  <2>3. CASE \E m \in ServerCloses(l) : link' = [link EXCEPT ![Served] = m]
    <3>1. PICK m \in ServerCloses(l) : link' = [link EXCEPT ![Served] = m]
      BY <2>3
    <3>2. Effect(l, m, {})
      BY <2>1, ServerClosesEffect
    <3>. QED BY <2>1, <3>1, <3>2, OneLinkOnly
  <2>. QED BY <1>6, <2>2, <2>3 DEF FinishTurn
<1>7. CASE Stop
  <2>1. ASSUME NEW k \in Links
        PROVE  Effect(link[k], link'[k], {}) /\ link'[k] \in LinkType
    <3>1. link[k] \in LinkType /\ LinkInv(link[k])
      BY DEF LinksOK, TypeOK
    <3>2. link'[k] \in ServerCloses(link[k])
      BY <1>7 DEF Stop
    <3>3. Effect(link[k], link'[k], {})
      BY <3>1, <3>2, ServerClosesEffect
    <3>. QED BY <3>3 DEF Effect
  <2>2. link' \in [Links -> UNION {ServerCloses(link[k]) : k \in Links}]
    BY <1>7 DEF Stop
  <2>. QED BY <2>1, <2>2
<1>. QED BY <1>1, <1>2, <1>3, <1>4, <1>5, <1>6, <1>7 DEF Serving, Poll, Start

(* The steps that dispatch a request.                                      *)
LEMMA DispatchLinks ==
  ASSUME LinksOK, Dispatch \/ DispatchRaises
  PROVE  \E k \in Links, id \in Ids :
           /\ Executes({id}) /\ link' \in [Links -> LinkType]
           /\ id \in Waits(Arrived(link[k]))
           /\ Effect(link[k], link'[k], {id})
           /\ \A j \in Links \ {k} : link'[j] = link[j]
<1>. DEFINE l == link[Served]
<1>1. /\ Served \in Links /\ l \in LinkType /\ LinkInv(l)
      /\ HasLine(l.recv) /\ LineEnd(l.recv) = 1
  BY ServedIsLink DEF Dispatch, DispatchRaises, TakesLine, Buffer
<1>2. PICK m : /\ link' = [link EXCEPT ![Served] = m]
               /\ \/ m = [l EXCEPT !.recv = Consumed(@)]
                  \/ m = [l EXCEPT !.recv = Consumed(@),
                                   !.send = Append(@, Reply(l.recv[1].id))]
  <2>1. CASE Dispatch
    <3>1. link' = [link EXCEPT ![Served] =
                    [l EXCEPT !.recv = Consumed(@),
                              !.send = Append(@, Reply(l.recv[1].id))]]
      BY <1>1, <2>1 DEF Dispatch, Buffer, LinksOK, TypeOK
    <3>. QED BY <3>1
  <2>2. CASE DispatchRaises
    <3>1. link' = [link EXCEPT ![Served] = [l EXCEPT !.recv = Consumed(@)]]
      BY <1>1, <2>2 DEF DispatchRaises, LinksOK, TypeOK
    <3>. QED BY <3>1
  <2>. QED BY <2>1, <2>2
<1>3. PICK id : id = l.recv[1].id
  OBVIOUS
<1>4. id \in Ids /\ id \in Waits(Arrived(l)) /\ Effect(l, m, {id})
  BY <1>1, <1>2, <1>3, DispatchEffect
<1>5. Executes({id})
  BY <1>3 DEF Dispatch, DispatchRaises, Buffer
<1>6. /\ link' \in [Links -> LinkType]
      /\ link'[Served] = m /\ \A j \in Links \ {Served} : link'[j] = link[j]
  <2>1. m \in LinkType
    BY <1>4 DEF Effect
  <2>. QED BY <1>1, <1>2, <2>1, OneLink
<1>. QED BY <1>1, <1>4, <1>5, <1>6

-----------------------------------------------------------------------------
(* The clients' side of the invariant, and the history.                    *)

(* An identifier that nothing carries.                                     *)
LEMMA NotCarried ==
  ASSUME NEW l \in LinkType, NEW id,
         \A q \in {l.c2s, l.recv} : \A i \in DOMAIN q : q[i].id # id,
         \A q \in {l.s2c, l.send} : \A i \in DOMAIN q : q[i].made # id
  PROVE  /\ \A i \in DOMAIN Arrived(l) : Arrived(l)[i].id # id
         /\ \A i \in DOMAIN Replies(l) : Replies(l)[i].made # id
         /\ id \notin Waits(Arrived(l)) /\ id \notin Replied(Replies(l))
<1>1. /\ l.c2s \in Seq(Pieces) /\ l.recv \in Seq(Pieces)
      /\ l.s2c \in Seq(Answer) /\ l.send \in Seq(Answer)
  BY LinkFields
<1>2. /\ \A i \in DOMAIN l.c2s : l.c2s[i].id # id
      /\ \A i \in DOMAIN l.recv : l.recv[i].id # id
      /\ \A i \in DOMAIN l.s2c : l.s2c[i].made # id
      /\ \A i \in DOMAIN l.send : l.send[i].made # id
  OBVIOUS
<1>3. \A i \in DOMAIN Arrived(l) : Arrived(l)[i].id # id
  <2>1. SUFFICES ASSUME NEW i \in DOMAIN Arrived(l)
                 PROVE  Arrived(l)[i].id # id
    OBVIOUS
  <2>2. \/ \E j \in DOMAIN l.recv : Arrived(l)[i] = l.recv[j]
        \/ \E j \in DOMAIN l.c2s : Arrived(l)[i] = l.c2s[j]
    <3>1. i \in DOMAIN (l.recv \o l.c2s)
      BY DEF Arrived
    <3>2. PICK s \in Seq(Pieces) : s = l.recv
      BY <1>1
    <3>3. PICK t \in Seq(Pieces) : t = l.c2s
      BY <1>1
    <3>4. i \in DOMAIN (s \o t)
      BY <3>1, <3>2, <3>3
    <3>5. \/ \E j \in DOMAIN s : (s \o t)[i] = s[j]
          \/ \E j \in DOMAIN t : (s \o t)[i] = t[j]
      BY <3>4, ElementsJoined
    <3>. QED BY <3>2, <3>3, <3>5 DEF Arrived
  <2>. QED BY <1>2, <2>2
<1>4. \A i \in DOMAIN Replies(l) : Replies(l)[i].made # id
  <2>1. SUFFICES ASSUME NEW i \in DOMAIN Replies(l)
                 PROVE  Replies(l)[i].made # id
    OBVIOUS
  <2>2. \/ \E j \in DOMAIN l.s2c : Replies(l)[i] = l.s2c[j]
        \/ \E j \in DOMAIN l.send : Replies(l)[i] = l.send[j]
    <3>1. i \in DOMAIN (l.s2c \o l.send)
      BY DEF Replies
    <3>2. PICK s \in Seq(Answer) : s = l.s2c
      BY <1>1
    <3>3. PICK t \in Seq(Answer) : t = l.send
      BY <1>1
    <3>4. i \in DOMAIN (s \o t)
      BY <3>1, <3>2, <3>3
    <3>5. \/ \E j \in DOMAIN s : (s \o t)[i] = s[j]
          \/ \E j \in DOMAIN t : (s \o t)[i] = t[j]
      BY <3>4, ElementsJoined
    <3>. QED BY <3>2, <3>3, <3>5 DEF Replies
  <2>. QED BY <1>2, <2>2
<1>. QED BY <1>3, <1>4 DEF Waits, Lines, Replied

LEMMA FreshNotCarried ==
  ASSUME link \in [Links -> LinkType], NEW id, Fresh(id), NEW k \in Links
  PROVE  /\ \A i \in DOMAIN Arrived(link[k]) : Arrived(link[k])[i].id # id
         /\ \A i \in DOMAIN Replies(link[k]) : Replies(link[k])[i].made # id
         /\ id \notin Waits(Arrived(link[k]))
         /\ id \notin Replied(Replies(link[k]))
<1>1. /\ link[k] \in LinkType
      /\ \A q \in {link[k].c2s, link[k].recv} :
           \A i \in DOMAIN q : q[i].id # id
      /\ \A q \in {link[k].s2c, link[k].send} :
           \A i \in DOMAIN q : q[i].made # id
  BY DEF Fresh
<1>. QED BY <1>1, NotCarried

LEMMA FreshNextNotAnswered ==
  ASSUME link' \in [Links -> LinkType], NEW id, Fresh(id)', NEW k \in Links
  PROVE  id \notin Replied(Replies(link'[k]))
<1>1. /\ link'[k] \in LinkType
      /\ \A q \in {link'[k].c2s, link'[k].recv} :
           \A i \in DOMAIN q : q[i].id # id
      /\ \A q \in {link'[k].s2c, link'[k].send} :
           \A i \in DOMAIN q : q[i].made # id
  BY DEF Fresh
<1>. QED BY <1>1, NotCarried

LEMMA IdsCarried ==
  ASSUME NEW l \in LinkType
  PROVE  Waits(Arrived(l)) \subseteq Ids /\ Replied(Replies(l)) \subseteq Ids
<1>1. Arrived(l) \in Seq(Pieces) /\ Replies(l) \in Seq(Answer)
  BY LinkQueues
<1>2. /\ \A i \in DOMAIN Arrived(l) : Arrived(l)[i] \in Pieces
      /\ \A i \in DOMAIN Replies(l) : Replies(l)[i] \in Answer
  BY <1>1
<1>. QED BY <1>2 DEF Waits, Lines, Replied, Pieces, Answer

(* A step that dispatches `done`, or with which a call sends `new` over    *)
(* the connection `home`.                                                  *)
Moves(done, new, home) ==
  /\ Executes(done) /\ \A id \in done : executed[id] = 0
  /\ \A id \in new : Fresh(id)
  /\ done = {} \/ new = {}
  /\ \A k \in Links :
       /\ Waits(Arrived(link'[k])) \subseteq
            (Waits(Arrived(link[k])) \ done)
              \cup IF k = home THEN new ELSE {}
       /\ Replied(Replies(link'[k])) \subseteq
            Replied(Replies(link[k])) \cup done

LEMMA HistoryStep ==
  ASSUME TypeOK, History, link' \in [Links -> LinkType],
         NEW done \in SUBSET Ids, NEW new \in SUBSET Ids, NEW home,
         Moves(done, new, home)
  PROVE  executed' \in [Ids -> Nat] /\ History'
<1>. USE DEF Moves
<1>1. /\ executed \in [Ids -> Nat]
      /\ executed' = [id \in Ids |->
           IF Fresh(id)' THEN 0
           ELSE executed[id] + IF id \in done THEN 1 ELSE 0]
  BY DEF TypeOK, Executes
<1>2. executed' \in [Ids -> Nat]
  BY <1>1
<1>3. /\ \A id \in Ids : executed[id] \in Nat /\ executed[id] <= 1
      /\ \A id \in Ids : Fresh(id) => executed[id] = 0
      /\ \A k \in Links :
           /\ \A id \in Waits(Arrived(link[k])) : executed[id] = 0
           /\ \A id \in Replied(Replies(link[k])) : executed[id] = 1
           /\ \A j \in Links \ {k} :
                Waits(Arrived(link[j])) \cap Waits(Arrived(link[k])) = {}
  BY <1>1 DEF History
<1>4. /\ \A id \in Ids : Fresh(id)' => executed'[id] = 0
      /\ \A id \in Ids \ done : executed[id] = 0 => executed'[id] = 0
      /\ \A id \in Ids : ~Fresh(id)' =>
           /\ id \in done => executed'[id] = 1
           /\ id \notin done => executed'[id] = executed[id]
  <2>1. SUFFICES ASSUME NEW id \in Ids
                 PROVE  /\ Fresh(id)' => executed'[id] = 0
                        /\ ~Fresh(id)' =>
                             /\ id \in done => executed'[id] = 1
                             /\ id \notin done => executed'[id] = executed[id]
    BY <1>3
  <2>2. executed'[id] = IF Fresh(id)' THEN 0
          ELSE executed[id] + IF id \in done THEN 1 ELSE 0
    BY <1>1
  <2>3. executed[id] \in Nat /\ (id \in done => executed[id] = 0)
    BY <1>3
  <2>. QED BY <2>2, <2>3
<1>5. ASSUME NEW id \in Ids
      PROVE  executed'[id] <= 1
  BY <1>3, <1>4
<1>6. ASSUME NEW k \in Links, NEW id \in Waits(Arrived(link'[k]))
      PROVE  executed'[id] = 0
  <2>1. id \in Ids
    BY IdsCarried
  <2>2. id \notin done /\ (id \in Waits(Arrived(link[k])) \/ id \in new)
    BY <1>6
  <2>3. executed[id] = 0
    BY <1>3, <2>1, <2>2
  <2>. QED BY <1>4, <2>1, <2>2, <2>3
<1>7. ASSUME NEW k \in Links, NEW id \in Replied(Replies(link'[k]))
      PROVE  executed'[id] = 1
  <2>1. id \in Ids
    BY IdsCarried
  <2>2. ~Fresh(id)'
    BY <1>7, FreshNextNotAnswered
  <2>3. id \in Replied(Replies(link[k])) \/ id \in done
    BY <1>7
  <2>4. id \in done \/ executed[id] = 1
    BY <1>3, <2>3
  <2>. QED BY <1>4, <2>1, <2>2, <2>4
<1>8. ASSUME NEW k \in Links, NEW j \in Links, j # k,
             NEW id \in Waits(Arrived(link'[k])),
             id \in Waits(Arrived(link'[j]))
      PROVE  FALSE
  <2>1. id \in Waits(Arrived(link[k])) \/ (k = home /\ id \in new)
    BY <1>8
  <2>2. id \in Waits(Arrived(link[j])) \/ (j = home /\ id \in new)
    BY <1>8
  <2>3. id \notin new \/ (id \notin Waits(Arrived(link[k]))
                           /\ id \notin Waits(Arrived(link[j])))
    BY FreshNotCarried DEF TypeOK
  <2>. QED BY <1>3, <1>8, <2>1, <2>2, <2>3
<1>9. \A k \in Links :
        /\ \A id \in Waits(Arrived(link'[k])) : executed'[id] = 0
        /\ \A id \in Replied(Replies(link'[k])) : executed'[id] = 1
        /\ \A j \in Links \ {k} :
             Waits(Arrived(link'[j])) \cap Waits(Arrived(link'[k])) = {}
  BY <1>6, <1>7, <1>8
<1>. QED BY <1>2, <1>4, <1>5, <1>9 DEF History

LEMMA HalfKept ==
  ASSUME NEW l \in LinkType, NEW m, NEW done \in SUBSET Waits(Arrived(l)),
         Effect(l, m, done), NEW id, Half(l, id)
  PROVE  Half(m, id)
BY DEF Effect, Half

(* Whatever the server does, the clients' side of the invariant stays.     *)
LEMMA ClientsKept ==
  ASSUME LinksOK, \A c \in Clients : ClientInv(c), UNCHANGED client,
         link' \in [Links -> LinkType],
         \A k \in Links : \E done \in SUBSET Waits(Arrived(link[k])) :
           Effect(link[k], link'[k], done)
  PROVE  \A c \in Clients : ClientInv(c)'
<1>1. SUFFICES ASSUME NEW c \in Clients
               PROVE  ClientInv(c)'
  OBVIOUS
<1>2. ClientInv(c) /\ sock[c] \in Links \cup {None} /\ call[c] \in Ids \cup {None}
  BY DEF LinksOK, TypeOK
<1>3. sock' = sock /\ call' = call /\ unsent' = unsent
  BY DEF client
<1>4. CASE sock[c] = None
  BY <1>2, <1>3, <1>4 DEF ClientInv
<1>5. CASE sock[c] # None
  <2>1. /\ call[c] # None => sock[c] # None
        /\ link[sock[c]].client
        /\ \A d \in Clients : sock[d] = sock[c] => d = c
        /\ c \in unsent => Half(link[sock[c]], call[c])
        /\ Timely(link[sock[c]], call[c])
    BY <1>2, <1>5 DEF ClientInv
  <2>2. PICK k \in Links : k = sock[c]
    BY <1>2, <1>5
  <2>3. PICK l \in LinkType : l = link[k]
    BY DEF LinksOK, TypeOK
  <2>4. PICK m \in LinkType : m = link'[k]
    OBVIOUS
  <2>5. PICK done \in SUBSET Waits(Arrived(l)) : Effect(l, m, done)
    BY <2>3, <2>4
  <2>6. PICK id \in Ids \cup {None} : id = call[c]
    BY <1>2
  <2>7. l.client /\ (c \in unsent => Half(l, id)) /\ Timely(l, id)
    BY <2>1, <2>2, <2>3, <2>6
  <2>8. m.client /\ Timely(m, id)
    BY <2>5, <2>7 DEF Effect
  <2>9. c \in unsent => Half(m, id)
    BY <2>5, <2>7, HalfKept
  <2>. QED
    BY <1>3, <2>1, <2>2, <2>4, <2>6, <2>8, <2>9 DEF ClientInv
<1>. QED BY <1>4, <1>5

-----------------------------------------------------------------------------
(* The types of the server's variables.                                    *)

(* clients.pop() leaves connections.                                       *)
LEMMA WithoutType ==
  ASSUME order \in Seq(Links), NEW k
  PROVE  Without(k) \in Seq(Links)
<1>. DEFINE T == {i \in 1..Len(order) : order[i] = k}
<1>1. CASE T = {}
  BY <1>1 DEF Without, RemoveFirst
<1>2. CASE T # {}
  <2>. DEFINE n == Min(T)
  <2>1. T \subseteq Nat
    OBVIOUS
  <2>2. \E i \in T : \A j \in T : i <= j
    <3>. HIDE DEF T
    <3>. QED BY <1>2, <2>1, FirstOf
  <2>3. n \in T
    <3>. HIDE DEF T
    <3>. QED BY <2>2 DEF Min
  <2>4. SelectInSeq(order, LAMBDA v : v = k) = n
    BY <1>2 DEF SelectInSeq
  <2>5. Without(k) = RemoveAt(order, n)
    BY <1>2, <2>4 DEF Without, RemoveFirst
  <2>6. n \in 1..Len(order)
    BY <2>3
  <2>. HIDE DEF n
  <2>7. SubSeq(order, 1, n - 1) \in Seq(Links)
    BY <2>6
  <2>8. SubSeq(order, n + 1, Len(order)) \in Seq(Links)
    BY <2>6
  <2>. QED BY <2>5, <2>7, <2>8, ConcatProperties DEF RemoveAt
<1>. QED BY <1>1, <1>2

ServerTypes ==
  /\ outcome \in Endings \cup {"none"} /\ listening \in BOOLEAN
  /\ backlog \in Seq(Links) /\ order \in Seq(Links) /\ turn \in Seq(Links)
  /\ stage \in {"idle", "read", "lines"} /\ (stage = "idle" <=> turn = <<>>)
  /\ remaining \in 0..Budget

LEMMA NextTurnTypes ==
  ASSUME TypeOK, stage # "idle", NextTurn
  PROVE  /\ turn' \in Seq(Links) /\ stage' \in {"idle", "read", "lines"}
         /\ (stage' = "idle" <=> turn' = <<>>)
         /\ remaining' \in 0..Budget
<1>1. /\ turn \in Seq(Links) /\ turn # <<>>
      /\ remaining \in 0..Budget /\ 0 \in 0..Budget
  BY LimitAssumption DEF TypeOK
<1>2. Tail(turn) \in Seq(Links)
  BY <1>1, HeadTailProperties
<1>. QED BY <1>1, <1>2 DEF NextTurn, GoesOn

LEMMA PollTypes ==
  ASSUME TypeOK, Poll
  PROVE  ServerTypes'
<1>. DEFINE n == IF Len(backlog) < AcceptLimit THEN Len(backlog)
                                               ELSE AcceptLimit
            first == SubSeq(backlog, 1, n)
            rest == SubSeq(backlog, n + 1, Len(backlog))
<1>1. /\ backlog \in Seq(Links) /\ order \in Seq(Links)
      /\ Len(backlog) \in Nat /\ AcceptLimit \in Nat
      /\ Budget \in 0..Budget
  BY LimitAssumption DEF TypeOK
<1>2. n \in 0..Len(backlog)
  BY <1>1
<1>3. /\ order \o first # <<>>
      /\ backlog' = rest /\ order' = order \o first /\ turn' = order \o first
      /\ stage' = "read" /\ remaining' = Budget /\ outcome' = "none"
      /\ UNCHANGED listening
  BY DEF Poll
<1>. HIDE DEF n
<1>4. first \in Seq(Links) /\ rest \in Seq(Links)
  BY <1>1, <1>2, CutInTwo, Remaining
<1>. HIDE DEF first, rest
<1>5. order \o first \in Seq(Links)
  BY <1>1, <1>4, ConcatProperties
<1>. QED BY <1>1, <1>3, <1>4, <1>5 DEF ServerTypes, TypeOK

LEMMA ServerTyped ==
  ASSUME TypeOK, Serving \/ Dispatch \/ DispatchRaises
  PROVE  ServerTypes'
<1>1. /\ order \in Seq(Links) /\ backlog \in Seq(Links)
      /\ listening \in BOOLEAN /\ turn \in Seq(Links)
      /\ stage \in {"idle", "read", "lines"}
      /\ (stage = "idle" <=> turn = <<>>)
      /\ remaining \in 0..Budget /\ Budget \in Nat
      /\ <<>> \in Seq(Links)
  BY LimitAssumption DEF TypeOK
<1>2. \A k : Without(k) \in Seq(Links)
  BY <1>1, WithoutType
<1>3. ASSUME HangUp \/ TooLarge \/ FinishTurn
      PROVE  ServerTypes'
  <2>1. /\ stage # "idle" /\ NextTurn
        /\ outcome' = "none" /\ UNCHANGED <<listening, backlog>>
    BY <1>3 DEF HangUp, TooLarge, FinishTurn
  <2>2. /\ turn' \in Seq(Links) /\ stage' \in {"idle", "read", "lines"}
        /\ (stage' = "idle" <=> turn' = <<>>)
        /\ remaining' \in 0..Budget
    BY <2>1, NextTurnTypes
  <2>3. order' = order \/ order' = Without(Served)
    BY <1>3 DEF HangUp, TooLarge, FinishTurn
  <2>4. order' \in Seq(Links)
    BY <1>1, <1>2, <2>3
  <2>. QED BY <1>1, <2>1, <2>2, <2>4 DEF ServerTypes
<1>4. ASSUME Receive \/ Dispatch \/ RejectLine
      PROVE  ServerTypes'
  <2>1. /\ outcome' = "none" /\ UNCHANGED <<listening, backlog, order, turn>>
        /\ stage # "idle" /\ stage' \in {"read", "lines"}
    BY <1>4 DEF Receive, Dispatch, RejectLine, TakesLine
  <2>2. \/ remaining' = remaining
        \/ remaining > 0 /\ remaining' = remaining - 1
    BY <1>4 DEF Receive, Dispatch, RejectLine, TakesLine
  <2>3. remaining' \in 0..Budget
    BY <1>1, <2>2
  <2>. QED BY <1>1, <2>1, <2>3 DEF ServerTypes
<1>5. ASSUME DispatchRaises
      PROVE  ServerTypes'
  BY <1>1, <1>5 DEF DispatchRaises, ServerTypes
<1>6. ASSUME Start \/ Stop
      PROVE  ServerTypes'
  BY <1>1, <1>6 DEF Start, Stop, ServerTypes
<1>. QED BY <1>3, <1>4, <1>5, <1>6, PollTypes DEF Serving

(* The server keeps the invariant.                                         *)
LEMMA ServerStep ==
  ASSUME IInv, Serving \/ Dispatch \/ DispatchRaises
  PROVE  IInv'
<1>1. /\ TypeOK /\ LinksOK /\ History /\ \A c \in Clients : ClientInv(c)
  BY DEF IInv, LinksOK
<1>2. UNCHANGED client
  BY DEF Serving, Poll, HangUp, TooLarge, Receive, RejectLine, FinishTurn,
         Start, Stop, Dispatch, DispatchRaises
<1>3. PICK done \in SUBSET Ids :
        /\ Executes(done) /\ link' \in [Links -> LinkType]
        /\ \A id \in done : executed[id] = 0
        /\ \A k \in Links : \E d \in SUBSET Waits(Arrived(link[k])) :
             Effect(link[k], link'[k], d)
        /\ \A k \in Links :
             /\ Waits(Arrived(link'[k])) \subseteq
                  Waits(Arrived(link[k])) \ done
             /\ Replied(Replies(link'[k])) \subseteq
                  Replied(Replies(link[k])) \cup done
  <2>1. CASE Serving
    <3>1. Executes({})
      BY <2>1 DEF Serving, Poll, HangUp, TooLarge, Receive, RejectLine,
                  FinishTurn, Start, Stop
    <3>2. /\ link' \in [Links -> LinkType]
          /\ \A k \in Links : Effect(link[k], link'[k], {})
      BY <1>1, <2>1, ServingLinks
    <3>3. \A k \in Links :
            /\ Waits(Arrived(link'[k])) \subseteq Waits(Arrived(link[k]))
            /\ Replied(Replies(link'[k])) \subseteq Replied(Replies(link[k]))
      BY <3>2 DEF Effect
    <3>. QED BY <3>1, <3>2, <3>3
  <2>2. CASE Dispatch \/ DispatchRaises
    <3>1. PICK k \in Links, id \in Ids :
            /\ Executes({id}) /\ link' \in [Links -> LinkType]
            /\ id \in Waits(Arrived(link[k]))
            /\ Effect(link[k], link'[k], {id})
            /\ \A j \in Links \ {k} : link'[j] = link[j]
      BY <1>1, <2>2, DispatchLinks
    <3>2. executed[id] = 0
      BY <1>1, <3>1 DEF History
    <3>3. \A j \in Links : \E d \in SUBSET Waits(Arrived(link[j])) :
            Effect(link[j], link'[j], d)
      <4>1. \A j \in Links \ {k} : Effect(link[j], link'[j], {})
        BY <1>1, <3>1, NoEffect DEF LinksOK, TypeOK
      <4>. QED BY <3>1, <4>1
    <3>4. \A j \in Links \ {k} : id \notin Waits(Arrived(link[j]))
      BY <1>1, <3>1 DEF History
    <3>5. /\ Waits(Arrived(link'[k])) \subseteq Waits(Arrived(link[k])) \ {id}
          /\ Replied(Replies(link'[k])) \subseteq
               Replied(Replies(link[k])) \cup {id}
      BY <3>1 DEF Effect
    <3>. QED BY <3>1, <3>2, <3>3, <3>4, <3>5
  <2>. QED BY <2>1, <2>2
<1>4. executed' \in [Ids -> Nat] /\ History'
  <2>1. Moves(done, {}, None)
    BY <1>3 DEF Moves
  <2>2. {} \in SUBSET Ids
    OBVIOUS
  <2>. QED BY <1>1, <1>3, <2>1, <2>2, HistoryStep
<1>5. \A c \in Clients : ClientInv(c)'
  BY <1>1, <1>2, <1>3, ClientsKept
<1>6. \A k \in Links : LinkInv(link'[k])
  BY <1>3 DEF Effect
<1>7. ServerTypes'
  BY <1>1, ServerTyped
<1>8. TypeOK'
  BY <1>1, <1>2, <1>3, <1>4, <1>7 DEF TypeOK, ServerTypes, client
<1>. QED BY <1>4, <1>5, <1>6, <1>8 DEF IInv

-----------------------------------------------------------------------------
(* The steps of the clients.                                               *)

(* A client's step changes its own connection and nobody else's; with it a *)
(* call may send the requests `new`.                                       *)
ClientMoves(c, k, m, s, id, new) ==
  /\ link' = [link EXCEPT ![k] = m] /\ LinkInv(m)
  /\ sock' = [sock EXCEPT ![c] = s] /\ call' = [call EXCEPT ![c] = id]
  /\ unsent' \ {c} = unsent \ {c} /\ (c \in unsent' => id # None)
  /\ ServerTypes' /\ Executes({})
  /\ \A d \in Clients \ {c} : sock[d] # k
  /\ \A n \in new : Fresh(n)
  /\ Waits(Arrived(m)) \subseteq Waits(Arrived(link[k])) \cup new
  /\ Replied(Replies(m)) \subseteq Replied(Replies(link[k]))
  /\ s = None => id = None
  /\ s # None => /\ s = k /\ m.client /\ Timely(m, id)
                 /\ c \in unsent' => Half(m, id)

LEMMA ClientStep ==
  ASSUME IInv, NEW c \in Clients, NEW k \in Links, NEW m \in LinkType,
         NEW s \in Links \cup {None}, NEW id \in Ids \cup {None},
         NEW new \in SUBSET Ids, ClientMoves(c, k, m, s, id, new)
  PROVE  IInv'
<1>. USE DEF ClientMoves
<1>1. /\ TypeOK /\ LinksOK /\ History /\ \A d \in Clients : ClientInv(d)
      /\ sock \in [Clients -> Links \cup {None}]
      /\ call \in [Clients -> Ids \cup {None}]
      /\ unsent \subseteq {d \in Clients : call[d] # None}
  BY DEF IInv, LinksOK, TypeOK
<1>2. /\ link' \in [Links -> LinkType]
      /\ link'[k] = m /\ \A j \in Links \ {k} : link'[j] = link[j]
  BY <1>1, OneLink
<1>3. executed' \in [Ids -> Nat] /\ History'
  <2>1. Moves({}, new, k)
    BY <1>2 DEF Moves
  <2>2. {} \in SUBSET Ids
    OBVIOUS
  <2>. QED BY <1>1, <1>2, <2>1, <2>2, HistoryStep
<1>4. \A j \in Links : LinkInv(link'[j])
  BY <1>1, <1>2 DEF LinksOK
<1>5. /\ sock' \in [Clients -> Links \cup {None}]
      /\ call' \in [Clients -> Ids \cup {None}]
      /\ sock'[c] = s /\ call'[c] = id
      /\ \A d \in Clients \ {c} :
           /\ sock'[d] = sock[d] /\ call'[d] = call[d]
           /\ d \in unsent' <=> d \in unsent
  BY <1>1
<1>6. unsent' \subseteq {d \in Clients : call'[d] # None}
  <2>1. SUFFICES ASSUME NEW d \in unsent'
                 PROVE  d \in Clients /\ call'[d] # None
    OBVIOUS
  <2>2. d = c \/ d \in unsent
    OBVIOUS
  <2>. QED BY <1>1, <1>5, <2>2
<1>7. ASSUME NEW d \in Clients \ {c}
      PROVE  ClientInv(d)'
  <2>1. ClientInv(d) /\ sock[d] # k
    BY <1>1
  <2>2. sock[d] # None => /\ sock[d] \in Links \ {k}
                          /\ link'[sock[d]] = link[sock[d]]
    BY <1>1, <1>2, <2>1
  <2>3. sock[d] # None => \A e \in Clients : sock'[e] = sock'[d] => e = d
    <3>1. SUFFICES ASSUME sock[d] # None, NEW e \in Clients,
                          sock'[e] = sock'[d]
                   PROVE  e = d
      OBVIOUS
    <3>2. CASE e = c
      BY <1>5, <2>1, <3>1, <3>2
    <3>3. CASE e # c
      BY <1>5, <2>1, <3>1, <3>3 DEF ClientInv
    <3>. QED BY <3>2, <3>3
  <2>. QED BY <1>5, <2>1, <2>2, <2>3 DEF ClientInv
<1>8. ClientInv(c)'
  <2>1. CASE s = None
    BY <1>5, <2>1 DEF ClientInv
  <2>2. CASE s # None
    <3>1. \A e \in Clients : sock'[e] = sock'[c] => e = c
      BY <1>5, <2>2
    <3>. QED BY <1>2, <1>5, <2>2, <3>1 DEF ClientInv
  <2>. QED BY <2>1, <2>2
<1>9. TypeOK'
  BY <1>2, <1>3, <1>5, <1>6 DEF TypeOK, ServerTypes
<1>. QED BY <1>3, <1>4, <1>7, <1>8, <1>9 DEF IInv

(* A piece joins what is on its way to the server.                         *)
LEMMA PieceSent ==
  ASSUME NEW l \in LinkType, LinkInv(l), l.server, NEW p \in Pieces,
         p.part = "tail" => EndsInHead(Arrived(l)),
         p.part = "line" => p.id \notin Waits(Arrived(l)),
         NEW m, m = [l EXCEPT !.c2s = Append(@, p)]
  PROVE  /\ m \in LinkType /\ LinkInv(m)
         /\ Arrived(m) = Append(Arrived(l), p) /\ Replies(m) = Replies(l)
         /\ m.client = l.client /\ m.server = l.server /\ m.late = l.late
         /\ Waits(Arrived(m)) \subseteq
              Waits(Arrived(l)) \cup IF p.part = "line" THEN {p.id} ELSE {}
         /\ p.part = "head" => EndsInHead(Arrived(m))
<1>1. l.c2s \in Seq(Pieces) /\ l.recv \in Seq(Pieces)
  BY LinkFields
<1>2. PICK q \in Seq(Pieces) : q = Append(l.c2s, p)
  <2>1. Append(l.c2s, p) \in Seq(Pieces)
    BY <1>1, AppendProperties
  <2>. QED BY <2>1
<1>3. m = [l EXCEPT !.c2s = q]
  BY <1>2
<1>4. m \in LinkType
  <2>1. [l EXCEPT !.c2s = q] \in LinkType
    BY EmptyTypes, LinkUpdated
  <2>. QED BY <1>3, <2>1
<1>5. /\ m.client = l.client /\ m.server = l.server /\ m.late = l.late
      /\ m.s2c = l.s2c /\ m.recv = l.recv /\ m.c2s = q /\ m.send = l.send
  BY <1>3 DEF LinkType
<1>6. Arrived(m) = Append(Arrived(l), p) /\ Replies(m) = Replies(l)
  <2>1. l.recv \o Append(l.c2s, p) = Append(l.recv \o l.c2s, p)
    BY <1>1, AppendsJoined
  <2>. QED BY <1>2, <1>5, <2>1 DEF Arrived, Replies
<1>7. PICK a \in Seq(Pieces) : a = Arrived(l)
  BY LinkQueues
<1>8. TailsFollow(a) /\ OnceEach(a)
  BY <1>7 DEF LinkInv
<1>9. /\ TailsFollow(Append(a, p)) /\ OnceEach(Append(a, p))
      /\ Waits(Append(a, p)) \subseteq
           Waits(a) \cup IF p.part = "line" THEN {p.id} ELSE {}
      /\ p.part = "head" => EndsInHead(Append(a, p))
  BY <1>7, <1>8, PieceJoins
<1>10. LinkInv(m)
  <2>1. m.server /\ Len(m.s2c) <= Capacity /\ Named(Replies(m))
    BY <1>5, <1>6 DEF LinkInv
  <2>2. TailsFollow(Arrived(m)) /\ OnceEach(Arrived(m))
    BY <1>6, <1>7, <1>9
  <2>. QED BY <2>1, <2>2 DEF LinkInv
<1>. QED BY <1>4, <1>5, <1>6, <1>7, <1>9, <1>10

(* A request joins a connection over which no call is under way.           *)
LEMMA RequestSent ==
  ASSUME NEW l \in LinkType, LinkInv(l), NEW p \in Pieces,
         p.part # "tail", Timely(l, None),
         p.id \notin Waits(Arrived(l)), p.id \notin Replied(Replies(l)),
         NEW m, m = Sent(l, p)
  PROVE  /\ m \in LinkType /\ LinkInv(m) /\ m.client = l.client
         /\ Waits(Arrived(m)) \subseteq Waits(Arrived(l)) \cup {p.id}
         /\ Replies(m) = Replies(l)
         /\ Timely(m, p.id)
         /\ p.part = "head" => Half(m, p.id)
<1>1. /\ Arrived(l) \in Seq(Pieces) /\ Replies(l) \in Seq(Answer)
      /\ DOMAIN Arrived(l) = 1..Len(Arrived(l))
      /\ DOMAIN Replies(l) = 1..Len(Replies(l))
      /\ Len(Arrived(l)) \in Nat /\ Len(Replies(l)) \in Nat
  BY LinkQueues
<1>2. p.id \in Ids /\ p.id # None
  BY NoneAssumption DEF Pieces
<1>3. ASSUME ~l.late
      PROVE  /\ Arrived(l) = <<>> /\ Len(Replies(l)) <= 1
             /\ l.server => Replies(l) = <<>>
             /\ \A i \in DOMAIN Replies(l) : Replies(l)[i].id = "invalid"
  <2>1. /\ Len(Replies(l)) <= 1
        /\ \A i \in DOMAIN Arrived(l) : Arrived(l)[i].id = None
        /\ \A i \in DOMAIN Replies(l) :
             Replies(l)[i].id = "invalid" \/ Replies(l)[i].made = None
        /\ l.server => Replies(l) = <<>>
    BY <1>3 DEF Timely
  <2>2. /\ \A i \in DOMAIN Arrived(l) : Arrived(l)[i].id \in Ids
        /\ \A i \in DOMAIN Replies(l) : Replies(l)[i].made \in Ids
    <3>1. /\ \A i \in DOMAIN Arrived(l) : Arrived(l)[i] \in Pieces
          /\ \A i \in DOMAIN Replies(l) : Replies(l)[i] \in Answer
      BY <1>1
    <3>. QED BY <3>1 DEF Pieces, Answer
  <2>3. Len(Arrived(l)) = 0
    <3>1. ~(1 \in DOMAIN Arrived(l))
      BY <2>1, <2>2, NoneAssumption
    <3>. QED BY <1>1, <3>1
  <2>. QED BY <1>1, <2>1, <2>2, <2>3, EmptySeq, NoneAssumption
<1>4. CASE l.server
  <2>1. m = [l EXCEPT !.c2s = Append(@, p)]
    BY <1>4 DEF Sent
  <2>2. /\ m \in LinkType /\ LinkInv(m)
        /\ Arrived(m) = Append(Arrived(l), p) /\ Replies(m) = Replies(l)
        /\ m.client = l.client /\ m.server = l.server /\ m.late = l.late
        /\ Waits(Arrived(m)) \subseteq
             Waits(Arrived(l)) \cup IF p.part = "line" THEN {p.id} ELSE {}
        /\ p.part = "head" => EndsInHead(Arrived(m))
    BY <1>4, <2>1, PieceSent
  <2>3. ASSUME ~m.late
        PROVE  /\ Replies(m) = <<>>
               /\ \A i \in DOMAIN Arrived(m) :
                    /\ Arrived(m)[i].id = p.id
                    /\ i < Len(Arrived(m)) => Arrived(m)[i].part = "head"
    <3>1. Arrived(m) = Append(<<>>, p) /\ Replies(m) = <<>>
      BY <1>3, <1>4, <2>2, <2>3
    <3>2. Len(Arrived(m)) = 1 /\ Arrived(m)[1] = p /\ DOMAIN Arrived(m) = 1..1
      BY <3>1
    <3>. QED BY <3>1, <3>2
  <2>4. Timely(m, p.id)
    BY <1>2, <2>3 DEF Timely
  <2>5. p.part = "head" => Half(m, p.id)
    BY <2>2 DEF Half
  <2>. QED BY <2>2, <2>4, <2>5
<1>5. CASE ~l.server
  <2>1. m = l
    <3>1. m = [l EXCEPT !.c2s = l.c2s]
      BY <1>5 DEF Sent
    <3>. QED BY <3>1 DEF LinkType
  <2>2. Timely(l, p.id)
    BY <1>2, <1>3, <1>5 DEF Timely
  <2>3. Half(l, p.id)
    BY <1>5 DEF Half
  <2>. QED BY <2>1, <2>2, <2>3
<1>. QED BY <1>4, <1>5

(* The tail of a request follows its head.                                 *)
LEMMA TailSent ==
  ASSUME NEW l \in LinkType, LinkInv(l), l.server, NEW p \in Pieces,
         p.part = "tail", EndsInHead(Arrived(l)), Timely(l, p.id),
         NEW m, m = [l EXCEPT !.c2s = Append(@, p)]
  PROVE  /\ m \in LinkType /\ LinkInv(m) /\ m.client = l.client
         /\ Waits(Arrived(m)) \subseteq Waits(Arrived(l))
         /\ Replies(m) = Replies(l)
         /\ Timely(m, p.id)
<1>1. /\ Arrived(l) \in Seq(Pieces)
      /\ DOMAIN Arrived(l) = 1..Len(Arrived(l)) /\ Len(Arrived(l)) \in Nat
  BY LinkQueues
<1>2. p.id # None
  BY NoneAssumption DEF Pieces
<1>3. /\ m \in LinkType /\ LinkInv(m)
      /\ Arrived(m) = Append(Arrived(l), p) /\ Replies(m) = Replies(l)
      /\ m.client = l.client /\ m.server = l.server /\ m.late = l.late
      /\ Waits(Arrived(m)) \subseteq Waits(Arrived(l))
  BY ZenonT(60), PieceSent
<1>4. ASSUME ~l.late
      PROVE  /\ Replies(l) = <<>>
             /\ \A i \in DOMAIN Arrived(l) :
                  Arrived(l)[i].id = p.id /\ Arrived(l)[i].part = "head"
  <2>1. /\ Arrived(l) # <<>> => Replies(l) = <<>>
        /\ \A i \in DOMAIN Arrived(l) :
             /\ Arrived(l)[i].id = p.id
             /\ i < Len(Arrived(l)) => Arrived(l)[i].part = "head"
    BY <1>4 DEF Timely
  <2>2. Arrived(l) # <<>> /\ Arrived(l)[Len(Arrived(l))].part = "head"
    BY DEF EndsInHead
  <2>3. \A i \in DOMAIN Arrived(l) : i < Len(Arrived(l)) \/ i = Len(Arrived(l))
    BY <1>1
  <2>. QED BY <2>1, <2>2, <2>3
<1>5. PICK q \in Seq(Pieces) : q = Arrived(l)
  BY <1>1
<1>6. /\ Len(Append(q, p)) = Len(q) + 1 /\ DOMAIN q = 1..Len(q)
      /\ \A i \in DOMAIN Append(q, p) :
           \/ i \in DOMAIN q /\ Append(q, p)[i] = q[i]
           \/ i = Len(q) + 1 /\ Append(q, p)[i] = p
  OBVIOUS
<1>7. ASSUME ~m.late, NEW i \in DOMAIN Arrived(m)
      PROVE  /\ Arrived(m)[i].id = p.id
             /\ i < Len(Arrived(m)) => Arrived(m)[i].part = "head"
  <2>1. \A j \in DOMAIN q : q[j].id = p.id /\ q[j].part = "head"
    BY <1>3, <1>4, <1>5, <1>7
  <2>2. i \in DOMAIN Append(q, p) /\ Len(q) \in Nat
    BY <1>3, <1>5, <1>7
  <2>3. CASE i \in DOMAIN q /\ Append(q, p)[i] = q[i]
    BY <1>3, <1>5, <2>1, <2>3
  <2>4. CASE i = Len(q) + 1 /\ Append(q, p)[i] = p
    <3>1. ~(i < Len(Append(q, p)))
      BY <1>6, <2>2, <2>4
    <3>. QED BY <1>3, <1>5, <2>4, <3>1
  <2>. QED BY <1>6, <2>2, <2>3, <2>4
<1>8. Timely(m, p.id)
  BY <1>2, <1>3, <1>4, <1>7 DEF Timely
<1>. QED BY <1>3, <1>8

(* Nothing under way.                                                      *)
LEMMA EmptyTimely ==
  ASSUME NEW l, ~l.late => Arrived(l) = <<>> /\ Replies(l) = <<>>, NEW id
  PROVE  Timely(l, id)
<1>1. Len(<<>>) <= 1 /\ DOMAIN <<>> = {}
  OBVIOUS
<1>. QED BY <1>1 DEF Timely

(* The client reads the first line there is.                               *)
LEMMA AnswerTaken ==
  ASSUME NEW l \in LinkType, LinkInv(l), l.s2c # <<>>,
         NEW m, m = [l EXCEPT !.s2c = Tail(@)]
  PROVE  /\ m \in LinkType /\ LinkInv(m) /\ m.client = l.client
         /\ Arrived(m) = Arrived(l)
         /\ Replied(Replies(m)) \subseteq Replied(Replies(l))
         /\ \A id \in Ids : Timely(l, id) => Timely(m, None)
<1>1. /\ l.s2c \in Seq(Answer) /\ l.send \in Seq(Answer)
      /\ Len(l.s2c) \in Nat /\ Capacity \in Nat
  BY LinkFields, LimitAssumption
<1>2. PICK s \in Seq(Answer) : s = Tail(l.s2c) /\ Len(s) = Len(l.s2c) - 1
  BY <1>1, HeadTailProperties
<1>3. m = [l EXCEPT !.s2c = s]
  BY <1>2
<1>4. m \in LinkType
  <2>1. [l EXCEPT !.s2c = s] \in LinkType
    BY EmptyTypes, LinkUpdated
  <2>. QED BY <1>3, <2>1
<1>5. /\ m.client = l.client /\ m.server = l.server /\ m.late = l.late
      /\ m.s2c = s /\ m.recv = l.recv /\ m.c2s = l.c2s /\ m.send = l.send
  BY <1>3 DEF LinkType
<1>6. Arrived(m) = Arrived(l)
  BY <1>5 DEF Arrived
<1>7. PICK w \in Seq(Answer) : w = Replies(l) /\ w # <<>>
  BY <1>1, TailJoined DEF Replies
<1>8. Replies(m) = Tail(w)
  <2>1. Tail(l.s2c) \o l.send = Tail(l.s2c \o l.send)
    BY <1>1, TailJoined
  <2>. QED BY <1>2, <1>5, <1>7, <2>1 DEF Replies
<1>9. /\ Tail(w) \in Seq(Answer) /\ Len(Tail(w)) = Len(w) - 1
      /\ \A i \in 1..Len(Tail(w)) : Tail(w)[i] = w[i + 1]
      /\ Len(w) \in Nat \ {0}
  BY <1>7, HeadTailProperties
<1>10. Named(Replies(m)) /\ Replied(Replies(m)) \subseteq Replied(Replies(l))
  <2>1. Among(Tail(w), w)
    <3>1. DOMAIN w = 1..Len(w) /\ DOMAIN Tail(w) = 1..Len(Tail(w))
      BY <1>9
    <3>2. \A i \in DOMAIN Tail(w) : i + 1 \in DOMAIN w
      BY <1>9, <3>1
    <3>. QED BY <1>9, <3>1, <3>2 DEF Among
  <2>2. Named(w)
    BY <1>7 DEF LinkInv
  <2>. QED BY <1>7, <1>8, <2>1, <2>2, FewerAnswers
<1>11. LinkInv(m)
  <2>1. Len(m.s2c) <= Capacity
    BY <1>1, <1>2, <1>5 DEF LinkInv
  <2>2. ~l.server => Arrived(m) = <<>> /\ m.send = <<>>
    BY <1>5, <1>6 DEF LinkInv
  <2>3. TailsFollow(Arrived(m)) /\ OnceEach(Arrived(m))
    BY <1>6 DEF LinkInv
  <2>. QED BY <1>5, <1>10, <2>1, <2>2, <2>3 DEF LinkInv
<1>12. ASSUME NEW id \in Ids, Timely(l, id)
       PROVE  Timely(m, None)
  <2>1. ASSUME ~l.late
        PROVE  Arrived(m) = <<>> /\ Replies(m) = <<>>
    <3>1. Len(w) <= 1 /\ Arrived(l) = <<>>
      BY <1>7, <1>12, <2>1 DEF Timely
    <3>2. Len(Tail(w)) = 0
      BY <1>9, <3>1
    <3>. QED BY <1>6, <1>8, <1>9, <3>1, <3>2, EmptySeq
  <2>2. m.late <=> l.late
    BY <1>5
  <2>. QED BY <2>1, <2>2, EmptyTimely
<1>. QED BY <1>4, <1>5, <1>6, <1>10, <1>11, <1>12

(* A call ends without a line: the host is gone, or the time is up.        *)
LEMMA GivenUp ==
  ASSUME NEW l \in LinkType, LinkInv(l), NEW id \in Ids, Timely(l, id),
         ~l.server, l.s2c = <<>> \/ Half(l, id)
  PROVE  Timely(l, None)
<1>1. Arrived(l) = <<>>
  BY DEF LinkInv
<1>2. CASE l.s2c = <<>>
  <2>1. Replies(l) = <<>>
    BY <1>2, WithEmpty, EmptyTypes DEF LinkInv, Replies
  <2>. QED BY <1>1, <2>1, EmptyTimely
<1>3. CASE Half(l, id)
  <2>1. \A i \in DOMAIN Replies(l) :
          Replies(l)[i].made = id => Replies(l)[i].id = "invalid"
    BY <1>3 DEF Half, Replied
  <2>2. DOMAIN Arrived(l) = {}
    BY <1>1
  <2>. QED BY <1>1, <2>1, <2>2 DEF Timely
<1>. QED BY <1>2, <1>3

(* The client closes its end.                                              *)
LEMMA Closed ==
  ASSUME NEW l \in LinkType, LinkInv(l), NEW m, m = ClientCloses(l)
  PROVE  /\ m \in LinkType /\ LinkInv(m) /\ Arrived(m) = Arrived(l)
         /\ Replied(Replies(m)) \subseteq Replied(Replies(l))
<1>1. /\ m \in LinkType /\ m.server = l.server
      /\ m.s2c = <<>> /\ m.send = l.send /\ Arrived(m) = Arrived(l)
  BY ClientClosesFacts
<1>2. l.s2c \in Seq(Answer) /\ l.send \in Seq(Answer)
  BY LinkFields
<1>3. Replies(m) = l.send
  BY <1>1, <1>2, WithEmpty DEF Replies
<1>4. Among(l.send, Replies(l))
  <2>1. PICK s \in Seq(Answer), t \in Seq(Answer) : s = l.s2c /\ t = l.send
    BY <1>2
  <2>2. ASSUME NEW i \in DOMAIN t
        PROVE  \E j \in DOMAIN (s \o t) : t[i] = (s \o t)[j]
    BY LastPart
  <2>3. \A i \in DOMAIN l.send : \E j \in DOMAIN Replies(l) :
          l.send[i] = Replies(l)[j]
    BY <2>1, <2>2 DEF Replies
  <2>. QED BY <2>3 DEF Among
<1>5. Named(Replies(m)) /\ Replied(Replies(m)) \subseteq Replied(Replies(l))
  BY <1>3, <1>4, FewerAnswers DEF LinkInv
<1>6. LinkInv(m)
  <2>1. Len(m.s2c) <= Capacity
    BY <1>1, LimitAssumption
  <2>2. ~m.server => Arrived(m) = <<>> /\ m.send = <<>>
    BY <1>1 DEF LinkInv
  <2>3. TailsFollow(Arrived(m)) /\ OnceEach(Arrived(m))
    BY <1>1 DEF LinkInv
  <2>. QED BY <1>5, <2>1, <2>2, <2>3 DEF LinkInv
<1>. QED BY <1>1, <1>5, <1>6

LEMMA SameServer ==
  ASSUME TypeOK, UNCHANGED server, outcome' \in Endings \cup {"none"}
  PROVE  ServerTypes'
BY DEF TypeOK, ServerTypes, server

(* A client and its connection.                                            *)
LEMMA OwnLink ==
  ASSUME IInv, NEW c \in Clients, sock[c] # None
  PROVE  /\ sock[c] \in Links /\ link[sock[c]] \in LinkType
         /\ LinkInv(link[sock[c]]) /\ link[sock[c]].client
         /\ \A d \in Clients \ {c} : sock[d] # sock[c]
         /\ c \in unsent => Half(link[sock[c]], call[c])
         /\ Timely(link[sock[c]], call[c])
         /\ sock = [sock EXCEPT ![c] = sock[c]]
         /\ call[c] \in Ids \cup {None}
         /\ TypeOK
<1>1. /\ sock \in [Clients -> Links \cup {None}]
      /\ call \in [Clients -> Ids \cup {None}]
      /\ link \in [Links -> LinkType] /\ TypeOK /\ ClientInv(c)
      /\ \A k \in Links : LinkInv(link[k])
  BY DEF IInv, TypeOK
<1>. QED BY <1>1 DEF ClientInv

LEMMA Calling ==
  ASSUME IInv, NEW c \in Clients, NEW id \in Ids, NEW kind \in Kinds,
         Begins(c, id, kind)
  PROVE  /\ FirstPiece(id, kind) \in Pieces /\ FirstPiece(id, kind).id = id
         /\ FirstPiece(id, kind).part # "tail"
         /\ unsent' \ {c} = unsent \ {c}
         /\ c \in unsent' => FirstPiece(id, kind).part = "head"
         /\ call' = [call EXCEPT ![c] = id] /\ call[c] = None
         /\ Fresh(id) /\ outcome' = "none"
<1>1. c \notin unsent /\ call[c] = None /\ Fresh(id)
  BY DEF IInv, TypeOK, Begins
<1>2. /\ FirstPiece(id, kind) \in Pieces /\ FirstPiece(id, kind).id = id
      /\ FirstPiece(id, kind).part # "tail"
      /\ kind = "large" => FirstPiece(id, kind).part = "head"
  BY DEF FirstPiece, Pieces
<1>3. /\ unsent' = IF kind = "large" THEN unsent \cup {c} ELSE unsent
      /\ call' = [call EXCEPT ![c] = id] /\ outcome' = "none"
  BY DEF Begins
<1>. QED BY <1>1, <1>2, <1>3

LEMMA CallStep ==
  ASSUME IInv, NEW c \in Clients, NEW id \in Ids, NEW kind \in Kinds,
         Call(c, id, kind)
  PROVE  IInv'
<1>. DEFINE p == FirstPiece(id, kind)
<1>1. /\ sock[c] # None /\ Begins(c, id, kind)
      /\ link' = [link EXCEPT ![sock[c]] = Sent(@, p)]
      /\ UNCHANGED <<sock, server>> /\ Executes({})
  BY DEF Call
<1>2. /\ p \in Pieces /\ p.id = id /\ p.part # "tail"
      /\ unsent' \ {c} = unsent \ {c}
      /\ c \in unsent' => p.part = "head"
      /\ call' = [call EXCEPT ![c] = id] /\ call[c] = None
      /\ Fresh(id) /\ outcome' = "none"
  BY <1>1, Calling
<1>. HIDE DEF p
<1>3. PICK k \in Links :
        /\ k = sock[c] /\ link[k] \in LinkType
        /\ LinkInv(link[k]) /\ link[k].client
        /\ \A d \in Clients \ {c} : sock[d] # k
        /\ Timely(link[k], None)
        /\ sock = [sock EXCEPT ![c] = k]
        /\ TypeOK
  BY <1>1, <1>2, OwnLink
<1>13. PICK l \in LinkType : l = link[k]
  BY <1>3
<1>4. id \notin Waits(Arrived(l)) /\ id \notin Replied(Replies(l))
  BY <1>2, <1>3, <1>13, FreshNotCarried DEF TypeOK
<1>5. PICK m : m = Sent(l, p)
  OBVIOUS
<1>6. /\ m \in LinkType /\ LinkInv(m) /\ m.client = l.client
      /\ Waits(Arrived(m)) \subseteq Waits(Arrived(l)) \cup {id}
      /\ Replies(m) = Replies(l) /\ Timely(m, id)
      /\ p.part = "head" => Half(m, id)
  BY <1>2, <1>3, <1>4, <1>5, <1>13, RequestSent
<1>7. link' = [link EXCEPT ![k] = m]
  BY <1>1, <1>3, <1>5, <1>13
<1>8. ServerTypes'
  BY <1>1, <1>2, <1>3, SameServer
<1>9. sock' = [sock EXCEPT ![c] = k]
  BY <1>1, <1>3
<1>10. /\ m.client /\ (c \in unsent' => Half(m, id))
       /\ Replied(Replies(m)) \subseteq Replied(Replies(link[k]))
       /\ Waits(Arrived(m)) \subseteq Waits(Arrived(link[k])) \cup {id}
       /\ id # None /\ k # None /\ {id} \in SUBSET Ids
  BY <1>2, <1>3, <1>6, <1>13, NoneAssumption
<1>11. PICK new \in SUBSET Ids : new = {id}
  OBVIOUS
<1>12. /\ \A n \in new : Fresh(n)
       /\ Waits(Arrived(m)) \subseteq Waits(Arrived(link[k])) \cup new
  BY <1>2, <1>10, <1>11
<1>14. ClientMoves(c, k, m, k, id, new)
  BY <1>1, <1>2, <1>3, <1>6, <1>7, <1>8, <1>9, <1>10, <1>12 DEF ClientMoves
<1>. QED BY <1>6, <1>14, ClientStep

LEMMA CallAnewStep ==
  ASSUME IInv, NEW c \in Clients, NEW id \in Ids, NEW kind \in Kinds,
         CallAnew(c, id, kind)
  PROVE  IInv'
<1>. DEFINE p == FirstPiece(id, kind)
            l == [NoLink EXCEPT !.client = TRUE, !.server = TRUE]
<1>1. PICK k \in Links :
        /\ link[k] = NoLink
        /\ link' = [link EXCEPT ![k] = Sent(l, p)]
        /\ sock' = [sock EXCEPT ![c] = k]
        /\ backlog' = Append(backlog, k)
  BY DEF CallAnew
<1>2. /\ p \in Pieces /\ p.id = id /\ p.part # "tail"
      /\ unsent' \ {c} = unsent \ {c}
      /\ c \in unsent' => p.part = "head"
      /\ call' = [call EXCEPT ![c] = id] /\ call[c] = None
      /\ Fresh(id) /\ outcome' = "none"
  BY Calling DEF CallAnew
<1>3. /\ l \in LinkType /\ l.client
      /\ l.server /\ l.s2c = <<>> /\ l.recv = <<>> /\ l.c2s = <<>>
      /\ l.send = <<>>
  BY EmptyTypes DEF NoLink, LinkType
<1>. HIDE DEF p, l
<1>4. Arrived(l) = <<>> /\ Replies(l) = <<>>
  BY <1>3, WithEmpty, EmptyTypes DEF Arrived, Replies
<1>5. LinkInv(l) /\ Timely(l, None)
  <2>1. Len(l.s2c) <= Capacity
    BY <1>3, LimitAssumption
  <2>2. LinkInv(l)
    BY <1>3, <1>4, <2>1, NoPieces DEF LinkInv
  <2>. QED BY <1>4, <2>2, EmptyTimely
<1>6. PICK m : m = Sent(l, p)
  OBVIOUS
<1>7. /\ m \in LinkType /\ LinkInv(m) /\ m.client = l.client
      /\ Waits(Arrived(m)) \subseteq {id}
      /\ Replies(m) = <<>> /\ Timely(m, id)
      /\ p.part = "head" => Half(m, id)
  <2>1. id \notin Waits(Arrived(l)) /\ id \notin Replied(Replies(l))
        /\ Waits(Arrived(l)) = {}
    BY <1>4, NoPieces
  <2>2. /\ m \in LinkType /\ LinkInv(m) /\ m.client = l.client
        /\ Waits(Arrived(m)) \subseteq Waits(Arrived(l)) \cup {id}
        /\ Replies(m) = Replies(l) /\ Timely(m, id)
        /\ p.part = "head" => Half(m, id)
    BY <1>2, <1>3, <1>5, <1>6, <2>1, RequestSent
  <2>. QED BY <1>4, <2>1, <2>2
<1>8. \A d \in Clients \ {c} : sock[d] # k
  <2>1. \A d \in Clients : sock[d] = k => link[k].client
    BY NoneAssumption, OwnLink
  <2>2. link[k].client = FALSE
    BY <1>1 DEF NoLink
  <2>. QED BY <2>1, <2>2
<1>9. ServerTypes'
  <2>1. TypeOK /\ backlog' \in Seq(Links)
    BY <1>1 DEF IInv, TypeOK
  <2>2. UNCHANGED <<listening, order, turn, stage, remaining>>
    BY DEF CallAnew
  <2>. QED BY <1>2, <2>1, <2>2 DEF TypeOK, ServerTypes
<1>10. /\ link' = [link EXCEPT ![k] = m] /\ Executes({})
       /\ m.client /\ (c \in unsent' => Half(m, id))
       /\ Replied(Replies(m)) \subseteq Replied(Replies(link[k]))
       /\ Waits(Arrived(m)) \subseteq Waits(Arrived(link[k])) \cup {id}
       /\ id # None /\ k # None /\ {id} \in SUBSET Ids
  <2>1. Replied(Replies(m)) = {}
    BY <1>7, NoPieces
  <2>2. Executes({})
    BY DEF CallAnew
  <2>. QED BY <1>1, <1>2, <1>3, <1>6, <1>7, <2>1, <2>2, NoneAssumption
<1>11. PICK new \in SUBSET Ids : new = {id}
  OBVIOUS
<1>12. /\ \A n \in new : Fresh(n)
       /\ Waits(Arrived(m)) \subseteq Waits(Arrived(link[k])) \cup new
  BY <1>2, <1>10, <1>11
<1>13. ClientMoves(c, k, m, k, id, new)
  BY <1>1, <1>2, <1>7, <1>8, <1>9, <1>10, <1>12 DEF ClientMoves
<1>. QED BY <1>7, <1>13, ClientStep

LEMMA SendTailStep ==
  ASSUME IInv, NEW c \in Clients, SendTail(c)
  PROVE  IInv'
<1>1. /\ c \in unsent /\ link[sock[c]].server
      /\ link' = [link EXCEPT
           ![sock[c]].c2s = Append(@, [id |-> call[c], part |-> "tail"])]
      /\ unsent' = unsent \ {c} /\ outcome' = "none"
      /\ UNCHANGED <<sock, call, server>> /\ Executes({})
  BY DEF SendTail
<1>2. /\ call \in [Clients -> Ids \cup {None}] /\ call[c] \in Ids
      /\ sock[c] # None
  BY <1>1 DEF IInv, TypeOK, ClientInv
<1>3. PICK k \in Links :
        /\ k = sock[c] /\ link[k] \in LinkType
        /\ LinkInv(link[k]) /\ link[k].client
        /\ \A d \in Clients \ {c} : sock[d] # k
        /\ Half(link[k], call[c]) /\ Timely(link[k], call[c])
        /\ sock = [sock EXCEPT ![c] = k]
        /\ TypeOK
  BY <1>1, <1>2, OwnLink
<1>4. PICK l \in LinkType : l = link[k]
  BY <1>3
<1>5. PICK p : p = [id |-> call[c], part |-> "tail"]
  OBVIOUS
<1>6. p \in Pieces /\ p.id = call[c] /\ p.part = "tail"
  BY <1>2, <1>5 DEF Pieces
<1>7. PICK m : m = [l EXCEPT !.c2s = Append(@, p)]
  OBVIOUS
<1>8. l.server /\ EndsInHead(Arrived(l)) /\ Timely(l, p.id) /\ LinkInv(l)
  BY <1>1, <1>3, <1>4, <1>6 DEF Half
<1>9. /\ m \in LinkType /\ LinkInv(m) /\ m.client = l.client
      /\ Waits(Arrived(m)) \subseteq Waits(Arrived(l))
      /\ Replies(m) = Replies(l)
      /\ Timely(m, p.id)
  BY <1>6, <1>7, <1>8, TailSent
<1>10. link' = [link EXCEPT ![k] = m]
  BY <1>1, <1>3, <1>4, <1>5, <1>7
<1>11. ServerTypes'
  BY <1>1, <1>3, SameServer
<1>12. sock' = [sock EXCEPT ![c] = k] /\ call' = [call EXCEPT ![c] = call[c]]
  BY <1>1, <1>2, <1>3
<1>13. {} \in SUBSET Ids /\ k # None
  BY NoneAssumption
<1>14. ClientMoves(c, k, m, k, call[c], {})
  BY <1>1, <1>2, <1>3, <1>4, <1>6, <1>9, <1>10, <1>11, <1>12, <1>13
  DEF ClientMoves
<1>. QED BY <1>2, <1>9, <1>13, <1>14, ClientStep

(* The rest of what a call does when it ends.                              *)
LEMMA Ending ==
  ASSUME IInv, NEW c \in Clients, NEW how \in Endings, Ends(c, how)
  PROVE  /\ sock[c] # None /\ call[c] \in Ids
         /\ call' = [call EXCEPT ![c] = None]
         /\ unsent' \ {c} = unsent \ {c} /\ c \notin unsent'
         /\ sock' = [sock EXCEPT ![c] = sock[c]]
         /\ ServerTypes'
<1>1. /\ TypeOK /\ ClientInv(c) /\ call[c] \in Ids \cup {None}
      /\ sock = [sock EXCEPT ![c] = sock[c]]
  BY DEF IInv, TypeOK
<1>2. /\ call[c] # None /\ call' = [call EXCEPT ![c] = None]
      /\ unsent' = unsent \ {c} /\ outcome' = how
      /\ UNCHANGED <<sock, server>>
  BY DEF Ends
<1>3. ServerTypes'
  BY <1>1, <1>2, SameServer
<1>. QED BY <1>1, <1>2, <1>3 DEF ClientInv

(* A call ends, and its connection is left as m.                           *)
LEMMA EndingStep ==
  ASSUME IInv, NEW c \in Clients, NEW how \in Endings, Ends(c, how),
         NEW m \in LinkType, link' = [link EXCEPT ![sock[c]] = m],
         Executes({}), LinkInv(m), m.client = link[sock[c]].client,
         Arrived(m) = Arrived(link[sock[c]]),
         Replied(Replies(m)) \subseteq Replied(Replies(link[sock[c]])),
         Timely(m, None)
  PROVE  IInv'
<1>1. /\ sock[c] # None /\ call' = [call EXCEPT ![c] = None]
      /\ unsent' \ {c} = unsent \ {c} /\ c \notin unsent'
      /\ sock' = [sock EXCEPT ![c] = sock[c]] /\ ServerTypes'
  BY Ending
<1>2. PICK k \in Links :
        /\ k = sock[c] /\ link[k].client
        /\ \A d \in Clients \ {c} : sock[d] # k
  BY <1>1, OwnLink
<1>3. {} \in SUBSET Ids /\ k # None
  BY NoneAssumption
<1>4. ClientMoves(c, k, m, k, None, {})
  BY <1>1, <1>2, <1>3 DEF ClientMoves
<1>. QED BY <1>3, <1>4, ClientStep

LEMMA TakeLineStep ==
  ASSUME IInv, NEW c \in Clients, TakeLine(c)
  PROVE  IInv'
<1>1. PICK how \in Endings : Ends(c, how)
  BY DEF TakeLine, Endings
<1>2. sock[c] # None /\ call[c] \in Ids
  BY <1>1, Ending
<1>3. PICK l \in LinkType :
        l = link[sock[c]] /\ LinkInv(l) /\ Timely(l, call[c])
  BY <1>2, OwnLink
<1>4. PICK m : m = [l EXCEPT !.s2c = Tail(@)]
  OBVIOUS
<1>5. /\ l.s2c # <<>> /\ link' = [link EXCEPT ![sock[c]] = m]
      /\ Executes({})
  BY <1>3, <1>4 DEF TakeLine
<1>6. /\ m \in LinkType /\ LinkInv(m) /\ m.client = l.client
      /\ Arrived(m) = Arrived(l)
      /\ Replied(Replies(m)) \subseteq Replied(Replies(l))
      /\ Timely(m, None)
  BY SMTT(30), <1>2, <1>3, <1>4, <1>5, AnswerTaken
<1>. QED BY <1>1, <1>3, <1>5, <1>6, EndingStep

LEMMA HostGoneStep ==
  ASSUME IInv, NEW c \in Clients, HostGone(c)
  PROVE  IInv'
<1>1. PICK how \in Endings : Ends(c, how)
  BY DEF HostGone, Endings
<1>2. sock[c] # None /\ call[c] \in Ids
  BY <1>1, Ending
<1>3. PICK l \in LinkType :
        /\ l = link[sock[c]] /\ LinkInv(l) /\ Timely(l, call[c])
        /\ c \in unsent => Half(l, call[c])
        /\ link = [link EXCEPT ![sock[c]] = l]
  BY <1>2, OwnLink DEF TypeOK
<1>4. ~l.server /\ (c \in unsent \/ l.s2c = <<>>)
  BY <1>3 DEF HostGone
<1>5. Timely(l, None)
  BY <1>2, <1>3, <1>4, GivenUp
<1>6. link' = [link EXCEPT ![sock[c]] = l] /\ Executes({})
  BY <1>3 DEF HostGone
<1>. QED BY <1>1, <1>3, <1>5, <1>6, EndingStep

LEMMA TimeoutStep ==
  ASSUME IInv, NEW c \in Clients, Timeout(c)
  PROVE  IInv'
<1>1. Ends(c, "timeout") /\ "timeout" \in Endings
  BY DEF Timeout, Endings
<1>2. sock[c] # None
  BY <1>1, Ending
<1>3. PICK l \in LinkType : l = link[sock[c]] /\ LinkInv(l)
  BY <1>2, OwnLink
<1>4. PICK m : m = [l EXCEPT !.late = TRUE]
  OBVIOUS
<1>5. link' = [link EXCEPT ![sock[c]] = m] /\ Executes({})
  BY <1>3, <1>4 DEF Timeout
<1>6. m \in LinkType
  BY <1>4, EmptyTypes, LinkUpdated
<1>7. /\ m.client = l.client /\ m.server = l.server /\ m.late = TRUE
      /\ m.s2c = l.s2c /\ m.recv = l.recv /\ m.c2s = l.c2s /\ m.send = l.send
  BY <1>4 DEF LinkType
<1>8. Arrived(m) = Arrived(l) /\ Replies(m) = Replies(l)
  BY <1>7 DEF Arrived, Replies
<1>9. LinkInv(m) /\ Timely(m, None)
  BY <1>3, <1>7, <1>8 DEF LinkInv, Timely
<1>. QED BY <1>1, <1>3, <1>5, <1>6, <1>7, <1>8, <1>9, EndingStep

LEMMA CloseStep ==
  ASSUME IInv, NEW c \in Clients, Close(c)
  PROVE  IInv'
<1>1. /\ sock[c] # None /\ call[c] = None
      /\ sock' = [sock EXCEPT ![c] = None]
      /\ link' = [link EXCEPT ![sock[c]] = ClientCloses(@)]
      /\ outcome' = "none" /\ UNCHANGED <<call, unsent, server>>
      /\ Executes({})
  BY DEF Close
<1>2. PICK k \in Links :
        /\ k = sock[c] /\ link[k] \in LinkType /\ LinkInv(link[k])
        /\ \A d \in Clients \ {c} : sock[d] # k
        /\ TypeOK
  BY <1>1, OwnLink
<1>3. PICK l \in LinkType : l = link[k]
  BY <1>2
<1>4. PICK m : m = ClientCloses(l)
  OBVIOUS
<1>5. /\ m \in LinkType /\ LinkInv(m) /\ Arrived(m) = Arrived(l)
      /\ Replied(Replies(m)) \subseteq Replied(Replies(l))
  BY <1>2, <1>3, <1>4, Closed
<1>6. /\ c \notin unsent /\ call' = [call EXCEPT ![c] = None]
  BY <1>1, <1>2 DEF TypeOK
<1>7. ServerTypes'
  BY <1>1, <1>2, SameServer
<1>8. {} \in SUBSET Ids
  OBVIOUS
<1>9. ClientMoves(c, k, m, None, None, {})
  BY <1>1, <1>2, <1>3, <1>4, <1>5, <1>6, <1>7 DEF ClientMoves
<1>. QED BY <1>5, <1>8, <1>9, ClientStep

-----------------------------------------------------------------------------
(* The theorems.                                                           *)

LEMMA InitIInv ==
  ASSUME Init
  PROVE  IInv
<1>1. /\ sock = [c \in Clients |-> None] /\ call = [c \in Clients |-> None]
      /\ unsent = {} /\ outcome = "none"
      /\ link = [k \in Links |-> NoLink]
      /\ listening = FALSE /\ backlog = <<>> /\ order = <<>> /\ turn = <<>>
      /\ stage = "idle" /\ remaining = 0
      /\ executed = [id \in Ids |-> 0]
  BY DEF Init
<1>2. 0 \in 0..Budget /\ <<>> \in Seq(Links)
  BY LimitAssumption
<1>3. TypeOK
  BY <1>1, <1>2, NoLinkType DEF TypeOK
<1>4. \A k \in Links : /\ LinkInv(link[k])
                       /\ Waits(Arrived(link[k])) = {}
                       /\ Replied(Replies(link[k])) = {}
  BY <1>1, NoLinkType, NoPieces
<1>5. \A c \in Clients : ClientInv(c)
  BY <1>1 DEF ClientInv
<1>6. History
  BY <1>1, <1>4 DEF History
<1>. QED BY <1>3, <1>4, <1>5, <1>6 DEF IInv

LEMMA NextIInv ==
  ASSUME IInv, [Next]_vars
  PROVE  IInv'
<1>1. CASE UNCHANGED vars
  <2>1. /\ UNCHANGED <<sock, call, unsent, outcome, link, listening, backlog,
                       order, turn, stage, remaining, executed>>
    BY <1>1 DEF vars, client, server
  <2>2. TypeOK'
    BY <2>1 DEF IInv, TypeOK
  <2>3. \A c \in Clients : ClientInv(c)'
    BY <2>1 DEF IInv, ClientInv
  <2>4. History'
    BY <2>1 DEF IInv, History, Fresh
  <2>. QED BY <2>1, <2>2, <2>3, <2>4 DEF IInv
<1>2. CASE Serving \/ Dispatch \/ DispatchRaises
  BY <1>2, ServerStep
<1>3. ASSUME NEW c \in Clients, Waiting(c) \/ Timeout(c) \/ Close(c)
      PROVE  IInv'
  BY <1>3, SendTailStep, TakeLineStep, HostGoneStep, TimeoutStep, CloseStep
  DEF Waiting
<1>4. ASSUME NEW c \in Clients, NEW id \in Ids, NEW kind \in Kinds,
             CallAnew(c, id, kind) \/ Call(c, id, kind)
      PROVE  IInv'
  BY <1>4, CallAnewStep, CallStep
<1>. QED BY <1>1, <1>2, <1>3, <1>4 DEF Next, Polling, Serving

(* The invariant is inductive.                                             *)
THEOREM Inductive == Spec => []IInv
<1>1. Init => IInv
  BY InitIInv
<1>2. IInv /\ [Next]_vars => IInv'
  BY NextIInv
<1>. QED BY <1>1, <1>2, PTL DEF Spec

(* Every variable keeps its type: a poll is under way exactly while a      *)
(* client has its turn, and never passes its budget (transport.py:54-63).  *)
THEOREM TypeCorrect == Spec => []TypeOK
<1>1. IInv => TypeOK
  BY DEF IInv
<1>. QED BY <1>1, Inductive, PTL

(* No request is dispatched twice, whatever raised, closed or timed out    *)
(* meanwhile (transport.py:94-96).                                         *)
THEOREM DispatchedOnce == Spec => []AtMostOnce
<1>1. IInv => AtMostOnce
  BY DEF IInv, History, AtMostOnce
<1>. QED BY <1>1, Inductive, PTL

(* A call returns only by taking a line from its own connection.           *)
LEMMA Returns ==
  ASSUME IInv, [Next]_vars, NEW c \in Clients, call'[c] # call[c],
         outcome' \in {"answered", "mismatch"}
  PROVE  /\ TakeLine(c) /\ call[c] \in Ids
         /\ sock[c] \in Links /\ link[sock[c]].s2c # <<>>
         /\ Head(link[sock[c]].s2c) \in Answer
         /\ outcome' = "answered" <=> Head(link[sock[c]].s2c).id = call[c]
         /\ 1 \in DOMAIN Replies(link[sock[c]])
         /\ Replies(link[sock[c]])[1] = Head(link[sock[c]].s2c)
<1>1. call \in [Clients -> Ids \cup {None}]
  BY DEF IInv, TypeOK
<1>2. call' # call
  OBVIOUS
<1>3. PICK d \in Clients : TakeLine(d)
  <2>1. ~UNCHANGED vars
    BY <1>2 DEF vars, client
  <2>2. ASSUME Serving \/ Dispatch \/ DispatchRaises
        PROVE  outcome' = "none"
    BY <2>2 DEF Serving, Poll, HangUp, TooLarge, Receive, RejectLine,
                FinishTurn, Start, Stop, Dispatch, DispatchRaises
  <2>3. ASSUME NEW d \in Clients, SendTail(d) \/ HostGone(d) \/ Timeout(d)
                                    \/ Close(d)
        PROVE  outcome' \notin {"answered", "mismatch"}
    BY <2>3 DEF SendTail, HostGone, Timeout, Close, Ends
  <2>4. ASSUME NEW d \in Clients, NEW id \in Ids, NEW kind \in Kinds,
               CallAnew(d, id, kind) \/ Call(d, id, kind)
        PROVE  outcome' = "none"
    BY <2>4 DEF CallAnew, Call, Begins
  <2>. QED
    BY <2>1, <2>2, <2>3, <2>4 DEF Next, Polling, Serving, Waiting
<1>4. /\ call' = [call EXCEPT ![d] = None] /\ call[d] # None
      /\ link[sock[d]].s2c # <<>>
      /\ outcome' = IF Head(link[sock[d]].s2c).id = call[d]
                      THEN "answered" ELSE "mismatch"
  BY <1>3 DEF TakeLine, Ends, Matches
<1>5. d = c
  BY <1>1, <1>4
<1>6. call[c] \in Ids /\ sock[c] # None
  BY <1>1, <1>4, <1>5 DEF IInv, ClientInv
<1>7. PICK l \in LinkType : l = link[sock[c]] /\ sock[c] \in Links
  BY <1>6, OwnLink
<1>8. PICK s \in Seq(Answer) : s = l.s2c
  BY LinkFields
<1>9. s # <<>> /\ l.send \in Seq(Answer)
  BY <1>4, <1>5, <1>7, <1>8, LinkFields
<1>10. Head(s) \in Answer /\ Head(s) = s[1] /\ 1 \in DOMAIN s
  BY <1>9, HeadTailProperties
<1>11. 1 \in DOMAIN Replies(l) /\ Replies(l)[1] = s[1]
  <2>1. PICK t \in Seq(Answer) : t = l.send
    BY <1>9
  <2>2. \A i \in DOMAIN s : i \in DOMAIN (s \o t) /\ (s \o t)[i] = s[i]
    BY FirstPart
  <2>. QED BY <1>8, <1>10, <2>1, <2>2 DEF Replies
<1>. QED BY <1>3, <1>4, <1>5, <1>6, <1>7, <1>8, <1>9, <1>10, <1>11

(* A call that returns, returns the answer made for its own request, which *)
(* was dispatched exactly once (client.py:55-57).                          *)
THEOREM ReturnsOwnAnswer == Spec => OwnAnswer
<1>1. ASSUME IInv, [Next]_vars, NEW c \in Clients, call'[c] # call[c],
             outcome' = "answered"
      PROVE  /\ Head(link[sock[c]].s2c).made = call[c]
             /\ executed[call[c]] = 1
  <2>1. PICK l : l = link[sock[c]]
    OBVIOUS
  <2>2. PICK a : a = Head(l.s2c)
    OBVIOUS
  <2>3. /\ sock[c] \in Links /\ call[c] \in Ids
        /\ a.id = call[c] /\ 1 \in DOMAIN Replies(l) /\ Replies(l)[1] = a
    BY <1>1, <2>1, <2>2, Returns
  <2>4. Named(Replies(l))
    BY <1>1, <2>1, <2>3 DEF IInv, LinkInv
  <2>5. a.id # "invalid" /\ a.made = call[c]
    BY <2>3, <2>4, IdsAssumption DEF Named
  <2>6. call[c] \in Replied(Replies(l))
    BY <2>3, <2>5 DEF Replied
  <2>7. executed[call[c]] = 1
    BY <1>1, <2>1, <2>3, <2>6 DEF IInv, History
  <2>. QED BY <2>1, <2>2, <2>5, <2>7
<1>2. IInv /\ [Next]_vars =>
        [\A c \in Clients :
           call'[c] # call[c] /\ outcome' = "answered" =>
             /\ Head(link[sock[c]].s2c).made = call[c]
             /\ executed[call[c]] = 1]_vars
  BY <1>1
<1>. QED BY <1>2, Inductive, PTL DEF Spec, OwnAnswer

(* A call fails with RESPONSE_MISMATCH only after a call on its connection *)
(* timed out, or when the transport could not tell which request it was    *)
(* answering (client.py:56-57).                                            *)
THEOREM MismatchesExplained == Spec => MismatchExplained
<1>1. ASSUME IInv, [Next]_vars, NEW c \in Clients, call'[c] # call[c],
             outcome' = "mismatch"
      PROVE  link[sock[c]].late \/ Head(link[sock[c]].s2c).id = "invalid"
  <2>1. PICK l : l = link[sock[c]]
    OBVIOUS
  <2>2. PICK a : a = Head(l.s2c)
    OBVIOUS
  <2>3. /\ sock[c] \in Links /\ call[c] \in Ids
        /\ a.id # call[c] /\ 1 \in DOMAIN Replies(l) /\ Replies(l)[1] = a
    BY <1>1, <2>1, <2>2, Returns
  <2>4. Named(Replies(l)) /\ Timely(l, call[c])
    <3>1. sock[c] # None
      BY <2>3, NoneAssumption
    <3>. QED BY <1>1, <2>1, <2>3, <3>1 DEF IInv, LinkInv, ClientInv
  <2>5. ~l.late => a.id = "invalid" \/ a.made = call[c]
    BY <2>3, <2>4 DEF Timely
  <2>6. a.id = "invalid" \/ a.id = a.made
    BY <2>3, <2>4 DEF Named
  <2>. QED BY <2>1, <2>2, <2>3, <2>5, <2>6
<1>2. IInv /\ [Next]_vars =>
        [\A c \in Clients :
           call'[c] # call[c] /\ outcome' = "mismatch" =>
             link[sock[c]].late \/ Head(link[sock[c]].s2c).id = "invalid"]_vars
  BY <1>1
<1>. QED BY <1>2, Inductive, PTL DEF Spec, MismatchExplained
=============================================================================
