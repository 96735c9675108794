------------------------ MODULE BlenderTransportOrder ------------------------
(***************************************************************************)
(* Theorems about the order of the requests under way in BlenderTransport. *)
(* When requests are small and dispatch always answers, the requests of a  *)
(* connection are one queue through all its buffers, and a client that is  *)
(* late stays late.  In general requests may be lost from the queue, or    *)
(* answered for their head and once more, but two that are under way never *)
(* change places.                                                          *)
(***************************************************************************)
EXTENDS BlenderTransportProofs

(* What the runs about the order assume: with a large request, or one      *)
(* whose dispatch raised, the queue is not kept.                           *)
Plain == Kinds \subseteq {"small"} /\ ~Escapes

-----------------------------------------------------------------------------
(* The inductive invariant: every piece is a line; a connection carries a  *)
(* request for the call under way and, once late, one more in front of it. *)
AllLines(q) == \A i \in DOMAIN q : q[i].part = "line"
Flow(l) == Made(Replies(l)) \o Asked(Arrived(l))

Behindhand(l, id) ==
  /\ l.server => /\ id # None => Len(Flow(l)) >= 1
                 /\ l.late => Len(Flow(l)) >= 1
                 /\ id # None /\ l.late => Len(Flow(l)) >= 2
  /\ l.late /\ Flow(l) # <<>> => Head(Flow(l)) # id

PlainInv ==
  /\ unsent = {}
  /\ \A k \in Links : AllLines(Arrived(link[k]))
  /\ \A c \in Clients : sock[c] # None => Behindhand(link[sock[c]], call[c])

-----------------------------------------------------------------------------
(* The requests of a queue, in order.                                      *)
LEMMA MadeFacts ==
  ASSUME NEW w \in Seq(Answer)
  PROVE  /\ Made(w) \in Seq(Ids) /\ Len(Made(w)) = Len(w)
         /\ \A i \in 1..Len(w) : Made(w)[i] = w[i].made
<1>1. DOMAIN w = 1..Len(w) /\ Len(w) \in Nat
  OBVIOUS
<1>2. \A i \in DOMAIN w : w[i] \in Answer
  OBVIOUS
<1>3. \A i \in DOMAIN w : w[i].made \in Ids
  BY <1>2 DEF Answer
<1>. QED BY <1>1, <1>3 DEF Made

LEMMA AskedFacts ==
  ASSUME NEW q \in Seq(Pieces)
  PROVE  /\ Asked(q) \in Seq(Ids) /\ Len(Asked(q)) = Len(q)
         /\ \A i \in 1..Len(q) : Asked(q)[i] = q[i].id
<1>1. DOMAIN q = 1..Len(q) /\ Len(q) \in Nat
  OBVIOUS
<1>2. \A i \in DOMAIN q : q[i] \in Pieces
  OBVIOUS
<1>3. \A i \in DOMAIN q : q[i].id \in Ids
  BY <1>2 DEF Pieces
<1>. QED BY <1>1, <1>3 DEF Asked

LEMMA MadeAppended ==
  ASSUME NEW w \in Seq(Answer), NEW a \in Answer
  PROVE  Made(Append(w, a)) = Append(Made(w), a.made)
<1>1. PICK v \in Seq(Answer) : v = Append(w, a)
  <2>1. Append(w, a) \in Seq(Answer)
    BY AppendProperties
  <2>. QED BY <2>1
<1>2. /\ Len(v) = Len(w) + 1 /\ Len(w) \in Nat /\ v[Len(w) + 1] = a
      /\ \A i \in 1..Len(w) : v[i] = w[i]
  BY <1>1
<1>3. /\ Made(v) \in Seq(Ids) /\ Len(Made(v)) = Len(v)
      /\ \A i \in 1..Len(v) : Made(v)[i] = v[i].made
  BY MadeFacts
<1>4. /\ Made(w) \in Seq(Ids) /\ Len(Made(w)) = Len(w)
      /\ \A i \in 1..Len(w) : Made(w)[i] = w[i].made
  BY MadeFacts
<1>5. a.made \in Ids
  BY DEF Answer
<1>6. PICK s \in Seq(Ids) : s = Append(Made(w), a.made)
  BY <1>4, <1>5, AppendProperties
<1>7. /\ Len(s) = Len(w) + 1 /\ s[Len(w) + 1] = a.made
      /\ \A i \in 1..Len(w) : s[i] = Made(w)[i]
  BY <1>4, <1>5, <1>6, AppendProperties
<1>8. ASSUME NEW i \in 1..Len(s)
      PROVE  Made(v)[i] = s[i]
  <2>1. i \in 1..Len(v) /\ (i \in 1..Len(w) \/ i = Len(w) + 1)
    BY <1>2, <1>7
  <2>. QED BY <1>2, <1>3, <1>4, <1>7, <2>1
<1>9. Made(v) = s
  BY <1>2, <1>3, <1>7, <1>8, SeqEqual
<1>. QED BY <1>1, <1>6, <1>9

LEMMA AskedAppended ==
  ASSUME NEW q \in Seq(Pieces), NEW p \in Pieces
  PROVE  Asked(Append(q, p)) = Append(Asked(q), p.id)
<1>1. PICK v \in Seq(Pieces) : v = Append(q, p)
  <2>1. Append(q, p) \in Seq(Pieces)
    BY AppendProperties
  <2>. QED BY <2>1
<1>2. /\ Len(v) = Len(q) + 1 /\ Len(q) \in Nat /\ v[Len(q) + 1] = p
      /\ \A i \in 1..Len(q) : v[i] = q[i]
  BY <1>1
<1>3. /\ Asked(v) \in Seq(Ids) /\ Len(Asked(v)) = Len(v)
      /\ \A i \in 1..Len(v) : Asked(v)[i] = v[i].id
  BY AskedFacts
<1>4. /\ Asked(q) \in Seq(Ids) /\ Len(Asked(q)) = Len(q)
      /\ \A i \in 1..Len(q) : Asked(q)[i] = q[i].id
  BY AskedFacts
<1>5. p.id \in Ids
  BY DEF Pieces
<1>6. PICK s \in Seq(Ids) : s = Append(Asked(q), p.id)
  BY <1>4, <1>5, AppendProperties
<1>7. /\ Len(s) = Len(q) + 1 /\ s[Len(q) + 1] = p.id
      /\ \A i \in 1..Len(q) : s[i] = Asked(q)[i]
  BY <1>4, <1>5, <1>6, AppendProperties
<1>8. ASSUME NEW i \in 1..Len(s)
      PROVE  Asked(v)[i] = s[i]
  <2>1. i \in 1..Len(v) /\ (i \in 1..Len(q) \/ i = Len(q) + 1)
    BY <1>2, <1>7
  <2>. QED BY <1>2, <1>3, <1>4, <1>7, <2>1
<1>9. Asked(v) = s
  BY <1>2, <1>3, <1>7, <1>8, SeqEqual
<1>. QED BY <1>1, <1>6, <1>9

LEMMA MadeTail ==
  ASSUME NEW w \in Seq(Answer), w # <<>>
  PROVE  /\ Made(Tail(w)) = Tail(Made(w))
         /\ Made(w) # <<>> /\ Head(Made(w)) = w[1].made
<1>1. PICK v \in Seq(Answer) : v = Tail(w)
  BY HeadTailProperties
<1>2. /\ Len(v) = Len(w) - 1 /\ Len(w) \in Nat \ {0}
      /\ \A i \in 1..Len(v) : v[i] = w[i + 1]
  BY <1>1, HeadTailProperties
<1>3. /\ Made(v) \in Seq(Ids) /\ Len(Made(v)) = Len(v)
      /\ \A i \in 1..Len(v) : Made(v)[i] = v[i].made
  BY MadeFacts
<1>4. /\ Made(w) \in Seq(Ids) /\ Len(Made(w)) = Len(w)
      /\ \A i \in 1..Len(w) : Made(w)[i] = w[i].made
  BY MadeFacts
<1>5. Made(w) # <<>>
  BY <1>2, <1>4
<1>6. /\ Head(Made(w)) = Made(w)[1]
      /\ Tail(Made(w)) \in Seq(Ids) /\ Len(Tail(Made(w))) = Len(w) - 1
      /\ \A i \in 1..Len(Tail(Made(w))) : Tail(Made(w))[i] = Made(w)[i + 1]
  BY <1>4, <1>5, HeadTailProperties
<1>7. PICK s \in Seq(Ids) : s = Tail(Made(w))
  BY <1>6
<1>8. ASSUME NEW i \in 1..Len(s)
      PROVE  Made(v)[i] = s[i]
  <2>1. i \in 1..Len(v) /\ i + 1 \in 1..Len(w)
    BY <1>2, <1>6, <1>7
  <2>. QED BY <1>2, <1>3, <1>4, <1>6, <1>7, <2>1
<1>9. Made(v) = s
  BY <1>2, <1>3, <1>6, <1>7, <1>8, SeqEqual
<1>10. Head(Made(w)) = w[1].made
  BY <1>2, <1>4, <1>6
<1>. QED BY <1>1, <1>5, <1>7, <1>9, <1>10

LEMMA AskedTail ==
  ASSUME NEW q \in Seq(Pieces), q # <<>>, NEW v \in Seq(Pieces),
         Len(v) = Len(q) - 1, \A i \in 1..Len(q) - 1 : v[i] = q[i + 1]
  PROVE  /\ Asked(v) = Tail(Asked(q))
         /\ Asked(q) # <<>> /\ Head(Asked(q)) = q[1].id
<1>1. /\ Len(v) = Len(q) - 1 /\ Len(q) \in Nat \ {0}
      /\ \A i \in 1..Len(v) : v[i] = q[i + 1]
  BY EmptySeq
<1>3. /\ Asked(v) \in Seq(Ids) /\ Len(Asked(v)) = Len(v)
      /\ \A i \in 1..Len(v) : Asked(v)[i] = v[i].id
  BY AskedFacts
<1>4. /\ Asked(q) \in Seq(Ids) /\ Len(Asked(q)) = Len(q)
      /\ \A i \in 1..Len(q) : Asked(q)[i] = q[i].id
  BY AskedFacts
<1>5. Asked(q) # <<>>
  BY <1>1, <1>4
<1>6. /\ Head(Asked(q)) = Asked(q)[1]
      /\ Tail(Asked(q)) \in Seq(Ids) /\ Len(Tail(Asked(q))) = Len(q) - 1
      /\ \A i \in 1..Len(Tail(Asked(q))) : Tail(Asked(q))[i] = Asked(q)[i + 1]
  BY <1>4, <1>5, HeadTailProperties
<1>7. PICK s \in Seq(Ids) : s = Tail(Asked(q))
  BY <1>6
<1>8. ASSUME NEW i \in 1..Len(s)
      PROVE  Asked(v)[i] = s[i]
  <2>1. i \in 1..Len(v) /\ i + 1 \in 1..Len(q)
    BY <1>1, <1>6, <1>7
  <2>. QED BY <1>1, <1>3, <1>4, <1>6, <1>7, <2>1
<1>9. Asked(v) = s
  BY <1>1, <1>3, <1>6, <1>7, <1>8, SeqEqual
<1>10. Head(Asked(q)) = q[1].id
  BY <1>1, <1>4, <1>6
<1>. QED BY <1>5, <1>7, <1>9, <1>10

-----------------------------------------------------------------------------
(* The queue of a connection.                                              *)
LEMMA FlowFacts ==
  ASSUME NEW l \in LinkType
  PROVE  /\ Flow(l) \in Seq(Ids)
         /\ Len(Flow(l)) = Len(Replies(l)) + Len(Arrived(l))
         /\ Len(Flow(l)) \in Nat
<1>1. Arrived(l) \in Seq(Pieces) /\ Replies(l) \in Seq(Answer)
  BY LinkQueues
<1>2. /\ Made(Replies(l)) \in Seq(Ids)
      /\ Len(Made(Replies(l))) = Len(Replies(l))
  BY <1>1, MadeFacts
<1>3. /\ Asked(Arrived(l)) \in Seq(Ids)
      /\ Len(Asked(Arrived(l))) = Len(Arrived(l))
  BY <1>1, AskedFacts
<1>4. /\ Flow(l) \in Seq(Ids)
      /\ Len(Flow(l)) = Len(Made(Replies(l))) + Len(Asked(Arrived(l)))
  BY <1>2, <1>3, ConcatProperties DEF Flow
<1>. QED BY <1>2, <1>3, <1>4, LenProperties

(* An answer that waits is first in the queue.                             *)
LEMMA FlowHead ==
  ASSUME NEW l \in LinkType, Replies(l) # <<>>
  PROVE  Flow(l) # <<>> /\ Head(Flow(l)) = Replies(l)[1].made
<1>1. Arrived(l) \in Seq(Pieces) /\ Replies(l) \in Seq(Answer)
  BY LinkQueues
<1>2. PICK s \in Seq(Ids) : s = Made(Replies(l))
  BY <1>1, MadeFacts
<1>3. PICK t \in Seq(Ids) : t = Asked(Arrived(l))
  BY <1>1, AskedFacts
<1>4. s # <<>> /\ Head(s) = Replies(l)[1].made
  BY <1>1, <1>2, MadeTail
<1>5. s \o t # <<>> /\ Head(s \o t) = Head(s)
  <2>1. /\ s \o t \in Seq(Ids) /\ Len(s \o t) = Len(s) + Len(t)
        /\ Len(s) \in Nat /\ Len(t) \in Nat
        /\ \A i \in 1..Len(s) : (s \o t)[i] = s[i]
    BY Joined
  <2>2. Len(s) # 0 /\ Head(s) = s[1] /\ 1 \in 1..Len(s)
    BY <1>4, <2>1, EmptySeq, HeadTailProperties
  <2>3. s \o t # <<>>
    BY <1>4, TailJoined
  <2>4. Head(s \o t) = (s \o t)[1]
    BY <2>1, <2>3, HeadTailProperties
  <2>. QED BY <2>1, <2>2, <2>3, <2>4
<1>. QED BY <1>2, <1>3, <1>4, <1>5 DEF Flow

(* What a step of the server does to the queue of a connection.            *)
Flows(l, m) ==
  /\ AllLines(Arrived(m))
  /\ m.client =>
       /\ m.late = l.late
       /\ m.server => l.server /\ Flow(m) = Flow(l)
       /\ Flow(m) # <<>> => Flow(l) # <<>> /\ Head(Flow(m)) = Head(Flow(l))

LEMMA SameFlows ==
  ASSUME NEW l \in LinkType, AllLines(Arrived(l)), NEW m,
         m.server = l.server, m.late = l.late,
         Arrived(m) = Arrived(l), Replies(m) = Replies(l)
  PROVE  Flows(l, m) /\ Flow(m) = Flow(l)
BY DEF Flows, Flow

LEMMA CloseFlows ==
  ASSUME NEW l \in LinkType, NEW m \in ServerCloses(l)
  PROVE  Flows(l, m)
<1>1. /\ m \in LinkType /\ m.server = FALSE
      /\ m.recv = <<>> /\ m.c2s = <<>> /\ m.send = <<>>
      /\ m.s2c = l.s2c \/ m.s2c = <<>>
      /\ m.client => m.late = l.late
  BY ServerClosesFacts
<1>2. /\ l.s2c \in Seq(Answer) /\ l.send \in Seq(Answer)
      /\ m.s2c \in Seq(Answer)
  BY <1>1, LinkFields
<1>3. Arrived(m) = <<>> /\ Replies(m) = m.s2c
  BY <1>1, <1>2, WithEmpty, EmptyTypes DEF Arrived, Replies
<1>4. ASSUME Flow(m) # <<>>
      PROVE  Flow(l) # <<>> /\ Head(Flow(m)) = Head(Flow(l))
  <2>1. m.s2c # <<>>
    <3>1. ASSUME m.s2c = <<>> PROVE FALSE
      <4>1. Len(Flow(m)) = 0
        BY <1>1, <1>3, <3>1, FlowFacts
      <4>. QED BY <1>1, <1>4, <4>1, FlowFacts, EmptySeq
    <3>. QED BY <3>1
  <2>2. m.s2c = l.s2c /\ l.s2c # <<>>
    BY <1>1, <2>1
  <2>3. Replies(l) # <<>> /\ Replies(l)[1] = l.s2c[1]
    <3>1. PICK s \in Seq(Answer), t \in Seq(Answer) : s = l.s2c /\ t = l.send
      BY <1>2
    <3>2. 1 \in DOMAIN s /\ s # <<>>
      BY <2>2, <3>1
    <3>3. (s \o t)[1] = s[1] /\ s \o t # <<>>
      BY <3>2, FirstPart, TailJoined
    <3>. QED BY <3>1, <3>3 DEF Replies
  <2>4. Flow(l) # <<>> /\ Head(Flow(l)) = l.s2c[1].made
    BY <2>3, FlowHead
  <2>5. Head(Flow(m)) = m.s2c[1].made
    BY <1>1, <1>3, <2>1, FlowHead
  <2>. QED BY <2>2, <2>4, <2>5
<1>5. AllLines(Arrived(m))
  BY <1>3 DEF AllLines
<1>. QED BY <1>1, <1>4, <1>5 DEF Flows

(* All that is buffered are lines: the first piece ends the first of them. *)
LEMMA FirstIsLine ==
  ASSUME NEW l \in LinkType, AllLines(Arrived(l))
  PROVE  /\ HasLine(l.recv) => LineEnd(l.recv) = 1
         /\ \A n \in DOMAIN l.c2s : ~Overflows(Read(l, n))
<1>1. l.recv \in Seq(Pieces) /\ l.c2s \in Seq(Pieces)
  BY LinkFields
<1>2. ASSUME HasLine(l.recv)
      PROVE  LineEnd(l.recv) = 1
  <2>1. /\ LineEnd(l.recv) \in 1..Len(l.recv)
        /\ \A i \in 1 .. LineEnd(l.recv) - 1 : l.recv[i].part = "head"
    BY <1>1, <1>2, LineEndIsFirst
  <2>2. /\ 1 \in DOMAIN l.recv => 1 \in DOMAIN Arrived(l)
        /\ 1 \in DOMAIN l.recv => Arrived(l)[1] = l.recv[1]
    <3>1. PICK s \in Seq(Pieces), t \in Seq(Pieces) : s = l.recv /\ t = l.c2s
      BY <1>1
    <3>2. \A i \in DOMAIN s : i \in DOMAIN (s \o t) /\ (s \o t)[i] = s[i]
      BY FirstPart
    <3>. QED BY <3>1, <3>2 DEF Arrived
  <2>3. Len(l.recv) \in Nat /\ DOMAIN l.recv = 1..Len(l.recv)
    BY <1>1
  <2>4. 1 \in DOMAIN l.recv
    BY <2>1, <2>3
  <2>5. l.recv[1].part # "head"
    BY <2>2, <2>4 DEF AllLines
  <2>6. ~(1 \in 1 .. LineEnd(l.recv) - 1)
    BY <2>1, <2>5
  <2>. QED BY <2>1, <2>3, <2>6
<1>3. ASSUME NEW n \in DOMAIN l.c2s, Overflows(Read(l, n))
      PROVE  FALSE
  <2>. DEFINE first == SubSeq(l.c2s, 1, n)
              rest == SubSeq(l.c2s, n + 1, Len(l.c2s))
  <2>1. n \in 0..Len(l.c2s)
    BY <1>1
  <2>2. /\ first \in Seq(Pieces) /\ rest \in Seq(Pieces)
        /\ first \o rest = l.c2s
    BY <1>1, <2>1, CutInTwo, Remaining
  <2>. HIDE DEF first, rest
  <2>3. (l.recv \o first) \o rest = Arrived(l)
    <3>1. (l.recv \o first) \o rest = l.recv \o (first \o rest)
      BY <1>1, <2>2, Regrouped
    <3>. QED BY <2>2, <3>1 DEF Arrived
  <2>4. PICK r \in Seq(Pieces) : r = l.recv \o first /\ r = Read(l, n)
    <3>1. l.recv \o first \in Seq(Pieces)
      BY <1>1, <2>2, ConcatProperties
    <3>. QED BY <3>1 DEF Read, first
  <2>5. r # <<>> /\ ~HasLine(r)
    BY <1>3, <2>4 DEF Overflows
  <2>6. 1 \in DOMAIN r
    BY <2>5
  <2>7. 1 \in DOMAIN (r \o rest) /\ (r \o rest)[1] = r[1]
    BY <2>2, <2>6, FirstPart
  <2>8. r[1].part = "line"
    BY <2>3, <2>4, <2>7 DEF AllLines
  <2>. QED BY <2>5, <2>6, <2>8 DEF HasLine, LineEnds
<1>. QED BY <1>2, <1>3

(* A dispatched request stays where it was in the queue.                   *)
LEMMA DispatchFlows ==
  ASSUME NEW l \in LinkType, LinkInv(l), AllLines(Arrived(l)),
         HasLine(l.recv), LineEnd(l.recv) = 1,
         NEW m, m = [l EXCEPT !.recv = Consumed(@),
                              !.send = Append(@, Reply(l.recv[1].id))]
  PROVE  Flows(l, m) /\ Flow(m) = Flow(l)
<1>. DEFINE a == Reply(l.recv[1].id)
<1>1. PICK r : r = Consumed(l.recv) \o l.c2s
  OBVIOUS
<1>2. PICK q \in Seq(Pieces), w \in Seq(Answer) :
        q = Arrived(l) /\ w = Replies(l)
  BY LinkQueues
<1>3. /\ 1 \in 1..Len(q) /\ l.recv[1] = q[1] /\ l.recv[1] \in Pieces
      /\ r \in Seq(Pieces) /\ Len(r) = Len(q) - 1
      /\ Consumed(l.recv) \in Seq(Pieces)
  BY ZenonT(60), <1>1, <1>2, LineTaken
<1>4. \A i \in 1..Len(q) - 1 : r[i] = q[i + 1]
  <2>1. l.recv \in Seq(Pieces) /\ l.c2s \in Seq(Pieces)
    BY LinkFields
  <2>2. 1 \in 1..Len(l.recv)
    BY LineTaken
  <2>3. 1 \in 0..Len(l.recv) /\ 1 \in 0..Len(q)
    BY <1>3, <2>2
  <2>4. r = SubSeq(q, 1 + 1, Len(q))
    BY <1>1, <1>2, <2>1, <2>3, CutBefore DEF Arrived, Consumed
  <2>. QED BY <2>3, <2>4, Remaining
<1>5. a \in Answer /\ a.made = q[1].id
  BY <1>3 DEF Answer, Reply, Pieces
<1>. HIDE DEF a
<1>6. /\ m.client = l.client /\ m.server = l.server /\ m.late = l.late
      /\ Arrived(m) = r /\ Replies(m) = Append(w, a)
  <2>1. l.s2c \in Seq(Answer) /\ l.send \in Seq(Answer)
    BY LinkFields
  <2>2. l.s2c \o Append(l.send, a) = Append(l.s2c \o l.send, a)
    BY <1>5, <2>1, AppendsJoined
  <2>3. /\ m.client = l.client /\ m.server = l.server /\ m.late = l.late
        /\ m.s2c = l.s2c /\ m.recv = Consumed(l.recv) /\ m.c2s = l.c2s
        /\ m.send = Append(l.send, a)
    BY DEF LinkType, a
  <2>. QED BY <1>1, <1>2, <2>2, <2>3 DEF Arrived, Replies
<1>7. PICK t \in Seq(Ids) : t = Asked(q)
  BY AskedFacts
<1>8. q # <<>>
  BY <1>3
<1>9. Asked(r) = Tail(t) /\ t # <<>> /\ Head(t) = q[1].id
  BY <1>3, <1>4, <1>7, <1>8, AskedTail
<1>10. PICK s \in Seq(Ids) : s = Made(w)
  BY MadeFacts
<1>11. Made(Append(w, a)) = Append(s, Head(t))
  BY <1>5, <1>9, <1>10, MadeAppended
<1>12. Append(s, Head(t)) \o Tail(t) = s \o t
  BY <1>9, HeadMoves
<1>13. Flow(m) = Flow(l)
  BY <1>2, <1>6, <1>7, <1>9, <1>10, <1>11, <1>12 DEF Flow
<1>14. AllLines(Arrived(m))
  <2>1. AllLines(q) /\ DOMAIN q = 1..Len(q) /\ Len(q) \in Nat
        /\ DOMAIN r = 1..Len(r)
    BY <1>2, <1>3
  <2>2. ASSUME NEW i \in DOMAIN r PROVE r[i].part = "line"
    <3>1. i \in 1..Len(q) - 1 /\ i + 1 \in DOMAIN q
      BY <1>3, <2>1
    <3>. QED BY <1>4, <2>1, <3>1 DEF AllLines
  <2>. QED BY <1>6, <2>2 DEF AllLines
<1>. QED BY <1>6, <1>13, <1>14 DEF Flows

-----------------------------------------------------------------------------
(* The steps of the server.                                                *)
PlainServer ==
  /\ Plain /\ IInv /\ \A k \in Links : AllLines(Arrived(link[k]))

LEMMA OneLinkFlows ==
  ASSUME PlainServer, NEW k \in Links, NEW m,
         link' = [link EXCEPT ![k] = m], Flows(link[k], m)
  PROVE  \A j \in Links : Flows(link[j], link'[j])
<1>1. link \in [Links -> LinkType]
  BY DEF PlainServer, IInv, TypeOK
<1>2. link'[k] = m /\ \A j \in Links \ {k} : link'[j] = link[j]
  BY <1>1
<1>3. \A j \in Links \ {k} : Flows(link[j], link[j])
  BY <1>1, SameFlows DEF PlainServer
<1>. QED BY <1>2, <1>3

LEMMA ServerFlows ==
  ASSUME PlainServer, Serving \/ Dispatch \/ DispatchRaises
  PROVE  \A k \in Links : Flows(link[k], link'[k])
<1>. DEFINE l == link[Served]
<1>1. LinksOK /\ link \in [Links -> LinkType]
  BY DEF PlainServer, IInv, LinksOK, TypeOK
<1>2. stage # "idle" => /\ Served \in Links /\ l \in LinkType /\ LinkInv(l)
                        /\ AllLines(Arrived(l))
                        /\ HasLine(l.recv) => LineEnd(l.recv) = 1
                        /\ \A n \in DOMAIN l.c2s : ~Overflows(Read(l, n))
  <2>1. stage # "idle" => Served \in Links /\ l \in LinkType /\ LinkInv(l)
    BY <1>1, ServedIsLink
  <2>. QED BY <2>1, FirstIsLine DEF PlainServer
<1>3. CASE UNCHANGED link
  BY <1>1, <1>3, SameFlows DEF PlainServer
<1>4. CASE HangUp
  <2>1. /\ stage # "idle"
        /\ \E m \in ServerCloses(l) : link' = [link EXCEPT ![Served] = m]
    BY <1>4 DEF HangUp
  <2>2. PICK m \in ServerCloses(l) : link' = [link EXCEPT ![Served] = m]
    BY <2>1
  <2>3. Flows(l, m)
    BY <1>2, <2>1, CloseFlows
  <2>. QED BY <1>2, <2>1, <2>2, <2>3, OneLinkFlows
<1>5. CASE TooLarge
  <2>1. stage # "idle" /\ \E n \in DOMAIN l.c2s : Overflows(Read(l, n))
    BY <1>5 DEF TooLarge, Read
  <2>. QED BY <1>2, <2>1
<1>6. CASE Receive
  <2>1. stage # "idle"
    BY <1>6 DEF Receive
  <2>2. PICK m : m = [l EXCEPT !.recv = Arrived(l), !.c2s = <<>>]
    OBVIOUS
  <2>3. link' = [link EXCEPT ![Served] = m]
    BY <1>1, <1>2, <1>6, <2>1, <2>2 DEF Receive
  <2>4. /\ m.server = l.server /\ m.late = l.late
        /\ m.s2c = l.s2c /\ m.send = l.send
        /\ m.recv = Arrived(l) /\ m.c2s = <<>>
    BY <1>2, <2>1, <2>2 DEF LinkType
  <2>5. Arrived(m) = Arrived(l) /\ Replies(m) = Replies(l)
    <3>1. Arrived(l) \in Seq(Pieces)
      BY <1>2, <2>1, LinkQueues
    <3>2. Arrived(l) \o <<>> = Arrived(l)
      BY <3>1, WithEmpty
    <3>3. Arrived(m) = Arrived(l) \o <<>>
      BY <2>4 DEF Arrived
    <3>. QED BY <2>4, <3>2, <3>3 DEF Replies
  <2>6. Flows(l, m)
    BY <1>2, <2>1, <2>4, <2>5, SameFlows
  <2>. QED BY <1>2, <2>1, <2>3, <2>6, OneLinkFlows
<1>7. CASE Dispatch
  <2>1. stage # "idle" /\ HasLine(l.recv)
    BY <1>7 DEF Dispatch, TakesLine, Buffer
  <2>2. PICK m : m = [l EXCEPT !.recv = Consumed(@),
                               !.send = Append(@, Reply(l.recv[1].id))]
    OBVIOUS
  <2>3. link' = [link EXCEPT ![Served] = m]
    BY <1>1, <1>2, <1>7, <2>1, <2>2 DEF Dispatch, Buffer
  <2>4. Flows(l, m)
    BY <1>2, <2>1, <2>2, DispatchFlows
  <2>. QED BY <1>2, <2>1, <2>3, <2>4, OneLinkFlows
<1>8. CASE DispatchRaises
  BY <1>8 DEF DispatchRaises, PlainServer, Plain
<1>9. CASE RejectLine
  <2>1. /\ stage # "idle" /\ HasLine(l.recv) /\ LineEnd(l.recv) > 1
    BY <1>9 DEF RejectLine, TakesLine, Buffer
  <2>. QED BY <1>2, <2>1
<1>10. CASE FinishTurn
  <2>1. /\ stage # "idle"
        /\ \/ link' = [link EXCEPT ![Served] = Flushed(@)]
           \/ \E m \in ServerCloses(l) : link' = [link EXCEPT ![Served] = m]
    BY <1>10 DEF FinishTurn
  <2>2. CASE link' = [link EXCEPT ![Served] = Flushed(@)]
    <3>1. PICK m : m = Flushed(l)
      OBVIOUS
    <3>2. link' = [link EXCEPT ![Served] = m]
      BY <2>2, <3>1
    <3>3. /\ Replies(m) = Replies(l) /\ Arrived(m) = Arrived(l)
          /\ m.server = l.server /\ m.late = l.late
      BY <1>2, <2>1, <3>1, FlushedFacts DEF LinkInv
    <3>4. Flows(l, m)
      BY <1>2, <2>1, <3>3, SameFlows
    <3>. QED BY <1>2, <2>1, <3>2, <3>4, OneLinkFlows
  <2>3. CASE \E m \in ServerCloses(l) : link' = [link EXCEPT ![Served] = m]
    <3>1. PICK m \in ServerCloses(l) : link' = [link EXCEPT ![Served] = m]
      BY <2>3
    <3>2. Flows(l, m)
      BY <1>2, <2>1, CloseFlows
    <3>. QED BY <1>2, <2>1, <3>1, <3>2, OneLinkFlows
  <2>. QED BY <2>1, <2>2, <2>3
<1>11. CASE Stop
  <2>1. ASSUME NEW k \in Links
        PROVE  Flows(link[k], link'[k])
    <3>1. link'[k] \in ServerCloses(link[k]) /\ link[k] \in LinkType
      BY <1>1, <1>11 DEF Stop
    <3>. QED BY <3>1, CloseFlows
  <2>. QED BY <2>1
<1>. QED
  BY <1>3, <1>4, <1>5, <1>6, <1>7, <1>8, <1>9, <1>10, <1>11
  DEF Serving, Poll, Start

-----------------------------------------------------------------------------
(* The steps of the clients.                                               *)
LEMMA HeadIsId ==
  ASSUME NEW l \in LinkType, Flow(l) # <<>>
  PROVE  Head(Flow(l)) \in Ids
BY FlowFacts, HeadTailProperties

(* A request nothing carries is not in the queue.                          *)
LEMMA FreshNotFirst ==
  ASSUME link \in [Links -> LinkType], NEW id, Fresh(id), NEW k \in Links,
         Flow(link[k]) # <<>>
  PROVE  Head(Flow(link[k])) # id
<1>1. /\ \A i \in DOMAIN Arrived(link[k]) : Arrived(link[k])[i].id # id
      /\ \A i \in DOMAIN Replies(link[k]) : Replies(link[k])[i].made # id
  BY FreshNotCarried
<1>2. PICK q \in Seq(Pieces), w \in Seq(Answer) :
        q = Arrived(link[k]) /\ w = Replies(link[k])
  BY LinkQueues
<1>3. PICK s \in Seq(Ids) : s = Made(w)
  BY MadeFacts
<1>4. PICK t \in Seq(Ids) : t = Asked(q)
  BY AskedFacts
<1>5. /\ DOMAIN s = DOMAIN w /\ \A i \in DOMAIN s : s[i] = w[i].made
      /\ DOMAIN t = DOMAIN q /\ \A i \in DOMAIN t : t[i] = q[i].id
  BY <1>3, <1>4 DEF Made, Asked
<1>6. /\ \A i \in DOMAIN s : s[i] # id
      /\ \A i \in DOMAIN t : t[i] # id
  BY <1>1, <1>2, <1>5
<1>7. PICK f \in Seq(Ids) : f = Flow(link[k]) /\ f = s \o t /\ f # <<>>
  BY <1>2, <1>3, <1>4, FlowFacts DEF Flow
<1>8. 1 \in DOMAIN f /\ Head(f) = f[1]
  BY <1>7
<1>9. f[1] # id
  BY <1>6, <1>7, <1>8, ElementsJoined
<1>. QED BY <1>7, <1>8, <1>9

(* A step may leave the queue of k as it is, and a call may join it at the *)
(* end or take its first.                                                  *)
Keeps(k) ==
  Open(k) /\ Open(k)' =>
    \/ UnderWay(k)' = UnderWay(k)
    \/ \E c \in Clients :
         /\ sock[c] = k /\ call[c] = None /\ call'[c] # None
         /\ UnderWay(k)' = Append(UnderWay(k), call'[c])
    \/ /\ outcome' \in {"answered", "mismatch"}
       /\ UnderWay(k)' = Tail(UnderWay(k))

LEMMA UnderWayIsFlow ==
  \A k : UnderWay(k) = Flow(link[k]) /\ UnderWay(k)' = Flow(link'[k])
BY DEF UnderWay, Flow, Replies, Arrived

(* What is common to a client's steps.                                     *)
PlainMoves(c, k, m, s, id) ==
  /\ link' = [link EXCEPT ![k] = m] /\ AllLines(Arrived(m))
  /\ sock' = [sock EXCEPT ![c] = s] /\ call' = [call EXCEPT ![c] = id]
  /\ unsent' = {}
  /\ \A d \in Clients \ {c} : sock[d] # k
  /\ s # None => s = k /\ Behindhand(m, id)

LEMMA PlainStep ==
  ASSUME IInv, PlainInv, NEW c \in Clients, NEW k \in Links,
         NEW m, NEW s, NEW id,
         PlainMoves(c, k, m, s, id)
  PROVE  /\ PlainInv' /\ link'[k] = m
         /\ \A j \in Links \ {k} : Keeps(j)
<1>1. /\ sock \in [Clients -> Links \cup {None}]
      /\ call \in [Clients -> Ids \cup {None}]
      /\ link \in [Links -> LinkType]
  BY DEF IInv, TypeOK
<1>2. /\ link'[k] = m /\ AllLines(Arrived(m))
      /\ \A j \in Links \ {k} : link'[j] = link[j]
  BY <1>1 DEF PlainMoves
<1>3. /\ sock'[c] = s /\ call'[c] = id /\ unsent' = {}
      /\ \A d \in Clients \ {c} : /\ sock'[d] = sock[d] /\ call'[d] = call[d]
                                  /\ sock[d] # k
      /\ s # None => s = k /\ Behindhand(m, id)
  BY <1>1 DEF PlainMoves
<1>4. \A j \in Links : AllLines(Arrived(link'[j]))
  BY <1>2 DEF PlainInv
<1>5. ASSUME NEW d \in Clients, sock'[d] # None
      PROVE  Behindhand(link'[sock'[d]], call'[d])
  <2>1. CASE d = c
    BY <1>2, <1>3, <1>5, <2>1
  <2>2. CASE d # c
    <3>1. /\ sock'[d] = sock[d] /\ call'[d] = call[d]
          /\ sock[d] \in Links \ {k}
      BY <1>1, <1>3, <1>5, <2>2
    <3>2. Behindhand(link[sock[d]], call[d])
      BY <1>5, <3>1 DEF PlainInv
    <3>. QED BY <1>2, <3>1, <3>2
  <2>. QED BY <2>1, <2>2
<1>6. ASSUME NEW j \in Links \ {k}
      PROVE  UnderWay(j)' = UnderWay(j)
  <2>1. link'[j] = link[j]
    BY <1>2
  <2>. QED BY <2>1 DEF UnderWay
<1>7. PlainInv'
  BY <1>3, <1>4, <1>5 DEF PlainInv
<1>. QED BY <1>2, <1>6, <1>7 DEF Keeps

(* A line joins the queue at its end.                                      *)
LEMMA LineJoins ==
  ASSUME NEW l \in LinkType, LinkInv(l), AllLines(Arrived(l)),
         l.server, NEW p \in Pieces, p.part = "line",
         NEW m, m = Sent(l, p)
  PROVE  /\ m.server = l.server /\ m.late = l.late
         /\ AllLines(Arrived(m)) /\ Flow(m) = Append(Flow(l), p.id)
         /\ Len(Flow(m)) = Len(Flow(l)) + 1 /\ Len(Flow(l)) \in Nat
         /\ Flow(m) # <<>>
         /\ Flow(l) # <<>> => Head(Flow(m)) = Head(Flow(l))
<1>1. m = [l EXCEPT !.c2s = Append(@, p)]
  BY DEF Sent
<1>2. l.c2s \in Seq(Pieces) /\ l.recv \in Seq(Pieces)
  BY LinkFields
<1>3. /\ m.server = l.server /\ m.late = l.late
      /\ m.recv = l.recv /\ m.c2s = Append(l.c2s, p)
      /\ m.s2c = l.s2c /\ m.send = l.send
  BY <1>1 DEF LinkType
<1>4. PICK q \in Seq(Pieces), w \in Seq(Answer) :
        q = Arrived(l) /\ w = Replies(l)
  BY LinkQueues
<1>5. Arrived(m) = Append(q, p) /\ Replies(m) = w
  <2>1. l.recv \o Append(l.c2s, p) = Append(l.recv \o l.c2s, p)
    BY <1>2, AppendsJoined
  <2>. QED BY <1>3, <1>4, <2>1 DEF Arrived, Replies
<1>6. PICK s \in Seq(Ids) : s = Made(w)
  BY MadeFacts
<1>7. PICK t \in Seq(Ids) : t = Asked(q)
  BY AskedFacts
<1>8. PICK i \in Ids : i = p.id
  BY DEF Pieces
<1>9. Asked(Append(q, p)) = Append(t, i)
  BY <1>7, <1>8, AskedAppended
<1>10. s \o Append(t, i) = Append(s \o t, i)
  BY AppendJoined
<1>11. PICK f \in Seq(Ids) : f = Flow(l) /\ f = s \o t
  BY <1>4, <1>6, <1>7, FlowFacts DEF Flow
<1>12. Flow(m) = Append(f, i)
  BY <1>5, <1>6, <1>9, <1>10, <1>11 DEF Flow
<1>13. /\ Len(Append(f, i)) = Len(f) + 1 /\ Len(f) \in Nat
       /\ Append(f, i) # <<>>
       /\ f # <<>> => Head(Append(f, i)) = Head(f)
  <2>1. /\ Append(f, i) \in Seq(Ids) /\ Len(Append(f, i)) = Len(f) + 1
        /\ \A j \in 1..Len(f) : Append(f, i)[j] = f[j]
        /\ Len(f) \in Nat
    BY AppendProperties
  <2>2. Append(f, i) # <<>>
    BY <2>1
  <2>3. ASSUME f # <<>> PROVE Head(Append(f, i)) = Head(f)
    <3>1. 1 \in 1..Len(f)
      BY <2>1, <2>3, EmptySeq
    <3>. QED BY <2>1, <2>2, <2>3, <3>1, HeadTailProperties
  <2>. QED BY <2>1, <2>2, <2>3
<1>14. AllLines(Append(q, p))
  <2>1. \A j \in DOMAIN Append(q, p) :
          \/ j \in DOMAIN q /\ Append(q, p)[j] = q[j]
          \/ Append(q, p)[j] = p
    OBVIOUS
  <2>2. \A j \in DOMAIN q : q[j].part = "line"
    BY <1>4 DEF AllLines
  <2>. QED BY <2>1, <2>2 DEF AllLines
<1>. QED BY <1>3, <1>5, <1>8, <1>11, <1>12, <1>13, <1>14

(* A client's connection, in the order of the queue.                       *)
LEMMA OwnFlow ==
  ASSUME IInv, PlainInv, NEW c \in Clients, sock[c] # None
  PROVE  \E k \in Links, l \in LinkType :
           /\ k = sock[c] /\ l = link[k] /\ LinkInv(l) /\ l.client
           /\ AllLines(Arrived(l)) /\ Behindhand(l, call[c])
           /\ Timely(l, call[c])
           /\ \A d \in Clients \ {c} : sock[d] # k
           /\ sock = [sock EXCEPT ![c] = k]
<1>1. /\ sock[c] \in Links /\ link[sock[c]] \in LinkType
      /\ LinkInv(link[sock[c]]) /\ link[sock[c]].client
      /\ \A d \in Clients \ {c} : sock[d] # sock[c]
      /\ Timely(link[sock[c]], call[c])
      /\ sock = [sock EXCEPT ![c] = sock[c]]
  BY OwnLink
<1>2. /\ AllLines(Arrived(link[sock[c]]))
      /\ Behindhand(link[sock[c]], call[c])
  BY <1>1 DEF PlainInv
<1>. QED BY <1>1, <1>2

LEMMA PlainCall ==
  ASSUME Plain, IInv, PlainInv, NEW c \in Clients, NEW id \in Ids,
         NEW kind \in Kinds, Call(c, id, kind)
  PROVE  PlainInv' /\ \A j \in Links : Keeps(j)
<1>. DEFINE p == FirstPiece(id, kind)
<1>1. /\ sock[c] # None /\ Begins(c, id, kind)
      /\ link' = [link EXCEPT ![sock[c]] = Sent(@, p)]
      /\ UNCHANGED sock
  BY DEF Call
<1>2. /\ p \in Pieces /\ p.id = id /\ p.part = "line"
      /\ call' = [call EXCEPT ![c] = id] /\ call[c] = None /\ Fresh(id)
      /\ unsent' = {}
  <2>1. kind = "small"
    BY DEF Plain
  <2>2. p = [id |-> id, part |-> "line"]
    BY <2>1 DEF FirstPiece
  <2>. QED BY <1>1, <2>1, <2>2 DEF Pieces, Begins, PlainInv
<1>. HIDE DEF p
<1>3. PICK k \in Links, l \in LinkType :
        /\ k = sock[c] /\ l = link[k] /\ LinkInv(l)
        /\ AllLines(Arrived(l)) /\ Behindhand(l, None)
        /\ \A d \in Clients \ {c} : sock[d] # k
        /\ sock = [sock EXCEPT ![c] = k]
  BY <1>1, <1>2, OwnFlow
<1>4. PICK m : m = Sent(l, p) /\ link' = [link EXCEPT ![k] = m]
  BY <1>1, <1>3
<1>5. Flow(l) # <<>> => Head(Flow(l)) # id
  BY <1>2, <1>3, FreshNotFirst DEF IInv, TypeOK
<1>6. /\ AllLines(Arrived(m)) /\ Behindhand(m, id)
      /\ l.server => Flow(m) = Append(Flow(l), id)
  <2>1. CASE l.server
    <3>1. /\ m.server = l.server /\ m.late = l.late
          /\ AllLines(Arrived(m)) /\ Flow(m) = Append(Flow(l), id)
          /\ Len(Flow(m)) = Len(Flow(l)) + 1 /\ Len(Flow(l)) \in Nat
          /\ Flow(l) # <<>> => Head(Flow(m)) = Head(Flow(l))
      <4>1. p \in Pieces /\ p.part = "line"
        BY <1>2
      <4>2. LinkInv(l) /\ AllLines(Arrived(l)) /\ m = Sent(l, p)
        BY <1>3, <1>4
      <4>3. /\ m.server = l.server /\ m.late = l.late
            /\ AllLines(Arrived(m)) /\ Flow(m) = Append(Flow(l), p.id)
            /\ Len(Flow(m)) = Len(Flow(l)) + 1 /\ Len(Flow(l)) \in Nat
            /\ Flow(l) # <<>> => Head(Flow(m)) = Head(Flow(l))
        BY <2>1, <4>1, <4>2, LineJoins
      <4>. QED BY <1>2, <4>3
    <3>2. l.late => Len(Flow(l)) >= 1
      BY <1>3, <2>1 DEF Behindhand
    <3>3. /\ Len(Flow(m)) >= 1
          /\ l.late => Len(Flow(m)) >= 2
      BY <3>1, <3>2
    <3>4. l.late => Flow(l) # <<>>
      BY <3>1, <3>2
    <3>. QED BY <1>5, <3>1, <3>3, <3>4 DEF Behindhand
  <2>2. CASE ~l.server
    <3>1. m = l
      <4>1. m = [l EXCEPT !.c2s = l.c2s]
        BY <1>4, <2>2 DEF Sent
      <4>. QED BY <4>1 DEF LinkType
    <3>. QED BY <1>3, <1>5, <2>2, <3>1 DEF Behindhand
  <2>. QED BY <2>1, <2>2
<1>7. PlainMoves(c, k, m, k, id)
  BY <1>1, <1>2, <1>3, <1>4, <1>6 DEF PlainMoves
<1>8. PlainInv' /\ link'[k] = m /\ \A j \in Links \ {k} : Keeps(j)
  BY <1>7, PlainStep
<1>9. Keeps(k)
  <2>1. Open(k) => l.server
    BY <1>3 DEF Open
  <2>2. call'[c] = id /\ id # None
    BY <1>2, NoneAssumption DEF IInv, TypeOK
  <2>3. UnderWay(k) = Flow(l) /\ UnderWay(k)' = Flow(m)
    BY <1>3, <1>8, UnderWayIsFlow
  <2>. QED BY <1>2, <1>3, <1>6, <2>1, <2>2, <2>3 DEF Keeps
<1>. QED BY <1>8, <1>9

LEMMA PlainCallAnew ==
  ASSUME Plain, IInv, PlainInv, NEW c \in Clients, NEW id \in Ids,
         NEW kind \in Kinds, CallAnew(c, id, kind)
  PROVE  PlainInv' /\ \A j \in Links : Keeps(j)
<1>. DEFINE p == FirstPiece(id, kind)
            l == [NoLink EXCEPT !.client = TRUE, !.server = TRUE]
<1>1. PICK k \in Links :
        /\ link[k] = NoLink
        /\ link' = [link EXCEPT ![k] = Sent(l, p)]
        /\ sock' = [sock EXCEPT ![c] = k]
  BY DEF CallAnew
<1>2. /\ p \in Pieces /\ p.id = id /\ p.part = "line"
      /\ call' = [call EXCEPT ![c] = id]
      /\ unsent' = {}
  <2>1. kind = "small"
    BY DEF Plain
  <2>2. p = [id |-> id, part |-> "line"]
    BY <2>1 DEF FirstPiece
  <2>. QED BY <2>1, <2>2 DEF CallAnew, Pieces, Begins, PlainInv
<1>3. /\ l \in LinkType /\ l.server /\ l.late = FALSE
      /\ l.s2c = <<>> /\ l.recv = <<>> /\ l.c2s = <<>> /\ l.send = <<>>
  BY EmptyTypes DEF NoLink, LinkType
<1>. HIDE DEF p, l
<1>4. Arrived(l) = <<>> /\ Replies(l) = <<>>
  BY <1>3, WithEmpty, EmptyTypes DEF Arrived, Replies
<1>5. LinkInv(l) /\ AllLines(Arrived(l))
  <2>1. Len(l.s2c) <= Capacity
    BY <1>3, LimitAssumption
  <2>2. DOMAIN Arrived(l) = {}
    BY <1>4
  <2>. QED BY <1>3, <1>4, <2>1, <2>2, NoPieces DEF LinkInv, AllLines
<1>6. PICK m : m = Sent(l, p)
  OBVIOUS
<1>7. AllLines(Arrived(m)) /\ Behindhand(m, id)
  <2>1. /\ AllLines(Arrived(m)) /\ m.late = l.late
        /\ Len(Flow(m)) = Len(Flow(l)) + 1 /\ Len(Flow(l)) \in Nat
    BY <1>2, <1>3, <1>5, <1>6, LineJoins
  <2>2. Len(Flow(m)) >= 1
    BY <2>1
  <2>. QED BY <1>3, <2>1, <2>2 DEF Behindhand
<1>8. \A d \in Clients \ {c} : sock[d] # k
  <2>1. \A d \in Clients : sock[d] = k => link[k].client
    BY NoneAssumption, OwnLink
  <2>2. link[k].client = FALSE
    BY <1>1 DEF NoLink
  <2>. QED BY <2>1, <2>2
<1>9. PlainMoves(c, k, m, k, id)
  BY <1>1, <1>2, <1>6, <1>7, <1>8 DEF PlainMoves
<1>10. PlainInv' /\ \A j \in Links \ {k} : Keeps(j)
  BY <1>9, PlainStep
<1>11. ~Open(k)
  BY <1>1 DEF Open, NoLink
<1>. QED BY <1>10, <1>11 DEF Keeps

(* What is common to the calls that end.                                   *)
LEMMA PlainEnding ==
  ASSUME IInv, PlainInv, NEW c \in Clients, NEW how \in Endings, Ends(c, how),
         NEW k, k = sock[c], NEW m, link' = [link EXCEPT ![k] = m],
         AllLines(Arrived(m)), Behindhand(m, None)
  PROVE  PlainInv' /\ link'[k] = m /\ \A j \in Links \ {k} : Keeps(j)
<1>1. /\ sock[c] # None /\ call' = [call EXCEPT ![c] = None]
      /\ sock' = [sock EXCEPT ![c] = k]
  BY Ending
<1>2. k \in Links /\ \A d \in Clients \ {c} : sock[d] # k
  BY <1>1, OwnLink
<1>3. unsent' = {}
  BY DEF Ends, PlainInv
<1>4. PlainMoves(c, k, m, k, None)
  BY <1>1, <1>2, <1>3 DEF PlainMoves
<1>. QED BY <1>2, <1>4, PlainStep

LEMMA PlainTakeLine ==
  ASSUME IInv, PlainInv, NEW c \in Clients, TakeLine(c)
  PROVE  PlainInv' /\ \A j \in Links : Keeps(j)
<1>1. PICK how \in Endings :
        Ends(c, how) /\ how \in {"answered", "mismatch"}
  BY DEF TakeLine, Endings
<1>2. sock[c] # None /\ call[c] \in Ids /\ call[c] # None
  BY <1>1, Ending, NoneAssumption
<1>3. PICK k \in Links, l \in LinkType :
        /\ k = sock[c] /\ l = link[k] /\ LinkInv(l)
        /\ AllLines(Arrived(l)) /\ Behindhand(l, call[c])
  BY <1>2, OwnFlow
<1>4. PICK m : m = [l EXCEPT !.s2c = Tail(@)]
  OBVIOUS
<1>5. l.s2c # <<>> /\ link' = [link EXCEPT ![k] = m]
  BY <1>3, <1>4 DEF TakeLine
<1>6. m \in LinkType /\ Arrived(m) = Arrived(l)
  BY <1>3, <1>4, <1>5, AnswerTaken
<1>7. l.s2c \in Seq(Answer) /\ l.send \in Seq(Answer)
  BY LinkFields
<1>8. /\ m.server = l.server /\ m.late = l.late
      /\ m.s2c = Tail(l.s2c) /\ m.send = l.send
  BY <1>4 DEF LinkType
<1>9. PICK w \in Seq(Answer) : w = Replies(l) /\ w # <<>>
  BY <1>5, <1>7, TailJoined DEF Replies
<1>10. Replies(m) = Tail(w)
  <2>1. Tail(l.s2c) \o l.send = Tail(l.s2c \o l.send)
    BY <1>5, <1>7, TailJoined
  <2>. QED BY <1>8, <1>9, <2>1 DEF Replies
<1>11. PICK s \in Seq(Ids) : s = Made(w) /\ s # <<>> /\ Made(Tail(w)) = Tail(s)
  BY <1>9, MadeFacts, MadeTail
<1>12. PICK t \in Seq(Ids) : t = Asked(Arrived(l))
  BY LinkQueues, AskedFacts
<1>13. Tail(s) \o t = Tail(s \o t) /\ s \o t # <<>> /\ s \o t \in Seq(Ids)
  BY <1>11, TailJoined
<1>14. Flow(m) = Tail(Flow(l)) /\ Flow(l) # <<>> /\ Flow(l) \in Seq(Ids)
  BY <1>6, <1>9, <1>10, <1>11, <1>12, <1>13 DEF Flow
<1>15. Len(Flow(m)) = Len(Flow(l)) - 1 /\ Len(Flow(l)) \in Nat
  BY <1>14, HeadTailProperties
<1>16. Behindhand(m, None)
  <2>1. Flow(m) # <<>> => Head(Flow(m)) # None
    BY <1>6, HeadIsId, NoneAssumption
  <2>2. l.server /\ l.late => Len(Flow(l)) >= 2
    BY <1>2, <1>3 DEF Behindhand
  <2>3. l.server /\ l.late => Len(Flow(m)) >= 1
    BY <1>15, <2>2
  <2>. QED BY <1>8, <2>1, <2>3 DEF Behindhand
<1>17. PlainInv' /\ link'[k] = m /\ \A j \in Links \ {k} : Keeps(j)
  <2>1. AllLines(Arrived(m))
    BY <1>3, <1>6
  <2>. QED BY <1>1, <1>3, <1>5, <1>16, <2>1, PlainEnding
<1>18. Keeps(k)
  <2>1. UnderWay(k) = Flow(l) /\ UnderWay(k)' = Flow(m)
    BY <1>3, <1>17, UnderWayIsFlow
  <2>2. outcome' \in {"answered", "mismatch"}
    BY <1>1 DEF Ends
  <2>. QED BY <1>14, <2>1, <2>2 DEF Keeps
<1>. QED BY <1>17, <1>18

LEMMA PlainHostGone ==
  ASSUME IInv, PlainInv, NEW c \in Clients, HostGone(c)
  PROVE  PlainInv' /\ \A j \in Links : Keeps(j)
<1>1. PICK how \in Endings : Ends(c, how)
  BY DEF HostGone, Endings
<1>2. sock[c] # None
  BY <1>1, Ending
<1>3. PICK k \in Links, l \in LinkType :
        /\ k = sock[c] /\ l = link[k] /\ AllLines(Arrived(l))
  BY <1>2, OwnFlow
<1>4. ~l.server /\ link' = link
  BY <1>3 DEF HostGone
<1>5. Behindhand(l, None)
  BY <1>4, HeadIsId, NoneAssumption DEF Behindhand
<1>6. link' = [link EXCEPT ![k] = l]
  BY <1>3, <1>4 DEF IInv, TypeOK
<1>7. PlainInv' /\ link'[k] = l /\ \A j \in Links \ {k} : Keeps(j)
  BY <1>1, <1>3, <1>5, <1>6, PlainEnding
<1>8. Keeps(k)
  BY <1>3, <1>7, UnderWayIsFlow DEF Keeps
<1>. QED BY <1>7, <1>8

LEMMA PlainTimeout ==
  ASSUME IInv, PlainInv, NEW c \in Clients, Timeout(c)
  PROVE  PlainInv' /\ \A j \in Links : Keeps(j)
<1>1. Ends(c, "timeout") /\ "timeout" \in Endings
  BY DEF Timeout, Endings
<1>2. sock[c] # None /\ call[c] \in Ids /\ call[c] # None
  BY <1>1, Ending, NoneAssumption
<1>3. PICK k \in Links, l \in LinkType :
        /\ k = sock[c] /\ l = link[k] /\ AllLines(Arrived(l))
        /\ Behindhand(l, call[c])
  BY <1>2, OwnFlow
<1>4. PICK m : m = [l EXCEPT !.late = TRUE]
  OBVIOUS
<1>5. link' = [link EXCEPT ![k] = m]
  BY <1>3, <1>4 DEF Timeout
<1>6. /\ m.server = l.server
      /\ m.s2c = l.s2c /\ m.recv = l.recv /\ m.c2s = l.c2s /\ m.send = l.send
  BY <1>4 DEF LinkType
<1>7. Arrived(m) = Arrived(l) /\ Replies(m) = Replies(l)
  BY <1>6 DEF Arrived, Replies
<1>8. Flow(m) = Flow(l)
  BY <1>7 DEF Flow
<1>9. Behindhand(m, None)
  <2>1. Flow(m) # <<>> => Head(Flow(m)) # None
    BY <1>8, HeadIsId, NoneAssumption
  <2>2. l.server => Len(Flow(l)) >= 1
    BY <1>2, <1>3 DEF Behindhand
  <2>. QED BY <1>6, <1>8, <2>1, <2>2 DEF Behindhand
<1>10. PlainInv' /\ link'[k] = m /\ \A j \in Links \ {k} : Keeps(j)
  <2>1. AllLines(Arrived(m))
    BY <1>3, <1>7
  <2>. QED BY <1>1, <1>3, <1>5, <1>9, <2>1, PlainEnding
<1>11. Keeps(k)
  BY <1>3, <1>8, <1>10, UnderWayIsFlow DEF Keeps
<1>. QED BY <1>10, <1>11

LEMMA PlainClose ==
  ASSUME IInv, PlainInv, NEW c \in Clients, Close(c)
  PROVE  PlainInv' /\ \A j \in Links : Keeps(j)
<1>1. /\ sock[c] # None /\ call[c] = None
      /\ sock' = [sock EXCEPT ![c] = None]
      /\ link' = [link EXCEPT ![sock[c]] = ClientCloses(@)]
      /\ UNCHANGED <<call, unsent>>
  BY DEF Close
<1>2. PICK k \in Links, l \in LinkType :
        /\ k = sock[c] /\ l = link[k] /\ LinkInv(l) /\ AllLines(Arrived(l))
        /\ \A d \in Clients \ {c} : sock[d] # k
  BY <1>1, OwnFlow
<1>3. PICK m : m = ClientCloses(l) /\ link' = [link EXCEPT ![k] = m]
  BY <1>1, <1>2
<1>4. m.client = FALSE /\ Arrived(m) = Arrived(l)
  BY <1>2, <1>3, ClientClosesFacts
<1>5. unsent' = {} /\ call' = [call EXCEPT ![c] = None]
  BY <1>1 DEF PlainInv, IInv, TypeOK
<1>6. PlainMoves(c, k, m, None, None)
  BY <1>1, <1>2, <1>3, <1>4, <1>5 DEF PlainMoves
<1>7. PlainInv' /\ link'[k] = m /\ \A j \in Links \ {k} : Keeps(j)
  BY <1>6, PlainStep
<1>8. Keeps(k)
  BY <1>4, <1>7 DEF Keeps, Open
<1>. QED BY <1>7, <1>8

-----------------------------------------------------------------------------
(* The theorems.                                                           *)
LEMMA PlainServing ==
  ASSUME Plain, IInv, IInv', PlainInv, Serving \/ Dispatch \/ DispatchRaises
  PROVE  PlainInv' /\ \A j \in Links : Keeps(j)
<1>1. UNCHANGED client
  BY DEF Serving, Poll, HangUp, TooLarge, Receive, RejectLine, FinishTurn,
         Start, Stop, Dispatch, DispatchRaises
<1>2. \A k \in Links : Flows(link[k], link'[k])
  BY ServerFlows DEF PlainServer, PlainInv
<1>3. \A k \in Links : AllLines(Arrived(link'[k]))
  BY <1>2 DEF Flows
<1>4. ASSUME NEW c \in Clients, sock'[c] # None
      PROVE  Behindhand(link'[sock'[c]], call'[c])
  <2>1. sock'[c] = sock[c] /\ call'[c] = call[c]
    BY <1>1 DEF client
  <2>2. PICK k \in Links : k = sock[c] /\ link'[k].client
    BY <1>4, <2>1 DEF IInv, TypeOK, ClientInv
  <2>3. Behindhand(link[k], call[c])
    BY <1>4, <2>1, <2>2 DEF PlainInv
  <2>4. /\ link'[k].late = link[k].late
        /\ link'[k].server => /\ link[k].server
                              /\ Flow(link'[k]) = Flow(link[k])
        /\ Flow(link'[k]) # <<>> =>
             /\ Flow(link[k]) # <<>>
             /\ Head(Flow(link'[k])) = Head(Flow(link[k]))
    BY <1>2, <2>2 DEF Flows
  <2>. QED BY <2>1, <2>2, <2>3, <2>4 DEF Behindhand
<1>5. unsent' = {}
  BY <1>1 DEF client, PlainInv
<1>6. \A k \in Links : Keeps(k)
  BY <1>2, UnderWayIsFlow DEF Keeps, Open, Flows
<1>. QED BY <1>3, <1>4, <1>5, <1>6 DEF PlainInv

LEMMA InitPlain ==
  ASSUME Init
  PROVE  PlainInv
<1>1. /\ sock = [c \in Clients |-> None] /\ unsent = {}
      /\ link = [k \in Links |-> NoLink]
  BY DEF Init
<1>2. AllLines(Arrived(NoLink))
  BY NoLinkType DEF AllLines
<1>. QED BY <1>1, <1>2 DEF PlainInv

LEMMA NextPlain ==
  ASSUME Plain, IInv, PlainInv, [Next]_vars
  PROVE  PlainInv' /\ \A j \in Links : Keeps(j)
<1>1. CASE UNCHANGED vars
  <2>1. UNCHANGED <<sock, call, unsent, link>>
    BY <1>1 DEF vars, client
  <2>2. PlainInv'
    BY <2>1 DEF PlainInv
  <2>. QED BY <2>1, <2>2, UnderWayIsFlow DEF Keeps
<1>2. CASE Serving \/ Dispatch \/ DispatchRaises
  BY <1>2, NextIInv, PlainServing
<1>3. ASSUME NEW c \in Clients, Waiting(c) \/ Timeout(c) \/ Close(c)
      PROVE  PlainInv' /\ \A j \in Links : Keeps(j)
  <2>1. ~SendTail(c)
    BY DEF SendTail, PlainInv
  <2>. QED
    BY <1>3, <2>1, PlainTakeLine, PlainHostGone, PlainTimeout, PlainClose
    DEF Waiting
<1>4. ASSUME NEW c \in Clients, NEW id \in Ids, NEW kind \in Kinds,
             CallAnew(c, id, kind) \/ Call(c, id, kind)
      PROVE  PlainInv' /\ \A j \in Links : Keeps(j)
  BY <1>4, PlainCallAnew, PlainCall
<1>. QED BY <1>1, <1>2, <1>3, <1>4 DEF Next, Polling, Serving

(* INDUCTIVE.  What waits are lines, and a connection whose client once    *)
(* gave up carries one request more than its client waits for              *)
(* (client.py:33-57).                                                      *)
THEOREM InductiveOrder == Plain => (Spec => []PlainInv)
<1>. SUFFICES ASSUME Plain PROVE Spec => []PlainInv
  OBVIOUS
<1>1. Init => PlainInv
  BY InitPlain
<1>2. IInv /\ PlainInv /\ [Next]_vars => PlainInv'
  BY NextPlain
<1>. QED BY <1>1, <1>2, Inductive, PTL DEF Spec

(* CONSERVED.  On a connection that stays open the requests under way are  *)
(* one queue through all its buffers: nothing is lost, repeated or         *)
(* overtaken (transport.py:75-127).                                        *)
THEOREM QueueConserved == Plain => (Spec => Conserved)
<1>. SUFFICES ASSUME Plain PROVE Spec => Conserved
  OBVIOUS
<1>1. IInv /\ PlainInv /\ [Next]_vars => \A k \in Links : Keeps(k)
  BY NextPlain
<1>2. IInv /\ PlainInv /\ [Next]_vars =>
        [\A k \in Links : Open(k) /\ Open(k)' =>
           \/ UnderWay(k)' = UnderWay(k)
           \/ \E c \in Clients :
                /\ sock[c] = k /\ call[c] = None /\ call'[c] # None
                /\ UnderWay(k)' = Append(UnderWay(k), call'[c])
           \/ /\ outcome' \in {"answered", "mismatch"}
              /\ UnderWay(k)' = Tail(UnderWay(k))]_vars
  BY <1>1 DEF Keeps
<1>. QED BY <1>2, Inductive, InductiveOrder, PTL DEF Spec, Conserved

(* ONCE LATE, LATE FOR GOOD.  After a call timed out, no later call on its *)
(* connection returns anything, until close() (client.py:33-57).           *)
THEOREM LateStaysLate == Plain => (Spec => LateForGood)
<1>. SUFFICES ASSUME Plain PROVE Spec => LateForGood
  OBVIOUS
<1>1. ASSUME IInv, PlainInv, [Next]_vars, NEW c \in Clients,
             call'[c] # call[c], outcome' = "answered"
      PROVE  ~link[sock[c]].late
  <2>1. PICK l : l = link[sock[c]]
    OBVIOUS
  <2>2. PICK a : a = Head(l.s2c)
    OBVIOUS
  <2>3. /\ sock[c] \in Links /\ call[c] \in Ids
        /\ a.id = call[c] /\ 1 \in DOMAIN Replies(l) /\ Replies(l)[1] = a
    BY <1>1, <2>1, <2>2, Returns
  <2>4. l \in LinkType /\ Named(Replies(l))
    BY <1>1, <2>1, <2>3 DEF IInv, TypeOK, LinkInv
  <2>5. a.made = call[c]
    BY <2>3, <2>4, IdsAssumption DEF Named
  <2>6. Replies(l) # <<>>
    BY <2>3
  <2>7. Flow(l) # <<>> /\ Head(Flow(l)) = call[c]
    BY <2>3, <2>4, <2>5, <2>6, FlowHead
  <2>8. Behindhand(l, call[c])
    <3>1. sock[c] # None
      BY <2>3, NoneAssumption
    <3>. QED BY <1>1, <2>1, <3>1 DEF PlainInv
  <2>. QED BY <2>1, <2>7, <2>8 DEF Behindhand
<1>2. IInv /\ PlainInv /\ [Next]_vars =>
        [\A c \in Clients :
           call'[c] # call[c] /\ outcome' = "answered" =>
             ~link[sock[c]].late]_vars
  BY <1>1
<1>. QED BY <1>2, Inductive, InductiveOrder, PTL DEF Spec, LateForGood
-----------------------------------------------------------------------------
(* The order in general: large requests, and dispatches that raise.        *)

(* `id` has its answer, or a piece that ends its line, in position i of    *)
(* the queue of answers w and pieces q.                                    *)
Stands(w, q, i, id) ==
  \/ i \in 1..Len(w) /\ w[i].made = id
  \/ /\ i - Len(w) \in 1..Len(q) /\ q[i - Len(w)].id = id
     /\ q[i - Len(w)].part # "head"

InFront(w, q, a, b) ==
  \A i, j \in Nat : Stands(w, q, i, a) /\ Stands(w, q, j, b) => i < j
KeepsOrder(w, q, v, s) ==
  \A a, b \in Ids :
    /\ \E i \in Nat : Stands(w, q, i, a)
    /\ \E i \in Nat : Stands(w, q, i, b)
    /\ InFront(w, q, a, b)
    => InFront(v, s, a, b)

LEMMA PlacesStand ==
  ASSUME NEW l \in LinkType, NEW id, NEW i
  PROVE  i \in Places(l, id) <=> i \in Nat /\ Stands(Replies(l), Arrived(l), i, id)
<1>1. PICK w \in Seq(Answer), q \in Seq(Pieces) :
        w = Replies(l) /\ q = Arrived(l)
  BY LinkQueues
<1>2. /\ DOMAIN w = 1..Len(w) /\ Len(w) \in Nat
      /\ DOMAIN q = 1..Len(q) /\ Len(q) \in Nat
  OBVIOUS
<1>3. i \in Places(l, id) <=>
        \/ i \in DOMAIN w /\ w[i].made = id
        \/ \E j \in DOMAIN q : /\ i = Len(w) + j
                               /\ q[j].id = id /\ q[j].part # "head"
  BY <1>1 DEF Places, Replies, Arrived
<1>4. ASSUME NEW j \in DOMAIN q, i = Len(w) + j
      PROVE  i \in Nat /\ i - Len(w) = j /\ i - Len(w) \in 1..Len(q)
  BY <1>2, <1>4
<1>5. ASSUME i \in Nat, i - Len(w) \in 1..Len(q)
      PROVE  \E j \in DOMAIN q : i = Len(w) + j /\ j = i - Len(w)
  <2>1. i = Len(w) + (i - Len(w))
    BY <1>2, <1>5
  <2>. QED BY <1>2, <1>5, <2>1
<1>6. i \in Places(l, id) => i \in Nat /\ Stands(w, q, i, id)
  BY <1>2, <1>3, <1>4 DEF Stands
<1>7. i \in Nat /\ Stands(w, q, i, id) => i \in Places(l, id)
  BY <1>2, <1>3, <1>5 DEF Stands
<1>. QED BY <1>1, <1>6, <1>7

(* What stays, stays in order, however far it moves ahead.                 *)
LEMMA MovesUp ==
  ASSUME NEW w, NEW q, NEW v, NEW s, NEW c \in Nat, NEW d \in Nat,
         \A i \in Nat, id \in Ids :
           Stands(v, s, i, id) => Stands(w, q, IF i <= c THEN i ELSE i + d, id)
  PROVE  KeepsOrder(w, q, v, s)
<1>. SUFFICES ASSUME NEW a \in Ids, NEW b \in Ids, InFront(w, q, a, b),
                     NEW i \in Nat, NEW j \in Nat,
                     Stands(v, s, i, a), Stands(v, s, j, b)
              PROVE  i < j
  BY DEF KeepsOrder, InFront
<1>1. PICK m \in Nat, n \in Nat :
        /\ m = IF i <= c THEN i ELSE i + d
        /\ n = IF j <= c THEN j ELSE j + d
  OBVIOUS
<1>2. Stands(w, q, m, a) /\ Stands(w, q, n, b)
  BY <1>1
<1>3. m < n
  BY <1>2 DEF InFront
<1>. QED BY <1>1, <1>3

(* A line leaves, and an answer may be queued in its place.                *)
LEMMA TakenInOrder ==
  ASSUME NEW w \in Seq(Answer), NEW q \in Seq(Pieces),
         NEW e \in 1..Len(q), q[e].part # "head",
         NEW s \in Seq(Pieces), Len(s) = Len(q) - e,
         \A i \in 1..Len(q) - e : s[i] = q[i + e],
         NEW a \in Answer, a.made = q[e].id,
         NEW v, v = w \/ v = Append(w, a)
  PROVE  KeepsOrder(w, q, v, s)
<1>1. /\ Len(w) \in Nat /\ Len(q) \in Nat /\ Len(s) \in Nat /\ e \in Nat
      /\ e >= 1 /\ Len(s) = Len(q) - e
  OBVIOUS
<1>2. ASSUME v = w, NEW i \in Nat, NEW id \in Ids, Stands(w, s, i, id)
      PROVE  Stands(w, q, IF i <= Len(w) THEN i ELSE i + e, id)
  <2>1. CASE i \in 1..Len(w) /\ w[i].made = id
    BY <1>1, <2>1 DEF Stands
  <2>2. CASE /\ i - Len(w) \in 1..Len(s) /\ s[i - Len(w)].id = id
             /\ s[i - Len(w)].part # "head"
    <3>1. PICK x \in 1..Len(s) : x = i - Len(w)
      BY <2>2
    <3>2. /\ ~(i <= Len(w)) /\ (i + e) - Len(w) = x + e
          /\ x \in 1..Len(q) - e /\ x + e \in 1..Len(q)
      BY <1>1, <3>1
    <3>3. s[x] = q[x + e]
      BY <3>2
    <3>. QED BY <2>2, <3>1, <3>2, <3>3 DEF Stands
  <2>. QED BY <1>2, <2>1, <2>2 DEF Stands
<1>3. ASSUME v = Append(w, a), NEW i \in Nat, NEW id \in Ids, Stands(v, s, i, id)
      PROVE  Stands(w, q, IF i <= Len(w) THEN i ELSE i + (e - 1), id)
  <2>1. /\ Len(v) = Len(w) + 1 /\ v[Len(w) + 1] = a
        /\ \A j \in 1..Len(w) : v[j] = w[j]
    BY <1>3
  <2>2. CASE i \in 1..Len(w) /\ v[i].made = id
    BY <1>1, <2>1, <2>2 DEF Stands
  <2>3. CASE i = Len(w) + 1 /\ a.made = id
    <3>1. ~(i <= Len(w)) /\ (i + (e - 1)) - Len(w) = e
      BY <1>1, <2>3
    <3>2. (i + (e - 1)) - Len(w) \in 1..Len(q)
      BY <3>1
    <3>. QED BY <2>3, <3>1, <3>2 DEF Stands
  <2>4. CASE /\ i - Len(v) \in 1..Len(s) /\ s[i - Len(v)].id = id
             /\ s[i - Len(v)].part # "head"
    <3>1. PICK x \in 1..Len(s) : x = i - Len(v)
      BY <2>4
    <3>2. /\ ~(i <= Len(w)) /\ (i + (e - 1)) - Len(w) = x + e
          /\ x \in 1..Len(q) - e /\ x + e \in 1..Len(q)
      <4>1. x \in Nat /\ x >= 1 /\ x <= Len(q) - e
        BY <1>1
      <4>2. i = x + (Len(w) + 1)
        BY <1>1, <2>1, <3>1
      <4>. QED BY <1>1, <4>1, <4>2
    <3>3. s[x] = q[x + e]
      BY <3>2
    <3>. QED BY <2>4, <3>1, <3>2, <3>3 DEF Stands
  <2>5. ASSUME i \in 1..Len(v) /\ v[i].made = id
        PROVE  \/ i \in 1..Len(w) /\ v[i].made = id
               \/ i = Len(w) + 1 /\ a.made = id
    BY <1>1, <2>1, <2>5
  <2>. QED BY <1>3, <2>2, <2>3, <2>4, <2>5 DEF Stands
<1>4. CASE v = w
  BY <1>1, <1>2, <1>4, MovesUp
<1>5. CASE v = Append(w, a)
  <2>1. e - 1 \in Nat
    BY <1>1
  <2>. QED BY <1>1, <1>3, <1>5, <2>1, MovesUp
<1>. QED BY <1>4, <1>5

(* An answer is read.                                                      *)
LEMMA ReadInOrder ==
  ASSUME NEW w \in Seq(Answer), NEW q \in Seq(Pieces), w # <<>>
  PROVE  KeepsOrder(w, q, Tail(w), q)
<1>1. PICK v \in Seq(Answer) : v = Tail(w)
  BY HeadTailProperties
<1>2. /\ Len(v) = Len(w) - 1 /\ Len(w) \in Nat \ {0} /\ Len(v) \in Nat
      /\ \A i \in 1..Len(v) : v[i] = w[i + 1]
  BY <1>1, HeadTailProperties
<1>3. ASSUME NEW i \in Nat, NEW id \in Ids, Stands(v, q, i, id)
      PROVE  Stands(w, q, IF i <= 0 THEN i ELSE i + 1, id)
  <2>1. CASE i \in 1..Len(v) /\ v[i].made = id
    <3>1. ~(i <= 0) /\ i + 1 \in 1..Len(w) /\ w[i + 1].made = id
      BY <1>2, <2>1
    <3>. QED BY <3>1 DEF Stands
  <2>2. CASE /\ i - Len(v) \in 1..Len(q) /\ q[i - Len(v)].id = id
             /\ q[i - Len(v)].part # "head"
    <3>1. ~(i <= 0) /\ (i + 1) - Len(w) = i - Len(v)
      BY <1>2, <2>2
    <3>. QED BY <2>2, <3>1 DEF Stands
  <2>. QED BY <1>3, <2>1, <2>2 DEF Stands
<1>4. KeepsOrder(w, q, v, q)
  BY <1>3, MovesUp
<1>. QED BY <1>1, <1>4

(* The pieces of a request are in one place.                               *)
InOnePlace(q) ==
  \A i, j \in 1..Len(q) : i < j /\ q[i].id = q[j].id =>
    j = i + 1 /\ q[i].part = "head" /\ q[j].part = "tail"

(* The transport's own error is made for a head only when it was read; r   *)
(* pieces are.                                                             *)
Unwarned(w, q, r) ==
  \A i \in 1..Len(q), j \in 1..Len(w) :
    r < i /\ q[i].part = "head" => w[j].made # q[i].id
Orderly(w, q, r) == InOnePlace(q) /\ Unwarned(w, q, r)

(* Nothing is behind a head whose tail is still to come; nor behind the    *)
(* error it may have got.                                                  *)
LastSent(w, q, r, id) ==
  /\ q # <<>> /\ q[Len(q)].id = id /\ q[Len(q)].part = "head"
  /\ \A i \in 1..Len(w) : w[i].made = id =>
       i = Len(w) /\ r = Len(q) /\ \A j \in 1..Len(q) : q[j].part = "head"

(* The limit is passed with the head in position m: its error goes ahead   *)
(* of its tail, but of no other line or answer.                            *)
LEMMA WarnedInOrder ==
  ASSUME NEW w \in Seq(Answer), NEW q \in Seq(Pieces), InOnePlace(q),
         NEW m \in 1..Len(q), \A i \in 1..m : q[i].part = "head",
         \A i \in 1..Len(w) : w[i].made # q[m].id,
         NEW a \in Answer, a.made = q[m].id
  PROVE  KeepsOrder(w, q, Append(w, a), q)
<1>1. PICK v \in Seq(Answer) : v = Append(w, a)
  BY AppendProperties
<1>2. /\ Len(v) = Len(w) + 1 /\ v[Len(w) + 1] = a
      /\ \A j \in 1..Len(w) : v[j] = w[j]
      /\ Len(w) \in Nat /\ Len(q) \in Nat /\ m \in Nat
  BY <1>1
<1>3. ASSUME NEW i \in Nat, NEW id \in Ids, Stands(v, q, i, id)
      PROVE  \/ i <= Len(w) /\ Stands(w, q, i, id)
             \/ i = Len(w) + 1 /\ id = q[m].id
             \/ i > Len(w) + 1 /\ Stands(w, q, i - 1, id)
  <2>1. CASE i \in 1..Len(w) /\ v[i].made = id
    BY <1>2, <2>1 DEF Stands
  <2>2. CASE i = Len(w) + 1 /\ a.made = id
    BY <2>2
  <2>3. CASE /\ i - Len(v) \in 1..Len(q) /\ q[i - Len(v)].id = id
             /\ q[i - Len(v)].part # "head"
    <3>1. i - Len(v) = (i - 1) - Len(w) /\ i > Len(w) + 1
      BY <1>2, <2>3
    <3>. QED BY <2>3, <3>1 DEF Stands
  <2>4. ASSUME i \in 1..Len(v) /\ v[i].made = id
        PROVE  \/ i \in 1..Len(w) /\ v[i].made = id
               \/ i = Len(w) + 1 /\ a.made = id
    BY <1>2, <2>4
  <2>. QED BY <1>3, <2>1, <2>2, <2>3, <2>4 DEF Stands
<1>4. ASSUME NEW p \in Nat, NEW id \in Ids, Stands(w, q, p, id), p > Len(w)
      PROVE  /\ p > Len(w) + m
             /\ id = q[m].id => p = (Len(w) + m) + 1
  <2>1. PICK t \in 1..Len(q) : /\ t = p - Len(w) /\ q[t].id = id
                               /\ q[t].part # "head"
    BY <1>2, <1>4 DEF Stands
  <2>2. t > m
    BY <1>2, <2>1
  <2>3. id = q[m].id => t = m + 1
    BY <2>1, <2>2 DEF InOnePlace
  <2>. QED BY <1>2, <2>1, <2>2, <2>3
<1>5. ASSUME NEW p \in Nat, Stands(w, q, p, q[m].id)
      PROVE  p > Len(w)
  BY <1>2, <1>5 DEF Stands
<1>6. SUFFICES ASSUME NEW x \in Ids, NEW y \in Ids,
                      NEW p \in Nat, Stands(w, q, p, x),
                      NEW r \in Nat, Stands(w, q, r, y),
                      InFront(w, q, x, y),
                      NEW i \in Nat, NEW j \in Nat,
                      Stands(v, q, i, x), Stands(v, q, j, y)
               PROVE  i < j
  BY <1>1 DEF KeepsOrder, InFront
<1>7. p < r
  BY <1>6 DEF InFront
<1>8. CASE i = Len(w) + 1 /\ x = q[m].id
  <2>1. p > Len(w) /\ p = (Len(w) + m) + 1
    BY <1>4, <1>5, <1>6, <1>8
  <2>2. ~(j <= Len(w) /\ Stands(w, q, j, y))
    BY <1>2, <1>6, <2>1 DEF InFront
  <2>3. y # q[m].id
    BY <1>2, <1>4, <1>5, <1>6, <1>7, <2>1
  <2>4. j > Len(w) + 1
    BY <1>3, <1>6, <2>2, <2>3
  <2>. QED BY <1>8, <2>4
<1>9. CASE j = Len(w) + 1 /\ y = q[m].id
  <2>1. r > Len(w) /\ r = (Len(w) + m) + 1
    BY <1>4, <1>5, <1>6, <1>9
  <2>2. x # q[m].id
    BY <1>2, <1>4, <1>5, <1>6, <1>7, <2>1
  <2>3. ASSUME i > Len(w) + 1, Stands(w, q, i - 1, x)
        PROVE  FALSE
    <3>1. PICK n \in Nat : n = i - 1 /\ n > Len(w)
      BY <1>2, <2>3
    <3>2. n > Len(w) + m
      BY <1>4, <2>3, <3>1
    <3>3. n < r
      BY <1>6, <2>3, <3>1 DEF InFront
    <3>. QED BY <1>2, <2>1, <3>2, <3>3
  <2>4. i <= Len(w)
    BY <1>3, <1>6, <2>2, <2>3
  <2>. QED BY <1>2, <1>9, <2>4
<1>10. CASE /\ ~(i = Len(w) + 1 /\ x = q[m].id)
            /\ ~(j = Len(w) + 1 /\ y = q[m].id)
  <2>1. PICK n \in Nat : /\ Stands(w, q, n, x)
                         /\ \/ i <= Len(w) /\ n = i
                            \/ i > Len(w) + 1 /\ n = i - 1
    <3>1. i > Len(w) + 1 => i - 1 \in Nat
      BY <1>2
    <3>. QED BY <1>3, <1>6, <1>10, <3>1
  <2>2. PICK k \in Nat : /\ Stands(w, q, k, y)
                         /\ \/ j <= Len(w) /\ k = j
                            \/ j > Len(w) + 1 /\ k = j - 1
    <3>1. j > Len(w) + 1 => j - 1 \in Nat
      BY <1>2
    <3>. QED BY <1>3, <1>6, <1>10, <3>1
  <2>3. n < k
    BY <1>6, <2>1, <2>2 DEF InFront
  <2>. QED BY <1>2, <2>1, <2>2, <2>3
<1>. QED BY <1>8, <1>9, <1>10

(* A piece joins at the end, and its request had nothing behind it.        *)
LEMMA JoinsInOrder ==
  ASSUME NEW w \in Seq(Answer), NEW q \in Seq(Pieces), NEW p \in Pieces,
         \A i, j \in Nat, id \in Ids :
           Stands(w, q, i, p.id) /\ Stands(w, q, j, id) => j <= i
  PROVE  KeepsOrder(w, q, w, Append(q, p))
<1>1. PICK s \in Seq(Pieces) : s = Append(q, p)
  BY AppendProperties
<1>2. /\ Len(s) = Len(q) + 1 /\ s[Len(q) + 1] = p
      /\ \A j \in 1..Len(q) : s[j] = q[j]
      /\ Len(w) \in Nat /\ Len(q) \in Nat
  BY <1>1
<1>3. ASSUME NEW i \in Nat, NEW id \in Ids, Stands(w, s, i, id)
      PROVE  \/ Stands(w, q, i, id)
             \/ i = (Len(w) + Len(q)) + 1 /\ id = p.id
  <2>1. CASE i \in 1..Len(w) /\ w[i].made = id
    BY <2>1 DEF Stands
  <2>2. CASE /\ i - Len(w) \in 1..Len(s) /\ s[i - Len(w)].id = id
             /\ s[i - Len(w)].part # "head"
    <3>1. i - Len(w) \in 1..Len(q) \/ i - Len(w) = Len(q) + 1
      BY <1>2, <2>2
    <3>2. CASE i - Len(w) \in 1..Len(q)
      BY <1>2, <2>2, <3>2 DEF Stands
    <3>3. CASE i - Len(w) = Len(q) + 1
      <4>1. i = (Len(w) + Len(q)) + 1
        BY <1>2, <3>3
      <4>. QED BY <1>2, <2>2, <3>3, <4>1
    <3>. QED BY <3>1, <3>2, <3>3
  <2>. QED BY <1>3, <2>1, <2>2 DEF Stands
<1>4. ASSUME NEW i \in Nat, NEW id \in Ids, Stands(w, q, i, id)
      PROVE  i <= Len(w) + Len(q)
  BY <1>2, <1>4 DEF Stands
<1>5. SUFFICES ASSUME NEW x \in Ids, NEW y \in Ids,
                      NEW m \in Nat, Stands(w, q, m, x),
                      NEW n \in Nat, Stands(w, q, n, y),
                      InFront(w, q, x, y),
                      NEW i \in Nat, NEW j \in Nat,
                      Stands(w, s, i, x), Stands(w, s, j, y)
               PROVE  i < j
  BY <1>1 DEF KeepsOrder, InFront
<1>6. x # p.id
  <2>1. m < n
    BY <1>5 DEF InFront
  <2>2. ASSUME x = p.id PROVE n <= m
    BY <1>5, <2>2
  <2>. QED BY <2>1, <2>2
<1>7. Stands(w, q, i, x) /\ i <= Len(w) + Len(q)
  BY <1>3, <1>4, <1>5, <1>6
<1>8. CASE Stands(w, q, j, y)
  BY <1>5, <1>7, <1>8 DEF InFront
<1>9. CASE j = (Len(w) + Len(q)) + 1
  BY <1>2, <1>7, <1>9
<1>. QED BY <1>3, <1>5, <1>8, <1>9

-----------------------------------------------------------------------------
(* The pieces and errors stay as they should.                              *)
LEMMA TakenOrderly ==
  ASSUME NEW w \in Seq(Answer), NEW q \in Seq(Pieces), NEW r \in 0..Len(q),
         Orderly(w, q, r),
         NEW e \in 1..r, q[e].part # "head",
         NEW s \in Seq(Pieces), Len(s) = Len(q) - e,
         \A i \in 1..Len(q) - e : s[i] = q[i + e],
         NEW a \in Answer, a.made = q[e].id,
         NEW v, v = w \/ v = Append(w, a)
  PROVE  /\ Orderly(v, s, r - e)
         /\ \A id \in Ids : LastSent(w, q, r, id) => LastSent(v, s, r - e, id)
<1>1. /\ Len(q) \in Nat /\ r \in Nat /\ e \in Nat /\ 1 <= e /\ e <= r
      /\ r <= Len(q) /\ Len(s) = Len(q) - e /\ Len(w) \in Nat
  OBVIOUS
<1>2. ASSUME NEW j \in 1..Len(v)
      PROVE  \/ j \in 1..Len(w) /\ v[j] = w[j]
             \/ j = Len(w) + 1 /\ v[j].made = q[e].id
  <2>1. CASE v = w
    BY <2>1
  <2>2. CASE v = Append(w, a)
    <3>1. /\ Len(v) = Len(w) + 1 /\ v[Len(w) + 1] = a
          /\ \A i \in 1..Len(w) : v[i] = w[i]
      BY <2>2, AppendProperties
    <3>. QED BY <1>1, <3>1
  <2>. QED BY <2>1, <2>2
<1>3. ASSUME NEW i \in 1..Len(s)
      PROVE  s[i] = q[i + e] /\ i + e \in 1..Len(q) /\ e < i + e
  BY <1>1
<1>4. InOnePlace(q) /\ Unwarned(w, q, r)
  BY DEF Orderly
<1>5. InOnePlace(s)
  <2>1. SUFFICES ASSUME NEW i \in 1..Len(s), NEW j \in 1..Len(s),
                        i < j, s[i].id = s[j].id
                 PROVE  j = i + 1 /\ s[i].part = "head" /\ s[j].part = "tail"
    BY DEF InOnePlace
  <2>2. i + e < j + e /\ i + e \in 1..Len(q) /\ j + e \in 1..Len(q)
    BY <1>1, <1>3, <2>1
  <2>3. j + e = (i + e) + 1
        /\ q[i + e].part = "head" /\ q[j + e].part = "tail"
    BY <1>3, <1>4, <2>1, <2>2 DEF InOnePlace
  <2>4. j = i + 1
    BY <1>1, <2>3
  <2>. QED BY <1>3, <2>3, <2>4
<1>6. Unwarned(v, s, r - e)
  <2>1. SUFFICES ASSUME NEW i \in 1..Len(s), NEW j \in 1..Len(v),
                        r - e < i, s[i].part = "head"
                 PROVE  v[j].made # s[i].id
    BY DEF Unwarned
  <2>2. r < i + e
    BY <1>1, <2>1
  <2>3. CASE j \in 1..Len(w) /\ v[j] = w[j]
    BY <1>3, <1>4, <2>1, <2>2, <2>3 DEF Unwarned
  <2>4. CASE j = Len(w) + 1 /\ v[j].made = q[e].id
    <3>1. e \in 1..Len(q)
      BY <1>1
    <3>. QED BY <1>3, <1>4, <2>1, <2>4, <3>1 DEF InOnePlace
  <2>. QED BY <1>2, <2>3, <2>4
<1>7. ASSUME NEW id \in Ids, LastSent(w, q, r, id)
      PROVE  LastSent(v, s, r - e, id)
  <2>1. /\ q[Len(q)].id = id /\ q[Len(q)].part = "head"
        /\ \A i \in 1..Len(w) : w[i].made = id =>
             \A j \in 1..Len(q) : q[j].part = "head"
    BY <1>7 DEF LastSent
  <2>2. e \in 1..Len(q) /\ Len(q) \in 1..Len(q) /\ e < Len(q)
    <3>1. e \in 1..Len(q) /\ e # Len(q)
      BY <1>1, <2>1
    <3>. QED BY <1>1, <3>1
  <2>3. Len(s) \in 1..Len(s) /\ Len(s) + e = Len(q)
    BY <1>1, <2>2
  <2>4. s # <<>> /\ s[Len(s)] = q[Len(q)]
    BY <1>3, <2>3
  <2>5. q[e].id # id
    BY <1>4, <2>1, <2>2 DEF InOnePlace
  <2>6. \A i \in 1..Len(v) : v[i].made # id
    BY <1>2, <2>1, <2>2, <2>5
  <2>. QED BY <2>1, <2>4, <2>6 DEF LastSent
<1>. QED BY <1>5, <1>6, <1>7 DEF Orderly

LEMMA WarnedOrderly ==
  ASSUME NEW w \in Seq(Answer), NEW q \in Seq(Pieces), NEW r \in 0..Len(q),
         Orderly(w, q, r), NEW m \in 1..Len(q), r < m,
         \A i \in 1..m : q[i].part = "head",
         NEW a \in Answer, a.made = q[m].id
  PROVE  /\ \A i \in 1..Len(w) : w[i].made # q[m].id
         /\ Orderly(Append(w, a), q, m)
         /\ \A id \in Ids :
              LastSent(w, q, r, id) => LastSent(Append(w, a), q, m, id)
<1>1. PICK v \in Seq(Answer) : v = Append(w, a)
  BY AppendProperties
<1>2. /\ Len(q) \in Nat /\ r \in Nat /\ m \in Nat /\ m <= Len(q)
      /\ Len(w) \in Nat /\ Len(v) = Len(w) + 1
  BY <1>1
<1>3. ASSUME NEW j \in 1..Len(v)
      PROVE  \/ j \in 1..Len(w) /\ v[j] = w[j]
             \/ j = Len(v) /\ v[j].made = q[m].id
  BY <1>1
<1>4. InOnePlace(q) /\ Unwarned(w, q, r)
  BY DEF Orderly
<1>5. \A i \in 1..Len(w) : w[i].made # q[m].id
  <2>1. q[m].part = "head"
    BY <1>2
  <2>. QED BY <1>4, <2>1 DEF Unwarned
<1>6. Unwarned(v, q, m)
  <2>1. SUFFICES ASSUME NEW i \in 1..Len(q), NEW j \in 1..Len(v),
                        m < i, q[i].part = "head"
                 PROVE  v[j].made # q[i].id
    BY DEF Unwarned
  <2>2. r < i
    BY <1>2, <2>1
  <2>3. q[m].id # q[i].id
    BY <1>4, <2>1 DEF InOnePlace
  <2>. QED BY <1>3, <1>4, <2>1, <2>2, <2>3 DEF Unwarned
<1>7. ASSUME NEW id \in Ids, LastSent(w, q, r, id)
      PROVE  LastSent(v, q, m, id)
  <2>1. /\ q # <<>> /\ q[Len(q)].id = id /\ q[Len(q)].part = "head"
        /\ \A i \in 1..Len(w) : w[i].made = id => r = Len(q)
    BY <1>7 DEF LastSent
  <2>2. \A i \in 1..Len(w) : w[i].made # id
    BY <1>2, <2>1
  <2>3. q[m].id = id => m = Len(q)
    <3>1. Len(q) \in 1..Len(q)
      BY <1>2
    <3>2. q[m].id = id => ~(m < Len(q))
      BY <1>4, <2>1, <3>1 DEF InOnePlace
    <3>. QED BY <1>2, <3>2
  <2>4. ASSUME NEW i \in 1..Len(v), v[i].made = id
        PROVE  /\ i = Len(v) /\ m = Len(q)
               /\ \A j \in 1..Len(q) : q[j].part = "head"
    <3>1. i = Len(v) /\ q[m].id = id
      BY <1>3, <2>2, <2>4
    <3>. QED BY <2>3, <3>1
  <2>. QED BY <2>1, <2>4 DEF LastSent
<1>. QED BY <1>1, <1>4, <1>5, <1>6, <1>7 DEF Orderly

LEMMA HeardOrderly ==
  ASSUME NEW w, NEW q \in Seq(Pieces), NEW r \in 0..Len(q),
         Orderly(w, q, r), NEW n \in 0..Len(q), r <= n
  PROVE  /\ Orderly(w, q, n)
         /\ \A id \in Ids : LastSent(w, q, r, id) => LastSent(w, q, n, id)
<1>1. Len(q) \in Nat /\ r \in Nat /\ n \in Nat /\ n <= Len(q)
  OBVIOUS
<1>2. r = Len(q) => n = Len(q)
  BY <1>1
<1>3. \A i \in 1..Len(q) : n < i => r < i
  BY <1>1
<1>. QED BY <1>2, <1>3 DEF Orderly, Unwarned, LastSent

LEMMA ReadOrderly ==
  ASSUME NEW w \in Seq(Answer), NEW q \in Seq(Pieces), NEW r,
         Orderly(w, q, r), w # <<>>
  PROVE  Orderly(Tail(w), q, r)
<1>1. PICK v \in Seq(Answer) : v = Tail(w)
  BY HeadTailProperties
<1>2. \A j \in 1..Len(v) : j + 1 \in 1..Len(w) /\ v[j] = w[j + 1]
  <2>1. /\ Len(v) = Len(w) - 1 /\ Len(w) \in Nat
        /\ \A i \in 1..Len(v) : v[i] = w[i + 1]
    BY <1>1, HeadTailProperties
  <2>. QED BY <2>1
<1>3. Orderly(v, q, r)
  BY <1>2 DEF Orderly, Unwarned
<1>. QED BY <1>1, <1>3

(* A request joins that nothing carries.                                   *)
LEMMA NewOrderly ==
  ASSUME NEW w \in Seq(Answer), NEW q \in Seq(Pieces), NEW r \in 0..Len(q),
         Orderly(w, q, r), NEW p \in Pieces,
         \A i \in 1..Len(q) : q[i].id # p.id,
         \A i \in 1..Len(w) : w[i].made # p.id
  PROVE  /\ Orderly(w, Append(q, p), r)
         /\ p.part = "head" => LastSent(w, Append(q, p), r, p.id)
         /\ KeepsOrder(w, q, w, Append(q, p))
<1>1. PICK s \in Seq(Pieces) : s = Append(q, p)
  BY AppendProperties
<1>2. /\ Len(s) = Len(q) + 1 /\ Len(q) \in Nat /\ s[Len(s)] = p
      /\ \A j \in 1..Len(s) : j \in 1..Len(q) \/ j = Len(s)
      /\ \A j \in 1..Len(q) : s[j] = q[j]
  BY <1>1
<1>3. InOnePlace(s)
  <2>1. SUFFICES ASSUME NEW i \in 1..Len(s), NEW j \in 1..Len(s),
                        i < j, s[i].id = s[j].id
                 PROVE  j = i + 1 /\ s[i].part = "head" /\ s[j].part = "tail"
    BY DEF InOnePlace
  <2>2. i \in 1..Len(q)
    BY <1>2, <2>1
  <2>3. j \in 1..Len(q)
    BY <1>2, <2>1, <2>2
  <2>. QED BY <1>2, <2>1, <2>2, <2>3 DEF Orderly, InOnePlace
<1>4. Unwarned(w, s, r)
  BY <1>2 DEF Orderly, Unwarned
<1>5. p.part = "head" => LastSent(w, s, r, p.id)
  <2>1. s # <<>>
    BY <1>2
  <2>. QED BY <1>2, <2>1 DEF LastSent
<1>6. \A i \in Nat : ~Stands(w, q, i, p.id)
  BY DEF Stands
<1>7. KeepsOrder(w, q, w, Append(q, p))
  BY <1>6, JoinsInOrder
<1>. QED BY <1>1, <1>3, <1>4, <1>5, <1>7 DEF Orderly

(* The tail follows its head.                                              *)
LEMMA TailOrderly ==
  ASSUME NEW w \in Seq(Answer), NEW q \in Seq(Pieces), NEW r \in 0..Len(q),
         Orderly(w, q, r), NEW p \in Pieces, p.part = "tail",
         LastSent(w, q, r, p.id)
  PROVE  Orderly(w, Append(q, p), r) /\ KeepsOrder(w, q, w, Append(q, p))
<1>1. PICK s \in Seq(Pieces) : s = Append(q, p)
  BY AppendProperties
<1>2. /\ Len(s) = Len(q) + 1 /\ Len(q) \in Nat /\ s[Len(s)] = p
      /\ \A j \in 1..Len(s) : j \in 1..Len(q) \/ j = Len(s)
      /\ \A j \in 1..Len(q) : s[j] = q[j]
      /\ Len(w) \in Nat
  BY <1>1
<1>3. /\ q # <<>> /\ q[Len(q)].id = p.id /\ q[Len(q)].part = "head"
      /\ \A i \in 1..Len(w) : w[i].made = p.id =>
           i = Len(w) /\ \A j \in 1..Len(q) : q[j].part = "head"
  BY DEF LastSent
<1>4. Len(q) \in 1..Len(q)
  BY <1>2, <1>3
<1>5. \A i \in 1..Len(q) : q[i].id = p.id => i = Len(q)
  <2>1. \A i \in 1..Len(q) : q[i].id = p.id => ~(i < Len(q))
    BY <1>3, <1>4 DEF Orderly, InOnePlace
  <2>. QED BY <1>2, <2>1
<1>6. InOnePlace(s)
  <2>1. SUFFICES ASSUME NEW i \in 1..Len(s), NEW j \in 1..Len(s),
                        i < j, s[i].id = s[j].id
                 PROVE  j = i + 1 /\ s[i].part = "head" /\ s[j].part = "tail"
    BY DEF InOnePlace
  <2>2. i \in 1..Len(q)
    BY <1>2, <2>1
  <2>3. CASE j \in 1..Len(q)
    BY <1>2, <2>1, <2>2, <2>3 DEF Orderly, InOnePlace
  <2>4. CASE j = Len(s)
    <3>1. i = Len(q)
      BY <1>2, <1>5, <2>1, <2>2, <2>4
    <3>. QED BY <1>2, <1>3, <1>4, <2>4, <3>1
  <2>. QED BY <1>2, <2>3, <2>4
<1>7. Unwarned(w, s, r)
  BY <1>2 DEF Orderly, Unwarned
<1>8. ASSUME NEW i \in Nat, NEW j \in Nat, NEW id \in Ids,
             Stands(w, q, i, p.id), Stands(w, q, j, id)
      PROVE  j <= i
  <2>1. ~(/\ i - Len(w) \in 1..Len(q) /\ q[i - Len(w)].id = p.id
          /\ q[i - Len(w)].part # "head")
    BY <1>3, <1>5
  <2>2. i \in 1..Len(w) /\ w[i].made = p.id
    BY <1>8, <2>1 DEF Stands
  <2>3. i = Len(w) /\ \A k \in 1..Len(q) : q[k].part = "head"
    BY <1>3, <2>2
  <2>4. j \in 1..Len(w)
    BY <1>8, <2>3 DEF Stands
  <2>. QED BY <1>2, <2>3, <2>4
<1>9. KeepsOrder(w, q, w, Append(q, p))
  BY <1>8, JoinsInOrder
<1>. QED BY <1>1, <1>6, <1>7, <1>9 DEF Orderly

-----------------------------------------------------------------------------
(* What a step of the server does to a connection, as to order.            *)
Held(l) == Orderly(Replies(l), Arrived(l), Len(l.recv))
Trailing(l, id) ==
  l.server => LastSent(Replies(l), Arrived(l), Len(l.recv), id)
LinkKeepsOrder(l, m) ==
  KeepsOrder(Replies(l), Arrived(l), Replies(m), Arrived(m))

Proceeds(l, m) ==
  /\ Held(m)
  /\ \A id \in Ids : Trailing(l, id) => Trailing(m, id)
  /\ m.server => l.server /\ LinkKeepsOrder(l, m)

LEMMA ReadSoFar ==
  ASSUME NEW l \in LinkType
  PROVE  Len(l.recv) \in 0..Len(Arrived(l))
<1>1. l.recv \in Seq(Pieces) /\ l.c2s \in Seq(Pieces)
  BY LinkFields
<1>2. Len(l.recv) \in Nat /\ Len(l.recv) <= Len(l.recv \o l.c2s)
  BY <1>1, FirstPart
<1>3. Len(l.recv \o l.c2s) \in Nat
  BY LinkQueues DEF Arrived
<1>4. PICK m \in Nat, n \in Nat :
        m = Len(l.recv) /\ n = Len(l.recv \o l.c2s) /\ m <= n
  BY <1>2, <1>3
<1>5. m <= n
  BY <1>4
<1>6. m \in 0..n
  BY <1>5
<1>. QED BY <1>4, <1>6 DEF Arrived

LEMMA NothingHeld ==
  ASSUME NEW l, Arrived(l) = <<>>
  PROVE  Held(l)
<1>1. PICK q \in Seq(Pieces) : q = Arrived(l) /\ q = <<>>
  BY EmptyTypes
<1>2. \A i \in 1..Len(q) : FALSE
  BY <1>1
<1>. QED BY <1>1, <1>2 DEF Held, Orderly, InOnePlace, Unwarned

(* Pieces and answers move on, and stay in order.                          *)
LEMMA MovedProceeds ==
  ASSUME NEW l \in LinkType, Held(l), NEW m \in LinkType,
         m.server = l.server, Len(l.recv) <= Len(m.recv),
         Arrived(m) = Arrived(l), Replies(m) = Replies(l)
  PROVE  Proceeds(l, m)
<1>1. PICK w \in Seq(Answer), q \in Seq(Pieces) :
        w = Replies(l) /\ q = Arrived(l)
  BY LinkQueues
<1>2. PICK r \in 0..Len(q), n \in 0..Len(q) :
        r = Len(l.recv) /\ n = Len(m.recv) /\ r <= n
  BY <1>1, ReadSoFar
<1>3. Orderly(w, q, r)
  BY <1>1, <1>2 DEF Held
<1>4. /\ Orderly(w, q, n)
      /\ \A id \in Ids : LastSent(w, q, r, id) => LastSent(w, q, n, id)
  BY <1>2, <1>3, HeardOrderly
<1>5. Held(m) /\ \A id \in Ids : Trailing(l, id) => Trailing(m, id)
  BY <1>1, <1>2, <1>4 DEF Held, Trailing
<1>6. LinkKeepsOrder(l, m)
  BY DEF LinkKeepsOrder, KeepsOrder
<1>. QED BY <1>5, <1>6 DEF Proceeds

LEMMA ClosedProceeds ==
  ASSUME NEW l \in LinkType, NEW m \in ServerCloses(l)
  PROVE  Proceeds(l, m)
<1>1. /\ m \in LinkType /\ m.server = FALSE
      /\ m.recv = <<>> /\ m.c2s = <<>>
  BY ServerClosesFacts
<1>2. Arrived(m) = <<>>
  BY <1>1, WithEmpty, EmptyTypes DEF Arrived
<1>. QED BY <1>1, <1>2, NothingHeld DEF Proceeds, Trailing

(* A line leaves, dispatched or refused.                                   *)
LEMMA TakenProceeds ==
  ASSUME NEW l \in LinkType, LinkInv(l), Held(l), HasLine(l.recv),
         NEW a \in Answer, a.made = l.recv[LineEnd(l.recv)].id, NEW m,
         \/ m = [l EXCEPT !.recv = Consumed(@)]
         \/ m = [l EXCEPT !.recv = Consumed(@), !.send = Append(@, a)]
  PROVE  Proceeds(l, m)
<1>1. PICK w \in Seq(Answer), q \in Seq(Pieces) :
        w = Replies(l) /\ q = Arrived(l)
  BY LinkQueues
<1>2. PICK e : e = LineEnd(l.recv)
  OBVIOUS
<1>3. PICK s : s = Consumed(l.recv) \o l.c2s
  OBVIOUS
<1>4. /\ l.recv \in Seq(Pieces) /\ l.c2s \in Seq(Pieces)
      /\ l.s2c \in Seq(Answer) /\ l.send \in Seq(Answer)
  BY LinkFields
<1>5. /\ e \in 1..Len(l.recv) /\ Consumed(l.recv) \in Seq(Pieces)
      /\ e \in 1..Len(q) /\ l.recv[e] = q[e] /\ q[e].part # "head"
      /\ s \in Seq(Pieces) /\ Len(s) = Len(q) - e
  <2>1. /\ e \in 1..Len(l.recv) /\ Consumed(l.recv) \in Seq(Pieces)
        /\ e \in 1..Len(Arrived(l)) /\ l.recv[e] = Arrived(l)[e]
        /\ l.recv[e].part # "head"
        /\ s \in Seq(Pieces) /\ Len(s) = Len(Arrived(l)) - e
    BY <1>2, <1>3, LineTaken
  <2>. QED BY <1>1, <2>1
<1>6. e \in 0..Len(l.recv) /\ e \in 0..Len(q)
  BY <1>5
<1>7. \A i \in 1..Len(q) - e : s[i] = q[i + e]
  <2>1. s = SubSeq(q, e + 1, Len(q))
    <3>1. SubSeq(l.recv, e + 1, Len(l.recv)) \o l.c2s
            = SubSeq(l.recv \o l.c2s, e + 1, Len(l.recv \o l.c2s))
      BY <1>4, <1>6, CutBefore
    <3>2. s = SubSeq(l.recv, e + 1, Len(l.recv)) \o l.c2s
      BY <1>2, <1>3 DEF Consumed
    <3>3. q = l.recv \o l.c2s
      BY <1>1 DEF Arrived
    <3>. QED BY <3>1, <3>2, <3>3
  <2>. QED BY <1>6, <2>1, Remaining
<1>8. PICK c \in Seq(Pieces) : c = Consumed(l.recv) /\ Len(c) = Len(l.recv) - e
  <2>1. Len(SubSeq(l.recv, e + 1, Len(l.recv))) = Len(l.recv) - e
    BY <1>4, <1>6, Remaining
  <2>. QED BY <1>2, <1>5, <2>1 DEF Consumed
<1>9. /\ m.server = l.server /\ m.recv = c /\ m.c2s = l.c2s /\ m.s2c = l.s2c
      /\ m.send = l.send \/ m.send = Append(l.send, a)
  BY <1>8 DEF LinkType
<1>10. PICK v : v = Replies(m) /\ (v = w \/ v = Append(w, a))
  <2>1. l.s2c \o Append(l.send, a) = Append(l.s2c \o l.send, a)
    BY <1>4, AppendsJoined
  <2>. QED BY <1>1, <1>9, <2>1 DEF Replies
<1>11. Arrived(m) = s
  BY <1>3, <1>8, <1>9 DEF Arrived
<1>12. PICK r \in 0..Len(q) : r = Len(l.recv)
  BY <1>1, ReadSoFar
<1>13. Orderly(w, q, r) /\ a.made = q[e].id /\ e \in 1..r
  BY <1>1, <1>2, <1>5, <1>12 DEF Held
<1>14. /\ Orderly(v, s, r - e)
       /\ \A id \in Ids : LastSent(w, q, r, id) => LastSent(v, s, r - e, id)
  <2>1. v = w \/ v = Append(w, a)
    BY <1>10
  <2>2. q[e].part # "head" /\ s \in Seq(Pieces) /\ Len(s) = Len(q) - e
    BY <1>5
  <2>. QED BY <1>7, <1>13, <2>1, <2>2, TakenOrderly
<1>15. KeepsOrder(w, q, v, s)
  BY <1>5, <1>7, <1>10, <1>13, TakenInOrder
<1>16. Len(m.recv) = r - e
  BY <1>8, <1>9, <1>12
<1>17. Held(m) /\ \A id \in Ids : Trailing(l, id) => Trailing(m, id)
  BY <1>1, <1>9, <1>10, <1>11, <1>12, <1>14, <1>16 DEF Held, Trailing
<1>18. LinkKeepsOrder(l, m)
  BY <1>1, <1>10, <1>11, <1>15 DEF LinkKeepsOrder
<1>. QED BY <1>9, <1>17, <1>18 DEF Proceeds

(* The limit is passed.                                                    *)
LEMMA NoticedProceeds ==
  ASSUME NEW l \in LinkType, LinkInv(l), Held(l), NEW n \in DOMAIN l.c2s,
         Overflows(Read(l, n)),
         NEW sent, sent = Flushed(Noticed(l, n)),
         NEW m \in IF sent.send = <<>> THEN ServerCloses(sent) ELSE {sent}
  PROVE  Proceeds(l, m)
<1>. DEFINE first == SubSeq(l.c2s, 1, n)
            rest == SubSeq(l.c2s, n + 1, Len(l.c2s))
            x == Noticed(l, n)
            a == TransportError(Read(l, n)[Len(Read(l, n))].id)
<1>1. /\ l.c2s \in Seq(Pieces) /\ l.recv \in Seq(Pieces)
      /\ l.s2c \in Seq(Answer) /\ l.send \in Seq(Answer)
      /\ Len(l.c2s) \in Nat /\ Len(l.recv) \in Nat
  BY LinkFields
<1>2. n \in 0..Len(l.c2s) /\ n > 0 /\ n \in Nat
  BY <1>1
<1>3. /\ first \in Seq(Pieces) /\ Len(first) = n /\ first \o rest = l.c2s
      /\ rest \in Seq(Pieces)
  BY <1>1, <1>2, CutInTwo, Remaining
<1>. HIDE DEF first, rest
<1>4. PICK read \in Seq(Pieces) : read = Read(l, n) /\ Len(read) = Len(l.recv) + n
  <2>1. /\ l.recv \o first \in Seq(Pieces)
        /\ Len(l.recv \o first) = Len(l.recv) + Len(first)
    BY <1>1, <1>3, ConcatProperties
  <2>. QED BY <1>3, <2>1 DEF Read, first
<1>5. read \o rest = Arrived(l)
  <2>1. (l.recv \o first) \o rest = l.recv \o (first \o rest)
    <3>1. PICK u \in Seq(Pieces), v \in Seq(Pieces), y \in Seq(Pieces) :
            u = l.recv /\ v = first /\ y = rest
      BY <1>1, <1>3
    <3>2. (u \o v) \o y = u \o (v \o y)
      BY Regrouped
    <3>. QED BY <3>1, <3>2
  <2>. QED BY <1>3, <1>4, <2>1 DEF Read, Arrived, first
<1>6. PICK w \in Seq(Answer), q \in Seq(Pieces) :
        w = Replies(l) /\ q = Arrived(l)
  BY LinkQueues
<1>7. PICK k \in 1..Len(q) : /\ k = Len(read) /\ Len(l.recv) < k
                             /\ \A i \in 1..k : q[i] = read[i]
  <2>1. /\ Len(read) \in Nat /\ Len(read) <= Len(read \o rest)
        /\ \A i \in DOMAIN read : (read \o rest)[i] = read[i]
    BY <1>3, FirstPart
  <2>2. Len(read) \in 1..Len(q) /\ Len(l.recv) < Len(read)
    BY <1>1, <1>2, <1>4, <1>5, <1>6, <2>1
  <2>3. \A i \in 1..Len(read) : q[i] = read[i]
    BY <1>5, <1>6, <2>1
  <2>. QED BY <2>2, <2>3
<1>8. \A i \in 1..k : q[i].part = "head"
  <2>1. \A i \in DOMAIN read : read[i].part = "head"
    BY <1>4 DEF Overflows, HasLine, LineEnds
  <2>. QED BY <1>7, <2>1
<1>9. a \in Answer /\ a.made = q[k].id
  <2>1. k \in 1..k /\ q[k] \in Pieces
    BY <1>7
  <2>2. a = TransportError(q[k].id)
    BY <1>4, <1>7, <2>1
  <2>. QED BY <2>1, <2>2 DEF Answer, TransportError, Pieces
<1>10. x = [l EXCEPT !.recv = read, !.c2s = rest, !.send = Append(l.send, a)]
  BY <1>4 DEF Noticed, rest
<1>11. x \in LinkType /\ LinkInv(x) /\ Arrived(x) = Arrived(l)
       /\ x.server = l.server
  BY NoticedFacts
<1>. HIDE DEF a, x
<1>12. x.recv = read /\ x.s2c = l.s2c /\ x.send = Append(l.send, a)
  BY <1>10 DEF LinkType
<1>13. Replies(x) = Append(w, a)
  <2>1. l.s2c \o Append(l.send, a) = Append(l.s2c \o l.send, a)
    BY <1>1, <1>9, AppendsJoined
  <2>. QED BY <1>6, <1>12, <2>1 DEF Replies
<1>14. PICK r \in 0..Len(q) : r = Len(l.recv) /\ r < k
  BY <1>6, <1>7, ReadSoFar
<1>15. Orderly(w, q, r)
  BY <1>6, <1>14 DEF Held
<1>16. /\ \A i \in 1..Len(w) : w[i].made # q[k].id
       /\ Orderly(Append(w, a), q, k)
       /\ \A id \in Ids :
            LastSent(w, q, r, id) => LastSent(Append(w, a), q, k, id)
  BY <1>8, <1>9, <1>14, <1>15, WarnedOrderly
<1>17. KeepsOrder(w, q, Append(w, a), q)
  BY <1>8, <1>9, <1>15, <1>16, WarnedInOrder DEF Orderly
<1>18. Held(x) /\ \A id \in Ids : Trailing(l, id) => Trailing(x, id)
  BY <1>6, <1>7, <1>11, <1>12, <1>13, <1>14, <1>16 DEF Held, Trailing
<1>19. LinkKeepsOrder(l, x)
  BY <1>6, <1>11, <1>13, <1>17 DEF LinkKeepsOrder
<1>20. /\ sent \in LinkType /\ Arrived(sent) = Arrived(x)
       /\ Replies(sent) = Replies(x) /\ sent.server = x.server
       /\ sent.recv = x.recv
  <2>1. sent = Flushed(x)
    BY DEF x
  <2>2. Len(x.s2c) <= Capacity
    BY <1>11 DEF LinkInv
  <2>3. sent.recv = x.recv
    BY <1>11, <2>1 DEF Flushed, Flushing, LinkType
  <2>. QED BY <1>11, <2>1, <2>2, <2>3, FlushedFacts
<1>21. CASE m = sent
  <2>1. Held(m) /\ \A id \in Ids : Trailing(l, id) => Trailing(m, id)
    BY <1>18, <1>20, <1>21 DEF Held, Trailing
  <2>2. m.server = l.server /\ LinkKeepsOrder(l, m)
    BY <1>11, <1>19, <1>20, <1>21 DEF LinkKeepsOrder
  <2>. QED BY <2>1, <2>2 DEF Proceeds
<1>22. CASE m \in ServerCloses(sent)
  <2>1. /\ m \in LinkType /\ m.server = FALSE
        /\ m.recv = <<>> /\ m.c2s = <<>>
    BY <1>20, <1>22, ServerClosesFacts
  <2>2. Arrived(m) = <<>>
    BY <2>1, WithEmpty, EmptyTypes DEF Arrived
  <2>. QED BY <2>1, <2>2, NothingHeld DEF Proceeds, Trailing
<1>. QED BY <1>21, <1>22

-----------------------------------------------------------------------------
(* The invariant, and the steps of the server.                             *)
OrderInv ==
  /\ \A k \in Links : Held(link[k])
  /\ \A c \in unsent : Trailing(link[sock[c]], call[c])

(* No two requests of a connection change places.                          *)
Unovertaken(k) ==
  Open(k) /\ Open(k)' => LinkKeepsOrder(link[k], link'[k])

LEMMA OneLinkProceeds ==
  ASSUME IInv, OrderInv, NEW k \in Links, NEW m,
         link' = [link EXCEPT ![k] = m], Proceeds(link[k], m)
  PROVE  \A j \in Links : Proceeds(link[j], link'[j])
<1>1. link \in [Links -> LinkType]
  BY DEF IInv, TypeOK
<1>2. link'[k] = m /\ \A j \in Links \ {k} : link'[j] = link[j]
  BY <1>1
<1>3. \A j \in Links : Len(link[j].recv) <= Len(link[j].recv)
  <2>1. \A j \in Links : Len(link[j].recv) \in Nat
    BY <1>1, LinkFields
  <2>. QED BY <2>1
<1>4. \A j \in Links : Proceeds(link[j], link[j])
  BY <1>1, <1>3, MovedProceeds DEF OrderInv
<1>. QED BY <1>2, <1>4

LEMMA ServerProceeds ==
  ASSUME IInv, OrderInv, Serving \/ Dispatch \/ DispatchRaises
  PROVE  \A k \in Links : Proceeds(link[k], link'[k])
<1>. DEFINE l == link[Served]
<1>1. LinksOK /\ link \in [Links -> LinkType]
  BY DEF IInv, LinksOK, TypeOK
<1>2. stage # "idle" => /\ Served \in Links /\ l \in LinkType /\ LinkInv(l)
                        /\ Held(l)
  BY <1>1, ServedIsLink DEF OrderInv
<1>3. CASE UNCHANGED link
  <2>1. \A j \in Links : Len(link[j].recv) <= Len(link[j].recv)
    <3>1. \A j \in Links : Len(link[j].recv) \in Nat
      BY <1>1, LinkFields
    <3>. QED BY <3>1
  <2>. QED BY <1>1, <1>3, <2>1, MovedProceeds DEF OrderInv
<1>4. CASE HangUp
  <2>1. /\ stage # "idle"
        /\ \E m \in ServerCloses(l) : link' = [link EXCEPT ![Served] = m]
    BY <1>4 DEF HangUp
  <2>2. PICK m \in ServerCloses(l) : link' = [link EXCEPT ![Served] = m]
    BY <2>1
  <2>3. Proceeds(l, m)
    BY <1>2, <2>1, ClosedProceeds
  <2>. QED BY <1>2, <2>1, <2>2, <2>3, OneLinkProceeds
<1>5. CASE TooLarge
  <2>1. stage # "idle"
    BY <1>5 DEF TooLarge
  <2>2. PICK n \in DOMAIN l.c2s :
          LET read == l.recv \o SubSeq(l.c2s, 1, n)
              error == TransportError(read[Len(read)].id)
              sent == Flushed([l EXCEPT !.recv = read,
                                        !.c2s = SubSeq(@, n + 1, Len(@)),
                                        !.send = Append(@, error)])
              closes == sent.send = <<>>
          IN /\ Overflows(read)
             /\ \E m \in IF closes THEN ServerCloses(sent) ELSE {sent} :
                  link' = [link EXCEPT ![Served] = m]
    BY <1>5 DEF TooLarge
  <2>3. PICK sent : sent = Flushed(Noticed(l, n))
    OBVIOUS
  <2>4. PICK m \in IF sent.send = <<>> THEN ServerCloses(sent) ELSE {sent} :
          link' = [link EXCEPT ![Served] = m]
    BY <2>2, <2>3 DEF Noticed, Read
  <2>5. Overflows(Read(l, n))
    BY <2>2 DEF Read
  <2>6. Proceeds(l, m)
    BY <1>2, <2>1, <2>3, <2>5, NoticedProceeds
  <2>. QED BY <1>2, <2>1, <2>4, <2>6, OneLinkProceeds
<1>6. CASE Receive
  <2>1. stage # "idle"
    BY <1>6 DEF Receive
  <2>2. PICK m : m = [l EXCEPT !.recv = Arrived(l), !.c2s = <<>>]
    OBVIOUS
  <2>3. link' = [link EXCEPT ![Served] = m]
    BY <1>1, <1>2, <1>6, <2>1, <2>2 DEF Receive
  <2>4. PICK q \in Seq(Pieces) : q = Arrived(l)
    BY <1>2, <2>1, LinkQueues
  <2>5. m \in LinkType
    BY <1>2, <2>1, <2>2, <2>4, EmptyTypes, LinkUpdated
  <2>6. /\ m.server = l.server /\ m.s2c = l.s2c /\ m.send = l.send
        /\ m.recv = q /\ m.c2s = <<>>
    BY <1>2, <2>1, <2>2, <2>4 DEF LinkType
  <2>7. Arrived(m) = Arrived(l) /\ Replies(m) = Replies(l)
    BY <2>4, <2>6, WithEmpty DEF Arrived, Replies
  <2>8. Len(l.recv) <= Len(m.recv)
    <3>1. Len(l.recv) \in 0..Len(q)
      BY <1>2, <2>1, <2>4, ReadSoFar
    <3>. QED BY <2>6, <3>1
  <2>9. Proceeds(l, m)
    BY <1>2, <2>1, <2>5, <2>6, <2>7, <2>8, MovedProceeds
  <2>. QED BY <1>2, <2>1, <2>3, <2>9, OneLinkProceeds
<1>7. CASE Dispatch \/ DispatchRaises
  <2>1. stage # "idle" /\ HasLine(l.recv) /\ LineEnd(l.recv) = 1
    BY <1>7 DEF Dispatch, DispatchRaises, TakesLine, Buffer
  <2>2. PICK a \in Answer : /\ a = Reply(l.recv[1].id)
                            /\ a.made = l.recv[LineEnd(l.recv)].id
    <3>1. l.recv[1] \in Pieces
      BY <1>2, <2>1, LineTaken
    <3>2. Reply(l.recv[1].id) \in Answer
          /\ Reply(l.recv[1].id).made = l.recv[1].id
      BY <3>1 DEF Answer, Reply, Pieces
    <3>. QED BY <2>1, <3>2
  <2>3. PICK m : /\ link' = [link EXCEPT ![Served] = m]
                 /\ \/ m = [l EXCEPT !.recv = Consumed(@)]
                    \/ m = [l EXCEPT !.recv = Consumed(@),
                                     !.send = Append(@, a)]
    <3>1. CASE Dispatch
      <4>1. link' = [link EXCEPT ![Served] =
                       [l EXCEPT !.recv = Consumed(@),
                                 !.send = Append(@, a)]]
        BY <1>1, <1>2, <2>1, <2>2, <3>1 DEF Dispatch, Buffer
      <4>. QED BY <4>1
    <3>2. CASE DispatchRaises
      <4>1. link' = [link EXCEPT ![Served] = [l EXCEPT !.recv = Consumed(@)]]
        BY <1>1, <1>2, <2>1, <3>2 DEF DispatchRaises, Buffer
      <4>. QED BY <4>1
    <3>. QED BY <1>7, <3>1, <3>2
  <2>4. Proceeds(l, m)
    BY <1>2, <2>1, <2>2, <2>3, TakenProceeds
  <2>. QED BY <1>2, <2>1, <2>3, <2>4, OneLinkProceeds
<1>8. CASE RejectLine
  <2>1. stage # "idle" /\ HasLine(l.recv)
    BY <1>8 DEF RejectLine, TakesLine, Buffer
  <2>2. PICK a \in Answer : /\ a = TransportError(l.recv[LineEnd(l.recv)].id)
                            /\ a.made = l.recv[LineEnd(l.recv)].id
    <3>1. PICK p \in Pieces : p = l.recv[LineEnd(l.recv)]
      BY <1>2, <2>1, LineTaken
    <3>2. TransportError(p.id) \in Answer /\ TransportError(p.id).made = p.id
      BY <3>1 DEF Answer, TransportError, Pieces
    <3>. QED BY <3>1, <3>2
  <2>3. PICK m : m = [l EXCEPT !.recv = Consumed(@), !.send = Append(@, a)]
    OBVIOUS
  <2>4. link' = [link EXCEPT ![Served] = m]
    BY <1>1, <1>2, <1>8, <2>1, <2>2, <2>3 DEF RejectLine, Buffer
  <2>5. Proceeds(l, m)
    BY <1>2, <2>1, <2>2, <2>3, TakenProceeds
  <2>. QED BY <1>2, <2>1, <2>4, <2>5, OneLinkProceeds
<1>9. CASE FinishTurn
  <2>1. /\ stage # "idle"
        /\ \/ link' = [link EXCEPT ![Served] = Flushed(@)]
           \/ \E m \in ServerCloses(l) : link' = [link EXCEPT ![Served] = m]
    BY <1>9 DEF FinishTurn
  <2>2. CASE link' = [link EXCEPT ![Served] = Flushed(@)]
    <3>1. PICK m : m = Flushed(l)
      OBVIOUS
    <3>2. link' = [link EXCEPT ![Served] = m]
      BY <2>2, <3>1
    <3>3. /\ Replies(m) = Replies(l) /\ Arrived(m) = Arrived(l)
          /\ m.server = l.server /\ m \in LinkType
      BY <1>2, <2>1, <3>1, FlushedFacts DEF LinkInv
    <3>4. Len(l.recv) <= Len(m.recv)
      <4>1. m.recv = l.recv
        BY <1>2, <2>1, <3>1 DEF Flushed, Flushing, LinkType
      <4>2. Len(l.recv) \in Nat
        BY <1>2, <2>1, LinkFields
      <4>. QED BY <4>1, <4>2
    <3>5. Proceeds(l, m)
      BY <1>2, <2>1, <3>3, <3>4, MovedProceeds
    <3>. QED BY <1>2, <2>1, <3>2, <3>5, OneLinkProceeds
  <2>3. CASE \E m \in ServerCloses(l) : link' = [link EXCEPT ![Served] = m]
    <3>1. PICK m \in ServerCloses(l) : link' = [link EXCEPT ![Served] = m]
      BY <2>3
    <3>2. Proceeds(l, m)
      BY <1>2, <2>1, ClosedProceeds
    <3>. QED BY <1>2, <2>1, <3>1, <3>2, OneLinkProceeds
  <2>. QED BY <2>1, <2>2, <2>3
<1>10. CASE Stop
  <2>1. ASSUME NEW k \in Links
        PROVE  Proceeds(link[k], link'[k])
    <3>1. link'[k] \in ServerCloses(link[k]) /\ link[k] \in LinkType
      BY <1>1, <1>10 DEF Stop
    <3>. QED BY <3>1, ClosedProceeds
  <2>. QED BY <2>1
<1>. QED
  BY <1>3, <1>4, <1>5, <1>6, <1>7, <1>8, <1>9, <1>10
  DEF Serving, Poll, Start

LEMMA ServerInOrder ==
  ASSUME IInv, OrderInv, Serving \/ Dispatch \/ DispatchRaises
  PROVE  OrderInv' /\ \A k \in Links : Unovertaken(k)
<1>1. UNCHANGED client
  BY DEF Serving, Poll, HangUp, TooLarge, Receive, RejectLine, FinishTurn,
         Start, Stop, Dispatch, DispatchRaises
<1>2. \A k \in Links : Proceeds(link[k], link'[k])
  BY ServerProceeds
<1>3. ASSUME NEW c \in unsent'
      PROVE  Trailing(link'[sock'[c]], call'[c])
  <2>1. c \in unsent /\ sock'[c] = sock[c] /\ call'[c] = call[c]
    BY <1>1, <1>3 DEF client
  <2>2. c \in Clients /\ call[c] # None
    BY <2>1 DEF IInv, TypeOK
  <2>3. sock[c] \in Links /\ call[c] \in Ids
    BY <2>2 DEF IInv, TypeOK, ClientInv
  <2>. QED BY <1>2, <2>1, <2>3 DEF OrderInv, Proceeds
<1>. QED BY <1>2, <1>3 DEF OrderInv, Unovertaken, Open, Proceeds

-----------------------------------------------------------------------------
(* The steps of the clients.                                               *)

(* A client c moves with its connection k, which becomes m.                *)
OrderMoves(c, k, m) ==
  /\ link' = [link EXCEPT ![k] = m] /\ Held(m)
  /\ \A d \in Clients \ {c} :
       sock[d] # k /\ sock'[d] = sock[d] /\ call'[d] = call[d]
  /\ unsent' \ {c} = unsent \ {c}
  /\ c \in unsent' => sock'[c] = k /\ Trailing(m, call'[c])
  /\ link[k].client /\ link[k].server => LinkKeepsOrder(link[k], m)

LEMMA ClientInOrder ==
  ASSUME IInv, OrderInv, NEW c \in Clients, NEW k \in Links, NEW m,
         OrderMoves(c, k, m)
  PROVE  OrderInv' /\ \A j \in Links : Unovertaken(j)
<1>1. /\ link \in [Links -> LinkType] /\ unsent \subseteq Clients
      /\ sock \in [Clients -> Links \cup {None}]
  BY DEF IInv, TypeOK
<1>2. link'[k] = m /\ \A j \in Links \ {k} : link'[j] = link[j]
  BY <1>1 DEF OrderMoves
<1>3. \A j \in Links : Held(link'[j])
  BY <1>2 DEF OrderInv, OrderMoves
<1>4. ASSUME NEW d \in unsent'
      PROVE  Trailing(link'[sock'[d]], call'[d])
  <2>1. CASE d = c
    BY <1>2, <1>4, <2>1 DEF OrderMoves
  <2>2. CASE d # c
    <3>1. d \in unsent /\ d \in Clients \ {c}
      BY <1>1, <1>4, <2>2 DEF OrderMoves
    <3>2. /\ sock'[d] = sock[d] /\ call'[d] = call[d] /\ sock[d] # k
      BY <3>1 DEF OrderMoves
    <3>3. sock[d] \in Links
      BY <1>1, <3>1 DEF IInv, TypeOK, ClientInv
    <3>4. Trailing(link[sock[d]], call[d])
      BY <3>1 DEF OrderInv
    <3>. QED BY <1>2, <3>2, <3>3, <3>4
  <2>. QED BY <2>1, <2>2
<1>5. ASSUME NEW j \in Links PROVE Unovertaken(j)
  <2>1. CASE j = k
    BY <1>2, <2>1 DEF Unovertaken, Open, OrderMoves
  <2>2. CASE j # k
    <3>1. link'[j] = link[j]
      BY <1>2, <2>2
    <3>. QED BY <3>1 DEF Unovertaken, LinkKeepsOrder, KeepsOrder
  <2>. QED BY <2>1, <2>2
<1>. QED BY <1>3, <1>4, <1>5 DEF OrderInv

(* A request is sent over an open connection that does not carry it, or    *)
(* over a closed one.                                                      *)
LEMMA RequestInOrder ==
  ASSUME NEW l \in LinkType, LinkInv(l), Held(l), NEW p \in Pieces,
         p.part # "tail",
         \A i \in DOMAIN Arrived(l) : Arrived(l)[i].id # p.id,
         \A i \in DOMAIN Replies(l) : Replies(l)[i].made # p.id,
         NEW m, m = Sent(l, p)
  PROVE  /\ Held(m) /\ LinkKeepsOrder(l, m)
         /\ p.part = "head" => Trailing(m, p.id)
<1>1. CASE ~l.server
  <2>1. /\ m.server = l.server /\ m.recv = l.recv /\ m.c2s = l.c2s
        /\ m.s2c = l.s2c /\ m.send = l.send
    BY <1>1 DEF Sent, LinkType
  <2>2. Arrived(m) = Arrived(l) /\ Replies(m) = Replies(l)
    BY <2>1 DEF Arrived, Replies
  <2>. QED BY <1>1, <2>1, <2>2
       DEF Held, LinkKeepsOrder, KeepsOrder, Trailing
<1>2. CASE l.server
  <2>1. /\ m.recv = l.recv /\ m.c2s = Append(l.c2s, p)
        /\ m.s2c = l.s2c /\ m.send = l.send
    BY <1>2 DEF Sent, LinkType
  <2>2. PICK w \in Seq(Answer), q \in Seq(Pieces) :
          w = Replies(l) /\ q = Arrived(l)
    BY LinkQueues
  <2>3. Arrived(m) = Append(q, p) /\ Replies(m) = w
    <3>1. l.recv \in Seq(Pieces) /\ l.c2s \in Seq(Pieces)
      BY LinkFields
    <3>2. l.recv \o Append(l.c2s, p) = Append(l.recv \o l.c2s, p)
      BY <3>1, AppendsJoined
    <3>. QED BY <2>1, <2>2, <3>2 DEF Arrived, Replies
  <2>4. PICK r \in 0..Len(q) : r = Len(l.recv) /\ r = Len(m.recv)
    BY <2>1, <2>2, ReadSoFar
  <2>5. Orderly(w, q, r)
    BY <2>2, <2>4 DEF Held
  <2>6. /\ \A i \in 1..Len(q) : q[i].id # p.id
        /\ \A i \in 1..Len(w) : w[i].made # p.id
    BY <2>2
  <2>7. /\ Orderly(w, Append(q, p), r)
        /\ p.part = "head" => LastSent(w, Append(q, p), r, p.id)
        /\ KeepsOrder(w, q, w, Append(q, p))
    BY <2>5, <2>6, NewOrderly
  <2>. QED BY <2>2, <2>3, <2>4, <2>7 DEF Held, Trailing, LinkKeepsOrder
<1>. QED BY <1>1, <1>2

LEMMA CallInOrder ==
  ASSUME IInv, OrderInv, NEW c \in Clients, NEW id \in Ids,
         NEW kind \in Kinds, Call(c, id, kind)
  PROVE  OrderInv' /\ \A j \in Links : Unovertaken(j)
<1>. DEFINE p == FirstPiece(id, kind)
<1>1. /\ sock[c] # None /\ Begins(c, id, kind)
      /\ link' = [link EXCEPT ![sock[c]] = Sent(@, p)]
      /\ UNCHANGED sock
  BY DEF Call
<1>2. /\ p \in Pieces /\ p.id = id /\ p.part # "tail"
      /\ unsent' \ {c} = unsent \ {c}
      /\ c \in unsent' => p.part = "head"
      /\ call' = [call EXCEPT ![c] = id] /\ Fresh(id)
  BY <1>1, Calling
<1>. HIDE DEF p
<1>3. PICK k \in Links, l \in LinkType :
        /\ k = sock[c] /\ l = link[k] /\ LinkInv(l)
        /\ \A d \in Clients \ {c} : sock[d] # k
  BY <1>1, OwnLink
<1>4. PICK m : m = Sent(l, p) /\ link' = [link EXCEPT ![k] = m]
  BY <1>1, <1>3
<1>5. /\ \A i \in DOMAIN Arrived(l) : Arrived(l)[i].id # p.id
      /\ \A i \in DOMAIN Replies(l) : Replies(l)[i].made # p.id
  BY <1>2, <1>3, FreshNotCarried DEF IInv, TypeOK
<1>6. /\ Held(m) /\ LinkKeepsOrder(l, m)
      /\ p.part = "head" => Trailing(m, p.id)
  BY <1>2, <1>3, <1>4, <1>5, RequestInOrder DEF OrderInv
<1>7. call'[c] = id /\ \A d \in Clients \ {c} : call'[d] = call[d]
  BY <1>2 DEF IInv, TypeOK
<1>8. OrderMoves(c, k, m)
  BY <1>1, <1>2, <1>3, <1>4, <1>6, <1>7 DEF OrderMoves
<1>. QED BY <1>8, ClientInOrder

LEMMA CallAnewInOrder ==
  ASSUME IInv, OrderInv, NEW c \in Clients, NEW id \in Ids,
         NEW kind \in Kinds, CallAnew(c, id, kind)
  PROVE  OrderInv' /\ \A j \in Links : Unovertaken(j)
<1>. DEFINE p == FirstPiece(id, kind)
            l == [NoLink EXCEPT !.client = TRUE, !.server = TRUE]
<1>1. PICK k \in Links :
        /\ link[k] = NoLink
        /\ link' = [link EXCEPT ![k] = Sent(l, p)]
        /\ sock' = [sock EXCEPT ![c] = k]
  BY DEF CallAnew
<1>2. /\ p \in Pieces /\ p.id = id /\ p.part # "tail"
      /\ unsent' \ {c} = unsent \ {c}
      /\ c \in unsent' => p.part = "head"
      /\ call' = [call EXCEPT ![c] = id]
  BY Calling DEF CallAnew
<1>3. /\ l \in LinkType /\ l.server /\ l.s2c = <<>> /\ l.recv = <<>>
      /\ l.c2s = <<>> /\ l.send = <<>>
  BY EmptyTypes DEF NoLink, LinkType
<1>. HIDE DEF p, l
<1>4. Arrived(l) = <<>> /\ Replies(l) = <<>>
  BY <1>3, WithEmpty, EmptyTypes DEF Arrived, Replies
<1>5. LinkInv(l)
  <2>1. Len(l.s2c) <= Capacity
    BY <1>3, LimitAssumption
  <2>. QED BY <1>3, <1>4, <2>1, NoPieces DEF LinkInv
<1>6. PICK m : m = Sent(l, p) /\ link' = [link EXCEPT ![k] = m]
  BY <1>1
<1>7. /\ \A i \in DOMAIN Arrived(l) : Arrived(l)[i].id # p.id
      /\ \A i \in DOMAIN Replies(l) : Replies(l)[i].made # p.id
  BY <1>4
<1>8. Held(m) /\ (p.part = "head" => Trailing(m, p.id))
  BY <1>2, <1>3, <1>4, <1>5, <1>6, <1>7, NothingHeld, RequestInOrder
<1>9. link[k].client = FALSE
  BY <1>1 DEF NoLink
<1>10. \A d \in Clients \ {c} : sock[d] # k
  <2>1. \A d \in Clients : sock[d] = k => link[k].client
    BY NoneAssumption, OwnLink
  <2>. QED BY <1>9, <2>1
<1>11. /\ sock'[c] = k /\ \A d \in Clients \ {c} : sock'[d] = sock[d]
       /\ call'[c] = id /\ \A d \in Clients \ {c} : call'[d] = call[d]
  BY <1>1, <1>2 DEF IInv, TypeOK
<1>12. OrderMoves(c, k, m)
  BY <1>2, <1>6, <1>8, <1>9, <1>10, <1>11 DEF OrderMoves
<1>. QED BY <1>12, ClientInOrder

LEMMA SendTailInOrder ==
  ASSUME IInv, OrderInv, NEW c \in Clients, SendTail(c)
  PROVE  OrderInv' /\ \A j \in Links : Unovertaken(j)
<1>1. /\ c \in unsent /\ link[sock[c]].server
      /\ link' = [link EXCEPT
           ![sock[c]].c2s = Append(@, [id |-> call[c], part |-> "tail"])]
      /\ unsent' = unsent \ {c} /\ UNCHANGED <<sock, call>>
  BY DEF SendTail
<1>2. call[c] \in Ids /\ sock[c] # None
  BY <1>1 DEF IInv, TypeOK, ClientInv
<1>3. PICK k \in Links, l \in LinkType :
        /\ k = sock[c] /\ l = link[k] /\ LinkInv(l)
        /\ \A d \in Clients \ {c} : sock[d] # k
  BY <1>2, OwnLink
<1>4. PICK p \in Pieces : /\ p = [id |-> call[c], part |-> "tail"]
                          /\ p.id = call[c] /\ p.part = "tail"
  <2>1. PICK i \in Ids : i = call[c]
    BY <1>2
  <2>2. [id |-> i, part |-> "tail"] \in Pieces
    BY DEF Pieces
  <2>. QED BY <2>1, <2>2
<1>5. PICK m : m = [l EXCEPT !.c2s = Append(@, p)]
  OBVIOUS
<1>6. link' = [link EXCEPT ![k] = m]
  BY <1>1, <1>3, <1>4, <1>5
<1>7. l.server /\ Held(l) /\ Trailing(l, p.id)
  BY <1>1, <1>3, <1>4 DEF OrderInv
<1>8. /\ m.recv = l.recv /\ m.c2s = Append(l.c2s, p)
      /\ m.s2c = l.s2c /\ m.send = l.send
  BY <1>5 DEF LinkType
<1>9. PICK w \in Seq(Answer), q \in Seq(Pieces) :
        w = Replies(l) /\ q = Arrived(l)
  BY LinkQueues
<1>10. Arrived(m) = Append(q, p) /\ Replies(m) = w
  <2>1. l.recv \in Seq(Pieces) /\ l.c2s \in Seq(Pieces)
    BY LinkFields
  <2>2. l.recv \o Append(l.c2s, p) = Append(l.recv \o l.c2s, p)
    BY <2>1, AppendsJoined
  <2>. QED BY <1>8, <1>9, <2>2 DEF Arrived, Replies
<1>11. PICK r \in 0..Len(q) : r = Len(l.recv) /\ r = Len(m.recv)
  BY <1>8, <1>9, ReadSoFar
<1>12. Orderly(w, q, r) /\ LastSent(w, q, r, p.id)
  BY <1>7, <1>9, <1>11 DEF Held, Trailing
<1>13. Orderly(w, Append(q, p), r) /\ KeepsOrder(w, q, w, Append(q, p))
  BY <1>4, <1>12, TailOrderly
<1>14. Held(m) /\ LinkKeepsOrder(l, m)
  BY <1>9, <1>10, <1>11, <1>13 DEF Held, LinkKeepsOrder
<1>15. OrderMoves(c, k, m)
  BY <1>1, <1>3, <1>6, <1>14 DEF OrderMoves
<1>. QED BY <1>15, ClientInOrder

(* What is common to the calls that end.                                   *)
LEMMA EndingInOrder ==
  ASSUME IInv, OrderInv, NEW c \in Clients, NEW how \in Endings, Ends(c, how),
         NEW k, k = sock[c], NEW m, link' = [link EXCEPT ![k] = m], Held(m),
         LinkKeepsOrder(link[k], m)
  PROVE  OrderInv' /\ \A j \in Links : Unovertaken(j)
<1>1. /\ sock[c] # None /\ call' = [call EXCEPT ![c] = None]
      /\ unsent' \ {c} = unsent \ {c} /\ c \notin unsent'
      /\ sock' = [sock EXCEPT ![c] = k]
  BY Ending
<1>2. k \in Links /\ \A d \in Clients \ {c} : sock[d] # k
  BY <1>1, OwnLink
<1>3. \A d \in Clients \ {c} : sock'[d] = sock[d] /\ call'[d] = call[d]
  BY <1>1 DEF IInv, TypeOK
<1>4. OrderMoves(c, k, m)
  BY <1>1, <1>2, <1>3 DEF OrderMoves
<1>. QED BY <1>2, <1>4, ClientInOrder

LEMMA TakeLineInOrder ==
  ASSUME IInv, OrderInv, NEW c \in Clients, TakeLine(c)
  PROVE  OrderInv' /\ \A j \in Links : Unovertaken(j)
<1>1. PICK how \in Endings : Ends(c, how)
  BY DEF TakeLine, Endings
<1>2. sock[c] # None
  BY <1>1, Ending
<1>3. PICK k \in Links, l \in LinkType :
        k = sock[c] /\ l = link[k] /\ LinkInv(l)
  BY <1>2, OwnLink
<1>4. PICK m : m = [l EXCEPT !.s2c = Tail(@)]
  OBVIOUS
<1>5. l.s2c # <<>> /\ link' = [link EXCEPT ![k] = m]
  BY <1>3, <1>4 DEF TakeLine
<1>6. l.s2c \in Seq(Answer) /\ l.send \in Seq(Answer)
  BY LinkFields
<1>7. /\ m.recv = l.recv /\ m.c2s = l.c2s
      /\ m.s2c = Tail(l.s2c) /\ m.send = l.send
  BY <1>4 DEF LinkType
<1>8. PICK w \in Seq(Answer) : w = Replies(l) /\ w # <<>>
  BY <1>5, <1>6, TailJoined DEF Replies
<1>9. PICK q \in Seq(Pieces) : q = Arrived(l)
  BY LinkQueues
<1>10. Replies(m) = Tail(w) /\ Arrived(m) = q
  <2>1. Tail(l.s2c) \o l.send = Tail(l.s2c \o l.send)
    BY <1>5, <1>6, TailJoined
  <2>. QED BY <1>7, <1>8, <1>9, <2>1 DEF Replies, Arrived
<1>11. Orderly(w, q, Len(l.recv))
  BY <1>3, <1>8, <1>9 DEF OrderInv, Held
<1>12. Orderly(Tail(w), q, Len(l.recv)) /\ KeepsOrder(w, q, Tail(w), q)
  BY <1>8, <1>11, ReadOrderly, ReadInOrder
<1>13. Held(m) /\ LinkKeepsOrder(l, m)
  BY <1>7, <1>8, <1>9, <1>10, <1>12 DEF Held, LinkKeepsOrder
<1>. QED BY <1>1, <1>3, <1>5, <1>13, EndingInOrder

LEMMA HostGoneInOrder ==
  ASSUME IInv, OrderInv, NEW c \in Clients, HostGone(c)
  PROVE  OrderInv' /\ \A j \in Links : Unovertaken(j)
<1>1. PICK how \in Endings : Ends(c, how)
  BY DEF HostGone, Endings
<1>2. sock[c] # None /\ UNCHANGED link
  BY <1>1, Ending DEF HostGone
<1>3. PICK k \in Links, l \in LinkType :
        k = sock[c] /\ l = link[k] /\ Held(l)
  BY <1>2, OwnLink DEF OrderInv
<1>4. link' = [link EXCEPT ![k] = l]
  BY <1>2, <1>3 DEF IInv, TypeOK
<1>5. LinkKeepsOrder(l, l)
  BY DEF LinkKeepsOrder, KeepsOrder
<1>. QED BY <1>1, <1>3, <1>4, <1>5, EndingInOrder

LEMMA TimeoutInOrder ==
  ASSUME IInv, OrderInv, NEW c \in Clients, Timeout(c)
  PROVE  OrderInv' /\ \A j \in Links : Unovertaken(j)
<1>1. PICK how \in Endings : Ends(c, how)
  BY DEF Timeout, Endings
<1>2. sock[c] # None
  BY <1>1, Ending
<1>3. PICK k \in Links, l \in LinkType :
        k = sock[c] /\ l = link[k] /\ Held(l)
  BY <1>2, OwnLink DEF OrderInv
<1>4. PICK m : m = [l EXCEPT !.late = TRUE]
  OBVIOUS
<1>5. link' = [link EXCEPT ![k] = m]
  BY <1>3, <1>4 DEF Timeout
<1>6. /\ m.recv = l.recv /\ m.c2s = l.c2s
      /\ m.s2c = l.s2c /\ m.send = l.send
  BY <1>4 DEF LinkType
<1>7. Arrived(m) = Arrived(l) /\ Replies(m) = Replies(l)
  BY <1>6 DEF Arrived, Replies
<1>8. Held(m) /\ LinkKeepsOrder(l, m)
  BY <1>3, <1>6, <1>7 DEF Held, LinkKeepsOrder, KeepsOrder
<1>. QED BY <1>1, <1>3, <1>5, <1>8, EndingInOrder

LEMMA EachOfLast ==
  ASSUME NEW s \in Seq(Answer), NEW t \in Seq(Answer)
  PROVE  \A j \in 1..Len(t) : \E n \in DOMAIN (s \o t) : t[j] = (s \o t)[n]
<1>1. DOMAIN t = 1..Len(t)
  OBVIOUS
<1>2. ASSUME NEW j \in DOMAIN t
      PROVE  \E n \in DOMAIN (s \o t) : t[j] = (s \o t)[n]
  BY LastPart
<1>. QED BY <1>1, <1>2

LEMMA CloseInOrder ==
  ASSUME IInv, OrderInv, NEW c \in Clients, Close(c)
  PROVE  OrderInv' /\ \A j \in Links : Unovertaken(j)
<1>1. /\ sock[c] # None /\ call[c] = None
      /\ sock' = [sock EXCEPT ![c] = None]
      /\ link' = [link EXCEPT ![sock[c]] = ClientCloses(@)]
      /\ UNCHANGED <<call, unsent>>
  BY DEF Close
<1>2. PICK k \in Links, l \in LinkType :
        /\ k = sock[c] /\ l = link[k] /\ LinkInv(l) /\ Held(l)
        /\ \A d \in Clients \ {c} : sock[d] # k
  BY <1>1, OwnLink DEF OrderInv
<1>3. PICK m : m = ClientCloses(l) /\ link' = [link EXCEPT ![k] = m]
  BY <1>1, <1>2
<1>4. /\ m \in LinkType /\ m.client = FALSE
      /\ m.s2c = <<>> /\ m.send = l.send /\ Arrived(m) = Arrived(l)
  BY <1>2, <1>3, ClientClosesFacts
<1>5. Held(m)
  <2>1. CASE l.server
    <3>1. m.recv = l.recv
      BY <1>3, <2>1 DEF ClientCloses, Settled, LinkType
    <3>2. PICK s \in Seq(Answer), t \in Seq(Answer) : s = l.s2c /\ t = l.send
      BY LinkFields
    <3>3. Replies(m) = t
      BY <1>4, <3>2, WithEmpty DEF Replies
    <3>4. \A j \in 1..Len(t) :
            \E n \in DOMAIN (s \o t) : t[j] = (s \o t)[n]
      BY EachOfLast
    <3>5. s \o t \in Seq(Answer) /\ s \o t = Replies(l)
      BY <3>2, ConcatProperties DEF Replies
    <3>6. \A j \in 1..Len(t) : \E n \in 1..Len(Replies(l)) : t[j] = Replies(l)[n]
      BY <3>4, <3>5
    <3>7. Orderly(Replies(l), Arrived(l), Len(l.recv))
      BY <1>2 DEF Held
    <3>8. Orderly(t, Arrived(l), Len(l.recv))
      BY <3>6, <3>7 DEF Orderly, Unwarned
    <3>. QED BY <1>4, <3>1, <3>3, <3>8 DEF Held
  <2>2. CASE ~l.server
    <3>1. Arrived(m) = <<>>
      BY <1>2, <1>4, <2>2 DEF LinkInv
    <3>. QED BY <3>1, NothingHeld
  <2>. QED BY <2>1, <2>2
<1>6. c \notin unsent
  BY <1>1 DEF IInv, TypeOK
<1>7. \A d \in Clients \ {c} : sock'[d] = sock[d]
  BY <1>1 DEF IInv, TypeOK
<1>8. ASSUME NEW j \in Links PROVE Held(link'[j])
  BY <1>2, <1>3, <1>5, <1>8 DEF IInv, TypeOK, OrderInv
<1>9. ASSUME NEW d \in unsent
      PROVE  Trailing(link'[sock'[d]], call'[d])
  <2>1. d \in Clients \ {c} /\ call[d] # None
    BY <1>6, <1>9 DEF IInv, TypeOK
  <2>2. sock[d] \in Links \ {k} /\ sock'[d] = sock[d] /\ call'[d] = call[d]
    BY <1>1, <1>2, <1>7, <2>1 DEF IInv, TypeOK, ClientInv
  <2>3. link'[sock[d]] = link[sock[d]]
    BY <1>3, <2>2 DEF IInv, TypeOK
  <2>. QED BY <1>9, <2>2, <2>3 DEF OrderInv
<1>10. ASSUME NEW j \in Links PROVE Unovertaken(j)
  <2>1. CASE j = k
    <3>1. link'[j].client = FALSE
      BY <1>2, <1>3, <1>4, <2>1 DEF IInv, TypeOK
    <3>. QED BY <3>1 DEF Unovertaken, Open
  <2>2. CASE j # k
    <3>1. link'[j] = link[j]
      BY <1>3, <2>2 DEF IInv, TypeOK
    <3>. QED BY <3>1 DEF Unovertaken, LinkKeepsOrder, KeepsOrder
  <2>. QED BY <2>1, <2>2
<1>. QED BY <1>1, <1>8, <1>9, <1>10 DEF OrderInv

LEMMA InitOrder ==
  ASSUME Init
  PROVE  OrderInv
<1>1. /\ unsent = {} /\ link = [k \in Links |-> NoLink]
  BY DEF Init
<1>2. Held(NoLink)
  BY NoLinkType, NothingHeld
<1>. QED BY <1>1, <1>2 DEF OrderInv

LEMMA NextInOrder ==
  ASSUME IInv, OrderInv, [Next]_vars
  PROVE  OrderInv' /\ \A j \in Links : Unovertaken(j)
<1>1. CASE UNCHANGED vars
  <2>1. UNCHANGED <<sock, call, unsent, link>>
    BY <1>1 DEF vars, client
  <2>2. OrderInv'
    BY <2>1 DEF OrderInv
  <2>. QED BY <2>1, <2>2 DEF Unovertaken, LinkKeepsOrder, KeepsOrder
<1>2. CASE Serving \/ Dispatch \/ DispatchRaises
  BY <1>2, ServerInOrder
<1>3. ASSUME NEW c \in Clients, Waiting(c) \/ Timeout(c) \/ Close(c)
      PROVE  OrderInv' /\ \A j \in Links : Unovertaken(j)
  BY <1>3, SendTailInOrder, TakeLineInOrder, HostGoneInOrder,
     TimeoutInOrder, CloseInOrder
  DEF Waiting
<1>4. ASSUME NEW c \in Clients, NEW id \in Ids, NEW kind \in Kinds,
             CallAnew(c, id, kind) \/ Call(c, id, kind)
      PROVE  OrderInv' /\ \A j \in Links : Unovertaken(j)
  BY <1>4, CallAnewInOrder, CallInOrder
<1>. QED BY <1>1, <1>2, <1>3, <1>4 DEF Next, Polling, Serving

(* ORDERLY.  The pieces of a request are in one place, a request gets the  *)
(* transport's own error only once its head was read, and nothing is       *)
(* behind a request of which only the head was sent                        *)
(* (transport.py:75-103, client.py:33-57).                                 *)
THEOREM OrderHeld == Spec => []OrderInv
<1>1. Init => OrderInv
  BY InitOrder
<1>2. IInv /\ OrderInv /\ [Next]_vars => OrderInv'
  BY NextInOrder
<1>. QED BY <1>1, <1>2, Inductive, PTL DEF Spec

(* What Unovertaken says, in the words of the property.                    *)
LEMMA StaysAhead ==
  ASSUME NEW l \in LinkType, NEW m \in LinkType, LinkKeepsOrder(l, m),
         NEW a \in Ids, NEW b \in Ids, Places(l, a) # {}, Places(l, b) # {},
         Ahead(l, a, b)
  PROVE  Ahead(m, a, b)
<1>1. /\ \E i \in Nat : Stands(Replies(l), Arrived(l), i, a)
      /\ \E i \in Nat : Stands(Replies(l), Arrived(l), i, b)
  BY PlacesStand
<1>2. InFront(Replies(l), Arrived(l), a, b)
  BY PlacesStand DEF Ahead, InFront
<1>3. InFront(Replies(m), Arrived(m), a, b)
  BY <1>1, <1>2 DEF LinkKeepsOrder, KeepsOrder
<1>. QED BY <1>3, PlacesStand DEF Ahead, InFront

(* NOT OVERTAKEN.  On a connection that stays open, two requests under way *)
(* never change places, whatever their size and whether their dispatch     *)
(* answers (transport.py:75-127).                                          *)
THEOREM NeverOvertaken == Spec => NotOvertaken
<1>1. ASSUME IInv, OrderInv, [Next]_vars, NEW k \in Links, Open(k), Open(k)',
             NEW a \in Ids, NEW b \in Ids, Places(link[k], a) # {},
             Places(link[k], b) # {}, Ahead(link[k], a, b)
      PROVE  Ahead(link'[k], a, b)
  <2>1. link[k] \in LinkType
    BY <1>1 DEF IInv, TypeOK
  <2>2. link'[k] \in LinkType
    BY <1>1, NextIInv DEF IInv, TypeOK
  <2>3. LinkKeepsOrder(link[k], link'[k])
    BY <1>1, NextInOrder DEF Unovertaken
  <2>. QED BY <1>1, <2>1, <2>2, <2>3, StaysAhead
<1>2. IInv /\ OrderInv /\ [Next]_vars =>
        [\A k \in Links : Open(k) /\ Open(k)' =>
           \A a, b \in Ids :
             Places(link[k], a) # {} /\ Places(link[k], b) # {}
               /\ Ahead(link[k], a, b) => Ahead(link[k], a, b)']_vars
  BY <1>1
<1>. QED BY <1>2, Inductive, OrderHeld, PTL DEF Spec, NotOvertaken
=============================================================================
