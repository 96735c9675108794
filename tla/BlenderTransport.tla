-------------------------- MODULE BlenderTransport --------------------------
(***************************************************************************)
(* The Blender host's transport, NonBlockingJsonServer (transport.py), and *)
(* the clients at the other ends of its connections, RoboVisionClient      *)
(* (client.py), with TCP between them.                                     *)
(*                                                                         *)
(* The clients are processes of their own, so a poll() of the server is    *)
(* not one step: bytes arrive and connections end while it runs.  `stage`  *)
(* says how far the poll has come; Blender does nothing else meanwhile.    *)
(*                                                                         *)
(* A request is one line, its identifier standing for it.  A request over  *)
(* MAX_MESSAGE_BYTES travels as two pieces: a "head", with which the limit *)
(* is already passed, and a "tail", which ends the line.  Blank lines, and *)
(* lines that are no JSON object, are not sent by this client.             *)
(***************************************************************************)
EXTENDS Naturals, SequencesExt

CONSTANTS
  Clients,      \* the RoboVisionClient objects
  Links,        \* bound: connections that may exist at a time
  Ids,          \* bound: request identifiers in use at a time
  None,         \* Python's None
  Budget,       \* command_budget of poll
  AcceptLimit,  \* how many connections one poll accepts
  Capacity,     \* bound: replies one connection's buffers hold for a client
  Kinds,        \* which requests are made: "small", "large"
  Escapes       \* whether dispatch() may raise instead of answering

ASSUME NoneAssumption == None \notin Links /\ None \notin Ids
(* The client's identifiers are UUIDs (protocol.py:16).                    *)
ASSUME IdsAssumption == "invalid" \notin Ids
ASSUME LimitAssumption ==
  /\ Budget \in Nat \ {0} /\ AcceptLimit \in Nat \ {0}
  /\ Capacity \in Nat \ {0}
  /\ Kinds \subseteq {"small", "large"} /\ Escapes \in BOOLEAN

VARIABLES
  \* Clients:
  sock,       \* _socket: the connection, or None
  call,       \* the request whose call() is under way, or None
  unsent,     \* clients whose sendall has a tail still to send
  outcome,    \* how this step ended a call, if it did
  \* Connections, both ends and what is between them:
  link,
  \* Server:
  listening,  \* the listener is open
  backlog,    \* connections the kernel has ready to accept, in order
  order,      \* self.clients, in the order the dict yields them
  turn,       \* the clients this poll has still to serve, the first one now
  stage,      \* "idle", or what poll does for the first of turn
  remaining,  \* what is left of the command budget
  \* History:
  executed    \* how often each request still in use was dispatched

client == <<sock, call, unsent>>
server == <<listening, backlog, order, turn, stage, remaining>>
vars == <<client, outcome, link, server, executed>>

(* client, server: the end is open (a server's end in the backlog is).     *)
(* c2s, s2c: on their way.  recv, send: the server's buffers; the client's *)
(* own buffer is the front of s2c.  late is history: whether a call on    *)
(* this connection has timed out.                                          *)
NoLink ==
  [client |-> FALSE, server |-> FALSE, c2s |-> <<>>, s2c |-> <<>>,
   recv |-> <<>>, send |-> <<>>, late |-> FALSE]

Pieces == [id : Ids, part : {"line", "head", "tail"}]

(* An answer carries the request's identifier, or "invalid" when it is the *)
(* transport's own; `made` is the request it was made for.                 *)
Answer == [id : Ids \cup {"invalid"}, made : Ids]
Reply(id) == [id |-> id, made |-> id]
TransportError(id) == [id |-> "invalid", made |-> id]

Endings == {"answered", "mismatch", "closed", "timeout", "os_error"}

Fresh(id) ==
  /\ \A c \in Clients : call[c] # id
  /\ \A k \in Links :
       LET l == link[k] IN
       /\ \A q \in {l.c2s, l.recv} : \A i \in DOMAIN q : q[i].id # id
       /\ \A q \in {l.s2c, l.send} : \A i \in DOMAIN q : q[i].made # id

(* The history of dispatches, of the requests that are still in use.       *)
Executes(ids) ==
  executed' = [id \in Ids |->
    IF Fresh(id)' THEN 0 ELSE executed[id] + IF id \in ids THEN 1 ELSE 0]

-----------------------------------------------------------------------------
(* Ends of a connection.  A connection with no end left is gone.           *)
Settled(l) == IF l.client \/ l.server THEN l ELSE NoLink

ClientCloses(l) ==
  Settled([l EXCEPT !.client = FALSE, !.s2c = <<>>])

(* The server drops what it has read and what it has not sent.  What the   *)
(* client has not read is lost too when the close becomes a reset.         *)
ServerCloses(l) ==
  {Settled([l EXCEPT !.server = FALSE, !.c2s = <<>>, !.recv = <<>>,
                     !.send = <<>>, !.s2c = kept]) : kept \in {l.s2c, <<>>}}

(* send() takes what the kernel has room for, and that much is deleted.    *)
Takes(l) ==
  LET room == Capacity - Len(l.s2c)
  IN IF Len(l.send) < room THEN Len(l.send) ELSE room
Flushing(l, n) ==
  [l EXCEPT !.s2c = @ \o SubSeq(l.send, 1, Takes(l)),
            !.send = SubSeq(@, n + 1, Len(@))]
FlushedKeepingAll(l) == Flushing(l, 0)
FlushedKeepingNone(l) == Flushing(l, Len(l.send))
Flushed(l) == Flushing(l, Takes(l))

-----------------------------------------------------------------------------
(* The receive buffer.  A line ends with any piece but a head, and is over *)
(* the limit when a head precedes that piece.                              *)
LineEnds(q) == {i \in DOMAIN q : q[i].part # "head"}
HasLine(q) == LineEnds(q) # {}
LineEnd(q) == CHOOSE i \in LineEnds(q) : \A j \in LineEnds(q) : i <= j

(* More than MAX_MESSAGE_BYTES are buffered and no line ends there.        *)
Overflows(q) == q # <<>> /\ ~HasLine(q)

ConsumedNot(q) == q
Consumed(q) == SubSeq(q, LineEnd(q) + 1, Len(q))

-----------------------------------------------------------------------------
(* poll()                                                                  *)
Served == Head(turn)
Buffer == link[Served].recv

(* clients.pop(fileno, None): nothing happens when it is not there.        *)
Without(k) == RemoveFirst(order, k)

(* On to the next client while there is one, and budget left.              *)
GoesOn(on) ==
  /\ turn' = IF on THEN Tail(turn) ELSE <<>>
  /\ stage' = IF on THEN "read" ELSE "idle"
  /\ remaining' = IF on THEN remaining ELSE 0
NextTurnNever == GoesOn(FALSE)
NextTurnWhileBudget == GoesOn(remaining > 0)
NextTurn == GoesOn(remaining > 0 /\ Tail(turn) # <<>>)

Poll ==
  /\ listening /\ stage = "idle"
  /\ LET n == IF Len(backlog) < AcceptLimit THEN Len(backlog)
                                            ELSE AcceptLimit
         clients == order \o SubSeq(backlog, 1, n)
     IN /\ clients # <<>>
        /\ backlog' = SubSeq(backlog, n + 1, Len(backlog))
        /\ order' = clients /\ turn' = clients
  /\ stage' = "read" /\ remaining' = Budget
  /\ outcome' = "none"
  /\ UNCHANGED <<client, link, listening>>
  /\ Executes({})

ArrivedInFront(l) == l.c2s \o l.recv
Arrived(l) == l.recv \o l.c2s

(* recv() ends the connection: whatever was read and not yet dispatched,   *)
(* in this very call too, is dropped, and so is what waits to be sent.     *)
HangUp ==
  /\ stage = "read"
  /\ ~link[Served].client
  /\ link[Served].c2s = <<>> \/ ~Overflows(Arrived(link[Served]))
  /\ \E l \in ServerCloses(link[Served]) : link' = [link EXCEPT ![Served] = l]
  /\ order' = Without(Served)
  /\ NextTurn
  /\ outcome' = "none"
  /\ UNCHANGED <<client, listening, backlog>>
  /\ Executes({})

(* The limit is passed in the middle of a line: an error is queued and the *)
(* connection closed, if all that waits could be sent at once.             *)
TooLarge ==
  /\ stage = "read"
  /\ \E n \in DOMAIN link[Served].c2s :
       LET l == link[Served]
           read == l.recv \o SubSeq(l.c2s, 1, n)
           error == TransportError(read[Len(read)].id)
           sent == Flushed([l EXCEPT !.recv = read,
                                     !.c2s = SubSeq(@, n + 1, Len(@)),
                                     !.send = Append(@, error)])
           closes == sent.send = <<>>
       IN /\ Overflows(read)
          /\ \E after \in IF closes THEN ServerCloses(sent) ELSE {sent} :
               link' = [link EXCEPT ![Served] = after]
          /\ order' = IF closes THEN Without(Served) ELSE order
  /\ NextTurn
  /\ outcome' = "none"
  /\ UNCHANGED <<client, listening, backlog>>
  /\ Executes({})

Receive ==
  /\ stage = "read"
  /\ link[Served].client
  /\ link[Served].c2s = <<>> \/ ~Overflows(Arrived(link[Served]))
  /\ link' = [link EXCEPT ![Served].recv = Arrived(link[Served]),
                          ![Served].c2s = <<>>]
  /\ stage' = "lines"
  /\ outcome' = "none"
  /\ UNCHANGED <<client, listening, backlog, order, turn, remaining>>
  /\ Executes({})

(* One line of the buffer.  dispatch() answers, or an exception it did not *)
(* expect leaves poll as a whole.                                          *)
TakesLine ==
  /\ stage = "lines" /\ remaining > 0
  /\ HasLine(Buffer)

Dispatch ==
  /\ TakesLine
  /\ LineEnd(Buffer) = 1
  /\ link' = [link EXCEPT ![Served].recv = Consumed(@),
                          ![Served].send = Append(@, Reply(Buffer[1].id))]
  /\ remaining' = remaining - 1
  /\ outcome' = "none"
  /\ UNCHANGED <<client, listening, backlog, order, turn, stage>>
  /\ Executes({Buffer[1].id})

DispatchRaises ==
  /\ Escapes
  /\ TakesLine
  /\ LineEnd(Buffer) = 1
  /\ link' = [link EXCEPT ![Served].recv = Consumed(@)]
  /\ turn' = <<>> /\ stage' = "idle" /\ remaining' = 0
  /\ outcome' = "none"
  /\ UNCHANGED <<client, listening, backlog, order>>
  /\ Executes({Buffer[1].id})

RejectLine ==
  /\ TakesLine
  /\ LineEnd(Buffer) > 1
  /\ LET error == TransportError(Buffer[LineEnd(Buffer)].id)
     IN link' = [link EXCEPT ![Served].recv = Consumed(@),
                             ![Served].send = Append(@, error)]
  /\ remaining' = remaining - 1
  /\ outcome' = "none"
  /\ UNCHANGED <<client, listening, backlog, order, turn, stage>>
  /\ Executes({})

(* No line left, or no budget: what is queued is sent.  The kernel may     *)
(* already know that the client is gone.                                   *)
FinishTurn ==
  /\ stage = "lines"
  /\ remaining = 0 \/ ~HasLine(Buffer)
  /\ \/ /\ link' = [link EXCEPT ![Served] = Flushed(@)]
        /\ UNCHANGED order
     \/ /\ ~link[Served].client /\ link[Served].send # <<>>
        /\ \E l \in ServerCloses(link[Served]) :
             link' = [link EXCEPT ![Served] = l]
        /\ order' = Without(Served)
  /\ NextTurn
  /\ outcome' = "none"
  /\ UNCHANGED <<client, listening, backlog>>
  /\ Executes({})

-----------------------------------------------------------------------------
(* start() and stop(), between two polls.                                  *)
Start ==
  /\ ~listening
  /\ listening' = TRUE
  /\ outcome' = "none"
  /\ UNCHANGED <<client, link, backlog, order, turn, stage, remaining>>
  /\ Executes({})

Stop ==
  /\ listening /\ stage = "idle"
  /\ listening' = FALSE /\ backlog' = <<>> /\ order' = <<>>
  /\ link' \in [Links -> UNION {ServerCloses(link[k]) : k \in Links}]
  /\ \A k \in Links : link'[k] \in ServerCloses(link[k])
  /\ outcome' = "none"
  /\ UNCHANGED <<client, turn, stage, remaining>>
  /\ Executes({})

-----------------------------------------------------------------------------
(* call(), from sendall to the line it reads, and close().                 *)
FirstPiece(id, kind) ==
  [id |-> id, part |-> IF kind = "small" THEN "line" ELSE "head"]

Sent(l, piece) ==
  [l EXCEPT !.c2s = IF l.server THEN Append(@, piece) ELSE @]

Begins(c, id, kind) ==
  /\ call[c] = None /\ Fresh(id)
  /\ call' = [call EXCEPT ![c] = id]
  /\ unsent' = IF kind = "large" THEN unsent \cup {c} ELSE unsent
  /\ outcome' = "none"

(* connect() makes a connection when there is none; the kernel completes   *)
(* it, and takes the request, before the server accepts it.                *)
CallAnew(c, id, kind) ==
  /\ sock[c] = None /\ listening
  /\ Begins(c, id, kind)
  /\ \E k \in Links :
       /\ link[k] = NoLink
       /\ link' = [link EXCEPT
            ![k] = Sent([NoLink EXCEPT !.client = TRUE, !.server = TRUE],
                        FirstPiece(id, kind))]
       /\ sock' = [sock EXCEPT ![c] = k]
       /\ backlog' = Append(backlog, k)
  /\ UNCHANGED <<listening, order, turn, stage, remaining>>
  /\ Executes({})

(* Any other call uses the connection there is, even a dead one.           *)
Call(c, id, kind) ==
  /\ sock[c] # None
  /\ Begins(c, id, kind)
  /\ link' = [link EXCEPT ![sock[c]] = Sent(@, FirstPiece(id, kind))]
  /\ UNCHANGED <<sock, server>>
  /\ Executes({})

SendTail(c) ==
  /\ c \in unsent /\ link[sock[c]].server
  /\ link' = [link EXCEPT
       ![sock[c]].c2s = Append(@, [id |-> call[c], part |-> "tail"])]
  /\ unsent' = unsent \ {c}
  /\ outcome' = "none"
  /\ UNCHANGED <<sock, call, server>>
  /\ Executes({})

(* How a call ends: the connection and its buffer stay in every case.      *)
Ends(c, how) ==
  /\ call[c] # None
  /\ call' = [call EXCEPT ![c] = None]
  /\ unsent' = unsent \ {c}
  /\ outcome' = how
  /\ UNCHANGED <<sock, server>>

MatchesAny(c, answer) == TRUE
Matches(c, answer) == answer.id = call[c]

TakeLine(c) ==
  /\ call[c] # None /\ c \notin unsent
  /\ LET l == link[sock[c]]
     IN /\ l.s2c # <<>>
        /\ link' = [link EXCEPT ![sock[c]].s2c = Tail(@)]
        /\ Ends(c, IF Matches(c, Head(l.s2c)) THEN "answered" ELSE "mismatch")
  /\ Executes({})

HostGone(c) ==
  /\ call[c] # None /\ ~link[sock[c]].server
  /\ \/ c \in unsent /\ Ends(c, "os_error")
     \/ /\ c \notin unsent /\ link[sock[c]].s2c = <<>>
        /\ \E how \in {"closed", "os_error"} : Ends(c, how)
  /\ UNCHANGED link
  /\ Executes({})

Timeout(c) ==
  /\ call[c] # None
  /\ c \in unsent \/ link[sock[c]].s2c = <<>>
  /\ Ends(c, "timeout")
  /\ link' = [link EXCEPT ![sock[c]].late = TRUE]
  /\ Executes({})

Close(c) ==
  /\ sock[c] # None /\ call[c] = None
  /\ sock' = [sock EXCEPT ![c] = None]
  /\ link' = [link EXCEPT ![sock[c]] = ClientCloses(@)]
  /\ outcome' = "none"
  /\ UNCHANGED <<call, unsent, server>>
  /\ Executes({})

-----------------------------------------------------------------------------
Init ==
  /\ sock = [c \in Clients |-> None] /\ call = [c \in Clients |-> None]
  /\ unsent = {} /\ outcome = "none"
  /\ link = [k \in Links |-> NoLink]
  /\ listening = FALSE /\ backlog = <<>> /\ order = <<>> /\ turn = <<>>
  /\ stage = "idle" /\ remaining = 0
  /\ executed = [id \in Ids |-> 0]

Polling ==
  Poll \/ HangUp \/ TooLarge \/ Receive \/ Dispatch \/ DispatchRaises
    \/ RejectLine \/ FinishTurn

Waiting(c) == SendTail(c) \/ TakeLine(c) \/ HostGone(c)

Next ==
  \/ Polling
  \/ Start \/ Stop
  \/ \E c \in Clients : Waiting(c) \/ Timeout(c) \/ Close(c)
  \/ \E c \in Clients, id \in Ids, kind \in Kinds :
       CallAnew(c, id, kind) \/ Call(c, id, kind)

Spec == Init /\ [][Next]_vars

(* Blender's timer calls poll again 0.02 s after it returned, and a call   *)
(* under way is in the kernel's hands: it wakes when there is something    *)
(* for it.  Nobody has to call, close, start or stop, and no timeout has   *)
(* to expire.                                                              *)
FairSpec ==
  /\ Spec
  /\ WF_vars(Polling)
  /\ \A c \in Clients : WF_vars(Waiting(c))

-----------------------------------------------------------------------------
(* TYPES.  Every variable in its range; a poll is under way exactly when a *)
(* client has its turn, and no poll passes its budget (transport.py:54-63).*)
LinkType ==
  [client : BOOLEAN, server : BOOLEAN, c2s : Seq(Pieces), s2c : Seq(Answer),
   recv : Seq(Pieces), send : Seq(Answer), late : BOOLEAN]

TypeOK ==
  /\ sock \in [Clients -> Links \cup {None}]
  /\ call \in [Clients -> Ids \cup {None}]
  /\ unsent \subseteq {c \in Clients : call[c] # None}
  /\ outcome \in Endings \cup {"none"}
  /\ link \in [Links -> LinkType]
  /\ listening \in BOOLEAN
  /\ backlog \in Seq(Links) /\ order \in Seq(Links) /\ turn \in Seq(Links)
  /\ stage \in {"idle", "read", "lines"} /\ (stage = "idle" <=> turn = <<>>)
  /\ remaining \in 0..Budget
  /\ executed \in [Ids -> Nat]

(* OWN ANSWER.  A call that returns, returns the answer made for its own   *)
(* request, and that request was dispatched exactly once: never the answer *)
(* of a call that timed out before it (client.py:55-57).                   *)
OwnAnswer ==
  [][\A c \in Clients :
       call'[c] # call[c] /\ outcome' = "answered" =>
         /\ Head(link[sock[c]].s2c).made = call[c]
         /\ executed[call[c]] = 1]_vars

(* AT MOST ONCE.  No request is dispatched twice, whatever raised, closed  *)
(* or timed out meanwhile (transport.py:94-96).                            *)
AtMostOnce == \A id \in Ids : executed[id] <= 1

(* MISMATCH EXPLAINED.  A call fails with RESPONSE_MISMATCH only after an  *)
(* earlier call on its connection timed out, or when the transport could   *)
(* not tell which request it was answering (client.py:56-57).              *)
MismatchExplained ==
  [][\A c \in Clients :
       call'[c] # call[c] /\ outcome' = "mismatch" =>
         link[sock[c]].late \/ Head(link[sock[c]].s2c).id = "invalid"]_vars

(* CONSERVED.  On a connection that stays open, the requests under way     *)
(* form one queue through all its buffers: answered and not yet read,      *)
(* answered and queued, read and not yet dispatched, on the way to the     *)
(* server.  A step leaves the queue as it is, unless a call joins it at    *)
(* the end or takes its first: nothing is lost, repeated or overtaken      *)
(* (transport.py:75-127).                                                  *)
Made(q) == [i \in DOMAIN q |-> q[i].made]
Asked(q) == [i \in DOMAIN q |-> q[i].id]
UnderWay(k) ==
  Made(link[k].s2c \o link[k].send) \o Asked(link[k].recv \o link[k].c2s)
Open(k) == link[k].client /\ link[k].server

Conserved ==
  [][\A k \in Links : Open(k) /\ Open(k)' =>
       \/ UnderWay(k)' = UnderWay(k)
       \/ \E c \in Clients :
            /\ sock[c] = k /\ call[c] = None /\ call'[c] # None
            /\ UnderWay(k)' = Append(UnderWay(k), call'[c])
       \/ /\ outcome' \in {"answered", "mismatch"}
          /\ UnderWay(k)' = Tail(UnderWay(k))]_vars

(* NOT OVERTAKEN.  Also when lines are refused and dispatch raises, and a  *)
(* request may be answered twice or never: of two requests under way on a  *)
(* connection that stays open, the one whose answers, or whose line, are   *)
(* ahead of the other's stays ahead until it is read (transport.py:65-127).*)
(* Heads do not count: a line is complete with the piece that ends it.     *)
Places(l, id) ==
  LET answers == l.s2c \o l.send
      pieces == l.recv \o l.c2s
  IN {i \in DOMAIN answers : answers[i].made = id}
       \cup {Len(answers) + i :
               i \in {j \in DOMAIN pieces :
                        pieces[j].id = id /\ pieces[j].part # "head"}}
Ahead(l, a, b) == \A i \in Places(l, a), j \in Places(l, b) : i < j

NotOvertaken ==
  [][\A k \in Links : Open(k) /\ Open(k)' =>
       \A a, b \in Ids :
         Places(link[k], a) # {} /\ Places(link[k], b) # {}
           /\ Ahead(link[k], a, b) => Ahead(link[k], a, b)']_vars

(* ONCE LATE, LATE FOR GOOD.  After a call timed out, no later call on its *)
(* connection returns anything: each reads the line of the one before, and *)
(* is executed all the same, until close() (client.py:33-57).              *)
LateForGood ==
  [][\A c \in Clients :
       call'[c] # call[c] /\ outcome' = "answered" =>
         ~link[sock[c]].late]_vars

(* ANSWERED.  Every call that does not time out ends, with an answer or    *)
(* because the host is gone, as long as no client keeps a connection on    *)
(* which a call has timed out: such a client may send faster than the      *)
(* budget, and those behind it starve (transport.py:54-63).                *)
Behind == \E c \in Clients : sock[c] # None /\ link[sock[c]].late
Answered == \A c \in Clients : call[c] # None ~> call[c] = None \/ Behind
=============================================================================
