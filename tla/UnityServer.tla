---------------------------- MODULE UnityServer ----------------------------
(***************************************************************************)
(* The Unity host's transport, RoboVisionServer, its clients, and TCP      *)
(* between them.                                                           *)
(*                                                                         *)
(* Poll walks its clients from the newest to the oldest, as long as the    *)
(* command budget lasts.  Clients are other processes, so a Poll is a      *)
(* sequence of steps they interleave with; `stage` says how far it is.     *)
(* A client may have several requests under way on a connection.           *)
(*                                                                         *)
(* A request is a "line", its identifier standing for it, and so is the    *)
(* "answer" to it, an INVALID_REQUEST one too.  A request over             *)
(* MaxMessageBytes comes as a "head", with which the limit is passed, and  *)
(* a "tail", which ends the line.                                          *)
(***************************************************************************)
EXTENDS Naturals, Sequences, FiniteSets, SequencesExt

CONSTANTS
  Links,        \* bound: connections that may exist at a time
  Ids,          \* bound: request identifiers in use at a time
  Window,       \* how many requests a client has under way at most
  Budget,       \* commandBudget of Poll
  AcceptLimit,  \* how many connections one Poll accepts
  Capacity,     \* bound: answers the kernel holds for one client
  MaxRaises     \* bound: exceptions that escape from Poll

ASSUME LimitAssumption ==
  /\ Window \in Nat \ {0} /\ Budget \in Nat \ {0}
  /\ AcceptLimit \in Nat \ {0} /\ Capacity \in Nat \ {0}
  /\ MaxRaises \in Nat

VARIABLES
  link,       \* connections: both ends and what is between them
  listening,  \* _listener is open
  backlog,    \* connections the kernel has ready to accept
  clients,    \* _clients: the oldest first
  turn,       \* the clients this Poll has still to serve, the last one now
  stage,      \* "idle", or what Poll does for the last of turn
  remaining,  \* what is left of the budget
  raised      \* how many exceptions have escaped from Poll

server == <<listening, backlog, clients, turn, stage, remaining, raised>>
vars == <<link, server>>

(* client, server: the end is open.  c2s, s2c: in the kernel's hands.      *)
NoLink ==
  [client |-> FALSE, server |-> FALSE, c2s |-> <<>>, s2c |-> <<>>,
   inbound |-> <<>>, outbound |-> <<>>]

Pieces == [id : Ids, part : {"line", "head", "tail"}]
Answers == [id : Ids, part : {"answer"}]

(* What is under way on a connection, the oldest first: the answers the    *)
(* client has not taken, and then the requests not answered.               *)
Sent(k) == link[k].inbound \o link[k].c2s
Wire(k) == link[k].s2c \o link[k].outbound \o Sent(k)

Starts(w) == {i \in DOMAIN w : w[i].part # "tail"}
Requests(w) == {w[i].id : i \in Starts(w)}
UnderWay(k) == Requests(Wire(k))

Fresh(id) == \A k \in Links : id \notin UnderWay(k)

(* The client has sent a head and not yet its tail.                        *)
HalfSent(k) == Sent(k) # <<>> /\ Sent(k)[Len(Sent(k))].part = "head"

-----------------------------------------------------------------------------
Settled(l) == IF l.client \/ l.server THEN l ELSE NoLink

ClientCloses(l) == Settled([l EXCEPT !.client = FALSE, !.s2c = <<>>])

(* CloseClient: what was read and what was queued is dropped.  What the    *)
(* client has not read is lost too when the close becomes a reset.         *)
CloseClient(l) ==
  {Settled([l EXCEPT !.server = FALSE, !.c2s = <<>>, !.inbound = <<>>,
                     !.outbound = <<>>, !.s2c = kept]) : kept \in {l.s2c, <<>>}}

(* _clients.RemoveAt, at the client that Poll serves.                      *)
Without == RemoveAt(clients, Len(turn))

(* Send takes what the kernel has room for, and that much is removed.      *)
Takes(l) ==
  LET room == Capacity - Len(l.s2c)
  IN IF Len(l.outbound) < room THEN Len(l.outbound) ELSE room
Flushed(l) ==
  [l EXCEPT !.s2c = @ \o SubSeq(l.outbound, 1, Takes(l)),
            !.outbound = SubSeq(@, Takes(l) + 1, Len(@))]

(* A full kernel buffer is WouldBlock, and the client stays.               *)
BrokenOrFull(l) == l.outbound # <<>> /\ (~l.client \/ Len(l.s2c) = Capacity)
Broken(l) == l.outbound # <<>> /\ ~l.client

-----------------------------------------------------------------------------
LineEnds(q) == {i \in DOMAIN q : q[i].part # "head"}
HasLine(q) == LineEnds(q) # {}
LineEnd(q) == CHOOSE i \in LineEnds(q) : \A j \in LineEnds(q) : i <= j

(* Some chunk passes the limit while no line ends in the buffer: a line    *)
(* that was there before hides the one that grows behind it.               *)
Overflows(l) ==
  \E n \in DOMAIN l.c2s :
    l.c2s[n].part = "head" /\ ~HasLine(l.inbound \o SubSeq(l.c2s, 1, n))

-----------------------------------------------------------------------------
(* Poll                                                                    *)
Served == turn[Len(turn)]
Buffer == link[Served].inbound

EndPoll == turn' = <<>> /\ stage' = "idle" /\ remaining' = 0

NextTurnNever == EndPoll
NextTurn ==
  IF remaining > 0 /\ Len(turn) > 1
    THEN /\ turn' = SubSeq(turn, 1, Len(turn) - 1)
         /\ stage' = "read" /\ UNCHANGED remaining
    ELSE EndPoll

Poll ==
  /\ listening /\ stage = "idle"
  /\ LET n == IF Len(backlog) < AcceptLimit THEN Len(backlog)
                                            ELSE AcceptLimit
         all == clients \o SubSeq(backlog, 1, n)
     IN /\ all # <<>>
        /\ backlog' = SubSeq(backlog, n + 1, Len(backlog))
        /\ clients' = all /\ turn' = all
  /\ stage' = "read" /\ remaining' = Budget
  /\ UNCHANGED <<link, listening, raised>>

(* ReadClient finds the connection ended, after it has read all there is:  *)
(* whole requests that wait in the buffer are dropped with it.             *)
HangUp ==
  /\ stage = "read"
  /\ ~link[Served].client
  /\ \E l \in CloseClient(link[Served]) : link' = [link EXCEPT ![Served] = l]
  /\ clients' = Without
  /\ NextTurn
  /\ UNCHANGED <<listening, backlog, raised>>

(* MESSAGE_TOO_LARGE is queued and the client closed before it is flushed. *)
TooLarge ==
  /\ stage = "read"
  /\ Overflows(link[Served])
  /\ \E l \in CloseClient(link[Served]) : link' = [link EXCEPT ![Served] = l]
  /\ clients' = Without
  /\ NextTurn
  /\ UNCHANGED <<listening, backlog, raised>>

Receive ==
  /\ stage = "read"
  /\ link[Served].client /\ ~Overflows(link[Served])
  /\ link' = [link EXCEPT ![Served].inbound = @ \o link[Served].c2s,
                          ![Served].c2s = <<>>]
  /\ stage' = "lines"
  /\ UNCHANGED <<listening, backlog, clients, turn, remaining, raised>>

(* Receive raises ConnectionReset, which nothing below Update catches: the *)
(* client stays in the list until the next Poll finds it closed.           *)
ReadRaises ==
  /\ stage = "read" /\ raised < MaxRaises
  /\ ~link[Served].client /\ link[Served].c2s # <<>>
  /\ link' = [link EXCEPT ![Served].c2s = <<>>]
  /\ raised' = raised + 1
  /\ EndPoll
  /\ UNCHANGED <<listening, backlog, clients>>

TakesLineAnyway == stage = "lines" /\ HasLine(Buffer)
TakesLine == stage = "lines" /\ remaining > 0 /\ HasLine(Buffer)

AfterLine == SubSeq(Buffer, LineEnd(Buffer) + 1, Len(Buffer))

(* One line is dispatched, or answered INVALID_REQUEST when it is no JSON. *)
AnswerFirst(answers, id) == <<[id |-> id, part |-> "answer"]>> \o answers
AnswerLast(answers, id) == Append(answers, [id |-> id, part |-> "answer"])

Dispatch ==
  /\ TakesLine
  /\ link' = [link EXCEPT
       ![Served].inbound = AfterLine,
       ![Served].outbound = AnswerLast(@, Buffer[1].id)]
  /\ remaining' = remaining - 1
  /\ UNCHANGED <<listening, backlog, clients, turn, stage, raised>>

(* Dispatch raises (an id that is no string, a failing recovery): the line *)
(* is gone, nobody is answered, the older clients wait for the next Poll.  *)
DispatchRaises ==
  /\ TakesLine /\ raised < MaxRaises
  /\ link' = [link EXCEPT ![Served].inbound = AfterLine]
  /\ raised' = raised + 1
  /\ EndPoll
  /\ UNCHANGED <<listening, backlog, clients>>

(* FlushClient, for a client that had its turn; any other error than a     *)
(* full buffer closes it.                                                  *)
FinishTurn ==
  /\ stage = "lines"
  /\ remaining = 0 \/ ~HasLine(Buffer)
  /\ \/ /\ link' = [link EXCEPT ![Served] = Flushed(@)]
        /\ UNCHANGED clients
     \/ /\ Broken(link[Served])
        /\ \E l \in CloseClient(link[Served]) :
             link' = [link EXCEPT ![Served] = l]
        /\ clients' = Without
  /\ NextTurn
  /\ UNCHANGED <<listening, backlog, raised>>

Start ==
  /\ ~listening
  /\ listening' = TRUE
  /\ UNCHANGED <<link, backlog, clients, turn, stage, remaining, raised>>

(* Dispose, between two updates: Stop, quitting, or a domain reload.       *)
Dispose ==
  /\ listening /\ stage = "idle"
  /\ listening' = FALSE /\ backlog' = <<>> /\ clients' = <<>>
  /\ link' \in [Links -> UNION {CloseClient(link[k]) : k \in Links}]
  /\ \A k \in Links : link'[k] \in CloseClient(link[k])
  /\ UNCHANGED <<turn, stage, remaining, raised>>

-----------------------------------------------------------------------------
(* The clients.                                                            *)
Connect(k) ==
  /\ listening /\ link[k] = NoLink
  /\ link' = [link EXCEPT ![k].client = TRUE, ![k].server = TRUE]
  /\ backlog' = Append(backlog, k)
  /\ UNCHANGED <<listening, clients, turn, stage, remaining, raised>>

Ask(k, id, part) ==
  /\ link[k].client /\ link[k].server
  /\ Fresh(id) /\ Cardinality(UnderWay(k)) < Window /\ ~HalfSent(k)
  /\ link' = [link EXCEPT ![k].c2s = Append(@, [id |-> id, part |-> part])]
  /\ UNCHANGED server

SendTail(k) ==
  /\ link[k].client /\ link[k].server /\ HalfSent(k)
  /\ link' = [link EXCEPT
       ![k].c2s = Append(@, [id |-> Sent(k)[Len(Sent(k))].id,
                             part |-> "tail"])]
  /\ UNCHANGED server

TakeAnswer(k) ==
  /\ link[k].client /\ link[k].s2c # <<>>
  /\ link' = [link EXCEPT ![k].s2c = Tail(@)]
  /\ UNCHANGED server

(* The client closes: it is done, it timed out, or its host is gone.       *)
Leave(k) ==
  /\ link[k].client
  /\ link' = [link EXCEPT ![k] = ClientCloses(@)]
  /\ UNCHANGED server

-----------------------------------------------------------------------------
Init ==
  /\ link = [k \in Links |-> NoLink]
  /\ listening = FALSE /\ backlog = <<>> /\ clients = <<>> /\ turn = <<>>
  /\ stage = "idle" /\ remaining = 0 /\ raised = 0

Polling ==
  Poll \/ HangUp \/ TooLarge \/ Receive \/ ReadRaises \/ Dispatch
    \/ DispatchRaises \/ FinishTurn

Next ==
  \/ Polling
  \/ Start \/ Dispose
  \/ \E k \in Links : Connect(k) \/ SendTail(k) \/ TakeAnswer(k) \/ Leave(k)
  \/ \E k \in Links, id \in Ids, part \in {"line", "head"} : Ask(k, id, part)

Spec == Init /\ [][Next]_vars

(* EditorApplication.update calls Poll again and again, and a Poll runs to *)
(* its end.  A client that has sent half a request sends the rest, and one *)
(* whose answer has arrived takes it.                                      *)
FairSpec ==
  /\ Spec
  /\ WF_vars(Polling)
  /\ \A k \in Links : WF_vars(SendTail(k)) /\ WF_vars(TakeAnswer(k))

-----------------------------------------------------------------------------
(* TYPES.  Every variable in its range; a Poll serves clients of the list, *)
(* in its order, within its budget (RoboVisionServer.cs:47-62).            *)
LinkType ==
  [client : BOOLEAN, server : BOOLEAN, c2s : Seq(Pieces), s2c : Seq(Answers),
   inbound : Seq(Pieces), outbound : Seq(Answers)]

TypeOK ==
  /\ link \in [Links -> LinkType]
  /\ listening \in BOOLEAN
  /\ backlog \in Seq(Links) /\ clients \in Seq(Links)
  /\ Len(turn) <= Len(clients) /\ turn = SubSeq(clients, 1, Len(turn))
  /\ stage \in {"idle", "read", "lines"} /\ (stage = "idle" <=> turn = <<>>)
  /\ remaining \in 0..Budget
  /\ raised \in 0..MaxRaises

(* IN ORDER.  On a connection that stays open the requests under way are   *)
(* one queue.  Those that stay keep their order; one that joins is behind  *)
(* all the others, one that leaves was the client's to take with nobody    *)
(* ahead of it, and only an exception that escapes takes one, and no more, *)
(* out of its middle.  Nothing else is lost, repeated or overtaken,        *)
(* whatever the kernel takes of a flush and whoever uses up the budget     *)
(* (RoboVisionServer.cs:106-162).                                          *)
Open(k) == link[k].client /\ link[k].server

Ahead(w, a, b) ==
  \E i, j \in Starts(w) : i < j /\ w[i].id = a /\ w[j].id = b

InOrder ==
  [][\A k \in Links : Open(k) /\ Open(k)' =>
       LET before == Wire(k)
           after == Wire(k)'
           gone == Requests(before) \ Requests(after)
           come == Requests(after) \ Requests(before)
       IN /\ \A a, b \in Requests(before) \cap Requests(after) :
               Ahead(after, a, b) <=> Ahead(before, a, b)
          /\ \A a \in come, b \in Requests(after) : ~Ahead(after, a, b)
          /\ \A a \in gone :
               \/ link'[k].s2c # link[k].s2c /\ \A b \in Ids : ~Ahead(before, b, a)
               \/ raised' # raised /\ gone = {a}]_vars

(* HEARD OUT.  While it listens, the server hangs up on a client that is   *)
(* still there only if that client is sending more than the limit: a slow  *)
(* reader, a used-up budget or an exception is no reason.  The requests of *)
(* such a client that were dispatched before are answered into the void    *)
(* (RoboVisionServer.cs:47-62, 93-97, 144-162).                            *)
HeardOut ==
  [][\A k \in Links :
       Open(k) /\ listening' /\ link'[k].client /\ ~link'[k].server =>
         \E i \in DOMAIN link[k].c2s : link[k].c2s[i].part = "head"]_vars

(* ANSWERED.  As long as the others together cannot use up the budget,     *)
(* and exceptions do not go on for ever, every request of a client that    *)
(* waits is answered, or its connection ends; the oldest client's too,     *)
(* which Poll serves last (RoboVisionServer.cs:52).                        *)
Pending(k, id) == Open(k) /\ id \in UnderWay(k)

Answered ==
  Window * (Cardinality(Links) - 1) < Budget =>
    \A k \in Links, id \in Ids : Pending(k, id) ~> ~Pending(k, id)
=============================================================================
