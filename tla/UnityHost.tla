----------------------------- MODULE UnityHost -----------------------------
(***************************************************************************)
(* The Unity host: RoboVisionHost with its RoboVisionTransactions, over    *)
(* the editor it shares with the user, and the domain reload, which        *)
(* constructs the static host again.                                       *)
(*                                                                         *)
(* Requests are dispatched from EditorApplication.update, so an action is  *)
(* one whole call on the editor's thread: one Dispatch of one request,     *)
(* Start, Stop, a reload, or one thing the user does between two updates.  *)
(*                                                                         *)
(* What Undo.RevertAllDownToGroup leaves is Unity's affair (changes made   *)
(* without Undo, records the stack has dropped, the dirty mark of a scene, *)
(* which the fingerprint covers): any scene.  The host believes only the   *)
(* fingerprint it takes afterwards.                                        *)
(***************************************************************************)
EXTENDS Naturals

CONSTANTS
  Shapes,       \* states of the loaded scenes, as CaptureState() sees them
  Agents,       \* clients that read the scene and send requests
  TxIds,        \* transaction identifiers
  None,         \* null
  MaxRevision,  \* bound: the host serves while its revision is below this
  Announced     \* the editor raises an event for every change it undergoes

ASSUME NoneAssumption ==
  None \notin Shapes /\ None \notin TxIds /\ None \notin Nat
ASSUME BoundAssumption == MaxRevision \in Nat
ASSUME AnnouncedAssumption == Announced \in BOOLEAN

VARIABLES
  scene,     \* what CaptureState() would return now
  running,   \* RoboVisionHost.Running: a server object holds a listener
  hooked,    \* Update and the change handlers are installed
  dirty,     \* _dirty
  lastFp,    \* _fingerprint; SHA-256 is taken to be injective
  revision,  \* _revision
  tx,        \* RoboVisionTransactions._active
  view,      \* what each agent last read, and whether a reload came since
  reply,     \* the answer to the request this step dispatched, if any
  \* History of the run, which no guard reads:
  owned,     \* fingerprint the last answer left the editor with
  foreign    \* a dispatch found the scene changed by someone else since BEGIN

host == <<running, hooked, dirty, lastFp, revision, tx>>
history == <<owned, foreign>>
vars == <<scene, host, view, reply, history>>

NoTransaction == [id |-> None, begin |-> None, external |-> None]
Transaction == [id : TxIds, begin : Shapes, external : Shapes \cup {None}]

NoView == [rev |-> None, shape |-> None, old |-> FALSE]
View == [rev : Nat, shape : Shapes, old : BOOLEAN]

Incomplete == {"ROLLBACK_INCOMPLETE", "MUTATION_RECOVERY_INCOMPLETE"}
Failures ==
  {"INVALID", "STALE_REVISION", "FAILED", "TRANSACTION_ACTIVE",
   "NO_TRANSACTION", "INVALID_PARAMS", "TRANSACTION_CONTAMINATED"}
Ops == {"read", "mutate", "begin", "commit", "rollback"}
Raised == "HOST_EXCEPTION"   \* an exception that nothing recovered from
Reply == [op : Ops, code : {"OK", Raised} \cup Failures \cup Incomplete,
          forced : BOOLEAN]
Silence == [op |-> "none", code |-> "none", forced |-> FALSE]

(* Ends that do not say what scene they leave; the last one says nothing.  *)
Unsure == Incomplete \cup {Raised, Silence.code}

-----------------------------------------------------------------------------
(* RefreshDirtyState, which opens every Dispatch.                          *)

(* MarkExternalChange: the first fingerprint the host did not produce      *)
(* marks the open transaction, whatever the transaction began at.          *)
MarkedNever(t, fp) == t
Marked(t, fp) ==
  IF t.id # None /\ t.external = None THEN [t EXCEPT !.external = fp] ELSE t

(* What the host believes after the check with the flag at d.              *)
Refreshed(d) ==
  LET moved == d /\ lastFp # None /\ scene # lastFp
  IN [fp  |-> IF d THEN scene ELSE lastFp,
      rev |-> IF moved THEN revision + 1 ELSE revision,
      tx  |-> IF moved THEN Marked(tx, scene) ELSE tx]

Now == Refreshed(dirty)

Serving == running /\ hooked /\ Now.rev < MaxRevision

(* The if_revision guard of a mutating tool.                               *)
AdmittedIfNotAhead(ifRev) == ifRev \in {None} \cup 0..Now.rev
Admitted(ifRev) == ifRev = None \/ ifRev = Now.rev

(* AcceptOwnMutation: a mutation that leaves the fingerprint as it was     *)
(* keeps the revision too.                                                 *)
AcceptedRevision(s) ==
  IF Now.fp # None /\ s # Now.fp THEN Now.rev + 1 ELSE Now.rev

-----------------------------------------------------------------------------
(* The history variables.  The last answer's fingerprint is not remembered *)
(* after a dispatch that does not say what it leaves.                      *)
ForeignSeen == tx.id # None /\ owned # None /\ scene # owned

Leaves(code) == owned' = IF code \in Unsure THEN None ELSE scene'

Noted(code) == Leaves(code) /\ foreign' = (foreign \/ ForeignSeen)

NotedAnew(code) == Leaves(code) /\ foreign' = FALSE

Answers(op, code, force) ==
  reply' = [op |-> op, code |-> code, forced |-> force]

Learned(a, rev, s) ==
  view' = [view EXCEPT ![a] = [rev |-> rev, shape |-> s, old |-> FALSE]]

-----------------------------------------------------------------------------
(* The check ran and nothing else changed.                                 *)
OnlyRefreshed ==
  /\ lastFp' = Now.fp /\ dirty' = FALSE /\ revision' = Now.rev
  /\ tx' = Now.tx
  /\ UNCHANGED <<scene, running, hooked>>

Refuse(op, code) ==
  /\ OnlyRefreshed
  /\ Answers(op, code, FALSE)
  /\ Noted(code)
  /\ UNCHANGED view

(* scene.snapshot, scene.diff, scene.describe, system.hello                *)
Read(a) ==
  /\ Serving
  /\ OnlyRefreshed
  /\ Learned(a, Now.rev, scene)
  /\ Answers("read", "OK", FALSE)
  /\ Noted("OK")

(* A request of another protocol, without a method, of an unknown tool,    *)
(* with an if_revision that is no number, or a read that raises.  (When    *)
(* the dirty check itself raises, nothing but the answer changes: the flag *)
(* stays up, as if the request had not come.)                              *)
Reject ==
  /\ Serving
  /\ Refuse("read", "INVALID")

RefuseStale(op, ifRev) ==
  /\ Serving
  /\ ~Admitted(ifRev)
  /\ Refuse(op, "STALE_REVISION")

(* PrepareMutation raises: there is no checkpoint, and nothing to recover. *)
MutateUnprepared(ifRev) ==
  /\ Serving
  /\ Admitted(ifRev)
  /\ Refuse("mutate", Raised)

-----------------------------------------------------------------------------
(* A mutating tool other than the transaction ones, after PrepareMutation  *)
(* opened an undo group.  Its handler leaves any scene s.                  *)
Mutate(a, ifRev, s) ==
  /\ Serving
  /\ Admitted(ifRev)
  /\ scene' = s
  /\ lastFp' = s /\ dirty' = FALSE /\ revision' = AcceptedRevision(s)
  /\ tx' = Now.tx
  /\ Learned(a, AcceptedRevision(s), s)
  /\ Answers("mutate", "OK", FALSE)
  /\ Noted("OK")
  /\ UNCHANGED <<running, hooked>>

(* RecoverFailedMutation after a handler raised and left s: nothing to     *)
(* revert if the fingerprint is the checkpoint's, otherwise a revert.      *)
RecoveryUnverified(s, e) == TRUE
Recovered(s, e) == e = scene
RecoveryEnds(s) == IF s = scene THEN {scene} ELSE Shapes

MutateFails(ifRev, s) ==
  /\ Serving
  /\ Admitted(ifRev)
  /\ \E e \in RecoveryEnds(s) :
       LET code == IF Recovered(s, e) THEN "FAILED"
                   ELSE "MUTATION_RECOVERY_INCOMPLETE"
       IN /\ scene' = e
          /\ lastFp' = IF Recovered(s, e) THEN scene ELSE Now.fp
          /\ dirty' = ~Recovered(s, e)
          /\ Answers("mutate", code, FALSE)
          /\ Noted(code)
  /\ revision' = Now.rev
  /\ tx' = Now.tx
  /\ UNCHANGED <<running, hooked, view>>

(* What the editor's events make of the flag after a dispatch that changed *)
(* the scene and accepted nothing of it.                                   *)
Unaccepted ==
  /\ dirty' \in IF Announced THEN {scene' # scene} ELSE BOOLEAN
  /\ lastFp' = Now.fp /\ revision' = Now.rev
  /\ UNCHANGED <<running, hooked, view>>

(* A fingerprint raises in the recovery, before the revert or after it.    *)
(* Only RoboVisionException is caught there: Dispatch is left without an   *)
(* answer, and without its flag set.                                       *)
MutateEscapes(ifRev, s) ==
  /\ Serving
  /\ Admitted(ifRev)
  /\ scene' \in RecoveryEnds(s)
  /\ Unaccepted
  /\ tx' = Now.tx
  /\ reply' = Silence
  /\ Noted(Silence.code)

-----------------------------------------------------------------------------
(* transaction.begin                                                       *)
Opened(id) == [id |-> id, begin |-> scene, external |-> None]

Begin(id) ==
  /\ Serving
  /\ tx.id = None
  /\ lastFp' = Now.fp /\ dirty' = FALSE /\ revision' = Now.rev
  /\ tx' = Opened(id)
  /\ Answers("begin", "OK", FALSE)
  /\ UNCHANGED <<scene, running, hooked, view>>
  /\ NotedAnew("OK")

RefuseBegin ==
  /\ Serving
  /\ \/ tx.id # None /\ Refuse("begin", "TRANSACTION_ACTIVE")
     \/ tx.id = None /\ Refuse("begin", Raised)

(* Require and AssertSafeOrForced.  A request may name any identifier, so  *)
(* always a wrong one.                                                     *)
SafeOrForced(force) == Now.tx.external = None \/ force

RefuseControl(op, id, force) ==
  /\ Serving
  /\ \/ tx.id = None /\ Refuse(op, "NO_TRANSACTION")
     \/ tx.id # None /\ Refuse(op, "INVALID_PARAMS")
     \/ /\ tx.id = id /\ ~SafeOrForced(force)
        /\ Refuse(op, "TRANSACTION_CONTAMINATED")

(* transaction.commit                                                      *)
Commit(id, force) ==
  /\ Serving
  /\ tx.id = id
  /\ SafeOrForced(force)
  /\ lastFp' = Now.fp /\ dirty' = FALSE /\ revision' = Now.rev
  /\ tx' = NoTransaction
  /\ Answers("commit", "OK", force)
  /\ UNCHANGED <<scene, running, hooked, view>>
  /\ NotedAnew("OK")

(* The groups are collapsed and the fingerprint after it raises: the       *)
(* transaction stays open.                                                 *)
CommitRaises(id, force) ==
  /\ Serving
  /\ tx.id = id
  /\ SafeOrForced(force)
  /\ Refuse("commit", Raised)

(* transaction.rollback: always reverts, then compares.                    *)
RestoredWhatever(e) == TRUE
Restored(e) == e = tx.begin

RollbackAllowed(ifRev, id, force) ==
  /\ Serving
  /\ Admitted(ifRev)
  /\ tx.id = id
  /\ SafeOrForced(force)

Rollback(ifRev, id, force) ==
  /\ RollbackAllowed(ifRev, id, force)
  /\ \E e \in Shapes :
       /\ Restored(e)
       /\ scene' = e /\ lastFp' = e
       /\ revision' = AcceptedRevision(e)
  /\ dirty' = FALSE
  /\ tx' = NoTransaction
  /\ Answers("rollback", "OK", force)
  /\ UNCHANGED <<running, hooked, view>>
  /\ NotedAnew("OK")

(* The comparison fails.  The host does not raise its flag: it relies on   *)
(* the event for what the revert changed.                                  *)
RollbackIncomplete(ifRev, id, force) ==
  /\ RollbackAllowed(ifRev, id, force)
  /\ scene' \in Shapes /\ ~Restored(scene')
  /\ Unaccepted
  /\ tx' = Now.tx
  /\ Answers("rollback", "ROLLBACK_INCOMPLETE", force)
  /\ Noted("ROLLBACK_INCOMPLETE")

(* The fingerprint after the revert raises, whatever the revert left.      *)
RollbackRaises(ifRev, id, force) ==
  /\ RollbackAllowed(ifRev, id, force)
  /\ scene' \in Shapes
  /\ Unaccepted
  /\ tx' = Now.tx
  /\ Answers("rollback", Raised, force)
  /\ Noted(Raised)

(* The scene is back and the transaction closed, and AcceptOwnMutation     *)
(* raises: the agent is told of an exception only.                         *)
RollbackUnaccepted(ifRev, id, force) ==
  /\ RollbackAllowed(ifRev, id, force)
  /\ scene' \in Shapes /\ Restored(scene')
  /\ Unaccepted
  /\ tx' = NoTransaction
  /\ Answers("rollback", Raised, force)
  /\ NotedAnew(Raised)

-----------------------------------------------------------------------------
(* The host's life.                                                        *)
StartKeepingFlag == dirty
StartFlag == TRUE

Start ==
  /\ ~running
  /\ Refreshed(StartFlag).rev <= MaxRevision
  /\ running' = TRUE /\ hooked' = TRUE
  /\ lastFp' = Refreshed(StartFlag).fp /\ dirty' = FALSE
  /\ revision' = Refreshed(StartFlag).rev
  /\ tx' = Refreshed(StartFlag).tx
  /\ reply' = Silence
  /\ UNCHANGED <<scene, view>>
  /\ Noted("OK")

(* Bind or the first fingerprint raises: a listener exists, so the host    *)
(* calls itself running, but nothing was installed.  Only Stop leaves it.  *)
StartFails ==
  /\ ~running
  /\ running' = TRUE
  /\ dirty' \in {dirty, TRUE}
  /\ reply' = Silence
  /\ UNCHANGED <<scene, hooked, lastFp, revision, tx, view, history>>

HandlersKept == hooked
HandlersRemoved == FALSE

Stop ==
  /\ running' = FALSE /\ hooked' = HandlersRemoved
  /\ reply' = Silence
  /\ UNCHANGED <<scene, dirty, lastFp, revision, tx, view, history>>

(* beforeAssemblyReload stops the host; Instance is constructed again.     *)
Reload ==
  /\ running' = FALSE /\ hooked' = FALSE
  /\ dirty' = TRUE /\ lastFp' = None /\ revision' = 0
  /\ tx' = NoTransaction
  /\ view' = [a \in Agents |->
               IF view[a] = NoView THEN NoView
                                   ELSE [view[a] EXCEPT !.old = TRUE]]
  /\ reply' = Silence
  /\ owned' = None /\ foreign' = FALSE
  /\ UNCHANGED scene

(* The user, a script, or Unity's own undo changes the scene; an installed *)
(* handler (hierarchy, project, undo/redo, property modifications) raises  *)
(* the flag.                                                               *)
Notified == IF Announced THEN {dirty \/ hooked} ELSE {dirty, dirty \/ hooked}

Edit(s) ==
  /\ s # scene
  /\ scene' = s
  /\ dirty' \in Notified
  /\ reply' = Silence
  /\ UNCHANGED <<running, hooked, lastFp, revision, tx, view, history>>

(* A handler also runs when nothing the fingerprint shows has changed, and *)
(* late, for the host's own mutation.                                      *)
Notify ==
  /\ hooked
  /\ dirty' = TRUE
  /\ reply' = Silence
  /\ UNCHANGED <<scene, running, hooked, lastFp, revision, tx, view, history>>

-----------------------------------------------------------------------------
Init ==
  /\ scene \in Shapes
  /\ running = FALSE /\ hooked = FALSE
  /\ dirty = TRUE /\ lastFp = None /\ revision = 0
  /\ tx = NoTransaction
  /\ view = [a \in Agents |-> NoView]
  /\ reply = Silence
  /\ owned = None /\ foreign = FALSE

Guards == {None} \cup {view[a].rev : a \in Agents}

Requests ==
  \/ \E a \in Agents : Read(a)
  \/ Reject
  \/ \E op \in {"mutate", "rollback"}, g \in Guards : RefuseStale(op, g)
  \/ \E a \in Agents, s \in Shapes : \E g \in {None, view[a].rev} :
       Mutate(a, g, s)
  \/ \E g \in Guards : MutateUnprepared(g)
  \/ \E g \in Guards, s \in Shapes : MutateFails(g, s)
  \/ \E g \in Guards, s \in Shapes : MutateEscapes(g, s)
  \/ \E id \in TxIds : Begin(id)
  \/ RefuseBegin
  \/ \E op \in {"commit", "rollback"}, id \in TxIds, f \in BOOLEAN :
       RefuseControl(op, id, f)
  \/ \E id \in TxIds, f \in BOOLEAN : Commit(id, f)
  \/ \E id \in TxIds, f \in BOOLEAN : CommitRaises(id, f)
  \/ \E g \in Guards, id \in TxIds, f \in BOOLEAN : Rollback(g, id, f)
  \/ \E g \in Guards, id \in TxIds, f \in BOOLEAN :
       RollbackIncomplete(g, id, f)
  \/ \E g \in Guards, id \in TxIds, f \in BOOLEAN : RollbackRaises(g, id, f)
  \/ \E g \in Guards, id \in TxIds, f \in BOOLEAN :
       RollbackUnaccepted(g, id, f)

Life == Start \/ StartFails \/ Stop \/ Reload

User == (\E s \in Shapes : Edit(s)) \/ Notify

Next == Requests \/ Life \/ User

Spec == Init /\ [][Next]_vars

-----------------------------------------------------------------------------
(* TYPES.  Every variable stays in its range; an open transaction always   *)
(* has a begin fingerprint, and a host with its handlers installed has a   *)
(* listener (RoboVisionHost.cs:71-81, RoboVisionTransactions.cs:17-26).    *)
TypeOK ==
  /\ scene \in Shapes
  /\ running \in BOOLEAN /\ hooked \in BOOLEAN /\ (hooked => running)
  /\ dirty \in BOOLEAN
  /\ lastFp \in Shapes \cup {None}
  /\ revision \in 0..MaxRevision
  /\ tx \in Transaction \cup {NoTransaction}
  /\ view \in [Agents -> View \cup {NoView}]
  /\ reply \in Reply \cup {Silence}
  /\ owned \in Shapes \cup {None} /\ foreign \in BOOLEAN

(* IN SYNC.  While the handlers are installed and the flag is down, the    *)
(* cached fingerprint is the scene's, whoever changed it last, after a     *)
(* failed start, a reload, a failed recovery or an incomplete rollback too *)
(* (RoboVisionHost.cs:165-190).  Assumes that changes are announced.       *)
InSync == Announced /\ hooked /\ ~dirty => lastFp = scene

(* NO STALE WRITE.  A request guarded by a revision read from this domain  *)
(* is admitted only if the scene it will act on is the one that was read   *)
(* with it (RoboVisionHost.cs:211-222).                                    *)
NoStaleWrite ==
  \A a \in Agents :
    /\ Announced /\ Serving /\ view[a] # NoView /\ ~view[a].old
    /\ Admitted(view[a].rev)
    => view[a].shape = scene

(* FAILURE KEEPS STATE.  What an agent may conclude from an error.  One    *)
(* with a cause of its own leaves the scene as it was, after a recovery    *)
(* too; neither it nor an incomplete end closes, replaces or rebases the   *)
(* open transaction.  HOST_EXCEPTION says as much, but for a rollback: it  *)
(* may have reverted to any scene, or the transaction may be gone and the  *)
(* scene at its base.  Whatever changed, the flag is up if changes are     *)
(* announced (RoboVisionHost.cs:192-302, RoboVisionTransactions.cs:45-147).*)
SameTransaction == tx'.id = tx.id /\ tx'.begin = tx.begin

FailureKeepsState ==
  [][/\ reply'.code \in Failures => scene' = scene
     /\ reply'.code \in Failures \cup Incomplete => SameTransaction
     /\ reply'.code = Raised /\ scene' # scene =>
          reply'.op = "rollback" /\ (Announced => dirty')
     /\ reply'.code = Raised /\ ~SameTransaction =>
          reply'.op = "rollback" /\ tx'.id = None /\ scene' = tx.begin]_vars

(* CLEAN CLOSE.  A transaction that ended without force never contained a  *)
(* state that someone else made and a request of it found, over stops and  *)
(* restarts of the server too (RoboVisionTransactions.cs:30-34, 149-162).  *)
CleanClose ==
  [][/\ Announced
     /\ reply'.op \in {"commit", "rollback"}
     /\ reply'.code = "OK" /\ ~reply'.forced
     => ~foreign /\ ~ForeignSeen]_vars

(* CONTRACT.  Between two reloads of its domain the host keeps what        *)
(* HostContract promises (docs/HOST_CONTRACT.md:3).                        *)
Ended ==
  IF reply.op \in {"commit", "rollback"} /\ reply.code = "OK"
    THEN [how |-> reply.op, forced |-> reply.forced]
  ELSE IF reply.op = "rollback" /\ reply.code = Raised /\ tx.id = None
    THEN [how |-> "dropped", forced |-> reply.forced]
    ELSE [how |-> "none", forced |-> FALSE]

Contract == INSTANCE HostContract WITH
  States <- Shapes, Ids <- TxIds,
  known <- lastFp, current <- revision,
  open <- [id |-> tx.id, base |-> tx.begin],
  tainted <- (tx.external # None),
  ended <- Ended

KeepsContract == Contract!Init /\ [][Reload \/ Contract!Next]_(Contract!vars)

(* STALE IS REFUSED.  A guarded request never acts on a scene other than   *)
(* the one its revision was read with, whatever happened since: "if the    *)
(* editor changed since the agent inspected it, the host returns           *)
(* STALE_REVISION" (docs/ARCHITECTURE.md:59).  A reload starts revisions   *)
(* over (RoboVisionBootstrap.cs:13-22, RoboVisionHost.cs:71).              *)
StaleIsRefused ==
  \A a \in Agents :
    Serving /\ view[a] # NoView /\ Admitted(view[a].rev) =>
      view[a].shape = scene
=============================================================================
