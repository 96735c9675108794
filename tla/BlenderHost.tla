---------------------------- MODULE BlenderHost ----------------------------
(***************************************************************************)
(* The Blender host: RoboVisionRuntime (runtime.py) with its               *)
(* TransactionManager (transactions.py), over the editor they share with   *)
(* the user.                                                               *)
(*                                                                         *)
(* Everything here runs on Blender's main thread, so an action is one      *)
(* whole call: one dispatch() of one request, start(), stop(), or one      *)
(* thing the user does between two timer ticks.  The interleaving that     *)
(* matters is between the user's edits and the agents' requests.           *)
(***************************************************************************)
EXTENDS Naturals, Sequences, BlenderEditor

CONSTANTS
  Agents,         \* clients that read the scene and send requests
  TxIds,          \* transaction identifiers
  None,           \* Python's None
  MaxRevision,    \* bound: the highest revision a behaviour reaches
  RollbackLimits, \* values of max_steps a rollback request may carry
  RecoveryLimit   \* max_steps of recover_failed_mutation

ASSUME NoneAssumption ==
  None \notin Shapes /\ None \notin TxIds /\ None \notin Nat
ASSUME BoundAssumption ==
  /\ MaxRevision \in Nat
  /\ RollbackLimits \subseteq Nat
  /\ RecoveryLimit \in Nat

VARIABLES
  scene,     \* what is in Blender now
  undo,      \* Blender's undo history
  running,   \* the server listens, its timer and handler are installed
  dirty,     \* RoboVisionRuntime._dirty
  lastFp,    \* RoboVisionRuntime._last_fingerprint
  revision,  \* RoboVisionRuntime.revision
  tx,        \* TransactionManager.active
  view,      \* what each agent last read: a revision and the shape it saw
  reply,     \* the answer to the request this step dispatched, if any
  \* History of the run, which no guard reads:
  atBegin,   \* the whole scene when the transaction began
  beginAt,   \* where BEGIN's boundary is in the undo history, 0 when nowhere
  owned,     \* fingerprint the last answer in the transaction left behind
  foreign,   \* a dispatch found the scene changed by someone else since BEGIN
  unsure     \* or ended itself without saying what it left

editor == <<scene, undo>>
host == <<running, dirty, lastFp, revision, tx>>
history == <<atBegin, beginAt, owned, foreign, unsure>>
vars == <<editor, host, view, reply, history>>

NoTransaction == [id |-> None, begin |-> None, external |-> None]
Transaction == [id : TxIds, begin : Shapes, external : Shapes \cup {None}]

NoView == [rev |-> None, shape |-> None]
View == [rev : Nat, shape : Shapes]

Incomplete == {"ROLLBACK_INCOMPLETE", "MUTATION_RECOVERY_INCOMPLETE"}
Failures ==
  {"INVALID", "STALE_REVISION", "NO_UNDO_BOUNDARY", "FAILED",
   "TRANSACTION_ACTIVE", "NO_TRANSACTION", "INVALID_PARAMS",
   "TRANSACTION_CONTAMINATED"}
Ops == {"read", "mutate", "begin", "commit", "rollback"}
Raised == "HOST_EXCEPTION"   \* an exception that nothing recovered from
Reply == [op : Ops, code : {"OK", Raised} \cup Failures \cup Incomplete,
          forced : BOOLEAN]
Silence == [op |-> "none", code |-> "none", forced |-> FALSE]

(* Ends that do not say what scene they leave; the last one says nothing.  *)
Unsure == Incomplete \cup {Raised, Silence.code}

-----------------------------------------------------------------------------
(* The dirty check, _refresh_dirty_state, which opens every dispatch.      *)

(* mark_external_change: a fingerprint the host did not produce marks the  *)
(* open transaction, once, unless it is the one the transaction began at.  *)
MarkedLatest(t, fp) ==
  IF t.id # None
    THEN [t EXCEPT !.external = IF fp = t.begin THEN None ELSE fp] ELSE t
Marked(t, fp) ==
  IF t.id # None /\ t.external = None /\ fp # t.begin
    THEN [t EXCEPT !.external = fp] ELSE t

(* What the host believes once the check has run with the flag at d: the   *)
(* fingerprint it caches, the revision and the transaction.                *)
RefreshedWheneverDirty(d) ==
  LET fp == Fingerprint(scene)
      moved == d /\ lastFp # None
  IN [fp  |-> IF d THEN fp ELSE lastFp,
      rev |-> IF moved THEN revision + 1 ELSE revision,
      tx  |-> IF moved THEN Marked(tx, fp) ELSE tx]
Refreshed(d) ==
  LET fp == Fingerprint(scene)
      moved == d /\ lastFp # None /\ fp # lastFp
  IN [fp  |-> IF d THEN fp ELSE lastFp,
      rev |-> IF moved THEN revision + 1 ELSE revision,
      tx  |-> IF moved THEN Marked(tx, fp) ELSE tx]

Now == Refreshed(dirty)

(* MaxRevision cuts a behaviour before the dispatch that would pass it.    *)
Serving == running /\ Now.rev <= MaxRevision
MayAccept == Now.rev < MaxRevision

(* The optimistic-concurrency guard of a mutating method.                  *)
AdmittedIfNotAhead(ifRev) == ifRev \in {None} \cup 0..Now.rev
Admitted(ifRev) == ifRev = None \/ ifRev = Now.rev

(* _accept_own_mutation's revision.                                        *)
AcceptedRevisionUnchanged == Now.rev
AcceptedRevision == Now.rev + 1

-----------------------------------------------------------------------------
(* The history variables.  After a dispatch that does not say what it      *)
(* leaves behind, nobody knows whose a change is; once one was foreign,    *)
(* neither matters any more.                                               *)
ForeignSeen ==
  /\ tx.id # None /\ owned # None
  /\ Fingerprint(scene) \notin {owned, tx.begin}

Leaves(code) ==
  owned' = IF code \in Unsure \/ tx'.id = None \/ foreign' THEN None
           ELSE Fingerprint(scene')

(* BEGIN's boundary moves down when a full history takes one more.         *)
BeginAfterPush ==
  IF beginAt > 0 /\ Len(undo) = UndoCapacity THEN beginAt - 1 ELSE beginAt

BeginFollows(at) == beginAt' = IF at <= Len(undo') THEN at ELSE 0

NotedAt(code, at) ==
  /\ foreign' = (foreign \/ ForeignSeen)
  /\ unsure' = (~foreign' /\ (unsure \/ (tx.id # None /\ code \in Unsure)))
  /\ Leaves(code)
  /\ BeginFollows(at)
  /\ UNCHANGED atBegin

Noted(code) == NotedAt(code, beginAt)
NotedPush(code) == NotedAt(code, BeginAfterPush)

NotedClose ==
  /\ atBegin' = None /\ beginAt' = 0 /\ owned' = None
  /\ foreign' = FALSE /\ unsure' = FALSE

-----------------------------------------------------------------------------
(* Answers.                                                                *)
Answers(op, code, force) ==
  reply' = [op |-> op, code |-> code, forced |-> force]

(* The dirty check ran and nothing else changed.                           *)
OnlyRefreshed ==
  /\ lastFp' = Now.fp /\ dirty' = FALSE /\ revision' = Now.rev
  /\ tx' = Now.tx
  /\ UNCHANGED <<scene, undo, running>>

Refuse(op, code) ==
  /\ OnlyRefreshed
  /\ Answers(op, code, FALSE)
  /\ Noted(code)
  /\ UNCHANGED view

(* scene.snapshot, scene.diff, system.hello: an agent learns the revision  *)
(* and the scene it stands for.                                            *)
Read(a) ==
  /\ Serving
  /\ OnlyRefreshed
  /\ view' = [view EXCEPT
                ![a] = [rev |-> Now.rev, shape |-> Fingerprint(scene)]]
  /\ Answers("read", "OK", FALSE)
  /\ Noted("OK")

(* A request that fails validation, names an unknown method, needs a UI in *)
(* background mode, or is a read that raises.  (When the dirty check       *)
(* itself raises, nothing but the answer changes: the flag stays up, as if *)
(* the request had not come.)                                              *)
Reject ==
  /\ Serving
  /\ Refuse("read", "INVALID")

(* if_revision names another revision than the scene's.                    *)
RefuseStale(op, ifRev) ==
  /\ Serving
  /\ ~Admitted(ifRev)
  /\ Refuse(op, "STALE_REVISION")

(* _push_undo raises: Global Undo is off, or the operator is refused.      *)
(* Nothing was changed yet, and prepare_mutation left no checkpoint, so no *)
(* recovery is tried.                                                      *)
MutateWithoutBoundary(ifRev) ==
  /\ Serving
  /\ Admitted(ifRev)
  /\ Refuse("mutate", "NO_UNDO_BOUNDARY")

-----------------------------------------------------------------------------
(* A mutating method other than the transaction ones.  The handler is the  *)
(* editor's: it leaves any scene s.  The answer tells the agent what its   *)
(* own change made of the scene, and the revision that stands for it.      *)
Mutate(a, ifRev, s) ==
  /\ Serving /\ MayAccept
  /\ Admitted(ifRev)
  /\ scene' = s
  /\ undo' = Pushed(undo, scene)
  /\ lastFp' = Fingerprint(s) /\ dirty' = FALSE
  /\ revision' = AcceptedRevision
  /\ tx' = Now.tx
  /\ view' = [view EXCEPT
                ![a] = [rev |-> AcceptedRevision, shape |-> Fingerprint(s)]]
  /\ Answers("mutate", "OK", FALSE)
  /\ NotedPush("OK")
  /\ UNCHANGED running

(* recover_failed_mutation: nothing to undo if the handler changed nothing *)
(* a fingerprint shows; otherwise undo until the checkpoint's fingerprint  *)
(* is back.                                                                *)
RecoveryEndsUnverified(s) ==
  LET made == Pushed(undo, scene)
  IN {[scene |-> SceneAt(s, made, p), undo |-> HistoryAt(made, p),
       recovered |-> TRUE] :
        p \in UndoLoopEnds(s, made, Fingerprint(scene), RecoveryLimit)}
RecoveryEnds(s) ==
  LET made == Pushed(undo, scene)
      target == Fingerprint(scene)
      ends == IF Fingerprint(s) = target THEN {0}
              ELSE UndoLoopEnds(s, made, target, RecoveryLimit)
  IN {[scene |-> SceneAt(s, made, p), undo |-> HistoryAt(made, p),
       recovered |-> Fingerprint(SceneAt(s, made, p)) = target] : p \in ends}

(* The handler raises after leaving the scene at s, and                    *)
(* _recover_failed_operation restores the checkpoint or gives up.          *)
MutateFails(ifRev, s) ==
  /\ Serving
  /\ Admitted(ifRev)
  /\ revision' = Now.rev
  /\ tx' = Now.tx
  /\ \E e \in RecoveryEnds(s) :
       LET code == IF e.recovered THEN "FAILED"
                   ELSE "MUTATION_RECOVERY_INCOMPLETE"
       IN /\ scene' = e.scene
          /\ undo' = e.undo
          /\ lastFp' = IF e.recovered THEN Fingerprint(scene) ELSE Now.fp
          /\ dirty' = ~e.recovered
          /\ Answers("mutate", code, FALSE)
          /\ NotedPush(code)
  /\ UNCHANGED <<running, view>>

(* The recovery itself raises, in an undo or in the snapshot after it, on  *)
(* the checkpoint too.  Only HostError is caught there: dispatch is left   *)
(* without an answer, and without its flag set.                            *)
MutateEscapes(ifRev, s) ==
  /\ Serving
  /\ Admitted(ifRev)
  /\ \E e \in RecoveryEnds(s) :
       /\ scene' = e.scene /\ undo' = e.undo
       /\ dirty' = (e.scene # scene)
  /\ lastFp' = Now.fp /\ revision' = Now.rev
  /\ tx' = Now.tx
  /\ reply' = Silence
  /\ NotedPush(Silence.code)
  /\ UNCHANGED <<running, view>>

-----------------------------------------------------------------------------
(* transaction.begin                                                       *)
OpenedWithoutSnapshot(id) ==
  [id |-> id, begin |-> None, external |-> None]
Opened(id) ==
  [id |-> id, begin |-> Fingerprint(scene), external |-> None]

Begin(id) ==
  /\ Serving
  /\ tx.id = None
  /\ undo' = Pushed(undo, scene)
  /\ tx' = Opened(id)
  /\ lastFp' = Now.fp /\ dirty' = FALSE /\ revision' = Now.rev
  /\ Answers("begin", "OK", FALSE)
  /\ atBegin' = scene /\ beginAt' = Len(undo')
  /\ foreign' = FALSE /\ unsure' = FALSE
  /\ UNCHANGED <<scene, running, view>>
  /\ Leaves("OK")

RefuseBegin ==
  /\ Serving
  /\ \/ tx.id # None /\ Refuse("begin", "TRANSACTION_ACTIVE")
     \/ tx.id = None /\ Refuse("begin", "NO_UNDO_BOUNDARY")

(* _require and _assert_safe_or_forced: which end of which transaction is  *)
(* allowed.  A request may name any identifier, so always a wrong one.     *)
SafeOrForced(force) == Now.tx.external = None \/ force

RefuseControl(op, id, force) ==
  /\ Serving
  /\ \/ tx.id = None /\ Refuse(op, "NO_TRANSACTION")
     \/ tx.id # None /\ Refuse(op, "INVALID_PARAMS")
     \/ /\ tx.id = id /\ ~SafeOrForced(force)
        /\ Refuse(op, "TRANSACTION_CONTAMINATED")

(* transaction.commit                                                      *)
Commit(id, force) ==
  /\ Serving
  /\ tx.id = id
  /\ SafeOrForced(force)
  /\ undo' = Pushed(undo, scene)
  /\ tx' = NoTransaction
  /\ lastFp' = Now.fp /\ dirty' = FALSE /\ revision' = Now.rev
  /\ Answers("commit", "OK", force)
  /\ UNCHANGED <<scene, running, view>>
  /\ NotedClose

(* The boundary is pushed and the snapshot after it raises: the            *)
(* transaction stays open.                                                 *)
CommitRaises(id, force) ==
  /\ Serving
  /\ tx.id = id
  /\ SafeOrForced(force)
  /\ undo' = Pushed(undo, scene)
  /\ tx' = Now.tx
  /\ lastFp' = Now.fp /\ dirty' = FALSE /\ revision' = Now.rev
  /\ Answers("commit", Raised, force)
  /\ NotedPush(Raised)
  /\ UNCHANGED <<scene, running, view>>

CommitWithoutBoundary(id, force) ==
  /\ Serving
  /\ tx.id = id
  /\ SafeOrForced(force)
  /\ Refuse("commit", "NO_UNDO_BOUNDARY")

(* transaction.rollback: done at once if the fingerprint already is the    *)
(* one of begin, whatever happened in between; otherwise undo until it is. *)
RollbackEndsAtOnce(limit) ==
  {[scene |-> scene, undo |-> undo, restored |-> TRUE]}
RollbackEndsPastBegin(limit) ==
  LET ends == {p \in 1..Len(undo) : Len(undo) - p <= limit} \cup {0}
  IN {[scene |-> SceneAt(scene, undo, p), undo |-> HistoryAt(undo, p),
       restored |-> Fingerprint(SceneAt(scene, undo, p)) = tx.begin] :
         p \in ends}
RollbackEnds(limit) ==
  LET ends == IF Fingerprint(scene) = tx.begin THEN {0}
              ELSE UndoLoopEnds(scene, undo, tx.begin, limit)
  IN {[scene |-> SceneAt(scene, undo, p), undo |-> HistoryAt(undo, p),
       restored |-> Fingerprint(SceneAt(scene, undo, p)) = tx.begin] :
         p \in ends}

RollbackAllowed(ifRev, id, force) ==
  /\ Serving
  /\ Admitted(ifRev)
  /\ tx.id = id
  /\ SafeOrForced(force)

Rollback(ifRev, id, force, limit) ==
  /\ RollbackAllowed(ifRev, id, force) /\ MayAccept
  /\ \E e \in RollbackEnds(limit) :
       /\ e.restored
       /\ scene' = e.scene /\ undo' = e.undo
       /\ lastFp' = Fingerprint(e.scene)
  /\ dirty' = FALSE
  /\ revision' = AcceptedRevision
  /\ tx' = NoTransaction
  /\ Answers("rollback", "OK", force)
  /\ NotedClose
  /\ UNCHANGED <<running, view>>

(* An end that dispatch accepts nothing of: there is no checkpoint to      *)
(* recover to.  The depsgraph handler sees the undo steps and sets the     *)
(* flag.                                                                   *)
RollbackUnfinished(e, code, force) ==
  /\ scene' = e.scene /\ undo' = e.undo
  /\ dirty' = (e.scene # scene)
  /\ lastFp' = Now.fp /\ revision' = Now.rev
  /\ Answers("rollback", code, force)
  /\ UNCHANGED <<running, view>>

(* The loop ends without a match and rollback raises.                      *)
RollbackIncomplete(ifRev, id, force, limit) ==
  /\ RollbackAllowed(ifRev, id, force)
  /\ \E e \in RollbackEnds(limit) :
       ~e.restored /\ RollbackUnfinished(e, "ROLLBACK_INCOMPLETE", force)
  /\ tx' = Now.tx
  /\ Noted("ROLLBACK_INCOMPLETE")

(* ed.undo, or the snapshot after it, raises on the way, on the step that  *)
(* would have matched too.                                                 *)
RollbackRaises(ifRev, id, force, limit) ==
  /\ RollbackAllowed(ifRev, id, force)
  /\ \E e \in RollbackEnds(limit) : RollbackUnfinished(e, Raised, force)
  /\ tx' = Now.tx
  /\ Noted(Raised)

(* The scene is back and the transaction closed, and _accept_own_mutation  *)
(* raises: the agent is told of an exception only.                         *)
RollbackUnaccepted(ifRev, id, force, limit) ==
  /\ RollbackAllowed(ifRev, id, force)
  /\ \E e \in RollbackEnds(limit) :
       e.restored /\ RollbackUnfinished(e, Raised, force)
  /\ tx' = NoTransaction
  /\ NotedClose

-----------------------------------------------------------------------------
(* The server's life, and the user.                                        *)
StartKeepingFlag == dirty
StartFlag == TRUE

(* start(): the flag is set, the check runs, the handler is installed.     *)
Start ==
  /\ ~running
  /\ Refreshed(StartFlag).rev <= MaxRevision
  /\ running' = TRUE
  /\ lastFp' = Refreshed(StartFlag).fp /\ dirty' = FALSE
  /\ revision' = Refreshed(StartFlag).rev
  /\ tx' = Refreshed(StartFlag).tx
  /\ reply' = Silence
  /\ UNCHANGED <<scene, undo, view>>
  /\ Noted("OK")

(* The check raises: start() leaves no timer and no handler behind, so     *)
(* nothing is served until it is stopped and started again.                *)
StartFails ==
  /\ ~running
  /\ dirty' = StartFlag
  /\ reply' = Silence
  /\ UNCHANGED <<editor, running, lastFp, revision, tx, view, history>>

(* stop(): nothing the host believes is reset, an open transaction too.    *)
Stop ==
  /\ running
  /\ running' = FALSE
  /\ reply' = Silence
  /\ UNCHANGED <<scene, undo, dirty, lastFp, revision, tx, view, history>>

(* Blender runs the depsgraph handler after a change, before the next      *)
(* timer tick, while the handler is installed.                             *)
Notified == dirty \/ running

UserDid ==
  /\ dirty' = Notified
  /\ reply' = Silence
  /\ UNCHANGED <<running, lastFp, revision, tx, view>>
  /\ UNCHANGED <<atBegin, owned, foreign, unsure>>

(* The user or a script edits; an operator leaves a boundary behind, a     *)
(* script may not.                                                         *)
Edit(s, bounded) ==
  /\ s # scene
  /\ scene' = s
  /\ undo' = IF bounded THEN Pushed(undo, s) ELSE undo
  /\ BeginFollows(IF bounded THEN BeginAfterPush ELSE beginAt)
  /\ UserDid

(* Ctrl+Z                                                                  *)
UserUndo ==
  /\ \E p \in UndoStops(scene, undo) :
       /\ scene' = SceneAt(scene, undo, p)
       /\ undo' = HistoryAt(undo, p)
  /\ BeginFollows(beginAt)
  /\ UserDid

(* Another file is opened: the history starts again, the host goes on.     *)
LoadFile(s) ==
  /\ scene' = s
  /\ undo' = <<s>> /\ beginAt' = 0
  /\ UserDid

(* The handler also runs when nothing a fingerprint shows has changed.     *)
Notify ==
  /\ running
  /\ UNCHANGED <<scene, undo, beginAt>>
  /\ UserDid

-----------------------------------------------------------------------------
Init ==
  /\ scene \in Scene
  /\ undo = <<scene>>
  /\ running = FALSE /\ dirty = TRUE /\ lastFp = None /\ revision = 0
  /\ tx = NoTransaction
  /\ view = [a \in Agents |-> NoView]
  /\ reply = Silence
  /\ atBegin = None /\ beginAt = 0
  /\ owned = None /\ foreign = FALSE /\ unsure = FALSE

(* A request carries no if_revision, or the one its sender has last        *)
(* learned.                                                                *)
Guards == {None} \cup {view[a].rev : a \in Agents}

Requests ==
  \/ \E a \in Agents : Read(a)
  \/ Reject
  \/ \E op \in {"mutate", "rollback"}, g \in Guards : RefuseStale(op, g)
  \/ \E g \in Guards : MutateWithoutBoundary(g)
  \/ \E a \in Agents, s \in Scene : \E g \in {None, view[a].rev} :
       Mutate(a, g, s)
  \/ \E g \in Guards, s \in Scene : MutateFails(g, s)
  \/ \E g \in Guards, s \in Scene : MutateEscapes(g, s)
  \/ \E id \in TxIds : Begin(id)
  \/ RefuseBegin
  \/ \E op \in {"commit", "rollback"}, id \in TxIds, f \in BOOLEAN :
       RefuseControl(op, id, f)
  \/ \E id \in TxIds, f \in BOOLEAN : Commit(id, f)
  \/ \E id \in TxIds, f \in BOOLEAN : CommitRaises(id, f)
  \/ \E id \in TxIds, f \in BOOLEAN : CommitWithoutBoundary(id, f)
  \/ \E g \in Guards, id \in TxIds, f \in BOOLEAN, n \in RollbackLimits :
       Rollback(g, id, f, n)
  \/ \E g \in Guards, id \in TxIds, f \in BOOLEAN, n \in RollbackLimits :
       RollbackIncomplete(g, id, f, n)
  \/ \E g \in Guards, id \in TxIds, f \in BOOLEAN, n \in RollbackLimits :
       RollbackRaises(g, id, f, n)
  \/ \E g \in Guards, id \in TxIds, f \in BOOLEAN, n \in RollbackLimits :
       RollbackUnaccepted(g, id, f, n)

User ==
  \/ \E s \in Scene, bounded \in BOOLEAN : Edit(s, bounded)
  \/ UserUndo
  \/ \E s \in Scene : LoadFile(s)
  \/ Notify

Next == Requests \/ Start \/ StartFails \/ Stop \/ User

Spec == Init /\ [][Next]_vars

-----------------------------------------------------------------------------
(* TYPES.  Every variable stays in its range: a transaction is open with a *)
(* begin fingerprint or there is none, and the history is never empty nor  *)
(* over its capacity (runtime.py:22-32, transactions.py:12-22).            *)
TypeOK ==
  /\ scene \in Scene
  /\ undo \in Seq(Scene) /\ Len(undo) \in 1..UndoCapacity
  /\ running \in BOOLEAN /\ dirty \in BOOLEAN
  /\ lastFp \in Shapes \cup {None}
  /\ revision \in 0..MaxRevision
  /\ tx \in Transaction \cup {NoTransaction}
  /\ view \in [Agents -> View \cup {NoView}]
  /\ reply \in Reply \cup {Silence}
  /\ atBegin \in Scene \cup {None} /\ beginAt \in 0..Len(undo)
  /\ owned \in Shapes \cup {None}
  /\ foreign \in BOOLEAN /\ unsure \in BOOLEAN

(* IN SYNC.  While the server runs and its dirty flag is down, the cached  *)
(* fingerprint is the fingerprint of the scene, whoever changed it last:   *)
(* skipping the deep snapshot then is right (runtime.py:78-94).            *)
InSync == running /\ ~dirty => lastFp = Fingerprint(scene)

(* NO STALE WRITE.  Whenever a request guarded by the revision an agent    *)
(* last learned is admitted, the scene it will act on has the fingerprint  *)
(* that agent learned with it: an edit by the user, another agent, an undo *)
(* or a failed recovery in between is refused (runtime.py:145).            *)
NoStaleWrite ==
  \A a \in Agents :
    Serving /\ view[a] # NoView /\ Admitted(view[a].rev) =>
      view[a].shape = Fingerprint(scene)

(* ONE REVISION, ONE SCENE.  Two agents that were told the same revision,  *)
(* at whatever times, were told of the same scene: a revision number never *)
(* stands for two fingerprints, over stops and restarts of the server too. *)
OneRevisionOneScene ==
  \A a, b \in Agents :
    view[a].rev = view[b].rev => view[a].shape = view[b].shape

(* FAILURE KEEPS STATE.  What an agent may conclude from an error.  One    *)
(* with a cause of its own leaves the scene's fingerprint as it was, after *)
(* an automatic recovery too; neither it nor an incomplete end closes,     *)
(* replaces or rebases the open transaction.  HOST_EXCEPTION says as much, *)
(* but for a rollback: its loop may have stopped on the way, with the flag *)
(* up, or the transaction may be gone and the scene at its base            *)
(* (runtime.py:90-118, 157-225; transactions.py:116-131).                  *)
SameTransaction == tx'.id = tx.id /\ tx'.begin = tx.begin
SameFingerprint == Fingerprint(scene') = Fingerprint(scene)

FailureKeepsState ==
  [][/\ reply'.code \in Failures => SameFingerprint
     /\ reply'.code \in Failures \cup Incomplete => SameTransaction
     /\ reply'.code = Raised /\ ~SameFingerprint =>
          reply'.op = "rollback" /\ dirty'
     /\ reply'.code = Raised /\ ~SameTransaction =>
          /\ reply'.op = "rollback"
          /\ tx'.id = None /\ Fingerprint(scene') = tx.begin]_vars

(* CLEAN CLOSE.  A transaction that was committed or rolled back without   *)
(* force never contained a state, other than its own first, that someone   *)
(* else made and some request of it found, whether or not the server was   *)
(* stopped meanwhile (transactions.py:47-52, 144-157).                     *)
CleanClose ==
  [][/\ reply'.op \in {"commit", "rollback"}
     /\ reply'.code = "OK" /\ ~reply'.forced
     => ~foreign /\ ~ForeignSeen]_vars

(* CONTRACT.  The host keeps what HostContract promises its agents, with   *)
(* its cached fingerprint as the state its revision stands for             *)
(* (docs/ARCHITECTURE.md:59,65).                                           *)
Ended ==
  IF reply.op \in {"commit", "rollback"} /\ reply.code = "OK"
    THEN [how |-> reply.op, forced |-> reply.forced]
  ELSE IF reply.op = "rollback" /\ reply.code = Raised /\ tx.id = None
    THEN [how |-> "dropped", forced |-> reply.forced]
    ELSE [how |-> "none", forced |-> FALSE]

Contract == INSTANCE HostContract WITH
  States <- Shapes, Ids <- TxIds,
  known <- lastFp, current <- revision,
  open <- [id |-> tx.id, base |-> tx.begin],
  tainted <- (tx.external # None),
  ended <- Ended

KeepsContract == Contract!Spec

(* EXACT ROLLBACK.  A rollback without force that reports success has      *)
(* restored the scene its transaction began with: success is never         *)
(* reported "when restoration cannot be proved" (README.md:14).            *)
ExactRollback ==
  [][reply'.op = "rollback" /\ reply'.code = "OK" => scene' = atBegin]_vars

(* MARK EXPLAINED.  A transaction is marked as changed from outside only   *)
(* if a request found a scene that no answer had left, or if a request     *)
(* inside it ended without saying what it left: those remains of the       *)
(* host's own are told from nobody's edit, whatever the error says of "an  *)
(* out-of-band Blender edit" (transactions.py:47-52, 150; runtime.py:84).  *)
MarkExplained == tx.external # None => foreign \/ unsure

(* STOPS AT BEGIN.  As long as Blender's history has BEGIN's boundary and  *)
(* one above it, a rollback never undoes what was done before BEGIN: by    *)
(* force or not, wherever its loop ends, and whatever the user undid or a  *)
(* full history forgot meanwhile.  The code keeps no count of the          *)
(* transaction's own boundaries to go by (transactions.py:116-131).        *)
StopsAtBegin ==
  [][reply'.op = "rollback" /\ beginAt \in 1..(Len(undo) - 1)
     => Len(undo') >= beginAt]_vars
=============================================================================
