--------------------------- MODULE UnityHostProofs ---------------------------
(***************************************************************************)
(* Theorems about UnityHost, for every value of its constants.  What says  *)
(* that the host knows its scene assumes, as its properties do, that the   *)
(* editor announces every change.                                          *)
(***************************************************************************)
EXTENDS UnityHost, TLAPS

-----------------------------------------------------------------------------
(* Types.                                                                  *)

(* The dirty check caches the scene or keeps what it has, raises the       *)
(* revision by one at most, and may mark the open transaction.             *)
LEMMA RefreshedType ==
  ASSUME TypeOK, NEW d \in BOOLEAN
  PROVE  /\ Refreshed(d).fp \in Shapes \cup {None}
         /\ Refreshed(d).rev \in {revision, revision + 1}
         /\ Refreshed(d).tx \in Transaction \cup {NoTransaction}
         /\ Refreshed(d).tx.id = tx.id /\ Refreshed(d).tx.begin = tx.begin
<1>1. /\ Refreshed(d).fp \in {scene, lastFp}
      /\ Refreshed(d).rev \in {revision, revision + 1}
      /\ Refreshed(d).tx \in {tx, Marked(tx, scene)}
  BY DEF Refreshed
<1>2. CASE tx = NoTransaction
  BY <1>1, <1>2 DEF Marked, NoTransaction, TypeOK
<1>3. CASE tx \in Transaction
  <2>1. /\ Marked(tx, scene) \in Transaction
        /\ Marked(tx, scene).id = tx.id /\ Marked(tx, scene).begin = tx.begin
    BY <1>3 DEF Marked, Transaction, TypeOK
  <2>. QED BY <1>1, <1>3, <2>1 DEF TypeOK
<1>. QED BY <1>2, <1>3 DEF TypeOK

(* No action of a dispatch lets the revision pass its bound.               *)
LEMMA ServingType ==
  ASSUME TypeOK, Serving
  PROVE  /\ Now.fp \in Shapes \cup {None}
         /\ Now.rev \in 0..MaxRevision /\ Now.rev + 1 \in 0..MaxRevision
         /\ Now.rev \in {revision, revision + 1}
         /\ Now.tx \in Transaction \cup {NoTransaction}
         /\ Now.tx.id = tx.id /\ Now.tx.begin = tx.begin
BY RefreshedType, BoundAssumption DEF Serving, Now, TypeOK

(* Every answer is of the reply type.                                      *)
LEMMA ReplyType ==
  ASSUME NEW op \in Ops, NEW code \in {"OK", Raised} \cup Failures \cup Incomplete,
         NEW force \in BOOLEAN, Answers(op, code, force)
  PROVE  reply' \in Reply \cup {Silence}
BY DEF Answers, Reply

(* The history variables stay in their types.                              *)
LEMMA NotedType ==
  ASSUME TypeOK, scene' \in Shapes, NEW code, Noted(code) \/ NotedAnew(code)
  PROVE  owned' \in Shapes \cup {None} /\ foreign' \in BOOLEAN
BY DEF TypeOK, Noted, NotedAnew, Leaves, ForeignSeen

(* A refusal keeps the types, whichever it is.                             *)
LEMMA RefuseTypeOK ==
  ASSUME TypeOK, Serving, NEW op \in Ops,
         NEW code \in Failures \cup {Raised}, Refuse(op, code)
  PROVE  TypeOK'
<1>1. reply' \in Reply \cup {Silence}
  BY ReplyType DEF Refuse
<1>2. owned' \in Shapes \cup {None} /\ foreign' \in BOOLEAN
  BY NotedType DEF Refuse, OnlyRefreshed, TypeOK
<1>. QED BY <1>1, <1>2, ServingType DEF Refuse, OnlyRefreshed, TypeOK

(* What an agent learns is a view.                                         *)
LEMMA LearnedType ==
  ASSUME TypeOK, NEW a \in Agents, NEW r \in Nat, NEW s \in Shapes,
         Learned(a, r, s)
  PROVE  view' \in [Agents -> View \cup {NoView}]
BY DEF TypeOK, View, Learned

(* The types hold at the start.                                            *)
LEMMA InitTypeOK == Init => TypeOK
<1>. SUFFICES ASSUME Init PROVE TypeOK
  OBVIOUS
<1>1. view \in [Agents -> View \cup {NoView}]
  BY DEF Init
<1>2. revision \in 0..MaxRevision
  BY BoundAssumption DEF Init
<1>. QED BY <1>1, <1>2 DEF Init, TypeOK

(* Every step keeps the types.                                             *)
LEMMA NextTypeOK == TypeOK /\ [Next]_vars => TypeOK'
<1> SUFFICES ASSUME TypeOK, [Next]_vars PROVE TypeOK'
  OBVIOUS
<1>1. ASSUME NEW a \in Agents, Read(a) PROVE TypeOK'
  <2>1. reply' \in Reply \cup {Silence}
    BY <1>1, ReplyType DEF Read, Ops
  <2>2. owned' \in Shapes \cup {None} /\ foreign' \in BOOLEAN
    BY <1>1, NotedType DEF Read, OnlyRefreshed, TypeOK
  <2>3. view' \in [Agents -> View \cup {NoView}]
    BY <1>1, LearnedType, ServingType DEF Read, TypeOK
  <2>. QED BY <1>1, <2>1, <2>2, <2>3, ServingType
           DEF Read, OnlyRefreshed, TypeOK
<1>2. CASE Reject
  BY <1>2, RefuseTypeOK DEF Reject, Ops, Failures
<1>3. ASSUME NEW op \in {"mutate", "rollback"}, NEW g \in Guards,
             RefuseStale(op, g)
      PROVE  TypeOK'
  BY <1>3, RefuseTypeOK DEF RefuseStale, Ops, Failures
<1>4. ASSUME NEW a \in Agents, NEW s \in Shapes, NEW g, Mutate(a, g, s)
      PROVE  TypeOK'
  <2>1. reply' \in Reply \cup {Silence}
    BY <1>4, ReplyType DEF Mutate, Ops
  <2>2. owned' \in Shapes \cup {None} /\ foreign' \in BOOLEAN
    BY <1>4, NotedType DEF Mutate
  <2>3. AcceptedRevision(s) \in 0..MaxRevision
    BY <1>4, ServingType DEF Mutate, AcceptedRevision
  <2>4. view' \in [Agents -> View \cup {NoView}]
    BY <1>4, <2>3, LearnedType DEF Mutate
  <2>. QED BY <1>4, <2>1, <2>2, <2>3, <2>4, ServingType DEF Mutate, TypeOK
<1>4a. ASSUME NEW g, MutateUnprepared(g) PROVE TypeOK'
  BY <1>4a, RefuseTypeOK DEF MutateUnprepared, Ops
<1>4b. ASSUME NEW g, NEW s \in Shapes, MutateEscapes(g, s) PROVE TypeOK'
  <2>1. scene' \in Shapes
    BY <1>4b DEF MutateEscapes, RecoveryEnds, TypeOK
  <2>2. owned' \in Shapes \cup {None} /\ foreign' \in BOOLEAN
    BY <1>4b, <2>1, NotedType DEF MutateEscapes
  <2>3. dirty' \in BOOLEAN
    BY <1>4b DEF MutateEscapes, Unaccepted
  <2>. QED BY <1>4b, <2>1, <2>2, <2>3, ServingType
           DEF MutateEscapes, Unaccepted, TypeOK
<1>5. ASSUME NEW g, NEW s \in Shapes, MutateFails(g, s) PROVE TypeOK'
  <2>1. PICK e \in RecoveryEnds(s) :
          /\ scene' = e
          /\ lastFp' = IF Recovered(s, e) THEN scene ELSE Now.fp
          /\ dirty' = ~Recovered(s, e)
          /\ \E code \in {"FAILED", "MUTATION_RECOVERY_INCOMPLETE"} :
               Answers("mutate", code, FALSE) /\ Noted(code)
    BY <1>5 DEF MutateFails
  <2>2. e \in Shapes
    BY DEF RecoveryEnds, TypeOK
  <2>3. reply' \in Reply \cup {Silence}
    BY <2>1, ReplyType DEF Ops, Failures, Incomplete
  <2>4. owned' \in Shapes \cup {None} /\ foreign' \in BOOLEAN
    BY <2>1, <2>2, NotedType
  <2>5. dirty' \in BOOLEAN /\ lastFp' \in Shapes \cup {None}
    BY <1>5, <2>1, ServingType DEF MutateFails, Recovered, TypeOK
  <2>. QED BY <1>5, <2>1, <2>2, <2>3, <2>4, <2>5, ServingType
           DEF MutateFails, TypeOK
<1>6. ASSUME NEW id \in TxIds, Begin(id) PROVE TypeOK'
  <2>1. reply' \in Reply \cup {Silence}
    BY <1>6, ReplyType DEF Begin, Ops
  <2>2. tx' \in Transaction
    BY <1>6 DEF Begin, Opened, Transaction, TypeOK
  <2>3. owned' \in Shapes \cup {None} /\ foreign' \in BOOLEAN
    BY <1>6, NotedType DEF Begin, TypeOK
  <2>. QED BY <1>6, <2>1, <2>2, <2>3, ServingType DEF Begin, TypeOK
<1>7. CASE RefuseBegin
  BY <1>7, RefuseTypeOK DEF RefuseBegin, Ops, Failures
<1>8. ASSUME NEW op \in {"commit", "rollback"}, NEW id \in TxIds,
             NEW f \in BOOLEAN, RefuseControl(op, id, f)
      PROVE  TypeOK'
  BY <1>8, RefuseTypeOK DEF RefuseControl, Ops, Failures
<1>9. ASSUME NEW id \in TxIds, NEW f \in BOOLEAN, Commit(id, f)
      PROVE  TypeOK'
  <2>1. reply' \in Reply \cup {Silence}
    BY <1>9, ReplyType DEF Commit, Ops
  <2>2. owned' \in Shapes \cup {None} /\ foreign' \in BOOLEAN
    BY <1>9, NotedType DEF Commit, TypeOK
  <2>. QED BY <1>9, <2>1, <2>2, ServingType DEF Commit, TypeOK
<1>9a. ASSUME NEW id \in TxIds, NEW f \in BOOLEAN, CommitRaises(id, f)
       PROVE  TypeOK'
  BY <1>9a, RefuseTypeOK DEF CommitRaises, Ops
<1>10. ASSUME NEW g, NEW id \in TxIds, NEW f \in BOOLEAN, Rollback(g, id, f)
       PROVE  TypeOK'
  <2>1. PICK e \in Shapes :
          scene' = e /\ lastFp' = e /\ revision' = AcceptedRevision(e)
    BY <1>10 DEF Rollback
  <2>2. reply' \in Reply \cup {Silence}
    BY <1>10, ReplyType DEF Rollback, Ops
  <2>3. owned' \in Shapes \cup {None} /\ foreign' \in BOOLEAN
    BY <1>10, <2>1, NotedType DEF Rollback
  <2>4. revision' \in 0..MaxRevision
    BY <1>10, <2>1, ServingType
       DEF Rollback, RollbackAllowed, AcceptedRevision
  <2>. QED BY <1>10, <2>1, <2>2, <2>3, <2>4 DEF Rollback, TypeOK
<1>11. ASSUME NEW g, NEW id \in TxIds, NEW f \in BOOLEAN,
              \/ RollbackIncomplete(g, id, f)
              \/ RollbackRaises(g, id, f)
              \/ RollbackUnaccepted(g, id, f)
       PROVE  TypeOK'
  <2>0. Serving
    BY <1>11 DEF RollbackIncomplete, RollbackRaises, RollbackUnaccepted,
                 RollbackAllowed
  <2>1. PICK code \in {"ROLLBACK_INCOMPLETE", Raised} :
          Answers("rollback", code, f) /\ (Noted(code) \/ NotedAnew(code))
    BY <1>11 DEF RollbackIncomplete, RollbackRaises, RollbackUnaccepted
  <2>2. scene' \in Shapes /\ Unaccepted /\ tx' \in {Now.tx, NoTransaction}
    BY <1>11 DEF RollbackIncomplete, RollbackRaises, RollbackUnaccepted
  <2>3. reply' \in Reply \cup {Silence}
    BY <2>1, ReplyType DEF Ops, Incomplete
  <2>4. owned' \in Shapes \cup {None} /\ foreign' \in BOOLEAN
    BY <2>1, <2>2, NotedType
  <2>5. dirty' \in BOOLEAN
    BY <2>2 DEF Unaccepted
  <2>. QED BY <2>0, <2>2, <2>3, <2>4, <2>5, ServingType
           DEF Unaccepted, TypeOK
<1>12. CASE Start
  <2>1. PICK d \in BOOLEAN : d = TRUE
    OBVIOUS
  <2>2. /\ Refreshed(d).fp \in Shapes \cup {None}
        /\ Refreshed(d).tx \in Transaction \cup {NoTransaction}
        /\ Refreshed(d).rev \in {revision, revision + 1}
    BY RefreshedType
  <2>3. /\ lastFp' = Refreshed(d).fp /\ revision' = Refreshed(d).rev
        /\ tx' = Refreshed(d).tx /\ Refreshed(d).rev <= MaxRevision
    BY <1>12, <2>1 DEF Start, StartFlag
  <2>4. revision' \in 0..MaxRevision
    BY <2>2, <2>3, BoundAssumption DEF TypeOK
  <2>5. owned' \in Shapes \cup {None} /\ foreign' \in BOOLEAN
    BY <1>12, NotedType DEF Start, TypeOK
  <2>6. /\ scene' = scene /\ view' = view /\ reply' = Silence
        /\ running' = TRUE /\ hooked' = TRUE /\ dirty' = FALSE
    BY <1>12 DEF Start
  <2>. QED BY <2>2, <2>3, <2>4, <2>5, <2>6 DEF TypeOK
<1>13. CASE StartFails
  BY <1>13 DEF StartFails, history, TypeOK
<1>14. CASE Stop
  BY <1>14 DEF Stop, HandlersRemoved, history, TypeOK
<1>15. CASE Reload
  <2>1. view' \in [Agents -> View \cup {NoView}]
    BY <1>15 DEF Reload, View, TypeOK
  <2>2. /\ scene' = scene /\ running' = FALSE /\ hooked' = FALSE
        /\ dirty' = TRUE /\ lastFp' = None /\ revision' = 0
        /\ tx' = NoTransaction /\ reply' = Silence
        /\ owned' = None /\ foreign' = FALSE
    BY <1>15 DEF Reload
  <2>3. revision' \in 0..MaxRevision
    BY <2>2, BoundAssumption
  <2>. QED BY <2>1, <2>2, <2>3 DEF TypeOK
<1>16. ASSUME NEW s \in Shapes, Edit(s) PROVE TypeOK'
  <2>1. dirty' \in BOOLEAN
    BY <1>16 DEF Edit, Notified, TypeOK
  <2>. QED BY <1>16, <2>1 DEF Edit, history, TypeOK
<1>17. CASE Notify
  BY <1>17 DEF Notify, history, TypeOK
<1>18. CASE UNCHANGED vars
  BY <1>18 DEF vars, host, history, TypeOK
<1>. QED BY <1>1, <1>2, <1>3, <1>4, <1>4a, <1>4b, <1>5, <1>6, <1>7, <1>8,
           <1>9, <1>9a, <1>10, <1>11, <1>12, <1>13, <1>14, <1>15, <1>16,
           <1>17, <1>18
        DEF Next, Requests, Life, User

(* Every variable stays in its range in every behaviour.                   *)
THEOREM TypeCorrect == Spec => []TypeOK
BY InitTypeOK, NextTypeOK, PTL DEF Spec

-----------------------------------------------------------------------------
(* The inductive invariant.  That the cache is right when the flag is down *)
(* needs, with announced changes, that a host that is hooked has looked    *)
(* once; and what an agent of this domain learned, what the last answer    *)
(* left behind and what a transaction was marked for are tied to the cache.*)

Looked ==
  hooked \/ tx # NoTransaction
    \/ (\E a \in Agents : view[a] # NoView /\ ~view[a].old)
  => lastFp # None

OwnedIsCached == owned # None => owned = lastFp

ForeignIsMarked == foreign => tx.external # None

Cache == InSync /\ Looked /\ OwnedIsCached /\ ForeignIsMarked

ViewsHold ==
  \A a \in Agents : view[a] # NoView /\ ~view[a].old =>
    /\ view[a].rev <= revision
    /\ view[a].rev = revision => view[a].shape = lastFp

IInv == TypeOK /\ (Announced => Cache /\ ViewsHold)

(* What a step of one domain does to the revision and what it stands for.  *)
Moves ==
  \/ revision' = revision /\ lastFp' = lastFp
  \/ revision' = revision /\ lastFp = None /\ lastFp' \in Shapes
  \/ revision' > revision /\ lastFp # None /\ lastFp' \in Shapes

(* What an agent learns is what the host then stands for.                  *)
Learns ==
  \/ view' = view
  \/ lastFp # None /\ \E a \in Agents : Learned(a, revision', lastFp')

(* The dirty check of a host that keeps the invariant, with the flag at d. *)
LEMMA RefreshedFacts ==
  ASSUME TypeOK, Cache, NEW d \in BOOLEAN, d \/ lastFp = scene
  PROVE  /\ Refreshed(d).fp = scene
         /\ \/ /\ Refreshed(d).rev = revision
               /\ lastFp = None \/ lastFp = scene
            \/ /\ Refreshed(d).rev = revision + 1
               /\ lastFp # None /\ lastFp # scene
         /\ \/ Refreshed(d).tx = tx
            \/ /\ Refreshed(d).rev = revision + 1 /\ tx # NoTransaction
               /\ Refreshed(d).tx = [tx EXCEPT !.external = scene]
         /\ foreign \/ ForeignSeen => Refreshed(d).tx.external # None
<1> DEFINE moved == d /\ lastFp # None /\ scene # lastFp
<1>1. scene \in Shapes /\ scene # None
  BY NoneAssumption DEF TypeOK
<1>2. tx = NoTransaction \/ (tx \in Transaction /\ tx # NoTransaction)
  BY DEF TypeOK
<1>3. Refreshed(d).fp = scene
  BY DEF Refreshed
<1>4. \/ Refreshed(d).rev = revision /\ (lastFp = None \/ lastFp = scene)
      \/ Refreshed(d).rev = revision + 1 /\ lastFp # None /\ lastFp # scene
  BY DEF Refreshed
<1>5. moved => Refreshed(d).rev = revision + 1
               /\ Refreshed(d).tx = Marked(tx, scene)
  BY DEF Refreshed
<1>6. ~moved => Refreshed(d).tx = tx
  BY DEF Refreshed
<1>7. \/ Marked(tx, scene) = tx
      \/ /\ tx # NoTransaction
         /\ Marked(tx, scene) = [tx EXCEPT !.external = scene]
  BY <1>2 DEF Marked, NoTransaction
<1>8. ASSUME tx.external # None PROVE Refreshed(d).tx.external # None
  BY <1>5, <1>6, <1>8 DEF Marked
<1>9. ASSUME ForeignSeen PROVE Refreshed(d).tx.external # None
  <2>1. tx.id # None /\ owned = lastFp /\ lastFp # None /\ scene # lastFp
    BY <1>9 DEF ForeignSeen, Cache, OwnedIsCached
  <2>2. tx \in Transaction
    BY <1>2, <2>1 DEF NoTransaction
  <2>3. Marked(tx, scene).external # None
    BY <1>1, <2>1, <2>2 DEF Marked, Transaction
  <2>. QED BY <1>5, <2>1, <2>3
<1>. QED BY <1>3, <1>4, <1>5, <1>6, <1>7, <1>8, <1>9
         DEF Cache, ForeignIsMarked

(* The same for a dispatch: the host is hooked, so it has looked before.   *)
LEMMA ServingFacts ==
  ASSUME TypeOK, Announced, Cache, Serving
  PROVE  /\ lastFp # None /\ Now.fp = scene
         /\ \/ Now.rev = revision /\ lastFp = scene
            \/ Now.rev = revision + 1 /\ lastFp # scene
         /\ \/ Now.tx = tx
            \/ /\ Now.rev = revision + 1 /\ tx # NoTransaction
               /\ Now.tx = [tx EXCEPT !.external = scene]
         /\ foreign \/ ForeignSeen => Now.tx.external # None
<1>1. lastFp # None /\ hooked
  BY DEF Serving, Cache, Looked
<1>2. dirty \in BOOLEAN /\ (dirty \/ lastFp = scene)
  BY <1>1 DEF Cache, InSync, TypeOK
<1>. QED BY <1>1, <1>2, RefreshedFacts DEF Now

(* What the host accepts as its own moves the revision if it moves the     *)
(* scene.                                                                  *)
LEMMA AcceptedStep ==
  ASSUME TypeOK, Announced, Cache, Serving, NEW s \in Shapes,
         lastFp' = s, revision' = AcceptedRevision(s)
  PROVE  /\ Moves /\ lastFp' # None
         /\ s # scene => revision' = Now.rev + 1
         /\ s = scene => revision' = Now.rev
<1>1. scene # None /\ s # None /\ revision \in Nat
  BY NoneAssumption, BoundAssumption DEF TypeOK
<1>2. /\ s # scene => revision' = Now.rev + 1
      /\ s = scene => revision' = Now.rev
  BY <1>1, ServingFacts DEF AcceptedRevision
<1>. QED BY <1>1, <1>2, ServingFacts DEF Moves

(* A dispatch that leaves the scene alone, and its cache refreshed.        *)
LEMMA QuietStep ==
  ASSUME TypeOK, Announced, Cache, Serving, scene' = scene,
         lastFp' = Now.fp, revision' = Now.rev
  PROVE  Moves /\ lastFp' = scene' /\ lastFp' # None
BY ServingFacts, NoneAssumption, BoundAssumption DEF Moves, TypeOK

(* A refusal publishes what the dirty check found and nothing else.        *)
LEMMA RefuseStep ==
  ASSUME TypeOK, Announced, Cache, Serving, NEW op,
         NEW code \in Failures \cup {Raised}, Refuse(op, code)
  PROVE  Moves /\ Learns /\ Cache'
<1>1. /\ scene' = scene /\ lastFp' = Now.fp /\ revision' = Now.rev
      /\ tx' = Now.tx /\ view' = view
      /\ foreign' = (foreign \/ ForeignSeen)
      /\ owned' \in {None, scene'}
  BY DEF Refuse, OnlyRefreshed, Noted, Leaves
<1>2. Moves /\ lastFp' = scene' /\ lastFp' # None
  BY <1>1, QuietStep
<1>. QED BY <1>1, <1>2, ServingFacts
         DEF Learns, Cache, InSync, Looked, OwnedIsCached, ForeignIsMarked

(* A dispatch that accepts nothing of what it changed leaves the flag to   *)
(* the events: the cache holds what the check found, and the flag is up if *)
(* the scene is another one now.                                           *)
LEMMA UnacceptedStep ==
  ASSUME TypeOK, Announced, Cache, Serving, Unaccepted, owned' = None,
         \/ tx' = Now.tx /\ foreign' = (foreign \/ ForeignSeen)
         \/ ~foreign'
  PROVE  Moves /\ Learns /\ Cache'
<1>1. /\ dirty' = (scene' # scene) /\ view' = view
      /\ lastFp' = Now.fp /\ revision' = Now.rev
  BY DEF Unaccepted
<1>2. lastFp' = scene /\ lastFp' # None
  BY <1>1, ServingFacts, NoneAssumption DEF TypeOK
<1>3. Moves
  BY <1>1, <1>2, ServingFacts, BoundAssumption DEF Moves, TypeOK
<1>4. foreign' => tx'.external # None
  BY ServingFacts
<1>. QED BY <1>1, <1>2, <1>3, <1>4
         DEF Learns, Cache, InSync, Looked, OwnedIsCached, ForeignIsMarked

(* Every step but a reload moves the cached scene only with the revision,  *)
(* and keeps the cache right; an agent only learns what the cache holds.   *)
LEMMA NextStep ==
  ASSUME TypeOK, Announced, Cache, Next, ~Reload
  PROVE  Moves /\ Learns /\ Cache'
<1> USE DEF Cache, InSync, Looked, OwnedIsCached, ForeignIsMarked
<1>1. ASSUME NEW a \in Agents, Read(a) PROVE Moves /\ Learns /\ Cache'
  <2>1. /\ scene' = scene /\ lastFp' = Now.fp /\ revision' = Now.rev
        /\ tx' = Now.tx
        /\ foreign' = (foreign \/ ForeignSeen)
        /\ owned' = scene'
        /\ Serving
    BY <1>1 DEF Read, OnlyRefreshed, Noted, Leaves, Unsure, Incomplete, Raised, Silence
  <2>2. Moves /\ lastFp' = scene' /\ lastFp' # None
    BY <2>1, QuietStep
  <2>3. Learned(a, revision', lastFp')
    BY <1>1, <2>1, ServingFacts DEF Read
  <2>. QED BY <2>1, <2>2, <2>3, ServingFacts DEF Learns
<1>2. CASE Reject
  BY <1>2, RefuseStep DEF Reject, Failures
<1>3. ASSUME NEW op \in {"mutate", "rollback"}, NEW g \in Guards,
             RefuseStale(op, g)
      PROVE  Moves /\ Learns /\ Cache'
  BY <1>3, RefuseStep DEF RefuseStale, Failures
<1>4. ASSUME NEW a \in Agents, NEW s \in Shapes, NEW g, Mutate(a, g, s)
      PROVE  Moves /\ Learns /\ Cache'
  <2>1. /\ scene' = s /\ lastFp' = s /\ revision' = AcceptedRevision(s)
        /\ tx' = Now.tx /\ Serving
        /\ foreign' = (foreign \/ ForeignSeen)
        /\ owned' = scene'
        /\ Learned(a, revision', lastFp')
    BY <1>4 DEF Mutate, Noted, Leaves, Unsure, Incomplete, Raised, Silence
  <2>2. Moves /\ lastFp' # None
    BY <2>1, AcceptedStep
  <2>. QED BY <2>1, <2>2, ServingFacts DEF Learns
<1>4a. ASSUME NEW g, MutateUnprepared(g) PROVE Moves /\ Learns /\ Cache'
  BY <1>4a, RefuseStep DEF MutateUnprepared
<1>4b. ASSUME NEW g, NEW s \in Shapes, MutateEscapes(g, s)
       PROVE  Moves /\ Learns /\ Cache'
  BY <1>4b, UnacceptedStep DEF MutateEscapes, Noted, Leaves, Unsure
<1>5. ASSUME NEW g, NEW s \in Shapes, MutateFails(g, s)
      PROVE  Moves /\ Learns /\ Cache'
  <2>1. PICK e \in RecoveryEnds(s) :
          /\ scene' = e
          /\ lastFp' = IF Recovered(s, e) THEN scene ELSE Now.fp
          /\ dirty' = ~Recovered(s, e)
          /\ \/ Recovered(s, e) /\ Noted("FAILED")
             \/ ~Recovered(s, e) /\ Noted("MUTATION_RECOVERY_INCOMPLETE")
    BY <1>5 DEF MutateFails
  <2>2. /\ revision' = Now.rev /\ tx' = Now.tx /\ view' = view /\ Serving
    BY <1>5 DEF MutateFails
  <2>3. lastFp' = scene /\ lastFp' = Now.fp /\ lastFp' # None
    BY <2>1, <2>2, ServingFacts, NoneAssumption DEF TypeOK
  <2>4. Moves
    BY <2>2, <2>3, ServingFacts, BoundAssumption DEF Moves, TypeOK
  <2>5. /\ owned' # None => owned' = lastFp'
        /\ foreign' = (foreign \/ ForeignSeen)
    BY <2>1, <2>3 DEF Noted, Leaves, Unsure, Incomplete, Raised, Silence, Recovered
  <2>6. ~dirty' => lastFp' = scene'
    BY <2>1, <2>3 DEF Recovered
  <2>. QED BY <2>2, <2>3, <2>4, <2>5, <2>6, ServingFacts DEF Learns
<1>6. ASSUME NEW id \in TxIds, Begin(id) PROVE Moves /\ Learns /\ Cache'
  <2>1. /\ scene' = scene /\ lastFp' = Now.fp /\ revision' = Now.rev
        /\ view' = view /\ foreign' = FALSE
        /\ owned' = scene' /\ Serving
    BY <1>6 DEF Begin, NotedAnew, Leaves, Unsure, Incomplete,
                     Raised, Silence
  <2>2. Moves /\ lastFp' = scene' /\ lastFp' # None
    BY <2>1, QuietStep
  <2>. QED BY <2>1, <2>2 DEF Learns
<1>7. CASE RefuseBegin
  BY <1>7, RefuseStep DEF RefuseBegin, Failures
<1>8. ASSUME NEW op \in {"commit", "rollback"}, NEW id \in TxIds,
             NEW f \in BOOLEAN, RefuseControl(op, id, f)
      PROVE  Moves /\ Learns /\ Cache'
  BY <1>8, RefuseStep DEF RefuseControl, Failures
<1>9. ASSUME NEW id \in TxIds, NEW f \in BOOLEAN, Commit(id, f)
      PROVE  Moves /\ Learns /\ Cache'
  <2>1. /\ scene' = scene /\ lastFp' = Now.fp /\ revision' = Now.rev
        /\ view' = view /\ foreign' = FALSE
        /\ owned' = scene' /\ Serving
    BY <1>9 DEF Commit, NotedAnew, Leaves, Unsure, Incomplete,
                     Raised, Silence
  <2>2. Moves /\ lastFp' = scene' /\ lastFp' # None
    BY <2>1, QuietStep
  <2>. QED BY <2>1, <2>2 DEF Learns
<1>9a. ASSUME NEW id \in TxIds, NEW f \in BOOLEAN, CommitRaises(id, f)
       PROVE  Moves /\ Learns /\ Cache'
  BY <1>9a, RefuseStep DEF CommitRaises
<1>10. ASSUME NEW g, NEW id \in TxIds, NEW f \in BOOLEAN, Rollback(g, id, f)
       PROVE  Moves /\ Learns /\ Cache'
  <2>1. PICK e \in Shapes :
          scene' = e /\ lastFp' = e /\ revision' = AcceptedRevision(e)
    BY <1>10 DEF Rollback
  <2>2. /\ view' = view /\ foreign' = FALSE /\ owned' = scene' /\ Serving
    BY <1>10 DEF Rollback, RollbackAllowed, NotedAnew, Leaves, Unsure, Incomplete,
                     Raised, Silence
  <2>3. Moves /\ lastFp' # None
    BY <2>1, <2>2, AcceptedStep
  <2>. QED BY <2>1, <2>2, <2>3 DEF Learns
<1>11. ASSUME NEW g, NEW id \in TxIds, NEW f \in BOOLEAN,
              \/ RollbackIncomplete(g, id, f)
              \/ RollbackRaises(g, id, f)
       PROVE  Moves /\ Learns /\ Cache'
  BY <1>11, UnacceptedStep
     DEF RollbackIncomplete, RollbackRaises, RollbackAllowed, Noted, Leaves,
         Unsure, Incomplete
<1>11a. ASSUME NEW g, NEW id \in TxIds, NEW f \in BOOLEAN,
               RollbackUnaccepted(g, id, f)
        PROVE  Moves /\ Learns /\ Cache'
  BY <1>11a, UnacceptedStep
     DEF RollbackUnaccepted, RollbackAllowed, NotedAnew, Leaves, Unsure
<1>12. CASE Start
  <2>1. PICK d \in BOOLEAN : d = TRUE
    OBVIOUS
  <2>2. /\ scene' = scene /\ view' = view
        /\ lastFp' = Refreshed(d).fp /\ revision' = Refreshed(d).rev
        /\ tx' = Refreshed(d).tx
        /\ owned' = scene'
        /\ foreign' = (foreign \/ ForeignSeen)
    BY <1>12, <2>1 DEF Start, StartFlag, Noted, Leaves, Unsure, Incomplete, Raised, Silence
  <2>3. lastFp' = scene /\ lastFp' \in Shapes /\ lastFp' # None
    BY <2>1, <2>2, RefreshedFacts, NoneAssumption DEF TypeOK
  <2>4. Moves
    <3>1. \/ revision' = revision /\ (lastFp = None \/ lastFp = lastFp')
          \/ revision' = revision + 1 /\ lastFp # None
      BY <2>1, <2>2, <2>3, RefreshedFacts
    <3>2. revision + 1 > revision
      BY DEF TypeOK
    <3>. QED BY <2>3, <3>1, <3>2 DEF Moves
  <2>. QED BY <2>1, <2>2, <2>3, <2>4, RefreshedFacts DEF Learns
<1>13. CASE StartFails
  <2>1. hooked => running
    BY DEF TypeOK
  <2>. QED BY <1>13, <2>1 DEF StartFails, history, Moves, Learns
<1>14. CASE Stop
  BY <1>14 DEF Stop, HandlersRemoved, history, Moves, Learns
<1>15. CASE User
  <2>1. \/ \E s \in Shapes : Edit(s)
        \/ Notify
    BY <1>15 DEF User
  <2>2. hooked' = hooked /\ (hooked => dirty')
    BY <2>1, Zenon DEF Edit, Notify, Notified
  <2>3. UNCHANGED <<lastFp, revision, tx, view, owned, foreign>>
    BY <2>1 DEF Edit, Notify, history
  <2>. QED BY <2>2, <2>3 DEF Moves, Learns
<1>. QED BY <1>1, <1>2, <1>3, <1>4, <1>4a, <1>4b, <1>5, <1>6, <1>7, <1>8,
           <1>9, <1>9a, <1>10, <1>11, <1>11a, <1>12, <1>13, <1>14, <1>15
        DEF Next, Requests, Life

(* What the agents of this domain know survives a step: what they learned  *)
(* before is of an older revision, or of this one and then of its scene.   *)
LEMMA ViewsStep ==
  ASSUME TypeOK, TypeOK', Cache, ViewsHold, Moves, Learns
  PROVE  ViewsHold'
<1>1. /\ revision \in Nat /\ revision' \in Nat
      /\ lastFp' \in Shapes \cup {None} /\ None \notin Nat
  BY NoneAssumption, BoundAssumption DEF TypeOK
<1>2. \A a \in Agents : view[a] # NoView => view[a].rev \in Nat
  BY DEF TypeOK, View
<1>3. \A a \in Agents : view[a] # NoView /\ ~view[a].old =>
        /\ view[a].rev <= revision'
        /\ view[a].rev = revision' => view[a].shape = lastFp'
  BY <1>1, <1>2 DEF ViewsHold, Moves, Cache, Looked
<1>4. CASE view' = view
  BY <1>3, <1>4 DEF ViewsHold
<1>5. CASE view' # view
  <2>1. PICK b \in Agents : Learned(b, revision', lastFp')
    BY <1>5 DEF Learns
  <2>2. \A a \in Agents :
          view'[a] = IF a = b
                     THEN [rev |-> revision', shape |-> lastFp', old |-> FALSE]
                     ELSE view[a]
    BY <2>1 DEF TypeOK, Learned
  <2>. QED BY <1>1, <1>3, <2>2 DEF ViewsHold
<1>. QED BY <1>4, <1>5

(* A reload forgets everything, and makes every view an old one.           *)
LEMMA ReloadStep ==
  ASSUME TypeOK, Reload
  PROVE  Cache' /\ ViewsHold'
<1>1. ASSUME NEW a \in Agents, view'[a] # NoView PROVE view'[a].old
  <2>1. view'[a] = IF view[a] = NoView THEN NoView
                                       ELSE [view[a] EXCEPT !.old = TRUE]
    BY DEF Reload
  <2>2. view[a] \in View \cup {NoView}
    BY DEF TypeOK
  <2>. QED BY <1>1, <2>1, <2>2 DEF View
<1>2. /\ ~hooked' /\ tx' = NoTransaction /\ owned' = None /\ ~foreign'
  BY DEF Reload
<1>. QED BY <1>1, <1>2 DEF Cache, InSync, Looked, OwnedIsCached,
           ForeignIsMarked, ViewsHold

(* The inductive invariant holds at the start.                             *)
LEMMA InitIInv == Init => IInv
<1>. SUFFICES ASSUME Init PROVE IInv
  OBVIOUS
<1>1. \A a \in Agents : view[a] = NoView
  BY DEF Init
<1>. QED BY <1>1, InitTypeOK DEF Init, IInv, Cache, InSync, Looked,
           OwnedIsCached, ForeignIsMarked, ViewsHold

(* Every step keeps the inductive invariant.                               *)
LEMMA NextIInv == IInv /\ [Next]_vars => IInv'
<1>. SUFFICES ASSUME IInv, [Next]_vars PROVE IInv'
  OBVIOUS
<1>1. TypeOK /\ TypeOK'
  BY NextTypeOK DEF IInv
<1>2. CASE Announced
  <2>1. Cache /\ ViewsHold
    BY <1>2 DEF IInv
  <2>2. CASE Reload
    BY <1>1, <2>2, ReloadStep DEF IInv
  <2>3. CASE Next /\ ~Reload
    <3>1. Moves /\ Learns /\ Cache'
      BY <1>1, <1>2, <2>1, <2>3, NextStep
    <3>. QED BY <1>1, <2>1, <3>1, ViewsStep DEF IInv
  <2>4. CASE UNCHANGED vars
    BY <1>1, <2>1, <2>4 DEF vars, host, history, IInv, Cache, InSync, Looked,
       OwnedIsCached, ForeignIsMarked, ViewsHold
  <2>. QED BY <2>2, <2>3, <2>4
<1>. QED BY <1>1, <1>2 DEF IInv

(* The invariant the safety properties rest on: types, and with announced  *)
(* changes a right cache, and views of this domain that are older than the *)
(* revision or equal to the cache.                                         *)
THEOREM Inductive == Spec => []IInv
BY InitIInv, NextIInv, PTL DEF Spec

-----------------------------------------------------------------------------
(* The safety properties.                                                  *)

(* While the handlers are installed and the flag is down, the cached       *)
(* fingerprint is the scene's.                                             *)
THEOREM StaysInSync == Spec => []InSync
<1>1. IInv => InSync
  BY DEF IInv, Cache, InSync
<1>. QED BY <1>1, Inductive, PTL

(* A guarded request of an agent that read in this domain, if admitted,    *)
(* acts on the scene the agent learned.                                    *)
THEOREM StaleWritesRefused == Spec => []NoStaleWrite
<1>1. IInv => NoStaleWrite
  <2>. SUFFICES ASSUME IInv, NEW a \in Agents, Announced, Serving,
                       view[a] # NoView, ~view[a].old, Admitted(view[a].rev)
                PROVE  view[a].shape = scene
    BY DEF NoStaleWrite
  <2>1. view[a].rev \in Nat /\ view[a].rev # None /\ revision \in Nat
    BY NoneAssumption, BoundAssumption DEF IInv, TypeOK, View
  <2>2. view[a].rev = Now.rev
    BY <2>1 DEF Admitted
  <2>3. /\ view[a].rev <= revision
        /\ view[a].rev = revision => view[a].shape = lastFp
    BY DEF IInv, ViewsHold
  <2>4. \/ Now.rev = revision /\ lastFp = scene
        \/ Now.rev = revision + 1
    BY ServingFacts DEF IInv
  <2>. QED BY <2>1, <2>2, <2>3, <2>4
<1>. QED BY <1>1, Inductive, PTL

(* An answer that is "OK", or a reply that is none.                        *)
LEMMA NotFailed ==
  /\ \A op, code, f : Answers(op, code, f) => reply'.code = code /\ reply'.op = op
                                              /\ reply'.forced = f
  /\ reply' = Silence =>
       reply'.code \notin {"OK", Raised} \cup Failures \cup Incomplete
  /\ {"OK"} \cap (Failures \cup Incomplete \cup {Raised}) = {}
BY DEF Answers, Silence, Failures, Incomplete, Raised

(* Only a commit or a rollback that was admitted closes a transaction, and *)
(* then either by force or with a transaction nobody has marked.           *)
LEMMA ClosedBy ==
  ASSUME Next, reply'.op \in {"commit", "rollback"}, reply'.code = "OK"
  PROVE  Serving /\ (~reply'.forced => Now.tx.external = None)
<1>1. ASSUME NEW op, NEW code, Refuse(op, code) PROVE reply'.code = code
  BY <1>1, NotFailed DEF Refuse
<1>2. CASE Requests
  <2>1. ASSUME NEW id, NEW f \in BOOLEAN, Commit(id, f)
        PROVE  Serving /\ (~reply'.forced => Now.tx.external = None)
    BY <2>1, NotFailed DEF Commit, SafeOrForced
  <2>2. ASSUME NEW g, NEW id, NEW f \in BOOLEAN, Rollback(g, id, f)
        PROVE  Serving /\ (~reply'.forced => Now.tx.external = None)
    BY <2>2, NotFailed DEF Rollback, RollbackAllowed, SafeOrForced
  <2>3. ASSUME NEW a, Read(a) PROVE FALSE
    BY <2>3 DEF Read, Answers
  <2>4. ~Reject /\ ~RefuseBegin
    BY <1>1 DEF Reject, RefuseBegin, Raised
  <2>4a. ASSUME NEW g, NEW id, NEW f,
                MutateUnprepared(g) \/ CommitRaises(id, f)
         PROVE  FALSE
    BY <1>1, <2>4a DEF MutateUnprepared, CommitRaises, Raised
  <2>4b. ASSUME NEW g, NEW s, MutateEscapes(g, s) PROVE FALSE
    BY <2>4b, NotFailed DEF MutateEscapes
  <2>5. ASSUME NEW op, NEW g, RefuseStale(op, g) PROVE FALSE
    BY <1>1, <2>5 DEF RefuseStale
  <2>6. ASSUME NEW a, NEW g, NEW s, Mutate(a, g, s) PROVE FALSE
    BY <2>6 DEF Mutate, Answers
  <2>7. ASSUME NEW g, NEW s, MutateFails(g, s) PROVE FALSE
    <3>1. \E code : Answers("mutate", code, FALSE)
      BY <2>7 DEF MutateFails
    <3>. QED BY <3>1 DEF Answers
  <2>8. ASSUME NEW id, Begin(id) PROVE FALSE
    BY <2>8 DEF Begin, Answers
  <2>9. ASSUME NEW op, NEW id, NEW f, RefuseControl(op, id, f) PROVE FALSE
    BY <1>1, <2>9 DEF RefuseControl
  <2>10. ASSUME NEW g, NEW id, NEW f,
                \/ RollbackIncomplete(g, id, f)
                \/ RollbackRaises(g, id, f)
                \/ RollbackUnaccepted(g, id, f)
         PROVE  FALSE
    BY <2>10, NotFailed
       DEF RollbackIncomplete, RollbackRaises, RollbackUnaccepted, Raised
  <2>. QED BY <1>2, <2>1, <2>2, <2>3, <2>4, <2>4a, <2>4b, <2>5, <2>6, <2>7, <2>8, <2>9,
             <2>10 DEF Requests
<1>3. CASE Life \/ User
  <2>1. reply' = Silence
    BY <1>3 DEF Life, User, Start, StartFails, Stop, Reload, Edit, Notify
  <2>. QED BY <2>1, NotFailed
<1>. QED BY <1>2, <1>3 DEF Next

(* No transaction that met a foreign state ends well without force.        *)
THEOREM ClosesCleanly == Spec => CleanClose
<1> DEFINE Closes == /\ Announced
                     /\ reply'.op \in {"commit", "rollback"}
                     /\ reply'.code = "OK" /\ ~reply'.forced
<1>1. IInv /\ [Next]_vars => [Closes => ~foreign /\ ~ForeignSeen]_vars
  BY ClosedBy, ServingFacts DEF IInv
<1>2. CleanClose <=> [][Closes => ~foreign /\ ~ForeignSeen]_vars
  BY DEF CleanClose
<1>. QED BY <1>1, <1>2, Inductive, PTL DEF Spec

-----------------------------------------------------------------------------
(* Failures.                                                               *)

(* A refusal leaves the scene and the identity of the transaction.         *)
LEMMA RefuseKeeps ==
  ASSUME TypeOK, Serving, NEW op, NEW code, Refuse(op, code)
  PROVE  scene' = scene /\ tx'.id = tx.id /\ tx'.begin = tx.begin
BY ServingType DEF Refuse, OnlyRefreshed

(* What an agent may conclude from an error, whether changes are announced *)
(* or not: one with a cause of its own leaves the scene, neither it nor an *)
(* incomplete end touches which transaction is open or where it began, and *)
(* HOST_EXCEPTION does either only for a rollback.                         *)
THEOREM FailuresKeepState == Spec => FailureKeepsState
<1> DEFINE Kept ==
      /\ reply'.code \in Failures => scene' = scene
      /\ reply'.code \in Failures \cup Incomplete => SameTransaction
      /\ reply'.code = Raised /\ scene' # scene =>
           reply'.op = "rollback" /\ (Announced => dirty')
      /\ reply'.code = Raised /\ ~SameTransaction =>
           reply'.op = "rollback" /\ tx'.id = None /\ scene' = tx.begin
<1>1. TypeOK /\ [Next]_vars => [Kept]_vars
  <2>. SUFFICES ASSUME TypeOK, Next PROVE Kept
    OBVIOUS
  <2>1. ASSUME NEW op, NEW code, Serving, Refuse(op, code) PROVE Kept
    BY <2>1, RefuseKeeps DEF SameTransaction
  <2>2. ASSUME NEW op, NEW f, Answers(op, "OK", f) PROVE Kept
    BY <2>2 DEF Answers, Failures, Incomplete, Raised
  <2>3. ASSUME reply' = Silence PROVE Kept
    BY <2>3 DEF Silence, Failures, Incomplete, Raised
  <2>4. ASSUME NEW g, NEW s \in Shapes, MutateFails(g, s) PROVE Kept
    <3>1. PICK e \in RecoveryEnds(s) :
            /\ scene' = e
            /\ \/ Recovered(s, e) /\ Answers("mutate", "FAILED", FALSE)
               \/ Answers("mutate", "MUTATION_RECOVERY_INCOMPLETE", FALSE)
      BY <2>4 DEF MutateFails
    <3>2. SameTransaction
      BY <2>4, ServingType DEF MutateFails, SameTransaction
    <3>3. /\ reply'.code # Raised
          /\ Answers("mutate", "MUTATION_RECOVERY_INCOMPLETE", FALSE)
               => reply'.code \notin Failures
      BY <3>1 DEF Answers, Failures, Raised
    <3>. QED BY <3>1, <3>2, <3>3 DEF Recovered
  <2>5. ASSUME NEW g, NEW id, NEW f, RollbackIncomplete(g, id, f) PROVE Kept
    BY <2>5, ServingType
       DEF RollbackIncomplete, RollbackAllowed, SameTransaction, Answers,
           Failures, Raised
  <2>6. ASSUME NEW g, NEW id, NEW f,
               \/ RollbackRaises(g, id, f) /\ tx' = Now.tx
               \/ RollbackUnaccepted(g, id, f)
        PROVE  Kept
    <3>1. /\ Serving /\ Unaccepted
          /\ reply'.op = "rollback" /\ reply'.code = Raised
          /\ \/ tx' = Now.tx
             \/ tx' = NoTransaction /\ scene' = tx.begin
      BY <2>6 DEF RollbackRaises, RollbackUnaccepted, RollbackAllowed,
                  Answers, Restored
    <3>2. \/ SameTransaction
          \/ tx'.id = None /\ scene' = tx.begin
      BY <3>1, ServingType DEF SameTransaction, NoTransaction
    <3>3. Announced /\ scene' # scene => dirty'
      BY <3>1 DEF Unaccepted
    <3>. QED BY <3>1, <3>2, <3>3 DEF Failures, Incomplete, Raised
  <2>7. ASSUME Requests PROVE Kept
    <3>1. ASSUME NEW g, NEW id, NEW f, RollbackRaises(g, id, f) PROVE Kept
      BY <2>6, <3>1 DEF RollbackRaises
    <3>. QED BY <2>1, <2>2, <2>3, <2>4, <2>5, <2>6, <2>7, <3>1
             DEF Requests, Read, Reject, RefuseStale, MutateUnprepared, Mutate,
                 MutateEscapes, Begin, RefuseBegin, RefuseControl, Commit,
                 CommitRaises, Rollback
  <2>8. ASSUME Life \/ User PROVE Kept
    BY <2>3, <2>8
       DEF Life, User, Start, StartFails, Stop, Reload, Edit, Notify
  <2>. QED BY <2>7, <2>8 DEF Next
<1>2. FailureKeepsState <=> [][Kept]_vars
  BY DEF FailureKeepsState
<1>. QED BY <1>1, <1>2, TypeCorrect, PTL DEF Spec

-----------------------------------------------------------------------------
(* The contract, of a host whose editor announces its changes.             *)

(* A step that moves the cached scene only with the revision is one the    *)
(* contract's observer may see.                                            *)
LEMMA Observing == Moves => Contract!Observe
BY DEF Moves, Contract!Observe, Contract!Keep, Contract!FirstLook,
       Contract!Publish

(* A step that keeps the transaction, or only marks it, with a revision of *)
(* its own.                                                                *)
LEMMA Going ==
  ASSUME TypeOK, Moves, Ended' = Contract!NotEnded,
         \/ tx' = tx
         \/ /\ revision' > revision /\ tx # NoTransaction
            /\ tx' = [tx EXCEPT !.external = scene]
  PROVE  Contract!Go
<1>1. Contract!Observe
  BY Observing
<1>2. CASE tx' = tx
  BY <1>1, <1>2 DEF Contract!Go
<1>3. CASE /\ revision' > revision /\ tx # NoTransaction
           /\ tx' = [tx EXCEPT !.external = scene]
  <2>1. tx \in Transaction /\ revision \in Nat
    BY <1>3, BoundAssumption DEF TypeOK
  <2>2. tx'.id = tx.id /\ tx'.begin = tx.begin
        /\ tx'.external = scene /\ tx.id # None
    BY <1>3, <2>1, NoneAssumption DEF Transaction
  <2>3. tx'.external # None
    BY <2>2, NoneAssumption DEF TypeOK
  <2>4. Contract!Publish
    BY <1>3, <2>1 DEF Moves, Contract!Publish
  <2>. QED BY <1>1, <2>2, <2>3, <2>4 DEF Contract!Go, Contract!Closed
<1>. QED BY <1>2, <1>3

(* The same for a dispatch that ends no transaction.                       *)
LEMMA Serves ==
  ASSUME TypeOK, Announced, Cache, Moves, Serving, tx' = Now.tx,
         revision' \in {Now.rev, Now.rev + 1}, Ended' = Contract!NotEnded
  PROVE  Contract!Go
<1>1. revision \in Nat
  BY DEF TypeOK
<1>2. \/ Now.tx = tx
      \/ /\ Now.rev = revision + 1 /\ tx # NoTransaction
         /\ Now.tx = [tx EXCEPT !.external = scene]
  BY ServingFacts
<1>. QED BY <1>1, <1>2, Going

(* An answer that closes no transaction is seen as such by the contract.   *)
LEMMA EndedNot ==
  /\ \A op, code, f :
       /\ Answers(op, code, f)
       /\ op \notin {"commit", "rollback"} \/ code # "OK"
       /\ op # "rollback" \/ code # Raised \/ tx'.id # None
       => Ended' = Contract!NotEnded
  /\ reply' = Silence => Ended' = Contract!NotEnded
BY DEF Answers, Ended, Contract!NotEnded, Silence, Raised

(* A refusal is a step of the contract that ends nothing.                  *)
LEMMA RefuseServes ==
  ASSUME TypeOK, Announced, Cache, Moves, Serving, NEW op,
         NEW code \in Failures \cup {Raised}, Refuse(op, code),
         op # "rollback" \/ code # Raised
  PROVE  Contract!Go
<1>1. Ended' = Contract!NotEnded
  BY EndedNot DEF Refuse, Failures, Raised
<1>. QED BY <1>1, Serves DEF Refuse, OnlyRefreshed

(* Closing without force needs a transaction that nobody has marked before *)
(* this dispatch either.                                                   *)
LEMMA Unmarked ==
  ASSUME TypeOK, Announced, Cache, Serving, NEW f \in BOOLEAN, SafeOrForced(f)
  PROVE  tx.external # None => f
<1>1. scene # None
  BY NoneAssumption DEF TypeOK
<1>2. tx.external # None => Now.tx.external # None
  BY <1>1, ServingFacts DEF TypeOK, Transaction
<1>. QED BY <1>2 DEF SafeOrForced

(* The initial states map to the contract's.                               *)
LEMMA InitContract == Init => Contract!Init
BY DEF Init, Contract!Init, NoTransaction, Contract!Closed,
       Ended, Silence, Contract!NotEnded

(* Every step of one domain maps to a step of the contract, or to none.    *)
LEMMA NextContract ==
  ASSUME Announced, IInv, [Next]_vars
  PROVE  [Reload \/ Contract!Next]_(Contract!vars)
<1> SUFFICES ASSUME [Next]_vars, ~Reload
             PROVE  Contract!Next \/ UNCHANGED Contract!vars
  OBVIOUS
<1>0. TypeOK /\ Cache
  BY DEF IInv
<1>m. CASE UNCHANGED vars
  BY <1>m DEF vars, host, Ended, Contract!vars
<1>n. CASE Next
  <2>0. Moves
    BY <1>0, <1>n, NextStep
  <2>1. ASSUME NEW a \in Agents, Read(a) PROVE Contract!Go
    BY <1>0, <2>0, <2>1, Serves, EndedNot DEF Read, OnlyRefreshed
  <2>2. CASE Reject
    BY <1>0, <2>0, <2>2, RefuseServes
       DEF Reject, Failures, Raised, Contract!Next
  <2>3. ASSUME NEW op, NEW g \in Guards, RefuseStale(op, g) PROVE Contract!Go
    BY <1>0, <2>0, <2>3, RefuseServes DEF RefuseStale, Failures, Raised
  <2>4. ASSUME NEW a \in Agents, NEW s \in Shapes, NEW g, Mutate(a, g, s)
        PROVE  Contract!Go
    BY <1>0, <2>0, <2>4, Serves, EndedNot DEF Mutate, AcceptedRevision
  <2>4a. ASSUME NEW g, NEW id, NEW f,
                MutateUnprepared(g) \/ CommitRaises(id, f)
         PROVE  Contract!Go
    BY <1>0, <2>0, <2>4a, RefuseServes DEF MutateUnprepared, CommitRaises
  <2>4b. ASSUME NEW g, NEW s \in Shapes, MutateEscapes(g, s)
         PROVE  Contract!Go
    BY <1>0, <2>0, <2>4b, Serves, EndedNot DEF MutateEscapes, Unaccepted
  <2>5. ASSUME NEW g, NEW s \in Shapes, MutateFails(g, s) PROVE Contract!Go
    <3>1. \E code : Answers("mutate", code, FALSE)
      BY <2>5 DEF MutateFails
    <3>2. Ended' = Contract!NotEnded
      BY <3>1, EndedNot
    <3>. QED BY <1>0, <2>0, <2>5, <3>2, Serves DEF MutateFails
  <2>6. ASSUME NEW id \in TxIds, Begin(id) PROVE Contract!Open(id)
    <3>1. lastFp' = scene
      BY <1>0, <2>6, ServingFacts DEF Begin
    <3>2. tx = NoTransaction
      BY <1>0, <2>6, NoneAssumption DEF Begin, TypeOK, Transaction
    <3>3. Ended' = Contract!NotEnded
      BY <2>6, EndedNot DEF Begin
    <3>. QED BY <2>0, <2>6, <3>1, <3>2, <3>3, Observing
             DEF Begin, Opened, Contract!Open, Contract!Closed, NoTransaction
  <2>7. CASE RefuseBegin
    BY <1>0, <2>0, <2>7, RefuseServes
       DEF RefuseBegin, Failures, Contract!Next
  <2>8. ASSUME NEW op, NEW id, NEW f, RefuseControl(op, id, f)
        PROVE  Contract!Go
    BY <1>0, <2>0, <2>8, RefuseServes
       DEF RefuseControl, Failures, Raised
  <2>9. ASSUME NEW id \in TxIds, NEW f \in BOOLEAN, Commit(id, f)
        PROVE  Contract!Commit(f)
    <3>1. tx.external # None => f
      BY <1>0, <2>9, Unmarked DEF Commit
    <3>2. tx.id # None
      BY <2>9, NoneAssumption DEF Commit
    <3>3. Ended' = [how |-> "commit", forced |-> f]
      BY <2>9 DEF Commit, Answers, Ended
    <3>. QED BY <2>0, <2>9, <3>1, <3>2, <3>3, Observing
             DEF Commit, Contract!Commit, Contract!End, Contract!Closed,
                 NoTransaction
  <2>10. ASSUME NEW g \in Guards, NEW id \in TxIds, NEW f \in BOOLEAN,
                Rollback(g, id, f)
         PROVE  Contract!Rollback(f)
    <3>1. lastFp' = tx.begin
      BY <2>10 DEF Rollback, Restored
    <3>2. tx.external # None => f
      BY <1>0, <2>10, Unmarked DEF Rollback, RollbackAllowed
    <3>3. tx.id # None
      BY <2>10, NoneAssumption DEF Rollback, RollbackAllowed
    <3>4. Ended' = [how |-> "rollback", forced |-> f]
      BY <2>10 DEF Rollback, Answers, Ended
    <3>. QED BY <2>0, <2>10, <3>1, <3>2, <3>3, <3>4, Observing
             DEF Rollback, Contract!Rollback, Contract!End,
                 Contract!Closed, NoTransaction
  <2>11. ASSUME NEW g, NEW id \in TxIds, NEW f,
                \/ RollbackIncomplete(g, id, f)
                \/ RollbackRaises(g, id, f)
         PROVE  Contract!Go
    <3>1. /\ Serving /\ revision' = Now.rev /\ tx' = Now.tx
          /\ tx.id = id
          /\ \/ Answers("rollback", "ROLLBACK_INCOMPLETE", f)
             \/ Answers("rollback", Raised, f)
      BY <2>11 DEF RollbackIncomplete, RollbackRaises, RollbackAllowed,
                   Unaccepted
    <3>2. tx'.id # None
      BY <1>0, <3>1, ServingType, NoneAssumption
    <3>3. Ended' = Contract!NotEnded
      BY <3>1, <3>2, EndedNot DEF Raised
    <3>. QED BY <1>0, <2>0, <3>1, <3>3, Serves
  <2>11a. ASSUME NEW g, NEW id \in TxIds, NEW f \in BOOLEAN,
                 RollbackUnaccepted(g, id, f)
          PROVE  Contract!Drop(f)
    <3>1. tx.external # None => f
      BY <1>0, <2>11a, Unmarked DEF RollbackUnaccepted, RollbackAllowed
    <3>2. tx.id # None
      BY <2>11a, NoneAssumption DEF RollbackUnaccepted, RollbackAllowed
    <3>3. Ended' = [how |-> "dropped", forced |-> f]
      BY <2>11a DEF RollbackUnaccepted, Answers, Ended, NoTransaction, Raised
    <3>. QED BY <2>0, <2>11a, <3>1, <3>2, <3>3, Observing
             DEF RollbackUnaccepted, Contract!Drop, Contract!End,
                 Contract!Closed, NoTransaction
  <2>12. CASE Start
    <3>1. PICK d \in BOOLEAN : d = TRUE
      OBVIOUS
    <3>2. revision' = Refreshed(d).rev /\ tx' = Refreshed(d).tx
          /\ Ended' = Contract!NotEnded
      BY <2>12, <3>1, EndedNot DEF Start, StartFlag
    <3>3. revision + 1 > revision
      BY <1>0 DEF TypeOK
    <3>4. \/ tx' = tx
          \/ /\ revision' > revision /\ tx # NoTransaction
             /\ tx' = [tx EXCEPT !.external = scene]
      BY <1>0, <3>1, <3>2, <3>3, RefreshedFacts
    <3>. QED BY <1>0, <2>0, <3>2, <3>4, Going DEF Contract!Next
  <2>13. CASE StartFails \/ Stop \/ User
    <3>1. tx' = tx /\ reply' = Silence
      BY <2>13 DEF StartFails, Stop, User, Edit, Notify
    <3>. QED BY <1>0, <2>0, <3>1, Going, EndedNot DEF Contract!Next
  <2>. QED BY <1>n, <2>1, <2>2, <2>3, <2>4, <2>4a, <2>4b, <2>5, <2>6, <2>7,
             <2>8, <2>9, <2>10, <2>11, <2>11a, <2>12, <2>13
          DEF Next, Requests, Life, Contract!Next
<1>. QED BY <1>m, <1>n

(* With announced changes, the Unity host implements HostContract between  *)
(* any two reloads of its domain.                                          *)
THEOREM ContractKept == Announced => (Spec => KeepsContract)
<1>. SUFFICES ASSUME Announced PROVE Spec => KeepsContract
  OBVIOUS
<1>1. IInv /\ [Next]_vars => [Reload \/ Contract!Next]_(Contract!vars)
  BY NextContract
<1>. QED BY <1>1, InitContract, Inductive, PTL DEF Spec, KeepsContract
=============================================================================
