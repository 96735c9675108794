------------------------- MODULE BlenderHostProofs -------------------------
(***************************************************************************)
(* Theorems about BlenderHost, for every value of its constants.           *)
(***************************************************************************)
EXTENDS BlenderHost, TLAPS

-----------------------------------------------------------------------------
(* The undo history.                                                       *)

History == {h \in Seq(Scene) : Len(h) \in 1..UndoCapacity}

(* A push keeps the history within its capacity, and not empty.            *)
LEMMA PushedType ==
  ASSUME NEW h \in History, NEW s \in Scene
  PROVE  Pushed(h, s) \in History
<1>1. CASE Len(h) < UndoCapacity
  <2>1. Append(h, s) \in Seq(Scene) /\ Len(Append(h, s)) = Len(h) + 1
    BY DEF History
  <2>. QED BY <1>1, <2>1, CapacityAssumption DEF Pushed, History
<1>2. CASE ~(Len(h) < UndoCapacity)
  <2>1. Tail(h) \in Seq(Scene) /\ Len(Tail(h)) = Len(h) - 1
    BY DEF History
  <2>2. /\ Append(Tail(h), s) \in Seq(Scene)
        /\ Len(Append(Tail(h), s)) = Len(h)
    BY <2>1, CapacityAssumption DEF History
  <2>. QED BY <1>2, <2>2, CapacityAssumption DEF Pushed, History
<1>. QED BY <1>1, <1>2

(* The boundary pushed is the last one.                                    *)
LEMMA PushedLast ==
  ASSUME NEW h \in History, NEW s \in Scene
  PROVE  Pushed(h, s)[Len(Pushed(h, s))] = s
<1>1. h \in Seq(Scene) /\ Tail(h) \in Seq(Scene)
  BY CapacityAssumption DEF History
<1>2. ASSUME NEW g \in Seq(Scene)
      PROVE  Append(g, s)[Len(Append(g, s))] = s
  BY <1>2
<1>. QED BY <1>1, <1>2 DEF Pushed

(* What an undo leaves is a scene, and a history.                          *)
LEMMA LandingType ==
  ASSUME NEW h \in History, NEW s \in Scene, NEW p \in 0..Len(h)
  PROVE  SceneAt(s, h, p) \in Scene /\ HistoryAt(h, p) \in History
<1>1. CASE p = 0
  BY <1>1 DEF SceneAt, HistoryAt
<1>2. CASE p # 0
  <2>1. p \in 1..Len(h) /\ Len(h) \in Nat
    BY <1>2 DEF History
  <2>2. h[p] \in Scene
    BY <2>1 DEF History
  <2>3. SubSeq(h, 1, p) \in Seq(Scene) /\ Len(SubSeq(h, 1, p)) = p
    BY <2>1 DEF History
  <2>. QED BY <1>2, <2>1, <2>2, <2>3, CapacityAssumption
             DEF SceneAt, HistoryAt, History
<1>. QED BY <1>1, <1>2

(* The undo loop ends at a position of the history, or nowhere.            *)
LEMMA LoopEndsType ==
  ASSUME NEW h \in History, NEW s, NEW target, NEW limit
  PROVE  UndoLoopEnds(s, h, target, limit) \subseteq 0..Len(h)
BY DEF UndoLoopEnds, History

(* So does one undo.                                                       *)
LEMMA UndoStopsType ==
  ASSUME NEW h \in History, NEW s
  PROVE  UndoStops(s, h) \subseteq 0..Len(h)
BY DEF UndoStops, History

(* How a failed mutation's recovery ends: with a scene and a history, and  *)
(* with the verdict that compares the scene with the checkpoint.           *)
LEMMA RecoveryType ==
  ASSUME NEW s \in Scene, scene \in Scene, undo \in History,
         NEW e \in RecoveryEnds(s)
  PROVE  /\ e.scene \in Scene /\ e.undo \in History
         /\ e.recovered = (Fingerprint(e.scene) = Fingerprint(scene))
<1> DEFINE made == Pushed(undo, scene)
           target == Fingerprint(scene)
           ends == IF Fingerprint(s) = target THEN {0}
                   ELSE UndoLoopEnds(s, made, target, RecoveryLimit)
<1>1. made \in History
  BY PushedType
<1>2. ends \subseteq 0..Len(made)
  BY <1>1, LoopEndsType DEF History
<1>3. PICK p \in ends :
        e = [scene |-> SceneAt(s, made, p), undo |-> HistoryAt(made, p),
             recovered |-> Fingerprint(SceneAt(s, made, p)) = target]
  BY DEF RecoveryEnds
<1>4. SceneAt(s, made, p) \in Scene /\ HistoryAt(made, p) \in History
  BY <1>1, <1>2, LandingType
<1>. QED BY <1>3, <1>4

(* The same for the end of a rollback, compared with the fingerprint of    *)
(* BEGIN.                                                                  *)
LEMMA RollbackType ==
  ASSUME NEW limit, scene \in Scene, undo \in History,
         NEW e \in RollbackEnds(limit)
  PROVE  /\ e.scene \in Scene /\ e.undo \in History
         /\ e.restored = (Fingerprint(e.scene) = tx.begin)
<1> DEFINE ends == IF Fingerprint(scene) = tx.begin THEN {0}
                   ELSE UndoLoopEnds(scene, undo, tx.begin, limit)
<1>2. ends \subseteq 0..Len(undo)
  BY LoopEndsType DEF History
<1>3. PICK p \in ends :
        e = [scene |-> SceneAt(scene, undo, p), undo |-> HistoryAt(undo, p),
             restored |-> Fingerprint(SceneAt(scene, undo, p)) = tx.begin]
  BY DEF RollbackEnds
<1>4. SceneAt(scene, undo, p) \in Scene /\ HistoryAt(undo, p) \in History
  BY <1>2, LandingType
<1>. QED BY <1>3, <1>4

-----------------------------------------------------------------------------
(* The dirty check.                                                        *)

(* A fingerprint is a shape.                                               *)
LEMMA FingerprintType == \A s \in Scene : Fingerprint(s) \in Shapes
BY DEF Scene, Fingerprint

(* It caches a fingerprint of the scene or keeps the one it has, raises    *)
(* the revision by one at most, and may mark the open transaction.         *)
LEMMA RefreshedType ==
  ASSUME TypeOK, NEW d \in BOOLEAN
  PROVE  /\ Refreshed(d).fp \in Shapes \cup {None}
         /\ Refreshed(d).rev \in {revision, revision + 1}
         /\ Refreshed(d).tx \in Transaction \cup {NoTransaction}
         /\ Refreshed(d).tx.id = tx.id /\ Refreshed(d).tx.begin = tx.begin
         /\ tx = NoTransaction => Refreshed(d).tx = NoTransaction
<1>1. Fingerprint(scene) \in Shapes
  BY FingerprintType DEF TypeOK
<1>2. /\ Refreshed(d).fp \in {Fingerprint(scene), lastFp}
      /\ Refreshed(d).rev \in {revision, revision + 1}
      /\ Refreshed(d).tx \in {tx, Marked(tx, Fingerprint(scene))}
  BY DEF Refreshed
<1>3. CASE tx = NoTransaction
  BY <1>1, <1>2, <1>3 DEF Marked, NoTransaction, TypeOK
<1>4. CASE tx \in Transaction
  <2>1. tx.id \in TxIds /\ tx # NoTransaction
    BY <1>4, NoneAssumption DEF Transaction, NoTransaction
  <2>2. Marked(tx, Fingerprint(scene)) \in Transaction
    BY <1>1, <1>4 DEF Marked, Transaction
  <2>3. /\ Marked(tx, Fingerprint(scene)).id = tx.id
        /\ Marked(tx, Fingerprint(scene)).begin = tx.begin
    BY <1>4 DEF Marked, Transaction
  <2>. QED BY <1>1, <1>2, <1>4, <2>1, <2>2, <2>3 DEF TypeOK
<1>. QED BY <1>3, <1>4 DEF TypeOK

(* No action of a dispatch lets the revision pass its bound.               *)
LEMMA ServingType ==
  ASSUME TypeOK, Serving
  PROVE  /\ Now.fp \in Shapes \cup {None}
         /\ Now.rev \in 0..MaxRevision
         /\ MayAccept => Now.rev + 1 \in 0..MaxRevision
         /\ Now.rev >= revision
         /\ Now.tx \in Transaction \cup {NoTransaction}
         /\ Now.tx.id = tx.id /\ Now.tx.begin = tx.begin
BY RefreshedType, BoundAssumption DEF Serving, MayAccept, Now, TypeOK

-----------------------------------------------------------------------------
(* Types.                                                                  *)

(* TypeOK, with the two conjuncts on the history as one.                   *)
LEMMA TypeUse == TypeOK => undo \in History /\ scene \in Scene
BY DEF TypeOK, History

(* Every answer is of the reply type.                                      *)
LEMMA ReplyType ==
  ASSUME NEW op \in Ops,
         NEW code \in {"OK", Raised} \cup Failures \cup Incomplete,
         NEW force \in BOOLEAN, Answers(op, code, force)
  PROVE  reply' \in Reply \cup {Silence}
BY DEF Answers, Reply

(* The types of the history variables.                                     *)
HistoryOK ==
  /\ atBegin \in Scene \cup {None} /\ beginAt \in 0..Len(undo)
  /\ owned \in Shapes \cup {None}
  /\ foreign \in BOOLEAN /\ unsure \in BOOLEAN

(* BEGIN's boundary stays in the history, or is nowhere.                   *)
LEMMA BeginType ==
  ASSUME TypeOK
  PROVE  /\ beginAt \in Nat /\ BeginAfterPush \in Nat
         /\ BeginAfterPush <= beginAt
         /\ \A at \in Nat : undo' \in History /\ BeginFollows(at)
              => beginAt' \in 0..Len(undo')
<1>1. undo \in History /\ beginAt \in Nat
  BY DEF TypeOK, History
<1>2. BeginAfterPush \in Nat /\ BeginAfterPush <= beginAt
  BY <1>1 DEF BeginAfterPush
<1>3. ASSUME NEW at \in Nat, undo' \in History, BeginFollows(at)
      PROVE  beginAt' \in 0..Len(undo')
  <2>1. Len(undo') \in Nat
    BY <1>3 DEF History
  <2>. QED BY <1>3, <2>1 DEF BeginFollows
<1>. QED BY <1>1, <1>2, <1>3

(* The history variables stay in their types.                              *)
LEMMA NotedType ==
  ASSUME TypeOK, scene' \in Scene, undo' \in History, NEW code,
         Noted(code) \/ NotedPush(code) \/ NotedClose
  PROVE  HistoryOK'
<1>1. CASE NotedClose
  <2>1. beginAt' \in 0..Len(undo')
    <3>1. \A m \in Nat : 0 \in 0..m
      OBVIOUS
    <3>2. Len(undo') \in Nat
      BY DEF History
    <3>. QED BY <1>1, <3>1, <3>2 DEF NotedClose
  <2>. QED BY <1>1, <2>1 DEF NotedClose, HistoryOK
<1>2. ASSUME NEW at \in Nat, NotedAt(code, at) PROVE HistoryOK'
  <2>1. beginAt' \in 0..Len(undo')
    BY <1>2, BeginType DEF NotedAt
  <2>2. foreign' \in BOOLEAN /\ unsure' \in BOOLEAN
    BY <1>2, Zenon DEF NotedAt, TypeOK
  <2>3. owned' \in Shapes \cup {None} /\ atBegin' \in Scene \cup {None}
    BY <1>2, FingerprintType DEF NotedAt, Leaves, TypeOK
  <2>. QED BY <2>1, <2>2, <2>3 DEF HistoryOK
<1>. QED BY <1>1, <1>2, BeginType DEF Noted, NotedPush

(* A refusal keeps the types, whichever it is.                             *)
LEMMA RefuseTypeOK ==
  ASSUME TypeOK, Serving, NEW op \in Ops, NEW code \in Failures,
         Refuse(op, code)
  PROVE  TypeOK'
<1>1. reply' \in Reply \cup {Silence}
  BY ReplyType DEF Refuse
<1>2. scene' \in Scene /\ undo' \in History
  BY TypeUse DEF Refuse, OnlyRefreshed
<1>3. HistoryOK'
  BY <1>2, NotedType DEF Refuse
<1>. QED BY <1>1, <1>2, <1>3, ServingType
         DEF Refuse, OnlyRefreshed, TypeOK, History, HistoryOK

(* What an agent learns is a view.                                         *)
LEMMA ViewType ==
  ASSUME TypeOK, NEW a \in Agents, NEW r \in Nat, NEW s \in Shapes
  PROVE  [view EXCEPT ![a] = [rev |-> r, shape |-> s]]
           \in [Agents -> View \cup {NoView}]
BY DEF TypeOK, View

(* The types hold at the start.                                            *)
LEMMA InitTypeOK == Init => TypeOK
<1>. SUFFICES ASSUME Init PROVE TypeOK
  OBVIOUS
<1>1. undo \in Seq(Scene) /\ Len(undo) \in 1..UndoCapacity
  BY CapacityAssumption DEF Init
<1>2. view \in [Agents -> View \cup {NoView}]
  BY DEF Init
<1>3. /\ running \in BOOLEAN /\ dirty \in BOOLEAN
      /\ foreign \in BOOLEAN /\ unsure \in BOOLEAN
  BY DEF Init
<1>5. beginAt \in 0..Len(undo)
  <2>1. Len(undo) \in Nat
    BY <1>1
  <2>2. \A m \in Nat : 0 \in 0..m
    OBVIOUS
  <2>. QED BY <2>1, <2>2 DEF Init
<1>4. revision \in 0..MaxRevision
  BY BoundAssumption DEF Init
<1>. QED BY <1>1, <1>2, <1>3, <1>4, <1>5 DEF Init, TypeOK

(* Every step keeps the types.                                             *)
LEMMA NextTypeOK == TypeOK /\ [Next]_vars => TypeOK'
<1> SUFFICES ASSUME TypeOK, [Next]_vars PROVE TypeOK'
  OBVIOUS
<1>1. ASSUME NEW a \in Agents, Read(a) PROVE TypeOK'
  <2>1. reply' \in Reply \cup {Silence}
    BY <1>1, ReplyType DEF Read, Ops
  <2>2. scene' \in Scene /\ undo' \in History
    BY <1>1, TypeUse DEF Read, OnlyRefreshed
  <2>3. HistoryOK'
    BY <1>1, <2>2, NotedType DEF Read
  <2>4. view' \in [Agents -> View \cup {NoView}]
    BY <1>1, ViewType, ServingType, TypeUse, FingerprintType DEF Read
  <2>. QED BY <1>1, <2>1, <2>2, <2>3, <2>4, ServingType
           DEF Read, OnlyRefreshed, TypeOK, History, HistoryOK
<1>2. CASE Reject
  BY <1>2, RefuseTypeOK DEF Reject, Ops, Failures
<1>3. ASSUME NEW op \in {"mutate", "rollback"}, NEW g \in Guards,
             RefuseStale(op, g)
      PROVE  TypeOK'
  BY <1>3, RefuseTypeOK DEF RefuseStale, Ops, Failures
<1>4. ASSUME NEW g \in Guards, MutateWithoutBoundary(g) PROVE TypeOK'
  BY <1>4, RefuseTypeOK DEF MutateWithoutBoundary, Ops, Failures
<1>5. ASSUME NEW a \in Agents, NEW s \in Scene, NEW g, Mutate(a, g, s)
      PROVE  TypeOK'
  <2>1. reply' \in Reply \cup {Silence}
    BY <1>5, ReplyType DEF Mutate, Ops
  <2>2. /\ scene' \in Scene /\ undo' \in History
    BY <1>5, PushedType, TypeUse DEF Mutate
  <2>3. HistoryOK'
    BY <1>5, <2>2, NotedType DEF Mutate
  <2>4. view' \in [Agents -> View \cup {NoView}]
    BY <1>5, ViewType, ServingType, FingerprintType
       DEF Mutate, AcceptedRevision
  <2>. QED BY <1>5, <2>1, <2>2, <2>3, <2>4, ServingType, FingerprintType
           DEF Mutate, AcceptedRevision, TypeOK, History, HistoryOK
<1>6. ASSUME NEW g \in Guards, NEW s \in Scene, MutateFails(g, s)
      PROVE  TypeOK'
  <2>1. PICK e \in RecoveryEnds(s) :
          /\ scene' = e.scene /\ undo' = e.undo
          /\ lastFp' = IF e.recovered THEN Fingerprint(scene) ELSE Now.fp
          /\ dirty' = ~e.recovered
          /\ \E code \in {"FAILED", "MUTATION_RECOVERY_INCOMPLETE"} :
               Answers("mutate", code, FALSE) /\ NotedPush(code)
    BY <1>6 DEF MutateFails
  <2>2. /\ e.scene \in Scene /\ e.undo \in History /\ e.recovered \in BOOLEAN
    BY RecoveryType, TypeUse
  <2>3. reply' \in Reply \cup {Silence}
    BY <2>1, ReplyType DEF Ops, Failures, Incomplete
  <2>4. HistoryOK'
    BY <2>1, <2>2, NotedType
  <2>. QED BY <1>6, <2>1, <2>2, <2>3, <2>4, ServingType, FingerprintType
           DEF MutateFails, TypeOK, History, HistoryOK
<1>7. ASSUME NEW id \in TxIds, Begin(id) PROVE TypeOK'
  <2>1. reply' \in Reply \cup {Silence}
    BY <1>7, ReplyType DEF Begin, Ops
  <2>2. scene' \in Scene /\ undo' \in History
    BY <1>7, PushedType, TypeUse DEF Begin
  <2>3. tx' \in Transaction
    BY <1>7, FingerprintType, TypeUse DEF Begin, Opened, Transaction
  <2>4. HistoryOK'
    <3>1. Len(undo') \in 0..Len(undo')
      BY <2>2 DEF History
    <3>. QED BY <1>7, <2>2, <3>1, FingerprintType, TypeUse
             DEF Begin, Leaves, HistoryOK
  <2>. QED BY <1>7, <2>1, <2>2, <2>3, <2>4, ServingType
           DEF Begin, TypeOK, History, HistoryOK
<1>8. CASE RefuseBegin
  BY <1>8, RefuseTypeOK DEF RefuseBegin, Ops, Failures
<1>9. ASSUME NEW op \in {"commit", "rollback"}, NEW id \in TxIds,
             NEW f \in BOOLEAN, RefuseControl(op, id, f)
      PROVE  TypeOK'
  BY <1>9, RefuseTypeOK DEF RefuseControl, Ops, Failures
<1>10. ASSUME NEW id \in TxIds, NEW f \in BOOLEAN, Commit(id, f)
       PROVE  TypeOK'
  <2>1. reply' \in Reply \cup {Silence}
    BY <1>10, ReplyType DEF Commit, Ops
  <2>2. scene' \in Scene /\ undo' \in History
    BY <1>10, PushedType, TypeUse DEF Commit
  <2>3. HistoryOK'
    BY <1>10, <2>2, NotedType DEF Commit
  <2>. QED BY <1>10, <2>1, <2>2, <2>3, ServingType
           DEF Commit, TypeOK, History, HistoryOK
<1>11. ASSUME NEW id \in TxIds, NEW f \in BOOLEAN,
              CommitWithoutBoundary(id, f)
       PROVE  TypeOK'
  BY <1>11, RefuseTypeOK DEF CommitWithoutBoundary, Ops, Failures
<1>12. ASSUME NEW g \in Guards, NEW id \in TxIds, NEW f \in BOOLEAN,
              NEW n \in RollbackLimits, Rollback(g, id, f, n)
       PROVE  TypeOK'
  <2>1. PICK e \in RollbackEnds(n) :
          /\ scene' = e.scene /\ undo' = e.undo
          /\ lastFp' = Fingerprint(e.scene)
    BY <1>12 DEF Rollback
  <2>2. e.scene \in Scene /\ e.undo \in History
    BY RollbackType, TypeUse
  <2>3. reply' \in Reply \cup {Silence}
    BY <1>12, ReplyType DEF Rollback, Ops
  <2>4. HistoryOK'
    BY <1>12, <2>1, <2>2, NotedType DEF Rollback
  <2>. QED BY <1>12, <2>1, <2>2, <2>3, <2>4, ServingType, FingerprintType
           DEF Rollback, RollbackAllowed, AcceptedRevision, TypeOK, History,
               HistoryOK
<1>13. ASSUME NEW g \in Guards, NEW id \in TxIds, NEW f \in BOOLEAN,
              NEW n \in RollbackLimits, NEW code,
              \/ /\ RollbackIncomplete(g, id, f, n)
                 /\ code = "ROLLBACK_INCOMPLETE"
              \/ RollbackRaises(g, id, f, n) /\ code = Raised
              \/ RollbackUnaccepted(g, id, f, n) /\ code = Raised
       PROVE  TypeOK'
  <2>1. PICK e \in RollbackEnds(n) : RollbackUnfinished(e, code, f)
    BY <1>13 DEF RollbackIncomplete, RollbackRaises, RollbackUnaccepted
  <2>2. e.scene \in Scene /\ e.undo \in History
    BY RollbackType, TypeUse
  <2>3. scene' \in Scene /\ undo' \in History /\ dirty' \in BOOLEAN
    BY <2>1, <2>2 DEF RollbackUnfinished
  <2>4. reply' \in Reply \cup {Silence}
    BY <1>13, <2>1, ReplyType DEF RollbackUnfinished, Ops, Incomplete
  <2>5. HistoryOK'
    BY <1>13, <2>3, NotedType
       DEF RollbackIncomplete, RollbackRaises, RollbackUnaccepted
  <2>6. Serving /\ tx' \in Transaction \cup {NoTransaction}
    BY <1>13, ServingType DEF RollbackIncomplete, RollbackRaises,
         RollbackUnaccepted, RollbackAllowed
  <2>. QED BY <2>1, <2>3, <2>4, <2>5, <2>6, ServingType
           DEF RollbackUnfinished, TypeOK, History, HistoryOK
<1>18. ASSUME NEW g \in Guards, NEW s \in Scene, MutateEscapes(g, s)
       PROVE  TypeOK'
  <2>1. PICK e \in RecoveryEnds(s) :
          scene' = e.scene /\ undo' = e.undo /\ dirty' = (e.scene # scene)
    BY <1>18 DEF MutateEscapes
  <2>2. e.scene \in Scene /\ e.undo \in History
    BY RecoveryType, TypeUse
  <2>3. HistoryOK'
    BY <1>18, <2>1, <2>2, NotedType DEF MutateEscapes
  <2>. QED BY <1>18, <2>1, <2>2, <2>3, ServingType
           DEF MutateEscapes, TypeOK, History, HistoryOK
<1>19. ASSUME NEW id \in TxIds, NEW f \in BOOLEAN, CommitRaises(id, f)
       PROVE  TypeOK'
  <2>1. reply' \in Reply \cup {Silence}
    BY <1>19, ReplyType DEF CommitRaises, Ops
  <2>2. scene' \in Scene /\ undo' \in History
    BY <1>19, PushedType, TypeUse DEF CommitRaises
  <2>3. HistoryOK'
    BY <1>19, <2>2, NotedType DEF CommitRaises
  <2>. QED BY <1>19, <2>1, <2>2, <2>3, ServingType
           DEF CommitRaises, TypeOK, History, HistoryOK
<1>20. CASE StartFails
  BY <1>20 DEF StartFails, StartFlag, TypeOK, editor, history
<1>14. CASE Start
  <2>1. /\ Refreshed(TRUE).fp \in Shapes \cup {None}
        /\ Refreshed(TRUE).rev \in 0..MaxRevision
        /\ Refreshed(TRUE).tx \in Transaction \cup {NoTransaction}
    <3>1. /\ Refreshed(TRUE).fp \in Shapes \cup {None}
          /\ Refreshed(TRUE).rev \in {revision, revision + 1}
          /\ Refreshed(TRUE).tx \in Transaction \cup {NoTransaction}
      BY RefreshedType
    <3>2. Refreshed(TRUE).rev <= MaxRevision
      BY <1>14 DEF Start, StartFlag
    <3>3. revision \in 0..MaxRevision
      BY DEF TypeOK
    <3>4. \A r : r \in {revision, revision + 1} /\ r <= MaxRevision
                 => r \in 0..MaxRevision
      BY <3>3, BoundAssumption
    <3>5. Refreshed(TRUE).rev \in 0..MaxRevision
      BY <3>1, <3>2, <3>4, Zenon
    <3>. QED BY <3>1, <3>5
  <2>2. HistoryOK'
    BY <1>14, NotedType, TypeUse DEF Start
  <2>. QED BY <1>14, <2>1, <2>2
           DEF Start, StartFlag, TypeOK, History, HistoryOK
<1>15. CASE Stop
  BY <1>15 DEF Stop, TypeOK, history
<1>16. CASE User
  <2>1. scene' \in Scene /\ undo' \in History /\ beginAt' \in 0..Len(undo')
    <3>1. ASSUME NEW s \in Scene, NEW b \in BOOLEAN, Edit(s, b)
          PROVE  /\ scene' \in Scene /\ undo' \in History
                 /\ beginAt' \in 0..Len(undo')
      BY <3>1, PushedType, BeginType, TypeUse DEF Edit
    <3>2. CASE UserUndo
      <4>1. scene' \in Scene /\ undo' \in History
        BY <3>2, LandingType, UndoStopsType, TypeUse DEF UserUndo
      <4>. QED BY <3>2, <4>1, BeginType DEF UserUndo
    <3>3. ASSUME NEW s \in Scene, LoadFile(s)
          PROVE  /\ scene' \in Scene /\ undo' \in History
                 /\ beginAt' \in 0..Len(undo')
      BY <3>3, CapacityAssumption DEF LoadFile, History
    <3>4. CASE Notify
      BY <3>4, TypeUse DEF Notify, TypeOK
    <3>. QED BY <1>16, <3>1, <3>2, <3>3, <3>4 DEF User
  <2>2. UserDid
    BY <1>16 DEF User, Edit, UserUndo, LoadFile, Notify
  <2>. QED BY <2>1, <2>2 DEF UserDid, Notified, TypeOK, History
<1>17. CASE UNCHANGED vars
  BY <1>17 DEF vars, editor, host, history, TypeOK
<1>. QED BY <1>1, <1>2, <1>3, <1>4, <1>5, <1>6, <1>7, <1>8, <1>9, <1>10,
           <1>11, <1>12, <1>13, <1>14, <1>15, <1>16, <1>17, <1>18, <1>19,
           <1>20
        DEF Next, Requests

(* Every variable stays in its range in every behaviour.                   *)
THEOREM TypeCorrect == Spec => []TypeOK
BY InitTypeOK, NextTypeOK, PTL DEF Spec

-----------------------------------------------------------------------------
(* The inductive invariant.  InSync alone is not inductive: that a skipped *)
(* check is harmless also needs to know that a server that runs has looked *)
(* once; and what an agent learned, what the last answer left behind and   *)
(* what a transaction was marked for are all tied to the cache.            *)

Looked ==
  running \/ tx # NoTransaction \/ (\E a \in Agents : view[a] # NoView)
    => lastFp # None

OwnedIsCached == owned # None => owned = lastFp

ForeignIsMarked == foreign => tx.external # None

OwnedUnlessUnsure == tx.id # None /\ ~foreign /\ ~unsure => owned # None

Cache ==
  /\ InSync /\ Looked /\ OwnedIsCached
  /\ ForeignIsMarked /\ OwnedUnlessUnsure /\ MarkExplained

ViewsHold ==
  \A a \in Agents : view[a] # NoView =>
    /\ view[a].rev <= revision
    /\ view[a].rev = revision => view[a].shape = lastFp

IInv == TypeOK /\ Cache /\ ViewsHold /\ OneRevisionOneScene

(* What every step does to the revision and to what it stands for.         *)
Moves ==
  \/ revision' = revision /\ lastFp' = lastFp
  \/ revision' = revision /\ lastFp = None /\ lastFp' \in Shapes
  \/ revision' > revision /\ lastFp # None /\ lastFp' \in Shapes

(* What an agent learns is what the host then stands for.                  *)
Learns ==
  \/ view' = view
  \/ /\ lastFp # None
     /\ \E a \in Agents :
          view' = [view EXCEPT ![a] = [rev |-> revision', shape |-> lastFp']]

(* The dirty check of a host that keeps the invariant, with the flag at d. *)
LEMMA RefreshedFacts ==
  ASSUME TypeOK, Cache, NEW d \in BOOLEAN, d \/ lastFp = Fingerprint(scene)
  PROVE  /\ Refreshed(d).fp = Fingerprint(scene)
         /\ \/ /\ Refreshed(d).rev = revision
               /\ lastFp = None \/ lastFp = Fingerprint(scene)
            \/ /\ Refreshed(d).rev = revision + 1
               /\ lastFp # None /\ lastFp # Fingerprint(scene)
         /\ \/ Refreshed(d).tx = tx
            \/ /\ Refreshed(d).rev = revision + 1 /\ tx # NoTransaction
               /\ Refreshed(d).tx = [tx EXCEPT !.external = Fingerprint(scene)]
         /\ foreign \/ ForeignSeen => Refreshed(d).tx.external # None
         /\ Refreshed(d).tx.external # None => foreign \/ ForeignSeen \/ unsure
<1> DEFINE fp == Fingerprint(scene)
           moved == d /\ lastFp # None /\ fp # lastFp
<1>1. fp \in Shapes /\ fp # None
  BY FingerprintType, TypeUse, NoneAssumption
<1>2. tx = NoTransaction \/ (tx \in Transaction /\ tx # NoTransaction)
  BY DEF TypeOK
<1>3. Refreshed(d).fp = fp
  BY DEF Refreshed
<1>4. \/ Refreshed(d).rev = revision /\ (lastFp = None \/ lastFp = fp)
      \/ Refreshed(d).rev = revision + 1 /\ lastFp # None /\ lastFp # fp
  BY DEF Refreshed
<1>5. moved => Refreshed(d).rev = revision + 1
               /\ Refreshed(d).tx = Marked(tx, fp)
  BY DEF Refreshed
<1>6. ~moved => Refreshed(d).tx = tx
  BY DEF Refreshed
<1>7. \/ Marked(tx, fp) = tx
      \/ tx # NoTransaction /\ Marked(tx, fp) = [tx EXCEPT !.external = fp]
  BY <1>2 DEF Marked, NoTransaction
<1>8. ASSUME tx.external # None PROVE Refreshed(d).tx.external # None
  BY <1>5, <1>6, <1>8 DEF Marked
<1>9. ASSUME ForeignSeen PROVE Refreshed(d).tx.external # None
  <2>1. tx.id # None /\ owned = lastFp /\ lastFp # None
        /\ fp # lastFp /\ fp # tx.begin
    BY <1>9 DEF ForeignSeen, Cache, OwnedIsCached
  <2>2. moved
    BY <2>1
  <2>3. tx \in Transaction
    BY <1>2, <2>1 DEF NoTransaction
  <2>4. Marked(tx, fp).external # None
    BY <1>1, <2>1, <2>3 DEF Marked, Transaction
  <2>. QED BY <1>5, <2>2, <2>4
<1>10. ASSUME Refreshed(d).tx.external # None, ~foreign, ~unsure
       PROVE  ForeignSeen
  <2>1. tx.external = None
    BY <1>10 DEF Cache, MarkExplained
  <2>2. moved /\ Marked(tx, fp) # tx
    BY <1>5, <1>6, <1>10, <2>1
  <2>3. tx.id # None /\ fp # tx.begin
    BY <2>2 DEF Marked
  <2>4. owned = lastFp /\ owned # None
    BY <1>10, <2>3 DEF Cache, OwnedIsCached, OwnedUnlessUnsure
  <2>. QED BY <2>2, <2>3, <2>4 DEF ForeignSeen
<1>. QED BY <1>3, <1>4, <1>5, <1>6, <1>7, <1>8, <1>9, <1>10
         DEF Cache, ForeignIsMarked

(* The same for a dispatch: the server runs, so it has looked before.      *)
LEMMA ServingFacts ==
  ASSUME TypeOK, Cache, Serving
  PROVE  /\ lastFp # None
         /\ Now.fp = Fingerprint(scene) /\ Now.fp \in Shapes
         /\ \/ Now.rev = revision /\ lastFp = Fingerprint(scene)
            \/ Now.rev = revision + 1 /\ lastFp # Fingerprint(scene)
         /\ \/ Now.tx = tx
            \/ /\ Now.rev = revision + 1 /\ tx # NoTransaction
               /\ Now.tx = [tx EXCEPT !.external = Fingerprint(scene)]
         /\ foreign \/ ForeignSeen => Now.tx.external # None
         /\ Now.tx.external # None => foreign \/ ForeignSeen \/ unsure
<1>1. lastFp # None /\ running
  BY DEF Serving, Cache, Looked
<1>2. dirty \in BOOLEAN /\ (dirty \/ lastFp = Fingerprint(scene))
  BY <1>1 DEF Cache, InSync, TypeOK
<1>. QED BY <1>1, <1>2, RefreshedFacts, FingerprintType, TypeUse DEF Now

(* A dispatch that leaves the scene alone, and its cache refreshed.        *)
LEMMA QuietStep ==
  ASSUME TypeOK, Cache, Serving, scene' = scene,
         lastFp' = Now.fp, revision' = Now.rev
  PROVE  Moves /\ lastFp' = Fingerprint(scene') /\ lastFp' # None
BY ServingFacts, NoneAssumption DEF Moves, TypeOK

(* What the history variables say of a transaction after a dispatch, and   *)
(* that the fingerprint they keep is the scene's.                          *)
Accounted(code) ==
  /\ ForeignIsMarked' /\ OwnedUnlessUnsure' /\ MarkExplained'
  /\ owned' # None => code \notin Unsure /\ owned' = Fingerprint(scene')

LEMMA NotedAccounts ==
  ASSUME scene' \in Scene, NEW code, NEW at, NotedAt(code, at),
         tx'.id = tx.id,
         foreign \/ ForeignSeen => tx'.external # None,
         tx'.external # None => foreign \/ ForeignSeen \/ unsure
  PROVE  Accounted(code)
<1>1. /\ foreign' <=> foreign \/ ForeignSeen
      /\ unsure' <=> ~foreign' /\ (unsure \/ (tx.id # None /\ code \in Unsure))
  BY DEF NotedAt
<1>2. owned' = IF code \in Unsure \/ tx'.id = None \/ foreign' THEN None
               ELSE Fingerprint(scene')
  BY DEF NotedAt, Leaves
<1>3. Fingerprint(scene') # None
  BY FingerprintType, NoneAssumption
<1>. QED BY <1>1, <1>2, <1>3
         DEF Accounted, ForeignIsMarked, OwnedUnlessUnsure, MarkExplained

(* The same for a dispatch, whichever way it notes its answer.             *)
LEMMA ServingAccounts ==
  ASSUME TypeOK, Cache, Serving, scene' \in Scene, tx' = Now.tx,
         NEW code, Noted(code) \/ NotedPush(code)
  PROVE  Accounted(code)
BY NotedAccounts, ServingFacts, ServingType DEF Noted, NotedPush

(* An answer that does say what it leaves behind.                          *)
LEMMA SureCodes ==
  /\ "OK" \notin Unsure
  /\ \A code \in Failures : code \notin Unsure
  /\ Incomplete \subseteq Unsure /\ Raised \in Unsure /\ "none" \in Unsure
BY DEF Unsure, Failures, Incomplete, Raised, Silence

(* A refusal publishes what the dirty check found and nothing else.        *)
LEMMA RefuseStep ==
  ASSUME TypeOK, Cache, Serving, NEW op, NEW code \in Failures,
         Refuse(op, code)
  PROVE  Moves /\ Learns /\ Cache'
<1>1. /\ scene' = scene /\ lastFp' = Now.fp /\ revision' = Now.rev
      /\ tx' = Now.tx /\ view' = view /\ running' = running
      /\ Noted(code)
  BY DEF Refuse, OnlyRefreshed
<1>2. Moves /\ lastFp' = Fingerprint(scene') /\ lastFp' # None
  BY <1>1, QuietStep
<1>3. Accounted(code)
  BY <1>1, ServingAccounts, TypeUse
<1>. QED BY <1>1, <1>2, <1>3, ServingFacts
         DEF Learns, Cache, InSync, Looked, OwnedIsCached, Accounted

(* A transaction that is gone owes no account.                             *)
LEMMA ClosedCache ==
  ASSUME tx' = NoTransaction, NotedClose
  PROVE  /\ owned' = None /\ ForeignIsMarked' /\ OwnedUnlessUnsure'
         /\ MarkExplained'
BY DEF NotedClose, NoTransaction, ForeignIsMarked, OwnedUnlessUnsure,
       MarkExplained

(* A dispatch that leaves the scene anywhere and accepts nothing: the flag *)
(* is up if the scene moved.                                               *)
LEMMA UnfinishedStep ==
  ASSUME TypeOK, Cache, Serving, scene' \in Scene, dirty' = (scene' # scene),
         lastFp' = Now.fp, revision' = Now.rev,
         UNCHANGED <<running, view>>, NEW code \in Unsure,
         \/ tx' = Now.tx /\ (Noted(code) \/ NotedPush(code))
         \/ tx' = NoTransaction /\ NotedClose
  PROVE  Moves /\ Learns /\ Cache'
<1>1. lastFp' = Fingerprint(scene) /\ lastFp' # None
  BY ServingFacts, NoneAssumption
<1>2. Moves
  BY ServingFacts DEF Moves, TypeOK
<1>3. owned' = None /\ ForeignIsMarked' /\ OwnedUnlessUnsure' /\ MarkExplained'
  <2>1. CASE tx' = Now.tx /\ (Noted(code) \/ NotedPush(code))
    BY <2>1, ServingAccounts DEF Accounted
  <2>2. CASE tx' = NoTransaction /\ NotedClose
    BY <2>2, ClosedCache
  <2>. QED BY <2>1, <2>2
<1>. QED BY <1>1, <1>2, <1>3
         DEF Learns, Cache, InSync, Looked, OwnedIsCached

(* Every step moves the cached scene only with the revision, and keeps the *)
(* cache right; an agent only learns what the cache holds.                 *)
LEMMA NextStep ==
  ASSUME TypeOK, Cache, [Next]_vars
  PROVE  Moves /\ Learns /\ Cache'
<1> USE DEF InSync, Looked, OwnedIsCached
<1>1. ASSUME NEW a \in Agents, Read(a) PROVE Moves /\ Learns /\ Cache'
  <2>1. /\ scene' = scene /\ lastFp' = Now.fp /\ revision' = Now.rev
        /\ tx' = Now.tx /\ running' = running
        /\ Noted("OK") /\ Serving
    BY <1>1 DEF Read, OnlyRefreshed
  <2>2. Moves /\ lastFp' = Fingerprint(scene') /\ lastFp' # None
    BY <2>1, QuietStep
  <2>3. view' = [view EXCEPT ![a] = [rev |-> revision', shape |-> lastFp']]
    BY <1>1, <2>1, ServingFacts DEF Read
  <2>4. Accounted("OK")
    BY <2>1, ServingAccounts, TypeUse
  <2>. QED BY <2>1, <2>2, <2>3, <2>4, ServingFacts
           DEF Learns, Cache, Accounted
<1>2. CASE Reject
  BY <1>2, RefuseStep DEF Reject, Failures
<1>3. ASSUME NEW op \in {"mutate", "rollback"}, NEW g \in Guards,
             RefuseStale(op, g)
      PROVE  Moves /\ Learns /\ Cache'
  BY <1>3, RefuseStep DEF RefuseStale, Failures
<1>4. ASSUME NEW g \in Guards, MutateWithoutBoundary(g)
      PROVE  Moves /\ Learns /\ Cache'
  BY <1>4, RefuseStep DEF MutateWithoutBoundary, Failures
<1>5. ASSUME NEW a \in Agents, NEW s \in Scene, NEW g, Mutate(a, g, s)
      PROVE  Moves /\ Learns /\ Cache'
  <2>1. /\ scene' = s /\ lastFp' = Fingerprint(s) /\ revision' = Now.rev + 1
        /\ tx' = Now.tx /\ running' = running /\ Serving
        /\ NotedPush("OK")
        /\ view' = [view EXCEPT ![a] = [rev |-> revision', shape |-> lastFp']]
    BY <1>5 DEF Mutate, AcceptedRevision
  <2>2. Fingerprint(s) \in Shapes /\ Fingerprint(s) # None
    BY FingerprintType, NoneAssumption
  <2>3. revision' > revision /\ lastFp # None
    BY <2>1, ServingFacts DEF TypeOK
  <2>4. Accounted("OK")
    BY <2>1, ServingAccounts
  <2>. QED BY <2>1, <2>2, <2>3, <2>4, ServingFacts
           DEF Moves, Learns, Cache, Accounted
<1>6. ASSUME NEW g \in Guards, NEW s \in Scene, MutateFails(g, s)
      PROVE  Moves /\ Learns /\ Cache'
  <2>1. PICK e \in RecoveryEnds(s) :
          /\ scene' = e.scene
          /\ lastFp' = IF e.recovered THEN Fingerprint(scene) ELSE Now.fp
          /\ dirty' = ~e.recovered
          /\ \/ e.recovered /\ NotedPush("FAILED")
             \/ ~e.recovered /\ NotedPush("MUTATION_RECOVERY_INCOMPLETE")
    BY <1>6 DEF MutateFails
  <2>2. /\ e.recovered = (Fingerprint(e.scene) = Fingerprint(scene))
        /\ scene' \in Scene
    BY <2>1, RecoveryType, TypeUse
  <2>3. /\ revision' = Now.rev /\ tx' = Now.tx /\ running' = running
        /\ view' = view /\ Serving
    BY <1>6 DEF MutateFails
  <2>4. lastFp' = Fingerprint(scene) /\ lastFp' = Now.fp /\ lastFp' # None
    BY <2>1, <2>3, ServingFacts, NoneAssumption
  <2>5. Moves
    BY <2>3, <2>4, ServingFacts DEF Moves, TypeOK
  <2>6. /\ owned' # None => owned' = lastFp'
        /\ ForeignIsMarked' /\ OwnedUnlessUnsure' /\ MarkExplained'
    <3>1. CASE e.recovered /\ NotedPush("FAILED")
      <4>1. Accounted("FAILED")
        BY <2>2, <2>3, <3>1, ServingAccounts
      <4>. QED BY <2>1, <2>2, <2>4, <3>1, <4>1 DEF Accounted
    <3>2. CASE NotedPush("MUTATION_RECOVERY_INCOMPLETE")
      <4>1. Accounted("MUTATION_RECOVERY_INCOMPLETE")
        BY <2>2, <2>3, <3>2, ServingAccounts
      <4>. QED BY <4>1, SureCodes DEF Accounted, Incomplete
    <3>. QED BY <2>1, <3>1, <3>2
  <2>7. ~dirty' => lastFp' = Fingerprint(scene')
    BY <2>1, <2>2, <2>4
  <2>. QED BY <2>3, <2>4, <2>5, <2>6, <2>7, ServingFacts DEF Learns, Cache
<1>7. ASSUME NEW id \in TxIds, Begin(id) PROVE Moves /\ Learns /\ Cache'
  <2>1. /\ scene' = scene /\ lastFp' = Now.fp /\ revision' = Now.rev
        /\ running' = running /\ view' = view
        /\ tx' = Opened(id) /\ ~foreign' /\ ~unsure'
        /\ Leaves("OK") /\ Serving
    BY <1>7 DEF Begin
  <2>2. Moves /\ lastFp' = Fingerprint(scene') /\ lastFp' # None
    BY <2>1, QuietStep
  <2>3. tx'.id # None /\ tx'.external = None
    BY <2>1, NoneAssumption DEF Opened
  <2>4. owned' = Fingerprint(scene')
    BY <2>1, <2>3, SureCodes DEF Leaves
  <2>. QED BY <2>1, <2>2, <2>3, <2>4
           DEF Learns, Cache, ForeignIsMarked, OwnedUnlessUnsure,
               MarkExplained
<1>8. CASE RefuseBegin
  BY <1>8, RefuseStep DEF RefuseBegin, Failures
<1>9. ASSUME NEW op \in {"commit", "rollback"}, NEW id \in TxIds,
             NEW f \in BOOLEAN, RefuseControl(op, id, f)
      PROVE  Moves /\ Learns /\ Cache'
  BY <1>9, RefuseStep DEF RefuseControl, Failures
<1>10. ASSUME NEW id \in TxIds, NEW f \in BOOLEAN, Commit(id, f)
       PROVE  Moves /\ Learns /\ Cache'
  <2>1. /\ scene' = scene /\ lastFp' = Now.fp /\ revision' = Now.rev
        /\ running' = running /\ view' = view
        /\ tx' = NoTransaction /\ NotedClose /\ Serving
    BY <1>10 DEF Commit
  <2>2. Moves /\ lastFp' = Fingerprint(scene') /\ lastFp' # None
    BY <2>1, QuietStep
  <2>. QED BY <2>1, <2>2, ClosedCache DEF Learns, Cache
<1>11. ASSUME NEW id \in TxIds, NEW f \in BOOLEAN,
              CommitWithoutBoundary(id, f)
       PROVE  Moves /\ Learns /\ Cache'
  BY <1>11, RefuseStep DEF CommitWithoutBoundary, Failures
<1>12. ASSUME NEW g \in Guards, NEW id \in TxIds, NEW f \in BOOLEAN,
              NEW n \in RollbackLimits, Rollback(g, id, f, n)
       PROVE  Moves /\ Learns /\ Cache'
  <2>1. PICK e \in RollbackEnds(n) :
          scene' = e.scene /\ lastFp' = Fingerprint(e.scene)
    BY <1>12 DEF Rollback
  <2>2. Fingerprint(e.scene) \in Shapes /\ Fingerprint(e.scene) # None
    BY RollbackType, TypeUse, FingerprintType, NoneAssumption
  <2>3. /\ revision' = Now.rev + 1 /\ view' = view /\ Serving
        /\ tx' = NoTransaction /\ NotedClose
    BY <1>12 DEF Rollback, RollbackAllowed, AcceptedRevision
  <2>4. revision' > revision /\ lastFp # None
    BY <2>3, ServingFacts DEF TypeOK
  <2>. QED BY <2>1, <2>2, <2>3, <2>4, ClosedCache DEF Moves, Learns, Cache
<1>13. ASSUME NEW g \in Guards, NEW id \in TxIds, NEW f \in BOOLEAN,
              NEW n \in RollbackLimits, NEW code \in Unsure,
              \/ /\ RollbackIncomplete(g, id, f, n)
                 /\ code = "ROLLBACK_INCOMPLETE"
              \/ RollbackRaises(g, id, f, n) /\ code = Raised
              \/ RollbackUnaccepted(g, id, f, n) /\ code = Raised
       PROVE  Moves /\ Learns /\ Cache'
  <2>1. PICK e \in RollbackEnds(n) : RollbackUnfinished(e, code, f)
    BY <1>13 DEF RollbackIncomplete, RollbackRaises, RollbackUnaccepted
  <2>2. /\ dirty' = (scene' # scene) /\ scene' \in Scene
        /\ lastFp' = Now.fp /\ revision' = Now.rev
        /\ running' = running /\ view' = view /\ Serving
    BY <1>13, <2>1, RollbackType, TypeUse
       DEF RollbackUnfinished, RollbackIncomplete, RollbackRaises,
           RollbackUnaccepted, RollbackAllowed
  <2>3. \/ tx' = Now.tx /\ Noted(code)
        \/ tx' = NoTransaction /\ NotedClose
    BY <1>13 DEF RollbackIncomplete, RollbackRaises, RollbackUnaccepted
  <2>. QED BY <2>2, <2>3, UnfinishedStep
<1>18. ASSUME NEW g \in Guards, NEW s \in Scene, MutateEscapes(g, s)
       PROVE  Moves /\ Learns /\ Cache'
  <2>1. PICK e \in RecoveryEnds(s) :
          scene' = e.scene /\ dirty' = (e.scene # scene)
    BY <1>18 DEF MutateEscapes
  <2>2. scene' \in Scene
    BY <2>1, RecoveryType, TypeUse
  <2>3. /\ dirty' = (scene' # scene)
        /\ lastFp' = Now.fp /\ revision' = Now.rev /\ tx' = Now.tx
        /\ running' = running /\ view' = view /\ Serving
        /\ NotedPush("none")
    BY <1>18, <2>1 DEF MutateEscapes, Silence
  <2>. QED BY <2>2, <2>3, UnfinishedStep, SureCodes
<1>19. ASSUME NEW id \in TxIds, NEW f \in BOOLEAN, CommitRaises(id, f)
       PROVE  Moves /\ Learns /\ Cache'
  <2>1. /\ scene' = scene /\ lastFp' = Now.fp /\ revision' = Now.rev
        /\ tx' = Now.tx /\ view' = view /\ running' = running
        /\ NotedPush(Raised) /\ Serving
    BY <1>19 DEF CommitRaises
  <2>2. Moves /\ lastFp' = Fingerprint(scene') /\ lastFp' # None
    BY <2>1, QuietStep
  <2>3. Accounted(Raised)
    BY <2>1, ServingAccounts, TypeUse
  <2>. QED BY <2>1, <2>2, <2>3, ServingFacts DEF Learns, Cache, Accounted
<1>20. CASE StartFails
  BY <1>20 DEF StartFails, editor, history, Moves, Learns, Cache,
         ForeignIsMarked, OwnedUnlessUnsure, MarkExplained
<1>14. CASE Start
  <2>1. PICK d \in BOOLEAN : d = TRUE
    OBVIOUS
  <2>2. /\ scene' = scene /\ view' = view
        /\ lastFp' = Refreshed(d).fp /\ revision' = Refreshed(d).rev
        /\ tx' = Refreshed(d).tx
        /\ Noted("OK")
    BY <1>14, <2>1 DEF Start, StartFlag
  <2>3. lastFp' = Fingerprint(scene) /\ lastFp' \in Shapes /\ lastFp' # None
    BY <2>1, <2>2, RefreshedFacts, FingerprintType, TypeUse, NoneAssumption
  <2>4. Moves
    <3>1. \/ revision' = revision /\ (lastFp = None \/ lastFp = lastFp')
          \/ revision' = revision + 1 /\ lastFp # None
      BY <2>1, <2>2, <2>3, RefreshedFacts
    <3>2. revision + 1 > revision
      BY DEF TypeOK
    <3>. QED BY <2>3, <3>1, <3>2 DEF Moves
  <2>5. Accounted("OK")
    <3>1. tx'.id = tx.id
      BY <2>2, RefreshedType
    <3>. QED BY <2>1, <2>2, <3>1, NotedAccounts, RefreshedFacts, TypeUse
             DEF Noted
  <2>. QED BY <2>1, <2>2, <2>3, <2>4, <2>5, RefreshedFacts
           DEF Learns, Cache, Accounted
<1>15. CASE Stop
  BY <1>15 DEF Stop, history, Moves, Learns, Cache, ForeignIsMarked,
         OwnedUnlessUnsure, MarkExplained
<1>16. CASE User
  <2>1. UserDid
    BY <1>16 DEF User, Edit, UserUndo, LoadFile, Notify
  <2>2. running' = running /\ (running => dirty')
    BY <2>1, Zenon DEF UserDid, Notified
  <2>3. UNCHANGED <<lastFp, revision, tx, view, owned, foreign, unsure>>
    BY <2>1 DEF UserDid
  <2>. QED BY <2>2, <2>3 DEF Moves, Learns, Cache, ForeignIsMarked,
           OwnedUnlessUnsure, MarkExplained
<1>17. CASE UNCHANGED vars
  BY <1>17 DEF vars, editor, host, history, Moves, Learns, Cache,
         ForeignIsMarked, OwnedUnlessUnsure, MarkExplained
<1>. QED BY <1>1, <1>2, <1>3, <1>4, <1>5, <1>6, <1>7, <1>8, <1>9, <1>10,
           <1>11, <1>12, <1>13, <1>14, <1>15, <1>16, <1>17, <1>18, <1>19,
           <1>20, SureCodes
        DEF Incomplete, Next, Requests

(* The inductive invariant holds at the start.                             *)
LEMMA InitIInv == Init => IInv
<1>. SUFFICES ASSUME Init PROVE IInv
  OBVIOUS
<1>1. \A a \in Agents : view[a] = NoView
  BY DEF Init
<1>. QED BY <1>1, InitTypeOK DEF Init, IInv, Cache, InSync, Looked,
           OwnedIsCached, ForeignIsMarked, OwnedUnlessUnsure, MarkExplained,
           NoTransaction, ViewsHold, OneRevisionOneScene

(* What the agents know survives a step: what they learned before is of an *)
(* older revision, or of this one and then of the same scene.              *)
LEMMA ViewsStep ==
  ASSUME IInv, TypeOK', Moves, Learns
  PROVE  ViewsHold' /\ OneRevisionOneScene'
<1>1. /\ revision \in Nat /\ revision' \in Nat
      /\ lastFp' \in Shapes \cup {None} /\ None \notin Nat
  BY NoneAssumption, BoundAssumption DEF IInv, TypeOK
<1>2. \A a \in Agents : view[a] # NoView => view[a].rev \in Nat
  BY DEF IInv, TypeOK, View
<1>3. \A a \in Agents : view[a] # NoView => lastFp # None
  BY DEF IInv, Cache, Looked
<1>4. \A a \in Agents : view[a] # NoView =>
        /\ view[a].rev <= revision'
        /\ view[a].rev = revision' => view[a].shape = lastFp'
  BY <1>1, <1>2, <1>3 DEF IInv, ViewsHold, Moves
<1>5. CASE view' = view
  BY <1>4, <1>5 DEF ViewsHold, IInv, OneRevisionOneScene
<1>6. CASE view' # view
  <2>1. PICK b \in Agents :
          view' = [view EXCEPT ![b] = [rev |-> revision', shape |-> lastFp']]
    BY <1>6 DEF Learns
  <2>2. \A a \in Agents :
          view'[a] = IF a = b THEN [rev |-> revision', shape |-> lastFp']
                     ELSE view[a]
    BY <2>1 DEF IInv, TypeOK
  <2>3. ViewsHold'
    BY <1>1, <1>4, <2>2 DEF ViewsHold
  <2>4. ASSUME NEW a \in Agents, NEW c \in Agents,
               view'[a].rev = view'[c].rev
        PROVE  view'[a].shape = view'[c].shape
    <3>1. CASE a # b /\ c # b
      BY <2>2, <2>4, <3>1 DEF IInv, OneRevisionOneScene
    <3>2. CASE a = b /\ c # b
      BY <1>1, <1>4, <2>2, <2>4, <3>2 DEF NoView
    <3>3. CASE a # b /\ c = b
      BY <1>1, <1>4, <2>2, <2>4, <3>3 DEF NoView
    <3>. QED BY <3>1, <3>2, <3>3
  <2>. QED BY <2>3, <2>4 DEF OneRevisionOneScene
<1>. QED BY <1>5, <1>6

(* Every step keeps the inductive invariant.                               *)
LEMMA NextIInv == IInv /\ [Next]_vars => IInv'
<1>. SUFFICES ASSUME IInv, [Next]_vars PROVE IInv'
  OBVIOUS
<1>1. TypeOK'
  BY NextTypeOK DEF IInv
<1>2. Moves /\ Learns /\ Cache'
  BY NextStep DEF IInv
<1>. QED BY <1>1, <1>2, ViewsStep DEF IInv

(* The invariant the safety properties rest on: types, a right cache, and  *)
(* views that are older than the revision or equal to the cache.           *)
THEOREM Inductive == Spec => []IInv
BY InitIInv, NextIInv, PTL DEF Spec

-----------------------------------------------------------------------------
(* The safety properties.                                                  *)

(* While the server runs with its flag down, its cached fingerprint is the *)
(* scene's.                                                                *)
THEOREM StaysInSync == Spec => []InSync
<1>1. IInv => InSync
  BY DEF IInv, Cache
<1>. QED BY <1>1, Inductive, PTL

(* A guarded request that is admitted acts on the scene its agent learned. *)
THEOREM StaleWritesRefused == Spec => []NoStaleWrite
<1>1. IInv => NoStaleWrite
  <2>. SUFFICES ASSUME IInv, NEW a \in Agents,
                       Serving, view[a] # NoView, Admitted(view[a].rev)
                PROVE  view[a].shape = Fingerprint(scene)
    BY DEF NoStaleWrite
  <2>1. view[a].rev \in Nat /\ view[a].rev # None /\ revision \in Nat
    BY NoneAssumption, BoundAssumption DEF IInv, TypeOK, View
  <2>2. view[a].rev = Now.rev
    BY <2>1 DEF Admitted
  <2>3. /\ view[a].rev <= revision
        /\ view[a].rev = revision => view[a].shape = lastFp
    BY DEF IInv, ViewsHold
  <2>4. \/ Now.rev = revision /\ lastFp = Fingerprint(scene)
        \/ Now.rev = revision + 1
    BY ServingFacts DEF IInv
  <2>. QED BY <2>1, <2>2, <2>3, <2>4
<1>. QED BY <1>1, Inductive, PTL

(* A revision number never stands for two fingerprints.                    *)
THEOREM RevisionNamesOneScene == Spec => []OneRevisionOneScene
<1>1. IInv => OneRevisionOneScene
  BY DEF IInv
<1>. QED BY <1>1, Inductive, PTL

(* A marked transaction met a foreign state or an end that left its own.   *)
THEOREM MarksExplained == Spec => []MarkExplained
<1>1. IInv => MarkExplained
  BY DEF IInv, Cache
<1>. QED BY <1>1, Inductive, PTL

(* No transaction that met a foreign state ends well without force.        *)
THEOREM ClosesCleanly == Spec => CleanClose
<1> DEFINE Closes == /\ reply'.op \in {"commit", "rollback"}
                     /\ reply'.code = "OK" /\ ~reply'.forced
<1>1. IInv /\ [Next]_vars =>
        [Closes => ~foreign /\ ~ForeignSeen]_vars
  <2>. SUFFICES ASSUME IInv, Next, Closes PROVE ~foreign /\ ~ForeignSeen
    OBVIOUS
  <2>1. Serving /\ Now.tx.external = None
    <3>1. ASSUME NEW op, NEW code \in Failures \cup Incomplete \cup {Raised},
                 NEW f, Answers(op, code, f)
          PROVE  FALSE
      BY <3>1 DEF Answers, Failures, Incomplete, Raised
    <3>2. reply' # Silence
      BY DEF Silence
    <3>3. ASSUME NEW id, NEW f \in BOOLEAN, Commit(id, f)
          PROVE  Serving /\ Now.tx.external = None
      BY <3>3 DEF Commit, SafeOrForced, Answers
    <3>4. ASSUME NEW g, NEW id, NEW f \in BOOLEAN, NEW n, Rollback(g, id, f, n)
          PROVE  Serving /\ Now.tx.external = None
      BY <3>4 DEF Rollback, RollbackAllowed, SafeOrForced, Answers
    <3>5. ASSUME NEW op, NEW code \in Failures, Refuse(op, code) PROVE FALSE
      BY <3>1, <3>5 DEF Refuse
    <3>6. ASSUME NEW a, Read(a) PROVE FALSE
      BY <3>6 DEF Read, Answers
    <3>7. ASSUME NEW a, NEW g, NEW s, Mutate(a, g, s) PROVE FALSE
      BY <3>7 DEF Mutate, Answers
    <3>8. ASSUME NEW g, NEW s, MutateFails(g, s) PROVE FALSE
      BY <3>1, <3>8 DEF MutateFails, Failures, Incomplete
    <3>9. ASSUME NEW id, Begin(id) PROVE FALSE
      BY <3>9 DEF Begin, Answers
    <3>10. ASSUME NEW g, NEW id, NEW f, NEW n,
                  \/ RollbackIncomplete(g, id, f, n)
                  \/ RollbackRaises(g, id, f, n)
                  \/ RollbackUnaccepted(g, id, f, n)
           PROVE  FALSE
      BY <3>1, <3>10 DEF RollbackIncomplete, RollbackRaises,
           RollbackUnaccepted, RollbackUnfinished, Incomplete
    <3>11. ~Reject /\ ~RefuseBegin
      BY <3>5 DEF Reject, RefuseBegin, Failures
    <3>12. ASSUME NEW op, NEW g, RefuseStale(op, g) PROVE FALSE
      BY <3>5, <3>12 DEF RefuseStale, Failures
    <3>13. ASSUME NEW g, MutateWithoutBoundary(g) PROVE FALSE
      BY <3>5, <3>13 DEF MutateWithoutBoundary, Failures
    <3>14. ASSUME NEW op, NEW id, NEW f, RefuseControl(op, id, f) PROVE FALSE
      BY <3>5, <3>14 DEF RefuseControl, Failures
    <3>15. ASSUME NEW id, NEW f, CommitWithoutBoundary(id, f) PROVE FALSE
      BY <3>5, <3>15 DEF CommitWithoutBoundary, Failures
    <3>16. ~Start /\ ~StartFails /\ ~Stop
      BY <3>2 DEF Start, StartFails, Stop
    <3>17. ~User
      BY <3>2 DEF User, Edit, UserUndo, LoadFile, Notify, UserDid
    <3>18. ASSUME NEW g, NEW s, MutateEscapes(g, s) PROVE FALSE
      BY <3>2, <3>18 DEF MutateEscapes
    <3>19. ASSUME NEW id, NEW f, CommitRaises(id, f) PROVE FALSE
      BY <3>1, <3>19 DEF CommitRaises
    <3>. QED BY <3>3, <3>4, <3>6, <3>7, <3>8, <3>9, <3>10, <3>11, <3>12,
               <3>13, <3>14, <3>15, <3>16, <3>17, <3>18, <3>19
             DEF Next, Requests
  <2>. QED BY <2>1, ServingFacts DEF IInv
<1>2. CleanClose <=> [][Closes => ~foreign /\ ~ForeignSeen]_vars
  BY DEF CleanClose
<1>. QED BY <1>1, <1>2, Inductive, PTL DEF Spec

-----------------------------------------------------------------------------
(* Failures.                                                               *)

(* What FailureKeepsState says of a step.                                  *)
Kept ==
  /\ reply'.code \in Failures => SameFingerprint
  /\ reply'.code \in Failures \cup Incomplete => SameTransaction
  /\ reply'.code = Raised /\ ~SameFingerprint =>
       reply'.op = "rollback" /\ dirty'
  /\ reply'.code = Raised /\ ~SameTransaction =>
       /\ reply'.op = "rollback"
       /\ tx'.id = None /\ Fingerprint(scene') = tx.begin

(* A step that leaves the scene and the identity of the transaction, and   *)
(* one that is no error, is kept.                                          *)
LEMMA KeptSame ==
  /\ SameFingerprint /\ SameTransaction => Kept
  /\ \A op, f : Answers(op, "OK", f) => Kept
  /\ reply' = Silence => Kept
<1>1. \A op, f : Answers(op, "OK", f) => Kept
  BY DEF Kept, Answers, Failures, Incomplete, Raised
<1>2. reply' = Silence => Kept
  BY DEF Kept, Silence, Failures, Incomplete, Raised
<1>3. SameFingerprint /\ SameTransaction => Kept
  BY DEF Kept
<1>. QED BY <1>1, <1>2, <1>3

LEMMA RefuseKeeps ==
  ASSUME TypeOK, Serving, NEW op, NEW code, Refuse(op, code)
  PROVE  Kept
BY ServingType, KeptSame
   DEF Refuse, OnlyRefreshed, SameFingerprint, SameTransaction

(* The ends of a rollback that dispatch accepts nothing of.                *)
LEMMA UnfinishedKeeps ==
  ASSUME TypeOK, Serving, NEW n, NEW e \in RollbackEnds(n), NEW f, NEW code,
         RollbackUnfinished(e, code, f),
         \/ tx' = Now.tx /\ code \in {"ROLLBACK_INCOMPLETE", Raised}
         \/ tx' = NoTransaction /\ code = Raised /\ e.restored
  PROVE  Kept
<1>1. /\ reply'.op = "rollback" /\ reply'.code = code
      /\ dirty' = (scene' # scene) /\ scene' = e.scene
  BY DEF RollbackUnfinished, Answers
<1>2. code \notin Failures /\ (~SameFingerprint => dirty')
  BY <1>1 DEF Failures, Raised, SameFingerprint
<1>3. CASE tx' = Now.tx /\ code \in {"ROLLBACK_INCOMPLETE", Raised}
  <2>1. SameTransaction
    BY <1>3, ServingType DEF SameTransaction
  <2>. QED BY <1>1, <1>2, <2>1 DEF Kept
<1>4. CASE tx' = NoTransaction /\ code = Raised /\ e.restored
  <2>1. Fingerprint(scene') = tx.begin
    BY <1>1, <1>4, RollbackType, TypeUse
  <2>2. tx'.id = None /\ code \notin Incomplete
    BY <1>4 DEF NoTransaction, Incomplete, Raised
  <2>. QED BY <1>1, <1>2, <2>1, <2>2 DEF Kept
<1>. QED BY <1>3, <1>4

(* An error that does not say otherwise leaves the fingerprint as it was   *)
(* and the transaction open where it began; one that says nothing does so  *)
(* too unless it ends a rollback.                                          *)
THEOREM FailuresKeepState == Spec => FailureKeepsState
<1>1. TypeOK /\ [Next]_vars => [Kept]_vars
  <2>. SUFFICES ASSUME TypeOK, Next PROVE Kept
    OBVIOUS
  <2>1. ASSUME NEW op, NEW code, Serving, Refuse(op, code) PROVE Kept
    BY <2>1, RefuseKeeps
  <2>2. ASSUME NEW op, NEW f, Answers(op, "OK", f) PROVE Kept
    BY <2>2, KeptSame
  <2>3. ASSUME reply' = Silence PROVE Kept
    BY <2>3, KeptSame
  <2>4. ASSUME NEW g, NEW s \in Scene, MutateFails(g, s) PROVE Kept
    <3>1. PICK e \in RecoveryEnds(s) :
            /\ scene' = e.scene
            /\ \/ e.recovered
               \/ Answers("mutate", "MUTATION_RECOVERY_INCOMPLETE", FALSE)
      BY <2>4 DEF MutateFails
    <3>2. e.recovered = (Fingerprint(e.scene) = Fingerprint(scene))
      BY RecoveryType, TypeUse
    <3>3. SameTransaction
      BY <2>4, ServingType DEF MutateFails, SameTransaction
    <3>4. \/ SameFingerprint
          \/ Answers("mutate", "MUTATION_RECOVERY_INCOMPLETE", FALSE)
      BY <3>1, <3>2 DEF SameFingerprint
    <3>5. Answers("mutate", "MUTATION_RECOVERY_INCOMPLETE", FALSE)
            => reply'.code \notin Failures /\ reply'.code # Raised
      BY DEF Answers, Failures, Raised
    <3>. QED BY <3>3, <3>4, <3>5 DEF Kept
  <2>5. ASSUME NEW g, NEW id, NEW f, NEW n,
               \/ RollbackIncomplete(g, id, f, n)
               \/ RollbackRaises(g, id, f, n)
               \/ RollbackUnaccepted(g, id, f, n)
        PROVE  Kept
    BY <2>5, UnfinishedKeeps
       DEF RollbackIncomplete, RollbackRaises, RollbackUnaccepted,
           RollbackAllowed
  <2>8. ASSUME NEW id, NEW f, CommitRaises(id, f) PROVE Kept
    BY <2>8, ServingType, KeptSame
       DEF CommitRaises, SameFingerprint, SameTransaction
  <2>6. ASSUME Requests PROVE Kept
    BY <2>1, <2>2, <2>3, <2>4, <2>5, <2>6, <2>8
       DEF Requests, Read, Reject, RefuseStale, MutateWithoutBoundary,
           Mutate, MutateEscapes, Begin, RefuseBegin, RefuseControl, Commit,
           CommitWithoutBoundary, Rollback
  <2>7. ASSUME Start \/ StartFails \/ Stop \/ User PROVE Kept
    BY <2>3, <2>7
       DEF Start, StartFails, Stop, User, Edit, UserUndo, LoadFile, Notify,
           UserDid
  <2>. QED BY <2>6, <2>7 DEF Next
<1>2. FailureKeepsState <=> [][Kept]_vars
  BY DEF FailureKeepsState, Kept
<1>. QED BY <1>1, <1>2, TypeCorrect, PTL DEF Spec

-----------------------------------------------------------------------------
(* BEGIN's boundary.  While the history has it, it holds the fingerprint   *)
(* the transaction began with: what a loop that looks for one stops at.    *)

BeginHeld ==
  tx.id # None /\ beginAt > 0 => Fingerprint(undo[beginAt]) = tx.begin

(* A step after which BEGIN's boundary, if it is still there, is the one   *)
(* it was.                                                                 *)
HeldOn == beginAt' > 0 => beginAt > 0 /\ undo'[beginAt'] = undo[beginAt]

(* A push leaves the other boundaries where BeginAfterPush looks for them. *)
LEMMA PushKeeps ==
  ASSUME TypeOK, NEW s \in Scene, BeginAfterPush > 0
  PROVE  /\ beginAt > 0 /\ BeginAfterPush \in 1..Len(Pushed(undo, s))
         /\ Pushed(undo, s)[BeginAfterPush] = undo[beginAt]
<1>1. undo \in History /\ beginAt \in 0..Len(undo) /\ Len(undo) \in Nat
  BY DEF TypeOK, History
<1>2. beginAt > 0
  BY <1>1 DEF BeginAfterPush
<1>3. CASE Len(undo) < UndoCapacity
  <2>1. BeginAfterPush = beginAt
    BY <1>1, <1>3, CapacityAssumption DEF BeginAfterPush
  <2>2. Pushed(undo, s) = Append(undo, s)
    BY <1>3 DEF Pushed
  <2>3. undo \in Seq(Scene)
    BY <1>1 DEF History
  <2>. QED BY <1>1, <1>2, <2>1, <2>2, <2>3
<1>4. CASE ~(Len(undo) < UndoCapacity)
  <2>1. Len(undo) = UndoCapacity /\ undo \in Seq(Scene)
    BY <1>1, <1>4, CapacityAssumption DEF History
  <2>2. BeginAfterPush = beginAt - 1
    BY <1>2, <2>1 DEF BeginAfterPush
  <2>3. Pushed(undo, s) = Append(Tail(undo), s)
    BY <1>4 DEF Pushed
  <2>4. /\ Tail(undo) \in Seq(Scene) /\ Len(Tail(undo)) = Len(undo) - 1
        /\ \A i \in 1..Len(Tail(undo)) : Tail(undo)[i] = undo[i + 1]
    BY <1>1, <1>2, <2>1
  <2>5. BeginAfterPush \in 1..Len(Tail(undo)) /\ BeginAfterPush + 1 = beginAt
    BY <1>1, <1>2, <2>2, <2>4
  <2>6. /\ Len(Append(Tail(undo), s)) = Len(Tail(undo)) + 1
        /\ \A i \in 1..Len(Tail(undo)) :
             Append(Tail(undo), s)[i] = Tail(undo)[i]
    BY <2>4
  <2>7. Len(Tail(undo)) \in Nat
    BY <2>4
  <2>8. Pushed(undo, s)[BeginAfterPush] = undo[beginAt]
    BY <2>3, <2>4, <2>5, <2>6
  <2>. QED BY <1>2, <2>3, <2>5, <2>6, <2>7, <2>8
<1>. QED BY <1>3, <1>4

(* An undo leaves the boundaries it does not drop where they were.         *)
LEMMA UndoKeeps ==
  ASSUME NEW h \in History, NEW p \in 0..Len(h), NEW at \in Nat, at > 0,
         at <= Len(HistoryAt(h, p)), at <= Len(h)
  PROVE  HistoryAt(h, p)[at] = h[at]
<1>1. CASE p = 0
  BY <1>1 DEF HistoryAt
<1>2. CASE p # 0
  <2>1. h \in Seq(Scene) /\ Len(h) \in Nat /\ p \in 1..Len(h)
    BY <1>2 DEF History
  <2>2. /\ Len(SubSeq(h, 1, p)) = p
        /\ \A i \in 1..p : SubSeq(h, 1, p)[i] = h[i]
    BY <2>1
  <2>. QED BY <1>2, <2>1, <2>2 DEF HistoryAt
<1>. QED BY <1>1, <1>2

(* So a dispatch that only undoes, or undoes nothing, keeps BEGIN's.       *)
LEMMA HeldUndone ==
  ASSUME TypeOK, NEW p \in 0..Len(undo), undo' = HistoryAt(undo, p),
         BeginFollows(beginAt)
  PROVE  HeldOn
<1>1. undo \in History /\ beginAt \in 0..Len(undo) /\ beginAt \in Nat
  BY DEF TypeOK, History
<1>. QED BY <1>1, UndoKeeps DEF HeldOn, BeginFollows

(* And one that pushes a boundary first.                                   *)
LEMMA HeldPushed ==
  ASSUME TypeOK, NEW s \in Scene, NEW p \in 0..Len(Pushed(undo, s)),
         undo' = HistoryAt(Pushed(undo, s), p), BeginFollows(BeginAfterPush)
  PROVE  HeldOn
<1>1. Pushed(undo, s) \in History /\ BeginAfterPush \in Nat
  BY PushedType, TypeUse, BeginType
<1>2. CASE beginAt' = 0
  BY <1>2 DEF HeldOn
<1>3. CASE beginAt' # 0
  <2>1. /\ beginAt' = BeginAfterPush /\ BeginAfterPush > 0
        /\ BeginAfterPush <= Len(undo')
    BY <1>1, <1>3 DEF BeginFollows
  <2>2. /\ beginAt > 0 /\ BeginAfterPush \in 1..Len(Pushed(undo, s))
        /\ Pushed(undo, s)[BeginAfterPush] = undo[beginAt]
    BY <2>1, PushKeeps
  <2>3. HistoryAt(Pushed(undo, s), p)[BeginAfterPush]
          = Pushed(undo, s)[BeginAfterPush]
    BY <1>1, <2>1, <2>2, UndoKeeps
  <2>. QED BY <2>1, <2>2, <2>3 DEF HeldOn
<1>. QED BY <1>2, <1>3

(* The position 0 of a history is the history.                             *)
LEMMA Nowhere ==
  ASSUME NEW h \in History
  PROVE  0 \in 0..Len(h) /\ HistoryAt(h, 0) = h
BY DEF HistoryAt, History

(* A refusal undoes nothing.                                               *)
LEMMA RefuseHolds ==
  ASSUME TypeOK, NEW op, NEW code, Refuse(op, code)
  PROVE  HeldOn /\ undo' = undo
BY HeldUndone, Nowhere, TypeUse DEF Refuse, OnlyRefreshed, Noted, NotedAt

(* The recovery of a failed mutation, however it ends.                     *)
LEMMA RecoveryHolds ==
  ASSUME TypeOK, NEW s \in Scene, NEW e \in RecoveryEnds(s),
         undo' = e.undo, BeginFollows(BeginAfterPush)
  PROVE  HeldOn
<1> DEFINE made == Pushed(undo, scene)
           target == Fingerprint(scene)
           ends == IF Fingerprint(s) = target THEN {0}
                   ELSE UndoLoopEnds(s, made, target, RecoveryLimit)
<1>1. made \in History
  BY PushedType, TypeUse
<1>2. ends \subseteq 0..Len(made)
  BY <1>1, LoopEndsType DEF History
<1>3. PICK p \in ends : e.undo = HistoryAt(made, p)
  BY DEF RecoveryEnds
<1>. QED BY <1>2, <1>3, HeldPushed, TypeUse

(* The loop of a rollback.                                                 *)
LEMMA RollbackHolds ==
  ASSUME TypeOK, NEW n, NEW e \in RollbackEnds(n), undo' = e.undo,
         BeginFollows(beginAt)
  PROVE  HeldOn
<1> DEFINE ends == IF Fingerprint(scene) = tx.begin THEN {0}
                   ELSE UndoLoopEnds(scene, undo, tx.begin, n)
<1>1. ends \subseteq 0..Len(undo)
  BY LoopEndsType, TypeUse DEF History
<1>2. PICK p \in ends : e.undo = HistoryAt(undo, p)
  BY DEF RollbackEnds
<1>. QED BY <1>1, <1>2, HeldUndone

(* It stops at BEGIN's boundary at the latest, if that is not the last.    *)
LEMMA RollbackStops ==
  ASSUME TypeOK, BeginHeld, tx.id # None, beginAt \in 1..(Len(undo) - 1),
         NEW n, NEW e \in RollbackEnds(n)
  PROVE  Len(e.undo) >= beginAt
<1>1. undo \in History /\ undo \in Seq(Scene) /\ Len(undo) \in Nat
  BY DEF TypeOK, History
<1> DEFINE ends == IF Fingerprint(scene) = tx.begin THEN {0}
                   ELSE UndoLoopEnds(scene, undo, tx.begin, n)
<1>2. PICK p \in ends : e.undo = HistoryAt(undo, p)
  BY DEF RollbackEnds
<1>3. CASE p = 0
  BY <1>1, <1>2, <1>3 DEF HistoryAt
<1>4. CASE p # 0
  <2>1. PICK first \in UndoStops(scene, undo) :
          /\ p <= first
          /\ \A q \in (p + 1)..first : Fingerprint(undo[q]) # tx.begin
    BY <1>2, <1>4 DEF UndoLoopEnds
  <2>2. p \in 1..Len(undo)
    BY <1>2, <1>4 DEF UndoLoopEnds
  <2>3. first \in Nat /\ first >= Len(undo) - 1
    BY <1>1, <2>1 DEF UndoStops
  <2>4. Fingerprint(undo[beginAt]) = tx.begin
    BY DEF BeginHeld
  <2>5. p >= beginAt
    BY <1>1, <2>1, <2>2, <2>3, <2>4
  <2>6. Len(SubSeq(undo, 1, p)) = p
    BY <1>1, <2>2
  <2>. QED BY <1>2, <1>4, <2>5, <2>6 DEF HistoryAt
<1>. QED BY <1>3, <1>4

(* Every step keeps BEGIN's boundary as it was, but for a BEGIN and an end *)
(* of the transaction.                                                     *)
LEMMA NextHolds ==
  ASSUME TypeOK, [Next]_vars
  PROVE  \/ HeldOn /\ tx'.id = tx.id /\ tx'.begin = tx.begin
         \/ tx'.id = None
         \/ Fingerprint(undo'[beginAt']) = tx'.begin
<1> DEFINE Goal == \/ HeldOn /\ tx'.id = tx.id /\ tx'.begin = tx.begin
                   \/ tx'.id = None
                   \/ Fingerprint(undo'[beginAt']) = tx'.begin
<1>1. ASSUME NEW a, Read(a) PROVE Goal
  BY <1>1, HeldUndone, Nowhere, TypeUse, ServingType
     DEF Read, OnlyRefreshed, Noted, NotedAt
<1>2. ASSUME NEW op, NEW code, Serving, Refuse(op, code) PROVE Goal
  BY <1>2, RefuseHolds, ServingType DEF Refuse, OnlyRefreshed
<1>3. ASSUME NEW a, NEW g, NEW s \in Scene, Mutate(a, g, s) PROVE Goal
  <2>1. /\ Serving /\ tx' = Now.tx /\ BeginFollows(BeginAfterPush)
        /\ undo' = Pushed(undo, scene)
    BY <1>3 DEF Mutate, NotedPush, NotedAt
  <2>. QED BY <2>1, HeldPushed, Nowhere, PushedType, TypeUse, ServingType
<1>4. ASSUME NEW g, NEW s \in Scene, MutateFails(g, s) \/ MutateEscapes(g, s)
      PROVE  Goal
  <2>1. Serving /\ tx' = Now.tx /\ BeginFollows(BeginAfterPush)
    BY <1>4 DEF MutateFails, MutateEscapes, NotedPush, NotedAt
  <2>2. PICK e \in RecoveryEnds(s) : undo' = e.undo
    BY <1>4 DEF MutateFails, MutateEscapes
  <2>. QED BY <2>1, <2>2, RecoveryHolds, ServingType
<1>5. ASSUME NEW id, Begin(id) PROVE Goal
  <2>1. /\ undo' = Pushed(undo, scene) /\ beginAt' = Len(undo')
        /\ tx'.begin = Fingerprint(scene)
    BY <1>5 DEF Begin, Opened
  <2>2. undo'[Len(undo')] = scene
    BY <2>1, PushedLast, TypeUse
  <2>. QED BY <2>1, <2>2
<1>6. ASSUME NEW id, NEW f, CommitRaises(id, f) PROVE Goal
  <2>1. /\ Serving /\ tx' = Now.tx /\ BeginFollows(BeginAfterPush)
        /\ undo' = Pushed(undo, scene)
    BY <1>6 DEF CommitRaises, NotedPush, NotedAt
  <2>. QED BY <2>1, HeldPushed, Nowhere, PushedType, TypeUse, ServingType
<1>7. ASSUME NEW g, NEW id, NEW f, NEW n,
             RollbackIncomplete(g, id, f, n) \/ RollbackRaises(g, id, f, n)
      PROVE  Goal
  <2>1. Serving /\ tx' = Now.tx /\ BeginFollows(beginAt)
    BY <1>7 DEF RollbackIncomplete, RollbackRaises, RollbackAllowed, Noted,
         NotedAt
  <2>2. PICK e \in RollbackEnds(n) : undo' = e.undo
    BY <1>7 DEF RollbackIncomplete, RollbackRaises, RollbackUnfinished
  <2>. QED BY <2>1, <2>2, RollbackHolds, ServingType
<1>8. ASSUME Requests PROVE Goal
  BY <1>1, <1>2, <1>3, <1>4, <1>5, <1>6, <1>7, <1>8
     DEF Requests, Reject, RefuseStale, MutateWithoutBoundary, RefuseBegin,
         RefuseControl, Commit, CommitWithoutBoundary, Rollback,
         RollbackUnaccepted, NoTransaction
<1>9. CASE Start
  <2>1. TRUE \in BOOLEAN /\ undo' = undo /\ BeginFollows(beginAt)
        /\ tx' = Refreshed(TRUE).tx
    BY <1>9 DEF Start, StartFlag, Noted, NotedAt
  <2>2. HeldOn
    BY <2>1, HeldUndone, Nowhere, TypeUse
  <2>. QED BY <2>1, <2>2, RefreshedType
<1>10. CASE StartFails \/ Stop \/ Notify \/ UNCHANGED vars
  BY <1>10 DEF StartFails, Stop, Notify, UserDid, vars, editor, host, history,
       HeldOn
<1>11. ASSUME NEW s \in Scene, NEW b \in BOOLEAN, Edit(s, b) PROVE Goal
  <2>1. tx' = tx
    BY <1>11 DEF Edit, UserDid
  <2>2. CASE b
    BY <1>11, <2>1, <2>2, HeldPushed, Nowhere, PushedType, TypeUse DEF Edit
  <2>3. CASE ~b
    BY <1>11, <2>1, <2>3, HeldUndone, Nowhere, TypeUse DEF Edit
  <2>. QED BY <2>2, <2>3
<1>12. CASE UserUndo
  <2>1. PICK p \in UndoStops(scene, undo) : undo' = HistoryAt(undo, p)
    BY <1>12 DEF UserUndo
  <2>2. p \in 0..Len(undo)
    BY <2>1, UndoStopsType, TypeUse
  <2>. QED BY <1>12, <2>1, <2>2, HeldUndone DEF UserUndo, UserDid
<1>13. ASSUME NEW s, LoadFile(s) PROVE Goal
  BY <1>13 DEF LoadFile, UserDid, HeldOn
<1>. QED BY <1>8, <1>9, <1>10, <1>11, <1>12, <1>13 DEF Next, User

(* While the history has BEGIN's boundary, it is BEGIN's.                  *)
THEOREM BeginIsHeld == Spec => []BeginHeld
<1>1. Init => BeginHeld
  BY DEF Init, BeginHeld, NoTransaction
<1>2. TypeOK /\ BeginHeld /\ [Next]_vars => BeginHeld'
  <2>. SUFFICES ASSUME TypeOK, BeginHeld, [Next]_vars, tx'.id # None,
                       beginAt' > 0
                PROVE  Fingerprint(undo'[beginAt']) = tx'.begin
    BY DEF BeginHeld
  <2>1. CASE HeldOn /\ tx'.id = tx.id /\ tx'.begin = tx.begin
    BY <2>1 DEF HeldOn, BeginHeld
  <2>. QED BY <2>1, NextHolds
<1>. QED BY <1>1, <1>2, TypeCorrect, PTL DEF Spec

(* A rollback never undoes what came before a BEGIN that is still there.   *)
THEOREM RollbacksStop == Spec => StopsAtBegin
<1> DEFINE Stops == reply'.op = "rollback" /\ beginAt \in 1..(Len(undo) - 1)
                      => Len(undo') >= beginAt
<1>1. TypeOK /\ BeginHeld /\ [Next]_vars => [Stops]_vars
  <2>. SUFFICES ASSUME TypeOK, BeginHeld, Next, reply'.op = "rollback",
                       beginAt \in 1..(Len(undo) - 1)
                PROVE  Len(undo') >= beginAt
    OBVIOUS
  <2>0. Len(undo) >= beginAt
    BY DEF TypeOK
  <2>1. ASSUME NEW op, NEW code, Refuse(op, code)
        PROVE  Len(undo') >= beginAt
    BY <2>0, <2>1 DEF Refuse, OnlyRefreshed
  <2>2. ASSUME NEW op, NEW code, NEW f, Answers(op, code, f),
               op # "rollback"
        PROVE  FALSE
    BY <2>2 DEF Answers
  <2>3. reply' # Silence
    BY DEF Silence
  <2>4. ASSUME NEW g, NEW id \in TxIds, NEW f, NEW n,
               \/ Rollback(g, id, f, n)
               \/ RollbackIncomplete(g, id, f, n)
               \/ RollbackRaises(g, id, f, n)
               \/ RollbackUnaccepted(g, id, f, n)
        PROVE  Len(undo') >= beginAt
    <3>1. tx.id # None
      BY <2>4, NoneAssumption
         DEF Rollback, RollbackIncomplete, RollbackRaises,
             RollbackUnaccepted, RollbackAllowed
    <3>2. PICK e \in RollbackEnds(n) : undo' = e.undo
      BY <2>4 DEF Rollback, RollbackIncomplete, RollbackRaises,
           RollbackUnaccepted, RollbackUnfinished
    <3>. QED BY <3>1, <3>2, RollbackStops
  <2>5. ASSUME NEW g, NEW s, MutateFails(g, s) PROVE FALSE
    BY <2>2, <2>5 DEF MutateFails
  <2>6. ASSUME Requests PROVE Len(undo') >= beginAt
    BY <2>1, <2>2, <2>3, <2>4, <2>5, <2>6
       DEF Requests, Read, Reject, RefuseStale, MutateWithoutBoundary,
           Mutate, MutateEscapes, Begin, RefuseBegin, RefuseControl, Commit,
           CommitRaises, CommitWithoutBoundary
  <2>7. ~Start /\ ~StartFails /\ ~Stop /\ ~User
    BY <2>3 DEF Start, StartFails, Stop, User, Edit, UserUndo, LoadFile,
         Notify, UserDid
  <2>. QED BY <2>6, <2>7 DEF Next
<1>2. StopsAtBegin <=> [][Stops]_vars
  BY DEF StopsAtBegin
<1>. QED BY <1>1, <1>2, TypeCorrect, BeginIsHeld, PTL DEF Spec

-----------------------------------------------------------------------------
(* The contract.                                                           *)

(* A step that moves the cached scene only with the revision is one the    *)
(* contract's observer may see.                                            *)
LEMMA Observing == Moves => Contract!Observe
BY DEF Moves, Contract!Observe, Contract!Keep, Contract!FirstLook,
       Contract!Publish

(* A step that keeps the transaction, or only marks it, with a revision of *)
(* its own.                                                                *)
LEMMA Going ==
  ASSUME IInv, Moves, Ended' = Contract!NotEnded,
         \/ tx' = tx
         \/ /\ revision' > revision /\ tx # NoTransaction
            /\ tx' = [tx EXCEPT !.external = Fingerprint(scene)]
  PROVE  Contract!Go
<1>1. Contract!Observe
  BY Observing
<1>2. CASE tx' = tx
  BY <1>1, <1>2 DEF Contract!Go
<1>3. CASE /\ revision' > revision /\ tx # NoTransaction
           /\ tx' = [tx EXCEPT !.external = Fingerprint(scene)]
  <2>1. tx \in Transaction /\ revision \in Nat
    BY <1>3, BoundAssumption DEF IInv, TypeOK
  <2>2. tx'.id = tx.id /\ tx'.begin = tx.begin
        /\ tx'.external = Fingerprint(scene) /\ tx.id # None
    BY <1>3, <2>1, NoneAssumption DEF Transaction
  <2>3. tx'.external # None
    BY <2>2, FingerprintType, TypeUse, NoneAssumption DEF IInv
  <2>4. Contract!Publish
    BY <1>3, <2>1 DEF Moves, Contract!Publish
  <2>. QED BY <1>1, <2>2, <2>3, <2>4 DEF Contract!Go, Contract!Closed
<1>. QED BY <1>2, <1>3

(* The same for a dispatch that ends no transaction.                       *)
LEMMA Serves ==
  ASSUME IInv, Moves, Serving, tx' = Now.tx,
         revision' \in {Now.rev, Now.rev + 1}, Ended' = Contract!NotEnded
  PROVE  Contract!Go
<1>1. revision \in Nat
  BY DEF IInv, TypeOK
<1>2. \/ Now.tx = tx
      \/ /\ Now.rev = revision + 1 /\ tx # NoTransaction
         /\ Now.tx = [tx EXCEPT !.external = Fingerprint(scene)]
  BY ServingFacts DEF IInv
<1>. QED BY <1>1, <1>2, Going

(* An answer that closes no transaction is seen as such by the contract.   *)
LEMMA EndedNot ==
  /\ \A op, code, f :
       /\ Answers(op, code, f)
       /\ op \notin {"commit", "rollback"} \/ code # "OK"
       /\ op # "rollback" \/ code # Raised \/ tx'.id # None
       => Ended' = Contract!NotEnded
  /\ reply' = Silence => Ended' = Contract!NotEnded
BY DEF Answers, Ended, Contract!NotEnded, Silence, Raised

(* A refusal is a step of the contract that ends nothing.                  *)
LEMMA RefuseServes ==
  ASSUME IInv, Moves, Serving, NEW op, NEW code \in Failures,
         Refuse(op, code)
  PROVE  Contract!Go
<1>1. Ended' = Contract!NotEnded
  BY EndedNot DEF Refuse, Failures, Raised
<1>. QED BY <1>1, Serves DEF Refuse, OnlyRefreshed

(* The initial states map to the contract's.                               *)
LEMMA InitContract == Init => Contract!Init
BY DEF Init, Contract!Init, NoTransaction, Contract!Closed,
       Ended, Silence, Contract!NotEnded

(* Every step maps to a step of the contract, or to none.                  *)
LEMMA NextContract == IInv /\ [Next]_vars => [Contract!Next]_(Contract!vars)
<1> SUFFICES ASSUME IInv, [Next]_vars
             PROVE  Contract!Next \/ UNCHANGED Contract!vars
  OBVIOUS
<1>0. TypeOK /\ Cache /\ Moves
  BY NextStep DEF IInv
<1>1. ASSUME NEW a \in Agents, Read(a) PROVE Contract!Go
  BY <1>0, <1>1, Serves, EndedNot DEF Read, OnlyRefreshed, Raised
<1>2. CASE Reject
  BY <1>0, <1>2, RefuseServes DEF Reject, Failures, Contract!Next
<1>3. ASSUME NEW op, NEW g \in Guards, RefuseStale(op, g) PROVE Contract!Go
  BY <1>0, <1>3, RefuseServes DEF RefuseStale, Failures
<1>4. ASSUME NEW g \in Guards, MutateWithoutBoundary(g) PROVE Contract!Go
  BY <1>0, <1>4, RefuseServes DEF MutateWithoutBoundary, Failures
<1>5. ASSUME NEW a \in Agents, NEW s \in Scene, NEW g, Mutate(a, g, s)
      PROVE  Contract!Go
  BY <1>0, <1>5, Serves, EndedNot DEF Mutate, AcceptedRevision
<1>6. ASSUME NEW g \in Guards, NEW s \in Scene, MutateFails(g, s)
      PROVE  Contract!Go
  <2>1. \E code : Answers("mutate", code, FALSE)
    BY <1>6 DEF MutateFails
  <2>2. Ended' = Contract!NotEnded
    BY <2>1, EndedNot
  <2>. QED BY <1>0, <1>6, <2>2, Serves DEF MutateFails
<1>7. ASSUME NEW id \in TxIds, Begin(id) PROVE Contract!Open(id)
  <2>1. lastFp' = Fingerprint(scene)
    BY <1>0, <1>7, ServingFacts DEF Begin
  <2>2. tx = NoTransaction
    BY <1>0, <1>7, NoneAssumption DEF Begin, TypeOK, Transaction
  <2>3. Ended' = Contract!NotEnded
    BY <1>7, EndedNot DEF Begin
  <2>. QED BY <1>0, <1>7, <2>1, <2>2, <2>3, Observing
           DEF Begin, Opened, Contract!Open, Contract!Closed, NoTransaction
<1>8. CASE RefuseBegin
  BY <1>0, <1>8, RefuseServes DEF RefuseBegin, Failures, Contract!Next
<1>9. ASSUME NEW op, NEW id, NEW f, RefuseControl(op, id, f)
      PROVE  Contract!Go
  BY <1>0, <1>9, RefuseServes DEF RefuseControl, Failures
<1>10. ASSUME NEW id \in TxIds, NEW f \in BOOLEAN, Commit(id, f)
       PROVE  Contract!Commit(f)
  <2>1. tx.external # None => f
    BY <1>0, <1>10, ServingFacts, FingerprintType, TypeUse, NoneAssumption
       DEF Commit, SafeOrForced, TypeOK, Transaction
  <2>2. tx.id # None
    BY <1>10, NoneAssumption DEF Commit
  <2>3. Ended' = [how |-> "commit", forced |-> f]
    BY <1>10 DEF Commit, Answers, Ended
  <2>. QED BY <1>0, <1>10, <2>1, <2>2, <2>3, Observing
           DEF Commit, Contract!Commit, Contract!End, Contract!Closed,
               NoTransaction
<1>11. ASSUME NEW id, NEW f, CommitWithoutBoundary(id, f) PROVE Contract!Go
  BY <1>0, <1>11, RefuseServes DEF CommitWithoutBoundary, Failures
<1>12. ASSUME NEW g \in Guards, NEW id \in TxIds, NEW f \in BOOLEAN,
              NEW n \in RollbackLimits, Rollback(g, id, f, n)
       PROVE  Contract!Rollback(f)
  <2>1. PICK e \in RollbackEnds(n) :
          e.restored /\ lastFp' = Fingerprint(e.scene)
    BY <1>12 DEF Rollback
  <2>2. lastFp' = tx.begin
    BY <1>0, <2>1, RollbackType, TypeUse
  <2>3. tx.external # None => f
    BY <1>0, <1>12, ServingFacts, FingerprintType, TypeUse, NoneAssumption
       DEF Rollback, RollbackAllowed, SafeOrForced, TypeOK, Transaction
  <2>4. tx.id # None
    BY <1>12, NoneAssumption DEF Rollback, RollbackAllowed
  <2>5. Ended' = [how |-> "rollback", forced |-> f]
    BY <1>12 DEF Rollback, Answers, Ended
  <2>6. revision' = Now.rev + 1 /\ Now.rev >= revision /\ revision \in Nat
        /\ Now.rev \in Nat
    BY <1>0, <1>12, ServingType, BoundAssumption
       DEF Rollback, RollbackAllowed, AcceptedRevision, TypeOK
  <2>7. Contract!Publish
    BY <1>0, <2>6 DEF Moves, Contract!Publish
  <2>. QED BY <1>12, <2>2, <2>3, <2>4, <2>5, <2>7
           DEF Rollback, Contract!Rollback, Contract!Observe, Contract!End,
               Contract!Closed, NoTransaction
<1>13. ASSUME NEW g \in Guards, NEW id \in TxIds, NEW f \in BOOLEAN,
              NEW n \in RollbackLimits,
              RollbackIncomplete(g, id, f, n) \/ RollbackRaises(g, id, f, n)
       PROVE  Contract!Go
  <2>1. Serving /\ tx.id = id /\ tx' = Now.tx /\ revision' = Now.rev
    BY <1>13 DEF RollbackIncomplete, RollbackRaises, RollbackAllowed,
         RollbackUnfinished
  <2>2. tx'.id # None
    BY <1>0, <2>1, ServingType, NoneAssumption
  <2>3. PICK code \in {"ROLLBACK_INCOMPLETE", Raised} :
          Answers("rollback", code, f)
    BY <1>13 DEF RollbackIncomplete, RollbackRaises, RollbackUnfinished
  <2>4. Ended' = Contract!NotEnded
    BY <2>2, <2>3, EndedNot DEF Raised
  <2>. QED BY <1>0, <2>1, <2>4, Serves
<1>18. ASSUME NEW g \in Guards, NEW id \in TxIds, NEW f \in BOOLEAN,
              NEW n \in RollbackLimits, RollbackUnaccepted(g, id, f, n)
       PROVE  Contract!Drop(f)
  <2>1. /\ RollbackAllowed(g, id, f) /\ tx' = NoTransaction
        /\ Answers("rollback", Raised, f)
    BY <1>18 DEF RollbackUnaccepted, RollbackUnfinished
  <2>2. tx.external # None => f
    BY <1>0, <2>1, ServingFacts, FingerprintType, TypeUse, NoneAssumption
       DEF RollbackAllowed, SafeOrForced, TypeOK, Transaction
  <2>3. tx.id # None
    BY <2>1, NoneAssumption DEF RollbackAllowed
  <2>4. Ended' = [how |-> "dropped", forced |-> f]
    BY <2>1 DEF Answers, Ended, NoTransaction, Raised
  <2>. QED BY <1>0, <2>1, <2>2, <2>3, <2>4, Observing
           DEF Contract!Drop, Contract!End, Contract!Closed, NoTransaction
<1>19. ASSUME NEW g \in Guards, NEW s \in Scene, MutateEscapes(g, s)
       PROVE  Contract!Go
  BY <1>0, <1>19, Serves, EndedNot DEF MutateEscapes
<1>20. ASSUME NEW id, NEW f, CommitRaises(id, f) PROVE Contract!Go
  BY <1>0, <1>20, Serves, EndedNot DEF CommitRaises, Raised
<1>21. CASE StartFails
  BY <1>0, <1>21, Going, EndedNot DEF StartFails, Contract!Next
<1>14. CASE Start
  <2>1. PICK d \in BOOLEAN : d = TRUE
    OBVIOUS
  <2>2. revision' = Refreshed(d).rev /\ tx' = Refreshed(d).tx
        /\ Ended' = Contract!NotEnded
    BY <1>14, <2>1, EndedNot DEF Start, StartFlag
  <2>3. revision + 1 > revision
    BY <1>0 DEF TypeOK
  <2>4. \/ tx' = tx
        \/ /\ revision' > revision /\ tx # NoTransaction
           /\ tx' = [tx EXCEPT !.external = Fingerprint(scene)]
    BY <1>0, <2>1, <2>2, <2>3, RefreshedFacts
  <2>. QED BY <1>0, <2>2, <2>4, Going DEF Contract!Next
<1>15. CASE Stop
  BY <1>0, <1>15, Going, EndedNot DEF Stop, Contract!Next
<1>16. CASE User
  <2>1. UserDid
    BY <1>16 DEF User, Edit, UserUndo, LoadFile, Notify
  <2>. QED BY <1>0, <2>1, Going, EndedNot DEF UserDid, Contract!Next
<1>17. CASE UNCHANGED vars
  BY <1>17 DEF vars, host, Ended, Contract!vars
<1>. QED BY <1>1, <1>2, <1>3, <1>4, <1>5, <1>6, <1>7, <1>8, <1>9, <1>10,
           <1>11, <1>12, <1>13, <1>14, <1>15, <1>16, <1>17, <1>18, <1>19,
           <1>20, <1>21
        DEF Next, Requests, Contract!Next

(* The Blender host implements HostContract.                               *)
THEOREM ContractKept == Spec => KeepsContract
BY InitContract, NextContract, Inductive, PTL
   DEF Spec, KeepsContract, Contract!Spec
=============================================================================
