SPECIFICATION Spec
CONSTANTS
  Shapes = {s1, s2, s3}
  Hidden = {h1}
  UndoCapacity = 3
  Agents = {a1, a2}
  TxIds = {t1}
  None = None
  MaxRevision = 2
  RollbackLimits = {2}
  RecoveryLimit = 2
SYMMETRY MCSymmetry
INVARIANTS TypeOK InSync NoStaleWrite OneRevisionOneScene MarkExplained
PROPERTIES FailureKeepsState CleanClose KeepsContract StopsAtBegin
