SPECIFICATION Spec
CONSTANTS
  Shapes = {s1, s2}
  Hidden = {h1, h2}
  UndoCapacity = 4
  Agents = {a1}
  TxIds = {t1}
  None = None
  MaxRevision = 3
  RollbackLimits = {3}
  RecoveryLimit = 3
PROPERTY ExactRollback
