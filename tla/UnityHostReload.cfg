SPECIFICATION Spec
CONSTANTS
  Shapes = {s1, s2}
  Agents = {a1}
  TxIds = {t1}
  None = None
  MaxRevision = 3
  Announced = TRUE
INVARIANT StaleIsRefused
