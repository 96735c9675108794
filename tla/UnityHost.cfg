SPECIFICATION Spec
CONSTANTS
  Shapes = {s1, s2, s3}
  Agents = {a1, a2}
  TxIds = {t1}
  None = None
  MaxRevision = 3
  Announced = TRUE
SYMMETRY MCSymmetry
INVARIANTS TypeOK InSync NoStaleWrite
PROPERTIES FailureKeepsState CleanClose KeepsContract
