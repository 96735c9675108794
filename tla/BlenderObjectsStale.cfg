SPECIFICATION Spec
CONSTANTS
  Objects = {o1, o2}
  Meshes = {m1, m2}
  Topologies = {t1, t2}
  MaxId = 3
  MaxMeshRev = 1
  UndoCapacity = 2
  UserEdits = FALSE
  None = None
SYMMETRY MCSymmetry
INVARIANT StaleReferencesFail
