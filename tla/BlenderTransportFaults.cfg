SPECIFICATION Spec
CONSTANTS
  Clients = {c1, c2}
  Links = {k1, k2}
  Ids = {i1, i2, i3}
  None = None
  Budget = 2
  AcceptLimit = 1
  Capacity = 2
  Kinds = {"small", "large"}
  Escapes = TRUE
SYMMETRY MCSymmetry
INVARIANTS TypeOK AtMostOnce
PROPERTIES OwnAnswer MismatchExplained NotOvertaken
