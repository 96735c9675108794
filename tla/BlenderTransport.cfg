SPECIFICATION FairSpec
CONSTANTS
  Clients = {c1, c2}
  Links = {k1, k2}
  Ids = {i1, i2, i3}
  None = None
  Budget = 2
  AcceptLimit = 1
  Capacity = 1
  Kinds = {"small"}
  Escapes = FALSE
PROPERTIES Conserved LateForGood Answered
