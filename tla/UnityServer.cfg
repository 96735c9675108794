SPECIFICATION FairSpec
CONSTANTS
  Links = {k1, k2}
  Ids = {i1, i2}
  Window = 2
  Budget = 3
  AcceptLimit = 1
  Capacity = 1
  MaxRaises = 1
INVARIANT TypeOK
PROPERTIES InOrder HeardOut Answered
