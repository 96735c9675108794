SPECIFICATION Spec
CONSTANTS
  Topologies <- MCTopologies
  Offsets <- MCOffsets
  Limits = {0, 2, 5}
  PageLimit = 3
  ListLimit = 3
  MaxRev = 1
  MaxPast = 1
  Things = {x, y}
  Looks = {l1}
  Geometries = {g1, g2}
  Rests = {r1, r2}
  Frames = {f1, f2}
  Capacity = 2
  MaxTaken = 3
  NoGeometry = NoGeometry
  Solids = {o1, o2}
  Modes = {OBJECT, EDIT_MESH, PAINT_WEIGHT}
  ObjectMode = OBJECT
  Settable = {OBJECT, EDIT_MESH}
  Passes = {"color", "solid", "wireframe", "ids"}
  None = None
  Base = 2
  Pixels = {p1, p2}
  Materials = {m1, m2}
  MaxEntries = 9
  Nobody = Nobody
  Weights = {1, 2, 3}
  Limit = 2
  Qualities = 2
  Rounds = 2
SYMMETRY MCSymmetry
INVARIANTS TypeOK PagesWhole ComponentsRight NewestKept DiffTells GivenBack PixelsDecode ImageAsSaid
CHECK_DEADLOCK FALSE
