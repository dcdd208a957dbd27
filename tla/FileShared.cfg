SPECIFICATION Spec
CONSTANTS
  p1 = p1
  p2 = p2
  f = f
  g = g
  Proc = {p1, p2}
  Path = {f, g}
  Meta = {m1, m2}
  Bucket = {b1, b2, b3}
  Fd = {0}
  Byte = {"x", "y", Junk}
  DBUCKET_BUF_SIZE = 2
  OffBound = 4
  SizeBound = 3
  Sessions <- SharedSessions
  Zero = "x"
  Junk = Junk
  NoBucket = NoBucket
  NoMeta = NoMeta
  NoPath = NoPath
INVARIANTS
  ChainsSound
  WrittenBack
SYMMETRY Interchangeable
CHECK_DEADLOCK FALSE
