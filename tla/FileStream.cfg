SPECIFICATION OracleSpec
CONSTANTS
  p1 = p1
  p2 = p2
  f = f
  g = g
  Proc = {p1}
  Path = {f}
  Meta = {m1}
  Bucket = {b1, b2, b3}
  Fd = {0, 1}
  Byte = {"x", "y", Zero, Junk}
  DBUCKET_BUF_SIZE = 2
  OffBound = 4
  SizeBound = 6
  Sessions <- StreamSessions
  Zero = Zero
  Junk = Junk
  NoBucket = NoBucket
  NoMeta = NoMeta
  NoPath = NoPath
INVARIANTS
  TypeOK
  ContentAgrees
  ReadsAgree
  CursorInBounds
  SizeIsSum
SYMMETRY Interchangeable
CONSTRAINT Followed
CHECK_DEADLOCK FALSE
