SPECIFICATION Spec
CONSTANTS
  p1 = p1
  p2 = p2
  a = a
  b = b
  c = c
  NoProc = NoProc
  NoPath = NoPath
  Proc <- MCProc
  Path <- MCPath
  Row <- MCRow
  hash <- MCHash
  META_BUCKETS = 2
  Sessions <- SameSessions
INVARIANTS
  UniquePath
