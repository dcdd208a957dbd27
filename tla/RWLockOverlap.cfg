SPECIFICATION Spec
CONSTANTS
  Proc = {p1, p2}
  NoProc = NoProc
INVARIANT
  ReaderWriterExclusion
