SPECIFICATION Spec
CONSTANTS
  Threads = {t1, t2}
  PeFiles = {f1, f2}
  Fds = {d0, d1}
  Stdin = d0
  NULL = NULL
  Requests <- MixedRequests
  HeapContents = {"zeroed", "indeterminate"}
SYMMETRY Symmetry
INVARIANTS
  Exclusive
  SourceTracked
  SourceReleased
  BlocksTracked
  HeapReclaimed
  HarmHasCause
