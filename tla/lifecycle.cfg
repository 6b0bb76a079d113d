SPECIFICATION Spec
CONSTANTS
  Threads = {t1, t2}
  PeFiles = {f1, f2}
  Fds = {d0}
  Stdin = d0
  NULL = NULL
  Requests <- ValidRequests
  HeapContents = {"zeroed"}
INVARIANTS
  TypeOK
  PublishedIsUsable
PROPERTIES
  ClosedByOwner
  HandleSpec
