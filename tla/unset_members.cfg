SPECIFICATION Spec
CONSTANTS
  Threads = {t1}
  PeFiles = {f1}
  Fds = {d0, d1}
  Stdin = d0
  NULL = NULL
  Requests = {"path"}
  HeapContents = {"indeterminate"}
INVARIANT DefinedBehaviour
