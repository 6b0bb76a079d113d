SPECIFICATION Spec
CONSTANTS
  Backends = {"TYPE_BUFFER"}
  MaxSize = 2
  Offsets = {0, 1}
  Lengths = {1, 2}
INVARIANT TooSmallIsError
