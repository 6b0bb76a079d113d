SPECIFICATION Spec
CONSTANTS
  Backends = {"TYPE_FILE", "TYPE_BUFFER"}
  MaxSize = 4
  Offsets = {0, 1, 3, 4, 6}
  Lengths = {0, 1, 2, 4}
INVARIANTS
  TypeOK
  NoOverrun
  SourceInBounds
  ReadIsExact
PROPERTIES
  ShortReadMeansEnd
  ReadsEnd
  StreamSpec
