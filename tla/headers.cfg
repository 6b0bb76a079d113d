SPECIFICATION Spec
CONSTANTS
  SizeOf <- SmallSizes
  DirCount = 2
  Word = 32
  PeOffs = {0, 3}
  OptionalSizes = {0, 1, 2, 3, 4, 6, 7, 8, 9, 11}
  SectionCounts = {0, 1, 2}
INVARIANTS
  TypeOK
  HeaderStaysInside
  MembersInPlace
  TableIsTheFile
PROPERTIES
  ParseEnds
  StagesOfPeLoader
