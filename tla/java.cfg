SPECIFICATION Spec
CONSTANTS
  Threads = {t1, t2}
  Objects = {o1, o2, o3}
  Addresses = {a1, a2}
  Files <- SmallFiles
  NULL = NULL
SYMMETRY Symmetry
INVARIANTS
  TypeOK
  OwnsItsFile
  NoFileLost
  BindingHarmNeedsMisuse
PROPERTIES
  ListsAreWhole
