SPECIFICATION Spec
CONSTANTS
    PageSize = 2
    RvaLimit = 8
    Bases <- SmallBases
    Files <- SmallFiles
INVARIANTS
    TypeOK
    PlacedInside
    ImageIsTheFile
    StaysInMapping
    PermsAsAsked
PROPERTIES
    StagesOfPeLoader
