SPECIFICATION Spec
CONSTANTS
    ModuleNames = {"m", "n"}
    FunctionNames = {"a", "b"}
    Addresses = {x, y}
    NULL = NULL
    Ordinals = {1, 2}
    Behind = {0, 1}
    MaxCalls = 2
    Files <- SmallFiles
INVARIANTS
    TypeOK
    LastBindWins
    ImportAnswers
    ListedIsBindable
    NamedExportsResolve
PROPERTIES
    StagesOfPeLoader
SYMMETRY Symmetry
