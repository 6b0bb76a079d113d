SPECIFICATION Spec
CONSTANTS
    ModuleNames = {"m", "n"}
    FunctionNames = {"a", "b"}
    Addresses = {x}
    NULL = NULL
    Ordinals = {1, 2}
    Behind = {0, 1}
    MaxCalls = 1
    Files <- SmallFiles
INVARIANT LookupsAreDefined
