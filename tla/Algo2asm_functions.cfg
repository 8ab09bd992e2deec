SPECIFICATION Spec
CONSTANTS
    Names = {"f", "x"}
    FileName = "f"
    Operators = {"/", "!"}
    Packages <- MCPackages
    Prefix <- MCPrefix
    MAX_PARAMS = 2
    CountModulus = 4
    LabelMax = 2
    STACK_CAPACITY = 4096
    MaxDepth = 3
    MaxNest = 3
    MaxCalls = 2
    MaxNumber = 0
INVARIANTS
    NothingLeft
    DepthAccounted
    NumberedLabelsUnique
    StackBalance
    ScopeOrdered
