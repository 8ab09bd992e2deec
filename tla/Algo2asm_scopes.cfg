SPECIFICATION Spec
CONSTANTS
    Names = {"f", "x", "y"}
    FileName = "f"
    Operators = {}
    Packages <- MCPackage
    Prefix <- MCOnePrefix
    MAX_PARAMS = 1
    CountModulus = 256
    LabelMax = 2
    STACK_CAPACITY = 4096
    MaxDepth = 1
    MaxNest = 6
    MaxCalls = 0
    MaxNumber = 2
INVARIANTS
    TypeOK
    StackBalance
    StatementNumbers
    ScopeOrdered
    ForVariableFirst
    NothingLeft
    StorageDeclared
    LabelsResolved
    NumberedLabelsUnique
    NoCrash
PROPERTIES
    BlockScope
    ImplementsScopes
