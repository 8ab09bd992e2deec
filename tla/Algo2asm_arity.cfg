SPECIFICATION Spec
CONSTANTS
    Names = {"f", "x", "y"}
    FileName = "f"
    Operators = {"/", "!"}
    Packages <- MCPackage
    Prefix <- MCOnePrefix
    MAX_PARAMS = 2
    CountModulus = 256
    LabelMax = 2
    STACK_CAPACITY = 4096
    MaxDepth = 3
    MaxNest = 3
    MaxCalls = 2
    MaxNumber = 0
PROPERTIES
    CallArity
