SPECIFICATION RunSpec
CONSTANTS
    UNSIGNEDBITS = 20
    MEMSIZE = 512
    Numbers = {}
    Lines = {}
    ForIncludesBound = TRUE
    Algorithms <- MCPuissance
    Arguments <- MCPuissanceArguments
    Programs <- MCPrograms
    Message <- MCMessage
    DivisionText <- MCMessage
INVARIANTS
    PrintsTheValue
