SPECIFICATION FairRunSpec
CONSTANTS
    UNSIGNEDBITS = 20
    MEMSIZE = 768
    Numbers = {}
    Lines = {}
    ForIncludesBound = FALSE
    Algorithms <- MCAlgorithms
    Arguments <- MCArguments
    Programs <- MCPrograms
    Message <- MCMessage
    DivisionText <- MCMessage
INVARIANTS
    PrintsTheValue
    StackEmptied
PROPERTIES
    StackDiscipline
    JumpDiscipline
    ReturnsBehindCall
    WritesInPlace
    Terminates
