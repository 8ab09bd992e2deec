SPECIFICATION Spec
CONSTANTS
    UNSIGNEDBITS = 20
    MEMSIZE = 96
    Programs <- MCInstructionPrograms
    Numbers <- MCNumbers
    Lines <- MCLines
INVARIANTS
    TypeOK
    DecodesAsAssembled
PROPERTIES
    SumExact
    CarryExact
    ProductExact
    QuotientExact
