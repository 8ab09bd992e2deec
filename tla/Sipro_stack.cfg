SPECIFICATION FairSpec
CONSTANTS
    UNSIGNEDBITS = 20
    MEMSIZE = 64
    Programs <- MCStackPrograms
    Numbers <- MCNumbers
    Lines <- MCLines
INVARIANTS
    StackShape
PROPERTIES
    StackDiscipline
    CodeIntact
    Implements
    Halts
