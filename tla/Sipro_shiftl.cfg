SPECIFICATION Spec
CONSTANTS
    UNSIGNEDBITS = 20
    MEMSIZE = 96
    Programs <- MCShifts
    Numbers <- MCNumbers
    Lines <- MCLines
PROPERTY
    ShiftlKeepsLostBit
