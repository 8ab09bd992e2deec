SPECIFICATION Spec
CONSTANTS
    Symbols = {"a", "b"}
    Lines <- MCLines
    MaxLines = 5
    MAXSYMBOLES = 2
    UINTMAX = 7
INVARIANTS
    SyntaxErrorRefused
