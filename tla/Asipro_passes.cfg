SPECIFICATION ListingSpec
CONSTANTS
    Symbols = {1, 2, 3, 4, 5, 6, 7, 8}
    Lines <- MCListing
    Programs <- MCPrograms
    MaxLines = 12
    MAXSYMBOLES = 2
    UINTMAX = 10
INVARIANTS
    TypeOK
    UnresolvedLast
    PassesAgree
    ImageCorrect
    AssemblesPrograms
