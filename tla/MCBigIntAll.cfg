SPECIFICATION Spec
CONSTANTS
    WordBits = 3
    DigitBits = 3
    Radix = 5
    Constructed <- PlainAndOdd
    Shifts <- FewShifts
    MaxWords = 3
INVARIANTS
    BigIntTypeOK
    SumsExact
    ProductsExact
    RepresentationsAgree
