SPECIFICATION Spec
CONSTANTS
    WordBits = 3
    DigitBits = 3
    Radix = 5
    Constructed <- Plain
    Shifts <- FewShifts
    MaxWords = 3
INVARIANT
    DifferencesExact
