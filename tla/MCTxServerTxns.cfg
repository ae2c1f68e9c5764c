SPECIFICATION Spec
CONSTANTS
    Conns = {c1, c2}
    Tables = {t1, t2}
    Keys = {k1}
    Vals = {v1, v2}
    None = None
    Junk = Junk
    FreshMutex = {None}
    Requests = {"CREATE", "PUSH", "SET", "GET", "BEGIN", "COMMIT", "EOF"}
    MaxStack = 1
SYMMETRY Symmetry
CONSTRAINT Unrobbed
INVARIANTS
    NoHoldAndWait
    HeldLocksAreOwned
    ReadsStable
    NoResidue
PROPERTY
    ImplementsAtomicStore
CHECK_DEADLOCK FALSE
