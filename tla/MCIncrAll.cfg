\* Three incr_value on one tuple, each with or without -t.
SPECIFICATION IncrSpec
CONSTANTS
    Conns = {c1, c2, c3}
    Modes <- AnyMode
    Tables = {t1}
    Keys = {k1}
    Table = t1
    Key = k1
    Vals <- Counts
    None = None
    Junk = Junk
    FreshMutex = {None}
    Requests = {"PUSH", "SET", "GET", "ARITH", "BEGIN", "COMMIT", "BYE", "EOF"}
    MaxStack = 2
INVARIANTS
    
    SomebodySucceeds
    NeverTooHigh
PROPERTY
    EveryClientEnds
CHECK_DEADLOCK FALSE
