\* incr_value_concurrent.sh:77: an acknowledged increment is lost.
SPECIFICATION IncrSpec
CONSTANTS
    Conns = {c1, c2}
    Modes <- AllTransactional
    Tables = {t1}
    Keys = {k1}
    Table = t1
    Key = k1
    Vals <- Counts
    None = None
    Junk = Junk
    FreshMutex = {None}
    Requests = {"PUSH", "SET", "GET", "ARITH", "BEGIN", "COMMIT", "BYE", "EOF"}
    MaxStack = 2
INVARIANT
    FinalCountExact
CHECK_DEADLOCK FALSE
