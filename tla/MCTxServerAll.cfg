\* Two sessions, one table, every kind of request.
SPECIFICATION FairSpec
CONSTANTS
    Conns = {c1, c2}
    Tables = {t1}
    Keys = {k1}
    Vals = {v1}
    None = None
    Junk = Junk
    FreshMutex = {None, Junk}
    Requests = {"CREATE", "PUSH", "POP", "SET", "GET", "ARITH", "BEGIN", "COMMIT", "BYE", "EOF", "INVALID"}
    MaxStack = 2
INVARIANTS
    TypeOK
    OneReplyPerRequest
    
PROPERTY
    TxnRequestsAnswered
CHECK_DEADLOCK FALSE
