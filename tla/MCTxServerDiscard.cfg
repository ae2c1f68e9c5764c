\* README:28: the writes of a rolled back transaction come back with the next COMMIT.
SPECIFICATION Spec
CONSTANTS
    Conns = {c1}
    Tables = {t1, t2}
    Keys = {k1}
    Vals = {v1}
    None = None
    Junk = Junk
    FreshMutex = {None}
    Requests = {"CREATE", "PUSH", "SET", "GET", "BEGIN", "COMMIT"}
    MaxStack = 1

INVARIANT
    CommitsOwnWrites
CHECK_DEADLOCK FALSE
