SPECIFICATION Spec
CONSTANTS
    Jobs <- OneJob
    ProcLimit = 5
    MaxFaults = 1
CHECK_DEADLOCK FALSE
INVARIANTS
    ChildrenSucceeded
