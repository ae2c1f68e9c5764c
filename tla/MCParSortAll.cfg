SPECIFICATION FairSpec
CONSTANTS
    Jobs <- ManyJobs
    ProcLimit = 5
    MaxFaults = 2
CHECK_DEADLOCK FALSE
INVARIANTS
    ParTypeOK
    SortedOnSuccess
    WritersDisjoint
    NothingLost
PROPERTIES
    ResultFinal
    EveryProcessEnds
    Succeeds
