SPECIFICATION Spec
CONSTANTS
    Arguments <- AllPolicies
    Addresses <- FewAddresses
    AddressBits = 8
    CounterSize = 16
    MaxAccesses = 6
CHECK_DEADLOCK FALSE
INVARIANTS
    CacheTypeOK
    NoDuplicates
    DirtyIsUnpaid
    TimesDistinct
    BlocksAreWhole
PROPERTIES
    ImplementsIdealCache
