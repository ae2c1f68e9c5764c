SPECIFICATION Spec
CONSTANTS
    Word = 256
    Byte = 4
    Slots = {0}
    Files <- SomeFiles
    Sizes <- SmallSizes
    Rects <- SomeRects
    Points <- SomePoints
    Radii <- SomeRadii
    Paints <- SomePaints
    MaxCommands = 3
    None = None
    Partial = Partial
CHECK_DEADLOCK FALSE
INVARIANTS
    DriverTypeOK
    
    
    FilesFaithful
