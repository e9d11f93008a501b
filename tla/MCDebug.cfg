SPECIFICATION FairSpec
CONSTANTS
    Size = 8
    Lens <- MCLens
INVARIANTS
    InBounds
    ReadWhole
PROPERTIES
    CtrlTextKept
    RequestAnswered
