SPECIFICATION MCSpec
CONSTANTS
    Kinds = {"GPGGA", "PGRMF", "other"}
    Lengths <- MCLengths
    Fields <- MCFields
    BufSize = 5
    MaxLines = 3
    MaxLost = 3
    Chips <- MCChips
    Channels <- MCChannels
    MaxRounds = 2
    Centre = 2120
    PerCount = 25
    BadCounts = {40000000}
    MaxBad = 3
INVARIANTS
    InBuffer
    FieldsGenuine
    GoodLineTaken
    PairOfOneRound
    NoOvershoot
PROPERTIES
    NeverWorse
    EventuallyLocked
