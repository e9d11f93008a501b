SPECIFICATION FairSpec
CONSTANTS
    TrqArgs = {0, 50}
    AzArgs = {30000}
    ElArgs = {8000}
    AzOffs = {1820}
    ElOffs = {910}
    EncSamples <- MCEncSamples
    ImuSamples <- MCImuSamples
    MaxCmds = 2
INVARIANTS
    TypeOK
    AzManualHolds
    FailsafeHolds
    TrackingTorqueLimited
    OldAzInitialised
PROPERTIES
    StoppedStays
    FailsafeSettles
