SPECIFICATION Spec
CONSTANTS
    TrqArgs = {0}
    AzArgs = {30000}
    ElArgs = {8000}
    AzOffs = {1820}
    ElOffs = {910}
    EncSamples <- MCEncSamples
    ImuSamples <- MCImuFailing
    MaxCmds = 2
INVARIANT StopHoldsPosition
