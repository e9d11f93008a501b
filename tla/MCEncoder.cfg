SPECIFICATION EncSpec
CONSTANTS
    TimeMod = 16
    TicksPerMs = 2
    LimitMs = 4
    CtrlSleep = 4
    CalSleep = 8
    MdeSleep = 3
    BurstTime = 1
    MaxAge = 18
    Turn = 16
    Freq = 4
    Rates <- MCRates
INVARIANTS
    StallStopsComm
    IterationsKeepComm
    SpeedTrue
