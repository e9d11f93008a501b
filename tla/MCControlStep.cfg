SPECIFICATION Spec
CONSTANTS
    AzPositions <- MCAzPositions
    ElPositions <- MCElPositions
    AzSpeeds    <- MCAzSpeeds
    ElRates     <- MCElRates
    Gyros       <- MCGyros
INVARIANTS
    AzSpeedFollowsShortestWay
    AzTorqueExactInRange
    ElSpeedPointsAtTarget
    ElTorqueOpposesError
    ElRateExactWhenSafe
CHECK_DEADLOCK FALSE
