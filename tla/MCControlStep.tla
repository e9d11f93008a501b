---------------------------- MODULE MCControlStep ----------------------------
(***************************************************************************)
(* Grids for ControlStep: the positions at which the 16-bit arithmetic     *)
(* changes its behaviour (north, half a turn, the null zone, the limits),  *)
(* and the speeds the azimuth demand itself can reach.                     *)
(***************************************************************************)
EXTENDS ControlStep

MCAzPositions == {0, 45, 46, 47, 728, 16384, 32767, 32768, 32769, 54616, 65489, 65490, 65535}
MCElPositions == {-32768, -16384, -182, -46, -45, 0, 45, 46, 3000, 16384, 32767}
MCAzSpeeds    == {-AzMaxSpd, -AzMinSpd, 0, 1600, AzMaxSpd}
MCElRates     == {-400, 0, 149, 150}
MCGyros       == {0, 1270, 2070, 2870, 4095}

=============================================================================
