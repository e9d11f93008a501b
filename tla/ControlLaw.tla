----------------------------- MODULE ControlLaw -----------------------------
(***************************************************************************)
(* The arithmetic of the control thread (ctrl.c): how a target position    *)
(* and the sensor readings become a target speed, and how a target speed   *)
(* and the measured speed become a motor torque.                           *)
(*                                                                         *)
(* Angles are 16-bit: 65536 counts are a full turn, 182 counts a degree.   *)
(* The integer widths of the source are kept: they decide what happens     *)
(* across north, at half a turn, and when a correction does not fit.       *)
(*                                                                         *)
(* The extrapolation term az_tgt_pos_spd * elapsed (and its elevation      *)
(* twin) is left out: the only values ever stored in az_tgt_pos_spd and    *)
(* el_tgt_pos_spd are 0 (their initial value and every caller in api.c).   *)
(***************************************************************************)
EXTENDS CInt

NullZone        == 45           \* uint16_t nullzone
AzMinSpd        == 2 * 182
AzMaxSpd        == 30 * 182
ConstSpeedRange == 45           \* uint16_t const_speed_range
ElMinSpd        == 1 * 182
ElMaxSpd        == 15 * 182
ElSpdDeadband   == 150
MaxTrq          == 25
StaticTrq       == 10           \* int8_t static_trq of the azimuth loop
HoldTrq         == 3

-----------------------------------------------------------------------------
(* Azimuth: speed demanded by the position error.                          *)

AzDirDiff(tgt, enc) == ToUInt16(tgt - enc)

\* Mutant: the distance does not go across north.
AzDist_NoWrap(tgt, enc) == ToUInt16(abs(tgt - enc))

AzDist(tgt, enc) ==
    IF ToUInt16(tgt - enc) < ToUInt16(enc - tgt)
    THEN ToUInt16(tgt - enc)
    ELSE ToUInt16(enc - tgt)

\* The antenna is far enough from the target to be driven at a speed.
AzMustMove(tgt, enc) ==
    /\ AzDirDiff(tgt, enc) > NullZone
    /\ UINT16_MAX - NullZone > AzDirDiff(tgt, enc)

AzDir(tgt, enc) == IF AzDirDiff(tgt, enc) < 32768 THEN 1 ELSE -1

AzTgtSpd(tgt, enc) ==
    LET dir   == AzDir(tgt, enc)
        prop  == CDiv(dir * AzDist(tgt, enc), 2)
        least == IF abs(prop) < AzMinSpd THEN dir * AzMinSpd ELSE prop
    IN  IF abs(least) > AzMaxSpd THEN dir * AzMaxSpd ELSE least

\* Mutants: the static part always pushes forwards; no limiter.
AzTrq_NoDir(tgt, act) == Limit(ToInt8(CDiv(tgt - act, 60) + StaticTrq), MaxTrq)
AzTrq_NoLimit(tgt, act) ==
    ToInt8(CDiv(tgt - act, 60) + (IF tgt > 0 THEN StaticTrq ELSE -StaticTrq))

(* Azimuth: torque demanded by the speed error.  The sum is stored in an   *)
(* int8_t before it is limited.                                            *)
AzTrq(tgt, act) ==
    LET dir == IF tgt > 0 THEN 1 ELSE -1
    IN  Limit(ToInt8(CDiv(tgt - act, 60) + StaticTrq * dir), MaxTrq)

\* Inside the null zone the sign of the torque is kept, at holding strength.
AzHoldTrq(trq) == IF trq > 0 THEN HoldTrq ELSE -HoldTrq

-----------------------------------------------------------------------------
(* Elevation.  The holding torques trq0 and trq90 are both 0, so the       *)
(* static torque of this axis is 0 at every elevation.  The rate is read   *)
(* twice, once for the dead band test and once for its value, and the IMU  *)
(* thread may publish a new rate in between.                               *)

\* Mutant: the limiter forgets the direction.
ElTgtSpd_NoDir(tgt, pos) ==
    LET dist == ToInt16(tgt - pos)
    IN  IF abs(dist) > ElMaxSpd THEN ElMaxSpd
        ELSE IF abs(dist) > ConstSpeedRange /\ abs(dist) < ElMinSpd
        THEN (IF dist < 0 THEN -ElMinSpd ELSE ElMinSpd) ELSE dist

ElTgtSpd(tgt, pos) ==
    LET dist  == ToInt16(tgt - pos)
        dir   == IF dist < 0 THEN -1 ELSE 1
        least == IF abs(dist) > ConstSpeedRange /\ abs(dist) < ElMinSpd
                 THEN dir * ElMinSpd ELSE dist
    IN  IF abs(least) > ElMaxSpd THEN dir * ElMaxSpd ELSE least

\* Mutants: an int8_t holds the unlimited torque, as on the other axis; no limiter.
ElTrq_Int8(tgt, tested, rate) ==
    Limit(ToInt8(CDiv(tgt - (IF abs(tested) < ElSpdDeadband THEN 0 ELSE rate), 10)), MaxTrq)
ElTrq_NoLimit(tgt, tested, rate) ==
    ToInt16(CDiv(tgt - (IF abs(tested) < ElSpdDeadband THEN 0 ELSE rate), 10))

ElTrq(tgt, tested, rate) ==
    LET spd == IF abs(tested) < ElSpdDeadband THEN 0 ELSE rate
    IN  Limit(ToInt16(CDiv(tgt - spd, 10)), MaxTrq)

-----------------------------------------------------------------------------
(* References the law is compared with, written without narrow integers.   *)

\* The signed way from enc to tgt round the circle, half a turn at most.
ShortestWay(tgt, enc) ==
    IF tgt - enc >= 32768 THEN tgt - enc - 65536
    ELSE IF tgt - enc < -32768 THEN tgt - enc + 65536
    ELSE tgt - enc

Sign(x) == IF x < 0 THEN -1 ELSE 1

Between(lo, x, hi) == IF x < lo THEN lo ELSE IF x > hi THEN hi ELSE x

=============================================================================
