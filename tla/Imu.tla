--------------------------------- MODULE Imu ---------------------------------
(***************************************************************************)
(* The elevation rate as the imu thread computes it from the rate sensor   *)
(* (imu.c): five readings are averaged, each relative to the bias that     *)
(* imu_calibrate measured.  The mde thread may store a new bias between    *)
(* two readings (at most once in five: measuring it takes a second), so    *)
(* every reading has its own.                                              *)
(***************************************************************************)
EXTENDS CInt

RotMax == 4095
Rots   == 0 .. RotMax   \* readings of the 12-bit converter, and their means
Group  == 1 .. 5         \* the readings that are averaged

\* What the accumulator holds at the end of a group.
Accu(rot, rot_y0) ==
    LET term(i) == -(rot[i] - rot_y0[i]) * 11
    IN  term(1) + term(2) + term(3) + term(4) + term(5)

\* Mutant: the accumulator is an int16_t.
imu_el_spd_Narrow(rot, rot_y0) == CDiv(ToInt16(Accu(rot, rot_y0)), 5)

imu_el_spd(rot, rot_y0) == ToInt16(CDiv(Accu(rot, rot_y0), 5))

=============================================================================
