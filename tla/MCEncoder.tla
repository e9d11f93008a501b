------------------------------ MODULE MCEncoder ------------------------------
(***************************************************************************)
(* An instance of StallGuard and Encoder: two ticks per millisecond, all   *)
(* times shortened, in the order of their real values.  A stall may last   *)
(* longer than a whole turn of the clock.                                  *)
(***************************************************************************)
EXTENDS Encoder

MCRates == {-5, 0, 1, 3}

=============================================================================
