-------------------------------- MODULE MCMde --------------------------------
(***************************************************************************)
(* Instances of Mde, with the 30 initialisation frames of mde.c.           *)
(***************************************************************************)
EXTENDS Mde

MCTorques == {0, -25}

=============================================================================
