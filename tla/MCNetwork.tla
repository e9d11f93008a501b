------------------------------- MODULE MCNetwork -------------------------------
(***************************************************************************)
(* Two clients of each server compete for the two places that the          *)
(* listening connections leave of MEMP_NUM_NETCONN.                        *)
(***************************************************************************)
EXTENDS Network

=============================================================================
