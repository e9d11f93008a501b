------------------------------- MODULE MCDebug -------------------------------
(***************************************************************************)
(* A small bucket, into which a few texts of either thread fit.            *)
(***************************************************************************)
EXTENDS Debug

MCLens == [ocxo |-> {2}, ctrl |-> {1, 3}]

=============================================================================
