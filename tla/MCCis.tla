-------------------------------- MODULE MCCis --------------------------------
(* The instances of Cis that TLC checks; the constants are in the cfgs. *)
EXTENDS Cis
=============================================================================
