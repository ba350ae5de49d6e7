-------------------------------- MODULE MCStats --------------------------------
(* Instances of Stats for TLC. *)
EXTENDS Stats

Dollars == {1, 2}
=============================================================================
