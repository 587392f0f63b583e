-------------------------- MODULE MCColorConversion --------------------------
(* Every good height up to the height of the screen's buffer in the small. *)
EXTENDS ColorConversion
=============================================================================
