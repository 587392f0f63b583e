------------------------------ MODULE MCPlayer ------------------------------
(* Two streams: one that leaves something behind, and one that meets it.   *)
EXTENDS Player
=============================================================================
