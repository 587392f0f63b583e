----------------------------- MODULE MCVideoSync -----------------------------
(* A unit is 10 ms, and a frame takes three.  A seek jumps beyond NoSync,  *)
(* as one of ten seconds or a minute does, and the picture lands before or *)
(* after the sound.                                                        *)
EXTENDS VideoSync

MCLandings == {<<-60, 14>>, <<60, -5>>}
=============================================================================
