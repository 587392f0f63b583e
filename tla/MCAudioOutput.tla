---------------------------- MODULE MCAudioOutput ----------------------------
(* Frames that end within a driver's buffer, or fill one or several; rates *)
(* of 4 to 7, and a filter of three taps and two phases.                   *)
EXTENDS AudioOutput
=============================================================================
