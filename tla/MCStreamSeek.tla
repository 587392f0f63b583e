---------------------------- MODULE MCStreamSeek ----------------------------
(* Two seeks, packets of two frames, and queues that are full with two     *)
(* packets: a packet held over one seek or two.                            *)
EXTENDS StreamSeek
=============================================================================
