---------------------------- MODULE MCPacketQueue ----------------------------
(* The packet queue with a few packets of different sizes and a limit that *)
(* some of them pass.                                                      *)
EXTENDS PacketQueue

MCPacketSize == [p \in Packet |-> 1 + (p % 2)]
=============================================================================
