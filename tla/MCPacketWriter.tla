--------------------------- MODULE MCPacketWriter ---------------------------
(* Instances of PacketWriter for TLC. *)
EXTENDS PacketWriter

CONSTANTS s1, s2
=============================================================================
