------------------------- MODULE MCPacketBufferSPSC -------------------------
\* A small instance of PacketBufferSPSC: two packets, storage for two records.
EXTENDS PacketBufferSPSC, TLC

CONSTANTS a, b

MCPacket == {a, b}
MCLength == a :> 1 @@ b :> 2
=============================================================================
