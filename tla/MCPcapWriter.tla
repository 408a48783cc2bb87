---------------------------- MODULE MCPcapWriter ----------------------------
(***************************************************************************)
(* A small instance of PcapWriter: packets below and above the snaplen,    *)
(* a threshold that holds two small packets and one that holds none.       *)
(***************************************************************************)
EXTENDS PcapWriter, TLC

CONSTANTS a, b, none

MCPacket == {a, b, none}
MCSize == a :> 1 @@ b :> 4 @@ none :> 0
=============================================================================
