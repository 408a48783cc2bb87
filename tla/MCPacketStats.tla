---------------------------- MODULE MCPacketStats ---------------------------
(* Seconds of three units; reports below, inside, on the border and above the  *)
(* histogram of three bins, with and without a type of their own.              *)
EXTENDS PacketStats

CONSTANT none

Rep(t, s, n, r) == [type |-> t, subtype |-> s, len |-> n, rssi |-> r]
MCReport == {Rep(0, 1, 1, -9), Rep(1, 0, 2, -1), Rep(2, 2, 1, 1), Rep(1, 1, 0, none)}
MCRssiMin == -4
=============================================================================
