--------------------------- MODULE MCPacketBuffer ---------------------------
(***************************************************************************)
(* A small instance of PacketBuffer.  Headers take 2 bytes, so pads that   *)
(* can hold a header and pads that cannot both occur; the capacities 9 and *)
(* 7 (fallback) leave frames that fit only at some offsets.                *)
(***************************************************************************)
EXTENDS PacketBuffer, TLC

CONSTANTS a, b, c, large, untyped

MCPacket == {a, b, c, large, untyped}
MCLength == a :> 1 @@ b :> 2 @@ c :> 4 @@ large :> 5 @@ untyped :> 0
MCType == [p \in MCPacket |-> CASE p = untyped -> 4 [] p = b -> 3 [] OTHER -> 1]

\* Payload bytes that look like a header with nothing, or something, behind it.
MCAlias == [p \in MCPacket |->
              IF p = b THEN [length |-> 0, type |-> 0] ELSE [length |-> 1, type |-> 1]]
MCRequests == {0, 2}
MCRooms == {1, 4}
=============================================================================
