-------------------------- MODULE PacketBufferSPSC --------------------------
(***************************************************************************)
(* packet_buffer.c used the way its documentation says: one task pushes,   *)
(* another pops, at the same time.  The struct has no lock and used_bytes  *)
(* is updated by both sides with a plain += or -=, so a task may be        *)
(* preempted between the load and the store.  Each step below makes one    *)
(* access to used_bytes; accesses to what only one side uses (head and the *)
(* free bytes for the producer, tail for the consumer) join a neighbour.   *)
(***************************************************************************)
EXTENDS Integers, Sequences

CONSTANTS Packet, Length, HeaderSize, Capacity, SizeMax, MaxPushed

VARIABLES head, tail, used, mem,
          ppc, packet, preg, at,     \* producer: where it is, its packet, its register
          cpc, creg,                 \* consumer: where it is, its register
          sent, taken, empty         \* history: packets accepted and delivered, last pop empty

producer == <<ppc, packet, preg, at>>
consumer == <<cpc, creg>>
vars == <<head, tail, used, mem, producer, consumer, sent, taken, empty>>

RecordSize(p) == HeaderSize + Length[p]
Size(x) == x % (SizeMax + 1)         \* size_t
Zero == [kind |-> "zero"]
Header(p) == [kind |-> "header", packet |-> p]
Body(p) == [kind |-> "body", packet |-> p]

\* The length field of a header read at o; payload bytes decode to no valid record.
LengthAt(o) == CASE mem[o].kind = "header" -> Length[mem[o].packet]
                 [] mem[o].kind = "zero" -> 0
                 [] OTHER -> Capacity

Init ==
  /\ head = 0 /\ tail = 0 /\ used = 0 /\ mem = [o \in 0 .. Capacity - 1 |-> Zero]
  /\ ppc = "idle" /\ packet \in Packet /\ preg = 0 /\ at = 0
  /\ cpc = "idle" /\ creg = 0
  /\ sent = << >> /\ taken = << >> /\ empty = FALSE

----------------------------------------------------------------------------
\* The producer: packet_buffer_push

\* The checks that drop the frame, all on one load of used_bytes.
PushChecks(p) ==
  LET free == Size(Capacity - used)
      contiguous == Capacity - head
      wraps == RecordSize(p) > contiguous
  IN /\ ppc = "idle" /\ Len(sent) < MaxPushed
     /\ RecordSize(p) <= free
     /\ wraps => RecordSize(p) + contiguous <= free
     /\ packet' = p
     /\ ppc' = IF wraps THEN "pad" ELSE "write"
     /\ at' = IF wraps THEN 0 ELSE head
     /\ mem' = IF wraps THEN [o \in DOMAIN mem |-> IF o >= head THEN Zero ELSE mem[o]] ELSE mem
     /\ UNCHANGED <<head, tail, used, preg, consumer, sent, taken, empty>>

\* used_bytes += contiguous
PadLoad == /\ ppc = "pad" /\ preg' = used /\ ppc' = "padstore"
           /\ UNCHANGED <<head, tail, used, mem, packet, at, consumer, sent, taken, empty>>
PadStore == /\ ppc = "padstore" /\ used' = Size(preg + Capacity - head) /\ ppc' = "write"
            /\ UNCHANGED <<head, tail, mem, packet, preg, at, consumer, sent, taken, empty>>

\* The record, then head, then the load of used_bytes += rec_size.
WriteRecord ==
  LET end == at + RecordSize(packet) IN
  /\ ppc = "write"
  /\ mem' = [o \in DOMAIN mem |-> IF o = at THEN Header(packet)
                                  ELSE IF at < o /\ o < end THEN Body(packet) ELSE mem[o]]
  /\ head' = IF end >= Capacity THEN 0 ELSE end
  /\ preg' = used
  /\ ppc' = "store"
  /\ UNCHANGED <<tail, used, packet, at, consumer, sent, taken, empty>>

PushStore ==
  /\ ppc = "store"
  /\ used' = Size(preg + RecordSize(packet))
  /\ sent' = Append(sent, packet)
  /\ ppc' = "idle"
  /\ UNCHANGED <<head, tail, mem, packet, preg, at, consumer, taken, empty>>

----------------------------------------------------------------------------
\* The consumer: packet_buffer_pop with packet_buffer_compact_tail

PopStarts == /\ cpc = "idle" /\ cpc' = "loop"
             /\ UNCHANGED <<head, tail, used, mem, producer, creg, sent, taken, empty>>

\* while (used_bytes > 0): a pad, a record, or the end of the loop.
LoopTest ==
  /\ cpc = "loop"
  /\ cpc' = IF used = 0 THEN "idle"
            ELSE IF Capacity - tail < HeaderSize \/ LengthAt(tail) = 0 THEN "skip" ELSE "verify"
  /\ empty' = (used = 0)
  /\ UNCHANGED <<head, tail, used, mem, producer, creg, sent, taken>>

SkipLoad == /\ cpc = "skip" /\ creg' = used /\ cpc' = "skipstore"
            /\ UNCHANGED <<head, tail, used, mem, producer, sent, taken, empty>>
SkipStore == /\ cpc = "skipstore" /\ used' = Size(creg - (Capacity - tail)) /\ tail' = 0
             /\ cpc' = "loop"
             /\ UNCHANGED <<head, mem, producer, creg, sent, taken, empty>>

\* The corruption guard: a record that does not fit in what is used is flushed,
\* head included, which is the producer's.
Verify ==
  LET size == HeaderSize + LengthAt(tail) IN
  /\ cpc = "verify"
  /\ IF size > Capacity - tail \/ size > used
       THEN /\ head' = 0 /\ tail' = 0 /\ used' = 0 /\ cpc' = "idle" /\ empty' = TRUE
       ELSE /\ cpc' = "take" /\ UNCHANGED <<head, tail, used, empty>>
  /\ UNCHANGED <<mem, producer, creg, sent, taken>>

\* The copy out, tail, and the load of used_bytes -= rec_size.
Take ==
  LET size == HeaderSize + LengthAt(tail) IN
  /\ cpc = "take"
  /\ taken' = Append(taken, mem[tail].packet)
  /\ tail' = IF tail + size >= Capacity THEN 0 ELSE tail + size
  /\ creg' = Size(used - size)
  /\ cpc' = "store"
  /\ UNCHANGED <<head, used, mem, producer, sent, empty>>

PopStore == /\ cpc = "store" /\ used' = creg /\ cpc' = "idle"
            /\ UNCHANGED <<head, tail, mem, producer, creg, sent, taken, empty>>

Next == \/ \E p \in Packet : PushChecks(p)
        \/ PadLoad \/ PadStore \/ WriteRecord \/ PushStore
        \/ PopStarts \/ LoopTest \/ SkipLoad \/ SkipStore \/ Verify \/ Take \/ PopStore

Spec == Init /\ [][Next]_vars

----------------------------------------------------------------------------
\* docs/packet-engine/packet-buffer.md promises a single-producer,
\* single-consumer queue: the consumer gets the accepted packets in order and,
\* with neither side inside a call, is told "empty" only when it got them all.
DeliversAcceptedPackets ==
  /\ Len(taken) <= Len(sent)
  /\ \A i \in 1 .. Len(taken) : taken[i] = sent[i]
  /\ ppc = "idle" /\ cpc = "idle" /\ used = 0 => taken = sent
=============================================================================
