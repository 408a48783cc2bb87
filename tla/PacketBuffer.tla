---------------------------- MODULE PacketBuffer ----------------------------
(***************************************************************************)
(* packet_engine/src/packet_buffer.c: a byte ring that holds records of    *)
(* variable length (a header, then the payload), each contiguous in        *)
(* storage.  Calls are atomic here: the module is about the byte           *)
(* arithmetic of a buffer one task uses at a time.  PacketBufferSPSC       *)
(* interleaves a producer and a consumer.                                  *)
(*                                                                         *)
(* Storage is a function from offsets to cells.  A cell is zero (memset),  *)
(* the first byte of a record's header, or any later byte of a record; a   *)
(* header read at a byte of the last kind yields what the packet's own     *)
(* bytes decode to, Alias[p], which is arbitrary.                          *)
(***************************************************************************)
EXTENDS Naturals

CONSTANTS Packet,           \* arguments of push: bytes, length, type, timestamp
          Length,           \* Length[p]: its length argument
          Type,             \* Type[p]: its packet_type_t argument
          Alias,            \* Alias[p]: the header its bytes decode to
          NoPacket,         \* stands for "no packet" in cells and replies
          HeaderSize,       \* sizeof(packet_record_header_t)
          MaxFrame,         \* PACKET_BUFFER_MAX_FRAME_BYTES
          DefaultCapacity,  \* PACKET_BUFFER_DEFAULT_CAPACITY_BYTES
          FallbackCapacity, \* PACKET_BUFFER_FALLBACK_CAPACITY_BYTES
          SizeMax,          \* SIZE_MAX: the arithmetic on bytes wraps past it
          Requests,         \* capacities asked of init
          Rooms,            \* sizes of the caller's output buffer, 0 for NULL
          MaxPushed,        \* bound of the model on pushed_packets
          MaxDropped        \* bound of the model on dropped_packets

Headers == [length : 0 .. 65535, type : 0 .. 255]

ASSUME ConstantsAssumption ==
  /\ Length \in [Packet -> Nat] /\ Type \in [Packet -> Nat]
  /\ Alias \in [Packet -> Headers]
  /\ NoPacket \notin Packet
  /\ HeaderSize \in Nat \ {0} /\ MaxFrame \in Nat /\ SizeMax \in Nat
  /\ MaxPushed \in Nat /\ MaxDropped \in Nat
  /\ DefaultCapacity \in 1 .. SizeMax
  /\ FallbackCapacity \in Nat /\ FallbackCapacity > HeaderSize
  /\ Requests \subseteq 0 .. SizeMax
  /\ Rooms \subseteq Nat

VARIABLES
  initialized, capacity, using_psram,
  head, tail, used,           \* head, tail and used_bytes of packet_buffer_t
  mem,                        \* storage: offset -> cell
  watermark,                  \* high_watermark_bytes
  pushed, popped, dropped,    \* the three packet counters
  reply,                      \* the last call, its code and the packet it named
  live,                       \* history: push number -> where its record was put
  discarded                   \* history: packets thrown away by a flush

setup == <<initialized, capacity, using_psram>>
ring == <<head, tail, used>>
counters == <<watermark, pushed, popped, dropped>>
history == <<live, discarded>>
vars == <<setup, ring, mem, counters, reply, history>>

PacketTypes == {1, 2, 3}
Calls == {"push", "pop", "flush", "init", "deinit"}
Codes == {"OK", "INVALID_ARG", "INVALID_STATE", "INVALID_SIZE", "NO_MEM", "NOT_FOUND"}
Cells == [kind : {"zero", "header", "body"}, packet : Packet \cup {NoPacket}]

Zero == [kind |-> "zero", packet |-> NoPacket]
HeaderCell(p) == [kind |-> "header", packet |-> p]
BodyCell(p) == [kind |-> "body", packet |-> p]

Answer(call, code, packet) == reply' = [call |-> call, code |-> code, packet |-> packet]

RecordSize(p) == HeaderSize + Length[p]

\* Both offsets return to 0 when they reach the end of storage.
MutantWrapLate(end) == IF end > capacity THEN 0 ELSE end
Wrap(end) == IF end >= capacity THEN 0 ELSE end

\* size_t subtraction.
Minus(a, b) == IF b <= a THEN a - b ELSE a + SizeMax + 1 - b

\* memcpy(&hdr, storage + o, sizeof hdr): the two fields the code reads.
HeaderAt(o) ==
  LET cell == mem[o] IN
  IF cell.kind = "header" THEN [length |-> Length[cell.packet], type |-> Type[cell.packet]]
  ELSE IF cell.kind = "body" THEN Alias[cell.packet]
  ELSE [length |-> 0, type |-> 0]

NoRecords == [n \in {} |-> [at |-> 0, packet |-> NoPacket]]

Init ==
  /\ initialized = FALSE /\ capacity = 0 /\ using_psram = FALSE
  /\ head = 0 /\ tail = 0 /\ used = 0
  /\ mem = [o \in {} |-> Zero]
  /\ watermark = 0 /\ pushed = 0 /\ popped = 0 /\ dropped = 0
  /\ reply = [call |-> "none", code |-> "OK", packet |-> NoPacket]
  /\ live = NoRecords /\ discarded = 0

----------------------------------------------------------------------------
\* packet_buffer_init: PSRAM first, then internal memory of bounded size.

Requested(r) == IF r = 0 THEN DefaultCapacity ELSE r

Allocations(c) ==
  {[capacity |-> c, psram |-> TRUE],
   [capacity |-> IF c > FallbackCapacity THEN FallbackCapacity ELSE c, psram |-> FALSE]}

InitOk(r) ==
  /\ ~initialized
  /\ Requested(r) >= HeaderSize + 1
  /\ \E a \in Allocations(Requested(r)) :
       /\ capacity' = a.capacity
       /\ using_psram' = a.psram
       /\ mem' = [o \in 0 .. a.capacity - 1 |-> Zero]
  /\ initialized' = TRUE
  /\ head' = 0 /\ tail' = 0 /\ used' = 0
  /\ watermark' = 0 /\ pushed' = 0 /\ popped' = 0 /\ dropped' = 0
  /\ Answer("init", "OK", NoPacket)
  /\ live' = NoRecords /\ discarded' = 0

InitFails(r) ==
  /\ \/ initialized /\ Answer("init", "INVALID_STATE", NoPacket)
     \/ ~initialized /\ Requested(r) < HeaderSize + 1 /\ Answer("init", "INVALID_SIZE", NoPacket)
     \/ ~initialized /\ Requested(r) >= HeaderSize + 1 /\ Answer("init", "NO_MEM", NoPacket)
  /\ UNCHANGED <<setup, ring, mem, counters, history>>

Deinit ==
  /\ IF initialized
       THEN /\ initialized' = FALSE /\ capacity' = 0 /\ using_psram' = FALSE
            /\ head' = 0 /\ tail' = 0 /\ used' = 0
            /\ mem' = [o \in {} |-> Zero]
            /\ watermark' = 0 /\ pushed' = 0 /\ popped' = 0 /\ dropped' = 0
            /\ live' = NoRecords /\ discarded' = 0
       ELSE UNCHANGED <<setup, ring, mem, counters, history>>
  /\ Answer("deinit", "OK", NoPacket)

----------------------------------------------------------------------------
\* packet_buffer_push

ValidFrame(p) == Type[p] \in PacketTypes /\ Length[p] # 0 /\ Length[p] <= MaxFrame

Free == Minus(capacity, used)
Contiguous == capacity - head

\* A record that would cross the end of storage goes to offset 0 and the bytes
\* it skips become padding.
MutantFitsIgnoresPad(p) == RecordSize(p) <= capacity /\ RecordSize(p) <= Free
MutantFitsNeverPads(p) == MutantFitsIgnoresPad(p) /\ RecordSize(p) <= Contiguous
Fits(p) ==
  /\ RecordSize(p) <= capacity
  /\ RecordSize(p) <= Free
  /\ RecordSize(p) > Contiguous => RecordSize(p) + Contiguous <= Free

Put(p) == IF RecordSize(p) > Contiguous THEN 0 ELSE head
MutantPadNotCounted(p) == 0
Padding(p) == IF RecordSize(p) > Contiguous THEN Contiguous ELSE 0

MutantPadNotZeroed(p) ==
  [o \in DOMAIN mem |->
     IF o = Put(p) THEN HeaderCell(p)
     ELSE IF Put(p) < o /\ o < Put(p) + RecordSize(p) THEN BodyCell(p)
     ELSE mem[o]]
Written(p) ==
  [o \in DOMAIN mem |->
     IF o = Put(p) THEN HeaderCell(p)
     ELSE IF Put(p) < o /\ o < Put(p) + RecordSize(p) THEN BodyCell(p)
     ELSE IF head <= o /\ o < head + Padding(p) THEN Zero
     ELSE mem[o]]

First == popped + discarded + 1     \* push number of the oldest packet held

PushOk(p) ==
  /\ initialized /\ ValidFrame(p) /\ Fits(p)
  /\ pushed < MaxPushed
  /\ mem' = Written(p)
  /\ head' = Wrap(Put(p) + RecordSize(p))
  /\ used' = used + Padding(p) + RecordSize(p)
  /\ watermark' = IF used' > watermark THEN used' ELSE watermark
  /\ pushed' = pushed + 1
  /\ Answer("push", "OK", p)
  /\ live' = [n \in First .. pushed + 1 |->
                IF n = pushed + 1 THEN [at |-> Put(p), packet |-> p] ELSE live[n]]
  /\ UNCHANGED <<setup, tail, popped, dropped, discarded>>

PushDropped(p) ==
  /\ initialized /\ ValidFrame(p) /\ ~Fits(p)
  /\ dropped < MaxDropped
  /\ dropped' = dropped + 1
  /\ Answer("push", "NO_MEM", p)
  /\ UNCHANGED <<setup, ring, mem, watermark, pushed, popped, history>>

PushRefused(p) ==
  /\ \/ ~initialized /\ Answer("push", "INVALID_STATE", p)
     \/ /\ initialized
        /\ Type[p] \notin PacketTypes \/ Length[p] = 0
        /\ Answer("push", "INVALID_ARG", p)
     \/ /\ initialized
        /\ Type[p] \in PacketTypes /\ Length[p] # 0 /\ Length[p] > MaxFrame
        /\ Answer("push", "INVALID_SIZE", p)
  /\ UNCHANGED <<setup, ring, mem, counters, history>>

----------------------------------------------------------------------------
\* packet_buffer_pop, which starts with packet_buffer_compact_tail

PadAt(o) == capacity - o < HeaderSize \/ HeaderAt(o).length = 0

\* The first round of the loop of compact_tail.  NeverCorrupt below says that
\* the loop never has a second pad to skip: one round is the whole loop.  The
\* guard in pop repeats two tests of the one in the loop, on the same bytes.
Skips == used > 0 /\ PadAt(tail)
CompactTail == IF Skips THEN 0 ELSE tail
CompactUsed == IF Skips THEN Minus(used, capacity - tail) ELSE used

Corrupt(o, u) ==
  LET h == HeaderAt(o) IN
  \/ h.type \notin PacketTypes
  \/ h.length > MaxFrame
  \/ HeaderSize + h.length > capacity - o
  \/ HeaderSize + h.length > u

\* The loop of compact_tail ran out of bytes, or met a record it does not
\* believe and flushed the queue: both end in ESP_ERR_NOT_FOUND.
PopNothing ==
  /\ initialized
  /\ IF CompactUsed > 0
       THEN /\ Corrupt(CompactTail, CompactUsed)
            /\ head' = 0 /\ tail' = 0 /\ used' = 0
            /\ live' = NoRecords /\ discarded' = pushed - popped
       ELSE /\ tail' = CompactTail /\ used' = CompactUsed
            /\ UNCHANGED <<head, history>>
  /\ Answer("pop", "NOT_FOUND", NoPacket)
  /\ UNCHANGED <<setup, mem, counters>>

Found == CompactUsed > 0 /\ ~Corrupt(CompactTail, CompactUsed)

\* What the caller gets: the packet, if every byte copied out is its own.
Delivered(o) ==
  LET p == mem[o].packet
      size == HeaderSize + HeaderAt(o).length
  IN  IF mem[o] = HeaderCell(p) /\ \A i \in o + 1 .. o + size - 1 : mem[i] = BodyCell(p)
        THEN p ELSE NoPacket

PopShort(room) ==
  /\ initialized /\ Found
  /\ room < HeaderAt(CompactTail).length
  /\ tail' = CompactTail /\ used' = CompactUsed
  /\ Answer("pop", "INVALID_SIZE", mem[CompactTail].packet)
  /\ UNCHANGED <<setup, head, mem, counters, history>>

PopOk(room) ==
  LET size == HeaderSize + HeaderAt(CompactTail).length
  IN /\ initialized /\ Found
     /\ room >= HeaderAt(CompactTail).length
     /\ tail' = Wrap(CompactTail + size)
     /\ used' = Minus(CompactUsed, size)
     /\ popped' = popped + 1
     /\ Answer("pop", "OK", Delivered(CompactTail))
     /\ live' = [n \in First + 1 .. pushed |-> live[n]]
     /\ UNCHANGED <<setup, head, mem, watermark, pushed, dropped, discarded>>

MutantFlushKeepsHead ==
  /\ initialized
  /\ tail' = 0 /\ used' = 0
  /\ live' = NoRecords /\ discarded' = pushed - popped
  /\ Answer("flush", "OK", NoPacket)
  /\ UNCHANGED <<setup, head, mem, counters>>

\* Calls on a NULL buffer or packet return before they touch anything and are
\* left out; a NULL output buffer of pop is the room 0.

\* packet_buffer_flush: the counters and the storage stay as they are.
Flush ==
  /\ initialized
  /\ head' = 0 /\ tail' = 0 /\ used' = 0
  /\ live' = NoRecords /\ discarded' = pushed - popped
  /\ Answer("flush", "OK", NoPacket)
  /\ UNCHANGED <<setup, mem, counters>>

NotOpen(call) ==
  /\ ~initialized
  /\ Answer(call, "INVALID_STATE", NoPacket)
  /\ UNCHANGED <<setup, ring, mem, counters, history>>

Next ==
  \/ \E r \in Requests : InitOk(r) \/ InitFails(r)
  \/ Deinit
  \/ \E p \in Packet : PushOk(p) \/ PushDropped(p) \/ PushRefused(p)
  \/ PopNothing
  \/ \E room \in Rooms : PopShort(room) \/ PopOk(room)
  \/ Flush
  \/ \E call \in {"pop", "flush"} : NotOpen(call)

Spec == Init /\ [][Next]_vars

----------------------------------------------------------------------------
(***************************************************************************)
(* Where the records are.  Start(n) unrolls the ring: it is the distance   *)
(* from offset 0 of the lap the tail is in, so records run from tail up to *)
(* tail + used without wrapping.                                           *)
(***************************************************************************)
Held == First .. pushed
Start(n) == IF live[n].at < tail THEN live[n].at + capacity ELSE live[n].at
End(n) == Start(n) + RecordSize(live[n].packet)

\* From unrolled offset a to b there is nothing, or one pad up to the end of storage.
Joined(a, b) == \/ a = b
                \/ /\ a < capacity /\ b = capacity
                   /\ capacity - a < HeaderSize \/ mem[a] = Zero

TypeOK ==
  /\ initialized \in BOOLEAN /\ using_psram \in BOOLEAN
  /\ capacity \in 0 .. SizeMax /\ head \in Nat /\ tail \in Nat /\ used \in Nat
  /\ mem \in [0 .. capacity - 1 -> Cells]
  /\ watermark \in Nat /\ pushed \in Nat /\ popped \in Nat /\ dropped \in Nat
  /\ discarded \in Nat
  /\ reply \in [call : Calls \cup {"none"}, code : Codes, packet : Packet \cup {NoPacket}]
  /\ live \in [Held -> [at : Nat, packet : Packet]]

\* Every packet accepted and not yet popped or flushed is in storage whole,
\* header and payload contiguous, never overwritten by a later push: the
\* placement arithmetic of packet_buffer_push against that of pop.
RecordsIntact ==
  \A n \in Held :
    LET p == live[n].packet  at == live[n].at IN
    /\ ValidFrame(p)
    /\ at + RecordSize(p) <= capacity
    /\ mem[at] = HeaderCell(p)
    /\ \A i \in at + 1 .. at + RecordSize(p) - 1 : mem[i] = BodyCell(p)

\* The records lie in push order between the tail and tail + used_bytes, and
\* used_bytes counts them and the pads between them exactly.
RecordsChained ==
  /\ \A m \in Held, n \in Held : m < n => End(m) <= Start(n)
  /\ \A m \in Held : m + 1 \in Held => Joined(End(m), Start(m + 1))
  /\ First \in Held => Joined(tail, Start(First))
  /\ pushed \in Held => End(pushed) = tail + used
  /\ Held = {} => used = 0

\* The three ring variables agree: head is tail + used_bytes modulo the
\* capacity, and both offsets are inside storage.
RingConsistent ==
  /\ initialized => capacity > HeaderSize /\ tail < capacity
  /\ ~initialized => capacity = 0 /\ tail = 0
  /\ used <= watermark /\ watermark <= capacity
  /\ head = IF initialized /\ tail + used >= capacity THEN tail + used - capacity
            ELSE tail + used
  /\ ~initialized => Held = {}
  /\ popped + discarded <= pushed

\* After compact_tail skipped a pad there is a record it believes, so its loop
\* needs one round at most, and neither its corruption guard nor the one in pop
\* ever fires: no sequence of calls makes the buffer throw its packets away.
NeverCorrupt ==
  initialized /\ CompactUsed > 0 =>
    ~PadAt(CompactTail) /\ ~Corrupt(CompactTail, CompactUsed)

\* An empty buffer takes every frame of at most half its capacity, wherever
\* the offsets were left by the traffic before.
AdmittedWhenEmpty ==
  \A p \in Packet :
    /\ initialized /\ Held = {}
    /\ reply' = [call |-> "push", code |-> "NO_MEM", packet |-> p]
    => 2 * RecordSize(p) > capacity
EmptyTakesHalf == [][AdmittedWhenEmpty]_vars

\* The packets held, oldest first.
queue == [i \in 1 .. pushed - popped - discarded |-> live[popped + discarded + i].packet]

\* The bytes implement the queue of packets: what pop delivers is the oldest
\* accepted packet, byte for byte, and nothing is lost on the way.
Queue == INSTANCE PacketQueue WITH Code <- Codes
QueueSpec == Queue!Spec
=============================================================================
