------------------------- MODULE PacketBufferProofs -------------------------
(***************************************************************************)
(* Theorems about PacketBuffer for every storage capacity, header size,    *)
(* frame limit, set of packets and payload contents.                       *)
(***************************************************************************)
EXTENDS PacketBuffer, SequenceTheorems, TLAPS

\* The four invariants of the run are inductive together.
IInv == TypeOK /\ RecordsIntact /\ RecordsChained /\ RingConsistent

USE ConstantsAssumption

----------------------------------------------------------------------------
LEMMA RecordSizeFacts ==
  \A p \in Packet : /\ RecordSize(p) \in Nat
                    /\ ValidFrame(p) => RecordSize(p) > HeaderSize
BY DEF RecordSize, ValidFrame

\* What the invariant says of the offsets, without the cells.
LEMMA Geometry ==
  ASSUME IInv
  PROVE  /\ capacity \in Nat /\ tail \in Nat /\ used \in Nat /\ used <= capacity
         /\ initialized => tail < capacity
         /\ pushed \in Nat /\ First \in Nat /\ First <= pushed + 1
         /\ \A n \in Held :
              /\ initialized
              /\ n \in Nat /\ n >= First /\ n <= pushed
              /\ live[n].packet \in Packet /\ live[n].at \in Nat
              /\ RecordSize(live[n].packet) \in Nat
              /\ RecordSize(live[n].packet) > HeaderSize
              /\ Start(n) \in Nat /\ Start(n) >= tail /\ Start(n) < tail + capacity
              /\ End(n) \in Nat /\ End(n) = Start(n) + RecordSize(live[n].packet)
              /\ End(n) <= tail + used
  <1>1. /\ capacity \in Nat /\ tail \in Nat /\ used \in Nat /\ used <= capacity
        /\ initialized => tail < capacity
        /\ pushed \in Nat /\ First \in Nat /\ First <= pushed + 1
    BY DEF IInv, TypeOK, RingConsistent, First
  <1>2. ASSUME NEW n \in Held
        PROVE  /\ initialized
               /\ n \in Nat /\ n >= First /\ n <= pushed
               /\ live[n].packet \in Packet /\ live[n].at \in Nat
               /\ RecordSize(live[n].packet) \in Nat
               /\ RecordSize(live[n].packet) > HeaderSize
               /\ Start(n) \in Nat /\ Start(n) >= tail /\ Start(n) < tail + capacity
               /\ End(n) \in Nat /\ End(n) = Start(n) + RecordSize(live[n].packet)
    <2>1. n \in Nat /\ n >= First /\ n <= pushed
      BY <1>1 DEF Held
    <2>2. initialized
      BY DEF IInv, RingConsistent, TypeOK
    <2>3. live[n].packet \in Packet /\ live[n].at \in Nat
      BY DEF IInv, TypeOK
    <2>4. /\ ValidFrame(live[n].packet)
          /\ live[n].at + RecordSize(live[n].packet) <= capacity
      BY DEF IInv, RecordsIntact
    <2>5. RecordSize(live[n].packet) \in Nat /\ RecordSize(live[n].packet) > HeaderSize
      BY <2>3, <2>4, RecordSizeFacts
    <2>6. Start(n) \in Nat /\ Start(n) >= tail /\ Start(n) < tail + capacity
      BY <1>1, <2>2, <2>3, <2>4, <2>5 DEF Start
    <2> QED
      BY <2>1, <2>2, <2>3, <2>5, <2>6 DEF End
  <1>3. ASSUME NEW n \in Held PROVE End(n) <= tail + used
    <2>1. pushed \in Held /\ n \in Nat /\ n <= pushed
      BY <1>1 DEF Held
    <2>2. End(pushed) = tail + used
      BY <2>1 DEF IInv, RecordsChained
    <2>3. CASE n = pushed
      BY <1>1, <2>2, <2>3
    <2>4. CASE n < pushed
      <3>1. End(n) <= Start(pushed)
        BY <2>1, <2>4 DEF IInv, RecordsChained
      <3>2. Start(pushed) <= End(pushed)
        BY <1>2, <2>1
      <3> QED
        BY <1>2, <2>1, <2>2, <3>1, <3>2
    <2> QED
      BY <2>1, <2>3, <2>4, <1>1
  <1> QED
    BY <1>1, <1>2, <1>3

----------------------------------------------------------------------------
\* The states with no record in storage, and the calls that change no byte.

Replies == [call : Calls \cup {"none"}, code : Codes, packet : Packet \cup {NoPacket}]

LEMMA EmptyIsConsistent ==
  ASSUME TypeOK', RingConsistent', Held' = {}, used' = 0
  PROVE  IInv'
  <1>1. RecordsIntact'
    BY DEF RecordsIntact
  <1>2. RecordsChained'
    BY DEF RecordsChained
  <1> QED
    BY <1>1, <1>2 DEF IInv

LEMMA NoStorage == [o \in {} |-> Zero] \in [0 .. 0 - 1 -> Cells]
  <1>1. 0 .. 0 - 1 = {}
    OBVIOUS
  <1> QED
    BY <1>1

LEMMA InitEstablishes == Init => IInv
  <1> SUFFICES ASSUME Init PROVE IInv
    OBVIOUS
  <1> USE DEF Init
  <1>1. Held = {} /\ First = 1
    BY DEF Held, First
  <1>2. TypeOK
    <2>1. live \in [Held -> [at : Nat, packet : Packet]]
      BY <1>1 DEF NoRecords
    <2>2. mem \in [0 .. capacity - 1 -> Cells]
      BY NoStorage
    <2>3. reply \in Replies
      BY DEF Replies, Codes
    <2>4. capacity \in 0 .. SizeMax
      OBVIOUS
    <2> QED
      BY <2>1, <2>2, <2>3, <2>4 DEF TypeOK, Replies
  <1>3. RingConsistent
    BY <1>1 DEF RingConsistent
  <1> QED
    BY <1>1, <1>2, <1>3 DEF IInv, RecordsIntact, RecordsChained

LEMMA ReplyOnly ==
  ASSUME IInv, reply' \in Replies, dropped' \in Nat,
         UNCHANGED <<setup, ring, mem, watermark, pushed, popped, history>>
  PROVE  IInv'
  <1> USE DEF setup, ring, history
  <1>1. Held' = Held /\ First' = First
    BY DEF Held, First
  <1>2. TypeOK'
    BY <1>1 DEF IInv, TypeOK, Replies
  <1>3. RecordsIntact'
    BY <1>1 DEF IInv, RecordsIntact
  <1>4. RecordsChained'
    BY <1>1 DEF IInv, RecordsChained, Joined, Start, End
  <1>5. RingConsistent'
    BY <1>1 DEF IInv, RingConsistent
  <1> QED
    BY <1>2, <1>3, <1>4, <1>5 DEF IInv

LEMMA RefusedCalls ==
  ASSUME IInv,
         \/ \E r \in Requests : InitFails(r)
         \/ \E p \in Packet : PushDropped(p) \/ PushRefused(p)
         \/ \E call \in {"pop", "flush"} : NotOpen(call)
  PROVE  IInv'
  <1>1. ASSUME NEW r \in Requests, InitFails(r) PROVE IInv'
    BY <1>1, ReplyOnly DEF InitFails, Answer, Replies, Calls, Codes, counters, IInv, TypeOK
  <1>2. ASSUME NEW p \in Packet, PushDropped(p) PROVE IInv'
    BY <1>2, ReplyOnly DEF PushDropped, Answer, Replies, Calls, Codes, IInv, TypeOK
  <1>3. ASSUME NEW p \in Packet, PushRefused(p) PROVE IInv'
    BY <1>3, ReplyOnly DEF PushRefused, Answer, Replies, Calls, Codes, counters, IInv, TypeOK
  <1>4. ASSUME NEW call \in {"pop", "flush"}, NotOpen(call) PROVE IInv'
    BY <1>4, ReplyOnly DEF NotOpen, Answer, Replies, Calls, Codes, counters, IInv, TypeOK
  <1> QED
    BY <1>1, <1>2, <1>3, <1>4

LEMMA InitOkStep ==
  ASSUME IInv, NEW r \in Requests, InitOk(r)
  PROVE  IInv'
  <1>1. /\ capacity' \in 0 .. SizeMax /\ capacity' > HeaderSize
        /\ using_psram' \in BOOLEAN /\ initialized' = TRUE
        /\ mem' \in [0 .. capacity' - 1 -> Cells]
    <2>1. Requested(r) \in 0 .. SizeMax /\ Requested(r) > HeaderSize
      BY DEF InitOk, Requested
    <2>2. PICK a \in Allocations(Requested(r)) :
             /\ capacity' = a.capacity
             /\ using_psram' = a.psram
             /\ mem' = [o \in 0 .. a.capacity - 1 |-> Zero]
      BY DEF InitOk
    <2>3. a.capacity \in 0 .. SizeMax /\ a.capacity > HeaderSize /\ a.psram \in BOOLEAN
      <3> DEFINE c == Requested(r)
                 fallback == IF c > FallbackCapacity THEN FallbackCapacity ELSE c
      <3>1. \/ a = [capacity |-> c, psram |-> TRUE]
            \/ a = [capacity |-> fallback, psram |-> FALSE]
        BY DEF Allocations
      <3>2. fallback \in 0 .. SizeMax /\ fallback > HeaderSize
        BY <2>1
      <3> HIDE DEF fallback
      <3>3. CASE a = [capacity |-> c, psram |-> TRUE]
        <4>1. a.capacity = c /\ a.psram = TRUE
          BY <3>3
        <4> QED
          BY <2>1, <4>1
      <3>4. CASE a = [capacity |-> fallback, psram |-> FALSE]
        <4>1. a.capacity = fallback /\ a.psram = FALSE
          BY <3>4
        <4> QED
          BY <3>2, <4>1
      <3> QED
        BY <3>1, <3>3, <3>4
    <2>4. Zero \in Cells
      BY DEF Zero, Cells
    <2> QED
      BY <2>2, <2>3, <2>4 DEF InitOk
  <1>2. Held' = {} /\ First' = 1
    BY DEF InitOk, Held, First
  <1>3. TypeOK'
    BY <1>1, <1>2 DEF InitOk, TypeOK, Answer, Calls, Codes, NoRecords
  <1>4. RingConsistent'
    BY <1>1, <1>2 DEF InitOk, RingConsistent
  <1> QED
    BY <1>2, <1>3, <1>4, EmptyIsConsistent DEF InitOk

LEMMA DeinitStep ==
  ASSUME IInv, Deinit
  PROVE  IInv'
  <1>1. CASE ~initialized
    BY <1>1, ReplyOnly DEF Deinit, Answer, Replies, Calls, Codes, counters, IInv, TypeOK
  <1>2. CASE initialized
    <2>1. Held' = {} /\ First' = 1
      BY <1>2 DEF Deinit, Held, First
    <2>2. TypeOK'
      <3>1. live' \in [Held' -> [at : Nat, packet : Packet]]
        BY <1>2, <2>1 DEF Deinit, NoRecords
      <3>2. mem' \in [0 .. capacity' - 1 -> Cells]
        BY <1>2, NoStorage DEF Deinit
      <3>3. reply' \in Replies
        BY DEF Replies, Codes, Calls, Deinit, Answer
      <3>4. capacity' \in 0 .. SizeMax
        BY <1>2 DEF Deinit
      <3>5. initialized' \in BOOLEAN /\ using_psram' \in BOOLEAN
        BY <1>2 DEF Deinit
      <3>6. /\ head' \in Nat /\ tail' \in Nat /\ used' \in Nat /\ discarded' \in Nat
            /\ watermark' \in Nat /\ pushed' \in Nat /\ popped' \in Nat /\ dropped' \in Nat
        BY <1>2 DEF Deinit
      <3> QED
        BY <3>1, <3>2, <3>3, <3>4, <3>5, <3>6 DEF TypeOK, Replies
    <2>3. RingConsistent'
      BY <1>2, <2>1 DEF Deinit, RingConsistent
    <2> QED
      BY <1>2, <2>1, <2>2, <2>3, EmptyIsConsistent DEF Deinit
  <1> QED
    BY <1>1, <1>2 DEF IInv, TypeOK

\* flush, and the flush of the corruption guard, whatever they answer.
LEMMA Emptied ==
  ASSUME IInv, initialized, reply' \in Replies,
         head' = 0, tail' = 0, used' = 0, live' = NoRecords,
         discarded' = pushed - popped,
         UNCHANGED <<setup, mem, counters>>
  PROVE  IInv'
  <1> USE DEF setup, counters
  <1>1. popped \in Nat /\ pushed \in Nat /\ discarded \in Nat /\ popped + discarded <= pushed
    BY DEF IInv, TypeOK, RingConsistent
  <1>2. Held' = {} /\ First' = pushed + 1 /\ discarded' \in Nat
    BY <1>1 DEF Held, First
  <1>3. TypeOK'
    BY <1>2 DEF TypeOK, NoRecords, IInv, Replies
  <1>4. RingConsistent'
    BY <1>1, <1>2 DEF RingConsistent, IInv, TypeOK
  <1> QED
    BY <1>2, <1>3, <1>4, EmptyIsConsistent

LEMMA FlushStep ==
  ASSUME IInv, Flush
  PROVE  IInv'
BY Emptied DEF Flush, Answer, Replies, Calls, Codes

----------------------------------------------------------------------------
\* packet_buffer_compact_tail: with no byte used it does nothing; otherwise it
\* stops at the header of the oldest record, after one pad at most.

OldestAtTail ==
  LET p == live[First].packet IN
  /\ First \in Held
  /\ CompactTail \in Nat /\ CompactUsed \in Nat /\ CompactUsed > 0
  /\ live[First].at = CompactTail
  /\ mem[CompactTail] = HeaderCell(p)
  /\ ~PadAt(CompactTail)
  /\ ~Corrupt(CompactTail, CompactUsed)
  /\ HeaderAt(CompactTail).length = Length[p]
  /\ RecordSize(p) <= CompactUsed
  /\ CompactTail + RecordSize(p) <= capacity
  /\ \/ Start(First) = tail /\ CompactTail = tail /\ CompactUsed = used
     \/ /\ Start(First) = capacity /\ CompactTail = 0
        /\ CompactUsed = used - (capacity - tail) /\ used >= capacity - tail

LEMMA HeaderCellRead ==
  ASSUME NEW o, NEW p, mem[o] = HeaderCell(p)
  PROVE  HeaderAt(o) = [length |-> Length[p], type |-> Type[p]]
BY DEF HeaderAt, HeaderCell

LEMMA NothingUsed ==
  ASSUME IInv, initialized, used = 0
  PROVE  Held = {} /\ CompactTail = tail /\ CompactUsed = 0
  <1>1. CompactTail = tail /\ CompactUsed = 0
    BY DEF CompactTail, CompactUsed, Skips
  <1>2. ASSUME NEW n \in Held PROVE FALSE
    BY <1>2, Geometry
  <1> QED
    BY <1>1, <1>2

LEMMA SomethingUsed ==
  ASSUME IInv, initialized, used # 0
  PROVE  OldestAtTail
  <1> DEFINE p == live[First].packet
             at == live[First].at
  <1>1. used > 0 /\ used <= capacity /\ tail < capacity
    BY Geometry
  <1>2. First \in Held
    <2>1. Held # {}
      BY DEF IInv, RecordsChained
    <2> QED
      BY <2>1, Geometry DEF Held
  <1>3. /\ p \in Packet /\ at \in Nat /\ RecordSize(p) \in Nat /\ RecordSize(p) > HeaderSize
        /\ Start(First) + RecordSize(p) <= tail + used
    BY <1>2, Geometry
  <1>4. /\ ValidFrame(p) /\ at + RecordSize(p) <= capacity /\ mem[at] = HeaderCell(p)
    BY <1>2 DEF IInv, RecordsIntact
  <1>5. HeaderAt(at) = [length |-> Length[p], type |-> Type[p]]
    BY <1>4, HeaderCellRead
  <1>6. Length[p] \in Nat /\ Length[p] # 0 /\ Length[p] <= MaxFrame /\ Type[p] \in PacketTypes
        /\ RecordSize(p) = HeaderSize + Length[p]
    BY <1>3, <1>4 DEF ValidFrame, RecordSize
  <1>7. ~PadAt(at)
    BY <1>1, <1>3, <1>4, <1>5, <1>6, Geometry DEF PadAt
  <1>8. Joined(tail, Start(First))
    BY <1>2 DEF IInv, RecordsChained
  <1>9. CASE tail = Start(First)
    <2>1. at = tail
      BY <1>1, <1>3, <1>4, <1>9, Geometry DEF Start
    <2>2. ~Skips /\ CompactTail = tail /\ CompactUsed = used
      BY <1>7, <2>1 DEF Skips, CompactTail, CompactUsed
    <2>3. ~Corrupt(tail, used)
      BY <1>3, <1>4, <1>5, <1>6, <1>9, <2>1, Geometry DEF Corrupt
    <2> QED
      BY <1>1, <1>2, <1>3, <1>4, <1>5, <1>6, <1>7, <1>9, <2>1, <2>2, <2>3, Geometry
      DEF OldestAtTail
  <1>10. CASE tail # Start(First)
    <2>1. /\ Start(First) = capacity
          /\ capacity - tail < HeaderSize \/ mem[tail] = Zero
      BY <1>8, <1>10 DEF Joined
    <2>2. at = 0
      BY <1>1, <1>3, <1>4, <2>1, Geometry DEF Start
    <2>3. PadAt(tail)
      BY <2>1 DEF PadAt, HeaderAt, Zero
    <2>4. used >= capacity - tail /\ capacity - tail \in Nat
      BY <1>1, <1>3, <2>1, Geometry
    <2>5. CompactTail = 0 /\ CompactUsed = used - (capacity - tail)
      BY <1>1, <2>3, <2>4, Geometry DEF Skips, CompactTail, CompactUsed, Minus
    <2>6. /\ CompactUsed \in Nat /\ CompactUsed > 0 /\ RecordSize(p) <= CompactUsed
      BY <1>1, <1>3, <2>1, <2>4, <2>5, Geometry
    <2>7. ~Corrupt(0, CompactUsed)
      BY <1>3, <1>4, <1>5, <1>6, <2>2, <2>6, Geometry DEF Corrupt
    <2> QED
      BY <1>1, <1>2, <1>3, <1>4, <1>5, <1>6, <1>7, <2>1, <2>2, <2>4, <2>5, <2>6, <2>7, Geometry
      DEF OldestAtTail
  <1> QED
    BY <1>9, <1>10

----------------------------------------------------------------------------
(***************************************************************************)
(* The tail moves forward, over a pad, a record or both, to a place where  *)
(* the oldest record still held starts.  Unrolled offsets shift by the     *)
(* capacity when the tail returns to 0, by nothing otherwise.              *)
(***************************************************************************)
LEMMA TailAdvances ==
  ASSUME IInv, initialized, NEW shift \in Nat, shift = 0 \/ shift = capacity,
         NEW t \in Nat, NEW u \in Nat, tail' = t, used' = u, t < capacity,
         t + u + shift = tail + used,
         t + shift >= tail,
         UNCHANGED <<setup, head, mem, watermark, pushed, dropped, discarded>>,
         NEW q \in Nat, popped' = q, q + discarded <= pushed,
         live' \in [Held' -> [at : Nat, packet : Packet]],
         \A n \in Held' : n \in Held /\ live'[n] = live[n] /\ Start(n) >= t + shift,
         First' \in Held' => Joined(t + shift, Start(First')),
         Held' = {} => used' = 0,
         reply' \in Replies
  PROVE  IInv'
  <1> USE DEF setup
  <1>0. /\ discarded \in Nat /\ capacity \in Nat /\ tail \in Nat /\ used \in Nat /\ used <= capacity
        /\ tail < capacity /\ pushed \in Nat /\ pushed' = pushed
    BY Geometry DEF IInv, TypeOK
  <1>1. ASSUME NEW n \in Held'
        PROVE  /\ Start(n)' = Start(n) - shift
               /\ End(n)' = End(n) - shift
    <2>1. n \in Held /\ live'[n] = live[n] /\ Start(n) >= t + shift
      OBVIOUS
    <2>2. /\ live[n].at \in Nat /\ live[n].packet \in Packet
          /\ RecordSize(live[n].packet) \in Nat /\ RecordSize(live[n].packet) > HeaderSize
          /\ Start(n) \in Nat
      BY <2>1, Geometry
    <2>3. live[n].at + RecordSize(live[n].packet) <= capacity
      BY <2>1 DEF IInv, RecordsIntact
    <2>4. Start(n)' = Start(n) - shift
      <3>1. Start(n)' = IF live[n].at < t THEN live[n].at + capacity ELSE live[n].at
        BY <2>1 DEF Start
      <3>2. Start(n) = IF live[n].at < tail THEN live[n].at + capacity ELSE live[n].at
        BY DEF Start
      <3>3. CASE shift = 0
        BY <1>0, <2>1, <2>2, <2>3, <3>1, <3>2, <3>3
      <3>4. CASE shift = capacity
        BY <1>0, <2>1, <2>2, <2>3, <3>1, <3>2, <3>4
      <3> QED
        BY <3>3, <3>4
    <2>5. End(n)' = Start(n)' + RecordSize(live[n].packet)
      BY <2>1 DEF End
    <2> QED
      BY <1>0, <2>1, <2>2, <2>4, <2>5 DEF End
  <1>2. TypeOK'
    BY DEF IInv, TypeOK, Replies
  <1>3. RecordsIntact'
    BY DEF IInv, RecordsIntact
  <1>4. RingConsistent'
    <2>1. u <= used
      BY <1>0
    <2>2. head = IF tail + used >= capacity THEN tail + used - capacity ELSE tail + used
      BY DEF IInv, RingConsistent
    <2>3. head' = IF t + u >= capacity THEN t + u - capacity ELSE t + u
      <3>1. CASE shift = 0
        BY <1>0, <2>2, <3>1
      <3>2. CASE shift = capacity
        BY <1>0, <2>2, <3>2
      <3> QED
        BY <3>1, <3>2
    <2>4. /\ capacity > HeaderSize /\ used <= watermark /\ watermark <= capacity
          /\ watermark \in Nat
      BY DEF IInv, RingConsistent, TypeOK
    <2> QED
      BY <1>0, <2>1, <2>3, <2>4 DEF RingConsistent
  <1>5. RecordsChained'
    <2>1. ASSUME NEW m \in Held', NEW n \in Held', m < n PROVE End(m)' <= Start(n)'
      <3>1. m \in Held /\ n \in Held
        BY <2>1
      <3>2. End(m) <= Start(n)
        BY <2>1, <3>1 DEF IInv, RecordsChained
      <3> QED
        BY <1>0, <1>1, <3>1, <3>2, Geometry
    <2>2. ASSUME NEW m \in Held', m + 1 \in Held' PROVE Joined(End(m), Start(m + 1))'
      <3>1. m \in Held /\ m + 1 \in Held
        BY <2>2
      <3>2. Joined(End(m), Start(m + 1))
        BY <3>1 DEF IInv, RecordsChained
      <3>3. /\ End(m)' = End(m) - shift /\ Start(m + 1)' = Start(m + 1) - shift
            /\ End(m) \in Nat /\ Start(m + 1) \in Nat /\ End(m) >= t + shift
        BY <1>0, <1>1, <2>2, <3>1, Geometry
      <3>4. CASE shift = 0
        BY <3>2, <3>3, <3>4 DEF Joined
      <3>5. CASE shift = capacity
        <4>1. End(m) = Start(m + 1)
          BY <1>0, <3>2, <3>3, <3>5 DEF Joined
        <4> QED
          BY <3>3, <4>1 DEF Joined
      <3> QED
        BY <3>4, <3>5
    <2>3. ASSUME First' \in Held' PROVE Joined(tail, Start(First))'
      <3>1. Joined(t + shift, Start(First'))
        BY <2>3
      <3>2. Start(First)' = Start(First') - shift
        BY <1>1, <2>3
      <3>3. First' \in Held /\ Start(First') \in Nat
        BY <2>3, Geometry
      <3>4. CASE shift = 0
        BY <1>0, <3>1, <3>2, <3>3, <3>4 DEF Joined
      <3>5. CASE shift = capacity
        BY <1>0, <3>1, <3>2, <3>3, <3>5 DEF Joined
      <3> QED
        BY <3>4, <3>5
    <2>4. ASSUME pushed' \in Held' PROVE End(pushed)' = tail' + used'
      <3>1. pushed \in Held /\ End(pushed) = tail + used
        BY <2>4 DEF IInv, RecordsChained
      <3>2. End(pushed) \in Nat /\ pushed \in Held'
        BY <1>0, <2>4, <3>1, Geometry
      <3>3. ASSUME NEW n \in Held', n = pushed PROVE End(n)' = t + u
        BY <1>0, <1>1, <3>1, <3>3
      <3> QED
        BY <1>0, <3>2, <3>3 DEF End, Start
    <2> QED
      BY <2>1, <2>2, <2>3, <2>4 DEF RecordsChained
  <1> QED
    BY <1>2, <1>3, <1>4, <1>5 DEF IInv

LEMMA OldestFirst ==
  ASSUME IInv, NEW n \in Held
  PROVE  /\ First \in Held
         /\ Start(First) <= Start(n)
         /\ n # First => First + 1 \in Held /\ n >= First + 1 /\ End(First) <= Start(n)
  <1>1. n \in Nat /\ n >= First /\ n <= pushed /\ First \in Nat /\ pushed \in Nat
    BY Geometry
  <1>2. First \in Held
    BY <1>1 DEF Held
  <1>3. CASE n = First
    BY <1>2, <1>3, Geometry
  <1>4. CASE n # First
    <2>1. First < n /\ First + 1 \in Held /\ n >= First + 1
      BY <1>1, <1>4 DEF Held
    <2>2. End(First) <= Start(n)
      BY <1>2, <2>1 DEF IInv, RecordsChained
    <2> QED
      BY <1>2, <2>1, <2>2, Geometry
  <1> QED
    BY <1>3, <1>4

LEMMA PopNothingStep ==
  ASSUME IInv, PopNothing
  PROVE  IInv'
  <1>1. initialized
    BY DEF PopNothing
  <1>2. used = 0
    BY <1>1, SomethingUsed DEF PopNothing, OldestAtTail
  <1>3. CompactTail = tail /\ CompactUsed = used
    BY <1>1, <1>2, NothingUsed
  <1>4. UNCHANGED <<setup, ring, mem, counters, history>>
    BY <1>2, <1>3 DEF PopNothing, ring
  <1> QED
    BY <1>4, ReplyOnly DEF PopNothing, Answer, Replies, Calls, Codes, counters, IInv, TypeOK

LEMMA PopShortStep ==
  ASSUME IInv, NEW room \in Rooms, PopShort(room)
  PROVE  IInv'
  <1>1. initialized /\ used # 0
    BY NothingUsed DEF PopShort, Found
  <1>2. OldestAtTail
    BY <1>1, SomethingUsed
  <1>3. reply' \in Replies
    <2>1. mem[CompactTail].packet \in Packet
      BY <1>2, Geometry DEF OldestAtTail, HeaderCell
    <2> QED
      BY <2>1 DEF PopShort, Answer, Replies, Calls, Codes
  <1>4. CASE Start(First) = tail /\ CompactTail = tail /\ CompactUsed = used
    <2>1. UNCHANGED <<setup, ring, mem, counters, history>>
      BY <1>4 DEF PopShort, ring
    <2> QED
      BY <1>3, <2>1, ReplyOnly DEF counters, IInv, TypeOK
  <1>5. CASE /\ Start(First) = capacity /\ CompactTail = 0
             /\ CompactUsed = used - (capacity - tail) /\ used >= capacity - tail
    <2> DEFINE u == CompactUsed
    <2>1. /\ u \in Nat /\ u # 0 /\ 0 + u + capacity = tail + used /\ capacity \in Nat
          /\ 0 < capacity /\ 0 + capacity >= tail /\ popped \in Nat
          /\ popped + discarded <= pushed
      BY <1>1, <1>2, <1>5, Geometry DEF OldestAtTail, IInv, TypeOK, RingConsistent
    <2>2. /\ tail' = 0 /\ used' = u /\ popped' = popped
          /\ UNCHANGED <<setup, head, mem, watermark, pushed, dropped, discarded, live>>
      BY <1>5 DEF PopShort, counters, history
    <2>3. Held' = Held /\ First' = First
      BY <2>2 DEF Held, First
    <2>4. live' \in [Held' -> [at : Nat, packet : Packet]]
      BY <2>2, <2>3 DEF IInv, TypeOK
    <2>5. \A n \in Held' : n \in Held /\ live'[n] = live[n] /\ Start(n) >= 0 + capacity
      BY <1>5, <2>1, <2>2, <2>3, OldestFirst, Geometry
    <2>6. First' \in Held' => Joined(0 + capacity, Start(First'))
      BY <1>5, <2>1, <2>3 DEF Joined
    <2>7. Held' # {}
      BY <1>2, <2>3 DEF OldestAtTail
    <2> HIDE DEF u
    <2> QED
      BY <1>1, <1>3, <2>1, <2>2, <2>4, <2>5, <2>6, <2>7, TailAdvances
  <1> QED
    BY <1>2, <1>4, <1>5 DEF OldestAtTail

LEMMA PopOkStep ==
  ASSUME IInv, NEW room \in Rooms, PopOk(room)
  PROVE  IInv'
  <1> DEFINE p == live[First].packet
             size == HeaderSize + HeaderAt(CompactTail).length
             t == Wrap(CompactTail + size)
             u == Minus(CompactUsed, size)
             shift == (tail + used) - (t + u)
  <1>1. initialized /\ used # 0
    BY NothingUsed DEF PopOk, Found
  <1>2. OldestAtTail
    BY <1>1, SomethingUsed
  <1>3. /\ First \in Held /\ p \in Packet /\ RecordSize(p) \in Nat
        /\ RecordSize(p) > HeaderSize
        /\ End(First) = Start(First) + RecordSize(p) /\ End(First) \in Nat
        /\ End(First) <= tail + used /\ Start(First) \in Nat /\ Start(First) >= tail
        /\ capacity \in Nat /\ tail \in Nat /\ used \in Nat /\ used <= capacity
        /\ tail < capacity
        /\ popped \in Nat /\ discarded \in Nat /\ pushed \in Nat /\ First <= pushed
    BY <1>1, <1>2, Geometry DEF OldestAtTail, IInv, TypeOK
  <1>4. size = RecordSize(p) /\ RecordSize(p) = HeaderSize + Length[p]
    BY <1>2 DEF OldestAtTail, RecordSize
  <1>5. /\ tail' = t /\ used' = u /\ popped' = popped + 1
        /\ live' = [n \in First + 1 .. pushed |-> live[n]]
        /\ UNCHANGED <<setup, head, mem, watermark, pushed, dropped, discarded>>
    BY DEF PopOk
  <1>6. reply' \in Replies
    <2>1. Delivered(CompactTail) \in Packet \cup {NoPacket}
      BY <1>2, <1>3 DEF OldestAtTail, Delivered, HeaderCell
    <2> QED
      BY <2>1 DEF PopOk, Answer, Replies, Calls, Codes
  <1>7. /\ t \in Nat /\ u \in Nat /\ t < capacity /\ shift \in Nat
        /\ shift = 0 \/ shift = capacity
        /\ t + u + shift = tail + used /\ t + shift >= tail
        /\ t + shift = End(First)
    <2>1. u = CompactUsed - RecordSize(p) /\ u \in Nat
      BY <1>2, <1>3, <1>4 DEF OldestAtTail, Minus
    <2>2. /\ CompactTail \in Nat /\ CompactUsed \in Nat
          /\ CompactTail + RecordSize(p) <= capacity
      BY <1>2 DEF OldestAtTail
    <2>3. t = IF CompactTail + RecordSize(p) >= capacity THEN 0 ELSE CompactTail + RecordSize(p)
      BY <1>4 DEF Wrap
    <2> HIDE DEF t, u
    <2>4. CASE Start(First) = tail /\ CompactTail = tail /\ CompactUsed = used
      <3>1. CASE tail + RecordSize(p) >= capacity
        <4>1. t = 0 /\ tail + RecordSize(p) = capacity
          BY <1>3, <2>2, <2>3, <2>4, <3>1
        <4> QED
          BY <1>3, <2>1, <2>4, <4>1
      <3>2. CASE ~(tail + RecordSize(p) >= capacity)
        <4>1. t = tail + RecordSize(p) /\ t < capacity
          BY <1>3, <2>3, <2>4, <3>2
        <4>2. u = used - RecordSize(p) /\ End(First) = t /\ t \in Nat
          BY <1>3, <2>1, <2>4, <4>1
        <4>3. t + u = tail + used
          BY <1>3, <2>1, <4>1, <4>2
        <4>4. shift = 0
          BY <1>3, <2>1, <4>2, <4>3
        <4> HIDE DEF shift
        <4> QED
          BY <1>3, <2>1, <4>1, <4>2, <4>3, <4>4
      <3> QED
        BY <3>1, <3>2
    <2>5. CASE /\ Start(First) = capacity /\ CompactTail = 0
               /\ CompactUsed = used - (capacity - tail) /\ used >= capacity - tail
      BY <1>3, <2>1, <2>2, <2>3, <2>5
    <2> QED
      BY <1>2, <2>4, <2>5 DEF OldestAtTail
  <1> HIDE DEF t, u, shift, size, p
  <1>8. First' = First + 1 /\ Held' = First + 1 .. pushed /\ First \in Nat
    BY <1>3, <1>5 DEF First, Held
  <1>9. \A n \in Held' : n \in Held /\ live'[n] = live[n] /\ End(First) <= Start(n)
    <2> TAKE n \in Held'
    <2>0. n \in First + 1 .. pushed
      BY <1>8
    <2>1. n \in Nat /\ n # First /\ n \in Held
      BY <1>3, <1>8, <2>0 DEF Held
    <2> QED
      BY <1>5, <1>8, <2>1, OldestFirst
  <1>10. live' \in [Held' -> [at : Nat, packet : Packet]]
    <2>1. live \in [Held -> [at : Nat, packet : Packet]]
      BY DEF IInv, TypeOK
    <2> QED
      BY <1>5, <1>8, <1>9, <2>1
  <1>11. First' \in Held' => Joined(t + shift, Start(First'))
    <2> SUFFICES ASSUME First + 1 \in Held' PROVE Joined(End(First), Start(First + 1))
      BY <1>7, <1>8
    <2> QED
      BY <1>3, <1>9 DEF IInv, RecordsChained
  <1>12. Held' = {} => used' = 0
    <2> SUFFICES ASSUME Held' = {} PROVE u = 0
      BY <1>5
    <2>1. First = pushed
      BY <1>3, <1>8
    <2>2. End(First) = tail + used
      BY <1>3, <2>1 DEF IInv, RecordsChained
    <2> QED
      BY <1>3, <1>7, <2>2
  <1>13. popped + 1 \in Nat /\ (popped + 1) + discarded <= pushed
    BY <1>3 DEF First
  <1>14. \A n \in Held' : n \in Held /\ live'[n] = live[n] /\ Start(n) >= t + shift
    BY <1>3, <1>7, <1>9, Geometry
  <1> QED
    BY <1>1, <1>5, <1>6, <1>7, <1>10, <1>11, <1>12, <1>13, <1>14, TailAdvances

----------------------------------------------------------------------------
\* Where packet_buffer_push puts a record: right behind the bytes in use, or at
\* offset 0 behind a pad up to the end of storage, and never across the tail.

PlacedBehind(p) ==
  /\ Padding(p) = 0 /\ Put(p) = head
  /\ IF tail + used < capacity THEN head = tail + used
                               ELSE head = tail + used - capacity /\ head < tail
  /\ head + RecordSize(p) <= capacity

PlacedAtZero(p) ==
  /\ head = tail + used /\ head < capacity /\ Put(p) = 0
  /\ Padding(p) = capacity - head
  /\ RecordSize(p) <= tail

LEMMA Placement ==
  ASSUME IInv, initialized, NEW p \in Packet, ValidFrame(p), Fits(p)
  PROVE  /\ head \in Nat /\ RecordSize(p) \in Nat /\ RecordSize(p) > HeaderSize
         /\ Put(p) \in Nat /\ Padding(p) \in Nat
         /\ used + Padding(p) + RecordSize(p) <= capacity
         /\ PlacedBehind(p) \/ PlacedAtZero(p)
  <1> DEFINE rec == RecordSize(p)
  <1>1. /\ capacity \in Nat /\ tail \in Nat /\ used \in Nat /\ used <= capacity
        /\ tail < capacity /\ head \in Nat
        /\ head = IF tail + used >= capacity THEN tail + used - capacity ELSE tail + used
    BY Geometry DEF IInv, TypeOK, RingConsistent
  <1>2. rec \in Nat /\ rec > HeaderSize
    BY RecordSizeFacts
  <1>3. Free = capacity - used
    BY <1>1 DEF Free, Minus
  <1>4. Contiguous = capacity - head /\ head < capacity
    BY <1>1 DEF Contiguous
  <1> HIDE DEF rec
  <1>5. CASE rec > Contiguous
    <2>1. Put(p) = 0 /\ Padding(p) = capacity - head
      BY <1>4, <1>5 DEF Put, Padding, rec
    <2>2. rec + (capacity - head) <= capacity - used
      BY <1>3, <1>4, <1>5 DEF Fits, rec
    <2>3. head = tail + used /\ rec <= tail
      BY <1>1, <1>2, <2>2
    <2> QED
      BY <1>1, <1>2, <1>4, <2>1, <2>2, <2>3 DEF PlacedAtZero, rec
  <1>6. CASE ~(rec > Contiguous)
    <2>1. Put(p) = head /\ Padding(p) = 0
      BY <1>6 DEF Put, Padding, rec
    <2>2. rec <= capacity - used
      BY <1>3 DEF Fits, rec
    <2>3. head + rec <= capacity
      BY <1>1, <1>2, <1>4, <1>6
    <2>4. IF tail + used < capacity THEN head = tail + used
                                    ELSE head = tail + used - capacity /\ head < tail
      BY <1>1, <1>2, <2>2
    <2>5. used + 0 + rec <= capacity
      BY <1>1, <1>2, <2>2
    <2> QED
      BY <1>1, <1>2, <2>1, <2>3, <2>4, <2>5 DEF PlacedBehind, rec
  <1> QED
    BY <1>5, <1>6

\* The bytes between the tail and tail + used_bytes are not written.
LEMMA WritesFreeBytes ==
  ASSUME IInv, initialized, NEW p \in Packet, ValidFrame(p), Fits(p),
         NEW o \in 0 .. capacity - 1,
         (IF o < tail THEN o + capacity ELSE o) < tail + used
  PROVE  Written(p)[o] = mem[o]
  <1>1. /\ capacity \in Nat /\ tail \in Nat /\ used \in Nat /\ used <= capacity
        /\ tail < capacity /\ o \in Nat /\ o < capacity
    BY Geometry
  <1>2. DOMAIN mem = 0 .. capacity - 1
    BY DEF IInv, TypeOK
  <1>3. /\ o # Put(p)
        /\ ~(Put(p) < o /\ o < Put(p) + RecordSize(p))
        /\ ~(head <= o /\ o < head + Padding(p))
    <2>1. CASE PlacedBehind(p)
      BY <1>1, <2>1, Placement DEF PlacedBehind
    <2>2. CASE PlacedAtZero(p)
      BY <1>1, <2>2, Placement DEF PlacedAtZero
    <2> QED
      BY <2>1, <2>2, Placement
  <1> QED
    BY <1>2, <1>3 DEF Written

LEMMA PushOkStep ==
  ASSUME IInv, NEW p \in Packet, PushOk(p)
  PROVE  IInv'
  <1>0. PICK N \in Nat : N = pushed + 1
    BY DEF IInv, TypeOK
  <1> DEFINE rec == RecordSize(p)
             at == Put(p)
             u == used + Padding(p) + rec
             start == IF at < tail THEN at + capacity ELSE at
             \* Joined(a, b) in the next state.
             Linked(a, b) == \/ a = b
                             \/ /\ a < capacity /\ b = capacity
                                /\ capacity - a < HeaderSize \/ mem'[a] = Zero
  <1>1. /\ initialized /\ ValidFrame(p) /\ Fits(p)
        /\ mem' = Written(p) /\ head' = Wrap(at + rec) /\ used' = u
        /\ watermark' = IF u > watermark THEN u ELSE watermark
        /\ pushed' = N
        /\ live' = [n \in First .. N |-> IF n = N THEN [at |-> at, packet |-> p] ELSE live[n]]
        /\ UNCHANGED <<setup, tail, popped, dropped, discarded>>
    BY <1>0 DEF PushOk
  <1>2. /\ capacity \in Nat /\ tail \in Nat /\ used \in Nat /\ used <= capacity
        /\ tail < capacity /\ pushed \in Nat /\ First \in Nat /\ First <= N
    BY <1>0, <1>1, Geometry
  <1>3. /\ head \in Nat /\ rec \in Nat /\ rec > HeaderSize /\ at \in Nat /\ u \in Nat
        /\ u <= capacity /\ Padding(p) \in Nat
        /\ PlacedBehind(p) \/ PlacedAtZero(p)
    BY <1>1, <1>2, Placement
  <1>4. /\ at + rec <= capacity
        /\ start \in Nat /\ start + rec = tail + u
        /\ \/ start = tail + used
           \/ /\ start = capacity /\ tail + used < capacity
              /\ head = tail + used /\ Padding(p) = capacity - head /\ at = 0 /\ rec <= head
    <2>1. CASE PlacedBehind(p)
      BY <1>2, <1>3, <2>1 DEF PlacedBehind
    <2>2. CASE PlacedAtZero(p)
      BY <1>2, <1>3, <2>2 DEF PlacedAtZero
    <2> QED
      BY <1>3, <2>1, <2>2
  <1>5. First' = First /\ Held' = First .. N /\ Held' = Held \cup {N} /\ N \notin Held
    <2>1. First' = First /\ Held' = First .. N
      BY <1>1 DEF First, Held
    <2>2. First .. N = (First .. pushed) \cup {N} /\ N \notin First .. pushed
      BY <1>0, <1>2
    <2> QED
      BY <2>1, <2>2 DEF Held
  <1> HIDE DEF Linked, at, u, start, rec
  <1>6. /\ live'[N] = [at |-> at, packet |-> p]
        /\ \A n \in Held : live'[n] = live[n]
    <2>1. N \in First .. N /\ \A n \in Held : n \in First .. N /\ n # N
      BY <1>5
    <2> QED
      BY <1>1, <2>1
  <1>7. /\ Start(N)' = start /\ End(N)' = start + rec
        /\ \A n \in Held : Start(n)' = Start(n) /\ End(n)' = End(n)
    <2>1. tail' = tail /\ capacity' = capacity
      BY <1>1 DEF setup
    <2>2. live'[N].at = at /\ live'[N].packet = p
      BY <1>6
    <2>3. Start(N)' = start /\ End(N)' = start + rec
      BY <2>1, <2>2 DEF Start, End, start, rec
    <2>4. ASSUME NEW n \in Held PROVE Start(n)' = Start(n) /\ End(n)' = End(n)
      BY <1>6, <2>1 DEF Start, End
    <2> QED
      BY <2>3, <2>4
  <1>8. mem' \in [0 .. capacity - 1 -> Cells]
    <2>1. mem \in [0 .. capacity - 1 -> Cells]
      BY DEF IInv, TypeOK
    <2>2. HeaderCell(p) \in Cells /\ BodyCell(p) \in Cells /\ Zero \in Cells
      BY DEF HeaderCell, BodyCell, Zero, Cells
    <2> QED
      BY <1>1, <2>1, <2>2 DEF Written
  <1>9. ASSUME NEW o \in 0 .. capacity - 1,
               (IF o < tail THEN o + capacity ELSE o) < tail + used
        PROVE  mem'[o] = mem[o]
    BY <1>1, <1>9, WritesFreeBytes
  <1>10. TypeOK'
    <2>1. live' \in [Held' -> [at : Nat, packet : Packet]]
      <3>1. live \in [Held -> [at : Nat, packet : Packet]]
        BY DEF IInv, TypeOK
      <3> QED
        BY <1>1, <1>3, <1>5, <1>6, <3>1
    <2>2. reply' \in Replies
      BY DEF PushOk, Answer, Replies, Calls, Codes
    <2>3. head' \in Nat /\ watermark' \in Nat /\ pushed' \in Nat /\ used' \in Nat
      BY <1>1, <1>2, <1>3 DEF Wrap, IInv, TypeOK
    <2> QED
      BY <1>1, <1>8, <2>1, <2>2, <2>3 DEF IInv, TypeOK, Replies, setup
  <1>11. RecordsIntact'
    <2>1. ASSUME NEW n \in Held
          PROVE  LET q == live[n].packet  a == live[n].at IN
                   /\ ValidFrame(q)
                   /\ a + RecordSize(q) <= capacity
                   /\ mem'[a] = HeaderCell(q)
                   /\ \A i \in a + 1 .. a + RecordSize(q) - 1 : mem'[i] = BodyCell(q)
      <3> DEFINE q == live[n].packet
                 a == live[n].at
      <3>1. /\ ValidFrame(q) /\ a + RecordSize(q) <= capacity /\ mem[a] = HeaderCell(q)
            /\ \A i \in a + 1 .. a + RecordSize(q) - 1 : mem[i] = BodyCell(q)
        BY DEF IInv, RecordsIntact
      <3>2. /\ a \in Nat /\ RecordSize(q) \in Nat /\ RecordSize(q) > HeaderSize
            /\ (IF a < tail THEN a + capacity ELSE a) + RecordSize(q) <= tail + used
        BY Geometry DEF Start
      <3> HIDE DEF a, q
      <3>3. ASSUME NEW i \in a .. a + RecordSize(q) - 1 PROVE mem'[i] = mem[i]
        <4>1. i \in 0 .. capacity - 1
          BY <1>2, <3>1, <3>2
        <4>2. (IF i < tail THEN i + capacity ELSE i) < tail + used
          BY <1>2, <3>1, <3>2
        <4> QED
          BY <1>9, <4>1, <4>2
      <3>4. mem'[a] = mem[a]
        BY <3>2, <3>3
      <3>5. \A i \in a + 1 .. a + RecordSize(q) - 1 : mem'[i] = mem[i]
        BY <3>2, <3>3
      <3> QED
        BY <3>1, <3>4, <3>5 DEF a, q
    <2>2. /\ mem'[at] = HeaderCell(p)
          /\ \A i \in at + 1 .. at + rec - 1 : mem'[i] = BodyCell(p)
      <3>1. DOMAIN mem = 0 .. capacity - 1
        BY DEF IInv, TypeOK
      <3>2. at \in DOMAIN mem /\ \A i \in at + 1 .. at + rec - 1 :
                                    i \in DOMAIN mem /\ i # at /\ at < i /\ i < at + rec
        BY <1>2, <1>3, <1>4, <3>1
      <3> QED
        BY <1>1, <3>2 DEF Written, at, rec
    <2>3. ASSUME NEW n \in Held'
          PROVE  LET q == live'[n].packet  a == live'[n].at IN
                   /\ ValidFrame(q)
                   /\ a + RecordSize(q) <= capacity
                   /\ mem'[a] = HeaderCell(q)
                   /\ \A i \in a + 1 .. a + RecordSize(q) - 1 : mem'[i] = BodyCell(q)
      <3>1. CASE n = N
        <4>1. live'[n].packet = p /\ live'[n].at = at
          BY <1>6, <3>1
        <4> QED
          BY <1>1, <1>4, <2>2, <4>1 DEF rec
      <3>2. CASE n \in Held
        <4>1. live'[n] = live[n]
          BY <1>6, <3>2
        <4> QED
          BY <2>1, <3>2, <4>1
      <3> QED
        BY <1>5, <3>1, <3>2
    <2> QED
      BY <1>1, <2>3 DEF RecordsIntact, setup
  <1>12. RecordsChained'
    <2>1. \A n \in Held : End(n) <= tail + used /\ n \in Nat /\ n <= pushed
                          /\ Start(n) \in Nat /\ End(n) \in Nat /\ End(n) >= tail
      BY <1>2, Geometry
    <2>2. ASSUME NEW a \in Nat, NEW b \in Nat, Joined(a, b), a >= tail, b < tail + used
          PROVE  Linked(a, b)
      <3>1. CASE a = b
        BY <3>1 DEF Linked
      <3>2. CASE a # b
        <4>1. a < capacity /\ b = capacity /\ (capacity - a < HeaderSize \/ mem[a] = Zero)
          BY <2>2, <3>2 DEF Joined
        <4>2. mem'[a] = mem[a]
          BY <1>2, <1>9, <2>2, <4>1
        <4> QED
          BY <4>1, <4>2 DEF Linked
      <3> QED
        BY <3>1, <3>2
    <2>3. Linked(tail + used, start)
      <3>1. CASE start = tail + used
        BY <3>1 DEF Linked
      <3>2. CASE start # tail + used
        <4>1. /\ start = capacity /\ tail + used < capacity /\ tail + used = head
              /\ Padding(p) = capacity - head /\ at = 0 /\ rec <= head
          BY <1>4, <3>2
        <4>2. DOMAIN mem = 0 .. capacity - 1 /\ head \in 0 .. capacity - 1
          BY <1>2, <1>3, <4>1 DEF IInv, TypeOK
        <4>3. mem'[head] = Zero
          BY <1>1, <1>2, <1>3, <4>1, <4>2 DEF Written, at, rec
        <4> QED
          BY <4>1, <4>3 DEF Linked
      <3> QED
        BY <3>1, <3>2
    <2>4. ASSUME NEW m \in Held', NEW n \in Held', m < n PROVE End(m)' <= Start(n)'
      <3>1. m \in Held
        BY <1>0, <1>2, <1>5, <2>1, <2>4
      <3>2. CASE n \in Held
        BY <1>7, <2>4, <3>1, <3>2 DEF IInv, RecordsChained
      <3>3. CASE n = N
        <4>1. End(m)' <= tail + used /\ Start(n)' = start
          BY <1>7, <2>1, <3>1, <3>3
        <4> QED
          BY <1>2, <1>4, <1>7, <2>1, <3>1, <4>1
      <3> QED
        BY <1>5, <3>2, <3>3
    <2>5. ASSUME NEW m \in Held', m + 1 \in Held' PROVE Joined(End(m), Start(m + 1))'
      <3>1. m \in Held /\ m \in Nat
        <4>1. m \in First .. N /\ m + 1 \in First .. N /\ m \in Nat
          BY <1>2, <1>5, <2>5
        <4> QED
          BY <1>0, <1>2, <4>1 DEF Held
      <3>2. Linked(End(m)', Start(m + 1)')
        <4>1. CASE m + 1 \in Held
          <5>1. Joined(End(m), Start(m + 1))
            BY <3>1, <4>1 DEF IInv, RecordsChained
          <5>2. Start(m + 1) < End(m + 1) /\ End(m + 1) <= tail + used
            BY <4>1, Geometry
          <5>3. Start(m + 1) < tail + used
            BY <1>2, <2>1, <4>1, <5>2
          <5> QED
            BY <1>7, <2>1, <2>2, <3>1, <4>1, <5>1, <5>3
        <4>2. CASE m + 1 = N
          <5>1. m = pushed
            BY <1>0, <1>2, <3>1, <4>2
          <5>2. End(m) = tail + used
            BY <3>1, <5>1 DEF IInv, RecordsChained
          <5> QED
            BY <1>7, <2>3, <3>1, <4>2, <5>2
        <4> QED
          BY <1>5, <2>5, <4>1, <4>2
      <3> QED
        BY <1>1, <3>2 DEF Joined, Linked, setup
    <2>6. ASSUME First' \in Held' PROVE Joined(tail, Start(First))'
      <3>1. ASSUME NEW f, f = First PROVE Linked(tail, Start(f)')
        <4>1. CASE f \in Held
          <5>1. Joined(tail, Start(f))
            BY <3>1, <4>1 DEF IInv, RecordsChained
          <5>2. Start(f) < End(f) /\ End(f) <= tail + used
            BY <4>1, Geometry
          <5>3. Start(f) < tail + used
            BY <1>2, <2>1, <4>1, <5>2
          <5> QED
            BY <1>2, <1>7, <2>1, <2>2, <4>1, <5>1, <5>3
        <4>2. CASE f = N
          <5>1. Held = {} /\ used = 0
            <6>1. Held = {}
              BY <1>0, <1>2, <3>1, <4>2 DEF Held
            <6> QED
              BY <6>1 DEF IInv, RecordsChained
          <5>2. Linked(tail, start)
            BY <1>2, <2>3, <5>1
          <5> QED
            BY <1>7, <4>2, <5>2
        <4> QED
          BY <1>5, <2>6, <3>1, <4>1, <4>2
      <3>2. Linked(tail, Start(First)')
        BY <1>5, <3>1 DEF Start
      <3> QED
        BY <1>1, <3>2 DEF Joined, Linked, setup
    <2>7. End(pushed)' = tail' + used'
      <3>1. End(N)' = tail' + used'
        BY <1>1, <1>4, <1>7
      <3> QED
        BY <1>1, <3>1 DEF End, Start
    <2>8. Held' # {}
      BY <1>5
    <2> QED
      BY <2>4, <2>5, <2>6, <2>7, <2>8 DEF RecordsChained
  <1>13. RingConsistent'
    <2>1. head' = IF tail + u >= capacity THEN tail + u - capacity ELSE tail + u
      <3>1. CASE PlacedBehind(p)
        <4>1. /\ at = head /\ u = used + rec /\ head + rec <= capacity
              /\ IF tail + used < capacity THEN head = tail + used
                 ELSE head = tail + used - capacity /\ head < tail
          BY <1>2, <1>3, <3>1 DEF PlacedBehind, at, u, rec
        <4>2. head' = IF head + rec >= capacity THEN 0 ELSE head + rec
          BY <1>1, <4>1 DEF Wrap
        <4>3. CASE tail + used < capacity
          <5>1. tail + u = head + rec
            BY <1>2, <1>3, <4>1, <4>3
          <5>2. CASE head + rec >= capacity
            <6>1. head + rec = capacity /\ head' = 0
              BY <1>2, <1>3, <4>1, <4>2, <5>2
            <6> QED
              BY <1>2, <1>3, <5>1, <6>1
          <5>3. CASE ~(head + rec >= capacity)
            BY <4>2, <5>1, <5>3
          <5> QED
            BY <5>2, <5>3
        <4>4. CASE ~(tail + used < capacity)
          <5>0. head = tail + used - capacity
            BY <1>2, <1>3, <4>1, <4>4
          <5>4. u <= capacity /\ u = used + rec
            <6>1. u <= capacity
              BY <1>3
            <6>2. u = used + rec
              BY <4>1
            <6> QED
              BY <6>1, <6>2
          <5>5. head + rec = tail + u - capacity
            BY <1>2, <1>3, <5>0, <5>4
          <5>6. head + rec < capacity
            BY <1>2, <1>3, <5>4, <5>5
          <5>1. head + rec = tail + u - capacity /\ head + rec < capacity
            BY <5>5, <5>6
          <5>2. head' = head + rec
            BY <1>2, <1>3, <4>2, <5>1
          <5>3. tail + u >= capacity
            BY <1>2, <1>3, <5>0, <5>1
          <5> QED
            BY <5>1, <5>2, <5>3
        <4> QED
          BY <4>3, <4>4
      <3>2. CASE PlacedAtZero(p)
        <4>1. at = 0 /\ rec <= tail /\ u = used + (capacity - head) + rec /\ head = tail + used
          BY <3>2 DEF PlacedAtZero, at, u, rec
        <4>2. tail + u = capacity + rec /\ rec < capacity
          BY <1>2, <1>3, <4>1
        <4>3. head' = rec
          BY <1>1, <1>2, <1>3, <4>1, <4>2 DEF Wrap
        <4> QED
          BY <1>2, <1>3, <4>2, <4>3
      <3> QED
        BY <1>3, <3>1, <3>2
    <2>2. watermark \in Nat /\ watermark <= capacity /\ capacity > HeaderSize
          /\ popped \in Nat /\ discarded \in Nat /\ popped + discarded <= pushed
      BY <1>1 DEF IInv, RingConsistent, TypeOK
    <2>3. PICK w \in Nat : watermark' = w /\ u <= w /\ w <= capacity
      <3>1. CASE u > watermark
        <4>1. watermark' = u /\ u \in Nat /\ u <= capacity
          <5>1. watermark' = u
            BY <1>1, <3>1
          <5>2. u \in Nat /\ u <= capacity
            BY <1>3
          <5> QED
            BY <5>1, <5>2
        <4>2. u <= u
          BY <4>1
        <4> QED
          BY <4>1, <4>2
      <3>2. CASE ~(u > watermark)
        BY <1>1, <1>2, <1>3, <2>2, <3>2
      <3> QED
        BY <3>1, <3>2
    <2>4. popped + discarded <= N
      BY <1>0, <1>2, <2>2
    <2> QED
      BY <1>1, <1>2, <2>1, <2>2, <2>3, <2>4 DEF RingConsistent, setup
  <1> QED
    BY <1>10, <1>11, <1>12, <1>13 DEF IInv

----------------------------------------------------------------------------
\* Every call preserves the invariant, so every reachable state satisfies it.

THEOREM Invariant == Spec => []IInv
  <1>1. IInv /\ [Next]_vars => IInv'
    <2> SUFFICES ASSUME IInv, [Next]_vars PROVE IInv'
      OBVIOUS
    <2>1. CASE UNCHANGED vars
      BY <2>1, ReplyOnly DEF vars, counters, Replies, IInv, TypeOK
    <2>2. ASSUME NEW r \in Requests, InitOk(r) PROVE IInv'
      BY <2>2, InitOkStep
    <2>3. CASE Deinit
      BY <2>3, DeinitStep
    <2>4. ASSUME NEW p \in Packet, PushOk(p) PROVE IInv'
      BY <2>4, PushOkStep
    <2>5. CASE PopNothing
      BY <2>5, PopNothingStep
    <2>6. ASSUME NEW room \in Rooms, PopShort(room) PROVE IInv'
      BY <2>6, PopShortStep
    <2>7. ASSUME NEW room \in Rooms, PopOk(room) PROVE IInv'
      BY <2>7, PopOkStep
    <2>8. CASE Flush
      BY <2>8, FlushStep
    <2>9. CASE \/ \E r \in Requests : InitFails(r)
               \/ \E p \in Packet : PushDropped(p) \/ PushRefused(p)
               \/ \E call \in {"pop", "flush"} : NotOpen(call)
      BY <2>9, RefusedCalls
    <2> QED
      BY <2>1, <2>2, <2>3, <2>4, <2>5, <2>6, <2>7, <2>8, <2>9 DEF Next
  <1> QED
    BY <1>1, InitEstablishes, PTL DEF Spec

\* The state keeps its types: in particular no offset or count goes below zero.
THEOREM TypeCorrect == Spec => []TypeOK
  <1>1. IInv => TypeOK
    BY DEF IInv
  <1> QED
    BY <1>1, Invariant, PTL

\* No push overwrites a byte of a packet the buffer still holds.
THEOREM NothingOverwritten == Spec => []RecordsIntact
  <1>1. IInv => RecordsIntact
    BY DEF IInv
  <1> QED
    BY <1>1, Invariant, PTL

\* used_bytes is the size of the records held and of the pads between them.
THEOREM BytesAccounted == Spec => []RecordsChained
  <1>1. IInv => RecordsChained
    BY DEF IInv
  <1> QED
    BY <1>1, Invariant, PTL

\* head, tail and used_bytes agree, inside storage and under the high watermark.
THEOREM OffsetsAgree == Spec => []RingConsistent
  <1>1. IInv => RingConsistent
    BY DEF IInv
  <1> QED
    BY <1>1, Invariant, PTL

\* The corruption guards of compact_tail and pop are dead code, and the loop of
\* compact_tail ends after one round, for a buffer one task uses at a time.
THEOREM GuardsNeverFire == Spec => []NeverCorrupt
  <1>1. IInv => NeverCorrupt
    <2> SUFFICES ASSUME IInv, initialized, CompactUsed > 0
                 PROVE  ~PadAt(CompactTail) /\ ~Corrupt(CompactTail, CompactUsed)
      BY DEF NeverCorrupt
    <2>1. used # 0
      BY NothingUsed
    <2> QED
      BY <2>1, SomethingUsed DEF OldestAtTail
  <1> QED
    BY <1>1, Invariant, PTL

\* A push into an empty buffer is dropped only if the record takes more than
\* half of the capacity.
THEOREM EmptyBufferTakesHalf == Spec => EmptyTakesHalf
  <1>1. IInv /\ [Next]_vars => [AdmittedWhenEmpty]_vars
    <2> SUFFICES ASSUME IInv, Next, NEW p \in Packet, initialized, Held = {},
                        reply' = [call |-> "push", code |-> "NO_MEM", packet |-> p]
                 PROVE  2 * RecordSize(p) > capacity
      BY DEF AdmittedWhenEmpty
    <2>1. ~Fits(p)
      <3>1. PICK q \in Packet : PushDropped(q)
        BY DEF Next, InitOk, InitFails, Deinit, PushOk, PushRefused, PopNothing,
               PopShort, PopOk, Flush, NotOpen, Answer
      <3>2. q = p
        BY <3>1 DEF PushDropped, Answer
      <3> QED
        BY <3>1, <3>2 DEF PushDropped
    <2>2. /\ capacity \in Nat /\ tail \in Nat /\ tail < capacity /\ used = 0
          /\ head = tail
      BY Geometry DEF IInv, RecordsChained, RingConsistent
    <2>3. Free = capacity /\ Contiguous = capacity - tail
      BY <2>2 DEF Free, Contiguous, Minus
    <2> QED
      BY <2>1, <2>2, <2>3, RecordSizeFacts DEF Fits
  <1> QED
    BY <1>1, Invariant, PTL DEF Spec, EmptyTakesHalf

----------------------------------------------------------------------------
(***************************************************************************)
(* The byte ring implements the queue of packets.                          *)
(***************************************************************************)
QueueWellFormed ==
  /\ queue \in Seq(Packet)
  /\ Len(queue) = pushed - popped - discarded /\ Len(queue) \in Nat
  /\ \A i \in 1 .. Len(queue) :
       /\ popped + discarded + i \in Held
       /\ queue[i] = live[popped + discarded + i].packet
  /\ queue = << >> <=> Held = {}

LEMMA QueueIsSeq == IInv => QueueWellFormed
  <1> SUFFICES ASSUME IInv PROVE QueueWellFormed
    OBVIOUS
  <1> DEFINE k == pushed - popped - discarded
  <1>1. k \in Nat /\ popped \in Nat /\ discarded \in Nat /\ pushed \in Nat
    BY DEF IInv, TypeOK, RingConsistent
  <1>2. ASSUME NEW i \in 1 .. k PROVE popped + discarded + i \in Held
    BY <1>1 DEF Held, First
  <1>3. ASSUME NEW i \in 1 .. k PROVE live[popped + discarded + i].packet \in Packet
    BY <1>2, Geometry
  <1>4. queue \in [1 .. k -> Packet]
    BY <1>3 DEF queue
  <1>5. queue \in Seq(Packet)
    BY <1>1, <1>4, SeqDef
  <1>6. Len(queue) = k
    <2>1. DOMAIN queue = 1 .. k /\ DOMAIN queue = 1 .. Len(queue) /\ Len(queue) \in Nat
      BY <1>4, <1>5, LenProperties
    <2> QED
      BY <1>1, <2>1, SMTT(30)
  <1>7. queue = << >> <=> Held = {}
    <2>1. queue = << >> <=> k = 0
      BY <1>1, <1>5, <1>6, EmptySeq
    <2>2. Held = {} <=> k = 0
      BY <1>1 DEF Held, First
    <2> QED
      BY <2>1, <2>2
  <1> QED
    BY <1>1, <1>2, <1>5, <1>6, <1>7 DEF queue, QueueWellFormed

LEMMA QueueUnchanged ==
  ASSUME UNCHANGED <<live, popped, pushed, discarded>>
  PROVE  queue' = queue
BY DEF queue

LEMMA NextQueueIsSeq == IInv' => QueueWellFormed'
BY QueueIsSeq, PTL

LEMMA QueueEmptied ==
  ASSUME IInv', Held' = {}
  PROVE  queue' = << >>
BY NextQueueIsSeq DEF QueueWellFormed

LEMMA PushAppends ==
  ASSUME IInv, IInv', NEW p \in Packet, PushOk(p)
  PROVE  queue' = Append(queue, p)
  <1>1. PICK k \in Nat : k = pushed - popped - discarded
    BY DEF IInv, TypeOK, RingConsistent
  <1>2. PICK base \in Nat : base = popped + discarded
    BY DEF IInv, TypeOK
  <1>3. /\ pushed \in Nat /\ pushed = base + k /\ pushed' = pushed + 1
        /\ popped' = popped /\ discarded' = discarded /\ First = base + 1
        /\ popped \in Nat /\ discarded \in Nat
    BY <1>1, <1>2 DEF PushOk, IInv, TypeOK, First
  <1>4. PICK q : q = queue'
    OBVIOUS
  <1>5. /\ q \in Seq(Packet) /\ Len(q) = k + 1
        /\ \A i \in 1 .. k + 1 : q[i] = live'[base + i].packet
    <2>1. queue' \in Seq(Packet) /\ Len(queue') = pushed' - popped' - discarded'
          /\ \A i \in 1 .. Len(queue') : queue'[i] = live'[popped' + discarded' + i].packet
      BY NextQueueIsSeq DEF QueueWellFormed
    <2>2. popped' + discarded' = base /\ pushed' - popped' - discarded' = k + 1
      <3>1. popped + discarded = base /\ (pushed + 1) - popped - discarded = k + 1
        BY <1>1, <1>2, <1>3
      <3> QED
        BY <1>3, <3>1
    <2> QED
      BY <1>4, <2>1, <2>2
  <1>6. /\ queue \in Seq(Packet) /\ Len(queue) = k
        /\ \A i \in 1 .. k : queue[i] = live[base + i].packet
    BY <1>1, <1>2, QueueIsSeq DEF QueueWellFormed
  <1>7. /\ Append(queue, p) \in Seq(Packet) /\ Len(Append(queue, p)) = k + 1
        /\ \A i \in 1 .. k : Append(queue, p)[i] = queue[i]
        /\ Append(queue, p)[k + 1] = p
    BY <1>6, AppendProperties
  <1>8. ASSUME NEW i \in 1 .. k + 1 PROVE q[i] = Append(queue, p)[i]
    <2>1. q[i] = live'[base + i].packet
      BY <1>5
    <2>2. base + i \in First .. pushed + 1 /\ (base + i = pushed + 1 <=> i = k + 1)
      BY <1>3
    <2>3. live'[base + i] = IF base + i = pushed + 1 THEN [at |-> Put(p), packet |-> p]
                                                     ELSE live[base + i]
      BY <2>2 DEF PushOk
    <2>4. CASE i = k + 1
      BY <1>7, <2>1, <2>2, <2>3, <2>4
    <2>5. CASE i # k + 1
      <3>1. i \in 1 .. k
        BY <2>5
      <3> QED
        BY <1>6, <1>7, <2>1, <2>2, <2>3, <2>5, <3>1
    <2> QED
      BY <2>4, <2>5
  <1> QED
    BY <1>4, <1>5, <1>7, <1>8, SeqEqual

LEMMA PopTakesHead ==
  ASSUME IInv, IInv', NEW room \in Rooms, PopOk(room)
  PROVE  /\ queue # << >> /\ queue' = Tail(queue)
         /\ Delivered(CompactTail) = Head(queue)
  <1>1. initialized /\ used # 0
    BY NothingUsed DEF PopOk, Found
  <1>2. OldestAtTail
    BY <1>1, SomethingUsed
  <1>3. First \in Held
    BY <1>2 DEF OldestAtTail
  <1>4. queue # << >>
    BY <1>3, QueueIsSeq DEF QueueWellFormed
  <1>5. PICK base \in Nat : base = popped + discarded
    BY DEF IInv, TypeOK
  <1>6. PICK k \in Nat : k = pushed - popped - discarded
    BY DEF IInv, TypeOK, RingConsistent
  <1>7. /\ pushed \in Nat /\ pushed = base + k /\ pushed' = pushed /\ First = base + 1
        /\ popped' = popped + 1 /\ discarded' = discarded
        /\ popped \in Nat /\ discarded \in Nat
    BY <1>5, <1>6 DEF PopOk, IInv, TypeOK, First
  <1>8. k >= 1
    BY <1>3, <1>7 DEF Held
  <1>9. /\ queue \in Seq(Packet) /\ Len(queue) = k
        /\ \A i \in 1 .. k : queue[i] = live[base + i].packet
    BY <1>5, <1>6, QueueIsSeq DEF QueueWellFormed
  <1>10. PICK q : q = queue'
    OBVIOUS
  <1>11. /\ q \in Seq(Packet) /\ Len(q) = k - 1
         /\ \A i \in 1 .. k - 1 : q[i] = live'[base + 1 + i].packet
    <2>1. queue' \in Seq(Packet) /\ Len(queue') = pushed' - popped' - discarded'
          /\ \A i \in 1 .. Len(queue') : queue'[i] = live'[popped' + discarded' + i].packet
      BY NextQueueIsSeq DEF QueueWellFormed
    <2>2. popped' + discarded' = base + 1 /\ pushed' - popped' - discarded' = k - 1
      <3>1. (popped + 1) + discarded = base + 1 /\ pushed - (popped + 1) - discarded = k - 1
        BY <1>5, <1>6, <1>7
      <3> QED
        BY <1>7, <3>1
    <2> QED
      BY <1>10, <2>1, <2>2
  <1>12. /\ Tail(queue) \in Seq(Packet) /\ Len(Tail(queue)) = k - 1
         /\ \A i \in 1 .. k - 1 : Tail(queue)[i] = queue[i + 1]
    BY <1>4, <1>9, HeadTailProperties
  <1>13. ASSUME NEW i \in 1 .. k - 1 PROVE q[i] = Tail(queue)[i]
    <2>1. base + 1 + i \in First + 1 .. pushed /\ base + (i + 1) = base + 1 + i
          /\ i + 1 \in 1 .. k
      BY <1>7, <1>8
    <2>2. live'[base + 1 + i] = live[base + 1 + i]
      BY <2>1 DEF PopOk
    <2>3. queue[i + 1] = live[base + 1 + i].packet
      BY <1>9, <2>1
    <2>4. q[i] = live[base + 1 + i].packet
      BY <1>11, <2>2
    <2> QED
      BY <1>12, <2>3, <2>4
  <1>14. queue' = Tail(queue)
    BY <1>10, <1>11, <1>12, <1>13, SeqEqual
  <1>15. Delivered(CompactTail) = Head(queue)
    <2> DEFINE p == live[First].packet
    <2>1. Head(queue) = p
      BY <1>4, <1>7, <1>8, <1>9
    <2>2. /\ mem[CompactTail] = HeaderCell(p)
          /\ \A i \in CompactTail + 1 .. CompactTail + RecordSize(p) - 1 : mem[i] = BodyCell(p)
      BY <1>2, <1>3 DEF OldestAtTail, IInv, RecordsIntact
    <2>3. HeaderSize + HeaderAt(CompactTail).length = RecordSize(p)
      BY <1>2 DEF OldestAtTail, RecordSize
    <2>4. mem[CompactTail].packet = p
      BY <2>2 DEF HeaderCell
    <2> HIDE DEF p
    <2> QED
      BY <2>1, <2>2, <2>3, <2>4 DEF Delivered
  <1> QED
    BY <1>4, <1>14, <1>15

LEMMA ShortPopNamesHead ==
  ASSUME IInv, NEW room \in Rooms, PopShort(room)
  PROVE  queue # << >> /\ mem[CompactTail].packet = Head(queue)
  <1>1. initialized /\ used # 0
    BY NothingUsed DEF PopShort, Found
  <1>2. OldestAtTail
    BY <1>1, SomethingUsed
  <1>3. queue # << >>
    BY <1>2, QueueIsSeq DEF OldestAtTail, QueueWellFormed
  <1>4. Head(queue) = live[First].packet
    <2>1. Len(queue) >= 1 /\ queue \in Seq(Packet) /\ Len(queue) \in Nat
      BY <1>3, EmptySeq, QueueIsSeq DEF QueueWellFormed
    <2>2. queue[1] = live[popped + discarded + 1].packet
      BY <2>1, QueueIsSeq DEF QueueWellFormed
    <2> QED
      BY <1>3, <2>1, <2>2 DEF First
  <1>5. mem[CompactTail].packet = live[First].packet
    BY <1>2 DEF OldestAtTail, HeaderCell
  <1> QED
    BY <1>3, <1>4, <1>5

\* Every call on the byte ring is a call on the queue: what pop delivers is the
\* oldest packet accepted and not yet delivered or flushed, byte for byte.
THEOREM ImplementsQueue == Spec => QueueSpec
  <1> USE DEF Queue!Reply, Queue!vars
  <1>1. Init => Queue!Init
    <2> SUFFICES ASSUME Init PROVE Queue!Init
      OBVIOUS
    <2>1. queue = << >>
      <3>1. Held = {}
        BY DEF Init, Held, First
      <3> QED
        BY <3>1, InitEstablishes, QueueIsSeq DEF QueueWellFormed
    <2> QED
      BY <2>1 DEF Init, Queue!Init
  <1>2. IInv /\ IInv' /\ [Next]_vars => [Queue!Next]_(Queue!vars)
    <2> SUFFICES ASSUME IInv, IInv', [Next]_vars
                 PROVE  Queue!Next \/ (queue' = queue /\ reply' = reply)
      OBVIOUS
    <2>1. CASE UNCHANGED vars
      BY <2>1, QueueUnchanged DEF vars, counters, history
    <2>2. ASSUME NEW r \in Requests, InitOk(r) PROVE Queue!Clear("init")
      <3>1. Held' = {}
        BY <2>2 DEF InitOk, Held, First
      <3> QED
        BY <2>2, <3>1, QueueEmptied DEF InitOk, Answer, Queue!Clear
    <2>3. CASE Deinit
      <3>1. Held' = {}
        BY <2>3 DEF Deinit, Held, First, history, counters, IInv, RingConsistent
      <3> QED
        BY <2>3, <3>1, QueueEmptied DEF Deinit, Answer, Queue!Clear, Queue!Next
    <2>4. ASSUME NEW p \in Packet, PushOk(p) PROVE Queue!Accept(p)
      BY <2>4, PushAppends DEF PushOk, Answer, Queue!Accept
    <2>5. ASSUME NEW room \in Rooms, PopOk(room) PROVE Queue!Deliver
      BY <2>5, PopTakesHead DEF PopOk, Answer, Queue!Deliver
    <2>6. CASE Flush
      <3>1. Held' = {}
        BY <2>6 DEF Flush, Held, First, counters, IInv, TypeOK, RingConsistent
      <3> QED
        BY <2>6, <3>1, QueueEmptied DEF Flush, Answer, Queue!Clear, Queue!Next
    <2>7. CASE PopNothing
      <3>1. initialized /\ used = 0
        BY <2>7, SomethingUsed DEF PopNothing, OldestAtTail
      <3>2. Held = {} /\ CompactUsed = 0
        BY <3>1, NothingUsed
      <3>3. queue = << >>
        BY <3>2, QueueIsSeq DEF QueueWellFormed
      <3>4. queue' = queue
        BY <2>7, <3>2, QueueUnchanged DEF PopNothing, counters, history
      <3> QED
        BY <2>7, <3>3, <3>4 DEF PopNothing, Answer, Codes, Queue!Refuse, Queue!Next
    <2>8. ASSUME NEW room \in Rooms, PopShort(room) PROVE Queue!Refuse
      <3>1. queue' = queue
        BY <2>8, QueueUnchanged DEF PopShort, counters, history
      <3>2. Head(queue) \in Packet
        BY <2>8, ShortPopNamesHead, HeadTailProperties, QueueIsSeq DEF QueueWellFormed
      <3> QED
        BY <2>8, <3>1, <3>2, ShortPopNamesHead DEF PopShort, Answer, Codes, Queue!Refuse
    <2>9. ASSUME NEW r \in Requests, InitFails(r) PROVE Queue!Refuse
      BY <2>9, QueueUnchanged DEF InitFails, Answer, Codes, Queue!Refuse, counters, history
    <2>10. ASSUME NEW p \in Packet, PushDropped(p) \/ PushRefused(p) PROVE Queue!Refuse
      BY <2>10, QueueUnchanged
      DEF PushDropped, PushRefused, Answer, Codes, Queue!Refuse, counters, history
    <2>11. ASSUME NEW call \in {"pop", "flush"}, NotOpen(call) PROVE Queue!Refuse
      BY <2>11, QueueUnchanged DEF NotOpen, Answer, Codes, Queue!Refuse, counters, history
    <2> QED
      BY <2>1, <2>2, <2>3, <2>4, <2>5, <2>6, <2>7, <2>8, <2>9, <2>10, <2>11
      DEF Next, Queue!Next
  <1> QED
    BY <1>1, <1>2, Invariant, PTL DEF Spec, QueueSpec, Queue!Spec
=============================================================================
