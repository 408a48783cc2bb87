-------------------------- MODULE PcapWriterProofs --------------------------
(***************************************************************************)
(* What PcapWriter.tla promises for every set of packets, every snaplen    *)
(* and every threshold.  SplitBound is not inductive: a file of two        *)
(* packets may take a third only because the counters the split decision   *)
(* reads describe that very file, so it is carried with CountersMatchFile, *)
(* and with the facts that a file in use holds at least its global header, *)
(* without which the test "bytes_written_current_file > 0" would let a     *)
(* record through, and that records are behind a fragment only where there *)
(* is one.  What a reader finds in the files is a recursive        *)
(* function over their indexes: that it exists, and that it is changed by  *)
(* a record at its end only, follows from the least index where it is not  *)
(* so (Least).                                                             *)
(***************************************************************************)
EXTENDS PcapWriter, SequenceTheorems, WellFoundedInduction, TLAPS

USE PcapConstants

\* A capture has a file, and a file in use its global header.
Started == opened => current_bytes >= GlobalHeader /\ (file \/ split_index > 0)

\* Records are behind a fragment only where there is one.
BehindFragments == \A i \in Series : files[i].broken => files[i].tail > 0

IInv == TypeOK /\ SplitBound /\ CountersMatchFile /\ Started /\ BehindFragments

\* b and n are the bytes and the number of the records acknowledged in file f, its
\* global header included.
Counted(f, b, n) ==
  /\ f.header
  /\ IF f.broken THEN f.whole < b /\ b < SizeOf(f) /\ Len(f.packets) < n
                 ELSE b = f.whole /\ n = Len(f.packets)

(* CountersMatchFile, said with it.                                        *)
LEMMA CountersAre ==
  CountersMatchFile <=>
    (opened => Counted(files[SessionLength - 1], current_bytes, current_packets))
  BY DEF CountersMatchFile, Counted

LEMMA CountersBecome ==
  CountersMatchFile' <=>
    (opened' => Counted(files'[SessionLength' - 1], current_bytes', current_packets'))
  BY DEF CountersMatchFile, Counted, SizeOf

(* The sizes the writer computes for a packet are numbers, and a record    *)
(* takes room.                                                             *)
LEMMA Sizes ==
  ASSUME TypeOK, NEW p \in Packet
  PROVE  Included(p) \in Nat /\ Required(p) \in Nat /\ Required(p) > 0
  BY DEF Included, Required, TypeOK

(* A file as open_split_file leaves it is a file of the model.             *)
LEMMA NewFiles ==
  /\ Fresh \in Contents /\ Absent \in Contents
  /\ \A n \in Nat : Truncated(n) \in Contents /\ ~Truncated(n).broken
  /\ Fresh.header /\ Fresh.whole = GlobalHeader /\ Fresh.packets = << >> /\ Fresh.tail = 0
  /\ ~Fresh.broken /\ ~Absent.broken /\ Len(Fresh.packets) = 0
<1>1. << >> \in Seq(Packet) /\ Len(<< >>) = 0
  OBVIOUS
<1>2. Fresh \in Contents
  BY <1>1 DEF Contents, Fresh
<1>3. ASSUME NEW n \in Nat PROVE Truncated(n) \in Contents /\ ~Truncated(n).broken
  BY <1>1 DEF Contents, Truncated
<1>4. Absent \in Contents /\ ~Absent.broken
  BY <1>3 DEF Absent
<1> QED
  BY <1>1, <1>2, <1>3, <1>4 DEF Fresh

(* A file holds a number of packets.                                        *)
LEMMA Lengths ==
  ASSUME NEW f \in Contents
  PROVE  f.packets \in Seq(Packet) /\ Len(f.packets) \in Nat
  BY DEF Contents

(* The fields of a file.                                                    *)
LEMMA Fields ==
  ASSUME NEW f \in Contents
  PROVE  /\ f.header \in BOOLEAN /\ f.packets \in Seq(Packet) /\ f.whole \in Nat
         /\ f.tail \in Nat /\ f.broken \in BOOLEAN
  BY DEF Contents

(* One more record at the end of a file without a fragment.                 *)
LEMMA OneMore ==
  ASSUME NEW f \in Contents, NEW p \in Packet, NEW r \in Nat, f.tail = 0,
         NEW g, g = WithRecord(f, p, r)
  PROVE  /\ g \in Contents /\ g.header = f.header /\ g.packets = Append(f.packets, p)
         /\ Len(g.packets) = Len(f.packets) + 1 /\ g.whole = f.whole + r
         /\ g.tail = 0 /\ g.broken = f.broken
<1>1. f = [header |-> f.header, packets |-> f.packets, whole |-> f.whole,
           tail |-> f.tail, broken |-> f.broken]
  BY DEF Contents
<1>2. g = [header |-> f.header, packets |-> Append(f.packets, p), whole |-> f.whole + r,
           tail |-> f.tail, broken |-> f.broken]
  BY <1>1, Zenon DEF WithRecord
<1>3. /\ Append(f.packets, p) \in Seq(Packet) /\ f.whole + r \in Nat
      /\ Len(Append(f.packets, p)) = Len(f.packets) + 1
  BY Fields
<1> QED
  BY <1>2, <1>3, Fields DEF Contents

(* Behind a fragment a record takes room, and no reader finds it.           *)
LEMMA OneLost ==
  ASSUME NEW f \in Contents, NEW p \in Packet, NEW r \in Nat, f.tail # 0,
         NEW g, g = WithRecord(f, p, r)
  PROVE  /\ g \in Contents /\ g.header = f.header /\ g.packets = f.packets
         /\ g.whole = f.whole /\ g.tail = f.tail + r /\ g.broken
<1>1. f = [header |-> f.header, packets |-> f.packets, whole |-> f.whole,
           tail |-> f.tail, broken |-> f.broken]
  BY DEF Contents
<1>2. g = [header |-> f.header, packets |-> f.packets, whole |-> f.whole,
           tail |-> f.tail + r, broken |-> TRUE]
  BY <1>1, Zenon DEF WithRecord
<1>3. f.tail + r \in Nat
  BY Fields
<1>4. g \in Contents
  BY <1>2, <1>3, Fields DEF Contents
<1> QED
  BY <1>2, <1>4

(* A fragment changes nothing of what comes before it.                      *)
LEMMA Torn ==
  ASSUME NEW f \in Contents, NEW n \in Nat, NEW g, g = WithFragment(f, n)
  PROVE  /\ g \in Contents /\ g.header = f.header /\ g.packets = f.packets
         /\ g.whole = f.whole /\ g.tail = f.tail + n /\ g.broken = f.broken
<1>0. f = [header |-> f.header, packets |-> f.packets, whole |-> f.whole,
           tail |-> f.tail, broken |-> f.broken]
  BY DEF Contents
<1>1. g = [header |-> f.header, packets |-> f.packets, whole |-> f.whole,
           tail |-> f.tail + n, broken |-> f.broken]
  BY <1>0, Zenon DEF WithFragment
<1>2. f.tail + n \in Nat
  BY Fields
<1> QED
  BY <1>1, <1>2, Fields DEF Contents

(* How much a short write leaves is a number of bytes.                      *)
LEMMA FragmentSizes ==
  ASSUME TypeOK, NEW p \in Packet, NEW f
  PROVE  Fragments(f, p) \subseteq Nat
  BY Sizes DEF Fragments

(* The counters of a file go on describing it when a record is added to     *)
(* both, and when a fragment is added to the file only.                     *)
LEMMA CountedMore ==
  ASSUME NEW f \in Contents, NEW p \in Packet, NEW r \in Nat, r > 0,
         NEW g, g = WithRecord(f, p, r), f.broken => f.tail > 0,
         NEW b \in Nat, NEW n \in Nat, Counted(f, b, n)
  PROVE  Counted(g, b + r, n + 1) /\ g \in Contents /\ (g.broken => g.tail > 0)
<1>1. /\ Len(f.packets) \in Nat /\ f.whole \in Nat /\ f.tail \in Nat
      /\ (f.tail = 0 => ~f.broken) /\ (f.tail # 0 => f.tail > 0)
  BY Fields, Lengths
<1>2. CASE f.tail = 0
  <2>1. /\ Len(g.packets) = Len(f.packets) + 1 /\ g.whole = f.whole + r
        /\ g.broken = f.broken /\ g.header = f.header /\ g \in Contents
    BY <1>2, OneMore
  <2> QED
    BY <1>1, <1>2, <2>1 DEF Counted
<1>3. CASE f.tail # 0
  <2>1. /\ g.broken /\ g.whole = f.whole /\ g.tail = f.tail + r /\ g.packets = f.packets
        /\ g.header = f.header /\ g \in Contents
    BY <1>3, OneLost
  <2> QED
    BY <1>1, <1>3, <2>1 DEF Counted, SizeOf
<1> QED
  BY <1>2, <1>3

LEMMA CountedTorn ==
  ASSUME NEW f \in Contents, NEW k \in Nat, NEW g, g = WithFragment(f, k),
         f.broken => f.tail > 0, NEW b \in Nat, NEW n \in Nat, Counted(f, b, n)
  PROVE  Counted(g, b, n) /\ (g.broken => g.tail > 0)
<1>1. /\ g.broken = f.broken /\ g.whole = f.whole /\ g.tail = f.tail + k
      /\ g.packets = f.packets /\ g.header = f.header
  BY Torn
<1>2. f.tail \in Nat /\ f.whole \in Nat /\ Len(f.packets) \in Nat
  BY Fields, Lengths
<1> QED
  BY <1>1, <1>2 DEF Counted, SizeOf

(* Where a packet goes, the file in use or an empty one after it, and the   *)
(* counters it is added to describe that file.                              *)
CountedBytes(p) == IF NeedsSplit(p) THEN GlobalHeader ELSE current_bytes
CountedPackets(p) == IF NeedsSplit(p) THEN 0 ELSE current_packets

LEMMA Target ==
  ASSUME TypeOK, NEW p \in Packet, WriteTarget(p).index <= MaxSplit
  PROVE  /\ WriteTarget(p).index \in Series
         /\ WriteTarget(p).contents \in Contents
         /\ NeedsSplit(p) => /\ WriteTarget(p).index = split_index + 1
                             /\ WriteTarget(p).contents = Fresh
         /\ ~NeedsSplit(p) => /\ WriteTarget(p).index = split_index
                              /\ WriteTarget(p).contents = files[split_index]
  BY NewFiles DEF WriteTarget, NextIndex, TypeOK, Series

LEMMA TargetCounted ==
  ASSUME IInv, NEW p \in Packet, Ready(p), WriteTarget(p).index <= MaxSplit
  PROVE  /\ Counted(WriteTarget(p).contents, CountedBytes(p), CountedPackets(p))
         /\ CountedBytes(p) \in Nat /\ CountedPackets(p) \in Nat
         /\ CountedBytes(p) >= GlobalHeader
         /\ WriteTarget(p).contents.broken => WriteTarget(p).contents.tail > 0
<1>1. TypeOK /\ opened /\ file /\ split_index \in Series
  BY DEF IInv, Ready, TypeOK
<1>2. CASE NeedsSplit(p)
  <2>1. WriteTarget(p).contents = Fresh
    BY <1>1, <1>2, Target
  <2> QED
    BY <1>2, <2>1, NewFiles DEF Counted, CountedBytes, CountedPackets
<1>3. CASE ~NeedsSplit(p)
  <2>1. WriteTarget(p).contents = files[split_index]
    BY <1>1, <1>3, Target
  <2>2. SessionLength - 1 = split_index
    BY <1>1 DEF SessionLength, Series
  <2>3. Counted(files[split_index], current_bytes, current_packets)
    BY <1>1, <2>2, CountersAre DEF IInv
  <2>4. files[split_index].broken => files[split_index].tail > 0
    BY <1>1 DEF IInv, BehindFragments
  <2> QED
    BY <1>1, <1>3, <2>1, <2>3, <2>4 DEF CountedBytes, CountedPackets, IInv, Started, TypeOK
<1> QED
  BY <1>2, <1>3

(* A write that leaves g at its target keeps the invariant, if g is         *)
(* described by the counters and, as far as a reader gets, within the       *)
(* threshold.                                                               *)
LEMMA Written ==
  ASSUME IInv, NEW p \in Packet, Ready(p), WriteTarget(p).index <= MaxSplit,
         split_index' = WriteTarget(p).index, UNCHANGED <<opened, file, config>>,
         NEW g \in Contents, files' = [files EXCEPT ![WriteTarget(p).index] = g],
         Counted(g, current_bytes', current_packets'), g.broken => g.tail > 0,
         current_bytes' \in Nat, current_packets' \in Nat, current_bytes' >= GlobalHeader,
         total_bytes' \in Nat, total_packets' \in Nat, result' \in Codes,
         split_threshold > 0 /\ Len(g.packets) > 1 => g.whole <= split_threshold
  PROVE  IInv'
<1> DEFINE n == WriteTarget(p).index
<1>1. /\ TypeOK /\ opened = TRUE /\ file = TRUE /\ opened' = TRUE /\ file' = TRUE
      /\ split_threshold' = split_threshold /\ snaplen' = snaplen
  BY DEF IInv, TypeOK, Ready, config
<1>2. n \in Series /\ n \in {split_index, split_index + 1} /\ split_index \in Series
  BY <1>1, Target DEF TypeOK
<1> HIDE DEF n
<1>3. /\ files' \in [Series -> Contents] /\ files'[n] = g
      /\ \A i \in Series : i # n => files'[i] = files[i]
  BY <1>1, <1>2 DEF TypeOK, n
<1>4. TypeOK'
  BY <1>1, <1>2, <1>3 DEF TypeOK, n
<1>5. SplitBound'
  <2> SUFFICES ASSUME split_threshold > 0, NEW i \in Session', Len(files'[i].packets) > 1
               PROVE  files'[i].whole <= split_threshold
    BY <1>1 DEF SplitBound
  <2>1. i \in 0 .. n /\ i \in Series
    BY <1>1, <1>2 DEF Session, SessionLength, Series, n
  <2>2. CASE i = n
    BY <2>2, <1>3
  <2>3. CASE i # n
    <3>1. i \in Session
      BY <2>1, <2>3, <1>1, <1>2 DEF Session, SessionLength, Series
    <3> QED
      BY <3>1, <2>1, <2>3, <1>3 DEF IInv, SplitBound
  <2> QED
    BY <2>2, <2>3
<1>6. CountersMatchFile'
  <2>1. SessionLength' - 1 = n
    BY <1>1, <1>2 DEF SessionLength, Series, n
  <2> QED
    BY <1>3, <2>1, CountersBecome
<1>7. Started' /\ BehindFragments'
  BY <1>1, <1>3 DEF Started, BehindFragments, IInv
<1> QED
  BY <1>4, <1>5, <1>6, <1>7 DEF IInv

(* The initial state satisfies the invariant.                               *)
LEMMA Start == Init => IInv
<1> SUFFICES ASSUME Init PROVE IInv
  OBVIOUS
<1>1. TypeOK
  <2>1. 0 \in Series
    BY DEF Series
  <2>2. files \in [Series -> Contents]
    BY NewFiles DEF Init
  <2> QED
    BY <2>1, <2>2 DEF Init, TypeOK, Codes
<1>2. SplitBound /\ CountersMatchFile /\ Started
  BY DEF Init, SplitBound, CountersMatchFile, Started
<1>3. BehindFragments
  BY NewFiles DEF Init, BehindFragments
<1> QED
  BY <1>1, <1>2, <1>3 DEF IInv

(* A writer that is not open satisfies the invariant, whatever is on the card. *)
LEMMA Reset ==
  ASSUME Zeroed, files' \in [Series -> Contents], BehindFragments',
         result' \in Codes
  PROVE  IInv'
<1>1. TypeOK'
  <2>1. 0 \in Series
    BY DEF Series
  <2> QED
    BY <2>1 DEF Zeroed, TypeOK
<1>2. SplitBound' /\ CountersMatchFile' /\ Started'
  BY DEF Zeroed, SplitBound, CountersMatchFile, Started
<1> QED
  BY <1>1, <1>2 DEF IInv

(* A file that could not be opened is as before, or a part of a header.     *)
LEMMA Spoilt ==
  ASSUME IInv, NEW i \in Series, SplitFails(i)
  PROVE  /\ files' \in [Series -> Contents] /\ BehindFragments'
         /\ \A k \in Series : k # i => files'[k] = files[k]
<1>1. files \in [Series -> Contents] /\ BehindFragments
  BY DEF IInv, TypeOK
<1>2. CASE UNCHANGED files
  BY <1>1, <1>2 DEF BehindFragments
<1>3. ASSUME NEW n \in 0 .. GlobalHeader - 1, files' = [files EXCEPT ![i] = Truncated(n)]
      PROVE  /\ files' \in [Series -> Contents] /\ BehindFragments'
             /\ \A k \in Series : k # i => files'[k] = files[k]
  <2>1. Truncated(n) \in Contents /\ ~Truncated(n).broken
    BY <1>3, NewFiles
  <2> QED
    BY <1>1, <1>3, <2>1 DEF BehindFragments
<1> QED
  BY <1>2, <1>3 DEF SplitFails

(* Opening leaves one file, empty but for its header.                       *)
LEMMA Opens ==
  ASSUME IInv, NEW s \in Snaplens, NEW t \in Thresholds, OpenOk(s, t)
  PROVE  IInv'
<1>1. /\ files' = [files EXCEPT ![0] = Fresh] /\ file' = TRUE /\ opened' = TRUE
      /\ current_bytes' = GlobalHeader /\ current_packets' = 0 /\ split_index' = 0
      /\ snaplen' \in Nat /\ split_threshold' \in Nat /\ total_bytes' = 0 /\ total_packets' = 0
      /\ result' = "OK"
  BY DEF OpenOk, SplitOpens
<1>2. files \in [Series -> Contents] /\ 0 \in Series /\ BehindFragments
  BY DEF IInv, TypeOK, Series
<1>3. files'[0] = Fresh /\ files' \in [Series -> Contents] /\ BehindFragments'
  BY <1>1, <1>2, NewFiles DEF BehindFragments
<1>4. TypeOK'
  BY <1>1, <1>2, <1>3 DEF TypeOK, Codes
<1>5. SessionLength' = 1
  BY <1>1 DEF SessionLength
<1>6. SplitBound'
  <2>1. Session' = {0}
    BY <1>5 DEF Session
  <2> QED
    BY <2>1, <1>3, NewFiles DEF SplitBound
<1>7. CountersMatchFile' /\ Started'
  <2>1. SessionLength' - 1 = 0
    BY <1>5
  <2>2. Counted(Fresh, GlobalHeader, 0)
    BY NewFiles DEF Counted
  <2> QED
    BY <1>1, <1>3, <2>1, <2>2, CountersBecome DEF Started
<1> QED
  BY <1>3, <1>4, <1>6, <1>7 DEF IInv

(* Calls that leave the writer and its files alone.                         *)
LEMMA NothingChanges ==
  ASSUME IInv, UNCHANGED <<opened, file, split_index, config, current, totals, files>>,
         result' \in Codes
  PROVE  IInv'
<1>1. UNCHANGED <<split_threshold, snaplen, current_bytes, current_packets, total_bytes,
                  total_packets>> /\ SessionLength' = SessionLength
  BY DEF config, current, totals, SessionLength
<1>2. CountersMatchFile'
  BY <1>1, CountersAre, CountersBecome DEF IInv
<1>3. TypeOK' /\ SplitBound' /\ Started' /\ BehindFragments'
  BY <1>1 DEF IInv, TypeOK, SplitBound, Session, Started, BehindFragments
<1> QED
  BY <1>2, <1>3 DEF IInv

(* A failed open leaves the writer as it was or closed.                     *)
LEMMA OpenFailing ==
  ASSUME IInv, NEW s \in Snaplens, OpenFails(s)
  PROVE  IInv'
<1>1. CASE UNCHANGED <<opened, file, split_index, config, current, totals, files>>
           /\ result' \in {"INVALID_SIZE", "INVALID_STATE"}
  BY <1>1, NothingChanges DEF Codes
<1>2. CASE Zeroed /\ SplitFails(0) /\ result' = "FAIL"
  <2>1. 0 \in Series
    BY DEF Series
  <2> QED
    BY <2>1, <1>2, Spoilt, Reset DEF Codes
<1> QED
  BY <1>1, <1>2 DEF OpenFails

(* A record that goes through keeps the bound: a file that had a packet     *)
(* takes another only if the split test found room for it.                  *)
LEMMA Appends ==
  ASSUME IInv, NEW p \in Packet, WriteOk(p)
  PROVE  IInv'
<1> DEFINE t == WriteTarget(p)
           f == t.contents
           b == CountedBytes(p)
           n == CountedPackets(p)
<1>1. /\ TypeOK /\ Ready(p) /\ t.index <= MaxSplit /\ split_index' = t.index
      /\ Appended(t.index, f, p) /\ result' = "OK"
      /\ UNCHANGED <<opened, file, config>>
  BY DEF WriteOk, IInv
<1>2. PICK r \in Nat : r = Required(p) /\ r > 0
  BY <1>1, Sizes
<1>3. /\ Counted(f, b, n) /\ b \in Nat /\ n \in Nat /\ b >= GlobalHeader
      /\ f.broken => f.tail > 0
      /\ f \in Contents
  BY <1>1, TargetCounted, Target
<1>4. /\ current_bytes' = b + r /\ current_packets' = n + 1
      /\ total_bytes' = total_bytes + r /\ total_packets' = total_packets + 1
  BY <1>1, <1>2 DEF Appended, CountedBytes, CountedPackets
<1>5. PICK g : g = WithRecord(f, p, r) /\ files' = [files EXCEPT ![t.index] = g]
  BY <1>1, <1>2 DEF Appended
<1>6. split_threshold > 0 /\ Len(g.packets) > 1 => g.whole <= split_threshold
  <2> SUFFICES ASSUME split_threshold > 0, Len(g.packets) > 1
               PROVE  g.whole <= split_threshold
    OBVIOUS
  <2>1. ~NeedsSplit(p)
    <3> SUFFICES ASSUME NeedsSplit(p) PROVE FALSE
      OBVIOUS
    <3>1. f = Fresh
      BY <1>1, Target
    <3>2. Len(g.packets) = 1
      <4>1. f.tail = 0 /\ Len(f.packets) = 0
        BY <3>1, NewFiles
      <4>2. Len(g.packets) = Len(f.packets) + 1
        BY <1>2, <1>3, <1>5, <4>1, OneMore
      <4> QED
        BY <4>1, <4>2
    <3> QED
      BY <3>2
  <2>2. f = files[split_index] /\ split_index \in Session
    BY <1>1, <2>1, Target DEF Session, SessionLength, Ready, TypeOK, Series
  <2> HIDE DEF f
  <2>3. CASE f.tail = 0
    <3>1. f.whole = b /\ Len(f.packets) = n
      BY <1>3, <2>3 DEF Counted
    <3>2. Len(g.packets) = Len(f.packets) + 1 /\ g.whole = f.whole + r
      BY <1>2, <1>3, <1>5, <2>3, OneMore
    <3>3. n > 0
      BY <1>3, <3>1, <3>2
    <3>4. current_packets > 0 /\ current_bytes > 0 /\ b = current_bytes
      BY <1>1, <1>3, <2>1, <3>3 DEF CountedBytes, CountedPackets
    <3>5. ~(b + r > split_threshold)
      BY <1>2, <2>1, <3>4 DEF NeedsSplit
    <3> QED
      BY <1>1, <1>2, <1>3, <3>1, <3>2, <3>5 DEF TypeOK
  <2>4. CASE f.tail # 0
    <3>1. g.packets = f.packets /\ g.whole = f.whole
      BY <1>2, <1>3, <1>5, <2>4, OneLost
    <3> QED
      BY <2>2, <3>1 DEF IInv, SplitBound
  <2> QED
    BY <2>3, <2>4
<1> HIDE DEF f, b, n
<1>7. g \in Contents /\ Counted(g, b + r, n + 1) /\ (g.broken => g.tail > 0)
  BY <1>2, <1>3, <1>5, CountedMore
<1>8. /\ b + r \in Nat /\ n + 1 \in Nat /\ b + r >= GlobalHeader
      /\ total_bytes' \in Nat /\ total_packets' \in Nat /\ result' \in Codes
  BY <1>1, <1>2, <1>3, <1>4 DEF TypeOK, Codes
<1> QED
  BY <1>1, <1>4, <1>5, <1>6, <1>7, <1>8, Written

(* A short write leaves at most a fragment, in the file in use or the next. *)
LEMMA LeavesFragment ==
  ASSUME IInv, NEW p \in Packet, WriteShort(p)
  PROVE  IInv'
<1> DEFINE t == WriteTarget(p)
           f == t.contents
           b == CountedBytes(p)
           n == CountedPackets(p)
<1>1. /\ TypeOK /\ Ready(p) /\ t.index <= MaxSplit /\ split_index' = t.index
      /\ Fragmented(t.index, f, p) /\ result' = "FAIL"
      /\ UNCHANGED <<opened, file, config>>
  BY DEF WriteShort, IInv
<1>2. /\ Counted(f, b, n) /\ b \in Nat /\ n \in Nat /\ b >= GlobalHeader
      /\ f.broken => f.tail > 0
      /\ f \in Contents
  BY <1>1, TargetCounted, Target
<1>3. /\ current_bytes' = b /\ current_packets' = n /\ UNCHANGED <<total_bytes, total_packets>>
  BY <1>1 DEF Fragmented, CountedBytes, CountedPackets, totals
<1>4. PICK k \in Nat : files' = [files EXCEPT ![t.index] = WithFragment(f, k)]
  <2>1. PICK k \in Fragments(f, p) : files' = [files EXCEPT ![t.index] = WithFragment(f, k)]
    BY <1>1 DEF Fragmented
  <2>2. k \in Nat
    BY <1>1, FragmentSizes
  <2> QED
    BY <2>1, <2>2
<1>5. PICK g : k \in Nat /\ g = WithFragment(f, k) /\ files' = [files EXCEPT ![t.index] = g]
  BY <1>4
<1>6. split_threshold > 0 /\ Len(g.packets) > 1 => g.whole <= split_threshold
  <2>1. g.packets = f.packets /\ g.whole = f.whole
    <3>1. f \in Contents /\ k \in Nat /\ g = WithFragment(f, k)
      BY <1>2, <1>5
    <3> HIDE DEF f
    <3> QED
      BY <3>1, Torn
  <2>2. CASE NeedsSplit(p)
    <3>1. Len(f.packets) = 0
      BY <2>2, <1>1, Target, NewFiles
    <3> QED
      BY <2>1, <3>1
  <2>3. CASE ~NeedsSplit(p)
    <3>1. f = files[split_index] /\ split_index \in Session
      BY <1>1, <2>3, Target DEF Session, SessionLength, Ready, TypeOK, Series
    <3> QED
      BY <2>1, <3>1 DEF IInv, SplitBound
  <2> QED
    BY <2>2, <2>3
<1> HIDE DEF f, b, n
<1>7. g \in Contents /\ Counted(g, b, n) /\ (g.broken => g.tail > 0)
  BY <1>2, <1>5, Torn, CountedTorn
<1>8. total_bytes' \in Nat /\ total_packets' \in Nat /\ result' \in Codes
  BY <1>1, <1>3 DEF TypeOK, Codes
<1> QED
  BY <1>1, <1>2, <1>3, <1>5, <1>6, <1>7, <1>8, Written

(* A split whose file cannot be opened spoils only the index it failed on.  *)
LEMMA Aborts ==
  ASSUME IInv, NEW p \in Packet, SplitAborted(p)
  PROVE  IInv'
<1>1. /\ opened /\ file /\ opened' = opened /\ ~file' /\ file' = FALSE
      /\ split_index' = split_index + 1 /\ split_index + 1 <= MaxSplit
      /\ split_threshold' = split_threshold /\ snaplen' = snaplen
      /\ UNCHANGED <<current_bytes, current_packets, total_bytes, total_packets>>
      /\ result' = "FAIL" /\ SplitFails(split_index + 1)
  BY DEF SplitAborted, Ready, NextIndex, config, current, totals
<1>2. split_index \in Series /\ split_index + 1 \in Series
  BY <1>1 DEF IInv, TypeOK, Series
<1>3. /\ files' \in [Series -> Contents] /\ BehindFragments'
      /\ \A i \in Series : i # split_index + 1 => files'[i] = files[i]
  BY <1>1, <1>2, Spoilt
<1>4. TypeOK'
  BY <1>1, <1>2, <1>3 DEF IInv, TypeOK, Codes
<1>5. SessionLength = split_index + 1 /\ SessionLength' = split_index + 1
  BY <1>1 DEF SessionLength
<1>6. SplitBound'
  <2>1. \A i \in Session : i \in Series /\ i # split_index + 1
    BY <1>2, <1>5 DEF Session, Series
  <2> QED
    BY <2>1, <1>1, <1>3, <1>5 DEF IInv, SplitBound, Session
<1>7. CountersMatchFile' /\ Started'
  <2>1. SessionLength - 1 = split_index /\ SessionLength' - 1 = split_index
    BY <1>2, <1>5 DEF Series
  <2>2. files'[split_index] = files[split_index]
    BY <1>2, <1>3 DEF Series
  <2>3. CountersMatchFile'
    BY <1>1, <2>1, <2>2, CountersAre, CountersBecome DEF IInv
  <2> QED
    BY <2>3, <1>1, <1>2 DEF Started, IInv, Series
<1> QED
  BY <1>3, <1>4, <1>6, <1>7 DEF IInv

(* Refused writes and close.                                                *)
LEMMA OtherCalls ==
  ASSUME IInv, Close \/ (\E p \in Packet : WriteRefused(p)) \/ UNCHANGED vars
  PROVE  IInv'
<1>1. CASE Close
  <2>1. CASE opened
    <3>1. Zeroed /\ files' \in [Series -> Contents] /\ BehindFragments' /\ result' = "OK"
      BY <2>1, <1>1 DEF Close, IInv, TypeOK, BehindFragments
    <3> QED
      BY <3>1, Reset DEF Codes
  <2>2. CASE ~opened
    BY <2>2, <1>1, NothingChanges DEF Close, Codes
  <2> QED
    BY <2>1, <2>2
<1>2. CASE \E p \in Packet : WriteRefused(p)
  BY <1>2, NothingChanges DEF WriteRefused, Codes
<1>3. CASE UNCHANGED vars
  BY <1>3, NothingChanges DEF vars, IInv, TypeOK
<1> QED
  BY <1>1, <1>2, <1>3

(* The invariant is inductive.                                              *)
THEOREM Invariant == Spec => []IInv
<1>1. IInv /\ [Next]_vars => IInv'
  <2> SUFFICES ASSUME IInv, [Next]_vars PROVE IInv'
    OBVIOUS
  <2>1. CASE \E s \in Snaplens : OpenFails(s) \/ \E t \in Thresholds : OpenOk(s, t)
    BY <2>1, OpenFailing, Opens
  <2>2. CASE \E p \in Packet : WriteOk(p) \/ WriteShort(p) \/ SplitAborted(p)
    BY <2>2, Appends, LeavesFragment, Aborts
  <2>3. CASE Close \/ (\E p \in Packet : WriteRefused(p)) \/ UNCHANGED vars
    BY <2>3, OtherCalls
  <2> QED
    BY <2>1, <2>2, <2>3 DEF Next
<1> QED
  BY Start, <1>1, PTL DEF Spec

(* The variables have their types and no closed writer holds a FILE.        *)
THEOREM TypeCorrect == Spec => []TypeOK
<1>1. IInv => TypeOK
  BY DEF IInv
<1> QED
  BY <1>1, Invariant, PTL

(* pcap_writer_write_packet never lets a file of more than one packet grow  *)
(* past split_threshold_bytes as far as a reader gets in it, which is to    *)
(* its end unless a write to it came out short, whatever splits failed.     *)
THEOREM FilesWithinThreshold == Spec => []SplitBound
<1>1. IInv => SplitBound
  BY DEF IInv
<1> QED
  BY <1>1, Invariant, PTL

(* bytes_ and packets_written_current_file, which the split decision reads, *)
(* are the size and the packets of the last file until a write to it is     *)
(* short, count no fragment, and count the records behind one.              *)
THEOREM CountersExact == Spec => []CountersMatchFile
<1>1. IInv => CountersMatchFile
  BY DEF IInv
<1> QED
  BY <1>1, Invariant, PTL

(* A session only goes forward: it changes no file it has moved on from and *)
(* takes no record back from the one in use.                                *)
THEOREM ClosedFilesKept == Spec => ClosedFilesFrozen
<1> DEFINE A == opened /\ opened' =>
                  /\ split_index' >= split_index
                  /\ \A i \in Series : i < split_index' => files'[i] = files[i]
                  /\ split_index' = split_index
                       => Len(files'[split_index].packets) >= Len(files[split_index].packets)
<1>1. IInv /\ [Next]_vars => A
  <2> SUFFICES ASSUME IInv, [Next]_vars, opened, opened' PROVE A
    OBVIOUS
  <2>0. TypeOK /\ split_index \in Series /\ split_index \in Int
        /\ Len(files[split_index].packets) \in Nat
    BY DEF IInv, TypeOK, Series, Contents
  <2>1. CASE UNCHANGED <<split_index, files>>
    BY <2>0, <2>1
  <2>2. ASSUME NEW p \in Packet, WriteOk(p) PROVE A
    <3>1. WriteTarget(p).index <= MaxSplit
      BY <2>2 DEF WriteOk
    <3>2. PICK j \in Series, f \in Contents, r \in Nat :
             /\ split_index' = j
             /\ files' = [files EXCEPT ![j] = WithRecord(f, p, r)]
             /\ j = split_index + 1 \/ (j = split_index /\ f = files[split_index])
      BY <2>0, <2>2, <3>1, Target, Sizes DEF WriteOk, Appended
    <3>3. PICK g : g = WithRecord(f, p, r)
      OBVIOUS
    <3>4. Len(g.packets) >= Len(f.packets)
      <4>1. CASE f.tail = 0
        BY <3>3, <4>1, OneMore, Lengths
      <4>2. CASE f.tail # 0
        BY <3>3, <4>2, OneLost, Lengths
      <4> QED
        BY <4>1, <4>2
    <3>5. files'[j] = g /\ \A i \in Series : i # j => files'[i] = files[i]
      BY <3>2, <3>3, <2>0 DEF TypeOK
    <3> QED
      BY <3>2, <3>4, <3>5, <2>0 DEF Series, Contents
  <2>3. ASSUME NEW p \in Packet, WriteShort(p) PROVE A
    <3>1. WriteTarget(p).index <= MaxSplit
      BY <2>3 DEF WriteShort
    <3>2. PICK j \in Series, f \in Contents, n \in Nat :
             /\ split_index' = j
             /\ files' = [files EXCEPT ![j] = WithFragment(f, n)]
             /\ j = split_index + 1 \/ (j = split_index /\ f = files[split_index])
      <4>1. PICK n \in Fragments(WriteTarget(p).contents, p) :
               files' = [files EXCEPT ![WriteTarget(p).index] = WithFragment(WriteTarget(p).contents, n)]
        BY <2>3 DEF WriteShort, Fragmented
      <4>2. n \in Nat
        BY <2>0, FragmentSizes
      <4> QED
        BY <2>0, <2>3, <3>1, <4>1, <4>2, Target DEF WriteShort
    <3>3. PICK g : g = WithFragment(f, n)
      OBVIOUS
    <3>4. g.packets = f.packets
      BY <3>3, Torn
    <3>5. files'[j] = g /\ \A i \in Series : i # j => files'[i] = files[i]
      BY <3>2, <3>3, <2>0 DEF TypeOK
    <3> QED
      BY <3>2, <3>4, <3>5, <2>0 DEF Series, Contents
  <2>4. ASSUME NEW p \in Packet, SplitAborted(p) PROVE A
    <3>1. /\ split_index' = split_index + 1 /\ split_index + 1 \in Series
          /\ \A i \in Series : i # split_index + 1 => files'[i] = files[i]
      BY <2>0, <2>4, Spoilt DEF SplitAborted, NextIndex, Series
    <3> QED
      BY <3>1, <2>0 DEF Series
  <2>5. CASE \E s \in Snaplens : OpenFails(s) \/ \E t \in Thresholds : OpenOk(s, t)
    BY <2>5, <2>1 DEF OpenFails, OpenOk
  <2>6. CASE Close \/ (\E p \in Packet : WriteRefused(p)) \/ UNCHANGED vars
    BY <2>6, <2>1 DEF Close, Zeroed, WriteRefused, vars
  <2> QED
    BY <2>2, <2>3, <2>4, <2>5, <2>6 DEF Next
<1>2. Spec => [][A]_vars
  BY Invariant, <1>1, PTL DEF Spec
<1> QED
  BY <1>2 DEF ClosedFilesFrozen

----------------------------------------------------------------------------
(* What a reader finds.  Reading is a recursive function, which exists      *)
(* because each of its values depends on the one before: shown by taking    *)
(* the least number of files for which no such function exists.             *)

(* A set of numbers that is not empty has a least one: this is what the     *)
(* proofs below use in place of an induction.                               *)
LEMMA Least ==
  ASSUME NEW T \in SUBSET Nat, T # {}
  PROVE  \E n \in T : \A m \in T : n <= m
<1>1. IsWellFoundedOn(OpToRel(<, Nat), Nat)
  BY NatLessThanWellFounded
<1>2. PICK n \in T : \A m \in T : ~(<<m, n>> \in OpToRel(<, Nat))
  BY <1>1, WFMin
<1>3. \A m \in T : ~(m < n)
  BY <1>2 DEF OpToRel
<1> QED
  BY <1>3

(* r is a reading of the first k files of fs.                               *)
Reads(r, fs, k) ==
  r = [n \in 0 .. k |-> IF n = 0 THEN NothingRead ELSE ThenFile(r[n - 1], fs[n - 1])]

(* There is one, for any number of files.                                   *)
LEMMA ReadingExists ==
  ASSUME NEW fs, NEW k \in Nat
  PROVE  \E r : Reads(r, fs, k)
<1> DEFINE T == {n \in Nat : ~ \E r : Reads(r, fs, n)}
<1> SUFFICES ASSUME T # {} PROVE FALSE
  OBVIOUS
<1>1. PICK m \in T : \A n \in T : m <= n
  <2> HIDE DEF T
  <2>1. T \in SUBSET Nat
    BY DEF T
  <2> QED
    BY <2>1, Least
<1>2. m # 0
  <2>1. Reads([n \in 0 .. 0 |-> NothingRead], fs, 0)
    BY DEF Reads
  <2> QED
    BY <2>1, <1>1
<1>3. m \in Nat \ {0} /\ m - 1 \in Nat /\ m - 1 \notin T
  BY <1>1, <1>2
<1>4. PICK r : Reads(r, fs, m - 1)
  BY <1>3
<1> DEFINE g == [n \in 0 .. m |-> IF n = m THEN ThenFile(r[m - 1], fs[m - 1]) ELSE r[n]]
<1>5. \A n \in 0 .. m : g[n] = IF n = 0 THEN NothingRead ELSE ThenFile(g[n - 1], fs[n - 1])
  <2> SUFFICES ASSUME NEW n \in 0 .. m
               PROVE  g[n] = IF n = 0 THEN NothingRead ELSE ThenFile(g[n - 1], fs[n - 1])
    OBVIOUS
  <2>1. CASE n = m
    BY <2>1, <1>3
  <2>2. CASE n # m
    <3>1. n \in 0 .. m - 1 /\ (n # 0 => n - 1 \in 0 .. m /\ n - 1 # m)
      BY <2>2, <1>3
    <3>2. r[n] = IF n = 0 THEN NothingRead ELSE ThenFile(r[n - 1], fs[n - 1])
      BY <1>4, <3>1 DEF Reads
    <3> QED
      BY <3>1, <3>2, <2>2
  <2> QED
    BY <2>1, <2>2
<1>6. g = [n \in 0 .. m |-> IF n = 0 THEN NothingRead ELSE ThenFile(g[n - 1], fs[n - 1])]
  <2>1. g = [n \in 0 .. m |-> g[n]]
    BY Zenon
  <2> HIDE DEF g
  <2> QED
    BY <2>1, <1>5, Zenon
<1>7. Reads(g, fs, m)
  BY <1>6, Zenon DEF Reads
<1> QED
  BY <1>7, <1>1

(* So Reading satisfies the equation that defines it.                       *)
LEMMA ReadingIs ==
  ASSUME NEW fs, NEW n \in 0 .. MaxSplit + 1
  PROVE  Reading(fs)[n] = IF n = 0 THEN NothingRead ELSE ThenFile(Reading(fs)[n - 1], fs[n - 1])
<1>1. Reading(fs) = CHOOSE r : Reads(r, fs, MaxSplit + 1)
  BY Zenon DEF Reading, Reads
<1>2. \E r : Reads(r, fs, MaxSplit + 1)
  BY ReadingExists
<1>3. Reads(Reading(fs), fs, MaxSplit + 1)
  BY <1>1, <1>2, Zenon
<1> HIDE DEF Reading
<1> QED
  BY <1>3 DEF Reads

(* What a reader finds are packets and a number of bytes.                   *)
Found == [packets : Seq(Packet), bytes : Int]

LEMMA ReadingType ==
  ASSUME NEW fs \in [Series -> Contents], NEW k \in 0 .. MaxSplit + 1
  PROVE  Reading(fs)[k] \in Found
<1> DEFINE T == {n \in Nat : n <= MaxSplit + 1 /\ Reading(fs)[n] \notin Found}
<1> SUFFICES ASSUME T # {} PROVE FALSE
  OBVIOUS
<1>1. PICK m \in T : \A n \in T : m <= n
  <2> HIDE DEF T
  <2>1. T \in SUBSET Nat
    BY DEF T
  <2> QED
    BY <2>1, Least
<1>2. m \in 0 .. MaxSplit + 1 /\ Reading(fs)[m] \notin Found
  BY <1>1
<1>3. CASE m = 0
  <2>1. NothingRead \in Found
    BY DEF NothingRead, Found
  <2>2. Reading(fs)[m] = NothingRead
    BY <1>2, <1>3, ReadingIs
  <2> QED
    BY <2>1, <2>2, <1>2
<1>4. CASE m # 0
  <2>1. m - 1 \in Nat /\ m - 1 \in Series /\ m - 1 <= MaxSplit + 1
    BY <1>2, <1>4 DEF Series
  <2>2. Reading(fs)[m - 1] \in Found
    BY <1>1, <2>1
  <2>3. Reading(fs)[m] = ThenFile(Reading(fs)[m - 1], fs[m - 1])
    BY <1>2, <1>4, ReadingIs
  <2>4. ASSUME NEW r \in Found, NEW f \in Contents PROVE ThenFile(r, f) \in Found
    BY DEF ThenFile, Contents, Found
  <2> QED
    BY <2>1, <2>2, <2>3, <2>4, <1>2
<1> QED
  BY <1>3, <1>4

(* What a reader finds in the first files does not depend on the others.    *)
LEMMA ReadingSame ==
  ASSUME NEW fs, NEW gs, NEW k \in 0 .. MaxSplit + 1, \A i \in 0 .. k - 1 : fs[i] = gs[i]
  PROVE  Reading(fs)[k] = Reading(gs)[k]
<1> DEFINE T == {n \in Nat : n <= k /\ Reading(fs)[n] # Reading(gs)[n]}
<1> SUFFICES ASSUME T # {} PROVE FALSE
  OBVIOUS
<1>1. PICK m \in T : \A n \in T : m <= n
  <2> HIDE DEF T
  <2>1. T \in SUBSET Nat
    BY DEF T
  <2> QED
    BY <2>1, Least
<1>2. m \in 0 .. MaxSplit + 1 /\ m <= k /\ Reading(fs)[m] # Reading(gs)[m]
  BY <1>1
<1>3. m # 0
  BY <1>2, ReadingIs
<1>4. m - 1 \in Nat /\ m - 1 <= k /\ m - 1 \in 0 .. k - 1
  BY <1>2, <1>3
<1>5. Reading(fs)[m - 1] = Reading(gs)[m - 1] /\ fs[m - 1] = gs[m - 1]
  BY <1>1, <1>4
<1> QED
  BY <1>2, <1>3, <1>5, ReadingIs

(* An element at the end of the second sequence is at the end of both.      *)
LEMMA AppendLast ==
  ASSUME NEW x \in Seq(Packet), NEW y \in Seq(Packet), NEW p \in Packet
  PROVE  x \o Append(y, p) = Append(x \o y, p)
<1>1. <<p>> \in Seq(Packet) /\ x \o y \in Seq(Packet)
  OBVIOUS
<1>2. Append(y, p) = y \o <<p>> /\ Append(x \o y, p) = (x \o y) \o <<p>>
  BY <1>1, AppendIsConcat
<1>3. x \o (y \o <<p>>) = (x \o y) \o <<p>>
  BY <1>1, ConcatAssociative
<1> QED
  BY <1>2, <1>3

(* A record at the end of the last file is at the end of what is read.      *)
LEMMA ThenRecord ==
  ASSUME NEW r \in Found, NEW f \in Contents, NEW g, NEW p \in Packet, NEW k \in Nat,
         f.header, g.header = f.header, g.packets = Append(f.packets, p), g.whole = f.whole + k
  PROVE  /\ ThenFile(r, g).packets = Append(ThenFile(r, f).packets, p)
         /\ ThenFile(r, g).bytes = ThenFile(r, f).bytes + k
<1>1. r.packets \in Seq(Packet) /\ f.packets \in Seq(Packet)
  BY DEF Found, Contents
<1>2. r.bytes \in Int /\ f.whole \in Int
  BY DEF Found, Contents
<1>3. r.packets \o Append(f.packets, p) = Append(r.packets \o f.packets, p)
  BY <1>1, AppendLast
<1>4. ThenFile(r, f).packets = r.packets \o f.packets /\ ThenFile(r, f).bytes = r.bytes + f.whole - GlobalHeader
  BY DEF ThenFile
<1>5. ThenFile(r, g).packets = r.packets \o g.packets /\ ThenFile(r, g).bytes = r.bytes + g.whole - GlobalHeader
  BY DEF ThenFile
<1>6. ThenFile(r, g).packets = Append(ThenFile(r, f).packets, p)
  BY <1>3, <1>4, <1>5, Zenon
<1>7. ThenFile(r, g).bytes = ThenFile(r, f).bytes + k
  BY <1>2, <1>4, <1>5
<1> QED
  BY <1>6, <1>7

(* A file that was just opened adds nothing.                                *)
LEMMA ThenFresh ==
  ASSUME NEW r \in Found
  PROVE  ThenFile(r, Fresh) = r
<1>1. r.packets \in Seq(Packet) /\ r.bytes \in Int /\ r = [packets |-> r.packets, bytes |-> r.bytes]
  BY DEF Found
<1>2. r.packets \o << >> = r.packets
  BY <1>1
<1>3. ThenFile(r, Fresh) = [packets |-> r.packets \o Fresh.packets, bytes |-> r.bytes + Fresh.whole - GlobalHeader]
  BY NewFiles DEF ThenFile
<1>4. Fresh.packets = << >> /\ r.bytes + Fresh.whole - GlobalHeader = r.bytes
  BY <1>1, NewFiles
<1> QED
  BY <1>1, <1>2, <1>3, <1>4

(* What a reader finds before a write, up to the file it goes to, and after *)
(* it: the files before that one are as they were.                          *)
LEMMA FoundWriting ==
  ASSUME IInv, NEW p \in Packet, WriteOk(p) \/ WriteShort(p),
         NEW g, files'[WriteTarget(p).index] = g,
         \A i \in Series : i # WriteTarget(p).index => files'[i] = files[i]
  PROVE  \E r \in Found :
           /\ Recorded = ThenFile(r, WriteTarget(p).contents)
           /\ Recorded' = ThenFile(r, g)
<1> DEFINE n == WriteTarget(p).index
           f == WriteTarget(p).contents
<1>1. /\ TypeOK /\ split_index \in Series /\ files \in [Series -> Contents]
      /\ opened = TRUE /\ file = TRUE /\ opened' = TRUE /\ file' = TRUE
      /\ n <= MaxSplit /\ split_index' = n
  BY DEF IInv, TypeOK, WriteOk, WriteShort, Ready
<1>2. n \in Series /\ f \in Contents
  BY <1>1, Target
<1>3. files'[n] = g /\ \A i \in Series : i # n => files'[i] = files[i]
  OBVIOUS
<1>4. n \in 0 .. MaxSplit + 1 /\ n + 1 \in 0 .. MaxSplit + 1 /\ n + 1 # 0 /\ n + 1 - 1 = n
  BY <1>2 DEF Series
<1>5. Reading(files)[n] \in Found
  BY <1>1, <1>4, ReadingType
<1>6. Recorded = ThenFile(Reading(files)[n], f)
  <2>1. Recorded = Reading(files)[split_index + 1]
    BY <1>1 DEF Recorded, SessionLength
  <2>2. CASE NeedsSplit(p)
    <3>1. n = split_index + 1 /\ f = Fresh
      BY <2>2, <1>1, Target
    <3> QED
      BY <3>1, <2>1, <1>5, ThenFresh
  <2>3. CASE ~NeedsSplit(p)
    <3>1. n = split_index /\ f = files[n]
      BY <2>3, <1>1, Target
    <3> QED
      BY <3>1, <2>1, <1>4, ReadingIs
  <2> QED
    BY <2>2, <2>3
<1>7. Recorded' = Reading(files')[n + 1]
  BY <1>1 DEF Recorded, SessionLength
<1>8. \A i \in 0 .. n - 1 : files'[i] = files[i]
  BY <1>2, <1>3 DEF Series
<1> HIDE DEF n, f
<1>9. Reading(files')[n] = Reading(files)[n]
  BY <1>4, <1>8, ReadingSame
<1>10. Recorded' = ThenFile(Reading(files)[n], g)
  <2>1. Reading(files')[n + 1] = ThenFile(Reading(files')[n], files'[n])
    BY <1>4, ReadingIs
  <2> QED
    BY <2>1, <1>3, <1>7, <1>9
<1> QED
  BY <1>5, <1>6, <1>10 DEF f

(* A write that is acknowledged adds its packet to what a reader finds, and *)
(* nothing else, also where it goes to a new file; unless the file it goes  *)
(* to has a fragment: then the packet is not found, and nothing else is     *)
(* lost.                                                                    *)
LEMMA RecordFound ==
  ASSUME IInv, NEW p \in Packet, WriteOk(p)
  PROVE  /\ WriteTarget(p).contents.tail = 0 =>
              /\ Recorded'.packets = Append(Recorded.packets, p)
              /\ Recorded'.bytes = Recorded.bytes + Required(p)
         /\ WriteTarget(p).contents.tail # 0 => Recorded' = Recorded
<1> DEFINE n == WriteTarget(p).index
           f == WriteTarget(p).contents
<1>1. TypeOK
  BY DEF IInv
<1>2. PICK k \in Nat : k = Required(p)
  BY <1>1, Sizes
<1>3. PICK g : g = WithRecord(f, p, k) /\ files' = [files EXCEPT ![n] = g]
  BY <1>2 DEF WriteOk, Appended
<1>4. f \in Contents /\ f.header /\ Ready(p)
  <2>1. Ready(p) /\ n <= MaxSplit
    BY DEF WriteOk
  <2> QED
    BY <1>1, <2>1, Target, TargetCounted DEF Counted
<1>5. PICK r \in Found : Recorded = ThenFile(r, f) /\ Recorded' = ThenFile(r, g)
  <2>1. n \in Series /\ files \in [Series -> Contents]
    BY <1>1, Target DEF WriteOk, TypeOK
  <2>2. files'[n] = g /\ \A i \in Series : i # n => files'[i] = files[i]
    BY <1>3, <2>1
  <2> QED
    BY <2>2, FoundWriting
<1> HIDE DEF f
<1>6. CASE f.tail = 0
  <2>1. g.packets = Append(f.packets, p) /\ g.whole = f.whole + k /\ g.header = f.header
    <3>1. f \in Contents /\ f.tail = 0 /\ g = WithRecord(f, p, k)
      BY <1>3, <1>4, <1>6
    <3> QED
      BY <3>1, OneMore
  <2>2. /\ ThenFile(r, g).packets = Append(ThenFile(r, f).packets, p)
        /\ ThenFile(r, g).bytes = ThenFile(r, f).bytes + k
    BY <1>4, <2>1, ThenRecord, ZenonT(60)
  <2> QED
    BY <1>5, <1>6, <1>2, <2>2 DEF f
<1>7. CASE f.tail # 0
  <2>1. g.packets = f.packets /\ g.whole = f.whole /\ g.header = f.header
    <3>1. f \in Contents /\ f.tail # 0 /\ g = WithRecord(f, p, k)
      BY <1>3, <1>4, <1>7
    <3> QED
      BY <3>1, OneLost
  <2>2. ThenFile(r, g) = ThenFile(r, f)
    BY <2>1, Zenon DEF ThenFile
  <2> QED
    BY <1>5, <1>7, <2>2 DEF f
<1> QED
  BY <1>6, <1>7

(* A call that takes no packet leaves what a reader finds as it is: a short *)
(* write counts for nothing, nor does a file that was never opened.         *)
LEMMA NothingFound ==
  ASSUME IInv, NEW p \in Packet, WriteShort(p) \/ SplitAborted(p)
  PROVE  Recorded' = Recorded /\ UNCHANGED totals /\ opened /\ opened' /\ result' = "FAIL"
<1>0. TypeOK /\ split_index \in Series
  BY DEF IInv, TypeOK
<1>1. CASE WriteShort(p)
  <2> DEFINE n == WriteTarget(p).index
             f == WriteTarget(p).contents
  <2>1. opened /\ opened' /\ n <= MaxSplit /\ UNCHANGED totals /\ result' = "FAIL"
    BY <1>1 DEF WriteShort, Ready, Fragmented
  <2>2. PICK k \in Nat : files' = [files EXCEPT ![n] = WithFragment(f, k)]
    <3>1. PICK k \in Fragments(f, p) : files' = [files EXCEPT ![n] = WithFragment(f, k)]
      BY <1>1 DEF WriteShort, Fragmented
    <3>2. k \in Nat
      BY <1>0, FragmentSizes
    <3> QED
      BY <3>1, <3>2
  <2>3. PICK g : k \in Nat /\ g = WithFragment(f, k) /\ files' = [files EXCEPT ![n] = g]
    BY <2>2
  <2>4. f \in Contents
    BY <1>0, <2>1, Target
  <2>5. PICK r \in Found : Recorded = ThenFile(r, f) /\ Recorded' = ThenFile(r, g)
    <3>1. n \in Series /\ files \in [Series -> Contents]
      BY <1>0, <2>1, Target DEF TypeOK
    <3>2. files'[n] = g /\ \A i \in Series : i # n => files'[i] = files[i]
      BY <2>3, <3>1
    <3> QED
      BY <1>1, <3>2, FoundWriting
  <2> HIDE DEF f
  <2>6. g.packets = f.packets /\ g.whole = f.whole /\ g.header = f.header
    BY <2>3, <2>4, Torn
  <2>7. ThenFile(r, g) = ThenFile(r, f)
    BY <2>6, Zenon DEF ThenFile
  <2> QED
    BY <2>1, <2>5, <2>7
<1>2. CASE SplitAborted(p)
  <2> DEFINE n == split_index + 1
  <2>1. /\ opened /\ file /\ opened' /\ ~file' /\ split_index' = n /\ n \in Series
        /\ UNCHANGED totals /\ result' = "FAIL" /\ SplitFails(n)
    BY <1>0, <1>2 DEF SplitAborted, Ready, NextIndex, TypeOK, Series
  <2>2. \A i \in Series : i # n => files'[i] = files[i]
    BY <2>1, Spoilt
  <2>3. Recorded = Reading(files)[n] /\ Recorded' = Reading(files')[n]
    BY <2>1 DEF Recorded, SessionLength
  <2>4. n \in 0 .. MaxSplit + 1 /\ \A i \in 0 .. n - 1 : files'[i] = files[i]
    BY <2>1, <2>2 DEF Series
  <2>5. Reading(files')[n] = Reading(files)[n]
    <3> HIDE DEF n
    <3> QED
      BY <2>4, ReadingSame, Zenon
  <2> QED
    BY <2>1, <2>3, <2>5
<1> QED
  BY <1>1, <1>2

(* There is nothing to find before a capture and after it.                  *)
LEMMA NoSession ==
  /\ ~opened => Recorded = NothingRead
  /\ ~opened' => Recorded' = NothingRead
<1>1. 0 \in 0 .. MaxSplit + 1
  OBVIOUS
<1>2. ASSUME NEW fs PROVE Reading(fs)[0] = NothingRead
  BY <1>1, ReadingIs
<1> QED
  BY <1>2 DEF Recorded, SessionLength

(* A capture that was just opened is empty.                                 *)
LEMMA OpenedEmpty ==
  ASSUME IInv, NEW s \in Snaplens, NEW t \in Thresholds, OpenOk(s, t)
  PROVE  Recorded' = NothingRead /\ total_packets' = 0 /\ total_bytes' = 0 /\ result' = "OK"
<1>1. /\ opened' /\ file' /\ split_index' = 0 /\ files' = [files EXCEPT ![0] = Fresh]
      /\ total_packets' = 0 /\ total_bytes' = 0 /\ result' = "OK"
  BY DEF OpenOk, SplitOpens
<1>2. files'[0] = Fresh /\ 0 \in 0 .. MaxSplit + 1 /\ 1 \in 0 .. MaxSplit + 1
  BY <1>1 DEF IInv, TypeOK, Series
<1>3. Recorded' = Reading(files')[1]
  BY <1>1 DEF Recorded, SessionLength
<1>4. Reading(files')[1] = ThenFile(Reading(files')[0], Fresh)
  <2>1. Reading(files')[1] = ThenFile(Reading(files')[1 - 1], files'[1 - 1])
    BY <1>2, ReadingIs
  <2>2. 1 - 1 = 0
    OBVIOUS
  <2> QED
    BY <2>1, <2>2, <1>2
<1>5. Reading(files')[0] = NothingRead /\ NothingRead \in Found
  BY <1>2, ReadingIs DEF NothingRead, Found
<1> QED
  BY <1>1, <1>3, <1>4, <1>5, ThenFresh

(* What a reader finds in a session.                                        *)
LEMMA FoundType ==
  ASSUME IInv
  PROVE  Recorded \in Found
<1>1. SessionLength \in 0 .. MaxSplit + 1 /\ files \in [Series -> Contents]
  BY DEF IInv, TypeOK, Series, SessionLength
<1> QED
  BY <1>1, ReadingType DEF Recorded

(* Records behind a fragment, in some file of the session.                  *)
SomeBroken == \E i \in Session : files[i].broken

(* A write that puts no record behind a fragment leaves it at that.         *)
LEMMA BrokenKept ==
  ASSUME IInv, NEW p \in Packet, WriteOk(p) \/ WriteShort(p),
         NEW g, files'[WriteTarget(p).index] = g,
         \A i \in Series : i # WriteTarget(p).index => files'[i] = files[i],
         g.broken = WriteTarget(p).contents.broken
  PROVE  SomeBroken' <=> SomeBroken
<1> DEFINE n == WriteTarget(p).index
           f == WriteTarget(p).contents
<1>1. /\ TypeOK /\ split_index \in Series
      /\ opened = TRUE /\ file = TRUE /\ opened' = TRUE /\ file' = TRUE
      /\ n <= MaxSplit /\ split_index' = n
  BY DEF IInv, TypeOK, WriteOk, WriteShort, Ready
<1>2. Session = 0 .. split_index /\ Session' = 0 .. n
  <2>1. n \in Series
    BY <1>1, Target
  <2> QED
    BY <1>1, <2>1 DEF Session, SessionLength, Series
<1>3. CASE NeedsSplit(p)
  <2>1. n = split_index + 1 /\ f = Fresh /\ n \in Series
    BY <1>1, <1>3, Target
  <2>2. ~g.broken
    BY <2>1, NewFiles
  <2>3. \A i \in 0 .. n : i = n \/ (i \in 0 .. split_index /\ i \in Series /\ files'[i] = files[i])
    BY <1>1, <2>1 DEF Series
  <2>4. \A i \in 0 .. split_index : i \in 0 .. n /\ i # n
    BY <1>1, <2>1 DEF Series
  <2> QED
    BY <1>2, <2>2, <2>3, <2>4 DEF SomeBroken
<1>4. CASE ~NeedsSplit(p)
  <2>1. n = split_index /\ f = files[n] /\ n \in Series
    BY <1>1, <1>4, Target
  <2>2. \A i \in 0 .. n : i \in Series
    BY <2>1 DEF Series
  <2>3. \A i \in 0 .. n : files'[i].broken = files[i].broken
    BY <2>1, <2>2
  <2> QED
    BY <1>2, <2>1, <2>3 DEF SomeBroken
<1> QED
  BY <1>3, <1>4

(* What an acknowledged write does to the fragments of the session: none    *)
(* where there is none; where there is one, the record comes behind it.     *)
LEMMA RecordPlaced ==
  ASSUME IInv, NEW p \in Packet, WriteOk(p)
  PROVE  /\ WriteTarget(p).contents.tail = 0 => (SomeBroken' <=> SomeBroken) /\ ~Damaged'
         /\ WriteTarget(p).contents.tail # 0 => SomeBroken' /\ Damaged /\ Damaged'
<1> DEFINE n == WriteTarget(p).index
           f == WriteTarget(p).contents
<1>1. /\ TypeOK /\ Ready(p) /\ split_index \in Series
      /\ opened = TRUE /\ file = TRUE /\ opened' = TRUE /\ file' = TRUE
      /\ n <= MaxSplit /\ split_index' = n
  BY DEF IInv, TypeOK, WriteOk, Ready
<1>2. n \in Series /\ f \in Contents
  BY <1>1, Target
<1>3. PICK k \in Nat : k = Required(p) /\ k > 0
  BY <1>1, Sizes
<1>4. PICK g : g = WithRecord(f, p, k) /\ files' = [files EXCEPT ![n] = g]
  BY <1>3 DEF WriteOk, Appended
<1>5. files'[n] = g /\ \A i \in Series : i # n => files'[i] = files[i]
  BY <1>1, <1>2, <1>4 DEF TypeOK
<1>6. Damaged' <=> g.tail > 0
  BY <1>1, <1>5 DEF Damaged
<1>7. CASE f.tail = 0
  <2>1. g.broken = f.broken /\ g.tail = 0
    <3>1. f \in Contents /\ f.tail = 0 /\ g = WithRecord(f, p, k)
      BY <1>2, <1>4, <1>7
    <3> HIDE DEF f
    <3> QED
      BY <3>1, OneMore
  <2>2. SomeBroken' <=> SomeBroken
    BY <1>5, <2>1, BrokenKept
  <2> QED
    BY <1>6, <1>7, <2>1, <2>2
<1>8. CASE f.tail # 0
  <2>1. g.broken /\ g.tail = f.tail + k /\ f.tail \in Nat
    <3>1. f \in Contents /\ f.tail # 0 /\ g = WithRecord(f, p, k)
      BY <1>2, <1>4, <1>8
    <3> HIDE DEF f
    <3> QED
      BY <3>1, OneLost, Fields
  <2>2. SomeBroken'
    <3>1. n \in Session'
      BY <1>1, <1>2 DEF Session, SessionLength, Series
    <3> QED
      BY <3>1, <1>5, <2>1 DEF SomeBroken
  <2>3. f = files[split_index]
    BY <1>1, <1>8, Target, NewFiles
  <2>4. Damaged
    BY <1>1, <1>8, <2>1, <2>3 DEF Damaged
  <2>5. Damaged'
    BY <1>3, <1>6, <2>1
  <2> QED
    BY <1>8, <2>2, <2>4, <2>5
<1> QED
  BY <1>7, <1>8

(* Nor does a call that takes no packet.                                    *)
LEMMA NothingPlaced ==
  ASSUME IInv, NEW p \in Packet, WriteShort(p) \/ SplitAborted(p)
  PROVE  SomeBroken' <=> SomeBroken
<1>0. TypeOK /\ split_index \in Series
  BY DEF IInv, TypeOK
<1>1. CASE WriteShort(p)
  <2> DEFINE n == WriteTarget(p).index
             f == WriteTarget(p).contents
  <2>1. PICK k \in Nat : files' = [files EXCEPT ![n] = WithFragment(f, k)]
    <3>1. PICK k \in Fragments(f, p) : files' = [files EXCEPT ![n] = WithFragment(f, k)]
      BY <1>1 DEF WriteShort, Fragmented
    <3>2. k \in Nat
      BY <1>0, FragmentSizes
    <3> QED
      BY <3>1, <3>2
  <2>2. PICK g : k \in Nat /\ g = WithFragment(f, k) /\ files' = [files EXCEPT ![n] = g]
    BY <2>1
  <2>3. n \in Series /\ f \in Contents /\ files \in [Series -> Contents]
    BY <1>0, <1>1, Target DEF WriteShort, TypeOK
  <2>4. files'[n] = g /\ \A i \in Series : i # n => files'[i] = files[i]
    BY <2>2, <2>3
  <2>5. g.broken = f.broken
    <3>1. f \in Contents /\ g = WithFragment(f, k)
      BY <2>2, <2>3
    <3> HIDE DEF f
    <3> QED
      BY <3>1, Torn
  <2> QED
    BY <1>1, <2>4, <2>5, BrokenKept
<1>2. CASE SplitAborted(p)
  <2>1. /\ opened /\ file /\ opened' /\ ~file' /\ split_index' = split_index + 1
        /\ split_index + 1 \in Series /\ SplitFails(split_index + 1)
    BY <1>0, <1>2 DEF SplitAborted, Ready, NextIndex, TypeOK, Series
  <2>2. \A i \in Series : i # split_index + 1 => files'[i] = files[i]
    BY <2>1, Spoilt
  <2>3. Session = 0 .. split_index /\ Session' = 0 .. split_index
    BY <1>0, <2>1 DEF Session, SessionLength, Series
  <2>4. \A i \in 0 .. split_index : files'[i] = files[i]
    BY <1>0, <2>2 DEF Series
  <2> QED
    BY <2>3, <2>4 DEF SomeBroken
<1> QED
  BY <1>1, <1>2

(* packets_ and bytes_written_total are what a reader finds in the files of *)
(* the session, whatever splits failed and writes came out short, as long   *)
(* as no record was written behind a fragment; then they are more.          *)
THEOREM TotalsExact == Spec => []TotalsMatchFiles
<1> DEFINE Exact == total_packets = Len(Recorded.packets) /\ total_bytes = Recorded.bytes
           More == total_packets > Len(Recorded.packets) /\ total_bytes > Recorded.bytes
<1>0. TotalsMatchFiles <=> (opened => IF SomeBroken THEN More ELSE Exact)
  BY DEF TotalsMatchFiles, SomeBroken
<1>1. Init => TotalsMatchFiles
  BY DEF Init, TotalsMatchFiles
<1>2. IInv /\ TotalsMatchFiles /\ [Next]_vars => TotalsMatchFiles'
  <2> SUFFICES ASSUME IInv, TotalsMatchFiles, [Next]_vars PROVE TotalsMatchFiles'
    OBVIOUS
  <2>1. CASE UNCHANGED <<opened, file, split_index, totals, files>>
    BY <2>1 DEF TotalsMatchFiles, Recorded, SessionLength, Session, totals
  <2>2. CASE ~opened'
    BY <2>2 DEF TotalsMatchFiles
  <2>3. ASSUME NEW s \in Snaplens, OpenFails(s) PROVE TotalsMatchFiles'
    BY <2>1, <2>2, <2>3 DEF OpenFails, Zeroed
  <2>4. ASSUME NEW s \in Snaplens, NEW t \in Thresholds, OpenOk(s, t) PROVE TotalsMatchFiles'
    <3>1. Len(NothingRead.packets) = 0 /\ NothingRead.bytes = 0
      BY DEF NothingRead
    <3>2. /\ opened' /\ file' /\ split_index' = 0 /\ files' = [files EXCEPT ![0] = Fresh]
          /\ 0 \in Series /\ files \in [Series -> Contents]
      BY <2>4 DEF OpenOk, SplitOpens, IInv, TypeOK, Series
    <3>3. Session' = {0} /\ ~files'[0].broken
      BY <3>2, NewFiles DEF Session, SessionLength
    <3>4. ~SomeBroken'
      BY <3>3 DEF SomeBroken
    <3> QED
      BY <3>1, <3>4, <2>4, OpenedEmpty DEF TotalsMatchFiles, SomeBroken
  <2>5. ASSUME NEW p \in Packet, WriteOk(p) PROVE TotalsMatchFiles'
    <3>1. PICK k \in Nat : k = Required(p) /\ k > 0
      BY Sizes DEF IInv
    <3>2. /\ total_packets' = total_packets + 1 /\ total_bytes' = total_bytes + k
          /\ opened /\ total_packets \in Nat /\ total_bytes \in Nat
      BY <2>5, <3>1 DEF WriteOk, Appended, Ready, IInv, TypeOK
    <3>3. Recorded.packets \in Seq(Packet) /\ Recorded.bytes \in Int
      BY FoundType DEF Found
    <3>4. Len(Append(Recorded.packets, p)) = Len(Recorded.packets) + 1 /\ Len(Recorded.packets) \in Nat
      BY <3>3
    <3>5. IF SomeBroken THEN More ELSE Exact
      BY <1>0, <3>2
    <3>6. CASE WriteTarget(p).contents.tail = 0
      <4>1. /\ Recorded'.packets = Append(Recorded.packets, p) /\ Recorded'.bytes = Recorded.bytes + k
            /\ SomeBroken' <=> SomeBroken
        BY <2>5, <3>1, <3>6, RecordFound, RecordPlaced
      <4>2. IF SomeBroken' THEN More' ELSE Exact'
        BY <3>2, <3>3, <3>4, <3>5, <4>1
      <4> QED
        BY <4>2 DEF TotalsMatchFiles, SomeBroken
    <3>7. CASE WriteTarget(p).contents.tail # 0
      <4>1. Recorded' = Recorded /\ SomeBroken'
        BY <2>5, <3>7, RecordFound, RecordPlaced
      <4>2. More'
        BY <3>1, <3>2, <3>3, <3>4, <3>5, <4>1
      <4> QED
        BY <4>1, <4>2 DEF TotalsMatchFiles, SomeBroken
    <3> QED
      BY <3>6, <3>7
  <2>6. ASSUME NEW p \in Packet, WriteShort(p) \/ SplitAborted(p) PROVE TotalsMatchFiles'
    <3>1. /\ Recorded' = Recorded /\ total_packets' = total_packets /\ total_bytes' = total_bytes
          /\ opened /\ (SomeBroken' <=> SomeBroken)
      BY <2>6, NothingFound, NothingPlaced DEF totals
    <3> QED
      BY <3>1 DEF TotalsMatchFiles, SomeBroken
  <2>7. ASSUME NEW p \in Packet, WriteRefused(p) PROVE TotalsMatchFiles'
    BY <2>1, <2>7 DEF WriteRefused
  <2>8. CASE Close
    BY <2>1, <2>2, <2>8 DEF Close, Zeroed
  <2>9. CASE UNCHANGED vars
    BY <2>1, <2>9 DEF vars
  <2> QED
    BY <2>3, <2>4, <2>5, <2>6, <2>7, <2>8, <2>9 DEF Next
<1> QED
  BY <1>1, <1>2, Invariant, PTL DEF Spec

(* The series of files implements the log of a capture: pcap_writer_open    *)
(* and close clear it, a write that returns ESP_OK appends its packet, or   *)
(* loses it behind a fragment, and every other call answers with an error   *)
(* and changes nothing a reader finds.                                      *)
THEOREM ImplementsLog == Spec => LogSpec
<1>0. Damaged \in BOOLEAN /\ Damaged' \in BOOLEAN
  BY DEF Damaged
<1>1. Init => Log!Init
  BY NoSession DEF Init, Log!Init, NothingRead, Damaged
<1>2. IInv /\ [Next]_vars => [Log!Next]_Log!vars
  <2> SUFFICES ASSUME IInv, [Next]_vars PROVE [Log!Next]_Log!vars
    OBVIOUS
  <2>1. CASE UNCHANGED Recorded /\ result' \in Codes \ {"OK"}
    BY <1>0, <2>1 DEF Log!Next, Log!Refuse
  <2>2. CASE Recorded' = NothingRead /\ ~Damaged' /\ result' = "OK"
    <3>1. Damaged' = FALSE
      BY <1>0, <2>2
    <3> QED
      BY <2>2, <3>1 DEF Log!Next, Log!Clear, NothingRead
  <2>3. CASE UNCHANGED <<opened, file, split_index, files>> /\ result' \in Codes \ {"OK"}
    BY <2>1, <2>3 DEF Recorded, SessionLength
  <2>4. ASSUME NEW s \in Snaplens, OpenFails(s) PROVE [Log!Next]_Log!vars
    <3>1. CASE ~opened /\ ~opened' /\ result' = "FAIL"
      BY <3>1, <2>1, NoSession DEF Codes
    <3> QED
      BY <3>1, <2>3, <2>4 DEF OpenFails, Zeroed, Codes
  <2>5. ASSUME NEW s \in Snaplens, NEW t \in Thresholds, OpenOk(s, t) PROVE [Log!Next]_Log!vars
    <3>1. /\ split_index' = 0 /\ files' = [files EXCEPT ![0] = Fresh]
          /\ 0 \in Series /\ files \in [Series -> Contents]
      BY <2>5 DEF OpenOk, SplitOpens, IInv, TypeOK, Series
    <3>2. files'[split_index'].tail = 0
      BY <3>1, NewFiles
    <3> QED
      BY <2>2, <2>5, <3>2, OpenedEmpty DEF Damaged
  <2>6. ASSUME NEW p \in Packet, WriteOk(p) PROVE [Log!Next]_Log!vars
    <3>1. result' = "OK"
      BY <2>6 DEF WriteOk
    <3>2. CASE WriteTarget(p).contents.tail = 0
      <4>1. Recorded'.packets = Append(Recorded.packets, p) /\ Damaged' = FALSE
        BY <1>0, <2>6, <3>2, RecordFound, RecordPlaced
      <4> QED
        BY <3>1, <4>1 DEF Log!Next, Log!Take
    <3>3. CASE WriteTarget(p).contents.tail # 0
      <4>1. Recorded' = Recorded /\ Damaged = TRUE /\ Damaged' = TRUE
        BY <1>0, <2>6, <3>3, RecordFound, RecordPlaced
      <4> QED
        BY <3>1, <4>1 DEF Log!Next, Log!Lose
    <3> QED
      BY <3>2, <3>3
  <2>7. ASSUME NEW p \in Packet, WriteShort(p) \/ SplitAborted(p) PROVE [Log!Next]_Log!vars
    BY <2>1, <2>7, NothingFound DEF Codes
  <2>8. ASSUME NEW p \in Packet, WriteRefused(p) PROVE [Log!Next]_Log!vars
    BY <2>3, <2>8 DEF WriteRefused, Codes
  <2>9. CASE Close
    <3>1. ~opened' /\ result' = "OK" /\ ~file'
      BY <2>9 DEF Close, Zeroed, IInv, TypeOK
    <3> QED
      BY <3>1, <2>2, NoSession DEF Damaged
  <2>10. CASE UNCHANGED vars
    BY <2>10 DEF vars, Log!vars, Recorded, SessionLength, Damaged
  <2> QED
    BY <2>4, <2>5, <2>6, <2>7, <2>8, <2>9, <2>10 DEF Next
<1> QED
  BY <1>1, <1>2, Invariant, PTL DEF Spec, LogSpec, Log!Spec

----------------------------------------------------------------------------
(* No file of the series has a fragment in it.                                 *)
Whole == \A i \in Series : files[i].tail = 0 /\ ~files[i].broken

(* While the files are whole, a call that does not answer ESP_FAIL leaves them *)
(* whole, and the first one that does still leaves files a reader takes up to  *)
(* their last record: StandardFiles is lost only by writing on after that.     *)
FragmentsAnnounced == [][Whole => StandardFiles' /\ (result' # "FAIL" => Whole')]_vars

(* One file changes, to one that is not broken, and that has no fragment       *)
(* unless the call fails.                                                      *)
LEMMA WholeKept ==
  ASSUME IInv, Whole, NEW i \in Series, NEW f \in Contents,
         files' = [files EXCEPT ![i] = f], ~f.broken, result' # "FAIL" => f.tail = 0
  PROVE  StandardFiles' /\ (result' # "FAIL" => Whole')
<1>1. files \in [Series -> Contents]
  BY DEF IInv, TypeOK
<1>2. \A j \in Series : files'[j] = IF j = i THEN f ELSE files[j]
  BY <1>1
<1> QED
  BY <1>2 DEF Whole, StandardFiles

(* A capture whose calls all went through, or that is closed when one fails,   *)
(* is made of standard files: what documents promise of every capture.         *)
THEOREM StandardUntilWrittenOn == Spec => FragmentsAnnounced
<1>1. ASSUME IInv, Whole, Next
      PROVE  StandardFiles' /\ (result' # "FAIL" => Whole')
  <2>1. /\ files \in [Series -> Contents] /\ 0 \in Series /\ split_index \in Series
        /\ \A i \in Series : files[i].tail = 0 /\ ~files[i].broken
    BY <1>1 DEF IInv, TypeOK, Whole, Series
  <2>2. Fresh \in Contents /\ Fresh.tail = 0 /\ ~Fresh.broken
    BY NewFiles
  <2>3. \A n \in 0 .. GlobalHeader - 1 : Truncated(n) \in Contents /\ ~Truncated(n).broken
    BY NewFiles
  <2>4. CASE UNCHANGED files
    BY <1>1, <2>4 DEF Whole, StandardFiles
  <2>5. ASSUME NEW i \in Series, SplitFails(i), result' = "FAIL"
        PROVE  StandardFiles' /\ (result' # "FAIL" => Whole')
    <3>1. ASSUME NEW n \in 0 .. GlobalHeader - 1, files' = [files EXCEPT ![i] = Truncated(n)]
          PROVE  StandardFiles' /\ (result' # "FAIL" => Whole')
      BY <1>1, <2>3, <2>5, <3>1, WholeKept
    <3> QED
      BY <2>4, <2>5, <3>1 DEF SplitFails
  <2>6. ASSUME NEW s \in Snaplens, OpenFails(s) \/ \E t \in Thresholds : OpenOk(s, t)
        PROVE  StandardFiles' /\ (result' # "FAIL" => Whole')
    <3>1. CASE OpenFails(s)
      BY <3>1, <2>1, <2>4, <2>5 DEF OpenFails
    <3>2. ASSUME NEW t \in Thresholds, OpenOk(s, t)
          PROVE  StandardFiles' /\ (result' # "FAIL" => Whole')
      BY <1>1, <3>2, <2>1, <2>2, WholeKept DEF OpenOk, SplitOpens
    <3> QED
      BY <2>6, <3>1, <3>2
  <2>7. ASSUME NEW p \in Packet, WriteOk(p) \/ WriteShort(p)
        PROVE  StandardFiles' /\ (result' # "FAIL" => Whole')
    <3> DEFINE t == WriteTarget(p)
    <3>1. /\ t.index \in Series /\ t.contents \in Contents
          /\ t.contents.tail = 0 /\ ~t.contents.broken
      BY <2>1, <2>2, <2>7 DEF WriteTarget, NextIndex, Series, WriteOk, WriteShort
    <3>2. CASE WriteOk(p)
      <4>1. PICK k \in Nat : k = Required(p)
        BY <1>1, Sizes DEF IInv
      <4>2. PICK g : g = WithRecord(t.contents, p, k) /\ files' = [files EXCEPT ![t.index] = g]
        BY <3>2, <4>1 DEF WriteOk, Appended
      <4>3. g \in Contents /\ g.tail = 0 /\ ~g.broken
        <5>1. PICK c \in Contents : c = t.contents
          BY <3>1
        <5>2. c.tail = 0 /\ ~c.broken /\ g = WithRecord(c, p, k)
          BY <3>1, <4>2, <5>1
        <5> QED
          BY <5>2, OneMore
      <4> HIDE DEF t
      <4> QED
        BY <1>1, <3>1, <4>2, <4>3, WholeKept
    <3>3. CASE WriteShort(p)
      <4>1. PICK k \in Nat : files' = [files EXCEPT ![t.index] = WithFragment(t.contents, k)]
        <5>1. PICK k \in Fragments(t.contents, p) :
                files' = [files EXCEPT ![t.index] = WithFragment(t.contents, k)]
          BY <3>3 DEF WriteShort, Fragmented
        <5>2. k \in Nat
          BY <1>1, FragmentSizes DEF IInv
        <5> QED
          BY <5>1, <5>2
      <4>2. PICK g : /\ k \in Nat /\ g = WithFragment(t.contents, k)
                     /\ files' = [files EXCEPT ![t.index] = g]
        BY <4>1
      <4>3. g \in Contents /\ ~g.broken
        <5>1. PICK c \in Contents : c = t.contents
          BY <3>1
        <5>2. ~c.broken /\ g = WithFragment(c, k)
          BY <3>1, <4>2, <5>1
        <5> QED
          BY <5>2, Torn
      <4>4. result' = "FAIL"
        BY <3>3 DEF WriteShort
      <4> HIDE DEF t
      <4> QED
        BY <1>1, <3>1, <4>2, <4>3, <4>4, WholeKept
    <3> QED
      BY <2>7, <3>2, <3>3
  <2>8. ASSUME NEW p \in Packet, SplitAborted(p)
        PROVE  StandardFiles' /\ (result' # "FAIL" => Whole')
    <3>1. NextIndex \in Series
      BY <2>1, <2>8 DEF SplitAborted, NextIndex, Series
    <3> QED
      BY <2>8, <3>1, <2>5 DEF SplitAborted
  <2> QED
    BY <1>1, <2>4, <2>6, <2>7, <2>8 DEF Next, WriteRefused, Close
<1>2. IInv /\ [Next]_vars => [Whole => StandardFiles' /\ (result' # "FAIL" => Whole')]_vars
  BY <1>1
<1> QED
  BY <1>2, Invariant, PTL DEF Spec, FragmentsAnnounced
=============================================================================
