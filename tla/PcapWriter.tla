----------------------------- MODULE PcapWriter -----------------------------
(***************************************************************************)
(* packet_engine/src/pcap_writer.c: packets appended to a capture file,    *)
(* which is left for the next one of a numbered series when it would grow  *)
(* past a threshold.  Any fopen may fail and any fwrite may come back      *)
(* short: what it wrote then stays in the file.  A file is what a reader   *)
(* makes of it: whether the global header is there, the packets of the     *)
(* records before the first fragment, the bytes up to there (whole) and    *)
(* from there on (tail), and whether a whole record lies behind a fragment *)
(* (broken), where a reader does not find it.                              *)
(***************************************************************************)
EXTENDS Integers, Sequences

CONSTANTS Packet,            \* arguments of pcap_writer_write_packet
          Size,              \* Size[p]: the length argument
          GlobalHeader,      \* sizeof(pcap_global_header_t)
          RecordHeader,      \* sizeof(pcap_record_header_t)
          Snaplens,          \* snaplen arguments of open
          Thresholds,        \* split_threshold_bytes arguments of open, 0 for "never"
          MaxSplit,          \* bound of the model on split_index
          MaxTail,           \* bound of the model on the tail a short write makes
          MaxWrites          \* bound of the model on packets_written_total

ASSUME PcapConstants ==
  /\ Size \in [Packet -> Nat]
  /\ GlobalHeader \in Nat \ {0} /\ RecordHeader \in Nat \ {0}
  /\ Snaplens \subseteq Nat /\ Thresholds \subseteq Nat
  /\ MaxSplit \in Nat /\ MaxTail \in Nat /\ MaxWrites \in Nat

VARIABLES
  opened, file,                         \* file: a FILE is open (TRUE) or NULL
  split_index, split_threshold, snaplen,
  current_bytes, current_packets,       \* bytes_ and packets_written_current_file
  total_bytes, total_packets,           \* bytes_ and packets_written_total
  files,                                \* the series on the card: index -> contents
  result                                \* code of the last call

config == <<split_threshold, snaplen>>
current == <<current_bytes, current_packets>>
totals == <<total_bytes, total_packets>>
vars == <<opened, file, split_index, config, current, totals, files, result>>

Codes == {"OK", "FAIL", "INVALID_STATE", "INVALID_SIZE"}
Series == 0 .. MaxSplit
Contents == [header : BOOLEAN, packets : Seq(Packet), whole : Nat, tail : Nat, broken : BOOLEAN]
Fresh == [header |-> TRUE, packets |-> <<>>, whole |-> GlobalHeader, tail |-> 0, broken |-> FALSE]
\* The first n bytes of a global header, which no reader accepts.
Truncated(n) == [header |-> FALSE, packets |-> <<>>, whole |-> 0, tail |-> n, broken |-> FALSE]
Absent == Truncated(0)
SizeOf(f) == f.whole + f.tail

Included(p) == IF Size[p] > snaplen THEN snaplen ELSE Size[p]
Required(p) == RecordHeader + Included(p)

Init ==
  /\ opened = FALSE /\ file = FALSE
  /\ split_index = 0 /\ split_threshold = 0 /\ snaplen = 0
  /\ current_bytes = 0 /\ current_packets = 0
  /\ total_bytes = 0 /\ total_packets = 0
  /\ files = [i \in Series |-> Absent]
  /\ result = "OK"

----------------------------------------------------------------------------
\* open_split_file on index i.  It succeeds, or fopen fails, or the global
\* header comes out short and leaves a file no reader accepts.

MutantKeepsCurrent(i) ==
  /\ files' = [files EXCEPT ![i] = Fresh]
  /\ file' = TRUE
  /\ UNCHANGED <<current_bytes, current_packets>>
SplitOpens(i) ==
  /\ files' = [files EXCEPT ![i] = Fresh]
  /\ file' = TRUE
  /\ current_bytes' = GlobalHeader /\ current_packets' = 0

SplitFails(i) ==
  \/ UNCHANGED files
  \/ \E n \in 0 .. GlobalHeader - 1 : files' = [files EXCEPT ![i] = Truncated(n)]

\* pcap_writer_open_ex, pcap_writer_open with its default limits among them.
OpenOk(s, t) ==
  /\ ~opened /\ s # 0
  /\ opened' = TRUE
  /\ snaplen' = s /\ split_threshold' = t /\ split_index' = 0
  /\ SplitOpens(0)
  /\ total_bytes' = 0 /\ total_packets' = 0
  /\ result' = "OK"

Zeroed ==
  /\ opened' = FALSE /\ file' = FALSE
  /\ split_index' = 0 /\ split_threshold' = 0 /\ snaplen' = 0
  /\ current_bytes' = 0 /\ current_packets' = 0
  /\ total_bytes' = 0 /\ total_packets' = 0

OpenFails(s) ==
  \/ s = 0 /\ result' = "INVALID_SIZE"
     /\ UNCHANGED <<opened, file, split_index, config, current, totals, files>>
  \/ s # 0 /\ opened /\ result' = "INVALID_STATE"
     /\ UNCHANGED <<opened, file, split_index, config, current, totals, files>>
  \/ s # 0 /\ ~opened /\ result' = "FAIL" /\ Zeroed /\ SplitFails(0)

----------------------------------------------------------------------------
\* pcap_writer_write_packet

MutantNeedsSplitLate(p) ==
  split_threshold > 0 /\ current_packets > 0 /\ current_bytes > split_threshold
NeedsSplit(p) ==
  /\ split_threshold > 0
  /\ current_bytes > 0
  /\ current_bytes + Required(p) > split_threshold
  /\ current_packets > 0

MutantNextIndex == split_index
NextIndex == split_index + 1

Ready(p) == opened /\ file /\ Size[p] # 0 /\ total_packets < MaxWrites

\* A whole record of p, of n bytes, at the end of file f: for a reader only where no
\* fragment comes before it.
WithRecord(f, p, n) ==
  IF f.tail = 0 THEN [f EXCEPT !.packets = Append(f.packets, p), !.whole = f.whole + n]
                ELSE [f EXCEPT !.tail = f.tail + n, !.broken = TRUE]

\* The first n bytes of a record.
WithFragment(f, n) == [f EXCEPT !.tail = f.tail + n]

\* Both fwrites of the record go through, to file i with contents f.
Appended(i, f, p) ==
  /\ files' = [files EXCEPT ![i] = WithRecord(f, p, Required(p))]
  /\ current_bytes' = (IF NeedsSplit(p) THEN GlobalHeader ELSE current_bytes) + Required(p)
  /\ current_packets' = (IF NeedsSplit(p) THEN 0 ELSE current_packets) + 1
  /\ total_bytes' = total_bytes + Required(p)
  /\ total_packets' = total_packets + 1

\* How much of a record of p a short write may leave at the end of f.
Fragments(f, p) == {n \in 0 .. Required(p) - 1 : n = 0 \/ f.tail + n <= MaxTail}

MutantShortCounted(i, f, p) ==
  /\ \E n \in Fragments(f, p) : files' = [files EXCEPT ![i] = WithFragment(f, n)]
  /\ current_bytes' = (IF NeedsSplit(p) THEN GlobalHeader ELSE current_bytes)
  /\ current_packets' = (IF NeedsSplit(p) THEN 0 ELSE current_packets)
  /\ total_bytes' = total_bytes + Required(p)
  /\ total_packets' = total_packets + 1
\* One of them is short, and what it wrote stays in the file without being counted.
Fragmented(i, f, p) ==
  /\ \E n \in Fragments(f, p) : files' = [files EXCEPT ![i] = WithFragment(f, n)]
  /\ current_bytes' = (IF NeedsSplit(p) THEN GlobalHeader ELSE current_bytes)
  /\ current_packets' = (IF NeedsSplit(p) THEN 0 ELSE current_packets)
  /\ UNCHANGED totals

\* The record goes to the file in use, or to the next one, opened for it.
WriteTarget(p) == IF NeedsSplit(p) THEN [index |-> NextIndex, contents |-> Fresh]
                                   ELSE [index |-> split_index, contents |-> files[split_index]]

WriteOk(p) ==
  LET t == WriteTarget(p) IN
  /\ Ready(p) /\ t.index <= MaxSplit
  /\ split_index' = t.index
  /\ Appended(t.index, t.contents, p)
  /\ result' = "OK"
  /\ UNCHANGED <<opened, file, config>>

WriteShort(p) ==
  LET t == WriteTarget(p) IN
  /\ Ready(p) /\ t.index <= MaxSplit
  /\ split_index' = t.index
  /\ Fragmented(t.index, t.contents, p)
  /\ result' = "FAIL"
  /\ UNCHANGED <<opened, file, config>>

\* The old file is closed, the next cannot be opened: the writer stays open
\* without a file, with the counters of the old one.
SplitAborted(p) ==
  /\ Ready(p) /\ NeedsSplit(p) /\ NextIndex <= MaxSplit
  /\ split_index' = NextIndex
  /\ file' = FALSE
  /\ SplitFails(NextIndex)
  /\ result' = "FAIL"
  /\ UNCHANGED <<opened, config, current, totals>>

WriteRefused(p) ==
  /\ \/ (~opened \/ ~file) /\ result' = "INVALID_STATE"
     \/ opened /\ file /\ Size[p] = 0 /\ result' = "INVALID_SIZE"
  /\ UNCHANGED <<opened, file, split_index, config, current, totals, files>>

\* pcap_writer_close; the results of fflush and fclose are not looked at.
Close ==
  /\ IF opened THEN Zeroed
     ELSE UNCHANGED <<opened, file, split_index, config, current, totals>>
  /\ result' = "OK"
  /\ UNCHANGED files

Next ==
  \/ \E s \in Snaplens : OpenFails(s) \/ \E t \in Thresholds : OpenOk(s, t)
  \/ \E p \in Packet : WriteOk(p) \/ WriteShort(p) \/ SplitAborted(p) \/ WriteRefused(p)
  \/ Close

Spec == Init /\ [][Next]_vars

----------------------------------------------------------------------------
\* Types, and that a writer which is not open has no FILE to leak.
TypeOK ==
  /\ file => opened
  /\ opened \in BOOLEAN /\ file \in BOOLEAN
  /\ split_index \in Series /\ split_threshold \in Nat /\ snaplen \in Nat
  /\ current_bytes \in Nat /\ current_packets \in Nat
  /\ total_bytes \in Nat /\ total_packets \in Nat
  /\ files \in [Series -> Contents]
  /\ result \in Codes

\* The files this session wrote, and how many.  The index of a split that failed is not
\* one: where fopen failed, what an earlier capture left there is still on the card.
SessionLength == IF ~opened THEN 0 ELSE IF file THEN split_index + 1 ELSE split_index
Session == 0 .. (SessionLength - 1)

\* As far as a reader gets in it, no file of a session exceeds the threshold, unless
\* it holds a single packet too large for any file.  That is its size when no write
\* to it was short; one with a fragment may be longer, by what no counter knows of.
SplitBound ==
  split_threshold > 0 =>
    \A i \in Session : Len(files[i].packets) > 1 => files[i].whole <= split_threshold

\* The counters for the current file count the records acknowledged in the last file
\* written, also after a failed split: they are the size of that file until a write to
\* it is short; a fragment is in the file and in no counter; and the records behind it
\* are counted although no reader finds them.
CountersMatchFile ==
  opened =>
    LET f == files[SessionLength - 1] IN
    /\ f.header
    /\ IF f.broken
       THEN /\ f.whole < current_bytes /\ current_bytes < SizeOf(f)
            /\ Len(f.packets) < current_packets
       ELSE current_bytes = f.whole /\ current_packets = Len(f.packets)

\* A file of the series is left alone once the writer moved on: a session never
\* truncates or appends to a file it has closed.
ClosedFilesFrozen ==
  [][opened /\ opened' =>
       /\ split_index' >= split_index
       /\ \A i \in Series : i < split_index' => files'[i] = files[i]
       /\ split_index' = split_index =>
            Len(files'[split_index].packets) >= Len(files[split_index].packets)]_vars

\* What a reader finds in the first n files of the series fs, one after the other: the
\* packets, and the bytes of their records.  A file without a global header it rejects,
\* and in a file with a fragment it has lost the record boundaries from there on.
NothingRead == [packets |-> << >>, bytes |-> 0]
ThenFile(r, f) ==
  IF ~f.header THEN r
  ELSE [packets |-> r.packets \o f.packets, bytes |-> r.bytes + f.whole - GlobalHeader]
Reading(fs) ==
  LET read[n \in 0 .. MaxSplit + 1] == IF n = 0 THEN NothingRead
                                       ELSE ThenFile(read[n - 1], fs[n - 1])
  IN  read

Recorded == Reading(files)[SessionLength]

\* The totals of the session are what a reader finds in its files, through splits, failed
\* splits and short writes, as long as the caller does not write on in a file with a
\* fragment; from then on they count packets that no reader finds.
TotalsMatchFiles ==
  opened =>
    IF \E i \in Session : files[i].broken
    THEN total_packets > Len(Recorded.packets) /\ total_bytes > Recorded.bytes
    ELSE total_packets = Len(Recorded.packets) /\ total_bytes = Recorded.bytes

\* The file in use has a fragment: what is written next comes behind it.
Damaged == file /\ files[split_index].tail > 0

\* The series implements the log of a capture: what a reader finds in its files, one
\* after the other, are the packets that were acknowledged, in order, through splits,
\* splits that failed and short writes.  Packets are acknowledged and lost only between
\* a short write and the end of the file it left a fragment in.
Log == INSTANCE CaptureLog
         WITH Code <- Codes, log <- Recorded.packets, damaged <- Damaged, reply <- result
LogSpec == Log!Spec

\* docs/packet-engine/pcap-writer.md: captures are standard libpcap files, so no
\* whole record may follow a fragment of another.
StandardFiles == \A i \in Series : ~files[i].broken
=============================================================================
