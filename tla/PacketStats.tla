----------------------------- MODULE PacketStats -----------------------------
(***************************************************************************)
(* packet_engine/src/packet_stats.c: counters over the packets reported to *)
(* packet_stats_on_packet since packet_stats_init, the histogram of their  *)
(* signal strength, and the packets per second.  The history variable seen *)
(* holds what was reported; the properties compare the counters with it.   *)
(* Times are in units of a fraction of a second, of which Second make one. *)
(***************************************************************************)
EXTENDS Integers, Sequences, FiniteSets

CONSTANTS Report,         \* [type, subtype, len, rssi]: arguments but the timestamp
          NoRssi,         \* the rssi of a report with has_rssi FALSE
          Time,           \* timestamp_us arguments
          Second,         \* 1000000
          Types,          \* 4
          Subtypes,       \* PACKET_STATS_MAX_SUBTYPE
          RssiMin, RssiMax, BinDbm,     \* PACKET_STATS_RSSI_*
          MaxSeen         \* bound of the model on the packets reported since init

ASSUME StatsConstants ==
  /\ Second \in Nat \ {0} /\ Types \in Nat \ {0} /\ Subtypes \in Nat \ {0}
  /\ RssiMin \in Int /\ RssiMax \in Int /\ RssiMin <= RssiMax /\ BinDbm \in Nat \ {0}
  /\ NoRssi \notin Int
  /\ Report \subseteq [type : Nat, subtype : Nat, len : Nat, rssi : Int \cup {NoRssi}]
  /\ Time \subseteq Nat
  /\ MaxSeen \in Nat

VARIABLES
  total_packets, total_bytes,
  packets_per_type, packets_per_subtype, rssi_histogram,
  window_start, window_packet_count,      \* window_start_us
  last_window_pps,
  seen                                    \* history: the reports, with their time

counters == <<total_packets, total_bytes, packets_per_type, packets_per_subtype, rssi_histogram>>
window == <<window_start, window_packet_count, last_window_pps>>
vars == <<counters, window, seen>>

BinCount == (RssiMax - RssiMin) \div BinDbm + 1     \* PACKET_STATS_RSSI_BIN_COUNT
Bins == 0 .. BinCount - 1

None == [type |-> [t \in 0 .. Types - 1 |-> 0],
         subtype |-> [s \in 0 .. Subtypes - 1 |-> 0],
         bin |-> [b \in Bins |-> 0]]

Init ==
  /\ total_packets = 0 /\ total_bytes = 0
  /\ packets_per_type = None.type /\ packets_per_subtype = None.subtype
  /\ rssi_histogram = None.bin
  /\ window_start = 0 /\ window_packet_count = 0 /\ last_window_pps = 0
  /\ seen = <<>>

----------------------------------------------------------------------------
\* rssi_to_bin: the value is cut to the range first.
Clamped(v) == IF v < RssiMin THEN RssiMin ELSE IF v > RssiMax THEN RssiMax ELSE v
MutantRssiToBin(v) == (Clamped(v) - RssiMin + BinDbm - 1) \div BinDbm
RssiToBin(v) ==
  LET bin == (Clamped(v) - RssiMin) \div BinDbm
  IN  IF bin >= BinCount THEN BinCount - 1 ELSE bin

\* f[k]++, when k is an index of the array.
Bumped(f, k) == IF k \in DOMAIN f THEN [f EXCEPT ![k] = @ + 1] ELSE f

\* The window a packet of time t finds: the first packet starts it.
Started(t) == IF window_start = 0 THEN t ELSE window_start
MutantWindowOver(t) == t > Started(t) + Second
WindowOver(t) == t >= Started(t) + Second

\* The next window starts whole seconds later, so that the packet is in it.
MutantNextWindow(t) == t
NextWindow(t) == Started(t) + ((t - Started(t)) \div Second) * Second

Rolls(t) ==
  IF WindowOver(t)
  THEN /\ last_window_pps' = window_packet_count
       /\ window_packet_count' = 1
       /\ window_start' = NextWindow(t)
  ELSE /\ window_start' = Started(t)
       /\ window_packet_count' = window_packet_count + 1
       /\ UNCHANGED last_window_pps

OnPacket(r, t) ==
  /\ Len(seen) < MaxSeen
  /\ total_packets' = total_packets + 1
  /\ total_bytes' = total_bytes + r.len
  /\ packets_per_type' = Bumped(packets_per_type, r.type)
  /\ packets_per_subtype' = Bumped(packets_per_subtype, r.subtype)
  /\ rssi_histogram' = IF r.rssi = NoRssi THEN rssi_histogram
                       ELSE Bumped(rssi_histogram, RssiToBin(r.rssi))
  /\ Rolls(t)
  /\ seen' = Append(seen, [report |-> r, time |-> t])

\* packet_stats_init on a structure in use.
Zeroed ==
  /\ total_packets' = 0 /\ total_bytes' = 0
  /\ packets_per_type' = None.type /\ packets_per_subtype' = None.subtype
  /\ rssi_histogram' = None.bin
Reset ==
  /\ Zeroed
  /\ window_start' = 0 /\ window_packet_count' = 0 /\ last_window_pps' = 0
  /\ seen' = <<>>

Next ==
  \/ \E r \in Report, t \in Time : OnPacket(r, t)
  \/ Reset

Spec == Init /\ [][Next]_vars

----------------------------------------------------------------------------
\* The reports that satisfy a condition, counted.
CountSeen(P(_)) == Cardinality({i \in DOMAIN seen : P(seen[i])})

\* Types.
TypeOK ==
  /\ total_packets \in Nat /\ total_bytes \in Nat
  /\ packets_per_type \in [0 .. Types - 1 -> Nat]
  /\ packets_per_subtype \in [0 .. Subtypes - 1 -> Nat]
  /\ rssi_histogram \in [Bins -> Nat]
  /\ window_start \in Nat /\ window_packet_count \in Nat /\ last_window_pps \in Nat
  /\ seen \in Seq([report : Report, time : Time])

\* The range of a bin, as packet_stats_print labels it.
Low(b) == RssiMin + b * BinDbm
High(b) == Low(b) + BinDbm - 1

\* Each count is of the reports it is labelled with: a type or subtype out of range
\* is in the total only, and what lies outside the histogram is in its outer bins.
CountsAsLabelled ==
  /\ total_packets = Len(seen)
  /\ \A t \in 0 .. Types - 1 : packets_per_type[t] = CountSeen(LAMBDA p : p.report.type = t)
  /\ \A s \in 0 .. Subtypes - 1 :
       packets_per_subtype[s] = CountSeen(LAMBDA p : p.report.subtype = s)
  /\ \A b \in Bins :
       rssi_histogram[b] = CountSeen(LAMBDA p : /\ p.report.rssi # NoRssi
                                                /\ Clamped(p.report.rssi) \in Low(b) .. High(b))

\* Packets were reported in the order of their time, which is after the boot.
InOrder ==
  /\ \A i \in DOMAIN seen : seen[i].time > 0
  /\ \A i, j \in DOMAIN seen : i < j => seen[i].time <= seen[j].time

\* Time cut into seconds from the first packet on; the second a report is in.
SecondOf(p) == (p.time - seen[1].time) \div Second
Latest == SecondOf(seen[Len(seen)])
Earlier == {SecondOf(seen[i]) : i \in DOMAIN seen} \ {Latest}

\* The rate reported is the number of packets of one whole second, the last one
\* before the current one in which there were any, and the packets of the current one
\* are all counted towards the next, however long nothing came in between.
ConsecutiveSeconds ==
  InOrder /\ seen # <<>> =>
    /\ window_packet_count = CountSeen(LAMBDA p : SecondOf(p) = Latest)
    /\ IF Earlier = {} THEN last_window_pps = 0
       ELSE \E s \in Earlier : /\ \A u \in Earlier : u <= s
                               /\ last_window_pps = CountSeen(LAMBDA p : SecondOf(p) = s)

\* What docs/packet-engine/packet-stats.md:20 calls last_window_pps, a rate over a
\* "sliding 1-second window": the packets of the second that ends with the latest.
Sliding == CountSeen(LAMBDA p : p.time > seen[Len(seen)].time - Second)

\* packet_stats_on_packet counts consecutive seconds and not, as the document has it,
\* a sliding one.  The rate is that of a whole second, and the sliding one lies within
\* the count of the second going on and that count with the rate reported added to it;
\* last_window_pps by itself is not bound to it (README, section 7).
WindowIsASecond ==
  /\ ConsecutiveSeconds
  /\ InOrder /\ seen # <<>> =>
       Sliding \in window_packet_count .. window_packet_count + last_window_pps

\* In whatever order the packets of several radios come, the current window is made
\* of the latest reports, all of those that are not before its start among them, and
\* none lies behind its end.
WindowHoldsLatest ==
  \A i \in DOMAIN seen :
    /\ seen[i].time < window_start + Second
    /\ seen[i].time >= window_start => i > Len(seen) - window_packet_count
=============================================================================
