------------------------- MODULE PacketStatsProofs --------------------------
(***************************************************************************)
(* What PacketStats.tla promises for any packets, types, ranges of signal  *)
(* strength, times and length of a second.  Counting what was reported is  *)
(* one more than before exactly when the new report is counted (Counted);  *)
(* a bin and a window are found by a division (Quotient).  The rate needs  *)
(* to know that, for packets in order, the window starts whole seconds     *)
(* after the first of them.                                                *)
(***************************************************************************)
EXTENDS PacketStats, FiniteSetTheorems, TLAPS

USE StatsConstants

----------------------------------------------------------------------------
LEMMA Times ==
  ASSUME NEW a \in Int, NEW b \in Int, NEW d \in Nat, a <= b
  PROVE  a * d <= b * d
  BY Z3

LEMMA Divided ==
  ASSUME NEW x \in Nat, NEW d \in Nat \ {0}
  PROVE  /\ x \div d \in Nat
         /\ (x \div d) * d <= x /\ x < (x \div d) * d + d
  BY Z3

(* The quotient is the number of whole d in x. *)
LEMMA Quotient ==
  ASSUME NEW x \in Nat, NEW d \in Nat \ {0}, NEW b \in Int
  PROVE  x \div d = b <=> b * d <= x /\ x < b * d + d
<1> DEFINE q == x \div d
<1>1. q \in Nat /\ q * d <= x /\ x < q * d + d
  BY Divided
<1> HIDE DEF q
<1>2. b * d \in Int /\ q * d \in Int /\ (b + 1) * d = b * d + d /\ (q + 1) * d = q * d + d
  BY <1>1, Z3
<1>3. ASSUME b * d <= x, x < b * d + d
      PROVE  q = b
  <2>1. CASE b + 1 <= q
    <3>1. (b + 1) * d <= q * d
      BY <1>1, <2>1, Times
    <3> QED
      BY <1>1, <1>2, <1>3, <3>1
  <2>2. CASE q + 1 <= b
    <3>1. (q + 1) * d <= b * d
      BY <1>1, <2>2, Times
    <3> QED
      BY <1>1, <1>2, <1>3, <3>1
  <2> QED
    BY <1>1, <2>1, <2>2
<1>4. q = b => b * d <= x /\ x < b * d + d
  BY <1>1
<1>5. q = b <=> b * d <= x /\ x < b * d + d
  BY <1>3, <1>4
<1> QED
  BY <1>5 DEF q

LEMMA QuotientMonotonic ==
  ASSUME NEW x \in Nat, NEW y \in Nat, NEW d \in Nat \ {0}, x <= y
  PROVE  x \div d <= y \div d
<1> DEFINE p == x \div d
           q == y \div d
<1>1. p \in Nat /\ p * d <= x
  BY Divided
<1>2. q \in Nat /\ y < q * d + d
  BY Divided
<1> HIDE DEF p, q
<1>3. p * d \in Int /\ q * d \in Int /\ (q + 1) * d = q * d + d
  BY <1>1, <1>2, Z3
<1>4. CASE q + 1 <= p
  <2>1. (q + 1) * d <= p * d
    BY <1>1, <1>2, <1>4, Times
  <2> QED
    BY <1>1, <1>2, <1>3, <2>1
<1>5. p <= q
  BY <1>1, <1>2, <1>4
<1> QED
  BY <1>5 DEF p, q

(* The numbers of some of n reports, and of one report more. *)
LEMMA Counted ==
  ASSUME NEW n \in Nat, NEW I \in SUBSET (1 .. n)
  PROVE  /\ Cardinality(I) \in Nat
         /\ Cardinality(I \cup {n + 1}) = Cardinality(I) + 1
<1>1. IsFiniteSet(1 .. n)
  BY FS_Interval
<1>2. IsFiniteSet(I)
  BY <1>1, FS_Subset
<1>3. n + 1 \notin I
  OBVIOUS
<1> QED
  BY <1>2, <1>3, FS_CardinalityType, FS_AddElement

----------------------------------------------------------------------------
(* A signal strength is counted in the bin whose range it is in, once cut to  *)
(* the range of the histogram.                                                *)
LEMMA BinOf ==
  ASSUME NEW v \in Int, NEW b \in Bins
  PROVE  /\ RssiToBin(v) \in Bins
         /\ RssiToBin(v) = b <=> Clamped(v) \in Low(b) .. High(b)
<1> DEFINE off == Clamped(v) - RssiMin
           bin == off \div BinDbm
           last == (RssiMax - RssiMin) \div BinDbm
<1>1. Clamped(v) \in RssiMin .. RssiMax
  BY DEF Clamped
<1>2. /\ off \in Nat /\ RssiMax - RssiMin \in Nat /\ off <= RssiMax - RssiMin
      /\ BinDbm \in Nat \ {0} /\ RssiMin \in Int
  BY <1>1
<1>3. Clamped(v) = RssiMin + off
  BY <1>1, <1>2
<1> HIDE DEF off
<1>4. bin \in Nat /\ last \in Nat
  BY <1>2, Divided
<1>5. bin <= last
  BY <1>2, QuotientMonotonic
<1>6. BinCount = last + 1 /\ Bins = 0 .. last /\ b \in Int
  BY <1>4 DEF BinCount, Bins
<1>7. bin = b <=> b * BinDbm <= off /\ off < b * BinDbm + BinDbm
  BY <1>2, <1>6, Quotient
<1>8. RssiToBin(v) = IF bin >= BinCount THEN BinCount - 1 ELSE bin
  BY DEF RssiToBin, off
<1> HIDE DEF bin, last
<1>9. RssiToBin(v) = bin /\ bin \in Bins
  BY <1>4, <1>5, <1>6, <1>8
<1>10. b * BinDbm \in Int
  BY <1>2, <1>6, Z3
<1>11. Clamped(v) \in Low(b) .. High(b) <=> b * BinDbm <= off /\ off < b * BinDbm + BinDbm
  <2> DEFINE m == b * BinDbm
  <2>1. Low(b) = RssiMin + m /\ High(b) = RssiMin + m + BinDbm - 1 /\ m \in Int
    BY <1>10 DEF Low, High
  <2> HIDE DEF m
  <2>2. Clamped(v) \in Low(b) .. High(b) <=> m <= off /\ off < m + BinDbm
    BY <1>2, <1>3, <2>1
  <2> QED
    BY <2>2 DEF m
<1> QED
  BY <1>7, <1>9, <1>11

(* A set of the first n + 1 reports has one more than that of the first n if   *)
(* the last report is in it.                                                  *)
LEMMA OneMore ==
  ASSUME NEW n \in Nat, NEW I \in SUBSET (1 .. n), NEW J \in SUBSET (1 .. n + 1),
         \A i \in 1 .. n : i \in J <=> i \in I
  PROVE  Cardinality(J) = IF n + 1 \in J THEN Cardinality(I) + 1 ELSE Cardinality(I)
<1>0. 1 .. n + 1 = (1 .. n) \cup {n + 1} /\ n + 1 \notin 1 .. n
  OBVIOUS
<1>1. CASE n + 1 \in J
  <2>1. J = I \cup {n + 1}
    BY <1>0, <1>1, Zenon
  <2> QED
    BY <1>1, <2>1, Counted
<1>2. CASE n + 1 \notin J
  <2>1. J = I
    BY <1>0, <1>2, Zenon
  <2> QED
    BY <1>2, <2>1
<1> QED
  BY <1>1, <1>2

Seen == [report : Report, time : Time]

LEMMA Appended ==
  ASSUME NEW s \in Seq(Seen), NEW e \in Seen, NEW u, u = Append(s, e)
  PROVE  /\ u \in Seq(Seen) /\ u # <<>>
         /\ Len(s) \in Nat /\ Len(u) = Len(s) + 1
         /\ DOMAIN s = 1 .. Len(s) /\ DOMAIN u = 1 .. Len(s) + 1
         /\ \A i \in 1 .. Len(s) : u[i] = s[i] /\ i \in DOMAIN s /\ i \in DOMAIN u
         /\ u[Len(s) + 1] = e
  OBVIOUS

LEMMA ReportType ==
  ASSUME NEW r \in Report, NEW t \in Time
  PROVE  /\ [report |-> r, time |-> t] \in Seen
         /\ r.type \in Nat /\ r.subtype \in Nat /\ r.len \in Nat
         /\ r.rssi \in Int \cup {NoRssi} /\ t \in Nat
  BY DEF Seen

(* f[k]++ adds one to the count at k and leaves the others. *)
LEMMA BumpedOne ==
  ASSUME NEW S, NEW f \in [S -> Nat], NEW k
  PROVE  /\ Bumped(f, k) \in [S -> Nat]
         /\ \A x \in S : Bumped(f, k)[x] = IF x = k THEN f[x] + 1 ELSE f[x]
<1>1. CASE k \in S
  BY <1>1 DEF Bumped
<1>2. CASE k \notin S
  BY <1>2 DEF Bumped
<1> QED
  BY <1>1, <1>2

----------------------------------------------------------------------------
LEMMA TypesKept ==
  ASSUME TypeOK, NEW r \in Report, NEW t \in Time, OnPacket(r, t)
  PROVE  TypeOK'
<1>1. /\ r.type \in Nat /\ r.subtype \in Nat /\ r.len \in Nat
      /\ r.rssi \in Int \cup {NoRssi} /\ t \in Nat
      /\ [report |-> r, time |-> t] \in Seen
  BY ReportType
<1>2. total_packets' \in Nat /\ total_bytes' \in Nat
  BY <1>1 DEF TypeOK, OnPacket
<1>3. /\ packets_per_type' \in [0 .. Types - 1 -> Nat]
      /\ packets_per_subtype' \in [0 .. Subtypes - 1 -> Nat]
  BY BumpedOne DEF TypeOK, OnPacket
<1>4. rssi_histogram' \in [Bins -> Nat]
  BY BumpedOne DEF TypeOK, OnPacket
<1>5. window_start' \in Nat /\ window_packet_count' \in Nat /\ last_window_pps' \in Nat
  <2>1. window_start \in Nat /\ window_packet_count \in Nat /\ last_window_pps \in Nat
    BY DEF TypeOK
  <2>2. Started(t) \in Nat
    BY <1>1, <2>1 DEF Started
  <2>3. CASE WindowOver(t)
    <3>1. t - Started(t) \in Nat
      BY <1>1, <2>2, <2>3 DEF WindowOver
    <3>2. ((t - Started(t)) \div Second) \in Nat
      BY <3>1, Divided
    <3>3. ((t - Started(t)) \div Second) * Second \in Nat
      BY <3>2, Z3
    <3>4. NextWindow(t) \in Nat
      BY <2>2, <3>3 DEF NextWindow
    <3> QED
      BY <2>1, <2>3, <3>4 DEF OnPacket, Rolls
  <2>4. CASE ~WindowOver(t)
    BY <2>1, <2>2, <2>4 DEF OnPacket, Rolls
  <2> QED
    BY <2>3, <2>4
<1>6. seen' \in Seq([report : Report, time : Time])
  BY <1>1 DEF TypeOK, OnPacket, Seen
<1> QED
  BY <1>2, <1>3, <1>4, <1>5, <1>6 DEF TypeOK

(* The counts of all reports but the last, and of the last.                   *)
LEMMA CountsKept ==
  ASSUME TypeOK, CountsAsLabelled, NEW r \in Report, NEW t \in Time, OnPacket(r, t)
  PROVE  CountsAsLabelled'
<1> DEFINE n == Len(seen)
           e == [report |-> r, time |-> t]
<1>1. seen \in Seq(Seen) /\ e \in Seen /\ seen' = Append(seen, e)
  BY ReportType DEF TypeOK, Seen, OnPacket
<1>2. /\ n \in Nat /\ Len(seen') = n + 1
      /\ DOMAIN seen = 1 .. n /\ DOMAIN seen' = 1 .. n + 1
      /\ \A i \in 1 .. n : seen'[i] = seen[i] /\ i \in DOMAIN seen /\ i \in DOMAIN seen'
      /\ seen'[n + 1] = e
  BY <1>1, Appended
<1>3. e.report = r
  OBVIOUS
<1> HIDE DEF e, n
<1>4. total_packets' = Len(seen')
  BY <1>2 DEF CountsAsLabelled, OnPacket, n
<1>5. ASSUME NEW k \in 0 .. Types - 1
      PROVE  packets_per_type'[k] = Cardinality({i \in DOMAIN seen' : seen'[i].report.type = k})
  <2> DEFINE I == {i \in DOMAIN seen : seen[i].report.type = k}
             J == {i \in DOMAIN seen' : seen'[i].report.type = k}
  <2>1. I \in SUBSET (1 .. n) /\ J \in SUBSET (1 .. n + 1)
    BY <1>2
  <2>2. \A i \in 1 .. n : i \in J <=> i \in I
    BY <1>2
  <2>3. n + 1 \in J <=> r.type = k
    BY <1>2, <1>3
  <2>4. packets_per_type[k] = Cardinality(I)
    BY DEF CountsAsLabelled, CountSeen
  <2>5. packets_per_type'[k] =
          IF k = r.type THEN packets_per_type[k] + 1 ELSE packets_per_type[k]
    <3>1. /\ packets_per_type \in [0 .. Types - 1 -> Nat]
          /\ packets_per_type' = Bumped(packets_per_type, r.type)
      BY DEF TypeOK, OnPacket
    <3>2. \A x \in 0 .. Types - 1 : Bumped(packets_per_type, r.type)[x] =
            IF x = r.type THEN packets_per_type[x] + 1 ELSE packets_per_type[x]
      BY <3>1, BumpedOne
    <3> QED
      BY <3>1, <3>2
  <2> HIDE DEF I, J
  <2>6. Cardinality(J) = IF n + 1 \in J THEN Cardinality(I) + 1 ELSE Cardinality(I)
    BY <1>2, <2>1, <2>2, OneMore
  <2>7. packets_per_type'[k] = Cardinality(J)
    BY <2>3, <2>4, <2>5, <2>6
  <2> QED
    BY <2>7 DEF J
<1>6. ASSUME NEW k \in 0 .. Subtypes - 1
      PROVE  packets_per_subtype'[k] = Cardinality({i \in DOMAIN seen' : seen'[i].report.subtype = k})
  <2> DEFINE I == {i \in DOMAIN seen : seen[i].report.subtype = k}
             J == {i \in DOMAIN seen' : seen'[i].report.subtype = k}
  <2>1. I \in SUBSET (1 .. n) /\ J \in SUBSET (1 .. n + 1)
    BY <1>2
  <2>2. \A i \in 1 .. n : i \in J <=> i \in I
    BY <1>2
  <2>3. n + 1 \in J <=> r.subtype = k
    BY <1>2, <1>3
  <2>4. packets_per_subtype[k] = Cardinality(I)
    BY DEF CountsAsLabelled, CountSeen
  <2>5. packets_per_subtype'[k] =
          IF k = r.subtype THEN packets_per_subtype[k] + 1 ELSE packets_per_subtype[k]
    <3>1. /\ packets_per_subtype \in [0 .. Subtypes - 1 -> Nat]
          /\ packets_per_subtype' = Bumped(packets_per_subtype, r.subtype)
      BY DEF TypeOK, OnPacket
    <3>2. \A x \in 0 .. Subtypes - 1 : Bumped(packets_per_subtype, r.subtype)[x] =
            IF x = r.subtype THEN packets_per_subtype[x] + 1 ELSE packets_per_subtype[x]
      BY <3>1, BumpedOne, SMTT(30)
    <3> QED
      BY <3>1, <3>2
  <2> HIDE DEF I, J
  <2>6. Cardinality(J) = IF n + 1 \in J THEN Cardinality(I) + 1 ELSE Cardinality(I)
    BY <1>2, <2>1, <2>2, OneMore
  <2>7. packets_per_subtype'[k] = Cardinality(J)
    BY <2>3, <2>4, <2>5, <2>6
  <2> QED
    BY <2>7 DEF J
<1>7. ASSUME NEW b \in Bins
      PROVE  rssi_histogram'[b] =
               Cardinality({i \in DOMAIN seen' : /\ seen'[i].report.rssi # NoRssi
                                                 /\ Clamped(seen'[i].report.rssi) \in Low(b) .. High(b)})
  <2> DEFINE I == {i \in DOMAIN seen : /\ seen[i].report.rssi # NoRssi
                                       /\ Clamped(seen[i].report.rssi) \in Low(b) .. High(b)}
             J == {i \in DOMAIN seen' : /\ seen'[i].report.rssi # NoRssi
                                        /\ Clamped(seen'[i].report.rssi) \in Low(b) .. High(b)}
  <2>1. I \in SUBSET (1 .. n) /\ J \in SUBSET (1 .. n + 1)
    BY <1>2
  <2>2. \A i \in 1 .. n : i \in J <=> i \in I
    BY <1>2
  <2>3. n + 1 \in J <=> r.rssi # NoRssi /\ Clamped(r.rssi) \in Low(b) .. High(b)
    BY <1>2, <1>3
  <2>4. rssi_histogram[b] = Cardinality(I)
    BY DEF CountsAsLabelled, CountSeen
  <2> HIDE DEF I, J
  <2>5. Cardinality(J) = IF n + 1 \in J THEN Cardinality(I) + 1 ELSE Cardinality(I)
    BY <1>2, <2>1, <2>2, OneMore
  <2>6. CASE r.rssi = NoRssi
    <3>1. rssi_histogram' = rssi_histogram
      BY <2>6 DEF OnPacket
    <3>2. n + 1 \notin J
      BY <2>3, <2>6
    <3> QED
      BY <2>4, <2>5, <3>1, <3>2 DEF J
  <2>7. CASE r.rssi # NoRssi
    <3>1. r.rssi \in Int
      BY <2>7, ReportType
    <3>2. rssi_histogram' = Bumped(rssi_histogram, RssiToBin(r.rssi))
      BY <2>7 DEF OnPacket
    <3>3. rssi_histogram'[b] = IF b = RssiToBin(r.rssi) THEN rssi_histogram[b] + 1
                                                        ELSE rssi_histogram[b]
      <4>1. rssi_histogram \in [Bins -> Nat]
        BY DEF TypeOK
      <4>2. \A x \in Bins : Bumped(rssi_histogram, RssiToBin(r.rssi))[x] =
              IF x = RssiToBin(r.rssi) THEN rssi_histogram[x] + 1 ELSE rssi_histogram[x]
        BY <4>1, BumpedOne
      <4> QED
        BY <3>2, <4>2
    <3>4. n + 1 \in J <=> b = RssiToBin(r.rssi)
      BY <2>3, <2>7, <3>1, BinOf
    <3>5. rssi_histogram'[b] = Cardinality(J)
      BY <2>4, <2>5, <3>3, <3>4
    <3> QED
      BY <3>5 DEF J
  <2> QED
    BY <2>6, <2>7
<1> QED
  BY <1>4, <1>5, <1>6, <1>7 DEF CountsAsLabelled, CountSeen

----------------------------------------------------------------------------
(* The end of a window moves past every report before, or the window stays.   *)
LEMMA LatestKept ==
  ASSUME TypeOK, WindowHoldsLatest, NEW r \in Report, NEW t \in Time, OnPacket(r, t)
  PROVE  WindowHoldsLatest'
<1> DEFINE n == Len(seen)
           e == [report |-> r, time |-> t]
<1>1. seen \in Seq(Seen) /\ e \in Seen /\ seen' = Append(seen, e)
  BY ReportType DEF TypeOK, Seen, OnPacket
<1>2. /\ n \in Nat /\ Len(seen') = n + 1
      /\ DOMAIN seen = 1 .. n /\ DOMAIN seen' = 1 .. n + 1
      /\ \A i \in 1 .. n : seen'[i] = seen[i] /\ i \in DOMAIN seen /\ i \in DOMAIN seen'
      /\ seen'[n + 1] = e
  BY <1>1, Appended
<1>3. e.time = t /\ t \in Nat
  BY ReportType
<1>4. \A i \in 1 .. n : seen[i].time \in Nat
  <2>1. \A x \in Seen : x.time \in Nat
    BY DEF Seen
  <2>2. \A i \in 1 .. n : seen[i] \in Seen
    BY <1>1, <1>2
  <2> QED
    BY <2>1, <2>2
<1>5. window_start \in Nat /\ window_packet_count \in Nat /\ Second \in Nat \ {0}
  BY DEF TypeOK
<1> HIDE DEF e, n
<1>6. \A i \in 1 .. n : /\ seen[i].time < window_start + Second
                        /\ seen[i].time >= window_start => i > n - window_packet_count
  BY <1>2 DEF WindowHoldsLatest, n
<1>7. \A i \in DOMAIN seen' : i \in 1 .. n \/ i = n + 1
  BY <1>2
<1>8. SUFFICES ASSUME NEW i \in DOMAIN seen'
               PROVE  /\ seen'[i].time < window_start' + Second
                      /\ seen'[i].time >= window_start' => i > Len(seen') - window_packet_count'
  BY DEF WindowHoldsLatest
<1>9. CASE WindowOver(t)
  <2>1. window_start # 0 /\ Started(t) = window_start /\ t - window_start \in Nat
        /\ t >= window_start + Second
    BY <1>3, <1>5, <1>9 DEF WindowOver, Started
  <2> DEFINE q == (t - window_start) \div Second
             m == q * Second
  <2>2. q \in Nat /\ q * Second <= t - window_start /\ t - window_start < q * Second + Second
    BY <1>5, <2>1, Divided
  <2>3. window_start' = window_start + m /\ window_packet_count' = 1
    BY <1>9, <2>1 DEF OnPacket, Rolls, NextWindow
  <2> HIDE DEF q
  <2>4. q # 0
    BY <1>3, <1>5, <2>1, <2>2
  <2>5. Second <= m /\ m \in Nat
    <3>1. 1 * Second <= q * Second
      BY <1>5, <2>2, <2>4, Times
    <3> QED
      BY <1>5, <2>2, <3>1, Z3
  <2>6. m <= t - window_start /\ t - window_start < m + Second
    BY <2>2
  <2> HIDE DEF m
  <2>7. CASE i \in 1 .. n
    BY <1>2, <1>4, <1>5, <1>6, <2>3, <2>5, <2>7
  <2>8. CASE i = n + 1
    BY <1>2, <1>3, <1>5, <2>1, <2>3, <2>5, <2>6, <2>8
  <2> QED
    BY <1>7, <2>7, <2>8
<1>10. CASE ~WindowOver(t)
  <2>1. window_start' = Started(t) /\ window_packet_count' = window_packet_count + 1
    BY <1>10 DEF OnPacket, Rolls
  <2>2. t < Started(t) + Second
    BY <1>3, <1>5, <1>10 DEF WindowOver, Started
  <2>3. window_start' \in Nat /\ window_start' >= window_start
    BY <1>3, <1>5, <2>1 DEF Started
  <2>4. CASE i \in 1 .. n
    <3>1. /\ seen'[i].time = seen[i].time /\ seen[i].time \in Nat
          /\ seen[i].time < window_start + Second
          /\ seen[i].time >= window_start => i > n - window_packet_count
      BY <1>2, <1>4, <1>6, <2>4
    <3> QED
      BY <1>2, <1>5, <2>1, <2>3, <2>4, <3>1, SMTT(30)
  <2>5. CASE i = n + 1
    BY <1>2, <1>3, <1>5, <2>1, <2>2, <2>5
  <2> QED
    BY <1>7, <2>4, <2>5
<1> QED
  BY <1>9, <1>10

----------------------------------------------------------------------------
(* For packets in order the window starts whole seconds after the first.      *)
WholeSeconds ==
  IF seen = <<>> THEN window_start = 0 /\ window_packet_count = 0 /\ last_window_pps = 0
  ELSE InOrder => window_start = seen[1].time + Latest * Second

(* The first packet starts the first window.                                  *)
LEMMA RateStarts ==
  ASSUME TypeOK, WholeSeconds, seen = <<>>,
         NEW r \in Report, NEW t \in Time, OnPacket(r, t)
  PROVE  WholeSeconds' /\ ConsecutiveSeconds'
<1> DEFINE e == [report |-> r, time |-> t]
<1>1. seen' = <<e>> /\ e.time = t /\ t \in Nat
  BY ReportType DEF OnPacket
<1>2. Started(t) = t /\ window_packet_count = 0 /\ last_window_pps = 0
  BY DEF WholeSeconds, Started
<1>3. ~WindowOver(t)
  BY <1>1, <1>2 DEF WindowOver
<1>4. window_start' = t /\ window_packet_count' = 1 /\ last_window_pps' = 0
  BY <1>2, <1>3 DEF OnPacket, Rolls
<1> HIDE DEF e
<1>5. seen' # <<>> /\ Len(seen') = 1 /\ DOMAIN seen' = {1} /\ seen'[1] = e
  BY <1>1
<1>6. (t - t) \div Second = 0
  <2>1. t - t = 0
    BY <1>1
  <2> QED
    BY <2>1, Quotient
<1>7. Latest' = 0 /\ \A i \in DOMAIN seen' : (seen'[i].time - seen'[1].time) \div Second = 0
  BY <1>1, <1>5, <1>6 DEF Latest, SecondOf
<1>8. Earlier' = {}
  BY <1>7 DEF Earlier, SecondOf
<1>9. {i \in DOMAIN seen' : (seen'[i].time - seen'[1].time) \div Second = Latest'} = {1}
  BY <1>5, <1>7
<1>10. Cardinality({1}) = 1
  BY FS_Singleton
<1>11. WholeSeconds'
  BY <1>1, <1>4, <1>5, <1>7 DEF WholeSeconds
<1>12. ConsecutiveSeconds'
  BY <1>4, <1>8, <1>9, <1>10 DEF ConsecutiveSeconds, CountSeen, SecondOf
<1> QED
  BY <1>11, <1>12

(* A later packet: the window it is in starts at its second, and the one that *)
(* ends, if it is not in the same second as the packet before, was that of    *)
(* the packet before.                                                         *)
LEMMA RateKept ==
  ASSUME TypeOK, WholeSeconds, ConsecutiveSeconds, seen # <<>>,
         NEW r \in Report, NEW t \in Time, OnPacket(r, t), InOrder'
  PROVE  WholeSeconds' /\ ConsecutiveSeconds'
<1> DEFINE n == Len(seen)
           e == [report |-> r, time |-> t]
           f == seen[1].time
           Sec(i) == (seen'[i].time - f) \div Second
           L == Sec(n)
           M == Sec(n + 1)
<1>1. seen \in Seq(Seen) /\ e \in Seen /\ seen' = Append(seen, e)
  BY ReportType DEF TypeOK, Seen, OnPacket
<1>2. /\ n \in Nat /\ n # 0 /\ Len(seen') = n + 1
      /\ DOMAIN seen = 1 .. n /\ DOMAIN seen' = 1 .. n + 1
      /\ \A i \in 1 .. n : seen'[i] = seen[i] /\ i \in DOMAIN seen /\ i \in DOMAIN seen'
      /\ seen'[n + 1] = e /\ seen' # <<>>
  BY <1>1, Appended
<1>3. e.time = t /\ t \in Nat
  BY ReportType
<1>4. \A i \in 1 .. n + 1 : seen'[i].time \in Nat
  <2>1. \A x \in Seen : x.time \in Nat
    BY DEF Seen
  <2>2. seen' \in Seq(Seen)
    BY <1>1
  <2>3. \A i \in 1 .. n + 1 : seen'[i] \in Seen
    BY <1>2, <2>2
  <2> QED
    BY <2>1, <2>3
<1>5. window_start \in Nat /\ window_packet_count \in Nat /\ Second \in Nat \ {0}
  BY DEF TypeOK
<1>6. seen'[1] = seen[1] /\ 1 \in 1 .. n /\ n \in 1 .. n /\ n + 1 \in 1 .. n + 1
      /\ seen'[n] = seen[n]
  BY <1>2
<1> HIDE DEF e, n
<1>7. /\ \A i \in 1 .. n + 1 : seen'[i].time > 0
      /\ \A i, j \in 1 .. n + 1 : i < j => seen'[i].time <= seen'[j].time
  BY <1>2 DEF InOrder
<1>8. f = seen'[1].time /\ f \in Nat /\ f > 0
  BY <1>2, <1>4, <1>6, <1>7
<1>9. InOrder
  <2>1. \A i \in DOMAIN seen : seen[i].time > 0
    BY <1>2, <1>7
  <2>2. \A i, j \in DOMAIN seen : i < j => seen[i].time <= seen[j].time
    BY <1>2, <1>7
  <2> QED
    BY <2>1, <2>2 DEF InOrder
<1>10. \A i \in 1 .. n + 1 : seen'[i].time - f \in Nat
  BY <1>2, <1>4, <1>7, <1>8, SMTT(30)
<1>11. \A i \in 1 .. n + 1 : Sec(i) \in Nat
  BY <1>5, <1>10, Divided
<1>12. \A i, j \in 1 .. n + 1 : i <= j => Sec(i) <= Sec(j)
  <2> SUFFICES ASSUME NEW i \in 1 .. n + 1, NEW j \in 1 .. n + 1, i <= j
               PROVE  Sec(i) <= Sec(j)
    OBVIOUS
  <2>1. seen'[i].time - f <= seen'[j].time - f
    BY <1>2, <1>4, <1>7, <1>8
  <2> QED
    BY <1>5, <1>10, <2>1, QuotientMonotonic
<1> DEFINE x == t - f
<1>13. M = x \div Second /\ x \in Nat
  BY <1>2, <1>3, <1>6, <1>10
(* The properties before and after, in terms of Sec. *)
<1>14. Latest = L /\ Latest' = M /\ SecondOf(seen[n]) = L
  BY <1>2, <1>6, <1>8 DEF Latest, SecondOf, n
<1>15. Earlier = {Sec(i) : i \in 1 .. n} \ {L} /\ Earlier' = {Sec(i) : i \in 1 .. n + 1} \ {M}
  <2>1. {SecondOf(seen[i]) : i \in DOMAIN seen} = {Sec(i) : i \in 1 .. n}
    BY <1>2, <1>6, <1>8, SMTT(30) DEF SecondOf
  <2>2. Earlier' = {(seen'[i].time - seen'[1].time) \div Second : i \in DOMAIN seen'} \ {Latest'}
    BY DEF Earlier, SecondOf
  <2> QED
    BY <1>2, <1>8, <1>14, <2>1, <2>2, ZenonT(30) DEF Earlier
<1> DEFINE In(s) == {i \in 1 .. n : Sec(i) = s}
           In2(s) == {i \in 1 .. n + 1 : Sec(i) = s}
<1>16. \A s : {i \in DOMAIN seen : SecondOf(seen[i]) = s} = In(s)
  BY <1>2, <1>6, <1>8 DEF SecondOf
<1>17. \A s : {i \in DOMAIN seen' : (seen'[i].time - seen'[1].time) \div Second = s} = In2(s)
  BY <1>2, <1>8
<1>18. /\ window_start = f + L * Second
       /\ window_packet_count = Cardinality(In(L))
       /\ IF Earlier = {} THEN last_window_pps = 0
          ELSE \E s \in Earlier : /\ \A u \in Earlier : u <= s
                                  /\ last_window_pps = Cardinality(In(s))
  <2>1. window_packet_count = CountSeen(LAMBDA p : SecondOf(p) = Latest)
    BY <1>9 DEF ConsecutiveSeconds
  <2>2. IF Earlier = {} THEN last_window_pps = 0
        ELSE \E s \in Earlier : /\ \A u \in Earlier : u <= s
                                /\ last_window_pps = CountSeen(LAMBDA p : SecondOf(p) = s)
    BY <1>9 DEF ConsecutiveSeconds
  <2>3. window_start = f + L * Second
    BY <1>9, <1>14 DEF WholeSeconds
  <2> HIDE DEF In, L
  <2> QED
    BY <1>14, <1>16, <2>1, <2>2, <2>3 DEF CountSeen
<1>19. SUFFICES /\ window_start' = f + M * Second
                /\ window_packet_count' = Cardinality(In2(M))
                /\ IF Earlier' = {} THEN last_window_pps' = 0
                   ELSE \E s \in Earlier' : /\ \A u \in Earlier' : u <= s
                                            /\ last_window_pps' = Cardinality(In2(s))
  <2>1. WholeSeconds'
    BY <1>2, <1>8, <1>14, <1>19 DEF WholeSeconds
  <2>2. window_packet_count' =
          Cardinality({i \in DOMAIN seen' : (seen'[i].time - seen'[1].time) \div Second = Latest'})
    BY <1>14, <1>17, <1>19
  <2>3. IF Earlier' = {} THEN last_window_pps' = 0
        ELSE \E s \in Earlier' :
               /\ \A u \in Earlier' : u <= s
               /\ last_window_pps' =
                    Cardinality({i \in DOMAIN seen' : (seen'[i].time - seen'[1].time) \div Second = s})
    BY <1>17, <1>19
  <2> QED
    BY <2>1, <2>2, <2>3 DEF ConsecutiveSeconds, CountSeen, SecondOf
<1>20. \A s : /\ In(s) \in SUBSET (1 .. n) /\ In2(s) \in SUBSET (1 .. n + 1)
              /\ \A i \in 1 .. n : i \in In2(s) <=> i \in In(s)
              /\ n + 1 \in In2(s) <=> M = s
  BY <1>2
<1>21. L \in Nat /\ M \in Nat /\ L <= M /\ \A i \in 1 .. n : Sec(i) \in Nat /\ Sec(i) <= L
  BY <1>2, <1>6, <1>11, <1>12
<1>22. 1 .. n + 1 = (1 .. n) \cup {n + 1}
  BY <1>2
<1>23. Started(t) = window_start
  <2>1. L * Second \in Nat
    BY <1>5, <1>21, Z3
  <2> QED
    BY <1>8, <1>18, <2>1 DEF Started
<1> HIDE DEF Sec, In, In2, f
<1>24. M * Second <= x /\ x < M * Second + Second
  BY <1>5, <1>13, Divided
<1>25. L * Second \in Nat /\ M * Second \in Nat
  BY <1>5, <1>21, Z3
<1>26. t = f + x /\ window_start = f + L * Second
  BY <1>3, <1>8, <1>18
<1> DEFINE l == L * Second
           m == M * Second
<1>30. /\ l \in Nat /\ m \in Nat /\ m <= x /\ x < m + Second
       /\ window_start = f + l /\ x \in Nat
  BY <1>13, <1>24, <1>25, <1>26
<1>31. L = Sec(n) /\ M = Sec(n + 1)
  OBVIOUS
<1> HIDE DEF l, m, x, L, M
<1>32. {Sec(i) : i \in 1 .. n + 1} = {Sec(i) : i \in 1 .. n} \cup {M}
  BY <1>22, <1>31, Zenon
<1>27. CASE M = L
  <2>1. ~WindowOver(t)
    <3>1. l = m
      BY <1>27 DEF l, m
    <3> QED
      BY <1>5, <1>8, <1>23, <1>26, <1>30, <3>1, SMTT(30) DEF WindowOver
  <2>2. /\ window_start' = window_start /\ window_packet_count' = window_packet_count + 1
        /\ last_window_pps' = last_window_pps
    BY <1>23, <2>1 DEF OnPacket, Rolls
  <2>3. Cardinality(In2(M)) = Cardinality(In(M)) + 1
    BY <1>2, <1>20, OneMore
  <2>4. \A s : s # M => Cardinality(In2(s)) = Cardinality(In(s))
    BY <1>2, <1>20, OneMore
  <2>5. Earlier' = Earlier
    BY <1>15, <1>27, <1>32, Zenon
  <2>6. \A s \in Earlier : s # M
    BY <1>15, <1>27
  <2>7. window_start' = f + M * Second /\ window_packet_count' = Cardinality(In2(M))
    <3>1. window_packet_count = Cardinality(In(M))
      BY <1>18, <1>27
    <3>2. window_start = f + M * Second
      BY <1>26, <1>27
    <3> QED
      BY <2>2, <2>3, <3>1, <3>2
  <2> QED
    BY <1>18, <2>2, <2>4, <2>5, <2>6, <2>7
<1>28. CASE M # L
  <2>1. L + 1 <= M /\ (L + 1) * Second = L * Second + Second
    BY <1>5, <1>21, <1>28, Z3
  <2>2. L * Second + Second <= M * Second
    <3>1. (L + 1) * Second <= M * Second
      BY <1>5, <1>21, <2>1, Times
    <3> QED
      BY <2>1, <3>1
  <2>3. WindowOver(t)
    <3>1. l + Second <= m
      BY <2>2 DEF l, m
    <3> QED
      BY <1>5, <1>8, <1>23, <1>26, <1>30, <3>1, SMTT(30) DEF WindowOver
  <2>4. /\ window_start' = NextWindow(t) /\ window_packet_count' = 1
        /\ last_window_pps' = window_packet_count
    BY <2>3 DEF OnPacket, Rolls
  <2>5. (t - window_start) \div Second = M - L
    <3> DEFINE y == t - window_start
               b == M - L
    <3>1. b \in Int /\ b * Second = M * Second - L * Second
      BY <1>5, <1>21, Z3
    <3>2. y = x - L * Second
      BY <1>3, <1>5, <1>8, <1>13, <1>18, <1>25, <1>26
    <3> HIDE DEF b
    <3>3. y \in Nat /\ b * Second <= y /\ y < b * Second + Second
      BY <1>5, <1>13, <1>24, <1>25, <2>2, <3>1, <3>2
    <3> HIDE DEF y
    <3>4. y \div Second = b
      BY <1>5, <3>1, <3>3, Quotient
    <3> QED
      BY <3>4 DEF y, b
  <2>6. window_start' = f + M * Second
    <3>1. (M - L) * Second = M * Second - L * Second
      BY <1>5, <1>21, Z3
    <3>2. NextWindow(t) = window_start + (M - L) * Second
      BY <1>23, <2>5 DEF NextWindow
    <3>3. NextWindow(t) = window_start + (m - l)
      BY <3>1, <3>2 DEF l, m
    <3>4. window_start' = f + m
      BY <1>8, <1>30, <2>4, <3>3
    <3> QED
      BY <3>4 DEF m
  <2>7. Cardinality(In2(M)) = 1
    <3>1. \A i \in 1 .. n : Sec(i) # M
      BY <1>21, <2>1
    <3>2. In2(M) = {n + 1}
      BY <1>20, <1>22, <3>1 DEF In2, In
    <3> QED
      BY <3>2, FS_Singleton
  <2>8. Cardinality(In2(L)) = Cardinality(In(L))
    BY <1>2, <1>20, <1>28, OneMore
  <2>9. Earlier' = {Sec(i) : i \in 1 .. n}
    <3>1. \A i \in 1 .. n : Sec(i) # M
      BY <1>21, <2>1
    <3> QED
      BY <1>15, <1>32, <3>1
  <2>10. L \in Earlier' /\ \A u \in Earlier' : u <= L
    <3>1. L \in Earlier'
      BY <1>6, <1>31, <2>9, Zenon
    <3>2. ASSUME NEW u \in Earlier' PROVE u <= L
      <4>1. PICK i \in 1 .. n : u = Sec(i)
        BY <2>9
      <4> QED
        BY <1>21, <4>1
    <3> QED
      BY <3>1, <3>2
  <2>11. last_window_pps' = Cardinality(In2(L))
    BY <1>18, <2>4, <2>8
  <2> QED
    BY <2>4, <2>6, <2>7, <2>10, <2>11
<1> QED
  BY <1>27, <1>28

----------------------------------------------------------------------------
(* The inductive invariant: ConsecutiveSeconds gives a new packet its count only *)
(* together with the place where the window starts.                           *)
IInv == /\ TypeOK
        /\ CountsAsLabelled
        /\ WindowHoldsLatest
        /\ WholeSeconds
        /\ ConsecutiveSeconds

(* After packet_stats_init: nothing counted, nothing seen.                    *)
Fresh == /\ total_packets = 0 /\ total_bytes = 0
         /\ packets_per_type = None.type /\ packets_per_subtype = None.subtype
         /\ rssi_histogram = None.bin
         /\ window_start = 0 /\ window_packet_count = 0 /\ last_window_pps = 0
         /\ seen = <<>>

LEMMA FreshInv == Fresh => IInv
<1> SUFFICES ASSUME Fresh PROVE IInv
  OBVIOUS
<1>1. /\ None.type = [k \in 0 .. Types - 1 |-> 0]
      /\ None.subtype = [k \in 0 .. Subtypes - 1 |-> 0]
      /\ None.bin = [k \in Bins |-> 0]
  BY DEF None
<1>2. seen = <<>> /\ DOMAIN seen = {} /\ Len(seen) = 0
  BY DEF Fresh
<1>3. TypeOK
  BY <1>1 DEF Fresh, TypeOK
<1>4. CountsAsLabelled
  <2>1. Cardinality({}) = 0
    BY FS_EmptySet
  <2>2. \A k \in 0 .. Types - 1 :
          packets_per_type[k] = Cardinality({i \in DOMAIN seen : seen[i].report.type = k})
    <3>1. \A k : {i \in DOMAIN seen : seen[i].report.type = k} = {}
      BY <1>2
    <3> QED
      BY <1>1, <2>1, <3>1 DEF Fresh
  <2>3. \A k \in 0 .. Subtypes - 1 :
          packets_per_subtype[k] = Cardinality({i \in DOMAIN seen : seen[i].report.subtype = k})
    <3>1. \A k : {i \in DOMAIN seen : seen[i].report.subtype = k} = {}
      BY <1>2
    <3> QED
      BY <1>1, <2>1, <3>1 DEF Fresh
  <2>4. \A b \in Bins :
          rssi_histogram[b] =
            Cardinality({i \in DOMAIN seen : /\ seen[i].report.rssi # NoRssi
                                             /\ Clamped(seen[i].report.rssi) \in Low(b) .. High(b)})
    <3>1. \A b : {i \in DOMAIN seen : /\ seen[i].report.rssi # NoRssi
                                      /\ Clamped(seen[i].report.rssi) \in Low(b) .. High(b)} = {}
      BY <1>2
    <3> QED
      BY <1>1, <2>1, <3>1 DEF Fresh
  <2>5. total_packets = Len(seen)
    BY <1>2 DEF Fresh
  <2> QED
    BY <2>2, <2>3, <2>4, <2>5 DEF CountsAsLabelled, CountSeen
<1>5. WindowHoldsLatest
  BY <1>2 DEF WindowHoldsLatest
<1>6. WholeSeconds /\ ConsecutiveSeconds
  BY DEF Fresh, WholeSeconds, ConsecutiveSeconds
<1> QED
  BY <1>3, <1>4, <1>5, <1>6 DEF IInv

LEMMA FreshPrimed == Fresh' => IInv'
  BY FreshInv, PTL

LEMMA PacketKeeps ==
  ASSUME IInv, NEW r \in Report, NEW t \in Time, OnPacket(r, t)
  PROVE  IInv'
<1>1. TypeOK /\ CountsAsLabelled /\ WindowHoldsLatest /\ WholeSeconds /\ ConsecutiveSeconds
  BY DEF IInv
<1>2. TypeOK' /\ CountsAsLabelled' /\ WindowHoldsLatest'
  BY <1>1, TypesKept, CountsKept, LatestKept
<1>3. WholeSeconds' /\ ConsecutiveSeconds'
  <2>1. CASE seen = <<>>
    BY <1>1, <2>1, RateStarts
  <2>2. CASE seen # <<>> /\ InOrder'
    BY <1>1, <2>2, RateKept
  <2>3. CASE seen # <<>> /\ ~InOrder'
    <3>1. [report |-> r, time |-> t] \in Seen
      BY ReportType
    <3>2. seen \in Seq(Seen) /\ seen' = Append(seen, [report |-> r, time |-> t])
      BY <1>1 DEF OnPacket, TypeOK, Seen
    <3>3. seen' # <<>>
      BY <3>1, <3>2, Appended
    <3> QED
      BY <2>3, <3>3 DEF WholeSeconds, ConsecutiveSeconds
  <2> QED
    BY <2>1, <2>2, <2>3
<1> QED
  BY <1>2, <1>3 DEF IInv

LEMMA Step == IInv /\ [Next]_vars => IInv'
<1> SUFFICES ASSUME IInv, [Next]_vars
             PROVE  IInv'
  OBVIOUS
<1>1. ASSUME NEW r \in Report, NEW t \in Time, OnPacket(r, t)
      PROVE  IInv'
  BY <1>1, PacketKeeps
<1>2. CASE Reset
  <2>1. Fresh'
    BY <1>2 DEF Reset, Zeroed, Fresh
  <2> QED
    BY <2>1, FreshPrimed
<1>3. CASE UNCHANGED vars
  <2>1. /\ total_packets' = total_packets /\ total_bytes' = total_bytes
        /\ packets_per_type' = packets_per_type /\ packets_per_subtype' = packets_per_subtype
        /\ rssi_histogram' = rssi_histogram
        /\ window_start' = window_start /\ window_packet_count' = window_packet_count
        /\ last_window_pps' = last_window_pps /\ seen' = seen
    BY <1>3 DEF vars, counters, window
  <2>2. TypeOK' /\ WindowHoldsLatest'
    BY <2>1 DEF IInv, TypeOK, WindowHoldsLatest
  <2>3. CountsAsLabelled'
    BY <2>1 DEF IInv, CountsAsLabelled, CountSeen
  <2>4. Latest' = Latest /\ Earlier' = Earlier /\ InOrder' = InOrder
    BY <2>1 DEF Latest, Earlier, SecondOf, InOrder
  <2>5. WholeSeconds'
    BY <2>1, <2>4 DEF IInv, WholeSeconds
  <2>6. ConsecutiveSeconds'
    BY <2>1, <2>4 DEF IInv, ConsecutiveSeconds, CountSeen, SecondOf
  <2> QED
    BY <2>2, <2>3, <2>5, <2>6 DEF IInv
<1> QED
  BY <1>1, <1>2, <1>3 DEF Next

(* The invariant holds in every behaviour of packet_stats.c.                  *)
THEOREM Invariant == Spec => []IInv
<1>1. Init => IInv
  BY FreshInv DEF Init, Fresh
<1> QED
  BY <1>1, Step, PTL DEF Spec

(* The counters of packet_stats_on_packet have the types declared.            *)
THEOREM TypeCorrect == Spec => []TypeOK
<1>1. IInv => TypeOK
  BY DEF IInv
<1> QED
  BY <1>1, Invariant, PTL

(* Every count is the number of reports that packet_stats_print says it is.   *)
THEOREM CountsExact == Spec => []CountsAsLabelled
<1>1. IInv => CountsAsLabelled
  BY DEF IInv
<1> QED
  BY <1>1, Invariant, PTL

(* The window of packet_stats_on_packet ends after every report, in any order *)
(* of their times, and what is counted towards it are the latest ones.        *)
THEOREM LatestInWindow == Spec => []WindowHoldsLatest
<1>1. IInv => WindowHoldsLatest
  BY DEF IInv
<1> QED
  BY <1>1, Invariant, PTL

(* What a sliding second would count lies between the count of the second    *)
(* that is going on and the same with the rate of the one before added to it. *)
LEMMA SlidingBetween ==
  ASSUME TypeOK, ConsecutiveSeconds, InOrder, seen # <<>>
  PROVE  Sliding \in window_packet_count .. window_packet_count + last_window_pps
<1> DEFINE n == Len(seen)
           f == seen[1].time
           X(i) == seen[i].time - f
           Sec(i) == X(i) \div Second
           In(s) == {i \in 1 .. n : Sec(i) = s}
           L == Sec(n)
           S == {i \in 1 .. n : seen[i].time > seen[n].time - Second}
<1>1. /\ n \in Nat \ {0} /\ DOMAIN seen = 1 .. n /\ n \in 1 .. n /\ 1 \in 1 .. n
      /\ \A i \in 1 .. n : seen[i].time \in Nat
  <2>1. seen \in Seq(Seen) /\ seen # <<>>
    BY DEF TypeOK, Seen
  <2>2. /\ n \in Nat \ {0} /\ DOMAIN seen = 1 .. n
        /\ \A i \in 1 .. n : seen[i] \in Seen
    BY <2>1
  <2>3. \A e \in Seen : e.time \in Nat
    BY DEF Seen
  <2> QED
    BY <2>2, <2>3
<1>2. f \in Nat /\ \A i \in 1 .. n : f <= seen[i].time /\ seen[i].time <= seen[n].time
  <2>1. \A i \in 1 .. n : (1 < i => f <= seen[i].time) /\ (i < n => seen[i].time <= seen[n].time)
    BY <1>1 DEF InOrder
  <2> QED
    BY <1>1, <2>1
<1>3. \A i \in 1 .. n : X(i) \in Nat /\ X(i) <= X(n)
  BY <1>1, <1>2
<1>4. Sliding = Cardinality(S)
  BY <1>1 DEF Sliding, CountSeen
<1>5. /\ window_packet_count = Cardinality(In(L))
      /\ Latest = L
      /\ Earlier = {Sec(i) : i \in 1 .. n} \ {L}
      /\ IF Earlier = {} THEN last_window_pps = 0
         ELSE \E s \in Earlier : /\ \A u \in Earlier : u <= s
                                 /\ last_window_pps = Cardinality(In(s))
  <2>1. Latest = L /\ Earlier = {Sec(i) : i \in 1 .. n} \ {L}
    BY <1>1 DEF Latest, Earlier, SecondOf
  <2>2. \A s : CountSeen(LAMBDA p : SecondOf(p) = s) = Cardinality(In(s))
    BY <1>1 DEF CountSeen, SecondOf
  <2>3. window_packet_count = Cardinality(In(L))
    BY <1>1, <2>1 DEF ConsecutiveSeconds, CountSeen, SecondOf
  <2>4. IF Earlier = {} THEN last_window_pps = 0
        ELSE \E s \in Earlier : /\ \A u \in Earlier : u <= s
                                /\ last_window_pps = Cardinality(In(s))
    BY <1>1 DEF ConsecutiveSeconds, CountSeen, SecondOf
  <2> QED
    BY <2>1, <2>3, <2>4
<1>6. \A i \in 1 .. n : /\ Sec(i) \in Nat /\ Sec(i) <= L
                        /\ Sec(i) * Second <= X(i) /\ X(i) < Sec(i) * Second + Second
  BY <1>1, <1>3, Divided, QuotientMonotonic
<1> DEFINE Starts(i) == Sec(i) * Second
<1>7. /\ L \in Nat /\ L = Sec(n) /\ X(n) \in Nat
      /\ \A i \in 1 .. n : /\ Starts(i) \in Nat /\ Starts(i) <= X(i) /\ X(i) < Starts(i) + Second
                           /\ Sec(i) = L => Starts(i) = Starts(n)
  <2>1. \A k \in Nat : k * Second \in Nat
    BY Z3
  <2> QED
    BY <1>1, <1>3, <1>6, <2>1
<1>8. \A i \in 1 .. n : i \in S <=> X(i) > X(n) - Second
  BY <1>1, <1>2
<1> HIDE DEF Sec, L
(* Two seconds earlier is too early, since seconds start a second apart.     *)
<1>9. \A i \in 1 .. n : Sec(i) + 2 <= L => Starts(i) + 2 * Second <= Starts(n)
  <2> SUFFICES ASSUME NEW i \in 1 .. n, Sec(i) + 2 <= L
               PROVE  Starts(i) + 2 * Second <= Starts(n)
    OBVIOUS
  <2>1. Sec(i) \in Nat /\ L \in Nat
    BY <1>6, <1>7
  <2>2. (Sec(i) + 2) * Second <= L * Second
    BY <2>1, Times
  <2>3. (Sec(i) + 2) * Second = Sec(i) * Second + 2 * Second
    BY <2>1, Z3
  <2> QED
    BY <1>7, <2>2, <2>3
<1> HIDE DEF X, Starts
<1>10. In(L) \subseteq S
  <2> SUFFICES ASSUME NEW i \in 1 .. n, Sec(i) = L
               PROVE  X(i) > X(n) - Second
    BY <1>8
  <2>1. /\ Starts(i) = Starts(n) /\ Starts(n) <= X(i) /\ X(n) < Starts(n) + Second
        /\ Starts(n) \in Nat /\ X(i) \in Nat /\ X(n) \in Nat
    BY <1>1, <1>3, <1>7
  <2> QED
    BY <2>1
<1>11. S \subseteq In(L) \cup In(L - 1)
  <2> SUFFICES ASSUME NEW i \in 1 .. n, X(i) > X(n) - Second, Sec(i) # L
               PROVE  Sec(i) = L - 1
    BY <1>8
  <2>1. /\ X(i) \in Nat /\ X(n) \in Nat /\ Starts(i) \in Nat /\ Starts(n) \in Nat
        /\ X(i) < Starts(i) + Second /\ Starts(n) <= X(n)
    BY <1>1, <1>3, <1>7
  <2>2. ~(Sec(i) + 2 <= L)
    <3>1. ~(Starts(i) + 2 * Second <= Starts(n))
      BY <2>1
    <3> QED
      BY <1>9, <3>1
  <2>3. Sec(i) \in Nat /\ Sec(i) <= L /\ L \in Nat
    BY <1>6, <1>7
  <2> QED
    BY <2>2, <2>3
<1>12. \A J \in SUBSET (1 .. n) : IsFiniteSet(J) /\ Cardinality(J) \in Nat
  <2>1. IsFiniteSet(1 .. n)
    BY <1>1, FS_Interval
  <2> QED
    BY <2>1, FS_Subset, FS_CardinalityType
<1>13. /\ S \in SUBSET (1 .. n) /\ In(L) \in SUBSET (1 .. n) /\ In(L - 1) \in SUBSET (1 .. n)
       /\ \A s : In(s) \in SUBSET (1 .. n)
  OBVIOUS
<1> HIDE DEF n
<1>14. last_window_pps \in Nat /\ Cardinality(In(L - 1)) <= last_window_pps
  <2>1. CASE \A i \in 1 .. n : Sec(i) # L - 1
    <3>1. In(L - 1) = {}
      BY <2>1
    <3>2. Cardinality(In(L - 1)) = 0 /\ last_window_pps \in Nat
      BY <3>1, FS_EmptySet DEF TypeOK
    <3> QED
      BY <3>2
  <2>2. CASE \E i \in 1 .. n : Sec(i) = L - 1
    <3>1. L - 1 \in Earlier
      BY <1>5, <1>7, <2>2
    <3>2. PICK s \in Earlier : /\ \A u \in Earlier : u <= s
                              /\ last_window_pps = Cardinality(In(s))
      BY <1>5, <3>1
    <3>3. s # L /\ s \in Nat /\ s <= L /\ L - 1 <= s /\ L \in Nat
      BY <1>5, <1>6, <1>7, <3>1, <3>2
    <3>4. s = L - 1
      BY <3>3
    <3>5. last_window_pps = Cardinality(In(L - 1)) /\ last_window_pps \in Nat
      BY <3>2, <3>4 DEF TypeOK
    <3> QED
      BY <3>5
  <2> QED
    BY <2>1, <2>2
<1>15. Cardinality(In(L)) <= Cardinality(S)
  BY <1>10, <1>12, <1>13, FS_Subset
<1>16. Cardinality(S) <= Cardinality(In(L)) + Cardinality(In(L - 1))
  <2> DEFINE P == In(L)
             Q == In(L - 1)
  <2>1. /\ IsFiniteSet(P) /\ IsFiniteSet(Q)
        /\ Cardinality(P) \in Nat /\ Cardinality(Q) \in Nat /\ Cardinality(S) \in Nat
        /\ S \subseteq P \cup Q
    BY <1>11, <1>12, <1>13
  <2> HIDE DEF P, Q, S
  <2>2. /\ IsFiniteSet(P \cup Q) /\ Cardinality(P \cup Q) \in Nat
        /\ IsFiniteSet(P \cap Q) /\ Cardinality(P \cap Q) \in Nat
    BY <2>1, FS_Union, FS_Intersection, FS_CardinalityType
  <2>3. Cardinality(P \cup Q) = Cardinality(P) + Cardinality(Q) - Cardinality(P \cap Q)
    BY <2>1, FS_Union
  <2>4. Cardinality(S) <= Cardinality(P \cup Q)
    BY <2>1, <2>2, FS_Subset
  <2>5. Cardinality(S) <= Cardinality(P) + Cardinality(Q)
    BY <2>1, <2>2, <2>3, <2>4
  <2> QED
    BY <2>5 DEF P, Q, S
<1>17. Cardinality(S) \in Nat /\ Cardinality(In(L)) \in Nat /\ Cardinality(In(L - 1)) \in Nat
  BY <1>12, <1>13
<1> QED
  BY <1>4, <1>5, <1>14, <1>15, <1>16, <1>17

(* packets_per_second is the count of one whole second of those that follow   *)
(* one another from the first packet on, for any gaps between the packets; the *)
(* sliding second of packet-stats.md lies in two of them.                     *)
THEOREM RateOfASecond == Spec => []WindowIsASecond
<1>1. IInv => WindowIsASecond
  BY SlidingBetween DEF IInv, WindowIsASecond
<1> QED
  BY <1>1, Invariant, PTL
=============================================================================
