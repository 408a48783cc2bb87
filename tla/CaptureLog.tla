----------------------------- MODULE CaptureLog -----------------------------
(***************************************************************************)
(* What pcap_writer keeps of what its callers write, whatever becomes of   *)
(* single calls of the file system: the packets it took since the capture  *)
(* was opened, each once and in the order they were written.  A call that  *)
(* fails takes nothing and loses nothing that was taken before, but it may *)
(* leave the log damaged: then packets are acknowledged and lost, until    *)
(* one is taken again.                                                     *)
(***************************************************************************)
EXTENDS Sequences

CONSTANTS Packet,       \* packets a caller may write
          Code          \* the codes of the replies

VARIABLES log,          \* the packets of the capture, oldest first
          damaged,      \* what is written next may be lost
          reply         \* the code of the last call

vars == <<log, damaged, reply>>

Init == log = << >> /\ damaged = FALSE /\ reply = "OK"

Take(p) == log' = Append(log, p) /\ damaged' = FALSE /\ reply' = "OK"

\* Acknowledged, and out of the reach of a reader.
Lose == damaged /\ reply' = "OK" /\ UNCHANGED <<log, damaged>>

\* A capture begins or ends.
Clear == log' = << >> /\ damaged' = FALSE /\ reply' = "OK"

Refuse == reply' \in Code \ {"OK"} /\ damaged' \in BOOLEAN /\ UNCHANGED log

Next == (\E p \in Packet : Take(p)) \/ Lose \/ Clear \/ Refuse

Spec == Init /\ [][Next]_vars
=============================================================================
