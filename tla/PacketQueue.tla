---------------------------- MODULE PacketQueue ----------------------------
(***************************************************************************)
(* What packet_buffer promises its callers, whatever its bytes look like:  *)
(* a queue of whole packets, each delivered once, oldest first.  A packet  *)
(* leaves the queue by being popped or because a caller flushed, closed or *)
(* opened the buffer; "not found" is answered by an empty queue only.      *)
(***************************************************************************)
EXTENDS Naturals, Sequences

CONSTANTS Packet,       \* packets a caller may push: bytes and metadata together
          Code,         \* the codes of the replies
          NoPacket      \* the packet of a reply that names none

VARIABLES queue,        \* the accepted packets not yet delivered, oldest first
          reply         \* the last call answered: [call, code, packet]

vars == <<queue, reply>>

Reply(call, code, packet) == [call |-> call, code |-> code, packet |-> packet]

Init == queue = << >> /\ reply = Reply("none", "OK", NoPacket)

Accept(p) == /\ queue' = Append(queue, p)
             /\ reply' = Reply("push", "OK", p)

Deliver == /\ queue # << >>
           /\ reply' = Reply("pop", "OK", Head(queue))
           /\ queue' = Tail(queue)

Clear(call) == /\ queue' = << >>
               /\ reply' = Reply(call, "OK", NoPacket)

\* A refused call changes nothing, and a refused pop that knows of a packet
\* names the oldest one.
Refuse == /\ \E call \in {"push", "pop", "flush", "init", "deinit"},
                code \in Code \ {"OK"}, p \in Packet \cup {NoPacket} :
               /\ reply' = Reply(call, code, p)
               /\ call = "pop" /\ code = "NOT_FOUND" => queue = << >>
               /\ call = "pop" /\ code = "INVALID_SIZE" =>
                     queue # << >> /\ p = Head(queue)
          /\ UNCHANGED queue

Next == \/ \E p \in Packet : Accept(p)
        \/ Deliver
        \/ \E call \in {"flush", "init", "deinit"} : Clear(call)
        \/ Refuse

Spec == Init /\ [][Next]_vars
=============================================================================
