----------------------------- MODULE MCLedStatus ----------------------------
(* One pin, a queue of three commands, and three timers one after another.     *)
EXTENDS LedStatus
=============================================================================
