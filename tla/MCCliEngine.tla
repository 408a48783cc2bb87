---------------------------- MODULE MCCliEngine -----------------------------
(* Four scripts: one that calls others and stores a value, one with a comment *)
(* too long for the buffer, one that calls itself and one that reboots.       *)
EXTENDS CliEngine, TLC

CONSTANTS calls, notes, loops, last, k

MCScript == {calls, notes, loops, last}
MCKey == {k}
Done == [op |-> "done"]
Fails == [op |-> "fails"]
Comment == [op |-> "skip"]
Run(f) == [op |-> "script", file |-> f]
Set(n) == [op |-> "set", key |-> k, len |-> n]
Get1 == [op |-> "get", key |-> k]

MCPieces == calls :> <<Run(notes), Set(2), Get1, Run(loops)>>
         @@ notes :> <<Comment, Done, Get1>>
         @@ loops :> <<Done, Run(loops), Set(1)>>
         @@ last  :> <<Set(2), [op |-> "reboot"]>>

MCEntered == {Run(calls), Run(notes), Run(loops), Run(last), Set(1), Set(3), Fails, Done, [op |-> "reboot"]}
=============================================================================
