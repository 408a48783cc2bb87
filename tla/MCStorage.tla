----------------------------- MODULE MCStorage ------------------------------
(* A card of eight units with up to four captures, two of one age, and an array *)
(* that takes three of them.                                                   *)
EXTENDS Storage, TLC

CONSTANTS f1, f2, f3, f4

MCCapture == {f1, f2, f3, f4}
MCMtime == f1 :> 1 @@ f2 :> 2 @@ f3 :> 2 @@ f4 :> 3
MCBytes == f1 :> 1 @@ f2 :> 2 @@ f3 :> 1 @@ f4 :> 3
=============================================================================
