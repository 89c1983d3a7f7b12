----------------------------- MODULE MCReaction -----------------------------
(* Reaction times for the runs: either player can be the faster one.       *)
EXTENDS Reaction, TLC

DistinctTimes == M0 :> {1, 3} @@ M1 :> {2}
EqualTimes == M0 :> {1, 2} @@ M1 :> {1, 2}
=============================================================================
