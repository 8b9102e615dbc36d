-------------------------- MODULE MCReplayService --------------------------
(* Bounds for model checking ReplayService: two configurations, on ports   *)
(* of their own.                                                           *)
EXTENDS ReplayService, TLC

CONSTANTS c1, c2

TwoPorts == c1 :> 9004 @@ c2 :> 9005

Symmetry == Permutations(Managers) \cup Permutations(Pids)
=============================================================================
