----------------------------- MODULE MCEpisode -----------------------------
(* Bounds for model checking MazeEpisode. The map is a 3x3 grid whose      *)
(* blocked cell leaves diagonals with only one free corner:                *)
(*                                                                         *)
(*    G . .        y = 2       G: the goal, 2 actions away                 *)
(*    . # .        y = 1                                                   *)
(*    S . .        y = 0                                                   *)
EXTENDS MazeEpisode, TLC

GridBlocked == {<<1, 1>>}
GridStart   == <<0, 0>>
GridGoal    == <<0, 2>>

Symmetry == Permutations(Agents)
=============================================================================
