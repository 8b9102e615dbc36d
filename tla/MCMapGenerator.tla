--------------------------- MODULE MCMapGenerator ---------------------------
(* The configurations of MapGenerator for TLC: maps small enough to carve  *)
(* every maze of them, one for each question asked.                        *)
EXTENDS MapGenerator

Config(count, size, room, open, obstacles, mode, fixed, distance) ==
  [grid_count |-> count, grid_size |-> size, room_size |-> room,
   open |-> open, obstacles |-> obstacles, mode |-> mode,
   start |-> fixed[1], end |-> fixed[2], min_distance |-> distance]

NoFixedEnds == << <<0, 0>>, <<0, 0>> >>

(* Four by four rooms of 3 by 3 cells, as the default configuration has    *)
(* them, with pillars.                                                     *)
Roomy == Config(16, 1, 3, <<1, 5>>, TRUE, "default", NoFixedEnds, 0)

(* Rooms of 2 by 2 cells that pillars may fill.                            *)
Narrow == Config(12, 3, 2, <<0, 1>>, TRUE, "default", NoFixedEnds, 0)

(* The classic grid of single cells, with random ends.                     *)
Random == Config(6, 1, 1, <<1, 2>>, TRUE, "random", NoFixedEnds, 2)

(* One position in every cell of the diagonal, and the very end of the     *)
(* map, for the start or for the end.                                      *)
Diagonal ==
  {<<p, p>> : p \in {((2 * g + 1) * 450) \div 20 : g \in 0..9} \cup {450}}

Fixed ==
  {Config(9, 50, 2, <<1, 5>>, FALSE, "fixed", fixed, 0) :
     fixed \in (Diagonal \X {<<450, 450>>}) \cup ({<<0, 0>>} \X Diagonal)}

AllConfigs == {Roomy, Narrow, Random} \cup Fixed
=============================================================================
