----------------------------- MODULE GridPaths -----------------------------
(***************************************************************************)
(* Shortest paths over a set of open cells by the client's rule of         *)
(* movement, defined layer by layer. The searches in the code are checked  *)
(* against this definition and it stands for them where they are used.     *)
(***************************************************************************)
EXTENDS MazeGrid, FiniteSets

(* MazeEnv::IsActionAvailable: the target must be open, and for a diagonal *)
(* the two cells beside the way.                                           *)
CanMove(open, cell, a) ==
  LET x == cell[1] + Dx[a]
      y == cell[2] + Dy[a]
  IN  {<<x, y>>, <<x, cell[2]>>, <<cell[1], y>>} \subseteq open

Neighbours(open, cell) ==
  {<<cell[1] + Dx[a], cell[2] + Dy[a]>> :
     a \in {b \in Actions \ {0} : CanMove(open, cell, b)}}

(* The same set, in a form that makes TLC list its elements once. *)
Listed(S) == {x : x \in S}

NoPath == -1

(* A round of the search: what was reached, what of it was new, and the    *)
(* number of steps to the goal once that is reached.                       *)
Round(open, goal, r) ==
  LET new == Listed((UNION {Neighbours(open, c) : c \in r.last}) \ r.all)
  IN  IF r.last = {} THEN r
      ELSE [all |-> Listed(r.all \cup new), last |-> new, n |-> r.n + 1,
            steps |-> IF goal \in new THEN r.n + 1 ELSE r.steps]

(* The state of the search is kept as the element of a set and the rounds  *)
(* are taken in stretches: TLC then computes each round once and its       *)
(* recursion stays shallow.                                                *)
STRETCH == 16

Stretched(open, goal, r) ==
  LET after[n \in 0..STRETCH] ==
        IF n = 0 THEN {r}
        ELSE {Round(open, goal, q) : q \in after[n - 1]}
  IN  after[STRETCH]

Unmoved(start, goal) ==
  [all |-> {start}, last |-> {start}, n |-> 0,
   steps |-> IF start = goal THEN 0 ELSE NoPath]

(* As many stretches as a path without a cell twice can have rounds. *)
Rounds(open, start, goal) ==
  LET most == Cardinality(open) \div STRETCH + 1
      stretch[k \in 0..most] ==
        IF k = 0 THEN {Unmoved(start, goal)}
        ELSE UNION {Stretched(open, goal, r) : r \in stretch[k - 1]}
  IN  CHOOSE r \in stretch[most] : TRUE

Reachable(open, start) == Rounds(open, start, start).all

(* The length of a shortest path, or NoPath. *)
ShortestSteps(open, start, goal) ==
  IF {start, goal} \subseteq open THEN Rounds(open, start, goal).steps
  ELSE NoPath
=============================================================================
