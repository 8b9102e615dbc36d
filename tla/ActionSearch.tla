---------------------------- MODULE ActionSearch ----------------------------
(***************************************************************************)
(* The breadth-first search for the fewest actions from start to goal,     *)
(* which the program has twice: shortest_action_steps decides in the map   *)
(* generator which maps are saved, MazeEnv::ComputeShortestActionSteps in  *)
(* the client which maps are run. They take the same steps.                *)
(***************************************************************************)
EXTENDS GridPaths, Sequences

CONSTANTS Cols, Rows

ASSUME GridAssumption == Cols \in Nat \ {0} /\ Rows \in Nat \ {0}

Cells == (0..Cols-1) \X (0..Rows-1)

VARIABLES
  blocked, start, goal,  \* the map searched
  distance,              \* steps from the start, Unseen before
  queue,                 \* cells seen and not yet expanded, oldest first
  current,               \* the cell being expanded
  dir,                   \* the next direction to try; Idle between cells
  result                 \* Pending, NoPath or the answer

map == <<blocked, start, goal>>
vars == <<map, distance, queue, current, dir, result>>

Unseen  == -1
Pending == -2
Idle    == 9

ACTION_DIRECTIONS ==
  << <<0, 1>>, <<1, 1>>, <<1, 0>>, <<1, -1>>,
     <<0, -1>>, <<-1, -1>>, <<-1, 0>>, <<-1, 1>> >>

-----------------------------------------------------------------------------

Walkable(x, y) == <<x, y>> \in Cells /\ <<x, y>> \notin blocked

Ahead(cell, d) == <<cell[1] + ACTION_DIRECTIONS[d][1],
                    cell[2] + ACTION_DIRECTIONS[d][2]>>

(* Mutant: the cells beside a diagonal are not looked at. *)
PassableAcrossCorners(cell, d) ==
  Walkable(Ahead(cell, d)[1], Ahead(cell, d)[2])

Passable(cell, d) ==
  /\ Walkable(Ahead(cell, d)[1], Ahead(cell, d)[2])
  /\ ACTION_DIRECTIONS[d][1] # 0 /\ ACTION_DIRECTIONS[d][2] # 0 =>
       Walkable(Ahead(cell, d)[1], cell[2])
         /\ Walkable(cell[1], Ahead(cell, d)[2])

Init ==
  /\ blocked \in SUBSET Cells /\ start \in Cells /\ goal \in Cells
  /\ distance = [c \in Cells |-> IF c = start THEN 0 ELSE Unseen]
  /\ queue = <<start>>
  /\ current = start
  /\ dir = Idle
  /\ result = IF Walkable(start[1], start[2]) /\ Walkable(goal[1], goal[2])
              THEN Pending ELSE NoPath

(* Mutant: directions are counted from zero. *)
TakeFromZero ==
  /\ result = Pending /\ dir = Idle /\ queue # <<>>
  /\ current' = Head(queue)
  /\ queue' = Tail(queue)
  /\ \/ /\ Head(queue) = goal
        /\ result' = distance[Head(queue)]
        /\ UNCHANGED dir
     \/ /\ Head(queue) # goal
        /\ dir' = 0
        /\ UNCHANGED result
  /\ UNCHANGED <<map, distance>>

(* Mutant: the first direction is skipped. *)
TakeFromSecond ==
  /\ result = Pending /\ dir = Idle /\ queue # <<>>
  /\ current' = Head(queue)
  /\ queue' = Tail(queue)
  /\ \/ /\ Head(queue) = goal
        /\ result' = distance[Head(queue)]
        /\ UNCHANGED dir
     \/ /\ Head(queue) # goal
        /\ dir' = 2
        /\ UNCHANGED result
  /\ UNCHANGED <<map, distance>>

(* The oldest cell of the queue is the goal, or is expanded next. *)
Take ==
  /\ result = Pending /\ dir = Idle /\ queue # <<>>
  /\ current' = Head(queue)
  /\ queue' = Tail(queue)
  /\ \/ /\ Head(queue) = goal
        /\ result' = distance[Head(queue)]
        /\ UNCHANGED dir
     \/ /\ Head(queue) # goal
        /\ dir' = 1
        /\ UNCHANGED result
  /\ UNCHANGED <<map, distance>>

(* Mutant: the newest cell is expanded first. *)
LookDepthFirst ==
  /\ dir # Idle
  /\ dir' = dir + 1
  /\ LET next == Ahead(current, dir)
     IN  IF Passable(current, dir) /\ distance[next] = Unseen
         THEN /\ distance' = [distance EXCEPT ![next] = distance[current] + 1]
              /\ queue' = <<next>> \o queue
         ELSE UNCHANGED <<distance, queue>>
  /\ UNCHANGED <<map, current, result>>

(* Mutant: the rule for diagonals is left out here. *)
LookAcrossCorners ==
  /\ dir # Idle
  /\ dir' = dir + 1
  /\ LET next == Ahead(current, dir)
     IN  IF PassableAcrossCorners(current, dir) /\ distance[next] = Unseen
         THEN /\ distance' = [distance EXCEPT ![next] = distance[current] + 1]
              /\ queue' = Append(queue, next)
         ELSE UNCHANGED <<distance, queue>>
  /\ UNCHANGED <<map, current, result>>

(* One direction of the cell being expanded. *)
Look ==
  /\ dir # Idle
  /\ dir' = dir + 1
  /\ LET next == Ahead(current, dir)
     IN  IF Passable(current, dir) /\ distance[next] = Unseen
         THEN /\ distance' = [distance EXCEPT ![next] = distance[current] + 1]
              /\ queue' = Append(queue, next)
         ELSE UNCHANGED <<distance, queue>>
  /\ UNCHANGED <<map, current, result>>

Exhausted ==
  /\ result = Pending /\ dir = Idle /\ queue = <<>>
  /\ result' = NoPath
  /\ UNCHANGED <<map, distance, queue, current, dir>>

Returned == result # Pending /\ UNCHANGED vars

Next == Take \/ Look \/ Exhausted \/ Returned

Spec == Init /\ [][Next]_vars

-----------------------------------------------------------------------------
(* Properties                                                              *)

TypeOK ==
  /\ blocked \subseteq Cells /\ start \in Cells /\ goal \in Cells
  /\ distance \in [Cells -> Nat \cup {Unseen}]
  /\ queue \in Seq(Cells)
  /\ current \in Cells
  /\ dir \in 1..Idle
  /\ result \in Nat \cup {NoPath, Pending}

Seen(c) == distance[c] # Unseen

(* The queue holds cells in the order of their distance, at most one step  *)
(* apart, each once and none farther than one step from the cell expanded. *)
QueueOrdered ==
  /\ \A i \in DOMAIN queue :
       /\ Seen(queue[i])
       /\ distance[queue[i]] \in distance[current]..(distance[current] + 1)
  /\ \A i, j \in DOMAIN queue : i < j =>
       /\ queue[i] # queue[j]
       /\ distance[queue[i]] <= distance[queue[j]]

(* Every cell seen can be reached in as many steps as its distance says:   *)
(* another cell seen, one step closer, has an allowed action to it.        *)
DistancesReached ==
  \A c \in Cells : Seen(c) /\ c # start =>
    \E p \in Cells, d \in 1..8 :
      /\ Seen(p) /\ distance[p] + 1 = distance[c]
      /\ Ahead(p, d) = c /\ Passable(p, d)

(* No cell expanded has an allowed action to a cell that is unseen or more *)
(* than one step farther: with DistancesReached no shorter path is left.   *)
ExpandedComplete ==
  \A c \in Cells :
    Seen(c) /\ result = Pending /\ (\A i \in DOMAIN queue : queue[i] # c) =>
      \A d \in 1..8 :
        Passable(c, d) /\ (c = current => d < dir) =>
          Seen(Ahead(c, d)) /\ distance[Ahead(c, d)] <= distance[c] + 1

(* What the search knows at every step is true and complete.               *)
SearchSound ==
  TypeOK /\ QueueOrdered /\ DistancesReached /\ ExpandedComplete

(* Both searches return the fewest actions by the rule of movement that    *)
(* MazeEnv::Step enforces, and -1 exactly when there is no way.            *)
SearchExact ==
  result # Pending =>
    result = ShortestSteps(Cells \ blocked, start, goal)
=============================================================================
