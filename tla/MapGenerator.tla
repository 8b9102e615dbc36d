---------------------------- MODULE MapGenerator ----------------------------
(***************************************************************************)
(* generate_reachable_map and generate_map of the map generator: a maze of *)
(* rooms is carved, opened, dug into the grid of cells, furnished with     *)
(* pillars and searched; a map without a way is thrown away and the next   *)
(* seed is tried. What the random generator draws is a choice.             *)
(***************************************************************************)
EXTENDS GridPaths, Sequences, SequencesExt

CONSTANTS
  Configs,             \* the configurations a run may be given
  MaxPillars,          \* bound: pillars drawn, short of all of them
  MAX_RETRY

(* What main() reads of a configuration: lengths, the ratio of extra       *)
(* openings as a fraction, whether pillars are drawn, and the ends.        *)
IsConfig(c) ==
  LET positions == (0..c.grid_count * c.grid_size) \X
                     (0..c.grid_count * c.grid_size)
  IN  /\ {c.grid_count, c.grid_size, c.room_size} \subseteq Nat \ {0}
      /\ c.open \in Nat \X (Nat \ {0}) /\ c.open[1] <= c.open[2]
      /\ c.obstacles \in BOOLEAN
      /\ c.mode \in {"default", "fixed", "random"}
      /\ {c.start, c.end} \subseteq positions
      /\ c.min_distance \in Nat

ASSUME GeneratorAssumption ==
  /\ \A c \in Configs : IsConfig(c)
  /\ MaxPillars \in Nat /\ MAX_RETRY \in Nat \ {0}

VARIABLES
  config,      \* the configuration
  stage,       \* where generate_map is
  attempt,     \* attempts before this one
  walls,       \* WallEdgeSet.walls
  visited,     \* rooms visited by the carving
  stack,       \* and its stack
  ends,        \* the rooms of start and goal
  blocked      \* the blocked cells of the output grid

vars == <<config, stage, attempt, walls, visited, stack, ends, blocked>>

RoomSize == config.room_size
Stride == RoomSize + 1
RoomDim ==
  IF config.grid_count \div Stride < 2 THEN 2
  ELSE config.grid_count \div Stride
OutDim == RoomDim * Stride + 1
MapSize == config.grid_count * config.grid_size
Mode == config.mode

Rooms == (0..RoomDim-1) \X (0..RoomDim-1)
Cells == (0..OutDim-1) \X (0..OutDim-1)

-----------------------------------------------------------------------------
(* Rooms and the walls between them                                        *)

Near(r, s, radius) ==
  r[1] - s[1] \in -radius..radius /\ r[2] - s[2] \in -radius..radius

Adjacent(r) ==
  {<<r[1] - 1, r[2]>>, <<r[1] + 1, r[2]>>,
   <<r[1], r[2] - 1>>, <<r[1], r[2] + 1>>} \cap Rooms

AllWalls == UNION {{{r, s} : s \in Adjacent(r)} : r \in Rooms}

(* Mutant: a wall is known by its two rooms in order only. *)
RemoveOrdered(w, a, b) ==
  IF b[1] >= a[1] /\ b[2] >= a[2] THEN w \ {{a, b}} ELSE w

RemoveWall(w, a, b) == w \ {{a, b}}

(* clear_safe_zone: the walls inside the square around a room. *)
SafeZone(w, r) == {v \in w : \A s \in v : Near(s, r, 1)}

-----------------------------------------------------------------------------
(* From rooms to cells: edges_to_blocked_grid                              *)

RoomCells(r) ==
  {<<r[1] * Stride + 1 + dx, r[2] * Stride + 1 + dy>> :
     dx \in 0..RoomSize-1, dy \in 0..RoomSize-1}

RightGap(r) ==
  {<<(r[1] + 1) * Stride, r[2] * Stride + 1 + dy>> : dy \in 0..RoomSize-1}

(* Mutant: the gap is dug one row short of the wall. *)
UpperGapShort(r) ==
  {<<r[1] * Stride + 1 + dx, (r[2] + 1) * Stride - 1>> : dx \in 0..RoomSize-1}

UpperGap(r) ==
  {<<r[1] * Stride + 1 + dx, (r[2] + 1) * Stride>> : dx \in 0..RoomSize-1}

DugFrom(w) ==
  LET right(r) == <<r[1] + 1, r[2]>>
      upper(r) == <<r[1], r[2] + 1>>
      opened(r, s) == s \in Rooms /\ {r, s} \notin w
  IN  Cells \
        ((UNION {RoomCells(r) : r \in Rooms})
          \cup (UNION {RightGap(r) : r \in {q \in Rooms : opened(q, right(q))}})
          \cup (UNION {UpperGap(r) : r \in {q \in Rooms : opened(q, upper(q))}}))

Centre(r) == <<r[1] * Stride + 1 + RoomSize \div 2,
               r[2] * Stride + 1 + RoomSize \div 2>>

(* Mutant: radius 2, as clear_safe_zone has it by default. *)
ClearSquareWide(cell) == {c \in Cells : Near(c, cell, 2)}

(* clear_blocked_safe_zone *)
ClearSquare(cell) == {c \in Cells : Near(c, cell, 1)}

(* Mutant: pillars up to the edge of large rooms. *)
PillarPlacesToEdge(r) == RoomCells(r)

(* add_room_obstacles: large rooms keep their rim free. *)
PillarPlaces(r) ==
  LET from == IF RoomSize >= 3 THEN 1 ELSE 0
      to   == IF RoomSize >= 3 THEN RoomSize - 2 ELSE RoomSize - 1
  IN  {<<r[1] * Stride + 1 + dx, r[2] * Stride + 1 + dy>> :
         dx \in from..to, dy \in from..to}

(* Draws: any few of the places, or, as density 1 draws, all of them. *)
FewOf(places) ==
  {{p[i] : i \in 1..MaxPillars} \cap places :
     p \in [1..MaxPillars -> places \cup {<<>>}]}

Pillars ==
  IF config.obstacles /\ RoomSize >= 2
  THEN LET rooms  == {r \in Rooms : /\ ~Near(r, ends.start, 1)
                                    /\ ~Near(r, ends.goal, 1)}
           places == UNION {PillarPlaces(r) : r \in rooms}
       IN  FewOf(places) \cup {places}
  ELSE {{}}

-----------------------------------------------------------------------------
(* The ends                                                                *)

Clamp(n) == IF n < 0 THEN 0 ELSE IF n > RoomDim - 1 THEN RoomDim - 1 ELSE n

(* Mutant: the wall at the low side is not counted. *)
RoomAtNoWall(pos) ==
  <<Clamp(((pos[1] * OutDim) \div MapSize) \div Stride),
    Clamp(((pos[2] * OutDim) \div MapSize) \div Stride)>>

(* Mutant: a position in the last wall is a room of its own. *)
RoomAtUnclamped(pos) ==
  <<((pos[1] * OutDim) \div MapSize - 1) \div Stride,
    ((pos[2] * OutDim) \div MapSize - 1) \div Stride>>

(* fixed mode: the room at a position of the map. *)
RoomAt(pos) ==
  <<Clamp(((pos[1] * OutDim) \div MapSize - 1) \div Stride),
    Clamp(((pos[2] * OutDim) \div MapSize - 1) \div Stride)>>

FarEnough(r, s) ==
  (r[1] - s[1]) * (r[1] - s[1]) + (r[2] - s[2]) * (r[2] - s[2])
    >= config.min_distance * config.min_distance

EndPairs ==
  IF Mode = "fixed"
  THEN {[start |-> RoomAt(config.start), goal |-> RoomAt(config.end)]}
  ELSE IF Mode = "random"
  THEN {p \in [start : Rooms, goal : Rooms] : FarEnough(p.start, p.goal)}
  ELSE {[start |-> <<0, 0>>, goal |-> <<RoomDim - 1, RoomDim - 1>>]}

NoEnds == [start |-> <<0, 0>>, goal |-> <<0, 0>>]

-----------------------------------------------------------------------------
(* blocked_to_wall_segments: first the runs of each column, then the runs  *)
(* of each row among the cells that are left.                              *)

Segment(a, b) == [from |-> a, to |-> b]

Between(s) == (s.from[1]..s.to[1]) \X (s.from[2]..s.to[2])

(* How far a run of the cells goes on from one of them. *)
RunLength(cells, c, dx, dy) ==
  CHOOSE n \in 0..OutDim :
    /\ \A k \in 0..n : <<c[1] + k * dx, c[2] + k * dy>> \in cells
    /\ <<c[1] + (n + 1) * dx, c[2] + (n + 1) * dy>> \notin cells

Runs(cells, dx, dy) ==
  {Segment(c, LET n == RunLength(cells, c, dx, dy)
              IN  <<c[1] + n * dx, c[2] + n * dy>>) :
     c \in {d \in cells : <<d[1] - dx, d[2] - dy>> \notin cells}}

Columns == Runs(blocked, 0, 1)

(* Mutant: the cells of the columns are not marked. *)
UsedForgotten == {}

Used == UNION {Between(s) : s \in Columns}
Rows == Runs(blocked \ Used, 1, 0)
Segments == Columns \cup Rows

-----------------------------------------------------------------------------
(* The steps of generate_map                                               *)

Draw ==
  /\ stage = "Carve"
  /\ walls = AllWalls
  /\ visited = {<<0, 0>>}
  /\ stack = << <<0, 0>> >>
  /\ ends = NoEnds
  /\ blocked = {}

(* generate_maze_edges: go on to an unvisited neighbour ... *)
CarveOn ==
  /\ stage = "Carve"
  /\ \E r \in Adjacent(Last(stack)) \ visited :
       /\ visited' = visited \cup {r}
       /\ walls' = RemoveWall(walls, Last(stack), r)
       /\ stack' = Append(stack, r)
  /\ UNCHANGED <<config, stage, attempt, ends, blocked>>

(* ... or, where there is none, back; at the first room it is done. *)
CarveBack ==
  /\ stage = "Carve"
  /\ Adjacent(Last(stack)) \subseteq visited
  /\ stack' = Front(stack)
  /\ IF Len(stack) = 1
     THEN stage' = "Open" /\ visited' = {}
     ELSE UNCHANGED <<stage, visited>>
  /\ UNCHANGED <<config, attempt, walls, ends, blocked>>

ExtraOpen == (Cardinality(walls) * config.open[1]) \div config.open[2]

(* extra_open_walls *)
OpenExtra ==
  /\ stage = "Open"
  /\ \E opened \in kSubset(ExtraOpen, walls) :
       walls' = walls \ opened
  /\ stage' = "Ends"
  /\ UNCHANGED <<config, attempt, visited, stack, ends, blocked>>

(* Start and goal, the zones around them, and the grid. *)
Dig ==
  /\ stage = "Ends"
  /\ \E p \in EndPairs :
       /\ ends' = p
       /\ walls' = walls \ (SafeZone(walls, p.start)
                             \cup SafeZone(walls, p.goal))
  /\ blocked' = DugFrom(walls')
  /\ stage' = "Furnish"
  /\ UNCHANGED <<config, attempt, visited, stack>>

Furnish ==
  /\ stage = "Furnish"
  /\ \E pillars \in Pillars :
       blocked' = (blocked \cup pillars) \
                    (ClearSquare(Centre(ends.start)) \cup
                     ClearSquare(Centre(ends.goal)))
  /\ stage' = "Search"
  /\ UNCHANGED <<config, attempt, walls, visited, stack, ends>>

-----------------------------------------------------------------------------
(* The steps of generate_reachable_map                                     *)

PathLength ==
  ShortestSteps(Cells \ blocked, Centre(ends.start), Centre(ends.goal))

Accept ==
  /\ stage = "Search" /\ PathLength > 0
  /\ stage' = "Done"
  /\ UNCHANGED <<config, attempt, walls, visited, stack, ends, blocked>>

(* Mutant: a failed attempt is not counted. *)
RetryUncounted ==
  /\ attempt' = attempt
  /\ stage' = "Carve"
  /\ walls' = AllWalls /\ visited' = {<<0, 0>>} /\ stack' = << <<0, 0>> >>
  /\ ends' = NoEnds /\ blocked' = {}
  /\ UNCHANGED config

(* The next seed, while there is one. *)
Retry ==
  /\ IF attempt < MAX_RETRY - 1
     THEN /\ attempt' = attempt + 1
          /\ stage' = "Carve"
          /\ walls' = AllWalls
          /\ visited' = {<<0, 0>>}
          /\ stack' = << <<0, 0>> >>
     ELSE /\ attempt' = attempt
          /\ stage' = "Failed"
          /\ walls' = {} /\ visited' = {} /\ stack' = <<>>
  /\ ends' = NoEnds
  /\ blocked' = {}
  /\ UNCHANGED config

Unreachable == stage = "Search" /\ PathLength <= 0 /\ Retry

(* generate_random_start_end: 500 draws were all too close. *)
EndsTooClose ==
  /\ stage = "Ends" /\ Mode = "random"
  /\ \E r, s \in Rooms : ~FarEnough(r, s)
  /\ Retry

Returned == stage \in {"Done", "Failed"} /\ UNCHANGED vars

Init ==
  /\ attempt = 0
  /\ config \in Configs
  /\ Draw

Next ==
  \/ CarveOn \/ CarveBack \/ OpenExtra \/ Dig \/ Furnish
  \/ Accept \/ Unreachable \/ EndsTooClose
  \/ Returned

Spec == Init /\ [][Next]_vars

(* The generator is one thread that does nothing else. *)
FairSpec == Spec /\ WF_vars(Next)

-----------------------------------------------------------------------------
(* What the client does with a saved map: MazeEnv::LoadMapFromFile and     *)
(* MazeEnv::Init. Lengths are written in hundredths.                       *)

Rounded(n, d) == (2 * n + d) \div (2 * d)

(* Mutant: the grid size of the configuration is written. *)
GridSizeConfigured == 100 * config.grid_size

GridSizeWritten == Rounded(100 * MapSize, OutDim)

PositionWritten(g) == Rounded(100 * (2 * g + 1) * MapSize, 2 * OutDim)

ToGrid(p) ==
  IF p \div GridSizeWritten > OutDim - 1 THEN OutDim - 1
  ELSE p \div GridSizeWritten

ClientSees(cell) ==
  <<ToGrid(PositionWritten(cell[1])), ToGrid(PositionWritten(cell[2]))>>

-----------------------------------------------------------------------------
(* Properties                                                              *)

TypeOK ==
  /\ stage \in {"Carve", "Open", "Ends", "Furnish", "Search", "Done",
                "Failed"}
  /\ attempt \in 0..MAX_RETRY-1
  /\ config \in Configs
  /\ walls \subseteq AllWalls
  /\ visited \subseteq Rooms
  /\ \A i \in DOMAIN stack : stack[i] \in Rooms
  /\ ends \in [start : Rooms, goal : Rooms]
  /\ blocked \subseteq Cells

(* Rooms reached from the first one through opened walls. *)
RoomsConnected(open) ==
  LET farther(last) ==
        Listed(last \cup {s \in Rooms : \E r \in last : {r, s} \in open})
      reach[n \in 0..Cardinality(Rooms)] ==
        IF n = 0 THEN {<<0, 0>>} ELSE farther(reach[n - 1])
  IN  reach[Cardinality(Rooms)] = Rooms

(* The carving leaves a perfect maze: every room is connected to every     *)
(* other one in exactly one way.                                           *)
PerfectMaze ==
  stage = "Open" =>
    /\ RoomsConnected(AllWalls \ walls)
    /\ Cardinality(AllWalls \ walls) = Cardinality(Rooms) - 1

BorderOf(n) ==
  {<<0, n>>, <<OutDim - 1, n>>, <<n, 0>>, <<n, OutDim - 1>>}

(* Extra openings and safe zones only add ways, and digging keeps them:    *)
(* from the start every open cell of the dug grid can be reached by        *)
(* actions, and its border is closed.                                      *)
DugInOnePiece ==
  stage = "Furnish" =>
    LET open == Cells \ blocked
    IN  /\ Reachable(open, Centre(ends.start)) = open
        /\ \A n \in 0..OutDim-1 : BorderOf(n) \subseteq blocked

(* Maps of large rooms, and maps without pillars, always have a way, as    *)
(* long as start and goal are in different rooms: the pillars leave the    *)
(* rims and gaps free, so the first such map is the one that is saved.     *)
RoomyMapsReachable ==
  [][/\ stage = "Search" /\ ends.start # ends.goal
     /\ RoomSize >= 3 \/ ~config.obstacles
     => stage' = "Done"]_vars

(* Whatever is cleared around start and goal, the border of a map of large *)
(* rooms stays closed.                                                     *)
BorderClosed ==
  stage = "Search" /\ RoomSize >= 3 =>
    \A n \in 0..OutDim-1 : BorderOf(n) \subseteq blocked

(* The segments shown by the players cover exactly the blocked cells, and  *)
(* each of them once.                                                      *)
SegmentsExact ==
  stage = "Search" =>
    /\ UNION {Between(s) : s \in Segments} = blocked
    /\ \A s, t \in Segments : s # t => Between(s) \cap Between(t) = {}

(* The client accepts every saved map: the positions, rounded to           *)
(* hundredths and divided by the rounded grid size, fall into the cells    *)
(* the map names, which are open, and there are segments (SegmentsExact).  *)
AcceptedByClient ==
  stage = "Done" =>
    /\ GridSizeWritten > 0 /\ blocked # {}
    /\ \A c \in {Centre(ends.start), Centre(ends.goal)} :
         ClientSees(c) = c /\ c \in Cells \ blocked

(* In fixed mode no other room's centre is nearer to the cell asked for.   *)
FixedEndsNearest ==
  Mode = "fixed" /\ stage = "Furnish" =>
    \A i \in {1, 2}, r \in Rooms :
      LET away(room, pos) ==
            LET d == Centre(room)[i] - (pos[i] * OutDim) \div MapSize
            IN  IF d < 0 THEN -d ELSE d
      IN  /\ away(ends.start, config.start) <= away(r, config.start)
          /\ away(ends.goal, config.end) <= away(r, config.end)

(* The map is sound at every stage of its making.                          *)
MapSound ==
  /\ TypeOK /\ PerfectMaze /\ DugInOnePiece /\ BorderClosed
  /\ SegmentsExact /\ FixedEndsNearest

(* A generation ends, with a map or after its last retry. *)
GenerationEnds == <>(stage \in {"Done", "Failed"})
=============================================================================
