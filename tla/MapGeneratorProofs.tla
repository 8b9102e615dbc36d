------------------------- MODULE MapGeneratorProofs -------------------------
(***************************************************************************)
(* What MapGenerator's runs check on a few small configurations, proved    *)
(* for all of them. The argument follows the making of a map: the carving  *)
(* links the rooms like a tree (CarveInv), removing more walls keeps them  *)
(* linked, digging turns links between rooms into walks over cells         *)
(* (AllWalked), and the pillars of large rooms leave the walks around the  *)
(* rooms and through the gaps free (FurnishedIsPassable).                  *)
(***************************************************************************)
EXTENDS MapGenerator, FiniteSetTheorems, SequenceTheorems, WellFoundedInduction, TLAPS

(* The types with the stack as a sequence, empty only after the carving.   *)
ShapeInv ==
  /\ TypeOK
  /\ stack \in Seq(Rooms)
  /\ stage = "Carve" => Len(stack) > 0

(* The lengths of a configuration.                                         *)
LEMMA Lengths ==
  ASSUME config \in Configs
  PROVE  /\ RoomSize \in Nat /\ RoomSize >= 1 /\ Stride = RoomSize + 1
         /\ RoomDim \in Nat /\ RoomDim >= 2
         /\ OutDim \in Nat /\ OutDim = RoomDim * Stride + 1 /\ OutDim >= 5
         /\ MapSize \in Nat /\ MapSize >= 1
<1>1. IsConfig(config)
  BY GeneratorAssumption
<1>2. /\ config.grid_count \in Nat /\ config.grid_size \in Nat
      /\ config.room_size \in Nat /\ config.grid_count >= 1
      /\ config.grid_size >= 1 /\ config.room_size >= 1
  BY <1>1 DEF IsConfig
<1>3. RoomSize \in Nat /\ RoomSize >= 1 /\ Stride = RoomSize + 1
  BY <1>2 DEF RoomSize, Stride
<1>4. config.grid_count \div Stride \in Int
  BY <1>2, <1>3
<1>5. RoomDim \in Nat /\ RoomDim >= 2
  BY <1>4 DEF RoomDim
<1>6. RoomDim * Stride \in Nat /\ RoomDim * Stride >= 4
  BY <1>3, <1>5
<1>7. MapSize \in Nat /\ MapSize >= 1
  BY <1>2 DEF MapSize
<1> QED
  BY <1>3, <1>5, <1>6, <1>7 DEF OutDim

(* What is made of the configuration alone.                                *)
LEMMA Same ==
  ASSUME config' = config
  PROVE  /\ Rooms' = Rooms /\ Cells' = Cells /\ AllWalls' = AllWalls
         /\ RoomDim' = RoomDim /\ RoomSize' = RoomSize /\ OutDim' = OutDim
         /\ Mode' = Mode /\ EndPairs' = EndPairs
         /\ \A r : Adjacent(r)' = Adjacent(r) /\ Centre(r)' = Centre(r)
         /\ \A w : DugFrom(w)' = DugFrom(w)
<1> QED
  BY DEF Rooms, Cells, AllWalls, RoomDim, RoomSize, OutDim, Stride, Adjacent,
         Mode, EndPairs, RoomAt, FarEnough, MapSize, Centre, Clamp, DugFrom,
         RoomCells, RightGap, UpperGap

-----------------------------------------------------------------------------
(* Induction                                                               *)

(* < on the naturals is a well-founded relation.                           *)
LEMMA LessThan == \A x, y \in Nat : x < y => <<x, y>> \in OpToRel(<, Nat)
  BY DEF OpToRel

(* A set of naturals that is not empty has a least element.               *)
LEMMA LeastElement ==
  ASSUME NEW S, S \subseteq Nat, S # {}
  PROVE  \E m \in S : \A n \in S : m <= n
<1>1. PICK m \in S : \A n \in S : ~(<<n, m>> \in OpToRel(<, Nat))
  BY NatLessThanWellFounded, WFMin
<1>2. \A n \in S : ~(n < m)
  BY <1>1, LessThan
<1> QED
  BY <1>2

(* A set that has 0 and is closed under + 1 has every natural.             *)
LEMMA Induction ==
  ASSUME NEW S, 0 \in S, \A n \in Nat : n \in S => n + 1 \in S
  PROVE  Nat \subseteq S
<1> SUFFICES ASSUME NEW k \in Nat, k \notin S PROVE FALSE
  OBVIOUS
<1>1. PICK m \in Nat \ S : \A n \in Nat \ S : m <= n
  BY LeastElement
<1>2. m # 0 /\ m - 1 \in Nat
  BY <1>1
<1>3. m - 1 \in S
  BY <1>1, <1>2
<1> QED
  BY <1>1, <1>2, <1>3

(* f starts at e and goes on by g up to m; there is such a function.       *)
GoesOn(f, e, g, m) ==
  \A n \in 0..m : f[n] = IF n = 0 THEN e ELSE g[f[n - 1]]

(* A recursive function over 0..m exists and its equations hold.           *)
LEMMA Recursion ==
  ASSUME NEW S, NEW e \in S, NEW g \in [S -> S], NEW m \in Nat
  PROVE  \E f \in [0..m -> S] : GoesOn(f, e, g, m)
<1> DEFINE T == {k \in Nat : \E f \in [0..k -> S] : GoesOn(f, e, g, k)}
<1>1. 0 \in T
  <2> DEFINE f == [n \in 0..0 |-> e]
  <2>1. f \in [0..0 -> S] /\ GoesOn(f, e, g, 0)
    BY DEF GoesOn
  <2> QED
    BY <2>1
<1>2. ASSUME NEW k \in Nat, k \in T PROVE k + 1 \in T
  <2>1. PICK f \in [0..k -> S] : GoesOn(f, e, g, k)
    BY <1>2
  <2> DEFINE h == [n \in 0..k+1 |-> IF n = k + 1 THEN g[f[k]] ELSE f[n]]
  <2>2. k \in 0..k /\ g[f[k]] \in S
    BY <2>1
  <2>3. h \in [0..k+1 -> S]
    BY <2>1, <2>2
  <2>4. ASSUME NEW n \in 0..k+1 PROVE h[n] = IF n = 0 THEN e ELSE g[h[n - 1]]
    <3>1. CASE n = k + 1
      <4>1. n # 0 /\ n - 1 = k /\ k \in 0..k+1 /\ k # k + 1
        BY <3>1
      <4>2. h[n] = g[f[k]] /\ h[k] = f[k]
        BY <3>1, <4>1
      <4> QED
        BY <4>1, <4>2
    <3>2. CASE n # k + 1
      <4>1. n \in 0..k /\ h[n] = f[n]
        BY <3>2
      <4>2. n # 0 => n - 1 \in 0..k+1 /\ n - 1 # k + 1
        BY <3>2
      <4>3. n # 0 => h[n - 1] = f[n - 1]
        BY <4>2
      <4>4. f[n] = IF n = 0 THEN e ELSE g[f[n - 1]]
        BY <2>1, <4>1 DEF GoesOn
      <4> QED
        BY <4>1, <4>3, <4>4
    <3> QED
      BY <3>1, <3>2
  <2>5. GoesOn(h, e, g, k + 1)
    BY <2>4 DEF GoesOn
  <2> HIDE DEF h
  <2> QED
    BY <2>3, <2>5
<1>3. m \in T
  <2> HIDE DEF T
  <2> QED
    BY <1>1, <1>2, Induction
<1> QED
  BY <1>3

-----------------------------------------------------------------------------
(* The grid of rooms                                                       *)

(* The rooms are finitely many pairs of coordinates, <<0, 0>> among them.  *)
LEMMA RoomFacts ==
  ASSUME config \in Configs
  PROVE  /\ IsFiniteSet(Rooms) /\ <<0, 0>> \in Rooms
         /\ \A r \in Rooms : /\ r = <<r[1], r[2]>>
                             /\ r[1] \in 0..RoomDim-1 /\ r[2] \in 0..RoomDim-1
         /\ \A x, y \in 0..RoomDim-1 : <<x, y>> \in Rooms
<1>1. RoomDim \in Nat /\ RoomDim >= 2
  BY Lengths
<1>2. IsFiniteSet(0..RoomDim-1)
  <2>1. 0 \in Int /\ RoomDim - 1 \in Int
    BY <1>1
  <2> QED
    BY <2>1, FS_Interval
<1>3. IsFiniteSet(Rooms)
  BY <1>2, FS_Product DEF Rooms
<1> QED
  BY <1>1, <1>3 DEF Rooms

(* Rooms are adjacent both ways, and the walls are the pairs of them.      *)
LEMMA WallFacts ==
  ASSUME config \in Configs
  PROVE  /\ \A r : Adjacent(r) \subseteq Rooms
         /\ \A r \in Rooms : \A s \in Adjacent(r) : r \in Adjacent(s) /\ r # s
         /\ \A r \in Rooms : \A s \in Adjacent(r) : {r, s} \in AllWalls
         /\ \A w \in AllWalls :
              \E r \in Rooms : \E s \in Adjacent(r) : w = {r, s}
         /\ IsFiniteSet(AllWalls)
<1>1. \A r : Adjacent(r) \subseteq Rooms
  BY DEF Adjacent
<1>2. ASSUME NEW r \in Rooms, NEW s \in Adjacent(r)
      PROVE  r \in Adjacent(s) /\ r # s
  <2>1. /\ r = <<r[1], r[2]>> /\ r[1] \in Int /\ r[2] \in Int
    BY Lengths, RoomFacts
  <2>2. \/ s = <<r[1] - 1, r[2]>> \/ s = <<r[1] + 1, r[2]>>
        \/ s = <<r[1], r[2] - 1>> \/ s = <<r[1], r[2] + 1>>
    BY DEF Adjacent
  <2>3. r \in {<<s[1] - 1, s[2]>>, <<s[1] + 1, s[2]>>,
               <<s[1], s[2] - 1>>, <<s[1], s[2] + 1>>}
    BY <2>1, <2>2
  <2> QED
    BY <2>1, <2>2, <2>3 DEF Adjacent
<1>3. \A r \in Rooms : \A s \in Adjacent(r) : {r, s} \in AllWalls
  BY DEF AllWalls
<1>4. \A w \in AllWalls : \E r \in Rooms : \E s \in Adjacent(r) : w = {r, s}
  BY DEF AllWalls
<1>5. AllWalls \subseteq SUBSET Rooms
  BY <1>1, <1>4
<1>6. IsFiniteSet(SUBSET Rooms)
  BY RoomFacts, FS_SUBSET
<1>7. IsFiniteSet(AllWalls)
  BY <1>5, <1>6, FS_Subset
<1> QED
  BY <1>1, <1>2, <1>3, <1>4, <1>7

(* From the first room every other one can be reached through the rooms    *)
(* between.                                                                *)
LEMMA GridConnected ==
  ASSUME config \in Configs, NEW X, <<0, 0>> \in X,
         \A r \in X : Adjacent(r) \subseteq X
  PROVE  Rooms \subseteq X
<1> USE Lengths
<1> DEFINE A == {n \in Nat : n < RoomDim => <<n, 0>> \in X}
<1>1. 0 \in A
  OBVIOUS
<1>2. ASSUME NEW n \in Nat, n \in A PROVE n + 1 \in A
  <2> SUFFICES ASSUME n + 1 < RoomDim PROVE <<n + 1, 0>> \in X
    OBVIOUS
  <2>1. <<n, 0>> \in X
    BY <1>2
  <2>2. <<n + 1, 0>> \in Rooms
    BY RoomFacts
  <2>3. <<n + 1, 0>> \in Adjacent(<<n, 0>>)
    BY <2>2 DEF Adjacent
  <2> QED
    BY <2>1, <2>3
<1>3. Nat \subseteq A
  <2> HIDE DEF A
  <2> QED
    BY <1>1, <1>2, Induction
<1> DEFINE B == {m \in Nat : m < RoomDim =>
                   \A n \in Nat : n < RoomDim => <<n, m>> \in X}
<1>4. 0 \in B
  BY <1>3
<1>5. ASSUME NEW m \in Nat, m \in B PROVE m + 1 \in B
  <2> SUFFICES ASSUME m + 1 < RoomDim, NEW n \in Nat, n < RoomDim
               PROVE  <<n, m + 1>> \in X
    OBVIOUS
  <2>1. <<n, m>> \in X
    BY <1>5
  <2>2. <<n, m + 1>> \in Rooms
    BY RoomFacts
  <2>3. <<n, m + 1>> \in Adjacent(<<n, m>>)
    BY <2>2 DEF Adjacent
  <2> QED
    BY <2>1, <2>3
<1>6. Nat \subseteq B
  <2> HIDE DEF B
  <2> QED
    BY <1>4, <1>5, Induction
<1>7. ASSUME NEW r \in Rooms PROVE r \in X
  <2>1. r = <<r[1], r[2]>> /\ r[1] \in 0..RoomDim-1 /\ r[2] \in 0..RoomDim-1
    BY RoomFacts
  <2>2. r[2] \in B /\ r[1] \in Nat /\ r[2] \in Nat /\ r[1] < RoomDim /\ r[2] < RoomDim
    BY <1>6, <2>1
  <2> QED
    BY <2>1, <2>2
<1> QED
  BY <1>7

-----------------------------------------------------------------------------
(* Where rooms and pillars lie in the grid                                 *)

(* The walls before and behind a room lie in the grid, and those of        *)
(* different rooms are a stride apart.                                     *)
LEMMA Strides ==
  ASSUME config \in Configs
  PROVE  /\ \A a \in 0..RoomDim-1 :
              /\ a * Stride \in Nat /\ a * Stride + Stride <= OutDim - 1
              /\ (a + 1) * Stride = a * Stride + Stride
         /\ \A a, b \in 0..RoomDim-1 :
              a < b => a * Stride + Stride <= b * Stride
<1>1. /\ Stride \in Nat /\ Stride >= 2 /\ RoomDim \in Nat
      /\ OutDim = RoomDim * Stride + 1
  BY Lengths
<1>2. \A a, b \in Nat : a <= b => a * Stride <= b * Stride
  BY <1>1
<1>3. \A a \in Nat : a * Stride \in Nat /\ (a + 1) * Stride = a * Stride + Stride
  BY <1>1
<1>4. ASSUME NEW a \in 0..RoomDim-1 PROVE a * Stride + Stride <= OutDim - 1
  <2>1. a + 1 \in Nat /\ a \in Nat /\ a + 1 <= RoomDim
    BY <1>1
  <2>2. (a + 1) * Stride <= RoomDim * Stride
    BY <1>1, <1>2, <2>1
  <2>3. (a + 1) * Stride = a * Stride + Stride /\ a * Stride \in Nat
        /\ RoomDim * Stride \in Nat
    BY <1>1, <1>3, <2>1
  <2> QED
    BY <1>1, <2>2, <2>3
<1>5. ASSUME NEW a \in 0..RoomDim-1, NEW b \in 0..RoomDim-1, a < b
      PROVE  a * Stride + Stride <= b * Stride
  <2>1. a + 1 \in Nat /\ a \in Nat /\ b \in Nat /\ a + 1 <= b
    BY <1>1, <1>5
  <2>2. (a + 1) * Stride <= b * Stride
    BY <1>2, <2>1
  <2> QED
    BY <1>3, <2>1, <2>2
<1>6. 0..RoomDim-1 \subseteq Nat
  BY <1>1
<1> QED
  BY <1>3, <1>4, <1>5, <1>6

(* A cell is in a room when it lies behind its walls by 1 to RoomSize.     *)
LEMMA RoomCellsFacts ==
  ASSUME config \in Configs, NEW r \in Rooms
  PROVE  /\ \A x, y \in Int :
              <<x, y>> \in RoomCells(r) <=>
                /\ r[1] * Stride + 1 <= x /\ x <= r[1] * Stride + RoomSize
                /\ r[2] * Stride + 1 <= y /\ y <= r[2] * Stride + RoomSize
         /\ RoomCells(r) \subseteq Cells
<1> DEFINE X == r[1] * Stride
           Y == r[2] * Stride
<1>1. /\ X \in Nat /\ Y \in Nat /\ RoomSize \in Nat /\ RoomSize >= 1
      /\ X + RoomSize + 1 <= OutDim - 1 /\ Y + RoomSize + 1 <= OutDim - 1
      /\ OutDim \in Nat
  <2>1. r[1] \in 0..RoomDim-1 /\ r[2] \in 0..RoomDim-1
    BY RoomFacts
  <2>2. /\ X \in Nat /\ X + Stride <= OutDim - 1
        /\ Y \in Nat /\ Y + Stride <= OutDim - 1
    BY <2>1, Strides
  <2> HIDE DEF X, Y
  <2> QED
    BY <2>2, Lengths
<1>2. RoomCells(r) = {<<X + 1 + dx, Y + 1 + dy>> :
                        dx \in 0..RoomSize-1, dy \in 0..RoomSize-1}
  BY DEF RoomCells
<1> HIDE DEF X, Y
<1>3. ASSUME NEW x \in Int, NEW y \in Int
      PROVE  <<x, y>> \in RoomCells(r) <=>
                /\ X + 1 <= x /\ x <= X + RoomSize
                /\ Y + 1 <= y /\ y <= Y + RoomSize
  <2>1. CASE <<x, y>> \in RoomCells(r)
    <3>1. PICK dx \in 0..RoomSize-1, dy \in 0..RoomSize-1 :
            <<x, y>> = <<X + 1 + dx, Y + 1 + dy>>
      BY <1>2, <2>1
    <3>2. x = X + 1 + dx /\ y = Y + 1 + dy
      BY <3>1
    <3> QED
      BY <1>1, <2>1, <3>2
  <2>2. CASE /\ X + 1 <= x /\ x <= X + RoomSize
             /\ Y + 1 <= y /\ y <= Y + RoomSize
    <3>1. /\ x - (X + 1) \in 0..RoomSize-1 /\ y - (Y + 1) \in 0..RoomSize-1
          /\ x = X + 1 + (x - (X + 1)) /\ y = Y + 1 + (y - (Y + 1))
      BY <1>1, <2>2
    <3>2. <<x, y>> \in RoomCells(r)
      BY <1>2, <3>1
    <3> QED
      BY <2>2, <3>2
  <2> QED
    BY <2>1, <2>2
<1>4. RoomCells(r) \subseteq Cells
  <2> SUFFICES ASSUME NEW dx \in 0..RoomSize-1, NEW dy \in 0..RoomSize-1
               PROVE  <<X + 1 + dx, Y + 1 + dy>> \in Cells
    BY <1>2
  <2>1. X + 1 + dx \in 0..OutDim-1 /\ Y + 1 + dy \in 0..OutDim-1
    BY <1>1
  <2> QED
    BY <2>1 DEF Cells
<1> QED
  BY <1>3, <1>4 DEF X, Y

(* Pillars stand in rooms, and in large ones not at the walls.             *)
LEMMA PillarFacts ==
  ASSUME config \in Configs, NEW p \in Pillars, NEW c \in p
  PROVE  \E r \in Rooms :
           /\ ~Near(r, ends.start, 1) /\ ~Near(r, ends.goal, 1)
           /\ c \in PillarPlaces(r) /\ c \in RoomCells(r)
           /\ config.obstacles
<1> DEFINE rooms == {r \in Rooms : ~Near(r, ends.start, 1) /\ ~Near(r, ends.goal, 1)}
           places == UNION {PillarPlaces(r) : r \in rooms}
<1>1. config.obstacles
  <2>1. CASE ~config.obstacles
    <3>1. Pillars = {{}}
      BY <2>1, Zenon DEF Pillars
    <3> QED
      BY <3>1
  <2> QED
    BY <2>1
<1>2. p \in FewOf(places) \cup {places}
  BY <1>1 DEF Pillars
<1>3. p \subseteq places
  <2> HIDE DEF places
  <2>1. \A q \in FewOf(places) : q \subseteq places
    BY DEF FewOf
  <2> QED
    BY <1>2, <2>1
<1>4. PICK r \in rooms : c \in PillarPlaces(r)
  BY <1>3
<1>5. PillarPlaces(r) \subseteq RoomCells(r)
  <2> DEFINE from == IF RoomSize >= 3 THEN 1 ELSE 0
             to == IF RoomSize >= 3 THEN RoomSize - 2 ELSE RoomSize - 1
  <2>1. from..to \subseteq 0..RoomSize-1
    BY Lengths
  <2>2. PillarPlaces(r) = {<<r[1] * Stride + 1 + dx, r[2] * Stride + 1 + dy>> :
                             dx \in from..to, dy \in from..to}
    BY DEF PillarPlaces
  <2> HIDE DEF from, to
  <2> QED
    BY <2>1, <2>2 DEF RoomCells
<1> QED
  BY <1>1, <1>4, <1>5

-----------------------------------------------------------------------------
(* Types                                                                   *)

(* Start and goal are rooms in every mode.                                 *)
LEMMA EndsAreRooms ==
  ASSUME config \in Configs
  PROVE  /\ EndPairs \subseteq [start : Rooms, goal : Rooms]
         /\ NoEnds \in [start : Rooms, goal : Rooms]
<1>1. \A n \in Int : Clamp(n) \in 0..RoomDim-1
  BY Lengths DEF Clamp
<1>2. \A pos \in Nat \X Nat : RoomAt(pos) \in Rooms
  <2> SUFFICES ASSUME NEW pos \in Nat \X Nat PROVE RoomAt(pos) \in Rooms
    OBVIOUS
  <2>1. ASSUME NEW p \in Nat
        PROVE  ((p * OutDim) \div MapSize - 1) \div Stride \in Int
    <3>1. p * OutDim \in Int
      BY Lengths
    <3>2. (p * OutDim) \div MapSize \in Int
      BY <3>1, Lengths
    <3> QED
      BY <3>2, Lengths
  <2>2. pos[1] \in Nat /\ pos[2] \in Nat
    OBVIOUS
  <2> QED
    BY <1>1, <2>1, <2>2, RoomFacts DEF RoomAt
<1>3. config.start \in Nat \X Nat /\ config.end \in Nat \X Nat
  <2>1. config.grid_count * config.grid_size \in Nat /\ IsConfig(config)
    BY Lengths, GeneratorAssumption DEF MapSize
  <2> QED
    BY <2>1 DEF IsConfig
<1>4. <<0, 0>> \in Rooms /\ <<RoomDim - 1, RoomDim - 1>> \in Rooms
  BY RoomFacts, Lengths
<1> QED
  BY <1>2, <1>3, <1>4 DEF EndPairs, NoEnds

(* Going back shortens the stack by one.                                   *)
LEMMA FrontFacts ==
  ASSUME NEW S, NEW s \in Seq(S), Len(s) > 0
  PROVE  /\ Front(s) \in Seq(S) /\ Len(Front(s)) = Len(s) - 1
         /\ \A i \in 1..Len(s)-1 : Front(s)[i] = s[i]
         /\ Last(s) = s[Len(s)] /\ Last(s) \in S
<1>1. Len(s) \in Nat /\ Len(s) - 1 \in Nat
  OBVIOUS
<1>2. \A i \in 1..Len(s)-1 : s[i] \in S
  BY <1>1
<1>3. Last(s) = s[Len(s)] /\ Last(s) \in S
  BY <1>1 DEF Last
<1>4. Front(s) = SubSeq(s, 1, Len(s) - 1)
  BY DEF Front
<1> DEFINE f == SubSeq(s, 1, Len(s) - 1)
<1>5. f \in Seq(S)
  BY <1>1, <1>2
<1>6. Len(f) = Len(s) - 1
  <2>1. 1 \in Int /\ Len(s) - 1 \in Int
    BY <1>1
  <2>2. Len(f) = IF 1 <= Len(s) - 1 THEN (Len(s) - 1) - 1 + 1 ELSE 0
    BY <2>1, <1>2, SubSeqProperties
  <2> DEFINE l == Len(s)
  <2>3. l \in Nat /\ l > 0
    BY <1>1
  <2>4. Len(f) = IF 1 <= l - 1 THEN (l - 1) - 1 + 1 ELSE 0
    BY <2>2
  <2> HIDE DEF f, l
  <2>5. Len(f) = l - 1
    BY <2>3, <2>4
  <2> QED
    BY <2>5 DEF l
<1>7. \A i \in 1..Len(s)-1 : f[i] = s[i]
  BY <1>1
<1> QED
  BY <1>3, <1>4, <1>5, <1>6, <1>7

(* A retry starts from the shape generate_map starts from, or fails.       *)
LEMMA RetryShape ==
  ASSUME ShapeInv, Retry
  PROVE  ShapeInv'
<1>1. config' = config /\ config \in Configs
  BY DEF Retry, ShapeInv, TypeOK
<1>2. MAX_RETRY \in Nat /\ MAX_RETRY >= 1
  BY GeneratorAssumption
<1>3. <<0, 0>> \in Rooms /\ ends' \in [start : Rooms, goal : Rooms]
  BY <1>1, RoomFacts, EndsAreRooms DEF Retry
<1>4. /\ stage' \in {"Carve", "Failed"} /\ attempt' \in 0..MAX_RETRY-1
      /\ walls' \subseteq AllWalls /\ visited' \subseteq Rooms
      /\ stack' \in Seq(Rooms) /\ (stage' = "Carve" => Len(stack') = 1)
  <2>1. attempt \in 0..MAX_RETRY-1
    BY DEF ShapeInv, TypeOK
  <2>2. CASE attempt < MAX_RETRY - 1
    BY <1>2, <1>3, <2>1, <2>2 DEF Retry
  <2>3. CASE ~(attempt < MAX_RETRY - 1)
    <3>1. << >> \in Seq(Rooms)
      OBVIOUS
    <3> QED
      BY <1>2, <2>1, <2>3, <3>1 DEF Retry
  <2> QED
    BY <2>2, <2>3
<1>5. \A i \in DOMAIN stack' : stack'[i] \in Rooms
  <2>1. stack' \in Seq(Rooms)
    BY <1>4
  <2> QED
    BY <2>1
<1>6. blocked' = {}
  BY DEF Retry
<1> QED
  <2>1. TypeOK'
    BY <1>1, <1>3, <1>4, <1>5, <1>6, Same DEF TypeOK
  <2>2. stack' \in Seq(Rooms') /\ (stage' = "Carve" => Len(stack') > 0)
    BY <1>1, <1>4, Same
  <2> QED
    BY <2>1, <2>2 DEF ShapeInv

(* Every step of generate_map and of its retries keeps the types.          *)
LEMMA ShapeStep == ShapeInv /\ [Next]_vars => ShapeInv'
<1> SUFFICES ASSUME ShapeInv, [Next]_vars PROVE ShapeInv'
  OBVIOUS
<1>0. TypeOK /\ stack \in Seq(Rooms) /\ config \in Configs
  BY DEF ShapeInv, TypeOK
<1>1. CASE CarveOn
  <2>1. PICK r \in Adjacent(Last(stack)) \ visited :
          /\ visited' = visited \cup {r}
          /\ walls' = RemoveWall(walls, Last(stack), r)
          /\ stack' = Append(stack, r)
    BY <1>1 DEF CarveOn
  <2>2. r \in Rooms
    BY <1>0, WallFacts
  <2>3. stack' \in Seq(Rooms) /\ Len(stack') = Len(stack) + 1 /\ Len(stack) \in Nat
    BY <1>0, <2>1, <2>2
  <2>4. /\ UNCHANGED <<config, stage, attempt, ends, blocked>>
        /\ walls' \subseteq walls /\ visited' \subseteq Rooms
    BY <1>0, <1>1, <2>1, <2>2 DEF CarveOn, RemoveWall, TypeOK
  <2>5. \A i \in DOMAIN stack' : stack'[i] \in Rooms
    BY <2>3
  <2> QED
    BY <1>0, <2>3, <2>4, <2>5, Same DEF ShapeInv, TypeOK
<1>2. CASE CarveBack
  <2>1. /\ stage = "Carve" /\ stack' = Front(stack) /\ Len(stack) \in Nat \ {0}
        /\ UNCHANGED <<config, attempt, walls, ends, blocked>>
        /\ stage' \in {"Open", "Carve"} /\ visited' \subseteq visited
        /\ (stage' = "Carve" => Len(stack) # 1)
    BY <1>2, <1>0 DEF CarveBack, ShapeInv
  <2>2. stack' \in Seq(Rooms) /\ Len(stack') = Len(stack) - 1
    BY <1>0, <2>1, FrontFacts
  <2>3. \A i \in DOMAIN stack' : stack'[i] \in Rooms
    BY <2>2
  <2> QED
    BY <1>0, <2>1, <2>2, <2>3, Same DEF ShapeInv, TypeOK
<1>3. CASE OpenExtra
  <2>1. /\ stage' = "Ends" /\ walls' \subseteq walls
        /\ UNCHANGED <<config, attempt, visited, stack, ends, blocked>>
    BY <1>3 DEF OpenExtra
  <2> QED
    BY <1>0, <2>1, Same DEF ShapeInv, TypeOK
<1>4. CASE Dig
  <2>1. /\ stage' = "Furnish" /\ walls' \subseteq walls /\ ends' \in EndPairs
        /\ blocked' = DugFrom(walls')
        /\ UNCHANGED <<config, attempt, visited, stack>>
    BY <1>4 DEF Dig
  <2>2. DugFrom(walls') \subseteq Cells
    BY Zenon DEF DugFrom
  <2> QED
    BY <1>0, <2>1, <2>2, EndsAreRooms, Same DEF ShapeInv, TypeOK
<1>5. CASE Furnish
  <2>1. \A p \in Pillars : p \subseteq Cells
    <3> SUFFICES ASSUME NEW p \in Pillars, NEW c \in p PROVE c \in Cells
      OBVIOUS
    <3>1. PICK r \in Rooms : c \in RoomCells(r)
      BY <1>0, PillarFacts
    <3> QED
      BY <1>0, <3>1, RoomCellsFacts
  <2>2. /\ stage' = "Search" /\ blocked' \subseteq Cells
        /\ UNCHANGED <<config, attempt, walls, visited, stack, ends>>
    BY <1>0, <1>5, <2>1 DEF Furnish, TypeOK
  <2> QED
    BY <1>0, <2>2, Same DEF ShapeInv, TypeOK
<1>6. CASE Accept
  <2>1. /\ stage' = "Done"
        /\ UNCHANGED <<config, attempt, walls, visited, stack, ends, blocked>>
    BY <1>6 DEF Accept
  <2> QED
    BY <1>0, <2>1, Same DEF ShapeInv, TypeOK
<1>7. CASE Retry
  BY <1>7, RetryShape
<1>8. CASE UNCHANGED vars
  <2>1. UNCHANGED <<config, stage, attempt, walls, visited, stack, ends, blocked>>
    BY <1>8 DEF vars
  <2> QED
    BY <1>0, <2>1, Same DEF ShapeInv, TypeOK
<1> QED
  BY <1>1, <1>2, <1>3, <1>4, <1>5, <1>6, <1>7, <1>8
  DEF Next, Unreachable, EndsTooClose, Returned

-----------------------------------------------------------------------------
(* The carving                                                             *)

Opened == AllWalls \ walls

(* X has the first room and with each room those its opened walls lead to. *)
Closed(X, open) ==
  /\ <<0, 0>> \in X
  /\ \A r \in X : \A s \in Rooms : {r, s} \in open => s \in X

(* The rooms of V can be reached from the first one.                       *)
Linked(open, V) == \A X \in SUBSET Rooms : Closed(X, open) => V \subseteq X

(* The rooms visited hang together by as many openings as a tree has, and  *)
(* where the carving has not come back from lies on the stack.             *)
Carved ==
  /\ <<0, 0>> \in visited
  /\ \A i \in 1..Len(stack) : stack[i] \in visited
  /\ \A r \in visited :
       (\A i \in 1..Len(stack) : stack[i] # r) => Adjacent(r) \subseteq visited
  /\ \A w \in Opened : w \subseteq visited
  /\ Cardinality(Opened) = Cardinality(visited) - 1
  /\ Linked(Opened, visited)

Made == {"Furnish", "Search", "Done"}

CarveInv ==
  /\ stage = "Carve" => Carved
  /\ stage = "Open" => Cardinality(Opened) = Cardinality(Rooms) - 1
  /\ stage \in {"Open", "Ends"} \cup Made => Linked(Opened, Rooms)

(* The carving starts with the first room visited and nothing opened.      *)
LEMMA DrawnIsCarved ==
  ASSUME config \in Configs, walls = AllWalls, visited = {<<0, 0>>},
         stack = << <<0, 0>> >>
  PROVE  Carved
<1>1. Opened = {}
  BY DEF Opened
<1>2. Cardinality(Opened) = 0 /\ Cardinality(visited) = 1
  BY <1>1, FS_EmptySet, FS_Singleton
<1>3. Len(stack) = 1 /\ stack[1] = <<0, 0>>
  OBVIOUS
<1>4. Linked(Opened, visited)
  BY DEF Linked, Closed
<1> QED
  BY <1>1, <1>2, <1>3, <1>4 DEF Carved

(* Going on opens one wall to one new room, which is linked through it.    *)
LEMMA CarveOnStep ==
  ASSUME ShapeInv, CarveInv, CarveOn
  PROVE  CarveInv'
<1>0. /\ config \in Configs /\ config' = config /\ stage = "Carve" /\ stage' = "Carve"
      /\ walls \subseteq AllWalls /\ visited \subseteq Rooms /\ Carved
      /\ stack \in Seq(Rooms) /\ Len(stack) \in Nat \ {0}
  BY DEF CarveOn, ShapeInv, TypeOK, CarveInv
<1> DEFINE l == Last(stack)
<1>1. PICK r \in Adjacent(l) \ visited :
        /\ visited' = visited \cup {r}
        /\ walls' = walls \ {{l, r}}
        /\ stack' = Append(stack, r)
  BY DEF CarveOn, RemoveWall
<1>2. /\ l = stack[Len(stack)] /\ l \in Rooms /\ l \in visited
      /\ r \in Rooms /\ {l, r} \in AllWalls
  BY <1>0, FrontFacts, WallFacts DEF Carved
<1>3. {l, r} \notin Opened
  BY <1>0, <1>1 DEF Carved
<1>4. Opened' = Opened \cup {{l, r}}
  BY <1>0, <1>1, <1>2, <1>3, Same DEF Opened
<1> HIDE DEF l
<1>5. /\ Len(stack') = Len(stack) + 1 /\ stack'[Len(stack) + 1] = r
      /\ \A i \in 1..Len(stack) : stack'[i] = stack[i]
  BY <1>0, <1>1, <1>2
<1>6. \A i \in 1..Len(stack') : stack'[i] \in visited'
  BY <1>0, <1>1, <1>5 DEF Carved
<1>7. ASSUME NEW q \in visited', \A i \in 1..Len(stack') : stack'[i] # q
      PROVE  Adjacent(q) \subseteq visited'
  <2>1. q # r
    BY <1>0, <1>5, <1>7
  <2>2. q \in visited /\ \A i \in 1..Len(stack) : stack[i] # q
    BY <1>0, <1>1, <1>5, <1>7, <2>1
  <2> QED
    BY <1>0, <1>1, <2>2 DEF Carved
<1>8. \A w \in Opened' : w \subseteq visited'
  BY <1>0, <1>1, <1>2, <1>4 DEF Carved
<1>9. Cardinality(Opened') = Cardinality(visited') - 1
  <2>1. IsFiniteSet(Opened) /\ IsFiniteSet(visited)
    BY <1>0, RoomFacts, WallFacts, FS_Subset DEF Opened
  <2>2. /\ Cardinality(Opened') = Cardinality(Opened) + 1
        /\ Cardinality(visited') = Cardinality(visited) + 1
    BY <1>1, <1>3, <1>4, <2>1, FS_AddElement
  <2>3. Cardinality(visited) \in Nat
    BY <2>1, FS_CardinalityType
  <2> QED
    BY <1>0, <2>2, <2>3 DEF Carved
<1>10. ASSUME NEW X \in SUBSET Rooms, Closed(X, Opened')
       PROVE  visited' \subseteq X
  <2>1. Closed(X, Opened)
    BY <1>4, <1>10 DEF Closed
  <2>2. l \in X
    BY <1>0, <1>2, <2>1 DEF Carved, Linked
  <2>3. r \in X
    BY <1>2, <1>4, <1>10, <2>2 DEF Closed
  <2> QED
    BY <1>0, <1>1, <2>1, <2>3 DEF Carved, Linked
<1>11. <<0, 0>> \in visited'
  BY <1>0, <1>1 DEF Carved
<1>12. Linked(Opened, visited)'
  BY <1>0, <1>10, Same DEF Linked, Closed
<1>13. \A q : Adjacent(q)' = Adjacent(q)
  BY <1>0, Same
<1>14. Carved'
  BY <1>6, <1>7, <1>8, <1>9, <1>11, <1>12, <1>13 DEF Carved
<1> QED
  BY <1>0, <1>14 DEF CarveInv, Made

(* Going back leaves a room without unvisited neighbours; when the stack   *)
(* is empty every room has been visited.                                   *)
LEMMA CarveBackStep ==
  ASSUME ShapeInv, CarveInv, CarveBack
  PROVE  CarveInv'
<1>0. /\ config \in Configs /\ config' = config /\ stage = "Carve" /\ walls' = walls
      /\ walls \subseteq AllWalls /\ visited \subseteq Rooms /\ Carved
      /\ stack \in Seq(Rooms) /\ Len(stack) \in Nat \ {0}
      /\ Adjacent(Last(stack)) \subseteq visited /\ stack' = Front(stack)
  BY DEF CarveBack, ShapeInv, TypeOK, CarveInv
<1>1. /\ Len(stack') = Len(stack) - 1 /\ Last(stack) = stack[Len(stack)]
      /\ \A i \in 1..Len(stack)-1 : stack'[i] = stack[i]
  BY <1>0, FrontFacts
<1>2. Opened' = Opened
  BY <1>0, Same DEF Opened
<1>3. CASE Len(stack) = 1
  <2>1. stage' = "Open"
    BY <1>3 DEF CarveBack
  <2>2. \A r \in visited : Adjacent(r) \subseteq visited
    <3> SUFFICES ASSUME NEW r \in visited PROVE Adjacent(r) \subseteq visited
      OBVIOUS
    <3>1. CASE r = stack[1]
      BY <1>0, <1>1, <1>3, <3>1
    <3>2. CASE r # stack[1]
      BY <1>0, <1>3, <3>2 DEF Carved
    <3> QED
      BY <3>1, <3>2
  <2>3. visited = Rooms
    BY <1>0, <2>2, GridConnected DEF Carved
  <2>4. Cardinality(Opened) = Cardinality(Rooms) - 1 /\ Linked(Opened, Rooms)
    BY <1>0, <2>3 DEF Carved
  <2> QED
    BY <1>0, <1>2, <2>1, <2>4, Same DEF CarveInv, Linked, Closed
<1>4. CASE Len(stack) # 1
  <2>1. stage' = "Carve" /\ visited' = visited
    BY <1>0, <1>4 DEF CarveBack
  <2>2. \A i \in 1..Len(stack') : stack'[i] \in visited
    BY <1>0, <1>1 DEF Carved
  <2>3. ASSUME NEW q \in visited, \A i \in 1..Len(stack') : stack'[i] # q
        PROVE  Adjacent(q) \subseteq visited
    <3>1. CASE q = Last(stack)
      BY <1>0, <3>1
    <3>2. CASE q # Last(stack)
      <4>1. \A i \in 1..Len(stack) : stack[i] # q
        BY <1>0, <1>1, <2>3, <3>2
      <4> QED
        BY <1>0, <4>1 DEF Carved
    <3> QED
      BY <3>1, <3>2
  <2>4. Linked(Opened, visited)'
    BY <1>0, <1>2, <2>1, Same DEF Carved, Linked, Closed
  <2>5. \A q : Adjacent(q)' = Adjacent(q)
    BY <1>0, Same
  <2>6. Carved'
    BY <1>0, <1>2, <2>1, <2>2, <2>3, <2>4, <2>5 DEF Carved
  <2> QED
    BY <2>1, <2>6 DEF CarveInv, Made
<1> QED
  BY <1>3, <1>4

(* Openings that are added lead nowhere away.                              *)
LEMMA MoreOpened ==
  ASSUME NEW more, NEW fewer, fewer \subseteq more, Linked(fewer, Rooms)
  PROVE  Linked(more, Rooms)
  BY DEF Linked, Closed

(* Later openings and safe zones only remove walls, so links stay.         *)
LEMMA CarveStep == ShapeInv /\ CarveInv /\ [Next]_vars => CarveInv'
<1> SUFFICES ASSUME ShapeInv, CarveInv, [Next]_vars PROVE CarveInv'
  OBVIOUS
<1>0. config \in Configs
  BY DEF ShapeInv, TypeOK
<1>1. CASE OpenExtra \/ Dig
  <2>1. /\ config' = config /\ walls' \subseteq walls
        /\ stage \in {"Open", "Ends"} /\ stage' \in {"Ends", "Furnish"}
    BY <1>1 DEF OpenExtra, Dig
  <2>2. Linked(Opened, Rooms)
    BY <2>1 DEF CarveInv
  <2>3. Opened \subseteq Opened'
    BY <2>1, Same DEF Opened
  <2>4. Linked(Opened', Rooms)
    BY <2>2, <2>3, MoreOpened
  <2> QED
    BY <2>1, <2>4, Same DEF CarveInv, Linked, Closed
<1>2. CASE Furnish \/ Accept
  <2>1. /\ config' = config /\ walls' = walls
        /\ stage \in Made /\ stage' \in Made
    BY <1>2 DEF Furnish, Accept, Made
  <2> QED
    BY <2>1, Same DEF CarveInv, Linked, Closed, Opened, Made
<1>3. CASE Retry
  <2>1. config' = config /\ config' \in Configs /\ stage' \in {"Carve", "Failed"}
    BY <1>0, <1>3 DEF Retry
  <2>2. stage' = "Carve" =>
          /\ walls' = AllWalls' /\ visited' = {<<0, 0>>} /\ stack' = << <<0, 0>> >>
    BY <1>3, <2>1, Same DEF Retry
  <2>3. stage' = "Carve" => Carved'
    <3>1. (config \in Configs /\ walls = AllWalls /\ visited = {<<0, 0>>}
             /\ stack = << <<0, 0>> >>)' => Carved'
      BY DrawnIsCarved, PTL
    <3> QED
      BY <2>1, <2>2, <3>1
  <2> QED
    BY <2>1, <2>3 DEF CarveInv, Made
<1>4. CASE UNCHANGED vars
  <2>1. UNCHANGED <<config, stage, walls, visited, stack>>
    BY <1>4 DEF vars
  <2>2. Opened' = Opened /\ Rooms' = Rooms /\ \A q : Adjacent(q)' = Adjacent(q)
    BY <2>1, Same DEF Opened
  <2>3. Linked(Opened, visited)' = Linked(Opened, visited)
        /\ Linked(Opened, Rooms)' = Linked(Opened, Rooms)
    BY <2>1, <2>2 DEF Linked, Closed
  <2>4. Carved' = Carved
    BY <2>1, <2>2, <2>3 DEF Carved
  <2> QED
    BY <2>1, <2>2, <2>3, <2>4 DEF CarveInv
<1> QED
  BY <1>1, <1>2, <1>3, <1>4, CarveOnStep, CarveBackStep
  DEF Next, Unreachable, EndsTooClose, Returned

(* RoomsConnected comes to the same: while its rounds find rooms they find *)
(* one at least, and rooms that are closed are all of them.                *)
LEMMA LinkedIsConnected ==
  ASSUME config \in Configs, NEW open, Linked(open, Rooms)
  PROVE  RoomsConnected(open)
<1> DEFINE m == Cardinality(Rooms)
           more(X) == {s \in Rooms : \E r \in X : {r, s} \in open}
           farther(X) == Listed(X \cup more(X))
           S == SUBSET Rooms
           e == {<<0, 0>>}
           g == [X \in S |-> farther(X)]
           Is(h) == h = [n \in 0..m |-> IF n = 0 THEN {<<0, 0>>}
                                        ELSE farther(h[n - 1])]
           reach == CHOOSE h : Is(h)
<1>1. RoomsConnected(open) <=> reach[m] = Rooms
  BY Zenon DEF RoomsConnected
<1>2. IsFiniteSet(Rooms) /\ m \in Nat /\ e \in S
  BY RoomFacts, FS_CardinalityType
<1>3. \A X \in S : farther(X) = X \cup more(X) /\ farther(X) \in S
  BY DEF Listed
<1>4. g \in [S -> S]
  BY <1>3
<1> HIDE DEF m, S
<1>5. PICK f \in [0..m -> S] : GoesOn(f, e, g, m)
  <2> HIDE DEF e, g
  <2> QED
    BY <1>2, <1>4, Recursion
<1> HIDE DEF farther
<1>6. Is(f)
  <2>1. ASSUME NEW n \in 0..m
        PROVE  f[n] = IF n = 0 THEN {<<0, 0>>} ELSE farther(f[n - 1])
    <3>1. f[n] = IF n = 0 THEN e ELSE g[f[n - 1]]
      BY <1>5 DEF GoesOn
    <3>2. n # 0 => f[n - 1] \in S
      BY <1>2, <1>5
    <3> QED
      BY <3>1, <3>2
  <2>2. f = [n \in 0..m |-> f[n]]
    BY <1>5
  <2> QED
    BY <2>1, <2>2
<1>7. Is(reach)
  <2> HIDE DEF Is
  <2> QED
    BY <1>6, Zenon
<1>8. \A n \in 0..m : reach[n] = IF n = 0 THEN e ELSE farther(reach[n - 1])
  <2> HIDE DEF reach
  <2> QED
    BY <1>7, Zenon
<1> HIDE DEF reach, Is, e
<1> DEFINE T == {n \in Nat : n <= m => /\ reach[n] \in S /\ <<0, 0>> \in reach[n]
                                       /\ \/ reach[n] = Rooms
                                          \/ Cardinality(reach[n]) > n}
<1>9. 0 \in T
  <2>1. reach[0] = {<<0, 0>>}
    BY <1>2, <1>8 DEF e
  <2>2. Cardinality(reach[0]) = 1
    BY <2>1, FS_Singleton
  <2>3. reach[0] \in S /\ <<0, 0>> \in reach[0]
    BY <1>2, <2>1 DEF e
  <2> HIDE DEF reach
  <2> QED
    BY <2>2, <2>3
<1>10. ASSUME NEW n \in Nat, n \in T PROVE n + 1 \in T
  <2> SUFFICES ASSUME n + 1 <= m
               PROVE  /\ reach[n + 1] \in S /\ <<0, 0>> \in reach[n + 1]
                      /\ \/ reach[n + 1] = Rooms
                         \/ Cardinality(reach[n + 1]) > n + 1
    OBVIOUS
  <2> DEFINE A == reach[n]
             B == reach[n + 1]
  <2>1. /\ A \in S /\ <<0, 0>> \in A
        /\ A = Rooms \/ Cardinality(A) > n
    BY <1>2, <1>10
  <2>2. B = A \cup more(A) /\ B \in S
    <3>1. n + 1 \in 0..m /\ n + 1 # 0 /\ (n + 1) - 1 = n
      BY <1>2
    <3>2. B = farther(A)
      BY <1>8, <3>1
    <3> QED
      BY <1>3, <2>1, <3>2
  <2> HIDE DEF A, B
  <2>3. CASE more(A) \subseteq A
    <3>1. Closed(A, open)
      BY <2>1, <2>3 DEF Closed
    <3>2. A = Rooms
      BY <2>1, <3>1 DEF Linked, S
    <3> QED
      BY <2>1, <2>2, <2>3, <3>2 DEF B, S
  <2>4. CASE ~(more(A) \subseteq A)
    <3>1. IsFiniteSet(B) /\ A \subseteq B /\ A # B
      <4>1. B \in SUBSET Rooms
        BY <2>2 DEF S
      <4>2. IsFiniteSet(B)
        BY <1>2, <4>1, FS_Subset
      <4> HIDE DEF more
      <4>3. A \subseteq B /\ A # B
        BY <2>2, <2>4
      <4> QED
        BY <4>2, <4>3
    <3>2. /\ IsFiniteSet(A) /\ Cardinality(A) <= Cardinality(B)
          /\ Cardinality(A) # Cardinality(B)
      <4>1. A \in SUBSET B
        BY <3>1
      <4> QED
        BY <3>1, <4>1, FS_Subset
    <3>3. A # Rooms
      BY <2>4
    <3>4. Cardinality(A) \in Nat /\ Cardinality(B) \in Nat
      BY <3>1, <3>2, FS_CardinalityType
    <3>5. Cardinality(B) > n + 1
      BY <2>1, <3>2, <3>3, <3>4
    <3> QED
      BY <2>1, <2>2, <3>5 DEF B
  <2> QED
    BY <2>3, <2>4
<1>11. m \in T
  <2> HIDE DEF T
  <2> QED
    BY <1>2, <1>9, <1>10, Induction
<1>12. reach[m] \in S /\ (reach[m] = Rooms \/ Cardinality(reach[m]) > m)
  BY <1>2, <1>11
<1>13. Cardinality(reach[m]) <= m /\ Cardinality(reach[m]) \in Nat
  BY <1>2, <1>12, FS_Subset, FS_CardinalityType DEF S, m
<1> QED
  BY <1>1, <1>2, <1>12, <1>13

(* The maze the carving of generate_maze_edges leaves is a perfect one.    *)
LEMMA MazeIsPerfect == ShapeInv /\ CarveInv => PerfectMaze
<1> SUFFICES ASSUME ShapeInv, CarveInv, stage = "Open"
             PROVE  /\ RoomsConnected(AllWalls \ walls)
                    /\ Cardinality(AllWalls \ walls) = Cardinality(Rooms) - 1
  BY DEF PerfectMaze
<1>1. config \in Configs
  BY DEF ShapeInv, TypeOK
<1> QED
  BY <1>1, LinkedIsConnected DEF CarveInv, Opened

-----------------------------------------------------------------------------
(* The segments                                                            *)

CellPairs == blocked \subseteq Cells /\ config \in Configs

(* A blocked cell is a pair of coordinates of the grid.                    *)
LEMMA CellFacts ==
  ASSUME CellPairs, NEW c \in blocked
  PROVE  /\ c = <<c[1], c[2]>> /\ c[1] \in 0..OutDim-1 /\ c[2] \in 0..OutDim-1
         /\ c[1] \in Nat /\ c[2] \in Nat
  BY Lengths DEF CellPairs, Cells

(* The run down from a cell ends at the first cell that is not blocked.    *)
LEMMA RunFacts ==
  ASSUME CellPairs, NEW c \in blocked
  PROVE  LET n == RunLength(blocked, c, 0, 1)
         IN  /\ n \in Nat
             /\ \A k \in 0..n : <<c[1], c[2] + k>> \in blocked
             /\ <<c[1], c[2] + n + 1>> \notin blocked
<1> DEFINE Ends(n) ==
             /\ \A k \in 0..n : <<c[1] + k * 0, c[2] + k * 1>> \in blocked
             /\ <<c[1] + (n + 1) * 0, c[2] + (n + 1) * 1>> \notin blocked
           N == {k \in Nat : <<c[1], c[2] + k + 1>> \notin blocked}
<1>1. OutDim \in Nat /\ c[1] \in Nat /\ c[2] \in Nat /\ c = <<c[1], c[2]>>
  BY Lengths, CellFacts DEF CellPairs
<1>2. OutDim \in N
  <2>1. c[2] + OutDim + 1 \notin 0..OutDim-1
    BY <1>1
  <2>2. <<c[1], c[2] + OutDim + 1>> \notin Cells
    BY <2>1 DEF Cells
  <2> QED
    BY <1>1, <2>2 DEF CellPairs
<1>3. PICK m \in N : \A k \in N : m <= k
  <2> HIDE DEF N
  <2>1. N \subseteq Nat
    BY DEF N
  <2> QED
    BY <1>2, <2>1, LeastElement
<1>4. m \in Nat /\ m \in 0..OutDim
  BY <1>1, <1>2, <1>3
<1>5. ASSUME NEW k \in 0..m PROVE <<c[1], c[2] + k>> \in blocked
  <2>1. CASE k = 0
    BY <1>1, <2>1
  <2>2. CASE k # 0
    <3>1. k - 1 \in Nat /\ ~(m <= k - 1) /\ c[2] + (k - 1) + 1 = c[2] + k
      BY <1>1, <1>4, <2>2
    <3>2. k - 1 \notin N
      BY <1>3, <3>1
    <3> QED
      BY <3>1, <3>2
  <2> QED
    BY <2>1, <2>2
<1>6. \A n \in Nat : \A k \in 0..n : /\ c[1] + k * 0 = c[1]
                                     /\ c[2] + k * 1 = c[2] + k
  BY <1>1
<1>7. \A n \in Nat : /\ c[1] + (n + 1) * 0 = c[1]
                     /\ c[2] + (n + 1) * 1 = c[2] + n + 1
  BY <1>1
<1>8. Ends(m)
  BY <1>3, <1>4, <1>5, <1>6, <1>7
<1> DEFINE n == RunLength(blocked, c, 0, 1)
<1>9. n \in 0..OutDim /\ Ends(n)
  <2>1. n = CHOOSE i \in 0..OutDim : Ends(i)
    BY Zenon DEF RunLength
  <2> HIDE DEF Ends, n
  <2> QED
    BY <1>4, <1>8, <2>1
<1>10. n \in Nat
  BY <1>1, <1>9
<1> HIDE DEF n
<1> QED
  BY <1>6, <1>7, <1>9, <1>10 DEF n

(* A column is such a run from a cell that has none before it.             *)
Top(c) == c \in blocked /\ <<c[1], c[2] - 1>> \notin blocked
Column(c) == Segment(c, <<c[1], c[2] + RunLength(blocked, c, 0, 1)>>)

(* The column segments are those of the cells with none blocked before.    *)
LEMMA ColumnsAre ==
  ASSUME CellPairs
  PROVE  /\ \A s \in Columns : \E c \in blocked : Top(c) /\ s = Column(c)
         /\ \A c \in blocked : Top(c) => Column(c) \in Columns
<1> DEFINE n(c) == RunLength(blocked, c, 0, 1)
<1>1. \A c \in blocked : /\ c[1] - 0 = c[1]
                         /\ <<c[1] + n(c) * 0, c[2] + n(c) * 1>> = <<c[1], c[2] + n(c)>>
  <2> SUFFICES ASSUME NEW c \in blocked
               PROVE  c[1] - 0 = c[1] /\ c[1] + n(c) * 0 = c[1] /\ n(c) * 1 = n(c)
    OBVIOUS
  <2>1. c[1] \in Nat /\ n(c) \in Nat
    <3>1. n(c) \in Nat
      BY RunFacts, Zenon
    <3> QED
      BY <3>1, CellFacts
  <2> HIDE DEF n
  <2> QED
    BY <2>1
<1>2. Columns = {Segment(c, <<c[1] + n(c) * 0, c[2] + n(c) * 1>>) :
                   c \in {d \in blocked : <<d[1] - 0, d[2] - 1>> \notin blocked}}
  BY Zenon DEF Columns, Runs
<1> HIDE DEF n
<1> QED
  BY <1>1, <1>2 DEF Top, Column, n

(* What a column segment covers: cells of one column, all blocked.         *)
LEMMA ColumnCells ==
  ASSUME CellPairs, NEW c \in blocked
  PROVE  LET n == RunLength(blocked, c, 0, 1)
         IN  /\ \A d \in Between(Column(c)) :
                  /\ d \in blocked /\ d[1] = c[1] /\ c[2] <= d[2] /\ d[2] <= c[2] + n
             /\ \A d \in blocked :
                  d[1] = c[1] /\ c[2] <= d[2] /\ d[2] <= c[2] + n
                    => d \in Between(Column(c))
<1> DEFINE n == RunLength(blocked, c, 0, 1)
<1>1. /\ n \in Nat /\ c[1] \in Nat /\ c[2] \in Nat
      /\ \A k \in 0..n : <<c[1], c[2] + k>> \in blocked
  <2>1. n \in Nat /\ \A k \in 0..n : <<c[1], c[2] + k>> \in blocked
    BY RunFacts, Zenon
  <2> HIDE DEF n
  <2> QED
    BY <2>1, CellFacts
<1>2. Between(Column(c)) = (c[1]..c[1]) \X (c[2]..c[2] + n)
  BY DEF Between, Column, Segment
<1> HIDE DEF n
<1>3. ASSUME NEW d \in (c[1]..c[1]) \X (c[2]..c[2] + n)
      PROVE  /\ d \in blocked /\ d[1] = c[1] /\ c[2] <= d[2] /\ d[2] <= c[2] + n
  <2>1. d = <<c[1], d[2]>> /\ d[2] \in c[2]..c[2] + n
    BY <1>1
  <2>2. d[2] - c[2] \in 0..n /\ c[2] + (d[2] - c[2]) = d[2]
    BY <1>1, <2>1
  <2> QED
    BY <1>1, <2>1, <2>2
<1>4. ASSUME NEW d \in blocked, d[1] = c[1], c[2] <= d[2], d[2] <= c[2] + n
      PROVE  d \in (c[1]..c[1]) \X (c[2]..c[2] + n)
  <2>1. d = <<d[1], d[2]>> /\ d[1] \in Int /\ d[2] \in Int
    BY CellFacts, Lengths DEF CellPairs
  <2> QED
    BY <1>1, <1>4, <2>1
<1> QED
  BY <1>2, <1>3, <1>4 DEF n

(* The column a cell lies in begins where the blocked cells above it do.   *)
LEMMA InColumn ==
  ASSUME CellPairs, NEW d \in blocked
  PROVE  \E c \in blocked : Top(c) /\ d \in Between(Column(c))
<1> DEFINE N == {m \in Nat : m <= d[2] /\ \A y \in m..d[2] : <<d[1], y>> \in blocked}
<1>1. /\ d = <<d[1], d[2]>> /\ d[1] \in Nat /\ d[2] \in Nat
  BY CellFacts, Lengths DEF CellPairs
<1>2. d[2] \in N
  BY <1>1
<1>3. PICK m \in N : \A k \in N : m <= k
  <2> HIDE DEF N
  <2>1. N \subseteq Nat
    BY DEF N
  <2> QED
    BY <1>2, <2>1, LeastElement
<1> DEFINE c == <<d[1], m>>
<1>4. m \in Nat /\ m <= d[2] /\ c \in blocked /\ c[1] = d[1] /\ c[2] = m
  BY <1>1, <1>3
<1>5. <<d[1], m - 1>> \notin blocked
  <2> SUFFICES ASSUME <<d[1], m - 1>> \in blocked PROVE FALSE
    OBVIOUS
  <2>1. m - 1 \in Nat
    <3>1. <<d[1], m - 1>>[2] \in 0..OutDim-1
      BY CellFacts
    <3> QED
      BY <1>4, <3>1, Lengths DEF CellPairs
  <2>2. \A y \in (m - 1)..d[2] : <<d[1], y>> \in blocked
    <3> SUFFICES ASSUME NEW y \in (m - 1)..d[2] PROVE <<d[1], y>> \in blocked
      OBVIOUS
    <3>1. y = m - 1 \/ y \in m..d[2]
      BY <1>1, <1>4
    <3> QED
      BY <1>3, <3>1
  <2>3. m - 1 \in N
    BY <1>1, <1>4, <2>1, <2>2
  <2> QED
    BY <1>3, <1>4, <2>3
<1> DEFINE n == RunLength(blocked, c, 0, 1)
<1>6. n \in Nat /\ <<d[1], m + n + 1>> \notin blocked
  BY <1>4, RunFacts
<1>7. d[2] <= m + n
  <2> HIDE DEF n
  <2> SUFFICES ASSUME d[2] > m + n PROVE FALSE
    BY <1>1, <1>4, <1>6
  <2>1. m + n + 1 \in m..d[2]
    BY <1>1, <1>4, <1>6
  <2> QED
    BY <1>3, <1>6, <2>1
<1>8. Top(c)
  BY <1>4, <1>5 DEF Top
<1>9. d \in Between(Column(c))
  BY <1>4, <1>7, ColumnCells
<1> QED
  BY <1>4, <1>8, <1>9

(* blocked_to_wall_segments covers each blocked cell once; its pass over   *)
(* the rows finds nothing left.                                            *)
LEMMA SegmentsHold ==
  ASSUME CellPairs
  PROVE  /\ UNION {Between(s) : s \in Segments} = blocked
         /\ \A s, t \in Segments : s # t => Between(s) \cap Between(t) = {}
         /\ Rows = {}
<1>1. UNION {Between(s) : s \in Columns} = blocked
  <2>1. ASSUME NEW s \in Columns PROVE Between(s) \subseteq blocked
    BY ColumnsAre, ColumnCells
  <2>2. ASSUME NEW d \in blocked PROVE \E s \in Columns : d \in Between(s)
    BY InColumn, ColumnsAre
  <2> QED
    BY <2>1, <2>2
<1>2. Rows = {}
  <2>1. blocked \ Used = {}
    BY <1>1 DEF Used
  <2>2. Runs({}, 1, 0) = {}
    BY DEF Runs
  <2> QED
    BY <2>1, <2>2 DEF Rows
<1>3. Segments = Columns
  BY <1>2 DEF Segments
<1>4. ASSUME NEW a \in blocked, NEW b \in blocked, Top(b),
             NEW d \in Between(Column(a)), d \in Between(Column(b))
      PROVE  b[2] <= a[2]
  <2> DEFINE n(c) == RunLength(blocked, c, 0, 1)
  <2>1. /\ n(a) \in Nat /\ a[2] \in Nat /\ b[2] \in Nat /\ d[2] \in Nat
        /\ d \in blocked
        /\ \A k \in 0..n(a) : <<a[1], a[2] + k>> \in blocked
    <3>1. d \in blocked
      BY <1>4, ColumnCells
    <3>2. n(a) \in Nat /\ \A k \in 0..n(a) : <<a[1], a[2] + k>> \in blocked
      BY RunFacts, Zenon
    <3> HIDE DEF n
    <3> QED
      BY <3>1, <3>2, CellFacts
  <2>2. /\ d[1] = a[1] /\ d[1] = b[1] /\ d[2] <= a[2] + n(a) /\ b[2] <= d[2]
    BY <1>4, ColumnCells
  <2> HIDE DEF n
  <2> SUFFICES ASSUME a[2] < b[2] PROVE FALSE
    BY <2>1
  <2>3. /\ b[2] - 1 - a[2] \in 0..n(a)
        /\ a[2] + (b[2] - 1 - a[2]) = b[2] - 1
    BY <2>1, <2>2
  <2>4. <<b[1], b[2] - 1>> \in blocked
    BY <2>1, <2>2, <2>3
  <2> QED
    BY <1>4, <2>4 DEF Top
<1>5. ASSUME NEW s \in Columns, NEW t \in Columns, s # t
      PROVE  Between(s) \cap Between(t) = {}
  <2> SUFFICES ASSUME NEW d \in Between(s), d \in Between(t) PROVE FALSE
    OBVIOUS
  <2>1. PICK a \in blocked : Top(a) /\ s = Column(a)
    BY ColumnsAre
  <2>2. PICK b \in blocked : Top(b) /\ t = Column(b)
    BY ColumnsAre
  <2>3. b[2] <= a[2] /\ a[2] <= b[2]
    BY <1>4, <2>1, <2>2
  <2>4. a[1] = b[1]
    <3>1. d[1] = a[1] /\ d[1] = b[1]
      BY <2>1, <2>2, ColumnCells
    <3> QED
      BY <3>1
  <2>5. a = <<a[1], a[2]>> /\ b = <<b[1], b[2]>> /\ a[2] \in Int /\ b[2] \in Int
    BY CellFacts, Lengths DEF CellPairs
  <2>6. a = b
    BY <2>3, <2>4, <2>5
  <2> QED
    BY <1>5, <2>1, <2>2, <2>6
<1> QED
  BY <1>1, <1>2, <1>3, <1>5

-----------------------------------------------------------------------------
(* Fixed ends                                                              *)

(* Quotient and remainder.                                                 *)
LEMMA DivMod ==
  ASSUME NEW n \in Int, NEW d \in Nat, d > 0
  PROVE  /\ n \div d \in Int /\ n % d \in 0..d-1
         /\ n = d * (n \div d) + (n % d)
  OBVIOUS

Distance(m, n) == IF m - n < 0 THEN -(m - n) ELSE m - n

Middle(a) == a * Stride + 1 + RoomSize \div 2

(* Where position g lies in a row of rooms: in the room it is taken for,   *)
(* in the wall behind that, or before the first or behind the last room.   *)
LEMMA NearestMiddle ==
  ASSUME config \in Configs, NEW g \in Int, NEW a \in 0..RoomDim-1
  PROVE  Distance(Middle(Clamp((g - 1) \div Stride)), g) <= Distance(Middle(a), g)
<1> DEFINE t == (g - 1) \div Stride
           rem == (g - 1) % Stride
           h == RoomSize \div 2
           q == Clamp(t)
           A == a * Stride
           Q == q * Stride
<1>1. /\ Stride \in Nat /\ Stride = RoomSize + 1 /\ RoomSize \in Nat
      /\ RoomSize >= 1 /\ RoomDim \in Nat /\ RoomDim >= 2
  BY Lengths
<1>2. /\ t \in Int /\ rem \in 0..RoomSize /\ g - 1 = Stride * t + rem
  <2>1. g - 1 \in Int /\ Stride > 0
    BY <1>1
  <2>2. t \in Int /\ rem \in 0..Stride-1 /\ g - 1 = Stride * t + rem
    BY <1>1, <2>1, DivMod
  <2> HIDE DEF t, rem
  <2> QED
    BY <1>1, <2>2
<1>3. h \in Nat /\ 2 * h <= RoomSize /\ RoomSize <= 2 * h + 1
  BY <1>1
<1>4. q \in 0..RoomDim-1 /\ (t < 0 => q = 0) /\ (t > RoomDim - 1 => q = RoomDim - 1)
      /\ (t \in 0..RoomDim-1 => q = t)
  BY <1>1, <1>2 DEF Clamp
<1>5. A \in Nat /\ Q \in Nat
  BY <1>1, <1>4
<1>6. /\ a < q => A + Stride <= Q
      /\ q < a => Q + Stride <= A
      /\ a = q => A = Q
  BY <1>4, Strides
<1>7. Middle(q) = Q + 1 + h /\ Middle(a) = A + 1 + h
  BY DEF Middle
<1>8. /\ t < 0 => g <= 0 /\ Q = 0
      /\ t > RoomDim - 1 => g - 1 >= Q + Stride
      /\ t \in 0..RoomDim-1 => g - 1 = Q + rem
  <2>1. ASSUME t < 0 PROVE g <= 0 /\ Q = 0
    <3>1. Stride * t <= Stride * (-1)
      BY <1>1, <1>2, <2>1
    <3>2. Stride * t <= -Stride /\ Stride * t \in Int
      BY <1>1, <1>2, <3>1
    <3> HIDE DEF t, rem
    <3>3. g <= 0
      BY <1>1, <1>2, <3>2
    <3> QED
      BY <1>1, <1>4, <2>1, <3>3
  <2>2. ASSUME t > RoomDim - 1 PROVE g - 1 >= Q + Stride
    <3>1. q + 1 <= t /\ q \in Int
      BY <1>1, <1>2, <1>4, <2>2
    <3>2. Stride * (q + 1) <= Stride * t
      BY <1>1, <1>2, <3>1
    <3>3. Stride * (q + 1) = Q + Stride /\ Stride * t \in Int
      BY <1>1, <1>2, <3>1
    <3> HIDE DEF t, rem, Q
    <3> QED
      BY <1>1, <1>2, <1>5, <3>2, <3>3
  <2>3. ASSUME t \in 0..RoomDim-1 PROVE g - 1 = Q + rem
    <3>1. q = t
      BY <1>4, <2>3
    <3>2. Q = Stride * t
      BY <1>1, <1>2, <3>1
    <3> QED
      BY <1>2, <3>2
  <2> QED
    BY <2>1, <2>2, <2>3
<1>9. \/ t < 0 \/ t > RoomDim - 1 \/ t \in 0..RoomDim-1
  BY <1>1, <1>2
<1>10. q \in Int /\ a \in Int
  BY <1>1, <1>4
<1>11. Distance(Q + 1 + h, g) <= Distance(A + 1 + h, g)
  <2> HIDE DEF t, rem, h, A, Q
  <2>1. CASE t < 0
    <3>1. Distance(Q + 1 + h, g) = 1 + h - g /\ Distance(A + 1 + h, g) = A + 1 + h - g
      BY <1>3, <1>5, <1>8, <2>1 DEF Distance
    <3> QED
      BY <1>3, <1>5, <3>1
  <2>2. CASE t > RoomDim - 1
    <3>1. A <= Q
      <4>1. a <= q
        BY <1>1, <1>4, <2>2
      <4> QED
        BY <1>1, <1>5, <1>6, <1>10, <4>1
    <3>2. Q + 1 + h - g < 0 /\ A + 1 + h - g < 0
      BY <1>1, <1>3, <1>5, <1>8, <2>2, <3>1
    <3> QED
      BY <1>3, <1>5, <3>1, <3>2 DEF Distance
  <2>3. CASE t \in 0..RoomDim-1
    <3>1. g = Q + rem + 1 /\ rem \in Nat /\ rem <= RoomSize
      BY <1>1, <1>2, <1>5, <1>8, <2>3
    <3>2. CASE a < q
      BY <1>1, <1>3, <1>5, <1>6, <3>1, <3>2 DEF Distance
    <3>3. CASE q < a
      BY <1>1, <1>3, <1>5, <1>6, <3>1, <3>3 DEF Distance
    <3>4. CASE a = q
      BY <1>3, <1>5, <1>6, <3>4 DEF Distance
    <3> QED
      BY <1>10, <3>2, <3>3, <3>4
  <2> QED
    BY <1>9, <2>1, <2>2, <2>3
<1> HIDE DEF t, rem, h, A, Q, q
<1>12. Distance(Middle(q), g) <= Distance(Middle(a), g)
  BY <1>7, <1>11
<1> QED
  BY <1>12 DEF q, t

(* Fixed ends are the rooms nearest to the positions asked for.            *)
LEMMA FixedEndsHold ==
  ASSUME config \in Configs, Mode = "fixed", ends \in EndPairs
  PROVE  \A i \in {1, 2}, r \in Rooms :
           LET away(room, pos) ==
                 LET d == Centre(room)[i] - (pos[i] * OutDim) \div MapSize
                 IN  IF d < 0 THEN -d ELSE d
           IN  /\ away(ends.start, config.start) <= away(r, config.start)
               /\ away(ends.goal, config.end) <= away(r, config.end)
<1> DEFINE cell(pos, i) == (pos[i] * OutDim) \div MapSize
<1>1. ends = [start |-> RoomAt(config.start), goal |-> RoomAt(config.end)]
  BY DEF EndPairs
<1>2. config.start \in Nat \X Nat /\ config.end \in Nat \X Nat
  <2>1. config.grid_count * config.grid_size \in Nat /\ IsConfig(config)
    BY Lengths, GeneratorAssumption DEF MapSize
  <2> QED
    BY <2>1 DEF IsConfig
<1>3. ASSUME NEW pos \in Nat \X Nat, NEW i \in {1, 2}, NEW r \in Rooms
      PROVE  Distance(Centre(RoomAt(pos))[i], cell(pos, i)) <=
               Distance(Centre(r)[i], cell(pos, i))
  <2>1. pos[i] \in Nat /\ r[i] \in 0..RoomDim-1
    BY RoomFacts
  <2>2. cell(pos, i) \in Int
    <3>1. pos[i] * OutDim \in Int
      BY <2>1, Lengths
    <3> QED
      BY <3>1, Lengths
  <2>3. RoomAt(pos)[i] = Clamp((cell(pos, i) - 1) \div Stride)
    <3>1. CASE i = 1
      BY <3>1 DEF RoomAt
    <3>2. CASE i = 2
      BY <3>2 DEF RoomAt
    <3> QED
      BY <3>1, <3>2
  <2>4. \A s : Centre(s)[i] = Middle(s[i])
    <3>1. CASE i = 1
      BY <3>1 DEF Centre, Middle
    <3>2. CASE i = 2
      BY <3>2 DEF Centre, Middle
    <3> QED
      BY <3>1, <3>2
  <2> HIDE DEF cell
  <2> QED
    BY <2>1, <2>2, <2>3, <2>4, NearestMiddle
<1>4. ASSUME NEW i \in {1, 2}, NEW r \in Rooms
      PROVE  /\ Distance(Centre(ends.start)[i], cell(config.start, i))
                  <= Distance(Centre(r)[i], cell(config.start, i))
             /\ Distance(Centre(ends.goal)[i], cell(config.end, i))
                  <= Distance(Centre(r)[i], cell(config.end, i))
  <2> HIDE DEF cell
  <2> QED
    BY <1>1, <1>2, <1>3
<1> QED
  BY <1>4, Zenon DEF Distance

-----------------------------------------------------------------------------
(* Walks over open cells                                                   *)

(* X has with each cell every one an action leads to.                      *)
Walked(open, X) == \A c \in X : Neighbours(open, c) \subseteq X

(* The four straight moves need nothing but the target open.               *)
LEMMA StraightMoves ==
  ASSUME NEW open, NEW x \in Int, NEW y \in Int, <<x, y>> \in open,
         NEW d \in {<<x + 1, y>>, <<x - 1, y>>, <<x, y + 1>>, <<x, y - 1>>} \cap open
  PROVE  d \in Neighbours(open, <<x, y>>)
<1> DEFINE c == <<x, y>>
           to(a) == <<c[1] + Dx[a], c[2] + Dy[a]>>
<1>1. ASSUME NEW a \in {1, 3, 5, 7}, d = to(a)
      PROVE  d \in Neighbours(open, c)
  <2>1. CanMove(open, c, a)
    BY <1>1 DEF CanMove, Dx, Dy, Actions
  <2>2. a \in Actions \ {0}
    BY DEF Actions
  <2> QED
    BY <1>1, <2>1, <2>2 DEF Neighbours
<1>2. /\ to(3) = <<x + 1, y>> /\ to(7) = <<x - 1, y>>
      /\ to(1) = <<x, y + 1>> /\ to(5) = <<x, y - 1>>
  BY DEF Dx, Dy, Actions
<1> HIDE DEF to, c
<1>3. d \in Neighbours(open, c)
  <2>1. d = to(3) \/ d = to(7) \/ d = to(1) \/ d = to(5)
    BY <1>2
  <2> QED
    BY <1>1, <2>1
<1> QED
  BY <1>3 DEF c

(* Who walks on a cell of an open row walks all of it.                     *)
LEMMA RowWalked ==
  ASSUME NEW open, NEW X, Walked(open, X),
         NEW y \in Int, NEW a \in Int, NEW b \in Int,
         \A x \in a..b : <<x, y>> \in open,
         \E x \in a..b : <<x, y>> \in X
  PROVE  \A x \in a..b : <<x, y>> \in X
<1>1. PICK m \in a..b : <<m, y>> \in X
  OBVIOUS
<1> DEFINE T == {k \in Nat : \A x \in a..b : x \in {m + k, m - k} => <<x, y>> \in X}
<1>2. 0 \in T
  BY <1>1
<1>3. ASSUME NEW k \in Nat, k \in T PROVE k + 1 \in T
  <2> SUFFICES ASSUME NEW x \in a..b, x \in {m + (k + 1), m - (k + 1)}
               PROVE  <<x, y>> \in X
    OBVIOUS
  <2>1. PICK z \in a..b : z \in {m + k, m - k} /\ x \in {z + 1, z - 1}
    <3>1. CASE x = m + (k + 1)
      <4>1. x - 1 \in a..b /\ x - 1 = m + k /\ x = (x - 1) + 1
        BY <1>1, <3>1
      <4> QED
        BY <4>1
    <3>2. CASE x = m - (k + 1)
      <4>1. x + 1 \in a..b /\ x + 1 = m - k /\ x = (x + 1) - 1
        BY <1>1, <3>2
      <4> QED
        BY <4>1
    <3> QED
      BY <3>1, <3>2
  <2>2. <<z, y>> \in X /\ <<z, y>> \in open /\ <<x, y>> \in open
    BY <1>3, <2>1
  <2>3. <<x, y>> \in Neighbours(open, <<z, y>>)
    BY <2>1, <2>2, StraightMoves
  <2> QED
    BY <2>2, <2>3 DEF Walked
<1>4. Nat \subseteq T
  <2> HIDE DEF T
  <2> QED
    BY <1>2, <1>3, Induction
<1>5. ASSUME NEW x \in a..b PROVE <<x, y>> \in X
  <2>1. CASE x >= m
    <3>1. x - m \in T /\ x = m + (x - m)
      BY <1>1, <1>4, <2>1
    <3> QED
      BY <3>1
  <2>2. CASE x < m
    <3>1. m - x \in T /\ x = m - (m - x)
      BY <1>1, <1>4, <2>2
    <3> QED
      BY <3>1
  <2> QED
    BY <1>1, <2>1, <2>2
<1> QED
  BY <1>5

(* So it is with columns.                                                  *)
LEMMA ColumnWalked ==
  ASSUME NEW open, NEW X, Walked(open, X),
         NEW x \in Int, NEW a \in Int, NEW b \in Int,
         \A y \in a..b : <<x, y>> \in open,
         \E y \in a..b : <<x, y>> \in X
  PROVE  \A y \in a..b : <<x, y>> \in X
<1>1. PICK m \in a..b : <<x, m>> \in X
  OBVIOUS
<1> DEFINE T == {k \in Nat : \A y \in a..b : y \in {m + k, m - k} => <<x, y>> \in X}
<1>2. 0 \in T
  BY <1>1
<1>3. ASSUME NEW k \in Nat, k \in T PROVE k + 1 \in T
  <2> SUFFICES ASSUME NEW y \in a..b, y \in {m + (k + 1), m - (k + 1)}
               PROVE  <<x, y>> \in X
    OBVIOUS
  <2>1. PICK z \in a..b : z \in {m + k, m - k} /\ y \in {z + 1, z - 1}
    <3>1. CASE y = m + (k + 1)
      <4>1. y - 1 \in a..b /\ y - 1 = m + k /\ y = (y - 1) + 1
        BY <1>1, <3>1
      <4> QED
        BY <4>1
    <3>2. CASE y = m - (k + 1)
      <4>1. y + 1 \in a..b /\ y + 1 = m - k /\ y = (y + 1) - 1
        BY <1>1, <3>2
      <4> QED
        BY <4>1
    <3> QED
      BY <3>1, <3>2
  <2>2. <<x, z>> \in X /\ <<x, z>> \in open /\ <<x, y>> \in open
    BY <1>3, <2>1
  <2>3. <<x, y>> \in Neighbours(open, <<x, z>>)
    BY <2>1, <2>2, StraightMoves
  <2> QED
    BY <2>2, <2>3 DEF Walked
<1>4. Nat \subseteq T
  <2> HIDE DEF T
  <2> QED
    BY <1>2, <1>3, Induction
<1>5. ASSUME NEW y \in a..b PROVE <<x, y>> \in X
  <2>1. CASE y >= m
    <3>1. y - m \in T /\ y = m + (y - m)
      BY <1>1, <1>4, <2>1
    <3> QED
      BY <3>1
  <2>2. CASE y < m
    <3>1. m - y \in T /\ y = m - (m - y)
      BY <1>1, <1>4, <2>2
    <3> QED
      BY <3>1
  <2> QED
    BY <1>1, <2>1, <2>2
<1> QED
  BY <1>5

-----------------------------------------------------------------------------
(* Rims, gaps and the ways between them                                    *)

(* The first and the last cell of a room in a row of rooms.                *)
Low(a) == a * Stride + 1
High(a) == a * Stride + RoomSize

(* Rooms lie within the border, a wall of one cell between them.           *)
LEMMA LowHigh ==
  ASSUME config \in Configs, NEW a \in 0..RoomDim-1
  PROVE  /\ Low(a) \in Int /\ High(a) \in Int
         /\ 1 <= Low(a) /\ Low(a) <= High(a) /\ High(a) <= OutDim - 2
         /\ a + 1 \in 0..RoomDim-1 => Low(a + 1) = High(a) + 2
<1> DEFINE A == a * Stride
<1>1. A \in Nat /\ A + Stride <= OutDim - 1 /\ (a + 1) * Stride = A + Stride
  BY Strides
<1> HIDE DEF A
<1>2. Low(a) = A + 1 /\ High(a) = A + RoomSize /\ Low(a + 1) = A + Stride + 1
  BY <1>1 DEF Low, High, A
<1> QED
  BY <1>1, <1>2, Lengths

Across(r) == Low(r[1])..High(r[1])
Along(r) == Low(r[2])..High(r[2])
Right(r) == <<r[1] + 1, r[2]>>
Upper(r) == <<r[1], r[2] + 1>>

(* Rooms and gaps as products of intervals.                                *)
LEMMA PlacesAre ==
  ASSUME config \in Configs, NEW r \in Rooms
  PROVE  /\ RoomCells(r) = Across(r) \X Along(r)
         /\ RightGap(r) = {High(r[1]) + 1} \X Along(r)
         /\ UpperGap(r) = Across(r) \X {High(r[2]) + 1}
<1> DEFINE X == r[1] * Stride
           Y == r[2] * Stride
<1>1. /\ X \in Nat /\ Y \in Nat /\ RoomSize \in Nat /\ RoomSize >= 1
      /\ (r[1] + 1) * Stride = X + RoomSize + 1
      /\ (r[2] + 1) * Stride = Y + RoomSize + 1
  <2>1. r[1] \in 0..RoomDim-1 /\ r[2] \in 0..RoomDim-1
    BY RoomFacts
  <2>2. /\ X \in Nat /\ (r[1] + 1) * Stride = X + Stride
        /\ Y \in Nat /\ (r[2] + 1) * Stride = Y + Stride
    BY <2>1, Strides
  <2> HIDE DEF X, Y
  <2> QED
    BY <2>2, Lengths
<1>2. /\ RoomCells(r) = {<<X + 1 + dx, Y + 1 + dy>> :
                           dx \in 0..RoomSize-1, dy \in 0..RoomSize-1}
      /\ RightGap(r) = {<<X + RoomSize + 1, Y + 1 + dy>> : dy \in 0..RoomSize-1}
      /\ UpperGap(r) = {<<X + 1 + dx, Y + RoomSize + 1>> : dx \in 0..RoomSize-1}
  BY <1>1 DEF RoomCells, RightGap, UpperGap
<1>3. Across(r) = (X + 1)..(X + RoomSize) /\ Along(r) = (Y + 1)..(Y + RoomSize)
      /\ High(r[1]) = X + RoomSize /\ High(r[2]) = Y + RoomSize
  BY DEF Across, Along, Low, High
<1> HIDE DEF X, Y
<1>4. ASSUME NEW Z \in Nat
      PROVE  /\ \A d \in 0..RoomSize-1 : Z + 1 + d \in (Z + 1)..(Z + RoomSize)
             /\ \A z \in (Z + 1)..(Z + RoomSize) :
                  z - (Z + 1) \in 0..RoomSize-1 /\ z = Z + 1 + (z - (Z + 1))
  BY <1>1
<1>a. /\ \A x \in Across(r) : \E dx \in 0..RoomSize-1 : x = X + 1 + dx
      /\ \A y \in Along(r) : \E dy \in 0..RoomSize-1 : y = Y + 1 + dy
  <2>1. \A Z \in Nat : \A z \in (Z + 1)..(Z + RoomSize) :
          \E d \in 0..RoomSize-1 : z = Z + 1 + d
    BY <1>4
  <2> QED
    BY <1>1, <1>3, <2>1
<1>5. RoomCells(r) = Across(r) \X Along(r)
  <2>1. ASSUME NEW dx \in 0..RoomSize-1, NEW dy \in 0..RoomSize-1
        PROVE  <<X + 1 + dx, Y + 1 + dy>> \in Across(r) \X Along(r)
    <3>1. X + 1 + dx \in Across(r) /\ Y + 1 + dy \in Along(r)
      BY <1>1, <1>3, <1>4
    <3> QED
      BY <3>1
  <2>2. ASSUME NEW x \in Across(r), NEW y \in Along(r)
        PROVE  <<x, y>> \in RoomCells(r)
    <3>1. PICK dx \in 0..RoomSize-1 : x = X + 1 + dx
      BY <1>a
    <3>2. PICK dy \in 0..RoomSize-1 : y = Y + 1 + dy
      BY <1>a
    <3> QED
      BY <1>2, <3>1, <3>2
  <2>3. ASSUME NEW c \in RoomCells(r) PROVE c \in Across(r) \X Along(r)
    <3>1. PICK dx \in 0..RoomSize-1, dy \in 0..RoomSize-1 :
            c = <<X + 1 + dx, Y + 1 + dy>>
      BY <1>2
    <3> QED
      BY <2>1, <3>1
  <2> QED
    BY <2>2, <2>3
<1>6. RightGap(r) = {High(r[1]) + 1} \X Along(r)
  <2>1. ASSUME NEW dy \in 0..RoomSize-1
        PROVE  <<X + RoomSize + 1, Y + 1 + dy>> \in {High(r[1]) + 1} \X Along(r)
    <3>1. X + RoomSize + 1 = High(r[1]) + 1 /\ Y + 1 + dy \in Along(r)
      BY <1>1, <1>3, <1>4
    <3> QED
      BY <3>1
  <2>2. ASSUME NEW y \in Along(r) PROVE <<High(r[1]) + 1, y>> \in RightGap(r)
    <3>1. PICK dy \in 0..RoomSize-1 : y = Y + 1 + dy
      BY <1>a
    <3>2. High(r[1]) + 1 = X + RoomSize + 1
      BY <1>3
    <3> QED
      BY <1>2, <3>1, <3>2
  <2>3. ASSUME NEW c \in RightGap(r) PROVE c \in {High(r[1]) + 1} \X Along(r)
    BY <1>2, <2>1, Zenon
  <2> QED
    BY <2>2, <2>3
<1>7. UpperGap(r) = Across(r) \X {High(r[2]) + 1}
  <2>1. ASSUME NEW dx \in 0..RoomSize-1
        PROVE  <<X + 1 + dx, Y + RoomSize + 1>> \in Across(r) \X {High(r[2]) + 1}
    <3>1. X + 1 + dx \in Across(r) /\ Y + RoomSize + 1 = High(r[2]) + 1
      BY <1>1, <1>3, <1>4
    <3> QED
      BY <3>1
  <2>2. ASSUME NEW x \in Across(r) PROVE <<x, High(r[2]) + 1>> \in UpperGap(r)
    <3>1. PICK dx \in 0..RoomSize-1 : x = X + 1 + dx
      BY <1>a
    <3>2. High(r[2]) + 1 = Y + RoomSize + 1
      BY <1>3
    <3> QED
      BY <1>2, <3>1, <3>2
  <2>3. ASSUME NEW c \in UpperGap(r) PROVE c \in Across(r) \X {High(r[2]) + 1}
    BY <1>2, <2>1, Zenon
  <2> QED
    BY <2>2, <2>3
<1> QED
  BY <1>5, <1>6, <1>7

(* The first and last cells of a room are cells of it.                     *)
LEMMA RoomBounds ==
  ASSUME config \in Configs, NEW r \in Rooms
  PROVE  /\ Across(r) \subseteq Int /\ Along(r) \subseteq Int
         /\ {Low(r[1]), High(r[1])} \subseteq Across(r)
         /\ {Low(r[2]), High(r[2])} \subseteq Along(r)
         /\ {Low(r[1]), High(r[1]), Low(r[2]), High(r[2])} \subseteq Int
<1>1. r[1] \in 0..RoomDim-1 /\ r[2] \in 0..RoomDim-1
  BY RoomFacts
<1>2. /\ Low(r[1]) \in Int /\ High(r[1]) \in Int /\ Low(r[1]) <= High(r[1])
      /\ Low(r[2]) \in Int /\ High(r[2]) \in Int /\ Low(r[2]) <= High(r[2])
  BY <1>1, LowHigh
<1> QED
  BY <1>2 DEF Across, Along

(* The cells of a room along its walls.                                    *)
Rim(r) == {c \in RoomCells(r) : \/ c[1] \in {Low(r[1]), High(r[1])}
                                \/ c[2] \in {Low(r[2]), High(r[2])}}

(* A rim is walked round from side to side.                                *)
LEMMA RimWalked ==
  ASSUME config \in Configs, NEW r \in Rooms, NEW open, NEW X, Walked(open, X),
         Rim(r) \subseteq open, Rim(r) \cap X # {}
  PROVE  Rim(r) \subseteq X
<1> DEFINE a == Low(r[1])
           b == High(r[1])
           e == Low(r[2])
           f == High(r[2])
           Row(y) == \A x \in a..b : <<x, y>> \in X
           Col(x) == \A y \in e..f : <<x, y>> \in X
<1>1. /\ a \in Int /\ b \in Int /\ a \in a..b /\ b \in a..b
      /\ e \in Int /\ f \in Int /\ e \in e..f /\ f \in e..f
  BY RoomBounds DEF Across, Along
<1>2. RoomCells(r) = (a..b) \X (e..f)
  BY PlacesAre DEF Across, Along
<1> HIDE DEF a, b, e, f
<1>3. \A x \in a..b, y \in e..f :
        x \in {a, b} \/ y \in {e, f} => <<x, y>> \in Rim(r)
  BY <1>2 DEF Rim, a, b, e, f
<1>4. ASSUME NEW c \in Rim(r)
      PROVE  /\ c = <<c[1], c[2]>> /\ c[1] \in a..b /\ c[2] \in e..f
             /\ c[1] \in {a, b} \/ c[2] \in {e, f}
  BY <1>2 DEF Rim, a, b, e, f
<1>5. ASSUME NEW y \in {e, f}, \E x \in a..b : <<x, y>> \in X PROVE Row(y)
  <2>1. \A x \in a..b : <<x, y>> \in open
    BY <1>1, <1>3
  <2>2. y \in Int
    BY <1>1
  <2> QED
    BY <1>1, <1>5, <2>1, <2>2, RowWalked
<1>6. ASSUME NEW x \in {a, b}, \E y \in e..f : <<x, y>> \in X PROVE Col(x)
  <2>1. \A y \in e..f : <<x, y>> \in open
    BY <1>1, <1>3
  <2>2. x \in Int
    BY <1>1
  <2> QED
    BY <1>1, <1>6, <2>1, <2>2, ColumnWalked
<1>7. /\ Row(e) => Col(a)
      /\ Col(a) => Row(f)
      /\ Row(f) => Col(b)
      /\ Col(b) => Row(e)
  BY <1>1, <1>5, <1>6
<1>8. Row(e) \/ Row(f) \/ Col(a) \/ Col(b)
  <2>1. PICK c \in Rim(r) : c \in X
    OBVIOUS
  <2> QED
    BY <1>4, <1>5, <1>6, <2>1
<1> QED
  BY <1>4, <1>7, <1>8

(* A room that is open all over is walked row by row.                      *)
LEMMA RoomWalked ==
  ASSUME config \in Configs, NEW r \in Rooms, NEW open, NEW X, Walked(open, X),
         RoomCells(r) \subseteq open, RoomCells(r) \cap X # {}
  PROVE  RoomCells(r) \subseteq X
<1> DEFINE a == Low(r[1])
           b == High(r[1])
           e == Low(r[2])
           f == High(r[2])
<1>1. /\ a \in Int /\ b \in Int /\ e \in Int /\ f \in Int
  BY RoomBounds
<1>2. RoomCells(r) = (a..b) \X (e..f)
  BY PlacesAre DEF Across, Along
<1> HIDE DEF a, b, e, f
<1>3. PICK c \in RoomCells(r) : c \in X
  OBVIOUS
<1>4. c = <<c[1], c[2]>> /\ c[1] \in a..b /\ c[2] \in e..f
  BY <1>2
<1>5. \A x \in a..b, y \in e..f : <<x, y>> \in open
  BY <1>2
<1>6. \A x \in a..b : <<x, c[2]>> \in X
  <2>1. \A x \in a..b : <<x, c[2]>> \in open
    BY <1>4, <1>5
  <2>2. c[2] \in Int /\ (\E x \in a..b : <<x, c[2]>> \in X)
    BY <1>1, <1>3, <1>4
  <2> QED
    BY <1>1, <2>1, <2>2, RowWalked
<1>7. ASSUME NEW x \in a..b PROVE \A y \in e..f : <<x, y>> \in X
  <2>1. \A y \in e..f : <<x, y>> \in open
    BY <1>5
  <2>2. x \in Int /\ (\E y \in e..f : <<x, y>> \in X)
    BY <1>1, <1>4, <1>6
  <2> QED
    BY <1>1, <2>1, <2>2, ColumnWalked
<1> QED
  BY <1>2, <1>7

(* The cells between two rooms, when there is no wall left.                *)
Joined(open, r, s, gap) ==
  s \in Rooms /\ {r, s} \notin walls => gap \subseteq open

(* All rims are open, and all gaps between rooms without a wall.           *)
Passable(open) ==
  \A r \in Rooms : /\ Rim(r) \subseteq open
                   /\ Joined(open, r, Right(r), RightGap(r))
                   /\ Joined(open, r, Upper(r), UpperGap(r))

(* Through an open gap to the room at the right, and back.                 *)
LEMMA RightWalked ==
  ASSUME config \in Configs, NEW r \in Rooms, Right(r) \in Rooms,
         NEW open, NEW X, Walked(open, X),
         Rim(r) \subseteq open, Rim(Right(r)) \subseteq open,
         RightGap(r) \subseteq open,
         Rim(r) \cap X # {} \/ Rim(Right(r)) \cap X # {}
  PROVE  Rim(r) \cup Rim(Right(r)) \cup RightGap(r) \subseteq X
<1> DEFINE s == Right(r)
           a == High(r[1])
           E == Along(r)
<1>1. s \in Rooms /\ s[1] = r[1] + 1 /\ s[2] = r[2]
  BY DEF Right
<1>2. r[1] \in 0..RoomDim-1 /\ s[1] \in 0..RoomDim-1
  BY <1>1, RoomFacts
<1>3. a \in Int /\ Low(s[1]) = a + 2 /\ Along(s) = E /\ E \subseteq Int
  BY <1>1, <1>2, LowHigh, RoomBounds DEF Along
<1>4. E # {}
  BY RoomBounds
<1>5. /\ \A y \in E : <<a, y>> \in Rim(r)
      /\ \A y \in E : <<a + 2, y>> \in Rim(s)
      /\ \A y \in E : <<a + 1, y>> \in RightGap(r)
      /\ \A c \in RightGap(r) : c = <<a + 1, c[2]>> /\ c[2] \in E
  <2>1. /\ RoomCells(r) = Across(r) \X E /\ a \in Across(r)
        /\ RoomCells(s) = Across(s) \X E /\ a + 2 \in Across(s)
        /\ RightGap(r) = {a + 1} \X E
    BY <1>1, <1>3, PlacesAre, RoomBounds
  <2> HIDE DEF a, E, s
  <2>2. \A y \in E : <<a, y>> \in RoomCells(r) /\ <<a + 2, y>> \in RoomCells(s)
    BY <2>1
  <2>3. \A y \in E : <<a, y>> \in Rim(r)
    BY <2>2 DEF Rim, a
  <2>4. \A y \in E : <<a + 2, y>> \in Rim(s)
    BY <1>3, <2>2 DEF Rim
  <2>5. /\ \A y \in E : <<a + 1, y>> \in RightGap(r)
        /\ \A c \in RightGap(r) : c = <<a + 1, c[2]>> /\ c[2] \in E
    BY <2>1
  <2> QED
    BY <2>3, <2>4, <2>5
<1> HIDE DEF a, E
<1>6. ASSUME NEW y \in E, <<a, y>> \in X \/ <<a + 2, y>> \in X
      PROVE  <<a, y>> \in X /\ <<a + 1, y>> \in X /\ <<a + 2, y>> \in X
  <2>1. \A x \in a..(a + 2) : x = a \/ x = a + 1 \/ x = a + 2
    BY <1>3
  <2>2. \A x \in a..(a + 2) : <<x, y>> \in open
    BY <1>5, <2>1
  <2>3. a \in a..(a + 2) /\ a + 1 \in a..(a + 2) /\ a + 2 \in a..(a + 2)
    BY <1>3
  <2>4. y \in Int /\ a + 2 \in Int /\ (\E x \in a..(a + 2) : <<x, y>> \in X)
    BY <1>3, <1>6, <2>3
  <2>5. \A x \in a..(a + 2) : <<x, y>> \in X
    <3> DEFINE b == a + 2
    <3>1. /\ a \in Int /\ b \in Int /\ y \in Int
          /\ \A x \in a..b : <<x, y>> \in open
          /\ \E x \in a..b : <<x, y>> \in X
      BY <1>3, <2>2, <2>4
    <3> HIDE DEF b
    <3>2. \A x \in a..b : <<x, y>> \in X
      BY <3>1, RowWalked
    <3> QED
      BY <3>2 DEF b
  <2> QED
    BY <2>3, <2>5
<1>7. Rim(r) \subseteq X /\ Rim(s) \subseteq X
  <2>1. PICK y \in E : TRUE
    BY <1>4
  <2>2. CASE Rim(r) \cap X # {}
    <3>1. Rim(r) \subseteq X
      BY <2>2, RimWalked
    <3>2. <<a + 2, y>> \in Rim(s) \cap X
      BY <1>5, <1>6, <3>1
    <3>3. Rim(s) \subseteq X
      BY <1>1, <3>2, RimWalked
    <3> QED
      BY <3>1, <3>3
  <2>3. CASE Rim(s) \cap X # {}
    <3>1. Rim(s) \subseteq X
      BY <1>1, <2>3, RimWalked
    <3>2. <<a, y>> \in Rim(r) \cap X
      BY <1>5, <1>6, <3>1
    <3>3. Rim(r) \subseteq X
      BY <3>2, RimWalked
    <3> QED
      BY <3>1, <3>3
  <2> QED
    BY <2>2, <2>3
<1>8. RightGap(r) \subseteq X
  BY <1>5, <1>6, <1>7
<1> QED
  BY <1>7, <1>8

(* And through one to the room above.                                      *)
LEMMA UpperWalked ==
  ASSUME config \in Configs, NEW r \in Rooms, Upper(r) \in Rooms,
         NEW open, NEW X, Walked(open, X),
         Rim(r) \subseteq open, Rim(Upper(r)) \subseteq open,
         UpperGap(r) \subseteq open,
         Rim(r) \cap X # {} \/ Rim(Upper(r)) \cap X # {}
  PROVE  Rim(r) \cup Rim(Upper(r)) \cup UpperGap(r) \subseteq X
<1> DEFINE s == Upper(r)
           a == High(r[2])
           E == Across(r)
<1>1. s \in Rooms /\ s[2] = r[2] + 1 /\ s[1] = r[1]
  BY DEF Upper
<1>2. r[2] \in 0..RoomDim-1 /\ s[2] \in 0..RoomDim-1
  BY <1>1, RoomFacts
<1>3. a \in Int /\ Low(s[2]) = a + 2 /\ Across(s) = E /\ E \subseteq Int
  BY <1>1, <1>2, LowHigh, RoomBounds DEF Across
<1>4. E # {}
  BY RoomBounds
<1>5. /\ \A x \in E : <<x, a>> \in Rim(r)
      /\ \A x \in E : <<x, a + 2>> \in Rim(s)
      /\ \A x \in E : <<x, a + 1>> \in UpperGap(r)
      /\ \A c \in UpperGap(r) : c = <<c[1], a + 1>> /\ c[1] \in E
  <2>1. /\ RoomCells(r) = E \X Along(r) /\ a \in Along(r)
        /\ RoomCells(s) = E \X Along(s) /\ a + 2 \in Along(s)
        /\ UpperGap(r) = E \X {a + 1}
    BY <1>1, <1>3, PlacesAre, RoomBounds
  <2> HIDE DEF a, E, s
  <2>2. \A x \in E : <<x, a>> \in RoomCells(r) /\ <<x, a + 2>> \in RoomCells(s)
    BY <2>1
  <2>3. \A x \in E : <<x, a>> \in Rim(r)
    BY <2>2 DEF Rim, a
  <2>4. \A x \in E : <<x, a + 2>> \in Rim(s)
    BY <1>3, <2>2 DEF Rim
  <2>5. /\ \A x \in E : <<x, a + 1>> \in UpperGap(r)
        /\ \A c \in UpperGap(r) : c = <<c[1], a + 1>> /\ c[1] \in E
    BY <2>1
  <2> QED
    BY <2>3, <2>4, <2>5
<1> HIDE DEF a, E
<1>6. ASSUME NEW x \in E, <<x, a>> \in X \/ <<x, a + 2>> \in X
      PROVE  <<x, a>> \in X /\ <<x, a + 1>> \in X /\ <<x, a + 2>> \in X
  <2>1. \A y \in a..(a + 2) : y = a \/ y = a + 1 \/ y = a + 2
    BY <1>3
  <2>2. \A y \in a..(a + 2) : <<x, y>> \in open
    BY <1>5, <2>1
  <2>3. a \in a..(a + 2) /\ a + 1 \in a..(a + 2) /\ a + 2 \in a..(a + 2)
    BY <1>3
  <2>4. x \in Int /\ a + 2 \in Int /\ (\E y \in a..(a + 2) : <<x, y>> \in X)
    BY <1>3, <1>6, <2>3
  <2>5. \A y \in a..(a + 2) : <<x, y>> \in X
    <3> DEFINE b == a + 2
    <3>1. /\ a \in Int /\ b \in Int /\ x \in Int
          /\ \A y \in a..b : <<x, y>> \in open
          /\ \E y \in a..b : <<x, y>> \in X
      BY <1>3, <2>2, <2>4
    <3> HIDE DEF b
    <3>2. \A y \in a..b : <<x, y>> \in X
      BY <3>1, ColumnWalked
    <3> QED
      BY <3>2 DEF b
  <2> QED
    BY <2>3, <2>5
<1>7. Rim(r) \subseteq X /\ Rim(s) \subseteq X
  <2>1. PICK x \in E : TRUE
    BY <1>4
  <2>2. CASE Rim(r) \cap X # {}
    <3>1. Rim(r) \subseteq X
      BY <2>2, RimWalked
    <3>2. <<x, a + 2>> \in Rim(s) \cap X
      BY <1>5, <1>6, <3>1
    <3>3. Rim(s) \subseteq X
      BY <1>1, <3>2, RimWalked
    <3> QED
      BY <3>1, <3>3
  <2>3. CASE Rim(s) \cap X # {}
    <3>1. Rim(s) \subseteq X
      BY <1>1, <2>3, RimWalked
    <3>2. <<x, a>> \in Rim(r) \cap X
      BY <1>5, <1>6, <3>1
    <3>3. Rim(r) \subseteq X
      BY <3>2, RimWalked
    <3> QED
      BY <3>1, <3>3
  <2> QED
    BY <2>2, <2>3
<1>8. UpperGap(r) \subseteq X
  BY <1>5, <1>6, <1>7
<1> QED
  BY <1>7, <1>8

(* A removed wall lets through, whichever way round.                       *)
LEMMA NextRoomWalked ==
  ASSUME config \in Configs, NEW r \in Rooms, NEW s \in Rooms, {r, s} \in Opened,
         NEW open, NEW X, Walked(open, X), Passable(open), Rim(r) \cap X # {}
  PROVE  Rim(s) \subseteq X
<1>1. \/ s = Right(r) \/ s = Upper(r) \/ r = Right(s) \/ r = Upper(s)
  <2>1. PICK p \in Rooms, q \in Rooms : q \in Adjacent(p) /\ {r, s} = {p, q}
    BY WallFacts DEF Opened
  <2>2. \/ q = <<p[1] - 1, p[2]>> \/ q = Right(p)
        \/ q = <<p[1], p[2] - 1>> \/ q = Upper(p)
    BY <2>1 DEF Adjacent, Right, Upper
  <2>3. q = Right(p) \/ q = Upper(p) \/ p = Right(q) \/ p = Upper(q)
    <3>1. p = <<p[1], p[2]>> /\ p[1] \in Int /\ p[2] \in Int
      BY RoomFacts, Lengths
    <3> QED
      BY <2>2, <3>1 DEF Right, Upper
  <2>4. (r = p /\ s = q) \/ (r = q /\ s = p)
    BY <2>1
  <2> QED
    BY <2>3, <2>4
<1>2. {r, s} \notin walls /\ {s, r} \notin walls
  <2>1. {s, r} = {r, s}
    OBVIOUS
  <2> QED
    BY <2>1 DEF Opened
<1>3. /\ Rim(r) \subseteq open /\ Rim(s) \subseteq open
      /\ s = Right(r) => RightGap(r) \subseteq open
      /\ s = Upper(r) => UpperGap(r) \subseteq open
      /\ r = Right(s) => RightGap(s) \subseteq open
      /\ r = Upper(s) => UpperGap(s) \subseteq open
  BY <1>2 DEF Passable, Joined
<1>4. CASE s = Right(r)
  BY <1>3, <1>4, RightWalked
<1>5. CASE s = Upper(r)
  BY <1>3, <1>5, UpperWalked
<1>6. CASE r = Right(s)
  BY <1>3, <1>6, RightWalked
<1>7. CASE r = Upper(s)
  BY <1>3, <1>7, UpperWalked
<1> QED
  BY <1>1, <1>4, <1>5, <1>6, <1>7

(* Who walks on one rim walks on all, and on the gaps between them.        *)
LEMMA RoomsHang ==
  ASSUME config \in Configs, Linked(Opened, Rooms),
         NEW open, NEW X, Walked(open, X), Passable(open),
         NEW first \in Rooms, Rim(first) \cap X # {}
  PROVE  \A r \in Rooms : /\ Rim(r) \subseteq X
                          /\ Joined(X, r, Right(r), RightGap(r))
                          /\ Joined(X, r, Upper(r), UpperGap(r))
<1> DEFINE V == {r \in Rooms : Rim(r) \cap X # {}}
           W == Rooms \ V
<1>1. ASSUME NEW r \in Rooms, NEW s \in Rooms, {r, s} \in Opened, r \in V
      PROVE  s \in V
  <2>1. Rim(s) \subseteq X
    BY <1>1, NextRoomWalked
  <2>2. Rim(s) # {}
    <3>1. <<Low(s[1]), Low(s[2])>> \in RoomCells(s)
      BY PlacesAre, RoomBounds
    <3> QED
      BY <3>1 DEF Rim
  <2> QED
    BY <2>1, <2>2
<1>2. \A r, s : {r, s} = {s, r}
  OBVIOUS
<1> HIDE DEF V
<1>3. <<0, 0>> \in V
  <2>1. CASE <<0, 0>> \in W
    <3>1. \A r \in W : \A s \in Rooms : {r, s} \in Opened => s \in W
      BY <1>1, <1>2
    <3>2. Closed(W, Opened) /\ W \subseteq Rooms
      BY <2>1, <3>1 DEF Closed
    <3>3. Rooms \subseteq W
      BY <3>2 DEF Linked
    <3>4. first \in V
      BY DEF V
    <3> QED
      BY <3>3, <3>4
  <2> QED
    BY <2>1, RoomFacts
<1>4. Rooms \subseteq V
  <2>1. V \subseteq Rooms
    BY DEF V
  <2>2. Closed(V, Opened)
    BY <1>1, <1>3, <2>1 DEF Closed
  <2> QED
    BY <2>1, <2>2 DEF Linked
<1>5. \A r \in Rooms : Rim(r) \cap X # {}
  BY <1>4 DEF V
<1>6. ASSUME NEW r \in Rooms PROVE Rim(r) \subseteq X
  BY <1>5, RimWalked DEF Passable
<1>7. ASSUME NEW r \in Rooms PROVE Joined(X, r, Right(r), RightGap(r))
  <2> SUFFICES ASSUME Right(r) \in Rooms, {r, Right(r)} \notin walls
               PROVE  RightGap(r) \subseteq X
    BY DEF Joined
  <2>1. Rim(r) \subseteq open /\ Rim(Right(r)) \subseteq open /\ RightGap(r) \subseteq open
    BY DEF Passable, Joined
  <2> QED
    BY <1>5, <2>1, RightWalked
<1>8. ASSUME NEW r \in Rooms PROVE Joined(X, r, Upper(r), UpperGap(r))
  <2> SUFFICES ASSUME Upper(r) \in Rooms, {r, Upper(r)} \notin walls
               PROVE  UpperGap(r) \subseteq X
    BY DEF Joined
  <2>1. Rim(r) \subseteq open /\ Rim(Upper(r)) \subseteq open /\ UpperGap(r) \subseteq open
    BY DEF Passable, Joined
  <2> QED
    BY <1>5, <2>1, UpperWalked
<1> QED
  BY <1>6, <1>7, <1>8

-----------------------------------------------------------------------------
(* The search for a way (the first lemmas as in ActionSearchProofs)        *)

(* What a round leads on: from the n-th of the sets into the next one.     *)
Leads(open, end, Good) ==
  \A i \in Nat : \A q \in Good[i] : Round(open, end, q) \in Good[i + 1]

(* One stretch of rounds: whatever each round leads on leads to its end.   *)
LEMMA StretchLeads ==
  ASSUME NEW open, NEW end, NEW Good, Leads(open, end, Good),
         NEW k \in Nat, NEW r \in Good[k]
  PROVE  \E q \in Good[k + STRETCH] : Stretched(open, end, r) = {q}
<1> DEFINE R == UNION {Good[i] : i \in Nat}
           S == SUBSET R
           g == [X \in S |-> {Round(open, end, q) : q \in X}]
           Is(h) == h = [n \in 0..STRETCH |->
                           IF n = 0 THEN {r}
                           ELSE {Round(open, end, q) : q \in h[n - 1]}]
           after == CHOOSE h : Is(h)
<1>1. Stretched(open, end, r) = after[STRETCH]
  BY Zenon DEF Stretched
<1>2. STRETCH \in Nat /\ {r} \in S
  BY DEF STRETCH
<1>3. g \in [S -> S]
  <2>1. \A q \in R : Round(open, end, q) \in R
    <3> SUFFICES ASSUME NEW i \in Nat, NEW q \in Good[i]
                 PROVE  Round(open, end, q) \in R
      OBVIOUS
    <3>1. Round(open, end, q) \in Good[i + 1] /\ i + 1 \in Nat
      BY DEF Leads
    <3> QED
      BY <3>1, Zenon
  <2> HIDE DEF R
  <2> QED
    BY <2>1
<1> HIDE DEF R
<1>4. PICK f \in [0..STRETCH -> S] : GoesOn(f, {r}, g, STRETCH)
  <2> HIDE DEF S, g
  <2> QED
    BY <1>2, <1>3, Recursion
<1>5. Is(f)
  <2>1. ASSUME NEW n \in 0..STRETCH, n # 0
        PROVE  g[f[n - 1]] = {Round(open, end, q) : q \in f[n - 1]}
    <3>1. n - 1 \in 0..STRETCH
      BY <1>2, <2>1
    <3>2. f[n - 1] \in S
      BY <1>4, <3>1
    <3> HIDE DEF S
    <3> QED
      BY <3>2
  <2> HIDE DEF g, S
  <2>2. \A n \in 0..STRETCH :
          f[n] = IF n = 0 THEN {r}
                 ELSE {Round(open, end, q) : q \in f[n - 1]}
    BY <1>4, <2>1 DEF GoesOn
  <2>3. f = [n \in 0..STRETCH |-> f[n]]
    BY <1>4
  <2> QED
    BY <2>2, <2>3
<1>6. Is(after)
  <2> HIDE DEF Is
  <2> QED
    BY <1>5, Zenon
<1>7. \A n \in 0..STRETCH :
        after[n] = IF n = 0 THEN {r}
                   ELSE {Round(open, end, q) : q \in after[n - 1]}
  <2> HIDE DEF after
  <2> QED
    BY <1>6, Zenon
<1> HIDE DEF after, S, g
<1> DEFINE T == {n \in Nat : n <= STRETCH =>
                   \E q \in Good[k + n] : after[n] = {q}}
<1>8. 0 \in T
  <2>1. 0 \in 0..STRETCH /\ k + 0 = k
    BY <1>2
  <2>2. after[0] = {r}
    BY <1>7, <2>1
  <2> QED
    BY <2>1, <2>2
<1>9. ASSUME NEW n \in Nat, n \in T PROVE n + 1 \in T
  <2> SUFFICES ASSUME n + 1 <= STRETCH
               PROVE  \E q \in Good[k + (n + 1)] : after[n + 1] = {q}
    OBVIOUS
  <2>1. n + 1 \in 0..STRETCH /\ n + 1 # 0 /\ (n + 1) - 1 = n /\ n <= STRETCH
        /\ k + n \in Nat /\ (k + n) + 1 = k + (n + 1)
    BY <1>2
  <2>2. PICK q \in Good[k + n] : after[n] = {q}
    BY <1>9, <2>1
  <2>3. after[n + 1] = {Round(open, end, p) : p \in {q}}
    BY <1>7, <2>1, <2>2, Zenon
  <2>5. after[n + 1] = {Round(open, end, q)}
    BY <2>3, Zenon
  <2>4. Round(open, end, q) \in Good[k + (n + 1)]
    BY <2>1, <2>2 DEF Leads
  <2> QED
    BY <2>4, <2>5
<1>10. Nat \subseteq T
  <2> HIDE DEF T
  <2> QED
    BY <1>8, <1>9, Induction
<1> QED
  BY <1>1, <1>2, <1>10

(* What holds at first and is led on by every round holds in the end.      *)
LEMMA RoundsLead ==
  ASSUME NEW open, NEW first, NEW end, NEW Good, IsFiniteSet(open),
         Unmoved(first, end) \in Good[0],
         Leads(open, end, Good)
  PROVE  \E n \in Nat : /\ n >= Cardinality(open)
                        /\ Rounds(open, first, end) \in Good[n]
<1> DEFINE most == Cardinality(open) \div STRETCH + 1
           R == UNION {Good[i] : i \in Nat}
           S == SUBSET R
           g == [X \in S |-> UNION {Stretched(open, end, q) : q \in X}]
           e == {Unmoved(first, end)}
           Is(h) == h = [k \in 0..most |->
                           IF k = 0 THEN {Unmoved(first, end)}
                           ELSE UNION {Stretched(open, end, q) : q \in h[k - 1]}]
           stretch == CHOOSE h : Is(h)
<1>1. Rounds(open, first, end) = CHOOSE r \in stretch[most] : TRUE
  BY Zenon DEF Rounds
<1>2. Cardinality(open) \in Nat
  BY FS_CardinalityType
<1>3. most \in Nat /\ most * STRETCH >= Cardinality(open)
  BY <1>2 DEF STRETCH
<1>4. e \in S
  <2>1. 0 \in Nat
    OBVIOUS
  <2> QED
    BY <2>1, Zenon
<1>5. g \in [S -> S]
  <2>1. \A q \in R : Stretched(open, end, q) \subseteq R
    <3> SUFFICES ASSUME NEW i \in Nat, NEW q \in Good[i]
                 PROVE  Stretched(open, end, q) \subseteq R
      OBVIOUS
    <3>1. PICK p \in Good[i + STRETCH] : Stretched(open, end, q) = {p}
      BY StretchLeads
    <3>2. i + STRETCH \in Nat
      BY DEF STRETCH
    <3> QED
      BY <3>1, <3>2, Zenon
  <2> HIDE DEF R
  <2> QED
    BY <2>1
<1> HIDE DEF R, most
<1>6. PICK f \in [0..most -> S] : GoesOn(f, e, g, most)
  <2> HIDE DEF S, g, e
  <2> QED
    BY <1>3, <1>4, <1>5, Recursion
<1>7. Is(f)
  <2>1. ASSUME NEW n \in 0..most, n # 0
        PROVE  g[f[n - 1]] = UNION {Stretched(open, end, q) : q \in f[n - 1]}
    <3>1. n - 1 \in 0..most
      BY <1>3, <2>1
    <3>2. f[n - 1] \in S
      BY <1>6, <3>1
    <3> HIDE DEF S
    <3> QED
      BY <3>2
  <2> HIDE DEF g, S
  <2>2. \A n \in 0..most :
          f[n] = IF n = 0 THEN e
                 ELSE UNION {Stretched(open, end, q) : q \in f[n - 1]}
    BY <1>6, <2>1 DEF GoesOn
  <2>3. f = [n \in 0..most |-> f[n]]
    BY <1>6
  <2> QED
    BY <2>2, <2>3
<1>8. Is(stretch)
  <2> HIDE DEF Is
  <2> QED
    BY <1>7, Zenon
<1>9. \A n \in 0..most :
        stretch[n] = IF n = 0 THEN {Unmoved(first, end)}
                     ELSE UNION {Stretched(open, end, q) : q \in stretch[n - 1]}
  <2> HIDE DEF stretch
  <2> QED
    BY <1>8, Zenon
<1> HIDE DEF stretch, S, g, e, Is
<1> DEFINE T == {n \in Nat : n <= most =>
                   \E q \in Good[n * STRETCH] : stretch[n] = {q}}
<1>10. 0 \in T
  <2>1. 0 * STRETCH = 0 /\ 0 \in 0..most
    BY <1>3 DEF STRETCH
  <2>2. stretch[0] = {Unmoved(first, end)}
    BY <1>9, <2>1
  <2> QED
    BY <2>1, <2>2
<1>11. ASSUME NEW n \in Nat, n \in T PROVE n + 1 \in T
  <2> SUFFICES ASSUME n + 1 <= most
               PROVE  \E q \in Good[(n + 1) * STRETCH] : stretch[n + 1] = {q}
    OBVIOUS
  <2>1. n + 1 \in 0..most /\ n + 1 # 0 /\ (n + 1) - 1 = n /\ n <= most
    BY <1>3
  <2>2. n * STRETCH \in Nat /\ n * STRETCH + STRETCH = (n + 1) * STRETCH
    BY DEF STRETCH
  <2>3. PICK q \in Good[n * STRETCH] : stretch[n] = {q}
    BY <1>11, <2>1
  <2>4. stretch[n + 1] = Stretched(open, end, q)
    <3>1. stretch[n + 1] = UNION {Stretched(open, end, p) : p \in {q}}
      BY <1>9, <2>1, <2>3, Zenon
    <3> QED
      BY <3>1, Zenon
  <2>5. \E p \in Good[n * STRETCH + STRETCH] : Stretched(open, end, q) = {p}
    BY <2>2, StretchLeads
  <2> QED
    BY <2>2, <2>4, <2>5
<1>12. Nat \subseteq T
  <2> HIDE DEF T
  <2> QED
    BY <1>10, <1>11, Induction
<1>13. PICK q \in Good[most * STRETCH] : stretch[most] = {q}
  <2>1. most \in T /\ most <= most
    BY <1>3, <1>12
  <2> QED
    BY <2>1
<1>14. Rounds(open, first, end) = q
  BY <1>1, <1>13
<1>15. most * STRETCH \in Nat
  BY <1>3 DEF STRETCH
<1> QED
  BY <1>3, <1>13, <1>14, <1>15

(* What the rounds keep: where they come from is left with all neighbours, *)
(* and until nothing is new each round reaches another cell.               *)
Searched(open, first, goal, k) ==
  {r \in [all : SUBSET open, last : SUBSET open, n : Nat, steps : Int] :
     /\ first \in r.all
     /\ \A c \in r.all \ r.last : Neighbours(open, c) \subseteq r.all
     /\ r.last \subseteq r.all
     /\ r.last = {} \/ Cardinality(r.all) > k
     /\ goal \in r.all /\ goal # first => r.steps > 0}

(* A round of the search keeps what the rounds keep.                       *)
LEMMA SearchRound ==
  ASSUME NEW open, IsFiniteSet(open), NEW first, NEW goal, NEW k \in Nat,
         NEW r \in Searched(open, first, goal, k)
  PROVE  Round(open, goal, r) \in Searched(open, first, goal, k + 1)
<1>1. /\ r \in [all : SUBSET open, last : SUBSET open, n : Nat, steps : Int]
      /\ first \in r.all /\ r.last \subseteq r.all
      /\ \A c \in r.all \ r.last : Neighbours(open, c) \subseteq r.all
      /\ r.last = {} \/ Cardinality(r.all) > k
      /\ goal \in r.all /\ goal # first => r.steps > 0
  BY DEF Searched
<1>2. CASE r.last = {}
  <2>1. Round(open, goal, r) = r
    BY <1>2, Zenon DEF Round
  <2> QED
    BY <1>1, <1>2, <2>1 DEF Searched
<1>3. CASE r.last # {}
  <2> DEFINE new == Listed((UNION {Neighbours(open, c) : c \in r.last}) \ r.all)
             q == Round(open, goal, r)
  <2>1. q = [all |-> Listed(r.all \cup new), last |-> new, n |-> r.n + 1,
             steps |-> IF goal \in new THEN r.n + 1 ELSE r.steps]
    BY <1>3, Zenon DEF Round
  <2>2. /\ \A c \in r.last : Neighbours(open, c) \subseteq r.all \cup new
        /\ new \cap r.all = {}
        /\ \A d \in new : \E c \in r.last : d \in Neighbours(open, c)
    BY DEF Listed
  <2> HIDE DEF new, q
  <2>3. \A c : Neighbours(open, c) \subseteq open
    BY DEF Neighbours, CanMove
  <2>4. /\ q.all = r.all \cup new /\ q.last = new /\ q.n = r.n + 1
        /\ q.steps = IF goal \in new THEN r.n + 1 ELSE r.steps
    BY <2>1 DEF Listed
  <2>5. q \in [all : SUBSET open, last : SUBSET open, n : Nat, steps : Int]
    <3>1. r.all \subseteq open /\ r.n \in Nat /\ r.steps \in Int
      BY <1>1
    <3>2. new \subseteq open
      BY <2>2, <2>3
    <3>3. r.all \cup new \subseteq open /\ Listed(r.all \cup new) = r.all \cup new
      BY <3>1, <3>2 DEF Listed
    <3>4. /\ (IF goal \in new THEN r.n + 1 ELSE r.steps) \in Int
          /\ r.n + 1 \in Nat
      BY <3>1
    <3>5. q = [all |-> r.all \cup new, last |-> new, n |-> r.n + 1,
               steps |-> IF goal \in new THEN r.n + 1 ELSE r.steps]
      BY <2>1, <3>3
    <3> QED
      BY <3>2, <3>3, <3>4, <3>5, Zenon
  <2>6. \A c \in q.all \ q.last : Neighbours(open, c) \subseteq q.all
    <3> SUFFICES ASSUME NEW c \in r.all PROVE Neighbours(open, c) \subseteq r.all \cup new
      BY <2>4
    <3> QED
      BY <1>1, <2>2
  <2>7. q.last = {} \/ Cardinality(q.all) > k + 1
    <3> SUFFICES ASSUME new # {} PROVE Cardinality(r.all \cup new) > k + 1
      BY <2>4
    <3>1. PICK d \in new : d \notin r.all
      BY <2>2
    <3>2. r.all \cup new \in SUBSET open /\ r.all \in SUBSET open
      BY <2>4, <2>5
    <3>3. IsFiniteSet(r.all \cup new) /\ IsFiniteSet(r.all)
      BY <3>2, FS_Subset
    <3>4. /\ Cardinality(r.all \cup {d}) = Cardinality(r.all) + 1
          /\ Cardinality(r.all) \in Nat /\ IsFiniteSet(r.all \cup {d})
      BY <3>1, <3>3, FS_AddElement, FS_CardinalityType
    <3>5. r.all \cup {d} \in SUBSET (r.all \cup new)
      BY <3>1
    <3>6. Cardinality(r.all \cup {d}) <= Cardinality(r.all \cup new)
      BY <3>3, <3>5, FS_Subset
    <3>7. Cardinality(r.all \cup new) \in Nat
      BY <3>3, FS_CardinalityType
    <3> QED
      BY <1>1, <1>3, <3>4, <3>6, <3>7
  <2>8. goal \in q.all /\ goal # first => q.steps > 0
    <3>1. r.n \in Nat
      BY <1>1
    <3> QED
      BY <1>1, <2>4, <3>1
  <2>9. first \in q.all /\ q.last \subseteq q.all
    BY <1>1, <2>4
  <2>10. q \in Searched(open, first, goal, k + 1)
    BY <2>5, <2>6, <2>7, <2>8, <2>9 DEF Searched
  <2> QED
    BY <2>10 DEF q
<1> QED
  BY <1>2, <1>3

(* The search ends with everything that can be reached, and with a way of  *)
(* some steps to the goal if that is among it.                             *)
LEMMA SearchReaches ==
  ASSUME NEW open, IsFiniteSet(open), NEW first \in open, NEW goal
  PROVE  LET r == Rounds(open, first, goal)
         IN  /\ first \in r.all /\ r.all \subseteq open /\ Walked(open, r.all)
             /\ r.steps \in Int
             /\ goal \in r.all /\ goal # first => r.steps > 0
<1> DEFINE Good == [k \in Nat |-> Searched(open, first, goal, k)]
           u == Unmoved(first, goal)
<1>1. u \in Searched(open, first, goal, 0)
  <2>1. u = [all |-> {first}, last |-> {first}, n |-> 0,
             steps |-> IF first = goal THEN 0 ELSE NoPath]
    BY Zenon DEF Unmoved
  <2>2. (IF first = goal THEN 0 ELSE NoPath) \in Int
    BY DEF NoPath
  <2>3. Cardinality({first}) = 1
    BY FS_Singleton
  <2>4. u.all = {first} /\ u.last = {first}
    BY <2>1
  <2>5. u \in [all : SUBSET open, last : SUBSET open, n : Nat, steps : Int]
    BY <2>1, <2>2
  <2> HIDE DEF u
  <2> QED
    BY <2>3, <2>4, <2>5 DEF Searched
<1>2. u \in Good[0]
  BY <1>1
<1>3. Leads(open, goal, Good)
  <2> SUFFICES ASSUME NEW i \in Nat, NEW q \in Searched(open, first, goal, i)
               PROVE  Round(open, goal, q) \in Searched(open, first, goal, i + 1)
    BY DEF Leads
  <2> QED
    BY SearchRound
<1>4. PICK n \in Nat : /\ n >= Cardinality(open)
                       /\ Rounds(open, first, goal) \in Good[n]
  <2> HIDE DEF Good
  <2> QED
    BY <1>2, <1>3, RoundsLead
<1> DEFINE r == Rounds(open, first, goal)
<1>5. r \in Searched(open, first, goal, n)
  BY <1>4
<1> HIDE DEF r
<1>6. /\ r.all \in SUBSET open /\ first \in r.all /\ r.steps \in Int
      /\ \A c \in r.all \ r.last : Neighbours(open, c) \subseteq r.all
      /\ r.last = {} \/ Cardinality(r.all) > n
      /\ goal \in r.all /\ goal # first => r.steps > 0
  BY <1>5 DEF Searched
<1>7. r.last = {}
  <2>1. Cardinality(r.all) <= Cardinality(open)
    BY <1>6, FS_Subset
  <2>2. Cardinality(r.all) \in Nat /\ Cardinality(open) \in Nat
    BY <1>6, FS_Subset, FS_CardinalityType
  <2> QED
    BY <1>4, <1>6, <2>1, <2>2
<1>8. Walked(open, r.all)
  BY <1>6, <1>7 DEF Walked
<1> QED
  BY <1>6, <1>8 DEF r

-----------------------------------------------------------------------------
(* The dug grid                                                            *)

(* Between the cells of two rooms in a row there is a wall.                *)
LEMMA RoomsApart ==
  ASSUME config \in Configs, NEW a \in 0..RoomDim-1, NEW b \in 0..RoomDim-1,
         NEW x \in Low(b)..High(b)
  PROVE  /\ x \in Low(a)..High(a) => a = b
         /\ x # High(a) + 1
<1>1. /\ a * Stride \in Nat /\ b * Stride \in Nat
      /\ a < b => a * Stride + Stride <= b * Stride
      /\ b < a => b * Stride + Stride <= a * Stride
  BY Strides
<1>2. /\ Low(a) = a * Stride + 1 /\ High(a) = a * Stride + RoomSize
      /\ Low(b) = b * Stride + 1 /\ High(b) = b * Stride + RoomSize
  BY DEF Low, High
<1>3. RoomSize \in Nat /\ Stride = RoomSize + 1 /\ a \in Int /\ b \in Int
  BY Lengths
<1> DEFINE A == a * Stride
           B == b * Stride
<1>4. /\ A \in Nat /\ B \in Nat
      /\ a < b => A + RoomSize + 1 <= B
      /\ b < a => B + RoomSize + 1 <= A
      /\ Low(a) = A + 1 /\ High(a) = A + RoomSize
      /\ Low(b) = B + 1 /\ High(b) = B + RoomSize
      /\ a = b => A = B
  BY <1>1, <1>2, <1>3
<1> HIDE DEF A, B
<1>5. x \in Int /\ B + 1 <= x /\ x <= B + RoomSize
  BY <1>3, <1>4
<1> QED
  BY <1>3, <1>4, <1>5

(* Different rooms share no cells, and gaps lie in no room.                *)
LEMMA CellsApart ==
  ASSUME config \in Configs, NEW r \in Rooms, NEW s \in Rooms, NEW c \in RoomCells(s)
  PROVE  /\ c \in RoomCells(r) => r = s
         /\ c \notin RightGap(r) /\ c \notin UpperGap(r)
<1>1. /\ r[1] \in 0..RoomDim-1 /\ r[2] \in 0..RoomDim-1 /\ r = <<r[1], r[2]>>
      /\ s[1] \in 0..RoomDim-1 /\ s[2] \in 0..RoomDim-1 /\ s = <<s[1], s[2]>>
  BY RoomFacts
<1>2. c[1] \in Low(s[1])..High(s[1]) /\ c[2] \in Low(s[2])..High(s[2])
  BY PlacesAre DEF Across, Along
<1>3. /\ c[1] \in Low(r[1])..High(r[1]) => r[1] = s[1]
      /\ c[2] \in Low(r[2])..High(r[2]) => r[2] = s[2]
      /\ c[1] # High(r[1]) + 1 /\ c[2] # High(r[2]) + 1
  BY <1>1, <1>2, RoomsApart
<1>4. /\ c \in RoomCells(r) => c[1] \in Low(r[1])..High(r[1])
                               /\ c[2] \in Low(r[2])..High(r[2])
      /\ c \in RightGap(r) => c[1] = High(r[1]) + 1
      /\ c \in UpperGap(r) => c[2] = High(r[2]) + 1
  <2>1. /\ RoomCells(r) = (Low(r[1])..High(r[1])) \X (Low(r[2])..High(r[2]))
        /\ RightGap(r) = {High(r[1]) + 1} \X Along(r)
        /\ UpperGap(r) = Across(r) \X {High(r[2]) + 1}
    BY PlacesAre DEF Across, Along
  <2> QED
    BY <2>1
<1> QED
  BY <1>1, <1>3, <1>4

(* Within the border.                                                      *)
Inside(c) == c \in Cells /\ c[1] \in 1..OutDim-2 /\ c[2] \in 1..OutDim-2

(* Coordinates within the border are those of a cell.                      *)
LEMMA InsideCells ==
  ASSUME config \in Configs, NEW x \in 1..OutDim-2, NEW y \in 1..OutDim-2
  PROVE  Inside(<<x, y>>)
<1>1. x \in 0..OutDim-1 /\ y \in 0..OutDim-1
  BY Lengths
<1> QED
  BY <1>1 DEF Inside, Cells

(* Rooms and the gaps between them lie within the border.                  *)
LEMMA RoomsInside ==
  ASSUME config \in Configs, NEW r \in Rooms
  PROVE  /\ \A c \in RoomCells(r) : Inside(c)
         /\ Right(r) \in Rooms => \A c \in RightGap(r) : Inside(c)
         /\ Upper(r) \in Rooms => \A c \in UpperGap(r) : Inside(c)
<1>1. r[1] \in 0..RoomDim-1 /\ r[2] \in 0..RoomDim-1
  BY RoomFacts
<1>2. Across(r) \subseteq 1..OutDim-2 /\ Along(r) \subseteq 1..OutDim-2
  <2>1. \A a \in 0..RoomDim-1 :
          /\ Low(a) \in Int /\ High(a) \in Int
          /\ 1 <= Low(a) /\ Low(a) <= High(a) /\ High(a) <= OutDim - 2
    BY LowHigh
  <2>2. OutDim \in Int
    BY Lengths
  <2> QED
    BY <1>1, <2>1, <2>2 DEF Across, Along
<1>3. \A c \in RoomCells(r) : Inside(c)
  <2> SUFFICES ASSUME NEW x \in Across(r), NEW y \in Along(r) PROVE Inside(<<x, y>>)
    BY PlacesAre
  <2> QED
    BY <1>2, InsideCells
<1>4. ASSUME NEW a \in 0..RoomDim-1, a + 1 \in 0..RoomDim-1
      PROVE  High(a) + 1 \in 1..OutDim-2
  <2>1. /\ Low(a) \in Int /\ High(a) \in Int /\ 1 <= Low(a) /\ Low(a) <= High(a)
        /\ Low(a + 1) = High(a) + 2
        /\ Low(a + 1) <= High(a + 1) /\ High(a + 1) <= OutDim - 2
        /\ High(a + 1) \in Int
    BY <1>4, LowHigh
  <2> QED
    BY <2>1, Lengths
<1>5. ASSUME Right(r) \in Rooms PROVE \A c \in RightGap(r) : Inside(c)
  <2>1. High(r[1]) + 1 \in 1..OutDim-2
    <3>1. r[1] + 1 \in 0..RoomDim-1
      BY <1>5, RoomFacts DEF Right
    <3> QED
      BY <1>1, <1>4, <3>1
  <2> SUFFICES ASSUME NEW y \in Along(r) PROVE Inside(<<High(r[1]) + 1, y>>)
    BY PlacesAre
  <2> QED
    BY <1>2, <2>1, InsideCells
<1>6. ASSUME Upper(r) \in Rooms PROVE \A c \in UpperGap(r) : Inside(c)
  <2>1. High(r[2]) + 1 \in 1..OutDim-2
    <3>1. r[2] + 1 \in 0..RoomDim-1
      BY <1>6, RoomFacts DEF Upper
    <3> QED
      BY <1>1, <1>4, <3>1
  <2> SUFFICES ASSUME NEW x \in Across(r) PROVE Inside(<<x, High(r[2]) + 1>>)
    BY PlacesAre
  <2> QED
    BY <1>2, <2>1, InsideCells
<1> QED
  BY <1>3, <1>5, <1>6

(* What is dug: the rooms and the gaps between them where no wall is left. *)
DugGap(c, r, s, gap) == s \in Rooms /\ {r, s} \notin walls /\ c \in gap

(* What edges_to_blocked_grid leaves open, and that it is within the       *)
(* border.                                                                 *)
LEMMA OpenCells ==
  ASSUME config \in Configs
  PROVE  LET open == Cells \ DugFrom(walls)
         IN  /\ \A r \in Rooms : /\ RoomCells(r) \subseteq open
                                 /\ Joined(open, r, Right(r), RightGap(r))
                                 /\ Joined(open, r, Upper(r), UpperGap(r))
             /\ \A c \in open : \E r \in Rooms :
                  \/ c \in RoomCells(r)
                  \/ DugGap(c, r, Right(r), RightGap(r))
                  \/ DugGap(c, r, Upper(r), UpperGap(r))
             /\ \A c \in open : Inside(c)
<1> DEFINE open == Cells \ DugFrom(walls)
           Q == {q \in Rooms : Right(q) \in Rooms /\ {q, Right(q)} \notin walls}
           P == {q \in Rooms : Upper(q) \in Rooms /\ {q, Upper(q)} \notin walls}
           D == UNION {RoomCells(r) : r \in Rooms}
           E == UNION {RightGap(r) : r \in Q}
           F == UNION {UpperGap(r) : r \in P}
<1>1. DugFrom(walls) = Cells \ ((D \cup E) \cup F)
  BY Zenon DEF DugFrom, Right, Upper
<1>2. /\ \A c \in D : \E r \in Rooms : c \in RoomCells(r)
      /\ \A c \in E : \E r \in Rooms : DugGap(c, r, Right(r), RightGap(r))
      /\ \A c \in F : \E r \in Rooms : DugGap(c, r, Upper(r), UpperGap(r))
  BY DEF DugGap
<1>3. \A c \in (D \cup E) \cup F : Inside(c)
  <2>1. \A c \in D : Inside(c)
    BY <1>2, RoomsInside
  <2>2. \A c \in E : Inside(c)
    BY <1>2, RoomsInside DEF DugGap
  <2>3. \A c \in F : Inside(c)
    BY <1>2, RoomsInside DEF DugGap
  <2> HIDE DEF D, E, F
  <2> QED
    BY <2>1, <2>2, <2>3
<1>4. /\ \A r \in Rooms : RoomCells(r) \subseteq D
      /\ \A r \in Q : RightGap(r) \subseteq E
      /\ \A r \in P : UpperGap(r) \subseteq F
  OBVIOUS
<1> HIDE DEF D, E, F
<1>5. open = (D \cup E) \cup F
  <2>1. (D \cup E) \cup F \subseteq Cells
    BY <1>3 DEF Inside
  <2> QED
    BY <1>1, <2>1
<1> HIDE DEF open
<1>6. \A r \in Rooms : RoomCells(r) \subseteq open
  BY <1>4, <1>5
<1>7. \A r \in Rooms : Joined(open, r, Right(r), RightGap(r))
  BY <1>4, <1>5 DEF Joined
<1>8. \A r \in Rooms : Joined(open, r, Upper(r), UpperGap(r))
  BY <1>4, <1>5 DEF Joined
<1>9. \A c \in open : \E r \in Rooms : \/ c \in RoomCells(r)
                                       \/ DugGap(c, r, Right(r), RightGap(r))
                                       \/ DugGap(c, r, Upper(r), UpperGap(r))
  BY <1>2, <1>5
<1>10. \A c \in open : Inside(c)
  BY <1>3, <1>5
<1> QED
  BY <1>6, <1>7, <1>8, <1>9, <1>10 DEF open

(* The middle of a room, and in a large one the cells around it.           *)
LEMMA CentreFacts ==
  ASSUME config \in Configs, NEW r \in Rooms
  PROVE  /\ Centre(r) \in RoomCells(r)
         /\ RoomSize >= 3 => ClearSquare(Centre(r)) \subseteq RoomCells(r)
<1> DEFINE h == RoomSize \div 2
<1>1. /\ h \in 0..RoomSize-1 /\ h \in Int
      /\ RoomSize >= 3 => h >= 1 /\ h + 1 <= RoomSize - 1
      /\ RoomSize \in Nat /\ RoomSize >= 1
  BY Lengths
<1> DEFINE A == r[1] * Stride
           B == r[2] * Stride
<1>2. A \in Nat /\ B \in Nat
  BY RoomFacts, Strides
<1>3. Centre(r) = <<A + 1 + h, B + 1 + h>>
  BY DEF Centre
<1>4. \A x, y \in Int :
        <<x, y>> \in RoomCells(r) <=> /\ A + 1 <= x /\ x <= A + RoomSize
                                      /\ B + 1 <= y /\ y <= B + RoomSize
  BY RoomCellsFacts
<1> HIDE DEF A, B, h
<1>5. Centre(r) \in RoomCells(r)
  <2>1. A + 1 + h \in Int /\ B + 1 + h \in Int
    BY <1>1, <1>2
  <2>2. /\ A + 1 <= A + 1 + h /\ A + 1 + h <= A + RoomSize
        /\ B + 1 <= B + 1 + h /\ B + 1 + h <= B + RoomSize
    BY <1>1, <1>2
  <2> QED
    BY <1>3, <1>4, <2>1, <2>2
<1>6. ASSUME RoomSize >= 3, NEW c \in ClearSquare(Centre(r))
      PROVE  c \in RoomCells(r)
  <2>1. c \in Cells /\ Near(c, <<A + 1 + h, B + 1 + h>>, 1)
    BY <1>3 DEF ClearSquare
  <2>2. c = <<c[1], c[2]>> /\ c[1] \in Int /\ c[2] \in Int
    BY <2>1, Lengths DEF Cells
  <2>3. c[1] - (A + 1 + h) \in -1..1 /\ c[2] - (B + 1 + h) \in -1..1
    BY <2>1 DEF Near
  <2>4. /\ A + 1 <= c[1] /\ c[1] <= A + RoomSize
        /\ B + 1 <= c[2] /\ c[2] <= B + RoomSize
    BY <1>1, <1>2, <1>6, <2>2, <2>3
  <2> QED
    BY <1>4, <2>2, <2>4
<1> QED
  BY <1>5, <1>6

-----------------------------------------------------------------------------
(* What is dug hangs together                                              *)

(* The cells of the grid are finitely many.                                *)
LEMMA CellsFinite ==
  ASSUME config \in Configs
  PROVE  IsFiniteSet(Cells)
<1>1. 0 \in Int /\ OutDim - 1 \in Int
  BY Lengths
<1>2. IsFiniteSet(0..OutDim-1)
  BY <1>1, FS_Interval
<1> QED
  BY <1>2, FS_Product DEF Cells

(* A rim has cells, and they are cells of its room.                        *)
LEMMA RimFacts ==
  ASSUME config \in Configs, NEW r \in Rooms
  PROVE  Rim(r) \subseteq RoomCells(r) /\ Rim(r) # {}
<1>1. <<Low(r[1]), Low(r[2])>> \in RoomCells(r)
  BY PlacesAre, RoomBounds
<1> QED
  BY <1>1 DEF Rim

(* A walk from the middle of a room with all its cells open gets to every  *)
(* rim and gap, and so to the middle of every other such room.             *)
LEMMA AllWalked ==
  ASSUME config \in Configs, Linked(Opened, Rooms),
         NEW open, NEW X, Walked(open, X), Passable(open),
         NEW r \in Rooms, RoomCells(r) \subseteq open, Centre(r) \in X
  PROVE  /\ \A s \in Rooms : /\ Joined(X, s, Right(s), RightGap(s))
                             /\ Joined(X, s, Upper(s), UpperGap(s))
         /\ \A s \in Rooms : RoomCells(s) \subseteq open => RoomCells(s) \subseteq X
<1>1. RoomCells(r) \cap X # {}
  BY CentreFacts
<1>2. RoomCells(r) \subseteq X
  BY <1>1, RoomWalked
<1>3. Rim(r) \cap X # {}
  BY <1>2, RimFacts
<1>4. \A s \in Rooms : /\ Rim(s) \subseteq X
                       /\ Joined(X, s, Right(s), RightGap(s))
                       /\ Joined(X, s, Upper(s), UpperGap(s))
  BY <1>3, RoomsHang
<1>5. ASSUME NEW s \in Rooms, RoomCells(s) \subseteq open
      PROVE  RoomCells(s) \subseteq X
  <2>1. RoomCells(s) \cap X # {}
    BY <1>4, RimFacts
  <2> QED
    BY <1>5, <2>1, RoomWalked
<1> QED
  BY <1>4, <1>5

(* From the middle of any room every dug cell is reached.                  *)
LEMMA DugIsReached ==
  ASSUME config \in Configs, Linked(Opened, Rooms), NEW r \in Rooms
  PROVE  LET open == Cells \ DugFrom(walls)
         IN  Reachable(open, Centre(r)) = open
<1> DEFINE open == Cells \ DugFrom(walls)
           X == Reachable(open, Centre(r))
<1>1. /\ \A s \in Rooms : /\ RoomCells(s) \subseteq open
                          /\ Joined(open, s, Right(s), RightGap(s))
                          /\ Joined(open, s, Upper(s), UpperGap(s))
      /\ \A c \in open : \E s \in Rooms :
           \/ c \in RoomCells(s)
           \/ DugGap(c, s, Right(s), RightGap(s))
           \/ DugGap(c, s, Upper(s), UpperGap(s))
  BY OpenCells, Zenon
<1>2. IsFiniteSet(open)
  <2>1. open \in SUBSET Cells
    OBVIOUS
  <2> HIDE DEF open
  <2> QED
    BY <2>1, CellsFinite, FS_Subset
<1> HIDE DEF open
<1>3. Centre(r) \in open
  BY <1>1, CentreFacts
<1>4. Centre(r) \in X /\ X \subseteq open /\ Walked(open, X)
  BY <1>2, <1>3, SearchReaches, Zenon DEF Reachable
<1> HIDE DEF X
<1>5. Passable(open)
  BY <1>1, RimFacts DEF Passable
<1>6. /\ \A s \in Rooms : /\ Joined(X, s, Right(s), RightGap(s))
                          /\ Joined(X, s, Upper(s), UpperGap(s))
      /\ \A s \in Rooms : RoomCells(s) \subseteq X
  BY <1>1, <1>4, <1>5, AllWalked
<1>7. open \subseteq X
  BY <1>1, <1>6 DEF Joined, DugGap
<1>8. X = open
  BY <1>4, <1>7
<1> QED
  BY <1>8 DEF X, open

(* The border is never dug.                                                *)
LEMMA BorderIsDug ==
  ASSUME config \in Configs, NEW n \in 0..OutDim-1
  PROVE  /\ BorderOf(n) \subseteq DugFrom(walls)
         /\ \A c \in BorderOf(n) : ~Inside(c)
<1>1. OutDim \in Nat /\ OutDim >= 5
  BY Lengths
<1>2. /\ BorderOf(n) = {<<0, n>>, <<OutDim - 1, n>>, <<n, 0>>, <<n, OutDim - 1>>}
      /\ 0 \in 0..OutDim-1 /\ OutDim - 1 \in 0..OutDim-1
  BY <1>1 DEF BorderOf
<1>3. BorderOf(n) \subseteq Cells
  BY <1>2 DEF Cells
<1>4. \A c \in BorderOf(n) : ~Inside(c)
  <2>1. 0 \notin 1..OutDim-2 /\ OutDim - 1 \notin 1..OutDim-2
    BY <1>1
  <2>2. \A c \in BorderOf(n) : c[1] \in {0, OutDim - 1} \/ c[2] \in {0, OutDim - 1}
    BY <1>2
  <2> QED
    BY <2>1, <2>2 DEF Inside
<1>5. \A c \in Cells \ DugFrom(walls) : Inside(c)
  BY OpenCells, Zenon
<1> QED
  BY <1>3, <1>4, <1>5

-----------------------------------------------------------------------------
(* The making of the grid                                                  *)

Clear == ClearSquare(Centre(ends.start)) \cup ClearSquare(Centre(ends.goal))

(* What the cells of a map stand for, once there are any.                  *)
MadeInv ==
  /\ stage \in Made => ends \in EndPairs
  /\ stage = "Furnish" => blocked = DugFrom(walls)
  /\ stage \in {"Search", "Done"} =>
       \E pillars \in Pillars : blocked = (DugFrom(walls) \cup pillars) \ Clear

(* Pillars and cleared squares depend on the configuration and the ends.   *)
LEMMA SameMade ==
  ASSUME config' = config, walls' = walls, ends' = ends
  PROVE  /\ EndPairs' = EndPairs /\ DugFrom(walls)' = DugFrom(walls)
         /\ Pillars' = Pillars /\ Clear' = Clear
<1>1. EndPairs' = EndPairs /\ DugFrom(walls)' = DugFrom(walls) /\ Rooms' = Rooms
      /\ RoomSize' = RoomSize /\ Cells' = Cells
  BY Same
<1>2. Stride' = Stride
  BY <1>1 DEF Stride
<1>3. Pillars' = Pillars
  BY <1>1, <1>2 DEF Pillars, PillarPlaces, FewOf, Near
<1>4. Clear' = Clear
  BY <1>1, <1>2 DEF Clear, ClearSquare, Centre, Near
<1> QED
  BY <1>1, <1>3, <1>4

(* Furnish is the only step between the dug grid and the searched one.     *)
LEMMA MadeStep == ShapeInv /\ MadeInv /\ [Next]_vars => MadeInv'
<1> SUFFICES ASSUME ShapeInv, MadeInv, [Next]_vars PROVE MadeInv'
  OBVIOUS
<1>1. CASE CarveOn \/ CarveBack
  <2>1. stage' \in {"Carve", "Open"}
    BY <1>1 DEF CarveOn, CarveBack
  <2> QED
    BY <2>1 DEF MadeInv, Made
<1>2. CASE OpenExtra
  <2>1. stage' = "Ends"
    BY <1>2 DEF OpenExtra
  <2> QED
    BY <2>1 DEF MadeInv, Made
<1>3. CASE Dig
  <2>1. /\ stage' = "Furnish" /\ ends' \in EndPairs /\ config' = config
        /\ blocked' = DugFrom(walls')
    BY <1>3 DEF Dig
  <2>2. EndPairs' = EndPairs /\ DugFrom(walls)' = DugFrom(walls')
    BY <2>1, Same
  <2> QED
    BY <2>1, <2>2 DEF MadeInv
<1>4. CASE Furnish
  <2>1. PICK pillars \in Pillars : blocked' = (blocked \cup pillars) \ Clear
    BY <1>4 DEF Furnish, Clear
  <2>2. /\ stage = "Furnish" /\ stage' = "Search"
        /\ config' = config /\ walls' = walls /\ ends' = ends
    BY <1>4 DEF Furnish
  <2>3. ends \in EndPairs /\ blocked = DugFrom(walls)
    BY <2>2 DEF MadeInv, Made
  <2> QED
    BY <2>1, <2>2, <2>3, SameMade DEF MadeInv
<1>5. CASE Accept
  <2>1. /\ stage = "Search" /\ stage' = "Done"
        /\ UNCHANGED <<config, walls, ends, blocked>>
    BY <1>5 DEF Accept
  <2> QED
    BY <2>1, SameMade DEF MadeInv, Made
<1>6. CASE Retry
  <2>1. stage' \in {"Carve", "Failed"}
    BY <1>6 DEF Retry
  <2> QED
    BY <2>1 DEF MadeInv, Made
<1>7. CASE UNCHANGED vars
  <2>1. UNCHANGED <<stage, config, walls, ends, blocked>>
    BY <1>7 DEF vars
  <2> QED
    BY <2>1, SameMade DEF MadeInv, Made
<1> QED
  BY <1>1, <1>2, <1>3, <1>4, <1>5, <1>6, <1>7
  DEF Next, Unreachable, EndsTooClose, Returned

-----------------------------------------------------------------------------
(* What is furnished                                                       *)

(* In large rooms pillars keep off the rims.                               *)
LEMMA PillarsOffRims ==
  ASSUME config \in Configs, RoomSize >= 3, NEW r \in Rooms, NEW c \in PillarPlaces(r)
  PROVE  c \notin Rim(r)
<1> DEFINE A == r[1] * Stride
           B == r[2] * Stride
<1>1. A \in Nat /\ B \in Nat
  BY RoomFacts, Strides
<1>2. /\ Low(r[1]) = A + 1 /\ High(r[1]) = A + RoomSize
      /\ Low(r[2]) = B + 1 /\ High(r[2]) = B + RoomSize
  BY DEF Low, High
<1>3. PillarPlaces(r) = {<<A + 1 + dx, B + 1 + dy>> :
                           dx \in 1..RoomSize-2, dy \in 1..RoomSize-2}
  BY DEF PillarPlaces
<1> HIDE DEF A, B
<1>4. PICK dx \in 1..RoomSize-2, dy \in 1..RoomSize-2 : c = <<A + 1 + dx, B + 1 + dy>>
  BY <1>3
<1>5. RoomSize \in Nat
  BY Lengths
<1>6. /\ A + 1 + dx # A + 1 /\ A + 1 + dx # A + RoomSize
      /\ B + 1 + dy # B + 1 /\ B + 1 + dy # B + RoomSize
  BY <1>1, <1>5
<1>7. c[1] = A + 1 + dx /\ c[2] = B + 1 + dy
  BY <1>4
<1> QED
  BY <1>2, <1>6, <1>7 DEF Rim

(* Where pillars keep off the rims all ways between rooms stay open, and   *)
(* there are none in the rooms of start and goal.                          *)
LEMMA FurnishedIsPassable ==
  ASSUME config \in Configs, RoomSize >= 3 \/ ~config.obstacles,
         ends \in [start : Rooms, goal : Rooms],
         NEW pillars \in Pillars,
         blocked = (DugFrom(walls) \cup pillars) \ Clear
  PROVE  /\ Passable(Cells \ blocked)
         /\ RoomCells(ends.start) \subseteq Cells \ blocked
         /\ RoomCells(ends.goal) \subseteq Cells \ blocked
<1> DEFINE dug == Cells \ DugFrom(walls)
           open == Cells \ blocked
<1>1. \A r \in Rooms : /\ RoomCells(r) \subseteq dug
                       /\ Joined(dug, r, Right(r), RightGap(r))
                       /\ Joined(dug, r, Upper(r), UpperGap(r))
  BY OpenCells, Zenon
<1>2. \A c \in dug : c \notin pillars => c \in open
  OBVIOUS
<1>3. ASSUME NEW c \in pillars
      PROVE  \E r \in Rooms : /\ ~Near(r, ends.start, 1) /\ ~Near(r, ends.goal, 1)
                              /\ c \in RoomCells(r) /\ c \notin Rim(r)
  <2>1. PICK r \in Rooms : /\ ~Near(r, ends.start, 1) /\ ~Near(r, ends.goal, 1)
                           /\ c \in PillarPlaces(r) /\ c \in RoomCells(r)
                           /\ config.obstacles
    BY PillarFacts
  <2>2. c \notin Rim(r)
    BY <2>1, PillarsOffRims
  <2> QED
    BY <2>1, <2>2
<1> HIDE DEF dug, open
<1>4. ASSUME NEW r \in Rooms PROVE Rim(r) \subseteq open
  <2>1. \A c \in Rim(r) : c \notin pillars
    BY <1>3, RimFacts, CellsApart
  <2> QED
    BY <1>1, <1>2, <2>1, RimFacts
<1>5. ASSUME NEW r \in Rooms
      PROVE  /\ Joined(open, r, Right(r), RightGap(r))
             /\ Joined(open, r, Upper(r), UpperGap(r))
  <2>1. /\ \A c \in RightGap(r) : c \notin pillars
        /\ \A c \in UpperGap(r) : c \notin pillars
    BY <1>3, CellsApart
  <2> QED
    BY <1>1, <1>2, <2>1 DEF Joined
<1>6. ASSUME NEW r \in {ends.start, ends.goal} PROVE RoomCells(r) \subseteq open
  <2>1. r \in Rooms
    OBVIOUS
  <2>2. Near(r, r, 1)
    <3>1. r[1] \in Int /\ r[2] \in Int
      BY <2>1, RoomFacts, Lengths
    <3> QED
      BY <3>1 DEF Near
  <2>3. \A c \in RoomCells(r) : c \notin pillars
    BY <1>3, <2>1, <2>2, CellsApart
  <2> QED
    BY <1>1, <1>2, <2>1, <2>3
<1>7. Passable(open)
  BY <1>4, <1>5 DEF Passable
<1> QED
  BY <1>6, <1>7 DEF open

(* So there is a way from start to goal.                                   *)
LEMMA FurnishedHasWay ==
  ASSUME config \in Configs, RoomSize >= 3 \/ ~config.obstacles,
         ends \in [start : Rooms, goal : Rooms], ends.start # ends.goal,
         Linked(Opened, Rooms), NEW pillars \in Pillars,
         blocked = (DugFrom(walls) \cup pillars) \ Clear
  PROVE  ~(PathLength <= 0)
<1> DEFINE open == Cells \ blocked
           first == Centre(ends.start)
           goal == Centre(ends.goal)
           r == Rounds(open, first, goal)
           X == r.all
<1>1. ends.start \in Rooms /\ ends.goal \in Rooms
  OBVIOUS
<1>2. /\ Passable(open) /\ RoomCells(ends.start) \subseteq open
      /\ RoomCells(ends.goal) \subseteq open
  BY FurnishedIsPassable
<1>3. IsFiniteSet(open)
  <2>1. open \in SUBSET Cells
    OBVIOUS
  <2> HIDE DEF open
  <2> QED
    BY <2>1, CellsFinite, FS_Subset
<1>4. first \in RoomCells(ends.start) /\ goal \in RoomCells(ends.goal)
  BY <1>1, CentreFacts
<1>5. first \in open /\ goal \in open
  BY <1>2, <1>4
<1>6. first # goal
  BY <1>1, <1>4, CellsApart
<1>7. PathLength = r.steps
  <2>1. PathLength = ShortestSteps(open, first, goal)
    BY DEF PathLength
  <2>2. {first, goal} \subseteq open
    BY <1>5
  <2> HIDE DEF open, first, goal
  <2> QED
    BY <2>1, <2>2, Zenon DEF ShortestSteps
<1> HIDE DEF open
<1>8. /\ first \in X /\ Walked(open, X)
      /\ r.steps \in Int
      /\ goal \in X /\ goal # first => r.steps > 0
  <2> HIDE DEF first, goal
  <2> QED
    BY <1>3, <1>5, SearchReaches, Zenon
<1> HIDE DEF X, r, goal
<1>9. RoomCells(ends.goal) \subseteq X
  BY <1>1, <1>2, <1>8, AllWalked
<1> QED
  BY <1>4, <1>6, <1>7, <1>8, <1>9

-----------------------------------------------------------------------------
(* The theorems                                                            *)

(* What the properties are proved from.                                    *)
IInv == ShapeInv /\ CarveInv /\ MadeInv

(* What generate_reachable_map starts with.                                *)
LEMMA InitIInv == Init => IInv
<1> SUFFICES ASSUME Init PROVE IInv
  OBVIOUS
<1>1. /\ config \in Configs /\ attempt = 0 /\ stage = "Carve"
      /\ walls = AllWalls /\ visited = {<<0, 0>>} /\ stack = << <<0, 0>> >>
      /\ ends = NoEnds /\ blocked = {}
  BY DEF Init, Draw
<1>2. <<0, 0>> \in Rooms /\ NoEnds \in [start : Rooms, goal : Rooms]
  BY <1>1, RoomFacts, EndsAreRooms
<1>3. /\ stack \in Seq(Rooms) /\ Len(stack) > 0
      /\ \A i \in DOMAIN stack : stack[i] \in Rooms
  BY <1>1, <1>2
<1>4. attempt \in 0..MAX_RETRY-1
  BY <1>1, GeneratorAssumption
<1>5. ShapeInv
  BY <1>1, <1>2, <1>3, <1>4 DEF ShapeInv, TypeOK
<1>6. CarveInv
  BY <1>1, DrawnIsCarved DEF CarveInv, Made
<1>7. MadeInv
  BY <1>1 DEF MadeInv, Made
<1> QED
  BY <1>5, <1>6, <1>7 DEF IInv

(* What the properties are proved from holds throughout a generation,      *)
(* whatever the lengths, the draws and the retries.                        *)
THEOREM Invariance == Spec => []IInv
<1>1. IInv /\ [Next]_vars => IInv'
  BY ShapeStep, CarveStep, MadeStep DEF IInv
<1> QED
  BY InitIInv, <1>1, PTL DEF Spec

(* Furnished maps of large rooms keep their border: neither pillars nor    *)
(* the squares cleared around start and goal touch it.                     *)
LEMMA BorderHolds == IInv => BorderClosed
<1> SUFFICES ASSUME IInv, stage = "Search", RoomSize >= 3, NEW n \in 0..OutDim-1
             PROVE  BorderOf(n) \subseteq blocked
  BY DEF BorderClosed
<1>1. config \in Configs /\ ends \in [start : Rooms, goal : Rooms]
  BY DEF IInv, ShapeInv, TypeOK
<1>2. PICK pillars \in Pillars : blocked = (DugFrom(walls) \cup pillars) \ Clear
  BY DEF IInv, MadeInv
<1>3. \A c \in Clear : Inside(c)
  <2>1. ends.start \in Rooms /\ ends.goal \in Rooms
    BY <1>1
  <2>2. \A r \in Rooms : \A c \in ClearSquare(Centre(r)) : Inside(c)
    BY <1>1, CentreFacts, RoomsInside
  <2> QED
    BY <2>1, <2>2 DEF Clear
<1>4. BorderOf(n) \subseteq DugFrom(walls) /\ \A c \in BorderOf(n) : ~Inside(c)
  BY <1>1, BorderIsDug
<1> QED
  BY <1>2, <1>3, <1>4

(* The dug grid is in one piece and its border is closed.                  *)
LEMMA OnePieceHolds == IInv => DugInOnePiece
<1> SUFFICES ASSUME IInv, stage = "Furnish"
             PROVE  LET open == Cells \ blocked
                    IN  /\ Reachable(open, Centre(ends.start)) = open
                        /\ \A n \in 0..OutDim-1 : BorderOf(n) \subseteq blocked
  BY DEF DugInOnePiece
<1>1. config \in Configs /\ ends.start \in Rooms
  BY DEF IInv, ShapeInv, TypeOK
<1>2. blocked = DugFrom(walls) /\ Linked(Opened, Rooms)
  BY DEF IInv, MadeInv, CarveInv, Made
<1>3. \A n \in 0..OutDim-1 : BorderOf(n) \subseteq blocked
  BY <1>1, <1>2, BorderIsDug
<1>4. Reachable(Cells \ blocked, Centre(ends.start)) = Cells \ blocked
  BY <1>1, <1>2, DugIsReached, Zenon
<1> QED
  BY <1>3, <1>4

(* Whatever is drawn, the maze that is carved is perfect, what is dug      *)
(* hangs together, the border is closed, the segments are the blocked      *)
(* cells and fixed ends are the nearest rooms.                             *)
THEOREM MapsSound == Spec => []MapSound
<1>1. IInv => SegmentsExact
  <2> SUFFICES ASSUME IInv PROVE SegmentsExact
    OBVIOUS
  <2>1. CellPairs
    BY DEF IInv, ShapeInv, TypeOK, CellPairs
  <2> QED
    BY <2>1, SegmentsHold DEF SegmentsExact
<1>2. IInv => FixedEndsNearest
  <2> SUFFICES ASSUME IInv, Mode = "fixed", stage = "Furnish" PROVE FixedEndsNearest
    BY DEF FixedEndsNearest
  <2>1. config \in Configs /\ ends \in EndPairs
    BY DEF IInv, ShapeInv, TypeOK, MadeInv, Made
  <2> QED
    BY <2>1, FixedEndsHold, Zenon DEF FixedEndsNearest
<1>3. IInv => TypeOK /\ PerfectMaze
  BY MazeIsPerfect DEF IInv, ShapeInv
<1>4. IInv => MapSound
  BY <1>1, <1>2, <1>3, OnePieceHolds, BorderHolds DEF MapSound
<1> QED
  BY Invariance, <1>4, PTL

(* The pass of blocked_to_wall_segments over the rows is idle: the columns *)
(* already hold every blocked cell, a single one being a column of its own. *)
THEOREM RowsAreIdle == Spec => [](Rows = {})
<1>1. IInv => Rows = {}
  <2> SUFFICES ASSUME IInv PROVE Rows = {}
    OBVIOUS
  <2>1. CellPairs
    BY DEF IInv, ShapeInv, TypeOK, CellPairs
  <2> QED
    BY <2>1, SegmentsHold
<1> QED
  BY Invariance, <1>1, PTL

(* A map of large rooms or without pillars is accepted at its first        *)
(* attempt, when start and goal are in different rooms.                    *)
THEOREM RoomyMapsReached == Spec => RoomyMapsReachable
<1> DEFINE Roomy == /\ stage = "Search" /\ ends.start # ends.goal
                    /\ RoomSize >= 3 \/ ~config.obstacles
<1>1. IInv /\ [Next]_vars => [Roomy => stage' = "Done"]_vars
  <2> SUFFICES ASSUME IInv, Next, Roomy PROVE stage' = "Done"
    OBVIOUS
  <2>1. /\ config \in Configs /\ ends \in [start : Rooms, goal : Rooms]
        /\ Linked(Opened, Rooms)
    BY DEF IInv, ShapeInv, TypeOK, CarveInv, Made
  <2>2. PICK pillars \in Pillars : blocked = (DugFrom(walls) \cup pillars) \ Clear
    BY DEF IInv, MadeInv
  <2>3. ~(PathLength <= 0)
    BY <2>1, <2>2, FurnishedHasWay
  <2> QED
    BY <2>3 DEF Next, CarveOn, CarveBack, OpenExtra, Dig, Furnish, Accept,
                Unreachable, EndsTooClose, Returned
<1> QED
  BY Invariance, <1>1, PTL DEF Spec, RoomyMapsReachable

-----------------------------------------------------------------------------
(* What the client reads back                                              *)

(* Rounding moves a fraction by at most a half.                            *)
LEMMA RoundedFacts ==
  ASSUME NEW n \in Nat, NEW d \in Nat, d > 0
  PROVE  /\ Rounded(n, d) \in Nat
         /\ 2 * (d * Rounded(n, d)) <= 2 * n + d
         /\ 2 * n + d < 2 * (d * Rounded(n, d)) + 2 * d
<1> DEFINE N == 2 * n + d
           D == 2 * d
           q == N \div D
<1>1. N \in Nat /\ D \in Nat /\ D > 0
  OBVIOUS
<1>2. Rounded(n, d) = q
  BY DEF Rounded
<1> HIDE DEF N, D
<1>3. /\ q \in Int /\ N % D \in 0..D-1 /\ N = D * q + (N % D)
  BY <1>1, DivMod
<1>4. q \in Nat
  BY <1>1
<1> HIDE DEF q
<1>5. D * q <= N /\ N < D * q + D
  BY <1>1, <1>3
<1>6. D * q = 2 * (d * q)
  BY <1>4 DEF D
<1>7. d * q \in Nat
  BY <1>4
<1> HIDE DEF Rounded
<1> QED
  BY <1>2, <1>4, <1>5, <1>6, <1>7 DEF N, D

(* Who lies from g times d on and before the next multiple, is divided to g. *)
LEMMA DivIs ==
  ASSUME NEW p \in Int, NEW d \in Nat, d > 0, NEW g \in Int,
         d * g <= p, p < d * g + d
  PROVE  p \div d = g
<1> DEFINE q == p \div d
<1>1. /\ q \in Int /\ p % d \in 0..d-1 /\ p = d * q + (p % d)
  BY DivMod
<1> HIDE DEF q
<1>2. \A x, y \in Int : x < y => d * x + d <= d * y
  <2> SUFFICES ASSUME NEW x \in Int, NEW y \in Int, x < y
               PROVE  d * x + d <= d * y
    OBVIOUS
  <2>1. y - x - 1 \in Nat
    OBVIOUS
  <2>2. d * (y - x - 1) \in Nat
    BY <2>1
  <2>3. d * y = d * x + d + d * (y - x - 1)
    OBVIOUS
  <2>4. d * x \in Int /\ d * y \in Int
    OBVIOUS
  <2> HIDE DEF q
  <2> QED
    BY <2>2, <2>3, <2>4
<1>3. d * q \in Int /\ d * g \in Int
  BY <1>1
<1>4. d * q <= p /\ p < d * q + d
  BY <1>1, <1>3
<1>5. ~(q < g) /\ ~(g < q)
  BY <1>1, <1>2, <1>3, <1>4
<1>6. q = g
  BY <1>1, <1>5
<1> QED
  BY <1>6 DEF q

(* A position written is read back as its cell when a cell is longer, in   *)
(* hundredths, than there are cells in a row: the two roundings then move  *)
(* it by less than half a cell.                                            *)
LEMMA ReadBack ==
  ASSUME config \in Configs, GridSizeWritten > OutDim, NEW g \in 0..OutDim-1
  PROVE  ToGrid(PositionWritten(g)) = g
<1> DEFINE O == OutDim
           G == GridSizeWritten
           P == PositionWritten(g)
           K == 100 * MapSize
           w == 2 * g + 1
           L == 100 * (2 * g + 1) * MapSize
<1>1. O \in Nat /\ O >= 5 /\ MapSize \in Nat /\ g \in Nat /\ g <= O - 1
  BY Lengths
<1>2. K \in Nat /\ w \in Nat /\ w * K \in Nat /\ L = w * K
  <2>1. K \in Nat /\ w \in Nat
    BY <1>1
  <2>2. w * K \in Nat
    <3> HIDE DEF w, K
    <3> QED
      BY <2>1
  <2>3. L = w * K
    BY <1>1
  <2> QED
    BY <2>1, <2>2, <2>3
<1>3. G = Rounded(K, O) /\ P = Rounded(L, 2 * O)
  BY DEF GridSizeWritten, PositionWritten
<1>4. w = 2 * g + 1
  OBVIOUS
<1>5. G > O
  OBVIOUS
<1> HIDE DEF O, G, P, K, w, L
<1>6. /\ G \in Nat
      /\ 2 * (O * G) <= 2 * K + O /\ 2 * K + O < 2 * (O * G) + 2 * O
  <2>1. O \in Nat /\ O > 0 /\ K \in Nat
    BY <1>1, <1>2
  <2>2. /\ Rounded(K, O) \in Nat
        /\ 2 * (O * Rounded(K, O)) <= 2 * K + O
        /\ 2 * K + O < 2 * (O * Rounded(K, O)) + 2 * O
    BY <2>1, RoundedFacts
  <2> QED
    BY <1>3, <2>2
<1>7. /\ P \in Nat
      /\ 2 * ((2 * O) * P) <= 2 * L + 2 * O
      /\ 2 * L + 2 * O < 2 * ((2 * O) * P) + 2 * (2 * O)
  <2>1. 2 * O \in Nat /\ 2 * O > 0 /\ L \in Nat
    BY <1>1, <1>2
  <2> QED
    BY <1>3, <2>1, RoundedFacts
<1> DEFINE a == O * G
           b == O * g
           p == O * P
           ga == g * a
<1>8. a \in Nat /\ b \in Nat /\ p \in Nat /\ ga \in Nat
  BY <1>1, <1>6, <1>7
<1>9. 4 * p <= 2 * (w * K) + 2 * O /\ 2 * (w * K) < 4 * p + 2 * O
  <2>1. (2 * O) * P = 2 * p
    BY <1>1, <1>7
  <2> HIDE DEF p
  <2> QED
    BY <1>1, <1>2, <1>7, <1>8, <2>1
(* The grid size is off by half a hundredth at most, and so w of them. *)
<1>10. /\ 2 * (w * K) <= 4 * ga + 2 * a + 2 * b + O
       /\ 4 * ga + 2 * a - 2 * b - O <= 2 * (w * K)
  <2>1. 2 * K <= 2 * a + O /\ 2 * a - O <= 2 * K
    <3> HIDE DEF a
    <3>1. 2 * a <= 2 * K + O /\ 2 * K + O < 2 * a + 2 * O
      BY <1>6 DEF a
    <3> QED
      BY <1>1, <1>2, <1>8, <3>1
  <2>2. w * (2 * K) <= w * (2 * a + O) /\ w * (2 * a - O) <= w * (2 * K)
    <3> HIDE DEF a
    <3>1. \A x, y \in Int : x <= y => w * x <= w * y
      BY <1>2
    <3>2. 2 * K \in Int /\ 2 * a + O \in Int /\ 2 * a - O \in Int
      BY <1>1, <1>2, <1>8
    <3> QED
      BY <2>1, <3>1, <3>2
  <2>3. w * (2 * K) = 2 * (w * K)
    BY <1>2
  <2>4. /\ w * (2 * a + O) = 4 * ga + 2 * a + 2 * b + O
        /\ w * (2 * a - O) = 4 * ga + 2 * a - 2 * b - O
    <3>1. ga = g * a /\ b = g * O
      BY <1>1
    <3> HIDE DEF a, b, ga
    <3> QED
      BY <1>1, <1>4, <1>8, <3>1
  <2> QED
    BY <2>2, <2>3, <2>4
<1>11. b + 2 * O <= a
  <2>1. g + 2 <= G
    BY <1>1, <1>5, <1>6
  <2>2. O * (g + 2) <= O * G
    BY <1>1, <1>6, <2>1
  <2>3. O * (g + 2) = b + 2 * O
    BY <1>1
  <2> QED
    BY <2>2, <2>3
<1>12. ga <= p /\ p < ga + a
  <2> HIDE DEF a, b, p, ga
  <2>1. O >= 1 /\ O \in Int /\ w * K \in Int
    BY <1>1, <1>2
  <2>2. 4 * p <= 4 * ga + 2 * a + 2 * b + 3 * O
    BY <1>8, <1>9, <1>10, <2>1
  <2>3. 4 * ga + 2 * a - 2 * b - O < 4 * p + 2 * O
    BY <1>8, <1>9, <1>10, <2>1
  <2> QED
    BY <1>8, <1>11, <2>1, <2>2, <2>3
<1>13. G * g <= P /\ P < G * g + G
  <2>1. ga = O * (G * g) /\ ga + a = O * (G * g + G) /\ p = O * P
    BY <1>1, <1>6
  <2>2. G * g \in Int /\ G * g + G \in Int
    BY <1>1, <1>6
  <2>3. \A x, y \in Int : O * x <= O * y => x <= y
    BY <1>1
  <2>4. \A x, y \in Int : O * x < O * y => x < y
    BY <1>1
  <2> HIDE DEF ga, a, p
  <2> QED
    BY <1>7, <1>12, <2>1, <2>2, <2>3, <2>4
<1>14. P \div G = g
  <2>1. P \in Int /\ G > 0 /\ g \in Int
    BY <1>1, <1>5, <1>6, <1>7
  <2> QED
    BY <1>6, <1>13, <2>1, DivIs
<1>15. ToGrid(P) = IF P \div G > O - 1 THEN O - 1 ELSE P \div G
  BY DEF ToGrid, G, O
<1>16. ToGrid(P) = g
  BY <1>1, <1>14, <1>15
<1> QED
  BY <1>16 DEF P

(* The client accepts what is saved: start and goal are read back as the   *)
(* cells they are, which the clearing has left open, and in two of the     *)
(* corners at least a wall is left.                                        *)
LEMMA AcceptedHolds == IInv /\ GridSizeWritten > OutDim => AcceptedByClient
<1> SUFFICES ASSUME IInv, GridSizeWritten > OutDim, stage = "Done"
             PROVE  /\ GridSizeWritten > 0 /\ blocked # {}
                    /\ \A c \in {Centre(ends.start), Centre(ends.goal)} :
                         ClientSees(c) = c /\ c \in Cells \ blocked
  BY DEF AcceptedByClient
<1>1. config \in Configs /\ ends.start \in Rooms /\ ends.goal \in Rooms
  BY DEF IInv, ShapeInv, TypeOK
<1>2. PICK pillars \in Pillars : blocked = (DugFrom(walls) \cup pillars) \ Clear
  BY DEF IInv, MadeInv
<1>3. OutDim \in Nat /\ OutDim >= 5
  BY <1>1, Lengths
<1>4. GridSizeWritten \in Nat /\ GridSizeWritten > 0
  <2>1. 100 * MapSize \in Nat /\ OutDim > 0
    BY <1>1, <1>3, Lengths
  <2>2. GridSizeWritten \in Nat
    BY <1>3, <2>1, RoundedFacts DEF GridSizeWritten
  <2> QED
    BY <1>3, <2>2
<1>5. ASSUME NEW r \in {ends.start, ends.goal}
      PROVE  ClientSees(Centre(r)) = Centre(r) /\ Centre(r) \in Cells \ blocked
  <2>1. Centre(r) \in Cells
    BY <1>1, CentreFacts, RoomCellsFacts
  <2> DEFINE c == Centre(r)
  <2>2. c = <<c[1], c[2]>> /\ c[1] \in 0..OutDim-1 /\ c[2] \in 0..OutDim-1
    <3> HIDE DEF c
    <3>1. c \in Cells
      BY <2>1 DEF c
    <3> QED
      BY <3>1 DEF Cells
  <2>3. ClientSees(c) = c
    <3> HIDE DEF c
    <3> QED
      BY <1>1, <2>2, ReadBack DEF ClientSees
  <2>4. Near(c, c, 1)
    <3> HIDE DEF c
    <3>1. c[1] \in Int /\ c[2] \in Int
      BY <1>3, <2>2
    <3> QED
      BY <3>1 DEF Near
  <2>5. c \in Clear
    BY <2>1, <2>4 DEF Clear, ClearSquare
  <2> QED
    BY <1>2, <2>1, <2>3, <2>5
<1>6. blocked # {}
  <2> DEFINE e == OutDim - 1
             Corners == {<<0, 0>>, <<0, e>>, <<e, 0>>}
  <2>1. Corners \subseteq DugFrom(walls)
    <3>1. 0 \in 0..OutDim-1 /\ e \in 0..OutDim-1
      BY <1>3
    <3>2. Corners \subseteq BorderOf(0) \cup BorderOf(e)
      BY DEF BorderOf
    <3> HIDE DEF e, Corners
    <3> QED
      BY <1>1, <3>1, <3>2, BorderIsDug
  <2>2. ASSUME NEW r \in Rooms, NEW c \in Corners, NEW d \in Corners, c # d
        PROVE  ~(c \in ClearSquare(Centre(r)) /\ d \in ClearSquare(Centre(r)))
    <3>1. PICK x \in Int, y \in Int : Centre(r) = <<x, y>>
      <4>1. Centre(r) \in Cells
        BY <1>1, CentreFacts, RoomCellsFacts
      <4> QED
        BY <1>3, <4>1 DEF Cells
    <3>2. \/ c[1] \in {0, e} /\ d[1] \in {0, e} /\ c[1] # d[1]
          \/ c[2] \in {0, e} /\ d[2] \in {0, e} /\ c[2] # d[2]
      BY <2>2
    <3>3. e \in Int /\ e >= 4
      BY <1>3
    <3> HIDE DEF e, Corners
    <3>4. SUFFICES ASSUME Near(c, <<x, y>>, 1), Near(d, <<x, y>>, 1) PROVE FALSE
      BY <3>1 DEF ClearSquare
    <3>5. /\ c[1] - x \in -1..1 /\ c[2] - y \in -1..1
          /\ d[1] - x \in -1..1 /\ d[2] - y \in -1..1
      BY <3>4 DEF Near
    <3> QED
      BY <3>1, <3>2, <3>3, <3>5
  <2>3. <<0, 0>> # <<0, e>> /\ <<0, 0>> # <<e, 0>> /\ <<0, e>> # <<e, 0>>
    BY <1>3
  <2>4. \E c \in Corners : c \notin Clear
    BY <1>1, <2>2, <2>3 DEF Clear
  <2> QED
    BY <1>2, <2>1, <2>4
<1> QED
  BY <1>4, <1>5, <1>6

(* The client accepts every map saved, as long as its cells are longer, in *)
(* hundredths, than there are cells in a row.                              *)
THEOREM MapsAccepted == Spec => [](GridSizeWritten > OutDim => AcceptedByClient)
<1>1. IInv => (GridSizeWritten > OutDim => AcceptedByClient)
  BY AcceptedHolds
<1> QED
  BY Invariance, <1>1, PTL
=============================================================================
