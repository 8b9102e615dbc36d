------------------------- MODULE ActionSearchProofs -------------------------
(***************************************************************************)
(* The invariants of the search, for every grid, map, start and goal.      *)
(* Together they certify its answer: every distance is that of a path, and *)
(* no cell expanded was left with a shorter way to a neighbour. So it is   *)
(* the answer that the rounds of GridPaths, the reference, come to.        *)
(***************************************************************************)
EXTENDS ActionSearch, FiniteSetTheorems, WellFoundedInduction, TLAPS

(* Nothing seen is farther than one step beyond the cell being expanded.   *)
FrontierNear ==
  /\ Seen(current)
  /\ \A c \in Cells : Seen(c) => distance[c] <= distance[current] + 1

IInv ==
  /\ TypeOK
  /\ QueueOrdered
  /\ FrontierNear
  /\ DistancesReached
  /\ ExpandedComplete

-----------------------------------------------------------------------------

(* A passable direction leads to a cell of the grid. *)
LEMMA PassableInGrid ==
  ASSUME NEW c, NEW d, Passable(c, d)
  PROVE  Ahead(c, d) \in Cells
BY DEF Passable, Walkable, Ahead

(* What is passable depends on the map only, which no step changes. *)
LEMMA PassableKept ==
  ASSUME NEW c, NEW d, UNCHANGED map
  PROVE  Passable(c, d)' <=> Passable(c, d)
BY DEF Passable, Walkable, map

(* The first element of a queue and the rest of it. *)
LEMMA QueueTaken ==
  ASSUME NEW S, NEW q \in Seq(S), q # <<>>
  PROVE  /\ Head(q) \in S /\ Tail(q) \in Seq(S)
         /\ 1 \in DOMAIN q /\ Head(q) = q[1]
         /\ \A i \in DOMAIN Tail(q) :
              i + 1 \in DOMAIN q /\ i \in Nat \ {0} /\ Tail(q)[i] = q[i + 1]
         /\ \A i \in DOMAIN q :
              i # 1 => i - 1 \in DOMAIN Tail(q) /\ q[i] = Tail(q)[i - 1]
OBVIOUS

(* A queue with one element more. *)
LEMMA QueueGrown ==
  ASSUME NEW S, NEW q \in Seq(S), NEW e \in S
  PROVE  /\ Append(q, e) \in Seq(S)
         /\ \A i \in DOMAIN q : i \in DOMAIN Append(q, e)
                                /\ Append(q, e)[i] = q[i]
         /\ \A i \in DOMAIN Append(q, e) :
              \/ i \in DOMAIN q
              \/ Append(q, e)[i] = e /\ \A j \in DOMAIN Append(q, e) : j <= i
         /\ \E i \in DOMAIN Append(q, e) : Append(q, e)[i] = e
<1>1. Append(q, e) \in Seq(S)
  OBVIOUS
<1>2. Len(q) \in Nat /\ DOMAIN q = 1..Len(q)
      /\ DOMAIN Append(q, e) = 1..(Len(q) + 1)
  OBVIOUS
<1>3. /\ \A i \in 1..Len(q) : Append(q, e)[i] = q[i]
      /\ Append(q, e)[Len(q) + 1] = e
  OBVIOUS
<1> QED
  BY <1>1, <1>2, <1>3

-----------------------------------------------------------------------------

LEMMA InitIInv == Init => IInv
<1> SUFFICES ASSUME Init PROVE IInv
  OBVIOUS
<1>0. start \in Cells /\ distance[start] = 0 /\ current = start
      /\ queue = <<start>> /\ DOMAIN queue = {1} /\ queue[1] = start
  BY DEF Init
<1>1. \A c \in Cells : distance[c] = IF c = start THEN 0 ELSE -1
  BY DEF Init, Unseen
<1>2. TypeOK
  BY <1>0 DEF Init, TypeOK, Unseen, Idle, Pending, NoPath
<1>3. QueueOrdered
  BY <1>0 DEF QueueOrdered, Seen, Unseen
<1>4. FrontierNear
  BY <1>0, <1>1 DEF FrontierNear, Seen, Unseen
<1>5. DistancesReached
  BY <1>1 DEF DistancesReached, Seen, Unseen
<1>6. ExpandedComplete
  BY <1>0, <1>1 DEF ExpandedComplete, Seen, Unseen
<1> QED
  BY <1>2, <1>3, <1>4, <1>5, <1>6 DEF IInv

LEMMA TakeKeeps == IInv /\ Take => IInv'
<1> SUFFICES ASSUME IInv, Take PROVE IInv'
  OBVIOUS
<1> USE DEF IInv
<1>1. /\ result = Pending /\ dir = Idle /\ queue \in Seq(Cells)
      /\ queue # <<>> /\ current' = Head(queue) /\ queue' = Tail(queue)
      /\ distance' = distance /\ UNCHANGED map
  BY DEF Take, TypeOK
<1>2. /\ Head(queue) \in Cells /\ Tail(queue) \in Seq(Cells)
      /\ 1 \in DOMAIN queue /\ Head(queue) = queue[1]
      /\ \A i \in DOMAIN Tail(queue) :
           i + 1 \in DOMAIN queue /\ i \in Nat \ {0}
             /\ Tail(queue)[i] = queue[i + 1]
      /\ \A i \in DOMAIN queue :
           i # 1 => i - 1 \in DOMAIN Tail(queue)
                      /\ queue[i] = Tail(queue)[i - 1]
  BY <1>1, QueueTaken
<1>3. Seen(Head(queue)) /\ distance[Head(queue)] \in Nat
  BY <1>2 DEF QueueOrdered, TypeOK, Seen
<1>4. /\ distance[current] \in Nat
      /\ distance[current] <= distance[Head(queue)]
  BY <1>2, <1>3 DEF QueueOrdered, FrontierNear, TypeOK, Seen
<1>5. TypeOK'
  <2>1. dir' \in 1..Idle /\ result' \in Nat \cup {NoPath, Pending}
    BY <1>3 DEF Take, TypeOK, Idle
  <2> QED
    BY <1>1, <1>2, <2>1 DEF TypeOK, map
<1>6. QueueOrdered'
  <2>1. ASSUME NEW i \in DOMAIN Tail(queue)
        PROVE  /\ Seen(Tail(queue)[i])
               /\ distance[Tail(queue)[i]] \in
                    distance[Head(queue)]..(distance[Head(queue)] + 1)
    <3>1. /\ Seen(queue[i + 1])
          /\ distance[queue[i + 1]] \in
               distance[current]..(distance[current] + 1)
          /\ distance[queue[1]] <= distance[queue[i + 1]]
      BY <1>2 DEF QueueOrdered
    <3> QED
      BY <3>1, <1>2, <1>3, <1>4
  <2>2. ASSUME NEW i \in DOMAIN Tail(queue), NEW j \in DOMAIN Tail(queue),
               i < j
        PROVE  /\ Tail(queue)[i] # Tail(queue)[j]
               /\ distance[Tail(queue)[i]] <= distance[Tail(queue)[j]]
    <3>1. i + 1 \in DOMAIN queue /\ j + 1 \in DOMAIN queue /\ i + 1 < j + 1
      BY <1>2, <2>2
    <3> QED
      BY <3>1, <1>2 DEF QueueOrdered
  <2> QED
    BY <2>1, <2>2, <1>1 DEF QueueOrdered, Seen
<1>7. FrontierNear'
  BY <1>1, <1>2, <1>3, <1>4 DEF FrontierNear, TypeOK, Seen, Unseen
<1>8. DistancesReached'
  BY <1>1, PassableKept DEF DistancesReached, Seen, map
<1>9. ExpandedComplete'
  <2> SUFFICES ASSUME NEW c \in Cells, Seen(c), result' = Pending,
                      \A i \in DOMAIN Tail(queue) : Tail(queue)[i] # c,
                      NEW d \in 1..8, Passable(c, d),
                      c = Head(queue) => d < dir'
               PROVE  /\ Seen(Ahead(c, d))
                      /\ distance[Ahead(c, d)] <= distance[c] + 1
    BY <1>1, PassableKept DEF ExpandedComplete, Seen
  <2>1. dir' = 1
    BY <1>1, <1>3 DEF Take, Pending
  <2>2. c # Head(queue)
    BY <2>1
  <2>3. \A i \in DOMAIN queue : queue[i] # c
    BY <1>2, <2>2
  <2>4. d < dir
    BY <1>1 DEF Idle
  <2> QED
    BY <1>1, <2>3, <2>4 DEF ExpandedComplete
<1> QED
  BY <1>5, <1>6, <1>7, <1>8, <1>9

(* The case of Look that sees a cell for the first time. *)
LEMMA SeeKeeps ==
  ASSUME IInv, Look, NEW next, next = Ahead(current, dir),
         Passable(current, dir), distance[next] = Unseen
  PROVE  IInv'
<1> USE DEF IInv
<1>1. /\ dir \in 1..8 /\ dir' = dir + 1 /\ UNCHANGED <<current, result>>
      /\ UNCHANGED map
      /\ distance' = [distance EXCEPT ![next] = distance[current] + 1]
      /\ queue' = Append(queue, next)
  BY DEF Look, TypeOK, Idle
<1>2. next \in Cells /\ ~Seen(next)
  BY PassableInGrid DEF Seen
<1>3. current \in Cells /\ Seen(current) /\ distance[current] \in Nat
      /\ next # current
  BY <1>2 DEF FrontierNear, TypeOK, Seen
<1>4. /\ distance'[next] = distance[current] + 1
      /\ \A c \in Cells : c # next => distance'[c] = distance[c]
      /\ Seen(next)'
      /\ \A c \in Cells : c # next => (Seen(c)' <=> Seen(c))
  BY <1>1, <1>2, <1>3 DEF TypeOK, Seen, Unseen
<1>5. /\ queue' \in Seq(Cells)
      /\ \A i \in DOMAIN queue : i \in DOMAIN queue' /\ queue'[i] = queue[i]
      /\ \A i \in DOMAIN queue' :
           \/ i \in DOMAIN queue
           \/ queue'[i] = next /\ \A j \in DOMAIN queue' : j <= i
      /\ \E i \in DOMAIN queue' : queue'[i] = next
  <2>1. queue \in Seq(Cells)
    BY DEF TypeOK
  <2> QED
    BY <1>1, <1>2, <2>1, QueueGrown
<1>6. TypeOK'
  BY <1>1, <1>2, <1>3, <1>5 DEF TypeOK, map, Idle
<1>7. \A i \in DOMAIN queue : queue[i] \in Cells /\ queue[i] # next
  BY <1>2 DEF QueueOrdered, TypeOK
<1>8. DOMAIN queue' \subseteq Int
  BY <1>5
<1>9. QueueOrdered'
  <2>1. ASSUME NEW i \in DOMAIN queue'
        PROVE  /\ distance'[queue'[i]] # Unseen
               /\ distance'[queue'[i]] \in
                    distance[current]..(distance[current] + 1)
    <3>1. CASE i \in DOMAIN queue
      BY <3>1, <1>4, <1>5, <1>7 DEF QueueOrdered, Seen
    <3>2. CASE queue'[i] = next
      BY <3>2, <1>3, <1>4 DEF Seen
    <3> QED
      BY <3>1, <3>2, <1>5
  <2>2. ASSUME NEW i \in DOMAIN queue', NEW j \in DOMAIN queue', i < j
        PROVE  /\ queue'[i] # queue'[j]
               /\ distance'[queue'[i]] <= distance'[queue'[j]]
    <3>1. i \in DOMAIN queue
      BY <1>5, <1>8, <2>2
    <3>2. CASE j \in DOMAIN queue
      BY <3>1, <3>2, <2>2, <1>4, <1>5, <1>7 DEF QueueOrdered
    <3>3. CASE queue'[j] = next
      <4>1. distance'[queue'[i]] \in
              distance[current]..(distance[current] + 1)
        BY <2>1
      <4> QED
        BY <3>1, <3>3, <4>1, <1>3, <1>4, <1>5, <1>7
    <3> QED
      BY <3>2, <3>3, <1>5
  <2>3. distance'[current'] = distance[current]
    BY <1>1, <1>3, <1>4
  <2> QED
    BY <2>1, <2>2, <2>3 DEF QueueOrdered, Seen
<1>10. FrontierNear'
  BY <1>1, <1>3, <1>4 DEF FrontierNear
<1>11. DistancesReached'
  <2> SUFFICES ASSUME NEW c \in Cells, Seen(c)', c # start
               PROVE  \E p \in Cells, d \in 1..8 :
                        /\ Seen(p)' /\ distance'[p] + 1 = distance'[c]
                        /\ Ahead(p, d) = c /\ Passable(p, d)
    BY <1>1, PassableKept DEF DistancesReached, map
  <2>1. CASE c = next
    BY <2>1, <1>1, <1>3, <1>4
  <2>2. CASE c # next
    <3>1. PICK p \in Cells, d \in 1..8 :
            /\ Seen(p) /\ distance[p] + 1 = distance[c]
            /\ Ahead(p, d) = c /\ Passable(p, d)
      BY <2>2, <1>4 DEF DistancesReached
    <3> QED
      BY <3>1, <2>2, <1>2, <1>4
  <2> QED
    BY <2>1, <2>2
<1>12. ExpandedComplete'
  <2> SUFFICES ASSUME NEW c \in Cells, Seen(c)', result = Pending,
                      \A i \in DOMAIN queue' : queue'[i] # c,
                      NEW d \in 1..8, Passable(c, d),
                      c = current => d < dir + 1
               PROVE  /\ Seen(Ahead(c, d))'
                      /\ distance'[Ahead(c, d)] <= distance'[c] + 1
    BY <1>1, PassableKept DEF ExpandedComplete
  <2>1. c # next /\ \A i \in DOMAIN queue : queue[i] # c
    BY <1>5
  <2>2. CASE c = current /\ d = dir
    BY <2>2, <1>3, <1>4
  <2>3. CASE c = current => d < dir
    <3>1. Seen(Ahead(c, d)) /\ distance[Ahead(c, d)] <= distance[c] + 1
      BY <2>1, <2>3, <1>4 DEF ExpandedComplete
    <3> QED
      BY <3>1, <2>1, <1>2, <1>4, PassableInGrid
  <2> QED
    BY <2>2, <2>3, <1>1
<1> QED
  BY <1>6, <1>9, <1>10, <1>11, <1>12

(* The case of Look that sees nothing new. *)
LEMMA PassKeeps ==
  ASSUME IInv, Look,
         ~(Passable(current, dir) /\ distance[Ahead(current, dir)] = Unseen)
  PROVE  IInv'
<1> USE DEF IInv
<1>1. /\ dir \in 1..8 /\ dir' = dir + 1 /\ UNCHANGED <<current, result>>
      /\ UNCHANGED map /\ UNCHANGED <<distance, queue>>
  BY DEF Look, TypeOK, Idle
<1>2. TypeOK'
  BY <1>1 DEF TypeOK, map, Idle
<1>3. QueueOrdered' /\ FrontierNear'
  BY <1>1 DEF QueueOrdered, FrontierNear, Seen
<1>4. DistancesReached'
  BY <1>1, PassableKept DEF DistancesReached, Seen, map
<1>5. ExpandedComplete'
  <2> SUFFICES ASSUME NEW c \in Cells, Seen(c), result = Pending,
                      \A i \in DOMAIN queue : queue[i] # c,
                      NEW d \in 1..8, Passable(c, d),
                      c = current => d < dir + 1
               PROVE  /\ Seen(Ahead(c, d))
                      /\ distance[Ahead(c, d)] <= distance[c] + 1
    BY <1>1, PassableKept DEF ExpandedComplete, Seen
  <2>1. CASE c = current /\ d = dir
    BY <2>1, PassableInGrid DEF FrontierNear, Seen
  <2>2. CASE c = current => d < dir
    BY <2>2 DEF ExpandedComplete
  <2> QED
    BY <2>1, <2>2, <1>1
<1> QED
  BY <1>2, <1>3, <1>4, <1>5

LEMMA ExhaustedKeeps == IInv /\ Exhausted => IInv'
<1> SUFFICES ASSUME IInv, Exhausted PROVE IInv'
  OBVIOUS
<1> USE DEF IInv
<1>1. result' = NoPath /\ UNCHANGED <<map, distance, queue, current, dir>>
  BY DEF Exhausted
<1>2. TypeOK' /\ QueueOrdered' /\ FrontierNear'
  BY <1>1 DEF TypeOK, QueueOrdered, FrontierNear, Seen, map
<1>3. DistancesReached'
  BY <1>1, PassableKept DEF DistancesReached, Seen, map
<1>4. ExpandedComplete'
  BY <1>1 DEF ExpandedComplete, NoPath, Pending
<1> QED
  BY <1>2, <1>3, <1>4

LEMMA StutterKeeps == IInv /\ UNCHANGED vars => IInv'
<1> SUFFICES ASSUME IInv, UNCHANGED vars PROVE IInv'
  OBVIOUS
<1> USE DEF IInv
<1>1. UNCHANGED <<map, distance, queue, current, dir, result>>
  BY DEF vars
<1>2. TypeOK' /\ QueueOrdered' /\ FrontierNear'
  BY <1>1 DEF TypeOK, QueueOrdered, FrontierNear, Seen, map
<1>3. DistancesReached'
  BY <1>1, PassableKept DEF DistancesReached, Seen, map
<1>4. ExpandedComplete'
  BY <1>1, PassableKept DEF ExpandedComplete, Seen
<1> QED
  BY <1>2, <1>3, <1>4

(* The inductive invariant of the search holds in every reachable state. *)
THEOREM Invariance == Spec => []IInv
<1>1. IInv /\ [Next]_vars => IInv'
  BY TakeKeeps, SeeKeeps, PassKeeps, ExhaustedKeeps, StutterKeeps
  DEF Next, Returned
<1> QED
  BY InitIInv, <1>1, PTL DEF Spec

(* Every variable of the search stays in its range: no distance is taken   *)
(* of a cell outside of the grid.                                          *)
THEOREM TypeCorrect == Spec => []TypeOK
<1>1. IInv => TypeOK
  BY DEF IInv
<1> QED
  BY <1>1, Invariance, PTL

(* The queue is ordered by distance and holds no cell twice, on every map. *)
THEOREM QueueIsOrdered == Spec => []QueueOrdered
<1>1. IInv => QueueOrdered
  BY DEF IInv
<1> QED
  BY <1>1, Invariance, PTL

(* Every distance the search writes down is the length of a path: the cell *)
(* has a neighbour one step closer to the start.                           *)
THEOREM DistancesAreReached == Spec => []DistancesReached
<1>1. IInv => DistancesReached
  BY DEF IInv
<1> QED
  BY <1>1, Invariance, PTL

(* No shorter way is overlooked: a cell expanded has no neighbour that is  *)
(* unseen or more than one step farther from the start.                    *)
THEOREM ExpansionIsComplete == Spec => []ExpandedComplete
<1>1. IInv => ExpandedComplete
  BY DEF IInv
<1> QED
  BY <1>1, Invariance, PTL

(* At every step of the search, on every grid and map, what it knows is    *)
(* true and complete so far: types, queue, distances and expansions.       *)
THEOREM SearchIsSound == Spec => []SearchSound
<1>1. IInv => SearchSound
  BY DEF IInv, SearchSound
<1> QED
  BY <1>1, Invariance, PTL

-----------------------------------------------------------------------------
(* The rounds of GridPaths                                                 *)

(* < on the naturals is a well-founded relation.                           *)
LEMMA LessThan == \A x, y \in Nat : x < y => <<x, y>> \in OpToRel(<, Nat)
  BY DEF OpToRel

(* A set of naturals that is not empty has a least element.               *)
LEMMA LeastElement ==
  ASSUME NEW S, S \subseteq Nat, S # {}
  PROVE  \E m \in S : \A n \in S : m <= n
<1>1. PICK m \in S : \A n \in S : ~(<<n, m>> \in OpToRel(<, Nat))
  BY NatLessThanWellFounded, WFMin
<1>2. \A n \in S : ~(n < m)
  BY <1>1, LessThan
<1> QED
  BY <1>2

(* A set that has 0 and is closed under + 1 has every natural.             *)
LEMMA Induction ==
  ASSUME NEW S, 0 \in S, \A n \in Nat : n \in S => n + 1 \in S
  PROVE  Nat \subseteq S
<1> SUFFICES ASSUME NEW k \in Nat, k \notin S PROVE FALSE
  OBVIOUS
<1>1. PICK m \in Nat \ S : \A n \in Nat \ S : m <= n
  BY LeastElement
<1>2. m # 0 /\ m - 1 \in Nat
  BY <1>1
<1>3. m - 1 \in S
  BY <1>1, <1>2
<1> QED
  BY <1>1, <1>2, <1>3

(* f starts at e and goes on by g up to m; there is such a function.       *)
GoesOn(f, e, g, m) ==
  \A n \in 0..m : f[n] = IF n = 0 THEN e ELSE g[f[n - 1]]

LEMMA Recursion ==
  ASSUME NEW S, NEW e \in S, NEW g \in [S -> S], NEW m \in Nat
  PROVE  \E f \in [0..m -> S] : GoesOn(f, e, g, m)
<1> DEFINE T == {k \in Nat : \E f \in [0..k -> S] : GoesOn(f, e, g, k)}
<1>1. 0 \in T
  <2> DEFINE f == [n \in 0..0 |-> e]
  <2>1. f \in [0..0 -> S] /\ GoesOn(f, e, g, 0)
    BY DEF GoesOn
  <2> QED
    BY <2>1
<1>2. ASSUME NEW k \in Nat, k \in T PROVE k + 1 \in T
  <2>1. PICK f \in [0..k -> S] : GoesOn(f, e, g, k)
    BY <1>2
  <2> DEFINE h == [n \in 0..k+1 |-> IF n = k + 1 THEN g[f[k]] ELSE f[n]]
  <2>2. k \in 0..k /\ g[f[k]] \in S
    BY <2>1
  <2>3. h \in [0..k+1 -> S]
    BY <2>1, <2>2
  <2>4. ASSUME NEW n \in 0..k+1 PROVE h[n] = IF n = 0 THEN e ELSE g[h[n - 1]]
    <3>1. CASE n = k + 1
      <4>1. n # 0 /\ n - 1 = k /\ k \in 0..k+1 /\ k # k + 1
        BY <3>1
      <4>2. h[n] = g[f[k]] /\ h[k] = f[k]
        BY <3>1, <4>1
      <4> QED
        BY <4>1, <4>2
    <3>2. CASE n # k + 1
      <4>1. n \in 0..k /\ h[n] = f[n]
        BY <3>2
      <4>2. n # 0 => n - 1 \in 0..k+1 /\ n - 1 # k + 1
        BY <3>2
      <4>3. n # 0 => h[n - 1] = f[n - 1]
        BY <4>2
      <4>4. f[n] = IF n = 0 THEN e ELSE g[f[n - 1]]
        BY <2>1, <4>1 DEF GoesOn
      <4> QED
        BY <4>1, <4>3, <4>4
    <3> QED
      BY <3>1, <3>2
  <2>5. GoesOn(h, e, g, k + 1)
    BY <2>4 DEF GoesOn
  <2> HIDE DEF h
  <2> QED
    BY <2>3, <2>5
<1>3. m \in T
  <2> HIDE DEF T
  <2> QED
    BY <1>1, <1>2, Induction
<1> QED
  BY <1>3

(* What a round leads on: from the n-th of the sets into the next one.     *)
Leads(open, end, Good) ==
  \A i \in Nat : \A q \in Good[i] : Round(open, end, q) \in Good[i + 1]

(* One stretch of rounds: whatever each round leads on leads to its end.   *)
LEMMA StretchLeads ==
  ASSUME NEW open, NEW end, NEW Good, Leads(open, end, Good),
         NEW k \in Nat, NEW r \in Good[k]
  PROVE  \E q \in Good[k + STRETCH] : Stretched(open, end, r) = {q}
<1> DEFINE R == UNION {Good[i] : i \in Nat}
           S == SUBSET R
           g == [X \in S |-> {Round(open, end, q) : q \in X}]
           Is(h) == h = [n \in 0..STRETCH |->
                           IF n = 0 THEN {r}
                           ELSE {Round(open, end, q) : q \in h[n - 1]}]
           after == CHOOSE h : Is(h)
<1>1. Stretched(open, end, r) = after[STRETCH]
  BY Zenon DEF Stretched
<1>2. STRETCH \in Nat /\ {r} \in S
  BY DEF STRETCH
<1>3. g \in [S -> S]
  <2>1. \A q \in R : Round(open, end, q) \in R
    <3> SUFFICES ASSUME NEW i \in Nat, NEW q \in Good[i]
                 PROVE  Round(open, end, q) \in R
      OBVIOUS
    <3>1. Round(open, end, q) \in Good[i + 1] /\ i + 1 \in Nat
      BY DEF Leads
    <3> QED
      BY <3>1, Zenon
  <2> HIDE DEF R
  <2> QED
    BY <2>1
<1> HIDE DEF R
<1>4. PICK f \in [0..STRETCH -> S] : GoesOn(f, {r}, g, STRETCH)
  <2> HIDE DEF S, g
  <2> QED
    BY <1>2, <1>3, Recursion
<1>5. Is(f)
  <2>1. ASSUME NEW n \in 0..STRETCH, n # 0
        PROVE  g[f[n - 1]] = {Round(open, end, q) : q \in f[n - 1]}
    <3>1. n - 1 \in 0..STRETCH
      BY <1>2, <2>1
    <3>2. f[n - 1] \in S
      BY <1>4, <3>1
    <3> HIDE DEF S
    <3> QED
      BY <3>2
  <2> HIDE DEF g, S
  <2>2. \A n \in 0..STRETCH :
          f[n] = IF n = 0 THEN {r}
                 ELSE {Round(open, end, q) : q \in f[n - 1]}
    BY <1>4, <2>1 DEF GoesOn
  <2>3. f = [n \in 0..STRETCH |-> f[n]]
    BY <1>4
  <2> QED
    BY <2>2, <2>3
<1>6. Is(after)
  <2> HIDE DEF Is
  <2> QED
    BY <1>5, Zenon
<1>7. \A n \in 0..STRETCH :
        after[n] = IF n = 0 THEN {r}
                   ELSE {Round(open, end, q) : q \in after[n - 1]}
  <2> HIDE DEF after
  <2> QED
    BY <1>6, Zenon
<1> HIDE DEF after, S, g
<1> DEFINE T == {n \in Nat : n <= STRETCH =>
                   \E q \in Good[k + n] : after[n] = {q}}
<1>8. 0 \in T
  <2>1. 0 \in 0..STRETCH /\ k + 0 = k
    BY <1>2
  <2>2. after[0] = {r}
    BY <1>7, <2>1
  <2> QED
    BY <2>1, <2>2
<1>9. ASSUME NEW n \in Nat, n \in T PROVE n + 1 \in T
  <2> SUFFICES ASSUME n + 1 <= STRETCH
               PROVE  \E q \in Good[k + (n + 1)] : after[n + 1] = {q}
    OBVIOUS
  <2>1. n + 1 \in 0..STRETCH /\ n + 1 # 0 /\ (n + 1) - 1 = n /\ n <= STRETCH
        /\ k + n \in Nat /\ (k + n) + 1 = k + (n + 1)
    BY <1>2
  <2>2. PICK q \in Good[k + n] : after[n] = {q}
    BY <1>9, <2>1
  <2>3. after[n + 1] = {Round(open, end, p) : p \in {q}}
    BY <1>7, <2>1, <2>2, Zenon
  <2>5. after[n + 1] = {Round(open, end, q)}
    BY <2>3, Zenon
  <2>4. Round(open, end, q) \in Good[k + (n + 1)]
    BY <2>1, <2>2 DEF Leads
  <2> QED
    BY <2>4, <2>5
<1>10. Nat \subseteq T
  <2> HIDE DEF T
  <2> QED
    BY <1>8, <1>9, Induction
<1> QED
  BY <1>1, <1>2, <1>10

(* What holds at first and is led on by every round holds in the end.      *)
LEMMA RoundsLead ==
  ASSUME NEW open, NEW first, NEW end, NEW Good, IsFiniteSet(open),
         Unmoved(first, end) \in Good[0],
         Leads(open, end, Good)
  PROVE  \E n \in Nat : /\ n >= Cardinality(open)
                        /\ Rounds(open, first, end) \in Good[n]
<1> DEFINE most == Cardinality(open) \div STRETCH + 1
           R == UNION {Good[i] : i \in Nat}
           S == SUBSET R
           g == [X \in S |-> UNION {Stretched(open, end, q) : q \in X}]
           e == {Unmoved(first, end)}
           Is(h) == h = [k \in 0..most |->
                           IF k = 0 THEN {Unmoved(first, end)}
                           ELSE UNION {Stretched(open, end, q) : q \in h[k - 1]}]
           stretch == CHOOSE h : Is(h)
<1>1. Rounds(open, first, end) = CHOOSE r \in stretch[most] : TRUE
  BY Zenon DEF Rounds
<1>2. Cardinality(open) \in Nat
  BY FS_CardinalityType
<1>3. most \in Nat /\ most * STRETCH >= Cardinality(open)
  BY <1>2 DEF STRETCH
<1>4. e \in S
  <2>1. 0 \in Nat
    OBVIOUS
  <2> QED
    BY <2>1, Zenon
<1>5. g \in [S -> S]
  <2>1. \A q \in R : Stretched(open, end, q) \subseteq R
    <3> SUFFICES ASSUME NEW i \in Nat, NEW q \in Good[i]
                 PROVE  Stretched(open, end, q) \subseteq R
      OBVIOUS
    <3>1. PICK p \in Good[i + STRETCH] : Stretched(open, end, q) = {p}
      BY StretchLeads
    <3>2. i + STRETCH \in Nat
      BY DEF STRETCH
    <3> QED
      BY <3>1, <3>2, Zenon
  <2> HIDE DEF R
  <2> QED
    BY <2>1
<1> HIDE DEF R, most
<1>6. PICK f \in [0..most -> S] : GoesOn(f, e, g, most)
  <2> HIDE DEF S, g, e
  <2> QED
    BY <1>3, <1>4, <1>5, Recursion
<1>7. Is(f)
  <2>1. ASSUME NEW n \in 0..most, n # 0
        PROVE  g[f[n - 1]] = UNION {Stretched(open, end, q) : q \in f[n - 1]}
    <3>1. n - 1 \in 0..most
      BY <1>3, <2>1
    <3>2. f[n - 1] \in S
      BY <1>6, <3>1
    <3> HIDE DEF S
    <3> QED
      BY <3>2
  <2> HIDE DEF g, S
  <2>2. \A n \in 0..most :
          f[n] = IF n = 0 THEN e
                 ELSE UNION {Stretched(open, end, q) : q \in f[n - 1]}
    BY <1>6, <2>1 DEF GoesOn
  <2>3. f = [n \in 0..most |-> f[n]]
    BY <1>6
  <2> QED
    BY <2>2, <2>3
<1>8. Is(stretch)
  <2> HIDE DEF Is
  <2> QED
    BY <1>7, Zenon
<1>9. \A n \in 0..most :
        stretch[n] = IF n = 0 THEN {Unmoved(first, end)}
                     ELSE UNION {Stretched(open, end, q) : q \in stretch[n - 1]}
  <2> HIDE DEF stretch
  <2> QED
    BY <1>8, Zenon
<1> HIDE DEF stretch, S, g, e, Is
<1> DEFINE T == {n \in Nat : n <= most =>
                   \E q \in Good[n * STRETCH] : stretch[n] = {q}}
<1>10. 0 \in T
  <2>1. 0 * STRETCH = 0 /\ 0 \in 0..most
    BY <1>3 DEF STRETCH
  <2>2. stretch[0] = {Unmoved(first, end)}
    BY <1>9, <2>1
  <2> QED
    BY <2>1, <2>2
<1>11. ASSUME NEW n \in Nat, n \in T PROVE n + 1 \in T
  <2> SUFFICES ASSUME n + 1 <= most
               PROVE  \E q \in Good[(n + 1) * STRETCH] : stretch[n + 1] = {q}
    OBVIOUS
  <2>1. n + 1 \in 0..most /\ n + 1 # 0 /\ (n + 1) - 1 = n /\ n <= most
    BY <1>3
  <2>2. n * STRETCH \in Nat /\ n * STRETCH + STRETCH = (n + 1) * STRETCH
    BY DEF STRETCH
  <2>3. PICK q \in Good[n * STRETCH] : stretch[n] = {q}
    BY <1>11, <2>1
  <2>4. stretch[n + 1] = Stretched(open, end, q)
    <3>1. stretch[n + 1] = UNION {Stretched(open, end, p) : p \in {q}}
      BY <1>9, <2>1, <2>3, Zenon
    <3> QED
      BY <3>1, Zenon
  <2>5. \E p \in Good[n * STRETCH + STRETCH] : Stretched(open, end, q) = {p}
    BY <2>2, StretchLeads
  <2> QED
    BY <2>2, <2>4, <2>5
<1>12. Nat \subseteq T
  <2> HIDE DEF T
  <2> QED
    BY <1>10, <1>11, Induction
<1>13. PICK q \in Good[most * STRETCH] : stretch[most] = {q}
  <2>1. most \in T /\ most <= most
    BY <1>3, <1>12
  <2> QED
    BY <2>1
<1>14. Rounds(open, first, end) = q
  BY <1>1, <1>13
<1>15. most * STRETCH \in Nat
  BY <1>3 DEF STRETCH
<1> QED
  BY <1>3, <1>13, <1>14, <1>15

-----------------------------------------------------------------------------
(* What distances say of the shortest path                                 *)

Open == Cells \ blocked

Walkables == start \in Open /\ goal \in Open

StartSeen == \A c \in Cells : c = start <=> distance[c] = 0

(* Nearer to the start than the goal, if there is a way to the goal. *)
Nearer(n) == Seen(goal) => n < distance[goal]

(* Of the cells that are nearer no way is overlooked.                      *)
Complete ==
  \A c \in Cells : Seen(c) /\ Nearer(distance[c]) =>
    \A d \in 1..8 :
      Passable(c, d) =>
        Seen(Ahead(c, d)) /\ distance[Ahead(c, d)] <= distance[c] + 1

Certified ==
  /\ blocked \subseteq Cells /\ goal \in Cells
  /\ distance \in [Cells -> Nat \cup {Unseen}]
  /\ Walkables /\ StartSeen /\ DistancesReached /\ Complete

(* The two rules of movement agree.                                        *)
LEMMA MovesAgree ==
  ASSUME NEW c \in Open
  PROVE  /\ \A d \in 1..8 : /\ CanMove(Open, c, d) <=> Passable(c, d)
                            /\ Ahead(c, d) = <<c[1] + Dx[d], c[2] + Dy[d]>>
         /\ Neighbours(Open, c) = {Ahead(c, d) : d \in {b \in 1..8 : Passable(c, b)}}
<1>1. c = <<c[1], c[2]>> /\ c[1] \in Int /\ c[2] \in Int
  BY DEF Open, Cells
<1>2. ASSUME NEW d \in 1..8
      PROVE  /\ ACTION_DIRECTIONS[d] = <<Dx[d], Dy[d]>>
             /\ Dx[d] \in {-1, 0, 1} /\ Dy[d] \in {-1, 0, 1}
  <2>1. d \in {1, 2, 3, 4, 5, 6, 7, 8}
    OBVIOUS
  <2> QED
    BY <2>1 DEF ACTION_DIRECTIONS, Dx, Dy, Actions
<1>3. ASSUME NEW d \in 1..8
      PROVE  Ahead(c, d) = <<c[1] + Dx[d], c[2] + Dy[d]>>
  BY <1>2 DEF Ahead
<1>4. \A x, y : Walkable(x, y) <=> <<x, y>> \in Open
  BY DEF Walkable, Open
<1>5. ASSUME NEW d \in 1..8
      PROVE  CanMove(Open, c, d) <=> Passable(c, d)
  <2> DEFINE x == c[1] + Dx[d]
             y == c[2] + Dy[d]
  <2>1. CanMove(Open, c, d) <=>
          <<x, y>> \in Open /\ <<x, c[2]>> \in Open /\ <<c[1], y>> \in Open
    BY DEF CanMove
  <2>2. Passable(c, d) <=>
          /\ <<x, y>> \in Open
          /\ Dx[d] # 0 /\ Dy[d] # 0 => <<x, c[2]>> \in Open /\ <<c[1], y>> \in Open
    BY <1>2, <1>3, <1>4 DEF Passable
  <2>3. Dx[d] = 0 => x = c[1]
    BY <1>1, <1>2
  <2>4. Dy[d] = 0 => y = c[2]
    BY <1>1, <1>2
  <2>5. <<c[1], c[2]>> \in Open
    BY <1>1
  <2> HIDE DEF x, y
  <2> QED
    BY <2>1, <2>2, <2>3, <2>4, <2>5
<1>6. Actions \ {0} = 1..8
  BY DEF Actions
<1>7. Neighbours(Open, c) = {Ahead(c, d) : d \in {b \in 1..8 : Passable(c, b)}}
  <2>1. Neighbours(Open, c) = {<<c[1] + Dx[a], c[2] + Dy[a]>> :
                                 a \in {b \in 1..8 : CanMove(Open, c, b)}}
    BY <1>6, Zenon DEF Neighbours
  <2>2. {b \in 1..8 : CanMove(Open, c, b)} = {b \in 1..8 : Passable(c, b)}
    BY <1>5
  <2> QED
    BY <1>3, <2>1, <2>2
<1> QED
  BY <1>3, <1>5, <1>7

(* A cell seen is open, and only the start is no step away.                *)
LEMMA SeenIsOpen ==
  ASSUME Certified
  PROVE  \A c \in Cells : Seen(c) => c \in Open /\ distance[c] \in Nat
<1> SUFFICES ASSUME NEW c \in Cells, Seen(c)
             PROVE  c \in Open /\ distance[c] \in Nat
  OBVIOUS
<1>1. distance[c] \in Nat
  BY DEF Certified, Seen
<1>2. CASE c = start
  BY <1>1, <1>2 DEF Certified, Walkables
<1>3. CASE c # start
  <2>1. PICK p \in Cells, d \in 1..8 : Ahead(p, d) = c /\ Passable(p, d)
    BY <1>3 DEF Certified, DistancesReached
  <2>2. c = <<Ahead(p, d)[1], Ahead(p, d)[2]>>
    BY <2>1 DEF Cells
  <2> QED
    BY <1>1, <2>1, <2>2 DEF Passable, Walkable, Open
<1> QED
  BY <1>2, <1>3

Level(n) == {c \in Cells : distance[c] = n}
Upto(n) == {c \in Cells : Seen(c) /\ distance[c] <= n}

(* A round of the reference takes a level to the next one.                 *)
LEMMA NextLevel ==
  ASSUME Certified, NEW n \in Nat, Nearer(n)
  PROVE  /\ (UNION {Neighbours(Open, c) : c \in Level(n)}) \ Upto(n) = Level(n + 1)
         /\ Upto(n) \cup Level(n + 1) = Upto(n + 1)
<1>1. \A c \in Level(n) : c \in Cells /\ Seen(c) /\ c \in Open /\ distance[c] = n
  BY SeenIsOpen DEF Level, Seen, Unseen
<1>2. ASSUME NEW x \in UNION {Neighbours(Open, c) : c \in Level(n)},
             x \notin Upto(n)
      PROVE  x \in Level(n + 1)
  <2>1. PICK c \in Level(n) : x \in Neighbours(Open, c)
    OBVIOUS
  <2>2. PICK d \in 1..8 : Passable(c, d) /\ x = Ahead(c, d)
    BY <1>1, <2>1, MovesAgree
  <2>3. x \in Cells /\ Seen(x) /\ distance[x] <= n + 1
    BY <1>1, <2>2, PassableInGrid DEF Certified, Complete
  <2>4. distance[x] \in Nat
    BY <2>3, SeenIsOpen
  <2> QED
    BY <1>2, <2>3, <2>4 DEF Level, Upto
<1>3. ASSUME NEW x \in Level(n + 1)
      PROVE  x \in UNION {Neighbours(Open, c) : c \in Level(n)} /\ x \notin Upto(n)
  <2>1. x \in Cells /\ distance[x] = n + 1 /\ Seen(x) /\ x # start
    BY DEF Level, Seen, Unseen, Certified, StartSeen
  <2>2. PICK p \in Cells, d \in 1..8 :
          /\ Seen(p) /\ distance[p] + 1 = distance[x]
          /\ Ahead(p, d) = x /\ Passable(p, d)
    BY <2>1 DEF Certified, DistancesReached
  <2>3. distance[p] \in Nat
    BY <2>2, SeenIsOpen
  <2>4. p \in Level(n)
    BY <2>1, <2>2, <2>3 DEF Level
  <2>5. x \in Neighbours(Open, p)
    BY <1>1, <2>2, <2>4, MovesAgree
  <2> QED
    BY <2>1, <2>4, <2>5 DEF Upto
<1>4. Upto(n) \cup Level(n + 1) = Upto(n + 1)
  BY DEF Upto, Level, Seen, Unseen, Certified
<1>5. (UNION {Neighbours(Open, c) : c \in Level(n)}) \ Upto(n) = Level(n + 1)
  <2> DEFINE N == UNION {Neighbours(Open, c) : c \in Level(n)}
  <2>1. /\ \A x \in N : x \notin Upto(n) => x \in Level(n + 1)
        /\ \A x \in Level(n + 1) : x \in N /\ x \notin Upto(n)
    BY <1>2, <1>3
  <2> HIDE DEF N
  <2>2. N \ Upto(n) = Level(n + 1)
    BY <2>1
  <2> QED
    BY <2>2 DEF N
<1> QED
  BY <1>4, <1>5

(* On the way to the goal no level is empty.                               *)
LEMMA LevelsFull ==
  ASSUME Certified, Seen(goal), NEW n \in 0..distance[goal]
  PROVE  Level(n) # {}
<1>1. distance[goal] \in Nat
  BY SeenIsOpen DEF Certified
<1> DEFINE T == {k \in Nat : k <= distance[goal] => Level(distance[goal] - k) # {}}
<1>2. 0 \in T
  BY <1>1 DEF Level, Certified
<1>3. ASSUME NEW k \in Nat, k \in T PROVE k + 1 \in T
  <2> SUFFICES ASSUME k + 1 <= distance[goal]
               PROVE  Level(distance[goal] - (k + 1)) # {}
    OBVIOUS
  <2>1. PICK c \in Level(distance[goal] - k) : TRUE
    BY <1>1, <1>3
  <2>2. c \in Cells /\ distance[c] = distance[goal] - k /\ distance[c] > 0
    BY <1>1 DEF Level
  <2>3. Seen(c) /\ c # start
    BY <2>2 DEF Seen, Unseen, Certified, StartSeen
  <2>4. PICK p \in Cells, d \in 1..8 : Seen(p) /\ distance[p] + 1 = distance[c]
    BY <2>2, <2>3 DEF Certified, DistancesReached
  <2>5. distance[p] \in Nat
    BY <2>4, SeenIsOpen
  <2> QED
    BY <1>1, <2>2, <2>4, <2>5 DEF Level
<1>4. Nat \subseteq T
  <2> HIDE DEF T
  <2> QED
    BY <1>2, <1>3, Induction
<1>5. distance[goal] - n \in T /\ distance[goal] - (distance[goal] - n) = n
      /\ distance[goal] - n <= distance[goal]
  <2> HIDE DEF T
  <2> QED
    BY <1>1, <1>4
<1> QED
  BY <1>1, <1>5

(* So the goal is not farther than there are open cells.                   *)
LEMMA OpenIsFinite == IsFiniteSet(Open)
<1>1. /\ IsFiniteSet(0..Cols-1) /\ IsFiniteSet(0..Rows-1)
  <2>1. 0 \in Int /\ Cols - 1 \in Int /\ Rows - 1 \in Int
    BY GridAssumption
  <2> QED
    BY <2>1, FS_Interval
<1>2. IsFiniteSet(Cells)
  BY <1>1, FS_Product DEF Cells
<1>3. Open \in SUBSET Cells
  BY DEF Open
<1> QED
  BY <1>2, <1>3, FS_Subset

LEMMA GoalNear ==
  ASSUME Certified, Seen(goal)
  PROVE  distance[goal] <= Cardinality(Open)
<1>1. distance[goal] \in Nat /\ Cardinality(Open) \in Nat
  BY SeenIsOpen, OpenIsFinite, FS_CardinalityType DEF Certified
<1> DEFINE f == [n \in 0..distance[goal] |-> CHOOSE c \in Level(n) : TRUE]
<1>2. \A n \in 0..distance[goal] : f[n] \in Level(n)
  BY LevelsFull
<1>3. \A n \in 0..distance[goal] : f[n] \in Open /\ distance[f[n]] = n
  <2>1. \A n \in 0..distance[goal] : \A c \in Level(n) : c \in Open /\ distance[c] = n
    <3>1. \A n \in 0..distance[goal] : n # Unseen
      BY <1>1 DEF Unseen
    <3> QED
      BY <3>1, SeenIsOpen DEF Level, Seen
  <2> HIDE DEF f
  <2> QED
    BY <1>2, <2>1
<1>4. f \in Injection(0..distance[goal], Open)
  <2>1. f \in [0..distance[goal] -> Open]
    BY <1>3
  <2>2. \A a, b \in 0..distance[goal] : f[a] = f[b] => a = b
    <3> HIDE DEF f
    <3> QED
      BY <1>3
  <2> HIDE DEF f
  <2> QED
    BY <2>1, <2>2 DEF Injection, IsInjective
<1>5. Cardinality(0..distance[goal]) <= Cardinality(Open)
  <2> HIDE DEF f
  <2> QED
    BY <1>4, OpenIsFinite, FS_Injection
<1>6. Cardinality(0..distance[goal]) = distance[goal] + 1
  <2>1. 0 \in Int /\ distance[goal] \in Int /\ ~(0 > distance[goal])
    BY <1>1
  <2>2. Cardinality(0..distance[goal]) = distance[goal] - 0 + 1
    BY <2>1, FS_Interval
  <2> QED
    BY <1>1, <2>2
<1> QED
  BY <1>1, <1>5, <1>6

-----------------------------------------------------------------------------
(* The rounds of the reference, led by the distances                       *)

Searches == [all : SUBSET Cells, last : SUBSET Cells, n : Nat, steps : Int]

(* With a way to the goal the rounds take level after level until they     *)
(* reach it, and then the number of steps stays.                           *)
WithWay(k) ==
  {r \in Searches :
     /\ r.n >= k \/ r.n >= distance[goal]
     /\ r.n <= distance[goal] => r.all = Upto(r.n) /\ r.last = Level(r.n)
     /\ r.n >= distance[goal] => goal \in r.all
     /\ r.steps = IF r.n >= distance[goal] THEN distance[goal] ELSE NoPath}

(* Without a way they never leave the cells seen.                          *)
WithoutWay ==
  {r \in Searches : /\ \A c \in r.all \cup r.last : Seen(c)
                    /\ r.steps = NoPath}

LEMMA RoundIs ==
  ASSUME NEW r \in Searches
  PROVE  LET new == (UNION {Neighbours(Open, c) : c \in r.last}) \ r.all
         IN  /\ new \subseteq Cells
             /\ Round(Open, goal, r) =
                  IF r.last = {} THEN r
                  ELSE [all |-> r.all \cup new, last |-> new, n |-> r.n + 1,
                        steps |-> IF goal \in new THEN r.n + 1 ELSE r.steps]
<1> DEFINE new == (UNION {Neighbours(Open, c) : c \in r.last}) \ r.all
<1>1. \A S : Listed(S) = S
  BY DEF Listed
<1>2. \A c : Neighbours(Open, c) \subseteq Cells
  BY DEF Neighbours, CanMove, Open
<1>3. new \subseteq Cells
  <2> SUFFICES ASSUME NEW x \in new PROVE x \in Cells
    OBVIOUS
  <2>1. PICK c \in r.last : x \in Neighbours(Open, c)
    OBVIOUS
  <2> QED
    BY <1>2, <2>1
<1>4. Round(Open, goal, r) =
        IF r.last = {} THEN r
        ELSE [all |-> Listed(r.all \cup Listed(new)), last |-> Listed(new),
              n |-> r.n + 1,
              steps |-> IF goal \in Listed(new) THEN r.n + 1 ELSE r.steps]
  BY Zenon DEF Round
<1> HIDE DEF new
<1>5. Listed(new) = new /\ Listed(r.all \cup new) = r.all \cup new
  BY <1>1, Zenon
<1> QED
  BY <1>3, <1>4, <1>5 DEF new

LEMMA WithWayLeads ==
  ASSUME Certified, Seen(goal), NEW k \in Nat, NEW r \in WithWay(k)
  PROVE  Round(Open, goal, r) \in WithWay(k + 1)
<1> DEFINE new == (UNION {Neighbours(Open, c) : c \in r.last}) \ r.all
           q == [all |-> r.all \cup new, last |-> new, n |-> r.n + 1,
                 steps |-> IF goal \in new THEN r.n + 1 ELSE r.steps]
<1>1. /\ r \in Searches /\ r.n \in Nat /\ r.steps \in Int
      /\ r.all \subseteq Cells /\ r.last \subseteq Cells
      /\ distance[goal] \in Nat /\ goal \in Cells
  BY SeenIsOpen DEF WithWay, Searches, Certified
<1>2. /\ new \subseteq Cells
      /\ Round(Open, goal, r) = IF r.last = {} THEN r ELSE q
  BY <1>1, RoundIs
<1>3. CASE r.n < distance[goal]
  <2>1. r.n >= k /\ r.all = Upto(r.n) /\ r.last = Level(r.n) /\ r.steps = NoPath
    BY <1>1, <1>3 DEF WithWay
  <2>2. Level(r.n) # {} /\ Nearer(r.n)
    BY <1>1, <1>3, LevelsFull DEF Nearer
  <2>3. new = Level(r.n + 1) /\ r.all \cup new = Upto(r.n + 1)
    BY <1>1, <2>1, <2>2, NextLevel
  <2> HIDE DEF new
  <2>4. Round(Open, goal, r) = q
    BY <1>2, <2>1, <2>2
  <2>5. q \in Searches
    BY <1>1, <1>2 DEF Searches
  <2>6. goal \in new <=> distance[goal] = r.n + 1
    BY <1>1, <2>3 DEF Level
  <2>7. r.n + 1 >= distance[goal] => r.n + 1 = distance[goal]
    BY <1>1, <1>3
  <2>8. q.n >= k + 1 /\ (q.n >= distance[goal] => goal \in q.all)
    BY <1>1, <2>1, <2>6, <2>7
  <2>9. q.steps = IF q.n >= distance[goal] THEN distance[goal] ELSE NoPath
    BY <1>1, <2>1, <2>6, <2>7
  <2>10. q.all = Upto(q.n) /\ q.last = Level(q.n)
    BY <2>3
  <2> HIDE DEF q
  <2> QED
    BY <2>4, <2>5, <2>8, <2>9, <2>10 DEF WithWay
<1>4. CASE r.n >= distance[goal]
  <2>1. goal \in r.all /\ r.steps = distance[goal]
    BY <1>4 DEF WithWay
  <2>2. CASE r.last = {}
    BY <1>2, <1>4, <2>2 DEF WithWay
  <2>3. CASE r.last # {}
    <3>1. goal \notin new
      BY <2>1
    <3> HIDE DEF new
    <3>2. q \in Searches
      BY <1>1, <1>2 DEF Searches
    <3>3. q.n > distance[goal] /\ goal \in q.all /\ q.steps = distance[goal]
      BY <1>1, <1>4, <2>1, <3>1
    <3>4. ~(q.n <= distance[goal]) /\ q.n >= distance[goal]
      BY <1>1, <3>3
    <3> HIDE DEF q
    <3> QED
      BY <1>2, <2>3, <3>2, <3>3, <3>4 DEF WithWay
  <2> QED
    BY <2>2, <2>3
<1> QED
  BY <1>1, <1>3, <1>4

LEMMA WithoutWayLeads ==
  ASSUME Certified, ~Seen(goal), NEW r \in WithoutWay
  PROVE  Round(Open, goal, r) \in WithoutWay
<1> DEFINE new == (UNION {Neighbours(Open, c) : c \in r.last}) \ r.all
           q == [all |-> r.all \cup new, last |-> new, n |-> r.n + 1,
                 steps |-> IF goal \in new THEN r.n + 1 ELSE r.steps]
<1>1. /\ r \in Searches /\ r.n \in Nat /\ r.steps = NoPath
      /\ r.all \subseteq Cells /\ r.last \subseteq Cells
      /\ \A c \in r.all \cup r.last : Seen(c)
  BY DEF WithoutWay, Searches
<1>2. /\ new \subseteq Cells
      /\ Round(Open, goal, r) = IF r.last = {} THEN r ELSE q
  BY <1>1, RoundIs
<1>3. ASSUME NEW x \in new PROVE Seen(x)
  <2>1. PICK c \in r.last : x \in Neighbours(Open, c)
    OBVIOUS
  <2>2. c \in Cells /\ Seen(c) /\ c \in Open /\ Nearer(distance[c])
    BY <1>1, SeenIsOpen DEF Nearer
  <2>3. PICK d \in 1..8 : Passable(c, d) /\ x = Ahead(c, d)
    BY <2>1, <2>2, MovesAgree
  <2> QED
    BY <2>2, <2>3 DEF Certified, Complete
<1>4. goal \notin new
  BY <1>3
<1> HIDE DEF new
<1>5. q \in WithoutWay
  BY <1>1, <1>2, <1>3, <1>4 DEF WithoutWay, Searches, NoPath
<1> QED
  BY <1>1, <1>2, <1>5

(* What the distances certify is what the reference computes.              *)
LEMMA CertifiedIsShortest ==
  ASSUME Certified
  PROVE  ShortestSteps(Open, start, goal) = distance[goal]
<1>1. /\ start \in Cells /\ goal \in Cells /\ distance[start] = 0 /\ Seen(start)
      /\ start = goal <=> distance[goal] = 0
      /\ \A c \in Cells : distance[c] \in Nat \cup {Unseen}
  BY DEF Certified, Walkables, StartSeen, Open, Seen, Unseen
<1>2. /\ Unmoved(start, goal) \in Searches
      /\ Unmoved(start, goal).all = {start} /\ Unmoved(start, goal).last = {start}
      /\ Unmoved(start, goal).n = 0
      /\ Unmoved(start, goal).steps = IF start = goal THEN 0 ELSE NoPath
  BY <1>1 DEF Unmoved, Searches, NoPath
<1>3. ShortestSteps(Open, start, goal) = Rounds(Open, start, goal).steps
  BY DEF ShortestSteps, Certified, Walkables
<1>4. CASE Seen(goal)
  <2> DEFINE Good == [k \in Nat |-> WithWay(k)]
  <2>1. distance[goal] \in Nat /\ distance[goal] <= Cardinality(Open)
        /\ Cardinality(Open) \in Nat
    BY <1>4, SeenIsOpen, GoalNear, OpenIsFinite, FS_CardinalityType DEF Certified
  <2>2. Upto(0) = {start} /\ Level(0) = {start}
    BY <1>1 DEF Upto, Level, Seen, Unseen, Certified, StartSeen
  <2>3. Unmoved(start, goal) \in Good[0]
    <3>1. Unmoved(start, goal) \in WithWay(0)
      BY <1>1, <1>2, <2>1, <2>2 DEF WithWay
    <3> QED
      BY <3>1
  <2>4. Leads(Open, goal, Good)
    <3> SUFFICES ASSUME NEW i \in Nat, NEW q \in Good[i]
                 PROVE  Round(Open, goal, q) \in Good[i + 1]
      BY DEF Leads
    <3>1. q \in WithWay(i) /\ i + 1 \in Nat
      OBVIOUS
    <3>2. Round(Open, goal, q) \in WithWay(i + 1)
      BY <1>4, <3>1, WithWayLeads
    <3> QED
      BY <3>1, <3>2
  <2>5. PICK n \in Nat : /\ n >= Cardinality(Open)
                         /\ Rounds(Open, start, goal) \in Good[n]
    <3> HIDE DEF Good
    <3> QED
      BY <2>3, <2>4, OpenIsFinite, RoundsLead
  <2> DEFINE r == Rounds(Open, start, goal)
  <2>6. r \in WithWay(n)
    BY <2>5
  <2> HIDE DEF r
  <2>7. /\ r.n \in Nat /\ (r.n >= n \/ r.n >= distance[goal])
        /\ r.steps = IF r.n >= distance[goal] THEN distance[goal] ELSE NoPath
    BY <2>6 DEF WithWay, Searches
  <2>8. r.steps = distance[goal]
    BY <2>1, <2>5, <2>7
  <2> QED
    BY <1>3, <2>8 DEF r
<1>5. CASE ~Seen(goal)
  <2> DEFINE Good == [k \in Nat |-> WithoutWay]
  <2>1. start # goal
    BY <1>1, <1>5
  <2>2. Unmoved(start, goal) \in Good[0]
    BY <1>1, <1>2, <2>1 DEF WithoutWay
  <2>3. Leads(Open, goal, Good)
    BY <1>5, WithoutWayLeads DEF Leads
  <2>4. PICK n \in Nat : Rounds(Open, start, goal) \in Good[n]
    <3> HIDE DEF Good
    <3> QED
      BY <2>2, <2>3, OpenIsFinite, RoundsLead
  <2>5. Rounds(Open, start, goal).steps = NoPath
    BY <2>4 DEF WithoutWay
  <2> QED
    BY <1>3, <1>5, <2>5 DEF Seen, Unseen, NoPath
<1> QED
  BY <1>4, <1>5

-----------------------------------------------------------------------------
(* The answer                                                              *)

(* Until the answer is known the goal, once seen, waits in the queue; with *)
(* it, no shorter way to the goal is left to be found.                     *)
AnswerInv ==
  /\ StartSeen
  /\ result = Pending => Walkables
  /\ result = Pending /\ Seen(goal) => \E i \in DOMAIN queue : queue[i] = goal
  /\ result # Pending =>
       /\ dir = Idle
       /\ IF Walkables THEN Complete /\ result = distance[goal]
          ELSE result = NoPath

LEMMA InitAnswer == Init => AnswerInv
<1> SUFFICES ASSUME Init PROVE AnswerInv
  OBVIOUS
<1>1. \A c \in Cells : distance[c] = IF c = start THEN 0 ELSE -1
  BY DEF Init, Unseen
<1>2. StartSeen
  BY <1>1 DEF StartSeen
<1>3. \A c \in Cells : Walkable(c[1], c[2]) <=> c \in Open
  BY DEF Walkable, Open, Cells
<1>4. result = IF Walkables THEN Pending ELSE NoPath
  BY <1>3 DEF Init, Walkables
<1>5. Seen(goal) => goal = start /\ 1 \in DOMAIN queue /\ queue[1] = start
  BY <1>1 DEF Init, Seen, Unseen
<1>6. dir = Idle /\ Pending # NoPath
  BY DEF Init, Pending, NoPath
<1>7. Seen(goal) => \E i \in DOMAIN queue : queue[i] = goal
  BY <1>5
<1>8. CASE Walkables
  BY <1>2, <1>4, <1>7, <1>8 DEF AnswerInv
<1>9. CASE ~Walkables
  BY <1>2, <1>4, <1>6, <1>9 DEF AnswerInv
<1> QED
  BY <1>8, <1>9

LEMMA TakeAnswer == IInv /\ AnswerInv /\ Take => AnswerInv'
<1> SUFFICES ASSUME IInv, AnswerInv, Take PROVE AnswerInv'
  OBVIOUS
<1>1. /\ result = Pending /\ dir = Idle /\ queue \in Seq(Cells)
      /\ queue # <<>> /\ queue' = Tail(queue)
      /\ distance' = distance /\ UNCHANGED map
  BY DEF Take, TypeOK, IInv
<1>2. /\ 1 \in DOMAIN queue /\ Head(queue) = queue[1] /\ Head(queue) \in Cells
      /\ \A i \in DOMAIN queue :
           i # 1 => i - 1 \in DOMAIN Tail(queue)
                      /\ queue[i] = Tail(queue)[i - 1]
  BY <1>1, QueueTaken
<1>3. /\ StartSeen' <=> StartSeen
      /\ Walkables' <=> Walkables
      /\ Complete' <=> Complete
      /\ Seen(goal)' <=> Seen(goal)
  BY <1>1, PassableKept
  DEF StartSeen, Walkables, Open, Complete, Nearer, Seen, map
<1>4. CASE Head(queue) = goal
  <2>1. result' = distance[goal] /\ dir' = dir
    BY <1>1, <1>4 DEF Take
  <2>2. Seen(goal) /\ distance[goal] \in Nat
    BY <1>2, <1>4 DEF IInv, QueueOrdered, TypeOK, Seen
  <2>3. Complete
    <3> SUFFICES ASSUME NEW c \in Cells, Seen(c), distance[c] < distance[goal],
                        NEW d \in 1..8, Passable(c, d)
                 PROVE  /\ Seen(Ahead(c, d))
                        /\ distance[Ahead(c, d)] <= distance[c] + 1
      BY <2>2 DEF Complete, Nearer
    <3>1. \A i \in DOMAIN queue : distance[goal] <= distance[queue[i]]
      <4>1. DOMAIN queue \subseteq Nat \ {0}
        BY <1>1
      <4>2. \A i \in DOMAIN queue : i = 1 \/ 1 < i
        BY <4>1
      <4> QED
        BY <1>2, <1>4, <2>2, <4>2 DEF IInv, QueueOrdered
    <3>2. \A i \in DOMAIN queue : queue[i] # c
      <4>1. distance[c] \in Nat
        BY DEF IInv, TypeOK, Seen
      <4> QED
        BY <2>2, <3>1, <4>1
    <3>3. d < dir
      BY <1>1 DEF Idle
    <3> QED
      BY <1>1, <3>2, <3>3 DEF IInv, ExpandedComplete
  <2>4. distance'[goal'] = distance[goal]
    BY <1>1 DEF map
  <2>5. result' # Pending
    BY <2>1, <2>2 DEF Pending
  <2> QED
    BY <1>1, <1>3, <2>1, <2>3, <2>4, <2>5 DEF AnswerInv
<1>5. CASE Head(queue) # goal
  <2>1. result' = Pending
    BY <1>1, <1>5 DEF Take
  <2>2. Seen(goal) => \E i \in DOMAIN queue' : queue'[i] = goal
    BY <1>1, <1>2, <1>5 DEF AnswerInv
  <2>3. goal' = goal
    BY <1>1 DEF map
  <2> QED
    BY <1>1, <1>3, <2>1, <2>2, <2>3 DEF AnswerInv
<1> QED
  BY <1>4, <1>5

LEMMA LookAnswer == IInv /\ IInv' /\ AnswerInv /\ Look => AnswerInv'
<1> SUFFICES ASSUME IInv, IInv', AnswerInv, Look PROVE AnswerInv'
  OBVIOUS
<1>1. /\ result = Pending /\ result' = result /\ UNCHANGED map
      /\ queue \in Seq(Cells) /\ goal' = goal /\ start' = start
  BY DEF Look, AnswerInv, IInv, TypeOK, map
<1>2. Walkables'
  BY <1>1 DEF AnswerInv, Walkables, Open, map
<1>3. CASE Passable(current, dir) /\ distance[Ahead(current, dir)] = Unseen
  <2> DEFINE next == Ahead(current, dir)
  <2>1. /\ distance' = [distance EXCEPT ![next] = distance[current] + 1]
        /\ queue' = Append(queue, next) /\ next \in Cells
    BY <1>3, PassableInGrid DEF Look
  <2>2. distance[next] = Unseen
    BY <1>3
  <2> HIDE DEF next
  <2>3. /\ \A i \in DOMAIN queue : i \in DOMAIN queue' /\ queue'[i] = queue[i]
        /\ \E i \in DOMAIN queue' : queue'[i] = next
    BY <1>1, <2>1, QueueGrown
  <2>4. distance[current] \in Nat /\ distance \in [Cells -> Nat \cup {Unseen}]
    BY DEF IInv, FrontierNear, TypeOK, Seen
  <2>5. distance'[next] # 0 /\ \A c \in Cells : c # next => distance'[c] = distance[c]
    BY <2>1, <2>4
  <2>6. StartSeen'
    BY <1>1, <2>2, <2>5 DEF AnswerInv, StartSeen, Unseen
  <2>7. Seen(goal)' => \E i \in DOMAIN queue' : queue'[i] = goal
    <3>1. CASE goal = next
      BY <2>3, <3>1
    <3>2. CASE goal # next
      <4>1. Seen(goal)' => Seen(goal)
        BY <1>1, <2>5, <3>2 DEF IInv, TypeOK, Seen
      <4> QED
        BY <1>1, <2>3, <4>1 DEF AnswerInv
    <3> QED
      BY <3>1, <3>2
  <2> QED
    BY <1>1, <1>2, <2>6, <2>7 DEF AnswerInv
<1>4. CASE ~(Passable(current, dir) /\ distance[Ahead(current, dir)] = Unseen)
  <2>1. distance' = distance /\ queue' = queue
    BY <1>4 DEF Look
  <2>2. StartSeen' /\ (Seen(goal)' <=> Seen(goal))
    BY <1>1, <2>1 DEF AnswerInv, StartSeen, Seen
  <2> QED
    BY <1>1, <1>2, <2>1, <2>2 DEF AnswerInv
<1> QED
  BY <1>3, <1>4

LEMMA RestAnswer ==
  IInv /\ AnswerInv /\ (Exhausted \/ UNCHANGED vars) => AnswerInv'
<1> SUFFICES ASSUME IInv, AnswerInv, Exhausted \/ UNCHANGED vars
             PROVE  AnswerInv'
  OBVIOUS
<1>1. /\ UNCHANGED map /\ UNCHANGED <<distance, queue, dir>> /\ goal' = goal
  BY DEF Exhausted, vars, map
<1>2. /\ StartSeen' <=> StartSeen
      /\ Walkables' <=> Walkables
      /\ Complete' <=> Complete
      /\ Seen(goal)' <=> Seen(goal)
  BY <1>1, PassableKept
  DEF StartSeen, Walkables, Open, Complete, Nearer, Seen, map
<1>3. CASE Exhausted
  <2>1. /\ result = Pending /\ result' = NoPath /\ queue = <<>> /\ dir = Idle
    BY <1>3 DEF Exhausted
  <2>2. ~Seen(goal) /\ Walkables
    BY <2>1 DEF AnswerInv
  <2>3. Complete
    <3> SUFFICES ASSUME NEW c \in Cells, Seen(c), NEW d \in 1..8, Passable(c, d)
                 PROVE  /\ Seen(Ahead(c, d))
                        /\ distance[Ahead(c, d)] <= distance[c] + 1
      BY DEF Complete
    <3>1. d < dir /\ \A i \in DOMAIN queue : queue[i] # c
      BY <2>1 DEF Idle
    <3> QED
      BY <2>1, <3>1 DEF IInv, ExpandedComplete
  <2>4. distance'[goal'] = NoPath /\ NoPath # Pending
    BY <1>1, <2>2 DEF Seen, Unseen, NoPath, Pending
  <2> QED
    BY <1>1, <1>2, <2>1, <2>2, <2>3, <2>4 DEF AnswerInv
<1>4. CASE UNCHANGED vars
  <2>1. result' = result
    BY <1>4 DEF vars
  <2> QED
    BY <1>1, <1>2, <2>1 DEF AnswerInv
<1> QED
  BY <1>3, <1>4

(* On every grid and map the search returns the length of a shortest path  *)
(* by the client's rule of movement, and -1 exactly when there is none: a  *)
(* map that shortest_action_steps accepts MazeEnv accepts too.             *)
THEOREM SearchIsExact == Spec => []SearchExact
<1>1. IInv /\ IInv' /\ AnswerInv /\ [Next]_vars => AnswerInv'
  BY TakeAnswer, LookAnswer, RestAnswer DEF Next, Returned
<1>2. IInv /\ AnswerInv => SearchExact
  <2> SUFFICES ASSUME IInv, AnswerInv, result # Pending
               PROVE  result = ShortestSteps(Open, start, goal)
    BY DEF SearchExact, Open
  <2>1. CASE Walkables
    <3>1. Certified /\ result = distance[goal]
      BY <2>1 DEF IInv, TypeOK, AnswerInv, Certified
    <3> QED
      BY <3>1, CertifiedIsShortest
  <2>2. CASE ~Walkables
    BY <2>2 DEF AnswerInv, Walkables, ShortestSteps
  <2> QED
    BY <2>1, <2>2
<1> QED
  BY <1>1, <1>2, InitAnswer, Invariance, PTL DEF Spec
=============================================================================
