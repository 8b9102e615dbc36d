------------------------ MODULE ManagedRuntimeProofs ------------------------
(***************************************************************************)
(* What run.sh promises of its receipt and of its end, for any number of   *)
(* starts, signals and looks for the marker. Fairness plays no part.       *)
(***************************************************************************)
EXTENDS ManagedRuntime, TLAPS

(* Where the wrapper is says whether there is a client, and files.         *)
PlaceInv ==
  /\ at \in {"down", "clear", "spawn"} => client = "none"
  /\ at = "spawn" => marker = 0 /\ receipt = 0
  /\ at \in {"poll", "alive", "publish"} => managed
  /\ at = "publish" => marker # 0
  /\ at = "exited" /\ managed => client \notin Alive
  /\ at = "removed" => receipt = 0

(* Without the platform there are no files; a marker that is there once    *)
(* old ones are removed is of this start's connected client.               *)
MarkerInv ==
  /\ ~managed => marker = 0 /\ receipt = 0
  /\ at \notin {"down", "clear"} /\ marker # 0 =>
       marker = run /\ client \notin {"starting", "connecting", "connected"}

(* A client that shutdown does not know of was just started, or a signal   *)
(* came in that moment; shutdown leaves no other one alive, and a marker   *)
(* that is there after it has removed the files is of such a one.          *)
KnownInv ==
  /\ client \in Alive /\ ~known => at = "forked" \/ gap
  /\ at \in {"remove", "removed"} /\ client \in Alive => gap
  /\ at = "removed" /\ marker # 0 => gap

(* Before any signal, status 0 is that of the client.                      *)
CodeInv == at # "down" /\ sent = 0 /\ code = "ok" => client = "clean"

IInv ==
  /\ TypeOK /\ PlaceInv /\ MarkerInv /\ KnownInv /\ CodeInv
  /\ ReceiptTrue /\ CleanExit

LEMMA InitIInv == Init => IInv
<1> SUFFICES ASSUME Init PROVE IInv
  OBVIOUS
<1>1. /\ managed \in BOOLEAN /\ known \in BOOLEAN /\ stopping \in BOOLEAN
      /\ gap \in BOOLEAN /\ cut \in BOOLEAN
  BY Zenon DEF Init
<1>2. /\ run \in 0..MaxRuns /\ polls \in 0..MaxPolls /\ sent \in 0..MaxSignals
      /\ marker \in 0..run /\ receipt \in 0..run
  <2>1. run = 0 /\ polls = 0 /\ sent = 0 /\ marker = 0 /\ receipt = 0
    BY Zenon DEF Init
  <2> QED
    BY <2>1, RuntimeAssumption
<1>3. at = "down" /\ code = "none" /\ client = "none"
  BY Zenon DEF Init
<1>4. marker = 0 /\ receipt = 0
  BY Zenon DEF Init
<1>5. TypeOK
  BY <1>1, <1>2, <1>3 DEF TypeOK, Alive, Gone, Trapped
<1>6. PlaceInv /\ MarkerInv /\ KnownInv /\ CodeInv /\ ReceiptTrue /\ CleanExit
  BY <1>3, <1>4
  DEF PlaceInv, MarkerInv, KnownInv, CodeInv, ReceiptTrue, CleanExit, Alive
<1> QED
  BY <1>5, <1>6 DEF IInv

LEMMA NextIInv == IInv /\ [Next]_vars => IInv'
<1> SUFFICES ASSUME IInv, [Next]_vars PROVE IInv'
  OBVIOUS
<1> USE RuntimeAssumption
    DEF IInv, TypeOK, PlaceInv, MarkerInv, KnownInv, CodeInv, ReceiptTrue,
        CleanExit, Alive, Gone, Trapped, files
<1>1. CASE Start
  <2> HIDE DEF IInv, TypeOK, PlaceInv, MarkerInv, KnownInv, CodeInv,
               ReceiptTrue, CleanExit, Alive, Gone, Trapped
  <2>1. /\ managed' \in BOOLEAN /\ known' \in BOOLEAN /\ stopping' \in BOOLEAN
        /\ gap' \in BOOLEAN /\ cut' \in BOOLEAN
    BY <1>1, Zenon DEF Start, IInv, TypeOK
  <2>2. /\ run' = run + 1 /\ run < MaxRuns /\ polls' = 0 /\ sent' = 0
        /\ marker' = marker /\ receipt' = receipt /\ managed' = managed
    BY <1>1, Zenon DEF Start, files
  <2>3. at' = "clear" /\ code' = "none" /\ client' = "none"
    BY <1>1, Zenon DEF Start
  <2>4. /\ run' \in 0..MaxRuns /\ polls' \in 0..MaxPolls
        /\ sent' \in 0..MaxSignals
        /\ marker' \in 0..run' /\ receipt' \in 0..run'
    <3>1. run \in 0..MaxRuns /\ marker \in 0..run /\ receipt \in 0..run
      BY Zenon DEF IInv, TypeOK
    <3> QED
      BY <2>2, <3>1
  <2>5. TypeOK'
    BY <2>1, <2>3, <2>4 DEF TypeOK, Alive, Gone, Trapped
  <2>6. ~managed => marker = 0 /\ receipt = 0
    BY Zenon DEF IInv, MarkerInv
  <2>7. /\ PlaceInv' /\ MarkerInv' /\ KnownInv' /\ CodeInv' /\ ReceiptTrue'
        /\ CleanExit'
    BY <2>2, <2>3, <2>6
    DEF PlaceInv, MarkerInv, KnownInv, CodeInv, ReceiptTrue, CleanExit, Alive
  <2> QED
    BY <2>5, <2>7 DEF IInv
<1>2. CASE Refuse
  BY <1>2 DEF Refuse
<1>3. CASE Clear
  BY <1>3 DEF Clear
<1>4. CASE Spawn
  BY <1>4 DEF Spawn
<1>5. CASE NoteClient
  BY <1>5 DEF NoteClient
<1>6. CASE LookForMarker
  BY <1>6 DEF LookForMarker
<1>7. CASE PollAgain
  BY <1>7 DEF PollAgain
<1>8. CASE NotReady
  BY <1>8 DEF NotReady
<1>9. CASE Publish
  BY <1>9 DEF Publish
<1>10. CASE Waited
  BY <1>10 DEF Waited
<1>11. CASE Leave
  BY <1>11 DEF Leave
<1>12. CASE Terminate
  BY <1>12 DEF Terminate
<1>13. CASE Reaped
  BY <1>13 DEF Reaped
<1>14. CASE Kill
  BY <1>14 DEF Kill
<1>15. CASE Remove
  BY <1>15 DEF Remove
<1>23. CASE Quit
  BY <1>23 DEF Quit, Exit
<1>16. CASE OnSignal
  <2>1. gap' \in BOOLEAN /\ (gap => gap') /\ (at = "forked" => gap')
    BY <1>16, Zenon DEF OnSignal
  <2>2. sent' \in 0..MaxSignals /\ sent' # 0
    <3>1. sent' = sent + 1 /\ sent < MaxSignals /\ sent \in 0..MaxSignals
      BY <1>16, Zenon DEF OnSignal
    <3> QED
      BY <3>1
  <2>3. /\ code' = "ok" /\ managed' = managed /\ run' = run
        /\ polls' = polls /\ known' = known
        /\ marker' = marker /\ receipt' = receipt /\ at \in Trapped
    BY <1>16, Zenon DEF OnSignal
  <2>4. CASE ~stopping
    <3>1. at' = "term" /\ client' = client /\ cut' = cut /\ stopping' = TRUE
      BY <1>16, <2>4, Zenon DEF OnSignal
    <3>2. stopping' \in BOOLEAN /\ cut' \in BOOLEAN
      BY <3>1, Zenon
    <3> QED
      BY <2>1, <2>2, <2>3, <3>1, <3>2
  <2>5. CASE stopping
    <3>1. /\ at' = "exited" /\ cut' = (cut \/ at # "removed")
          /\ stopping' = stopping
          /\ client' = IF managed /\ client \in Alive THEN "killed" ELSE client
      BY <1>16, <2>5, Zenon DEF OnSignal, Exit
    <3>2. /\ stopping' \in BOOLEAN /\ cut' \in BOOLEAN
          /\ at # "removed" => cut'
      BY <3>1, Zenon
    <3> QED
      BY <2>1, <2>2, <2>3, <3>1, <3>2
  <2> QED
    BY <2>4, <2>5
<1>17. CASE Prepare
  BY <1>17 DEF Prepare, ClientAt
<1>18. CASE Connect
  BY <1>18 DEF Connect, ClientAt
<1>19. CASE PublishMarker
  BY <1>19 DEF PublishMarker, ClientAt
<1>20. CASE RunEnds
  BY <1>20 DEF RunEnds, ClientAt
<1>21. CASE Crash
  BY <1>21 DEF Crash
<1>22. CASE UNCHANGED vars
  BY <1>22 DEF vars
<1> HIDE DEF IInv, TypeOK, PlaceInv, MarkerInv, KnownInv, CodeInv,
             ReceiptTrue, CleanExit, Alive, Gone, Trapped, files
<1> QED
  BY <1>1, <1>2, <1>3, <1>4, <1>5, <1>6, <1>7, <1>8, <1>9, <1>10, <1>11,
     <1>12, <1>13, <1>14, <1>15, <1>16, <1>17, <1>18, <1>19, <1>20, <1>21,
     <1>22, <1>23 DEF Next, Wrapper, Stopped

(* The inductive invariant holds at every step of every start. *)
THEOREM Invariance == Spec => []IInv
  BY InitIInv, NextIInv, PTL DEF Spec

(* Whatever is killed, restarted or signalled: a receipt that this start   *)
(* can see is its own, of a client that has connected.                     *)
THEOREM ReceiptHolds == Spec => []ReceiptSound
<1>1. IInv => ReceiptSound
  BY DEF IInv, ReceiptSound
<1> QED
  BY <1>1, Invariance, PTL

(* A wrapper whose clean-up is not cut leaves no receipt, and neither a    *)
(* client nor a marker but of a client whose pid a signal kept it from     *)
(* noting; without a signal it tells how the client ended.                 *)
THEOREM ExitHolds == Spec => []ExitSound
<1>1. IInv => ExitSound
  BY DEF IInv, ExitSound, CodeInv, ExitTold
<1> QED
  BY <1>1, Invariance, PTL
=============================================================================
