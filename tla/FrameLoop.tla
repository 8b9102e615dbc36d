----------------------------- MODULE FrameLoop -----------------------------
(***************************************************************************)
(* What RunEpisode (rl_sdk/session.h) promises to the two sides it joins,  *)
(* the lifecycle protocol and the environment, one Episode after another:  *)
(* a frame is executed only after its predecessor's result was reported    *)
(* and the report was applied, the Episode is ended only after a report of *)
(* a final result was applied, and no frame follows the last one.          *)
(*                                                                         *)
(* SessionProtocol, which knows the protocol and leaves the environment    *)
(* open, and MazeEpisode, which knows the environment and leaves the       *)
(* protocol open, are both shown to implement it.                          *)
(***************************************************************************)
EXTENDS Naturals

CONSTANT MaxFrames   \* frames of an Episode, at least one: max_steps

VARIABLES
  stage,             \* the step RunEpisode is in; "Ended" when it returned
                     \* Applied, "Away" when no Episode is running
  frame,             \* the environment's frame id
  allDone            \* the environment's final result

loopVars == <<stage, frame, allDone>>

Init ==
  /\ stage = "Away"
  /\ frame = 0
  /\ allDone = FALSE

(* The environment is reset; the Episode may still not be run. *)
Restart ==
  /\ stage \in {"Away", "Ended"}
  /\ stage' \in {"Observing", "Away"}
  /\ frame' = 0
  /\ allDone' = FALSE

Report ==
  /\ stage = "Observing"
  /\ stage' = "Reporting"
  /\ UNCHANGED <<frame, allDone>>

Reported ==
  /\ stage = "Reporting"
  /\ stage' = IF allDone THEN "Ended" ELSE "Applying"
  /\ UNCHANGED <<frame, allDone>>

Advance ==
  /\ stage = "Applying"
  /\ stage' = "Observing"
  /\ frame' = frame + 1
  /\ allDone' \in {done \in BOOLEAN : frame + 1 >= MaxFrames => done}

(* A stop, or a failure of the exchange or of the environment; or the end  *)
(* of an Episode.                                                          *)
Leave ==
  /\ stage # "Away"
  /\ stage' = "Away"
  /\ UNCHANGED <<frame, allDone>>

Next == Restart \/ Report \/ Reported \/ Advance \/ Leave

Spec == Init /\ [][Next]_loopVars
=============================================================================
