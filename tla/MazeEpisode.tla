---------------------------- MODULE MazeEpisode ----------------------------
(***************************************************************************)
(* The Episodes of one Session as the Maze Client runs them:               *)
(*                                                                         *)
(*   MazeEnv                     grid, agents, frames        maze_env.cpp  *)
(*   AgentExecutionCursor        receipts of executed actions              *)
(*     and the functions on it                           action_receipt.h  *)
(*   MazeClientAdapter::Impl     observe, exchange, apply  client_adapter  *)
(*                                                                         *)
(* The exchange of an Update is here what SessionProtocol shows it to be:  *)
(* the report was applied once and answered, or the Episode is over. The   *)
(* answer is any action batch, sensible or not.                            *)
(***************************************************************************)
EXTENDS MazeGrid, Sequences, FiniteSets

CONSTANTS
  Agents,          \* agent ids of the assignment
  Stranger,        \* an agent id outside of it
  Cols, Rows,      \* the grid's size
  Blocked,         \* the map's blocked cells
  Start, Goal,     \* the map's start and goal cells
  MaxSteps,        \* the assignment's max_steps
  MaxEpisodes      \* bound: Episodes run in the Session

Cells == (0..Cols-1) \X (0..Rows-1)

(* Open, MazeEnv::Init and Begin refuse every other assignment and map. *)
ASSUME EpisodeAssumption ==
  /\ IsFiniteSet(Agents) /\ Agents # {} /\ Stranger \notin Agents
  /\ Cols \in Nat \ {0} /\ Rows \in Nat \ {0}
  /\ Blocked \subseteq Cells
  /\ Start \in Cells \ Blocked /\ Goal \in Cells \ Blocked /\ Start # Goal
  /\ MaxSteps \in Nat \ {0}
  /\ MaxEpisodes \in Nat

VARIABLES
  maskRequired,    \* action_mask_mode of the Session: REQUIRED or DISABLED
  stage,           \* what the client is doing
  frame,           \* MazeEnv::frame_id_
  agents,          \* MazeEnv::agents_
  cursors,         \* the adapter's agent_execution
  report,          \* the UpdateReq, while it is being exchanged
  batch,           \* the action batch, while it is being executed
  executed,        \* how many actions of the batch were executed
  refused,         \* the client's own chain refused a report or an action
  episodes,        \* Episodes begun
  assigned,        \* history: each agent's last action in an applied Update
  finals           \* history: each agent's done states in applied reports

envVars == <<frame, agents>>
vars == <<maskRequired, stage, frame, agents, cursors, report, batch,
          executed, refused, episodes, assigned, finals>>

-----------------------------------------------------------------------------
(* The grid                                                                *)

Target(cell, a) == <<cell[1] + Dx[a], cell[2] + Dy[a]>>

IsWalkable(cell) == cell \in Cells \ Blocked

(* A diagonal step needs both cells beside it. *)
CornersFree(cell, a) ==
  Dx[a] # 0 /\ Dy[a] # 0 =>
    /\ IsWalkable(<<cell[1] + Dx[a], cell[2]>>)
    /\ IsWalkable(<<cell[1], cell[2] + Dy[a]>>)

(* The cells one action away from some of the given ones, and these.       *)
OneFurther(nearer) ==
  nearer \cup {Target(s[1], s[2]) : s \in
                 {t \in nearer \X (Actions \ {0}) :
                    /\ IsWalkable(Target(t[1], t[2]))
                    /\ CornersFree(t[1], t[2])}}

(* ComputeShortestActionSteps, its search taken layer by layer: the cells  *)
(* at most n actions from the start, for as many as an Episode has.        *)
Layer[n \in 0..MaxSteps] ==
  IF n = 0 THEN {Start} ELSE OneFurther(Layer[n - 1])

-----------------------------------------------------------------------------
(* The environment and the receipts                                        *)

NoAction == -1

Agent == [pos : Cells, done : BOOLEAN, blocked : BOOLEAN,
          reason : {"Active", "GoalReached", "TimeLimit"}]

Cursor == [retired : BOOLEAN, executed : Actions \cup {NoAction}]

ResetAgents == [a \in Agents |-> [pos |-> Start, done |-> FALSE,
                                  blocked |-> FALSE, reason |-> "Active"]]

FreshCursors == [a \in Agents |-> [retired |-> FALSE,
                                   executed |-> NoAction]]

AllDone == \A a \in Agents : agents[a].done

(* Mutant: diagonal moves between two walls. *)
AvailableAcrossCorners(agent, action) ==
  /\ ~agent.done /\ action \in Actions
  /\ IsWalkable(Target(agent.pos, action))

IsActionAvailable(agent, action) ==
  /\ ~agent.done /\ action \in Actions
  /\ IsWalkable(Target(agent.pos, action))
  /\ CornersFree(agent.pos, action)

(* Mutant: the time limit is noticed a frame late. *)
TimeoutLate == frame >= MaxSteps

CheckTimeout == frame + 1 >= MaxSteps

(* Mutant: the time limit is judged before the goal. *)
SteppedTimeoutFirst(agent, action) ==
  LET moves == IsActionAvailable(agent, action)
      pos   == IF moves THEN Target(agent.pos, action) ELSE agent.pos
      why   == IF CheckTimeout THEN "TimeLimit"
               ELSE IF pos = Goal THEN "GoalReached" ELSE "Active"
  IN  [pos |-> pos, done |-> why # "Active",
       blocked |-> action # 0 /\ ~moves, reason |-> why]

(* MazeEnv::Step on an action it accepts: move if possible, then judge. *)
Stepped(agent, action) ==
  LET moves == IsActionAvailable(agent, action)
      pos   == IF moves THEN Target(agent.pos, action) ELSE agent.pos
      why   == IF pos = Goal THEN "GoalReached"
               ELSE IF CheckTimeout THEN "TimeLimit" ELSE "Active"
  IN  [pos |-> pos, done |-> why # "Active",
       blocked |-> action # 0 /\ ~moves, reason |-> why]

(* What Step, and after it RecordExecutedAction, require of an action. *)
CanStep(a, action) ==
  a \in Agents /\ action \in Actions /\ ~agents[a].done

CanRecord(a, action) ==
  /\ action \in Actions
  /\ ~cursors[a].retired
  /\ cursors[a].executed = NoAction

(* What AttachExecutedActionReceipt requires of a reported agent. *)
CanAttach(a) ==
  IF frame = 0 THEN cursors[a].executed = NoAction
  ELSE cursors[a].executed \in Actions

(* Mutant: availability without the walls beside a diagonal. *)
MaskAcrossCorners(agent) ==
  {action \in Actions : AvailableAcrossCorners(agent, action)}

GetActionMask(agent) ==
  {action \in Actions : IsActionAvailable(agent, action)}

-----------------------------------------------------------------------------
(* The report and the validation of its answer                             *)

(* One entry per agent that is not retired. A state without a mask allows  *)
(* every action.                                                           *)
AgentState == [done : BOOLEAN, mask : SUBSET Actions,
               executed : Actions \cup {NoAction}]

NoReport == [a \in {} |-> NoAction]

Reporting == {a \in Agents : ~cursors[a].retired}

BuildReport ==
  [a \in Reporting |->
     [done |-> agents[a].done,
      mask |-> IF maskRequired /\ ~agents[a].done
               THEN GetActionMask(agents[a]) ELSE Actions,
      executed |-> IF frame = 0 THEN NoAction ELSE cursors[a].executed]]

(* Answers: up to one action per agent, for any agent and any action id; 9 *)
(* stands for every id outside the contract.                               *)
Answer == [agent : Agents \cup {Stranger}, action : 0..9]
Batches == UNION {[1..n -> Answer] : n \in 0..Cardinality(Agents)}

(* PrepareAppliedAgentUpdate on the request: it agrees with the cursors.   *)
RequestConsistent ==
  /\ Cardinality(DOMAIN report) = Cardinality(Reporting)
  /\ \A a \in DOMAIN report :
       /\ a \in Reporting
       /\ report[a].executed = cursors[a].executed
       /\ report[a].executed \in IF frame = 0 THEN {NoAction} ELSE Actions

Expected == {a \in DOMAIN report : ~report[a].done}

(* Mutant: the number of actions is not compared. *)
AcceptsShortBatch(b) ==
  /\ \A i \in DOMAIN b :
       /\ b[i].action \in Actions
       /\ b[i].agent \in Expected
       /\ b[i].action \in report[b[i].agent].mask
  /\ \A i, j \in DOMAIN b : b[i].agent = b[j].agent => i = j

(* ... and on the answer: one valid action per agent that is not done.     *)
BatchAccepted(b) ==
  /\ Len(b) = Cardinality(Expected)
  /\ \A i \in DOMAIN b :
       /\ b[i].action \in Actions
       /\ b[i].agent \in Expected
       /\ b[i].action \in report[b[i].agent].mask
  /\ \A i, j \in DOMAIN b : b[i].agent = b[j].agent => i = j

(* Mutant: agents that reported their end keep reporting. *)
CandidateNeverRetires ==
  [a \in Agents |->
     IF a \in DOMAIN report THEN [cursors[a] EXCEPT !.executed = NoAction]
     ELSE cursors[a]]

(* The cursors after the Update: receipts are handed over, and an agent    *)
(* whose end was reported takes no further part.                           *)
Candidate ==
  [a \in Agents |->
     IF a \in DOMAIN report
     THEN [retired |-> cursors[a].retired \/ report[a].done,
           executed |-> NoAction]
     ELSE cursors[a]]

-----------------------------------------------------------------------------
(* The steps of RunSession and RunEpisode                                  *)

(* Begin: the environment and the cursors are reset together; the recorder *)
(* may then fail, which ends the Session.                                  *)
Begin ==
  /\ stage = "Idle" /\ episodes < MaxEpisodes
  /\ stage' \in {"Observe", "Over"}
  /\ episodes' = episodes + 1
  /\ frame' = 0
  /\ agents' = ResetAgents
  /\ cursors' = FreshCursors
  /\ assigned' = [a \in Agents |-> NoAction]
  /\ finals' = [a \in Agents |-> 0]
  /\ UNCHANGED <<report, batch, executed, refused>>

(* No further Episode: the task is complete, the client is stopped, or a   *)
(* command fails or an assignment is refused before the environment is     *)
(* reset.                                                                  *)
Finish ==
  /\ stage = "Idle"
  /\ stage' = "Over"
  /\ UNCHANGED <<envVars, cursors, report, batch, executed, refused, episodes,
                 assigned, finals>>

(* Mutant: the Episode ends on the environment's say, a report early. *)
LastFrameNotReported ==
  /\ stage = "Observe"
  /\ stage' = IF AllDone THEN "Idle" ELSE "Exchange"
  /\ report' = BuildReport
  /\ UNCHANGED <<envVars, cursors, batch, executed, refused, episodes,
                 assigned, finals>>

(* The report of the current frame. A missing receipt fails the chain. *)
Observe ==
  /\ stage = "Observe"
  /\ LET attached == \A a \in Reporting : CanAttach(a)
     IN  /\ stage' = IF attached THEN "Exchange" ELSE "Over"
         /\ refused' = ~attached
  /\ report' = BuildReport
  /\ UNCHANGED <<envVars, cursors, batch, executed, episodes, assigned,
                 finals>>

(* The Update is applied and its answer valid; after a final report the    *)
(* Episode ends, else the batch is executed.                               *)
UpdateApplied ==
  /\ stage = "Exchange"
  /\ RequestConsistent
  /\ \E b \in Batches :
       /\ BatchAccepted(b)
       /\ batch' = b
       /\ assigned' = [a \in Agents |->
            IF \E i \in DOMAIN b : b[i].agent = a
            THEN b[CHOOSE i \in DOMAIN b : b[i].agent = a].action
            ELSE assigned[a]]
  /\ cursors' = Candidate
  /\ executed' = 0
  /\ finals' = [a \in Agents |->
       IF a \in DOMAIN report /\ report[a].done
       THEN finals[a] + 1 ELSE finals[a]]
  /\ stage' = IF AllDone THEN "Idle" ELSE "Apply"
  /\ report' = NoReport
  /\ UNCHANGED <<envVars, refused, episodes>>

(* A stop at the head of the loop or in a WAIT, a rejected Update, an      *)
(* Update in doubt, or an answer that was not valid.                       *)
GiveUp ==
  /\ stage \in {"Observe", "Exchange"}
  /\ stage' = "Over"
  /\ report' = NoReport
  /\ UNCHANGED <<envVars, cursors, batch, executed, refused, episodes,
                 assigned, finals>>

(* Mutant: a blocked move is recorded as standing still. *)
RecordEffect(a, action) ==
  IF IsActionAvailable(agents[a], action) THEN action ELSE 0

RecordExecutedAction(a, action) == action

(* ExecuteAssignedAction on the next action of the batch. The agent has    *)
(* moved by the time its receipt is refused.                               *)
Execute ==
  /\ stage = "Apply" /\ executed < Len(batch)
  /\ LET a == batch[executed + 1].agent
         action == batch[executed + 1].action
     IN  /\ agents' = IF CanStep(a, action)
                      THEN [agents EXCEPT ![a] = Stepped(agents[a], action)]
                      ELSE agents
         /\ IF CanStep(a, action) /\ CanRecord(a, action)
            THEN /\ cursors' = [cursors EXCEPT ![a].executed =
                                  RecordExecutedAction(a, action)]
                 /\ executed' = executed + 1
                 /\ UNCHANGED <<stage, refused>>
            ELSE /\ stage' = "Over"
                 /\ refused' = TRUE
                 /\ UNCHANGED <<cursors, executed>>
  /\ UNCHANGED <<frame, report, batch, episodes, assigned, finals>>

AdvanceFrame ==
  /\ stage = "Apply" /\ executed = Len(batch)
  /\ frame' = frame + 1
  /\ stage' = "Observe"
  /\ batch' = <<>>
  /\ executed' = 0
  /\ UNCHANGED <<agents, cursors, report, refused, episodes, assigned,
                 finals>>

SessionOver == stage = "Over" /\ UNCHANGED vars

-----------------------------------------------------------------------------
(* The specification                                                       *)

(* After Initialize. Begin resets all of it before anything is reported.   *)
Init ==
  /\ maskRequired \in BOOLEAN
  /\ stage = "Idle"
  /\ frame = 0
  /\ agents = ResetAgents
  /\ cursors = FreshCursors
  /\ report = NoReport
  /\ batch = <<>>
  /\ executed = 0
  /\ refused = FALSE
  /\ episodes = 0
  /\ assigned = [a \in Agents |-> NoAction]
  /\ finals = [a \in Agents |-> 0]

Next ==
  /\ \/ Begin \/ Finish
     \/ Observe \/ UpdateApplied \/ GiveUp
     \/ Execute \/ AdvanceFrame
     \/ SessionOver
  /\ UNCHANGED maskRequired

Spec == Init /\ [][Next]_vars

-----------------------------------------------------------------------------
(* Properties                                                              *)

TypeOK ==
  /\ maskRequired \in BOOLEAN
  /\ stage \in {"Idle", "Observe", "Exchange", "Apply", "Over"}
  /\ frame \in 0..MaxSteps
  /\ agents \in [Agents -> Agent]
  /\ cursors \in [Agents -> Cursor]
  /\ DOMAIN report \subseteq Agents
  /\ \A a \in DOMAIN report : report[a] \in AgentState
  /\ batch \in Batches
  /\ executed \in 0..Len(batch)
  /\ refused \in BOOLEAN
  /\ episodes \in 0..MaxEpisodes
  /\ assigned \in [Agents -> Actions \cup {NoAction}]
  /\ finals \in [Agents -> Nat]

(* The client never refuses what it has accepted: every batch that passed  *)
(* PrepareAppliedAgentUpdate is executed to its last action, every report  *)
(* finds the receipts it needs, and every report passes the client's own   *)
(* check of it. The error paths of observe and apply are never taken.      *)
ChainNeverRefuses ==
  /\ ~refused
  /\ stage = "Exchange" => RequestConsistent

(* The receipt an agent reports is the action the AIServer assigned to it  *)
(* in the answer to the frame before, whatever became of the move.         *)
ReceiptIsAssignment ==
  stage = "Exchange" /\ frame > 0 =>
    \A a \in DOMAIN report :
      report[a].executed = assigned[a] /\ assigned[a] # NoAction

(* With REQUIRED masks no assigned action ever bumps into a wall: the mask *)
(* shown when the state was reported is still right when it is executed.   *)
MaskedMovesNeverBlocked ==
  maskRequired => \A a \in Agents : ~agents[a].blocked

(* An agent is done exactly when it stands on the goal or has used up its  *)
(* max_steps, and its reason says which; at the last frame all are done.   *)
TerminationSound ==
  \A a \in Agents :
    /\ agents[a].done <=> agents[a].reason # "Active"
    /\ agents[a].reason = "GoalReached" <=> agents[a].pos = Goal
    /\ agents[a].reason = "TimeLimit" =>
         frame + (IF stage = "Apply" THEN 1 ELSE 0) = MaxSteps
    /\ frame = MaxSteps => agents[a].done

(* An agent's end is reported to the AIServer once, and before the Episode *)
(* ends every agent's end has been reported.                               *)
TerminalReportedOnce ==
  /\ \A a \in Agents : finals[a] = IF cursors[a].retired THEN 1 ELSE 0
  /\ \A a \in Agents : cursors[a].retired => agents[a].done
  /\ stage = "Idle" /\ episodes > 0 => \A a \in Agents : cursors[a].retired

(* No agent outruns the shortest path computed for the map: after n frames *)
(* it is at most n actions from the start, by the same rules of movement.  *)
WithinReach ==
  \A a \in Agents :
    agents[a].pos \in
      Layer[IF stage = "Apply" THEN frame + 1 ELSE frame]

(* The environment's side of RunEpisode's promise. While a batch is being  *)
(* executed the final result is not there to be read.                      *)
LoopStage ==
  CASE stage = "Observe"  -> "Observing"
    [] stage = "Exchange" -> "Reporting"
    [] stage = "Apply"    -> "Applying"
    [] stage = "Idle" /\ episodes > 0 -> "Ended"
    [] OTHER              -> "Away"

Loop == INSTANCE FrameLoop WITH
  MaxFrames <- MaxSteps, stage <- LoopStage,
  allDone <- stage # "Apply" /\ AllDone
ImplementsFrameLoop == Loop!Spec
=============================================================================
