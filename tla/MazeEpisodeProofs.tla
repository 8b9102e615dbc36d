------------------------- MODULE MazeEpisodeProofs -------------------------
(***************************************************************************)
(* Proofs about MazeEpisode for every assignment, map, mask mode and       *)
(* number of Episodes: type correctness, that the client never refuses     *)
(* what it has accepted, that receipts are assignments, how agents end and *)
(* report their end, that none outruns the map's shortest paths, and that  *)
(* the environment keeps its side of RunEpisode (FrameLoop).               *)
(***************************************************************************)
EXTENDS MazeEpisode, FiniteSetTheorems, WellFoundedInduction, TLAPS

-----------------------------------------------------------------------------
(* The inductive invariant                                                 *)

(* Between frames every agent still taking part carries the receipt its    *)
(* next report needs, and the report being exchanged is the one built.     *)
ReceiptInv ==
  /\ stage \in {"Observe", "Exchange"} =>
       \A a \in Reporting :
         IF frame = 0 THEN cursors[a].executed = NoAction
         ELSE /\ cursors[a].executed = assigned[a]
              /\ assigned[a] # NoAction
  /\ stage = "Exchange" => report = BuildReport

(* An action of the batch being executed: its agent has moved and holds    *)
(* the receipt, or is as it was when it was reported.                      *)
EntryInv(i) ==
  LET a == batch[i].agent
  IN  /\ a \in Agents
      /\ batch[i].action \in Actions
      /\ assigned[a] = batch[i].action
      /\ ~cursors[a].retired
      /\ IF i <= executed
         THEN /\ cursors[a].executed = batch[i].action
              /\ frame + 1 = MaxSteps => agents[a].done
         ELSE /\ cursors[a].executed = NoAction
              /\ ~agents[a].done
              /\ maskRequired =>
                   IsActionAvailable(agents[a], batch[i].action)

DistinctAgents ==
  \A i, j \in 1..Len(batch) : batch[i].agent = batch[j].agent => i = j

(* While a batch is executed it names every agent still taking part once.  *)
BatchInv ==
  stage = "Apply" =>
    /\ frame < MaxSteps
    /\ \A i \in 1..Len(batch) : EntryInv(i)
    /\ DistinctAgents
    /\ \A a \in Agents : ~cursors[a].retired =>
         \E i \in 1..Len(batch) : batch[i].agent = a

(* RunEpisode runs inside of an Episode that was begun. *)
BegunInv == stage \in {"Observe", "Exchange", "Apply"} => episodes > 0

IInv ==
  /\ TypeOK
  /\ ~refused
  /\ BegunInv
  /\ ReceiptInv
  /\ BatchInv
  /\ MaskedMovesNeverBlocked
  /\ TerminationSound
  /\ TerminalReportedOnce

-----------------------------------------------------------------------------
(* Facts about the operators                                               *)

LEMMA BatchType ==
  ASSUME NEW b \in Batches
  PROVE  /\ b \in Seq(Answer)
         /\ Len(b) \in Nat
         /\ DOMAIN b = 1..Len(b)
<1>1. PICK n \in 0..Cardinality(Agents) : b \in [1..n -> Answer]
  BY DEF Batches
<1>2. n \in Nat
  BY <1>1, FS_CardinalityType, EpisodeAssumption
<1> QED BY <1>1, <1>2

(* An accepted batch has an action for every agent that is not done: its   *)
(* agents are distinct and as many as those.                               *)
LEMMA BatchCovers ==
  ASSUME NEW b \in Batches, BatchAccepted(b), DOMAIN report \subseteq Agents
  PROVE  \A a \in Expected : \E i \in 1..Len(b) : b[i].agent = a
<1> DEFINE agentOf == [i \in 1..Len(b) |-> b[i].agent]
<1>1. IsFiniteSet(Expected)
  BY FS_Subset, EpisodeAssumption DEF Expected
<1>2. Len(b) \in Nat /\ DOMAIN b = 1..Len(b)
  BY BatchType
<1>3. agentOf \in Injection(1..Len(b), Expected)
  <2>1. agentOf \in [1..Len(b) -> Expected]
    BY <1>2 DEF BatchAccepted
  <2>2. \A i, j \in 1..Len(b) : agentOf[i] = agentOf[j] => i = j
    BY <1>2 DEF BatchAccepted
  <2>3. DOMAIN agentOf = 1..Len(b)
    OBVIOUS
  <2>4. IsInjective(agentOf)
    BY <2>2, <2>3 DEF IsInjective
  <2> HIDE DEF agentOf
  <2> QED BY <2>1, <2>4 DEF Injection
<1>4. Cardinality(1..Len(b)) = Cardinality(Expected)
  <2>1. Cardinality(1..Len(b)) = Len(b)
    <3> DEFINE n == Len(b)
    <3>1. n \in Nat
      BY <1>2
    <3> HIDE DEF n
    <3>2. Cardinality(1..n) = IF 1 > n THEN 0 ELSE n - 1 + 1
      BY <3>1, FS_Interval
    <3>3. Cardinality(1..n) = n
      BY <3>1, <3>2
    <3> QED BY <3>3 DEF n
  <2> QED BY <2>1 DEF BatchAccepted
<1>5. agentOf \in Surjection(1..Len(b), Expected)
  BY <1>1, <1>3, <1>4, FS_Injection
<1> QED BY <1>5 DEF Surjection

(* A step leaves an agent on a walkable cell of the grid. *)
LEMMA SteppedType ==
  ASSUME TypeOK, NEW a \in Agents, NEW action \in Actions
  PROVE  /\ Stepped(agents[a], action) \in Agent
         /\ LET after == Stepped(agents[a], action)
            IN  /\ after.done <=> after.reason # "Active"
                /\ after.reason = "GoalReached" <=> after.pos = Goal
                /\ after.reason = "TimeLimit" => frame + 1 >= MaxSteps
                /\ frame + 1 >= MaxSteps => after.done
                /\ IsActionAvailable(agents[a], action) => ~after.blocked
<1>1. agents[a].pos \in Cells
  BY DEF TypeOK, Agent
<1>2. IsActionAvailable(agents[a], action) =>
        Target(agents[a].pos, action) \in Cells
  BY DEF IsActionAvailable, IsWalkable
<1> QED BY <1>1, <1>2 DEF Stepped, Agent, CheckTimeout

(* A report built when every receipt is there passes the client's check. *)
LEMMA BuiltReportConsistent ==
  ASSUME TypeOK, ReceiptInv, stage = "Exchange"
  PROVE  RequestConsistent
<1>1. report = BuildReport /\ DOMAIN report = Reporting
  BY DEF ReceiptInv, BuildReport
<1>2. \A a \in Reporting :
        /\ a \in Agents
        /\ report[a].executed = IF frame = 0 THEN NoAction
                                ELSE cursors[a].executed
  BY <1>1 DEF BuildReport, Reporting
<1>3. \A a \in Reporting :
        /\ assigned[a] \in Actions \cup {NoAction}
        /\ cursors[a].executed = IF frame = 0 THEN NoAction ELSE assigned[a]
        /\ frame # 0 => assigned[a] # NoAction
  BY <1>2 DEF ReceiptInv, TypeOK
<1> QED BY <1>1, <1>2, <1>3 DEF RequestConsistent

-----------------------------------------------------------------------------
(* Steps                                                                   *)

LEMMA InitIInv == Init => IInv
<1> SUFFICES ASSUME Init PROVE IInv
  OBVIOUS
<1> USE EpisodeAssumption DEF Init
<1>1. Cardinality(Agents) \in Nat
  BY FS_CardinalityType
<1>2. <<>> \in Batches
  <2>1. <<>> \in [1..0 -> Answer]
    OBVIOUS
  <2> QED BY <1>1, <2>1 DEF Batches
<1>3. TypeOK
  <2>1. agents \in [Agents -> Agent] /\ cursors \in [Agents -> Cursor]
    BY DEF ResetAgents, Agent, FreshCursors, Cursor
  <2>2. /\ DOMAIN report \subseteq Agents
        /\ \A a \in DOMAIN report : report[a] \in AgentState
    BY DEF NoReport
  <2>3. /\ assigned \in [Agents -> Actions \cup {NoAction}]
        /\ finals \in [Agents -> Nat]
        /\ frame \in 0..MaxSteps /\ executed \in 0..Len(batch)
        /\ episodes \in 0..MaxEpisodes
    OBVIOUS
  <2> QED BY <1>2, <2>1, <2>2, <2>3 DEF TypeOK
<1>4. ~refused /\ BegunInv /\ ReceiptInv /\ BatchInv
  BY DEF BegunInv, ReceiptInv, BatchInv
<1>5. MaskedMovesNeverBlocked /\ TerminationSound /\ TerminalReportedOnce
  BY DEF MaskedMovesNeverBlocked, TerminationSound, TerminalReportedOnce,
         ResetAgents, FreshCursors
<1> QED BY <1>3, <1>4, <1>5 DEF IInv

LEMMA BeginStep ==
  ASSUME IInv, Begin, UNCHANGED maskRequired
  PROVE  IInv'
<1> USE EpisodeAssumption DEF Begin, IInv
<1>1. TypeOK'
  BY DEF TypeOK, ResetAgents, Agent, FreshCursors, Cursor
<1>2. ~refused' /\ BegunInv' /\ ReceiptInv' /\ BatchInv'
  BY DEF BegunInv, ReceiptInv, BatchInv, FreshCursors, Reporting, TypeOK
<1>3. MaskedMovesNeverBlocked'
  BY DEF MaskedMovesNeverBlocked, ResetAgents
<1>4. TerminationSound'
  BY DEF TerminationSound, ResetAgents
<1>5. TerminalReportedOnce'
  BY DEF TerminalReportedOnce, FreshCursors
<1> QED BY <1>1, <1>2, <1>3, <1>4, <1>5

(* The three steps that only move between stages. *)
LEMMA IdleStep ==
  ASSUME IInv, Finish \/ GiveUp \/ UNCHANGED vars, UNCHANGED maskRequired
  PROVE  IInv'
<1>1. CASE UNCHANGED vars
  BY <1>1 DEF vars, IInv, TypeOK, BegunInv, ReceiptInv, BatchInv, EntryInv,
     DistinctAgents, Reporting,
     BuildReport, GetActionMask, IsActionAvailable, MaskedMovesNeverBlocked,
     TerminationSound, TerminalReportedOnce
<1>2. CASE Finish \/ GiveUp
  <2>1. /\ UNCHANGED <<envVars, cursors, batch, executed, refused, episodes,
                       assigned, finals>>
        /\ stage # "Apply" /\ stage' = "Over"
        /\ report' = report \/ report' = NoReport
    BY <1>2 DEF Finish, GiveUp
  <2>2. TypeOK'
    BY <2>1 DEF IInv, TypeOK, NoReport, envVars
  <2>3. ~refused' /\ BegunInv' /\ ReceiptInv' /\ BatchInv'
    BY <2>1 DEF IInv, BegunInv, ReceiptInv, BatchInv
  <2>4. MaskedMovesNeverBlocked' /\ TerminalReportedOnce'
    BY <2>1 DEF IInv, MaskedMovesNeverBlocked, TerminalReportedOnce, envVars
  <2>5. TerminationSound'
    BY <2>1 DEF IInv, TerminationSound, envVars
  <2> QED BY <2>2, <2>3, <2>4, <2>5 DEF IInv
<1> QED BY <1>1, <1>2

LEMMA ObserveStep ==
  ASSUME IInv, Observe, UNCHANGED maskRequired
  PROVE  IInv'
<1>0. TypeOK /\ ReceiptInv /\ ~refused
  BY DEF IInv
<1>1. \A a \in Reporting : CanAttach(a)
  BY <1>0 DEF Observe, ReceiptInv, CanAttach, TypeOK, Reporting
<1>2. /\ stage = "Observe" /\ stage' = "Exchange" /\ ~refused'
      /\ report' = BuildReport
      /\ UNCHANGED <<envVars, cursors, batch, executed, episodes, assigned,
                     finals>>
  BY <1>1 DEF Observe
<1>3. DOMAIN BuildReport \subseteq Agents
  BY DEF BuildReport, Reporting
<1>4. \A a \in DOMAIN BuildReport : BuildReport[a] \in AgentState
  BY <1>0 DEF BuildReport, Reporting, AgentState, GetActionMask, TypeOK,
              Agent, Cursor
<1>5. TypeOK'
  <2>1. /\ DOMAIN report' \subseteq Agents
        /\ \A a \in DOMAIN report' : report'[a] \in AgentState
    BY <1>2, <1>3, <1>4
  <2>2. /\ stage' \in {"Idle", "Observe", "Exchange", "Apply", "Over"}
        /\ frame' = frame /\ agents' = agents /\ cursors' = cursors
        /\ batch' = batch /\ executed' = executed
        /\ episodes' = episodes /\ assigned' = assigned /\ finals' = finals
    BY <1>2 DEF envVars
  <2>3. refused' \in BOOLEAN
    BY DEF Observe
  <2> QED BY <1>0, <2>1, <2>2, <2>3 DEF TypeOK
<1>6. BuildReport' = BuildReport /\ Reporting' = Reporting
  BY <1>2 DEF BuildReport, Reporting, GetActionMask, IsActionAvailable,
              envVars
<1>7. BegunInv' /\ ReceiptInv' /\ BatchInv'
  BY <1>0, <1>2, <1>6 DEF IInv, BegunInv, ReceiptInv, BatchInv, envVars
<1>8. /\ MaskedMovesNeverBlocked' /\ TerminationSound'
      /\ TerminalReportedOnce'
  BY <1>2 DEF IInv, MaskedMovesNeverBlocked, TerminationSound,
              TerminalReportedOnce, envVars
<1> QED BY <1>2, <1>5, <1>7, <1>8 DEF IInv

LEMMA UpdateAppliedStep ==
  ASSUME IInv, UpdateApplied, UNCHANGED maskRequired
  PROVE  IInv'
<1>0. TypeOK /\ ReceiptInv /\ TerminationSound /\ TerminalReportedOnce
  BY DEF IInv
<1>1. PICK b \in Batches :
        /\ BatchAccepted(b)
        /\ batch' = b
        /\ assigned' = [a \in Agents |->
             IF \E i \in DOMAIN b : b[i].agent = a
             THEN b[CHOOSE i \in DOMAIN b : b[i].agent = a].action
             ELSE assigned[a]]
  BY DEF UpdateApplied
<1>2. /\ stage = "Exchange" /\ cursors' = Candidate /\ executed' = 0
      /\ stage' = (IF AllDone THEN "Idle" ELSE "Apply")
      /\ report' = NoReport
      /\ finals' = [a \in Agents |->
            IF a \in DOMAIN report /\ report[a].done
            THEN finals[a] + 1 ELSE finals[a]]
      /\ UNCHANGED <<envVars, refused, episodes>>
  BY DEF UpdateApplied
<1>3. /\ DOMAIN b = 1..Len(b) /\ Len(b) \in Nat
      /\ \A i \in 1..Len(b) : b[i] \in Answer
  BY BatchType
<1>4. /\ DOMAIN report = Reporting
      /\ \A a \in Reporting : /\ report[a].done = agents[a].done
                              /\ ~report[a].done /\ maskRequired =>
                                   report[a].mask = GetActionMask(agents[a])
  BY <1>0, <1>2 DEF ReceiptInv, BuildReport
<1>5. /\ Expected = {a \in Agents : ~cursors[a].retired /\ ~agents[a].done}
      /\ \A a \in Expected : ~report[a].done
  BY <1>4 DEF Expected, Reporting
<1>6. \A i \in 1..Len(b) :
        /\ b[i].action \in Actions
        /\ b[i].agent \in Expected
        /\ b[i].action \in report[b[i].agent].mask
        /\ assigned'[b[i].agent] = b[i].action
  <2>1. \A i, j \in 1..Len(b) : b[i].agent = b[j].agent => i = j
    BY <1>1, <1>3 DEF BatchAccepted
  <2>2. \A i \in 1..Len(b) : /\ b[i].action \in Actions
                             /\ b[i].agent \in Expected
                             /\ b[i].action \in report[b[i].agent].mask
    BY <1>1, <1>3 DEF BatchAccepted
  <2>3. ASSUME NEW i \in 1..Len(b)
        PROVE  assigned'[b[i].agent] = b[i].action
    <3>1. b[i].agent \in Agents
      BY <1>5, <2>2
    <3>2. (CHOOSE j \in DOMAIN b : b[j].agent = b[i].agent) = i
      BY <1>3, <2>1
    <3> QED BY <1>1, <1>3, <3>1, <3>2
  <2> QED BY <2>2, <2>3
<1>7. \A a \in Agents :
        /\ cursors'[a].retired <=> cursors[a].retired \/ agents[a].done
        /\ ~cursors[a].retired => cursors'[a].executed = NoAction
        /\ cursors'[a] \in Cursor
  <2>1. \A a \in Agents : cursors[a].retired => agents[a].done
    BY <1>0 DEF TerminalReportedOnce
  <2>2. \A a \in Agents : cursors[a] \in Cursor /\ agents[a].done \in BOOLEAN
    BY <1>0 DEF TypeOK, Agent
  <2>3. \A a \in Agents : a \in Reporting <=> ~cursors[a].retired
    BY DEF Reporting
  <2> QED BY <1>2, <1>4, <2>1, <2>2, <2>3 DEF Candidate, Cursor
<1>8. TypeOK'
  <2>1. cursors' \in [Agents -> Cursor]
    BY <1>2, <1>7 DEF Candidate
  <2>2. assigned' \in [Agents -> Actions \cup {NoAction}]
    <3>1. \A a \in Agents : (\E i \in DOMAIN b : b[i].agent = a) =>
            b[CHOOSE i \in DOMAIN b : b[i].agent = a].action \in Actions
      BY <1>3, <1>6
    <3> QED BY <1>0, <1>1, <3>1 DEF TypeOK
  <2>3. finals' \in [Agents -> Nat]
    BY <1>0, <1>2 DEF TypeOK
  <2> QED BY <1>0, <1>1, <1>2, <1>3, <2>1, <2>2, <2>3
          DEF TypeOK, envVars, NoReport
<1>9. ReceiptInv' /\ BegunInv' /\ ~refused'
  BY <1>2 DEF ReceiptInv, BegunInv, IInv
<1>10. BatchInv'
  <2>1. CASE AllDone
    BY <1>2, <2>1 DEF BatchInv
  <2>2. CASE ~AllDone
    <3>1. frame' < MaxSteps
      <4>1. frame # MaxSteps
        BY <1>0, <2>2 DEF TerminationSound, AllDone
      <4> QED BY <1>0, <1>2, <4>1, EpisodeAssumption DEF TypeOK, envVars
    <3>2. ASSUME NEW i \in 1..Len(b)
          PROVE  EntryInv(i)'
      <4>1. /\ b[i].agent \in Agents
            /\ b[i].action \in Actions
            /\ assigned'[b[i].agent] = b[i].action
            /\ ~cursors'[b[i].agent].retired
            /\ ~(i <= executed')
            /\ cursors'[b[i].agent].executed = NoAction
            /\ ~agents'[b[i].agent].done
            /\ maskRequired => IsActionAvailable(agents'[b[i].agent],
                                                 b[i].action)
        BY <1>2, <1>4, <1>5, <1>6, <1>7 DEF envVars, GetActionMask, Reporting
      <4> QED BY <1>1, <4>1 DEF EntryInv, IsActionAvailable
    <3>3. DistinctAgents'
      BY <1>1, <1>3 DEF BatchAccepted, DistinctAgents
    <3>4. \A a \in Agents : ~cursors'[a].retired =>
            \E i \in 1..Len(b) : b[i].agent = a
      BY <1>0, <1>1, <1>5, <1>7, BatchCovers DEF TypeOK
    <3> QED BY <1>1, <3>1, <3>2, <3>3, <3>4 DEF BatchInv
  <2> QED BY <2>1, <2>2
<1>11. MaskedMovesNeverBlocked'
  BY <1>2 DEF IInv, MaskedMovesNeverBlocked, envVars
<1>12. TerminationSound'
  <2>1. agents' = agents /\ frame' = frame
    BY <1>2 DEF envVars
  <2>2. stage' = "Apply" => frame # MaxSteps
    BY <1>0, <1>2 DEF TerminationSound, AllDone
  <2>3. \A a \in Agents : agents[a].reason = "TimeLimit" => frame = MaxSteps
    BY <1>0, <1>2, EpisodeAssumption DEF TerminationSound, TypeOK
  <2>4. \A a \in Agents :
          agents[a].reason = "TimeLimit" =>
            frame' + (IF stage' = "Apply" THEN 1 ELSE 0) = MaxSteps
    BY <2>1, <2>2, <2>3, EpisodeAssumption
  <2> QED BY <1>0, <2>1, <2>4 DEF TerminationSound
<1>13. TerminalReportedOnce'
  <2>1. \A a \in Agents : a \in Reporting <=> ~cursors[a].retired
    BY DEF Reporting
  <2>2. \A a \in Agents : finals'[a] = IF cursors'[a].retired THEN 1 ELSE 0
    BY <1>0, <1>2, <1>4, <1>7, <2>1 DEF TerminalReportedOnce, TypeOK
  <2>3. \A a \in Agents : cursors'[a].retired => agents'[a].done
    BY <1>0, <1>2, <1>7 DEF TerminalReportedOnce, envVars
  <2>4. stage' = "Idle" => \A a \in Agents : cursors'[a].retired
    BY <1>2, <1>7 DEF AllDone
  <2> QED BY <2>2, <2>3, <2>4 DEF TerminalReportedOnce
<1> QED BY <1>8, <1>9, <1>10, <1>11, <1>12, <1>13 DEF IInv

LEMMA ExecuteStep ==
  ASSUME IInv, Execute, UNCHANGED maskRequired
  PROVE  IInv'
<1> DEFINE n == executed + 1
           a == batch[n].agent
           action == batch[n].action
<1>0. /\ TypeOK /\ BatchInv /\ ~refused /\ MaskedMovesNeverBlocked
      /\ TerminationSound /\ TerminalReportedOnce
  BY DEF IInv
<1>1. /\ stage = "Apply" /\ executed < Len(batch)
      /\ UNCHANGED <<frame, report, batch, episodes, assigned, finals>>
  BY DEF Execute
<1>2. /\ Len(batch) \in Nat /\ executed \in 0..Len(batch)
      /\ n \in 1..Len(batch)
  BY <1>0, <1>1, BatchType DEF TypeOK
<1>3. /\ a \in Agents /\ action \in Actions /\ assigned[a] = action
      /\ ~cursors[a].retired /\ cursors[a].executed = NoAction
      /\ ~agents[a].done
      /\ maskRequired => IsActionAvailable(agents[a], action)
  BY <1>0, <1>1, <1>2 DEF BatchInv, EntryInv
<1>4. /\ agents' = [agents EXCEPT ![a] = Stepped(agents[a], action)]
      /\ cursors' = [cursors EXCEPT ![a].executed = action]
      /\ executed' = n
      /\ UNCHANGED <<stage, refused>>
  BY <1>3 DEF Execute, CanStep, CanRecord, RecordExecutedAction
<1> DEFINE after == Stepped(agents[a], action)
<1>5. /\ after \in Agent
      /\ after.done <=> after.reason # "Active"
      /\ after.reason = "GoalReached" <=> after.pos = Goal
      /\ after.reason = "TimeLimit" => frame + 1 >= MaxSteps
      /\ frame + 1 >= MaxSteps => after.done
      /\ IsActionAvailable(agents[a], action) => ~after.blocked
  BY <1>0, <1>3, SteppedType
<1> HIDE DEF after
<1>6. /\ agents' \in [Agents -> Agent]
      /\ agents'[a] = after
      /\ \A other \in Agents \ {a} : agents'[other] = agents[other]
  BY <1>0, <1>3, <1>4, <1>5 DEF TypeOK, after
<1>7. /\ cursors' \in [Agents -> Cursor]
      /\ cursors'[a].executed = action
      /\ cursors'[a].retired = cursors[a].retired
      /\ \A other \in Agents \ {a} : cursors'[other] = cursors[other]
  BY <1>0, <1>3, <1>4 DEF TypeOK, Cursor
<1> HIDE DEF a, action
<1>8. TypeOK'
  BY <1>0, <1>1, <1>2, <1>4, <1>6, <1>7 DEF TypeOK
<1>9. frame \in Nat /\ frame < MaxSteps /\ MaxSteps \in Nat
  BY <1>0, <1>1, EpisodeAssumption DEF TypeOK, BatchInv
<1>10. ReceiptInv' /\ BegunInv' /\ ~refused'
  BY <1>0, <1>1, <1>4 DEF IInv, ReceiptInv, BegunInv
<1>11. BatchInv'
  <2>1. DistinctAgents
    BY <1>0, <1>1 DEF BatchInv
  <2>2. ASSUME NEW i \in 1..Len(batch)
        PROVE  EntryInv(i)'
    <3> DEFINE b == batch[i].agent
    <3>1. EntryInv(i)
      BY <1>0, <1>1 DEF BatchInv
    <3>2. CASE i = n
      <4>1. b = a /\ batch[i].action = action /\ i <= executed'
        BY <1>2, <1>4, <3>2 DEF a, action
      <4>2. frame' + 1 = MaxSteps => after.done
        BY <1>1, <1>5, <1>9
      <4>3. b \in Agents
        BY <1>3, <4>1
      <4> QED BY <1>1, <1>3, <1>6, <1>7, <4>1, <4>2 DEF EntryInv
    <3>3. CASE i # n
      <4>1. b # a
        BY <1>2, <2>1, <3>3 DEF a, DistinctAgents
      <4>2. agents'[b] = agents[b] /\ cursors'[b] = cursors[b]
        BY <1>6, <1>7, <3>1, <4>1 DEF EntryInv
      <4>3. i <= executed' <=> i <= executed
        BY <1>2, <1>4, <3>3
      <4> QED BY <1>1, <3>1, <4>2, <4>3 DEF EntryInv, IsActionAvailable
    <3> QED BY <3>2, <3>3
  <2>3. \A b \in Agents : ~cursors'[b].retired =>
          \E i \in 1..Len(batch) : batch[i].agent = b
    BY <1>0, <1>1, <1>7 DEF BatchInv
  <2>4. DistinctAgents'
    BY <1>1, <2>1 DEF DistinctAgents
  <2> HIDE DEF n
  <2> QED BY <1>1, <1>9, <2>2, <2>3, <2>4 DEF BatchInv
<1>12. MaskedMovesNeverBlocked'
  BY <1>0, <1>3, <1>5, <1>6 DEF MaskedMovesNeverBlocked
<1>13. TerminationSound'
  BY <1>0, <1>1, <1>4, <1>5, <1>6, <1>9 DEF TerminationSound
<1>14. TerminalReportedOnce'
  BY <1>0, <1>1, <1>3, <1>4, <1>6, <1>7 DEF TerminalReportedOnce
<1> QED BY <1>8, <1>10, <1>11, <1>12, <1>13, <1>14 DEF IInv

LEMMA AdvanceFrameStep ==
  ASSUME IInv, AdvanceFrame, UNCHANGED maskRequired
  PROVE  IInv'
<1>0. /\ TypeOK /\ BatchInv /\ ~refused /\ MaskedMovesNeverBlocked
      /\ TerminationSound /\ TerminalReportedOnce
  BY DEF IInv
<1>1. /\ stage = "Apply" /\ executed = Len(batch)
      /\ frame' = frame + 1 /\ stage' = "Observe"
      /\ batch' = <<>> /\ executed' = 0
      /\ UNCHANGED <<agents, cursors, report, refused, episodes, assigned,
                     finals>>
  BY DEF AdvanceFrame
<1>2. frame \in Nat /\ frame < MaxSteps /\ MaxSteps \in Nat
  BY <1>0, <1>1, EpisodeAssumption DEF TypeOK, BatchInv
(* The whole batch was executed, and it named every agent taking part. *)
<1>3. ASSUME NEW a \in Agents, ~cursors[a].retired
      PROVE  /\ cursors[a].executed = assigned[a]
             /\ assigned[a] \in Actions
             /\ frame + 1 = MaxSteps => agents[a].done
  <2>1. PICK i \in 1..Len(batch) : batch[i].agent = a
    BY <1>0, <1>1, <1>3 DEF BatchInv
  <2>2. i <= executed
    BY <1>1, <1>0, BatchType DEF TypeOK
  <2> QED BY <1>0, <1>1, <2>1, <2>2 DEF BatchInv, EntryInv
<1>4. TypeOK'
  <2>1. <<>> \in Batches
    <3>1. Cardinality(Agents) \in Nat
      BY FS_CardinalityType, EpisodeAssumption
    <3>2. <<>> \in [1..0 -> Answer]
      OBVIOUS
    <3> QED BY <3>1, <3>2 DEF Batches
  <2> QED BY <1>0, <1>1, <1>2, <2>1 DEF TypeOK
<1>5. ReceiptInv' /\ BegunInv' /\ BatchInv' /\ ~refused'
  <2>1. frame' # 0
    BY <1>1, <1>2
  <2>2. \A a \in Agents : ~cursors'[a].retired =>
          /\ cursors'[a].executed = assigned'[a]
          /\ assigned'[a] # NoAction
    BY <1>1, <1>3 DEF Actions, NoAction
  <2> QED BY <1>0, <1>1, <2>1, <2>2
          DEF IInv, ReceiptInv, BegunInv, BatchInv, Reporting
<1>6. MaskedMovesNeverBlocked'
  BY <1>0, <1>1 DEF MaskedMovesNeverBlocked
<1>7. TerminationSound'
  <2>1. \A a \in Agents : frame + 1 = MaxSteps => agents[a].done
    BY <1>0, <1>3 DEF TerminalReportedOnce
  <2> QED BY <1>0, <1>1, <1>2, <2>1 DEF TerminationSound
<1>8. TerminalReportedOnce'
  BY <1>0, <1>1 DEF TerminalReportedOnce
<1> QED BY <1>4, <1>5, <1>6, <1>7, <1>8 DEF IInv

-----------------------------------------------------------------------------
(* Theorems                                                                *)

(* Every Episode of the client, with whatever answers, keeps the invariant *)
(* (RunEpisode and the adapter's observe, exchange and apply callbacks).   *)
THEOREM Invariance == Spec => []IInv
<1>1. IInv /\ [Next]_vars => IInv'
  <2> SUFFICES ASSUME IInv, [Next]_vars PROVE IInv'
    OBVIOUS
  <2> UNCHANGED maskRequired
    BY DEF Next, vars
  <2>1. CASE Begin
    BY <2>1, BeginStep
  <2>2. CASE Finish
    BY <2>2, IdleStep
  <2>3. CASE Observe
    BY <2>3, ObserveStep
  <2>4. CASE UpdateApplied
    BY <2>4, UpdateAppliedStep
  <2>5. CASE GiveUp
    BY <2>5, IdleStep
  <2>6. CASE Execute
    BY <2>6, ExecuteStep
  <2>7. CASE AdvanceFrame
    BY <2>7, AdvanceFrameStep
  <2>8. CASE SessionOver \/ UNCHANGED vars
    BY <2>8, IdleStep DEF SessionOver
  <2> QED BY <2>1, <2>2, <2>3, <2>4, <2>5, <2>6, <2>7, <2>8 DEF Next
<1> QED BY InitIInv, <1>1, PTL DEF Spec

(* Every variable of the client keeps its type; the frame id never exceeds *)
(* max_steps (MazeEnv::AdvanceFrame has no guard of its own).              *)
THEOREM TypeCorrect == Spec => []TypeOK
<1>1. IInv => TypeOK
  BY DEF IInv
<1> QED BY Invariance, <1>1, PTL

(* The client's own checks never refuse a report or an action of an        *)
(* accepted batch: observe and apply in RunEpisode cannot fail.            *)
THEOREM ChainHolds == Spec => []ChainNeverRefuses
<1>1. IInv => ChainNeverRefuses
  BY BuiltReportConsistent DEF IInv, ChainNeverRefuses
<1> QED BY Invariance, <1>1, PTL

(* The executed_action an agent reports is the action it was assigned.     *)
THEOREM ReceiptsTrue == Spec => []ReceiptIsAssignment
<1>1. IInv => ReceiptIsAssignment
  BY DEF IInv, TypeOK, ReceiptInv, BuildReport, Reporting,
         ReceiptIsAssignment
<1> QED BY Invariance, <1>1, PTL

(* With a mask a move of MazeEnv::Step is never blocked. *)
THEOREM MasksHold == Spec => []MaskedMovesNeverBlocked
<1>1. IInv => MaskedMovesNeverBlocked
  BY DEF IInv
<1> QED BY Invariance, <1>1, PTL

(* MazeEnv ends an agent on the goal or at max_steps and at no other time. *)
THEOREM TerminationHolds == Spec => []TerminationSound
<1>1. IInv => TerminationSound
  BY DEF IInv
<1> QED BY Invariance, <1>1, PTL

(* PrepareAppliedAgentUpdate retires an agent with its one final report. *)
THEOREM TerminalOnce == Spec => []TerminalReportedOnce
<1>1. IInv => TerminalReportedOnce
  BY DEF IInv
<1> QED BY Invariance, <1>1, PTL

-----------------------------------------------------------------------------
(* The environment implements its side of RunEpisode's promise             *)

LEMMA FrameLoopStep ==
  ASSUME IInv, IInv', [Next]_vars
  PROVE  [Loop!Next]_(Loop!loopVars)
<1> USE DEF Loop!Next, Loop!loopVars, LoopStage
<1>1. CASE Begin
  BY <1>1, EpisodeAssumption DEF Begin, Loop!Restart, AllDone, ResetAgents
<1>2. CASE Finish
  BY <1>2 DEF Finish, AllDone, envVars, Loop!Leave
<1>3. CASE Observe
  BY <1>3 DEF Observe, AllDone, envVars, IInv, Loop!Report, Loop!Leave
<1>4. CASE UpdateApplied
  <2>1. LoopStage = "Reporting" /\ AllDone' = AllDone /\ frame' = frame
    BY <1>4 DEF UpdateApplied, AllDone, envVars
  <2>2. LoopStage' = IF AllDone THEN "Ended" ELSE "Applying"
    BY <1>4 DEF UpdateApplied, IInv, BegunInv
  <2>3. stage # "Apply" /\ (stage' = "Apply" <=> ~AllDone)
    BY <1>4 DEF UpdateApplied
  <2> QED BY <2>1, <2>2, <2>3 DEF Loop!Reported
<1>5. CASE GiveUp
  BY <1>5 DEF GiveUp, AllDone, envVars, Loop!Leave
<1>6. CASE Execute
  BY <1>6 DEF Execute, IInv
<1>7. CASE AdvanceFrame
  <2>1. frame \in Nat /\ frame < MaxSteps /\ MaxSteps \in Nat
    BY <1>7, EpisodeAssumption DEF AdvanceFrame, IInv, TypeOK, BatchInv
  <2>2. frame + 1 >= MaxSteps => AllDone'
    BY <1>7, <2>1 DEF AdvanceFrame, IInv, TerminationSound, AllDone
  <2> QED BY <1>7, <2>2 DEF AdvanceFrame, Loop!Advance, AllDone
<1>8. CASE SessionOver \/ UNCHANGED vars
  BY <1>8 DEF SessionOver, vars, AllDone, envVars
<1> QED BY <1>1, <1>2, <1>3, <1>4, <1>5, <1>6, <1>7, <1>8 DEF Next

(* Frames are executed one after another, each after its predecessor's     *)
(* report was applied, and none after the final one: what RunEpisode       *)
(* expects of the environment (session.h).                                 *)
THEOREM FrameLoopRefinement == Spec => ImplementsFrameLoop
<1>1. Init => Loop!Init
  BY EpisodeAssumption
     DEF Init, Loop!Init, LoopStage, AllDone, ResetAgents
<1>2. IInv /\ IInv' /\ [Next]_vars => [Loop!Next]_(Loop!loopVars)
  BY FrameLoopStep
<1> QED BY <1>1, <1>2, Invariance, PTL DEF Spec, Loop!Spec,
           ImplementsFrameLoop

-----------------------------------------------------------------------------
(* The layers of the shortest paths                                        *)

(* < on the naturals is a well-founded relation.                           *)
LEMMA LessThan == \A x, y \in Nat : x < y => <<x, y>> \in OpToRel(<, Nat)
  BY DEF OpToRel

(* A set of naturals that is not empty has a least element.               *)
LEMMA LeastElement ==
  ASSUME NEW S, S \subseteq Nat, S # {}
  PROVE  \E m \in S : \A n \in S : m <= n
<1>1. PICK m \in S : \A n \in S : ~(<<n, m>> \in OpToRel(<, Nat))
  BY NatLessThanWellFounded, WFMin
<1>2. \A n \in S : ~(n < m)
  BY <1>1, LessThan
<1> QED
  BY <1>2

(* A set that has 0 and is closed under + 1 has every natural.             *)
LEMMA Induction ==
  ASSUME NEW S, 0 \in S, \A n \in Nat : n \in S => n + 1 \in S
  PROVE  Nat \subseteq S
<1> SUFFICES ASSUME NEW k \in Nat, k \notin S PROVE FALSE
  OBVIOUS
<1>1. PICK m \in Nat \ S : \A n \in Nat \ S : m <= n
  BY LeastElement
<1>2. m # 0 /\ m - 1 \in Nat
  BY <1>1
<1>3. m - 1 \in S
  BY <1>1, <1>2
<1> QED
  BY <1>1, <1>2, <1>3

(* f starts at e and goes on by g up to m; there is such a function.       *)
GoesOn(f, e, g, m) ==
  \A n \in 0..m : f[n] = IF n = 0 THEN e ELSE g[f[n - 1]]

LEMMA Recursion ==
  ASSUME NEW S, NEW e \in S, NEW g \in [S -> S], NEW m \in Nat
  PROVE  \E f \in [0..m -> S] : GoesOn(f, e, g, m)
<1> DEFINE T == {k \in Nat : \E f \in [0..k -> S] : GoesOn(f, e, g, k)}
<1>1. 0 \in T
  <2> DEFINE f == [n \in 0..0 |-> e]
  <2>1. f \in [0..0 -> S] /\ GoesOn(f, e, g, 0)
    BY DEF GoesOn
  <2> QED
    BY <2>1
<1>2. ASSUME NEW k \in Nat, k \in T PROVE k + 1 \in T
  <2>1. PICK f \in [0..k -> S] : GoesOn(f, e, g, k)
    BY <1>2
  <2> DEFINE h == [n \in 0..k+1 |-> IF n = k + 1 THEN g[f[k]] ELSE f[n]]
  <2>2. k \in 0..k /\ g[f[k]] \in S
    BY <2>1
  <2>3. h \in [0..k+1 -> S]
    BY <2>1, <2>2
  <2>4. ASSUME NEW n \in 0..k+1 PROVE h[n] = IF n = 0 THEN e ELSE g[h[n - 1]]
    <3>1. CASE n = k + 1
      <4>1. n # 0 /\ n - 1 = k /\ k \in 0..k+1 /\ k # k + 1
        BY <3>1
      <4>2. h[n] = g[f[k]] /\ h[k] = f[k]
        BY <3>1, <4>1
      <4> QED
        BY <4>1, <4>2
    <3>2. CASE n # k + 1
      <4>1. n \in 0..k /\ h[n] = f[n]
        BY <3>2
      <4>2. n # 0 => n - 1 \in 0..k+1 /\ n - 1 # k + 1
        BY <3>2
      <4>3. n # 0 => h[n - 1] = f[n - 1]
        BY <4>2
      <4>4. f[n] = IF n = 0 THEN e ELSE g[f[n - 1]]
        BY <2>1, <4>1 DEF GoesOn
      <4> QED
        BY <4>1, <4>3, <4>4
    <3> QED
      BY <3>1, <3>2
  <2>5. GoesOn(h, e, g, k + 1)
    BY <2>4 DEF GoesOn
  <2> HIDE DEF h
  <2> QED
    BY <2>3, <2>5
<1>3. m \in T
  <2> HIDE DEF T
  <2> QED
    BY <1>1, <1>2, Induction
<1> QED
  BY <1>3

(* Each layer is one action further than the one before.                   *)
LEMMA Layers ==
  /\ Layer[0] = {Start}
  /\ \A n \in 1..MaxSteps : Layer[n] = OneFurther(Layer[n - 1])
  /\ \A n \in 0..MaxSteps : Layer[n] \subseteq Cells
<1> DEFINE S == SUBSET Cells
           g == [nearer \in S |-> OneFurther(nearer)]
           Is(f) == f = [n \in 0..MaxSteps |->
                           IF n = 0 THEN {Start} ELSE OneFurther(f[n - 1])]
<1>1. {Start} \in S /\ MaxSteps \in Nat
  BY EpisodeAssumption
<1>2. g \in [S -> S]
  BY DEF OneFurther, IsWalkable
<1>3. PICK f \in [0..MaxSteps -> S] : GoesOn(f, {Start}, g, MaxSteps)
  <2>1. {Start} \in S /\ g \in [S -> S] /\ MaxSteps \in Nat
    BY <1>1, <1>2
  <2> HIDE DEF S, g
  <2> QED
    BY <2>1, Recursion
<1>4. Is(f)
  <2>1. ASSUME NEW n \in 0..MaxSteps, n # 0
        PROVE  g[f[n - 1]] = OneFurther(f[n - 1])
    <3>1. n - 1 \in 0..MaxSteps
      BY <1>1, <2>1
    <3>2. f[n - 1] \in S
      BY <1>3, <3>1
    <3> QED
      BY <3>2
  <2> HIDE DEF g, S
  <2>2. \A n \in 0..MaxSteps :
          f[n] = IF n = 0 THEN {Start} ELSE OneFurther(f[n - 1])
    BY <1>3, <2>1 DEF GoesOn
  <2>3. f = [n \in 0..MaxSteps |-> f[n]]
    BY <1>3
  <2> QED
    BY <2>2, <2>3
<1>5. Layer = CHOOSE h : Is(h)
  BY Zenon DEF Layer
<1>6. Is(Layer)
  <2> HIDE DEF Is
  <2> QED
    BY <1>4, <1>5, Zenon
<1>7. /\ Layer[0] = {Start}
      /\ \A n \in 1..MaxSteps : Layer[n] = OneFurther(Layer[n - 1])
  <2>1. \A n \in 0..MaxSteps :
          Layer[n] = IF n = 0 THEN {Start} ELSE OneFurther(Layer[n - 1])
    BY <1>6, Zenon
  <2>2. 0 \in 0..MaxSteps /\ \A n \in 1..MaxSteps : n \in 0..MaxSteps /\ n # 0
    BY <1>1
  <2> QED
    BY <2>1, <2>2, Zenon
<1> DEFINE T == {n \in Nat : n <= MaxSteps => Layer[n] \in S}
<1>8. 0 \in T
  BY <1>1, <1>7
<1>9. ASSUME NEW n \in Nat, n \in T PROVE n + 1 \in T
  <2> SUFFICES ASSUME n + 1 <= MaxSteps PROVE Layer[n + 1] \in S
    OBVIOUS
  <2>1. n + 1 \in 1..MaxSteps /\ (n + 1) - 1 = n /\ n <= MaxSteps
    BY <1>1
  <2>2. Layer[n + 1] = OneFurther(Layer[n]) /\ Layer[n] \in S
    BY <1>7, <1>9, <2>1
  <2> QED
    BY <2>2 DEF OneFurther, IsWalkable
<1>10. Nat \subseteq T
  <2> HIDE DEF T
  <2> QED
    BY <1>8, <1>9, Induction
<1> QED
  BY <1>1, <1>7, <1>10

(* No agent is farther from the start than the frames executed allow, and  *)
(* in the frame being executed those that are to move are not there yet.   *)
ReachInv ==
  /\ WithinReach
  /\ stage = "Apply" =>
       \A i \in 1..Len(batch) :
         i > executed => agents[batch[i].agent].pos \in Layer[frame]

(* A layer has the one before it, and where a step from there leads.       *)
LEMMA LayerGrows ==
  ASSUME NEW n \in Nat, n < MaxSteps
  PROVE  /\ Layer[n] \subseteq Layer[n + 1]
         /\ \A agent, action :
              agent.pos \in Layer[n] => Stepped(agent, action).pos \in Layer[n + 1]
<1>1. n + 1 \in 1..MaxSteps /\ (n + 1) - 1 = n
  BY EpisodeAssumption
<1>2. Layer[n + 1] = OneFurther(Layer[n])
  BY <1>1, Layers
<1>3. Layer[n] \subseteq Layer[n + 1]
  BY <1>2 DEF OneFurther
<1>4. ASSUME NEW agent, NEW action, agent.pos \in Layer[n]
      PROVE  Stepped(agent, action).pos \in Layer[n + 1]
  <2>1. Stepped(agent, action).pos =
          IF IsActionAvailable(agent, action) THEN Target(agent.pos, action)
          ELSE agent.pos
    BY DEF Stepped
  <2>2. CASE IsActionAvailable(agent, action) /\ action # 0
    <3> DEFINE t == <<agent.pos, action>>
    <3>1. /\ t \in Layer[n] \X (Actions \ {0}) /\ t[1] = agent.pos /\ t[2] = action
          /\ IsWalkable(Target(t[1], t[2])) /\ CornersFree(t[1], t[2])
      BY <1>4, <2>2 DEF IsActionAvailable
    <3> HIDE DEF t
    <3>2. Target(t[1], t[2]) \in OneFurther(Layer[n])
      BY <3>1, Zenon DEF OneFurther
    <3> QED
      BY <1>2, <2>1, <2>2, <3>1, <3>2
  <2>3. CASE IsActionAvailable(agent, action) /\ action = 0
    <3>1. agent.pos \in Cells
      <4>1. n \in 0..MaxSteps
        BY EpisodeAssumption
      <4>2. Layer[n] \subseteq Cells
        BY <4>1, Layers
      <4> QED
        BY <1>4, <4>2
    <3> QED
      BY <1>3, <1>4, <2>1, <2>3, <3>1
      DEF IsActionAvailable, Target, Dx, Dy, Actions, Cells
  <2>4. CASE ~IsActionAvailable(agent, action)
    BY <1>3, <1>4, <2>1, <2>4
  <2> QED
    BY <2>2, <2>3, <2>4
<1> QED
  BY <1>3, <1>4

LEMMA ReachStep ==
  ASSUME IInv, IInv', ReachInv, [Next]_vars
  PROVE  ReachInv'
<1>0. /\ frame \in 0..MaxSteps /\ agents \in [Agents -> Agent] /\ ~refused'
      /\ MaxSteps \in Nat /\ batch \in Batches /\ executed \in 0..Len(batch)
  BY EpisodeAssumption DEF IInv, TypeOK
<1>1. CASE Begin
  <2>1. /\ stage' \in {"Observe", "Over"} /\ frame' = 0 /\ agents' = ResetAgents
    BY <1>1 DEF Begin
  <2> QED
    BY <2>1, Layers DEF ReachInv, WithinReach, ResetAgents
<1>2. CASE Finish \/ Observe \/ GiveUp
  <2>1. /\ stage # "Apply" /\ stage' # "Apply" /\ UNCHANGED <<frame, agents>>
    BY <1>2 DEF Finish, Observe, GiveUp, envVars
  <2> QED
    BY <2>1 DEF ReachInv, WithinReach
<1>3. CASE UpdateApplied
  <2>1. /\ stage = "Exchange" /\ UNCHANGED <<frame, agents>>
        /\ stage' \in {"Idle", "Apply"} /\ batch' \in Batches
    BY <1>3 DEF UpdateApplied, envVars
  <2>2. \A a \in Agents : agents[a].pos \in Layer[frame]
    BY <2>1 DEF ReachInv, WithinReach
  <2>3. CASE stage' = "Idle"
    BY <2>1, <2>2, <2>3 DEF ReachInv, WithinReach
  <2>4. CASE stage' = "Apply"
    <3>1. frame < MaxSteps /\ \A i \in 1..Len(batch') : batch'[i].agent \in Agents
      BY <2>1, <2>4 DEF IInv, BatchInv, EntryInv
    <3>2. Layer[frame] \subseteq Layer[frame + 1]
      BY <1>0, <3>1, LayerGrows
    <3> QED
      BY <2>1, <2>2, <2>4, <3>1, <3>2 DEF ReachInv, WithinReach
  <2> QED
    BY <2>1, <2>3, <2>4
<1>4. CASE Execute
  <2> DEFINE n == executed + 1
             a == batch[n].agent
             action == batch[n].action
  <2>1. /\ stage = "Apply" /\ executed < Len(batch) /\ UNCHANGED <<frame, batch>>
        /\ agents' = IF CanStep(a, action)
                      THEN [agents EXCEPT ![a] = Stepped(agents[a], action)]
                      ELSE agents
        /\ stage' = stage /\ executed' = n
    BY <1>0, <1>4 DEF Execute
  <2>2. /\ Len(batch) \in Nat /\ n \in 1..Len(batch) /\ n > executed
    BY <1>0, <2>1, BatchType
  <2>3. /\ frame < MaxSteps /\ DistinctAgents
        /\ \A i \in 1..Len(batch) : batch[i].agent \in Agents
    BY <2>1 DEF IInv, BatchInv, EntryInv
  <2>4. /\ \A b \in Agents : agents[b].pos \in Layer[frame + 1]
        /\ \A i \in 1..Len(batch) :
             i > executed => agents[batch[i].agent].pos \in Layer[frame]
    BY <2>1 DEF ReachInv, WithinReach
  <2>5. a \in Agents /\ Stepped(agents[a], action).pos \in Layer[frame + 1]
    <3>1. a \in Agents /\ agents[a].pos \in Layer[frame]
      BY <2>2, <2>3, <2>4
    <3> QED
      BY <1>0, <2>3, <3>1, LayerGrows
  <2>6. \A i \in 1..Len(batch) : i > n => i > executed /\ batch[i].agent # a
    BY <1>0, <2>2, <2>3 DEF DistinctAgents
  <2> HIDE DEF a, action, n
  <2>7. \A b \in Agents : agents'[b].pos \in Layer[frame + 1]
    BY <1>0, <2>1, <2>4, <2>5
  <2>8. \A b \in Agents : b # a => agents'[b] = agents[b]
    BY <1>0, <2>1, <2>5
  <2>9. \A i \in 1..Len(batch) : i > n => agents'[batch[i].agent].pos \in Layer[frame]
    BY <2>3, <2>4, <2>6, <2>8
  <2> QED
    BY <2>1, <2>7, <2>9 DEF ReachInv, WithinReach
<1>5. CASE AdvanceFrame
  <2>1. /\ stage = "Apply" /\ stage' = "Observe" /\ frame' = frame + 1
        /\ agents' = agents
    BY <1>5 DEF AdvanceFrame
  <2> QED
    BY <2>1 DEF ReachInv, WithinReach
<1>6. CASE SessionOver \/ UNCHANGED vars
  <2>1. UNCHANGED vars
    BY <1>6 DEF SessionOver
  <2> QED
    BY <2>1 DEF vars, ReachInv, WithinReach
<1> QED
  BY <1>1, <1>2, <1>3, <1>4, <1>5, <1>6 DEF Next

(* After n frames an agent is at most n allowed actions from the start:    *)
(* MazeEnv::Step moves no agent twice in a frame, and by no other rule     *)
(* than the search that computed the map's shortest path.                  *)
THEOREM ReachHolds == Spec => []WithinReach
<1>1. Init => ReachInv
  BY Layers DEF Init, ReachInv, WithinReach, ResetAgents
<1>2. ReachInv => WithinReach
  BY DEF ReachInv
<1> QED
  BY <1>1, <1>2, ReachStep, Invariance, PTL DEF Spec
=============================================================================
