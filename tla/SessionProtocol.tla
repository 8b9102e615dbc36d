-------------------------- MODULE SessionProtocol --------------------------
(***************************************************************************)
(* One lifecycle Session between the Maze Client and the AIServer:         *)
(*                                                                         *)
(*   RunSession / RunEpisode   the order of commands    session.h          *)
(*   TaskClient                per-command rules         task_client.h     *)
(*   Session::Exchange         one command, WAIT loop    session.h         *)
(*   Transport::InvokeUnary    two attempts per call     transport.h       *)
(*   CheckCommand, Commit...   server side of a command  server_command.h  *)
(*   LifecycleReplayWindow     replay of the last reply  replay_window.h   *)
(*   MazeClientAdapter::Impl   the binding's decisions   client_adapter    *)
(*                                                                         *)
(* The client is one thread. It races with the stop signal, with the       *)
(* network, and with a server that may still serve an attempt the client   *)
(* has already given up on. What the AIServer decides about a command that *)
(* passes CheckCommand (apply it, defer it with WAIT, refuse it) is not in *)
(* this repository; it is any choice a lifecycle-respecting server makes.  *)
(***************************************************************************)
EXTENDS Naturals, Sequences, FiniteSets

CONSTANTS
  MaxEpisodes,   \* episodes the server assigns before it completes the task
  MaxFrames,     \* the assignment's max_steps: environment frames per episode
  AbortWaits,    \* WAIT replies that exhaust abort_wait_budget
  MaxLate        \* abandoned attempts that may still reach the server at once

ASSUME BoundsAssumption ==
  /\ MaxEpisodes \in Nat
  /\ MaxFrames \in Nat \ {0}
  /\ AbortWaits \in Nat \ {0}
  /\ MaxLate \in Nat

VARIABLES
  op,        \* the method RunSession is in (a command, or a local step)
  request,   \* the immutable request of that method's Exchange
  attempt,   \* 0 at the top of Exchange's loop, else the transport attempt
  waits,     \* WAIT replies to the current AbortEpisode
  result,    \* what the Exchange returned, "None" while it runs
  cursor,    \* Session::cursor_: confirmed phase, next sequence, episode id
  verdict,   \* the outcome handed to finish(), "None" before
  error,     \* TaskClient::error_: the operations whose failures it reports
  frame,     \* the environment's frame id
  allDone,   \* MazeEnv::AllDone()
  stop,      \* the stop flag the signal handler sets
  reply,     \* the reply on its way to the current attempt
  late,      \* attempts the client gave up on, still to be served or lost
  phase,     \* server: the Session's phase
  last,      \* server: last_command_sequence
  window,    \* server: command_replay, the last applied request and reply
  episodes,  \* server: episodes assigned so far
  log,       \* history: commands the server has applied
  acked      \* history: commands the client has accepted as applied

callVars   == <<op, request, waits, result, verdict, error>>
envVars    == <<frame, allDone>>
serverVars == <<phase, last, window, episodes, log>>
vars == <<op, request, attempt, waits, result, cursor, verdict, error, frame,
          allDone, stop, reply, late, phase, last, window, episodes, log,
          acked>>

-----------------------------------------------------------------------------
(* Values                                                                  *)

Phases == {"UNSPECIFIED", "OPEN", "READY", "RUNNING", "TERMINAL",
           "TASK_COMPLETE", "CLOSED", "ABORTED"}

CommandOps == {"Init", "Begin", "Update", "End", "Abort", "Close"}
RpcOps     == CommandOps \cup {"Open"}
LocalOps   == {"LoadMap", "Loop", "Observe", "Apply", "Done"}

Outcomes == {"Applied", "Rejected", "Unknown", "Stopped", "WaitExpired"}

(* Mutant: Update is exchanged without the stop callback. *)
StoppableBeginOnly == {"Begin"}

(* Operations whose Exchange gets a `stopped` callback that can be true,   *)
(* and those whose WAIT replies are retried.                               *)
Stoppable == {"Begin", "Update"}
Waitable  == {"Begin", "Update", "Abort"}

Request == [op : RpcOps, seq : Nat, episode : Nat, final : BOOLEAN]
NoRequest == [op |-> "None", seq |-> 0, episode |-> 0, final |-> FALSE]

(* BeginEpisodeReq, EndEpisodeReq and CloseSessionReq hold nothing but the *)
(* CommandIdentity, so their serializations differ in no byte.             *)
IdentityOnly == {"Begin", "End", "Close"}
Bytes(r) ==
  [r EXCEPT !.op = IF r.op \in IdentityOnly THEN "IdentityOnly" ELSE r.op]
Payload == [op : RpcOps \cup {"IdentityOnly", "None"}, seq : Nat,
            episode : Nat, final : BOOLEAN]

(* CommandReply with the WaitControl beside it. error_code is set exactly  *)
(* on REJECTED replies; retry is retry_after_ms, "absent" without one.     *)
Results == {"APPLIED", "ALREADY_APPLIED", "WAIT", "REJECTED"}
Reply == [result : Results, applied : Nat, phase : Phases, episode : Nat,
          retry : {"absent", "zero", "positive"}]
NoReply == [result |-> "None", applied |-> 0, phase |-> "UNSPECIFIED",
            episode |-> 0, retry |-> "absent"]

CommandReply(res, seq, ph) ==
  [result |-> res, applied |-> seq, phase |-> ph, episode |-> 0,
   retry |-> "absent"]

-----------------------------------------------------------------------------
(* The client's reading of a reply                                         *)

CommandAccepted(rep) == rep.result \in {"APPLIED", "ALREADY_APPLIED"}

HasConcretePhase(rep) == rep.phase # "UNSPECIFIED"

EchoesCursor(rep) ==
  /\ cursor.next > 0
  /\ rep.applied = cursor.next - 1
  /\ HasConcretePhase(rep)
  /\ rep.phase = cursor.phase

IsCommandWait(rep) == rep.result = "WAIT" /\ EchoesCursor(rep)

IsConclusiveRejected(rep) == rep.result = "REJECTED" /\ EchoesCursor(rep)

(* The phases each method's validate callback accepts. *)
AcceptedPhases(o) ==
  CASE o = "Open"   -> {"OPEN"}
    [] o = "Init"   -> {"READY"}
    [] o = "Begin"  -> {"RUNNING", "TASK_COMPLETE"}
    [] o = "Update" -> {"RUNNING", "TERMINAL"}
    [] o = "End"    -> {"READY"}
    [] o = "Abort"  -> {"ABORTED"}
    [] o = "Close"  -> {"CLOSED"}

(* Begin waits 100 ms on any WAIT; Update and Abort follow WaitControl     *)
(* and treat a non-positive delay as an error; the others never wait.      *)
Delay(o, rep) ==
  CASE o = "Begin" -> IF rep.result = "WAIT" THEN "positive" ELSE "absent"
    [] o \in {"Update", "Abort"} -> rep.retry
    [] OTHER -> "absent"

Retries(o, rep) == Delay(o, rep) = "positive" /\ IsCommandWait(rep)

(* Mutant: an aborted Session is left open. *)
CanCloseNotAborted == cursor.phase \in {"OPEN", "READY", "TASK_COMPLETE"}

Active  == cursor.phase = "RUNNING"
CanClose == cursor.phase \in {"OPEN", "READY", "ABORTED", "TASK_COMPLETE"}

(* CommandOutcomes that finish() treats as a failure of its own. *)
Failed(outcome) == outcome \in {"Rejected", "WaitExpired"}

-----------------------------------------------------------------------------
(* RunSession: which method is called next                                 *)

(* Entering a command method builds its request from the cursor; it is not *)
(* rebuilt before the method returns.                                      *)
Prepare(o) ==
  IF o \in RpcOps
  THEN [op      |-> o,
        seq     |-> IF o = "Open" THEN 0 ELSE cursor.next,
        episode |-> cursor.episode,
        final   |-> o = "Update" /\ allDone]
  ELSE NoRequest

Enter(o) ==
  /\ op' = o
  /\ request' = Prepare(o)
  /\ result' = "None"
  /\ waits' = 0

(* Mutant: cleanup commands take the place of one in doubt. *)
FinishAfterUnknown(outcome) ==
  /\ verdict' = outcome
  /\ Enter(IF Active THEN "Abort" ELSE IF CanClose THEN "Close" ELSE "Done")

(* finish(): abort a running Episode, close what can be closed, and send   *)
(* nothing more after an Unknown.                                          *)
Finish(outcome) ==
  /\ verdict' = outcome
  /\ Enter(IF outcome = "Unknown" THEN "Done"
           ELSE IF Active THEN "Abort"
           ELSE IF CanClose THEN "Close"
           ELSE "Done")

Elsewhere == <<attempt, cursor, error, stop, reply, late, serverVars, acked>>

OpenReturns ==
  /\ op = "Open" /\ result # "None"
  /\ \/ /\ result = "Applied"
        /\ Enter("LoadMap") /\ UNCHANGED verdict
     \/ \* not applied, or applied with a workload the adapter cannot name
        /\ verdict' = IF result = "Applied" THEN "Unknown" ELSE result
        /\ Enter("Done")
  /\ UNCHANGED <<envVars, Elsewhere>>

(* Initialize resolves the map and loads the environment before Init. *)
LoadMap ==
  /\ op = "LoadMap"
  /\ \/ Enter("Init") /\ UNCHANGED verdict
     \/ Finish("Rejected")
  /\ UNCHANGED <<envVars, Elsewhere>>

InitReturns ==
  /\ op = "Init" /\ result # "None"
  /\ \/ result = "Applied" /\ Enter("Loop") /\ UNCHANGED verdict
     \/ result # "Applied" /\ Finish(result)
  /\ UNCHANGED <<envVars, Elsewhere>>

(* The head of RunSession's loop. *)
LoopHead ==
  /\ op = "Loop"
  /\ \/ ~stop /\ Enter("Begin") /\ UNCHANGED verdict
     \/ stop /\ Finish("Stopped")
  /\ UNCHANGED <<envVars, Elsewhere>>

(* An applied Begin completes the task, or the adapter refuses the         *)
(* assignment, or it resets the environment and starts the recorder, which *)
(* may fail.                                                               *)
BeginReturns ==
  /\ op = "Begin" /\ result # "None"
  /\ \/ /\ result # "Applied" \/ cursor.phase = "TASK_COMPLETE"
        /\ Finish(result)
        /\ UNCHANGED envVars
     \/ /\ result = "Applied" /\ cursor.phase # "TASK_COMPLETE"
        /\ \/ Finish("Rejected") /\ UNCHANGED envVars
           \/ /\ \/ Enter("Observe") /\ UNCHANGED verdict
                 \/ Finish("Rejected")
              /\ frame' = 0
              /\ allDone' = FALSE
  /\ UNCHANGED Elsewhere

(* The head of RunEpisode's loop: the state is observed and reported. *)
Observe ==
  /\ op = "Observe"
  /\ \/ stop /\ Finish("Stopped")
     \/ ~stop /\ Enter("Update") /\ UNCHANGED verdict
     \/ ~stop /\ Finish("Rejected")  \* no receipt for an agent's action
  /\ UNCHANGED <<envVars, Elsewhere>>

(* Mutant: the answer to a final report is executed as well. *)
UpdateAlwaysApplies ==
  /\ op = "Update" /\ result # "None"
  /\ \/ result # "Applied" /\ Finish(result)
     \/ result = "Applied" /\ Enter("Apply") /\ UNCHANGED verdict
  /\ UNCHANGED <<envVars, Elsewhere>>

UpdateReturns ==
  /\ op = "Update" /\ result # "None"
  /\ \/ result # "Applied" /\ Finish(result)
     \/ /\ result = "Applied"
        /\ Enter(IF request.final THEN "End" ELSE "Apply")
        /\ UNCHANGED verdict
  /\ UNCHANGED <<envVars, Elsewhere>>

(* Mutant: an environment that does not count its frames. *)
ApplyWithoutLimit ==
  /\ op = "Apply"
  /\ \/ Finish("Rejected") /\ UNCHANGED envVars
     \/ /\ Enter("Observe") /\ UNCHANGED verdict
        /\ frame' = frame + 1
        /\ allDone' \in BOOLEAN
  /\ UNCHANGED Elsewhere

(* Mutant: the loop ends on the final result instead of on its report. *)
ApplyEndsEpisode ==
  /\ op = "Apply"
  /\ frame' = frame + 1
  /\ allDone' \in {done \in BOOLEAN : frame + 1 >= MaxFrames => done}
  /\ Enter(IF allDone' THEN "End" ELSE "Observe") /\ UNCHANGED verdict
  /\ UNCHANGED Elsewhere

(* The action batch is executed and the frame advances. An action that is  *)
(* refused leaves the frame where it was. The last frame ends every agent. *)
ApplyActions ==
  /\ op = "Apply"
  /\ \/ Finish("Rejected") /\ UNCHANGED envVars
     \/ /\ Enter("Observe") /\ UNCHANGED verdict
        /\ frame' = frame + 1
        /\ allDone' \in {done \in BOOLEAN : frame + 1 >= MaxFrames => done}
  /\ UNCHANGED Elsewhere

EndReturns ==
  /\ op = "End" /\ result # "None"
  /\ \/ result = "Applied" /\ Enter("Loop") /\ UNCHANGED verdict
     \/ result # "Applied" /\ Finish(result)
  /\ UNCHANGED <<envVars, Elsewhere>>

(* finish() after Abort: go on to Close only if it was applied; an earlier *)
(* failure is reported in preference to a failing cleanup.                 *)
AbortReturns ==
  /\ op = "Abort" /\ result # "None"
  /\ IF result = "Applied"
     THEN Enter(IF CanClose THEN "Close" ELSE "Done") /\ UNCHANGED verdict
     ELSE /\ verdict' = IF Failed(verdict) THEN verdict ELSE result
          /\ Enter("Done")
  /\ UNCHANGED <<envVars, Elsewhere>>

CloseReturns ==
  /\ op = "Close" /\ result # "None"
  /\ verdict' = IF result = "Applied" \/ Failed(verdict)
                THEN verdict ELSE result
  /\ Enter("Done")
  /\ UNCHANGED <<envVars, Elsewhere>>

RunSession ==
  \/ OpenReturns \/ LoadMap \/ InitReturns \/ LoopHead \/ BeginReturns
  \/ Observe \/ UpdateReturns \/ ApplyActions \/ EndReturns
  \/ AbortReturns \/ CloseReturns

-----------------------------------------------------------------------------
(* Exchange: one command until it is decided                               *)

(* Mutant: cleanup starts its error afresh, as every other method does. *)
ErrorOfLast(outcome) == IF outcome = "Applied" THEN <<>> ELSE <<op>>

(* error_ after a method returns: Abort and Close keep an earlier failure  *)
(* and append their own to it, every other method starts afresh.           *)
ErrorAfter(outcome) ==
  LET own == IF outcome = "Applied" THEN <<>> ELSE <<op>>
  IN  IF op \in {"Abort", "Close"} THEN error \o own ELSE own

Return(outcome) ==
  /\ result' = outcome
  /\ error' = ErrorAfter(outcome)
  /\ attempt' = 0
  /\ reply' = NoReply
  /\ UNCHANGED <<op, request, waits, verdict, envVars, stop, serverVars>>

Calling == op \in RpcOps /\ result = "None"

ExchangeStopped ==
  /\ Calling /\ attempt = 0
  /\ op \in Stoppable /\ stop
  /\ Return("Stopped")
  /\ UNCHANGED <<cursor, late, acked>>

(* Time passes only in WAITs and calls, so the budget cannot expire before *)
(* the first WAIT; every WAIT sleeps, so enough of them exhaust it.        *)
AbortBudgetExpires ==
  /\ Calling /\ attempt = 0
  /\ op = "Abort" /\ waits > 0
  /\ Return("WaitExpired")
  /\ UNCHANGED <<cursor, late, acked>>

Invoke ==
  /\ Calling /\ attempt = 0
  /\ ~(op \in Stoppable /\ stop)
  /\ waits < AbortWaits
  /\ attempt' = 1
  /\ UNCHANGED <<callVars, cursor, envVars, stop, reply, late, serverVars,
                 acked>>

(* The attempt ends in a gRPC error. Its request may be unserved and lost, *)
(* unserved and still on its way, or served with the reply lost.           *)
Abandon ==
  \/ UNCHANGED late
  \/ /\ reply = NoReply
     /\ Cardinality(late) < MaxLate
     /\ late' = late \cup {request}

AttemptFails ==
  /\ Calling /\ attempt > 0
  /\ Abandon
  /\ \/ /\ attempt = 1                    \* a retryable status
        /\ attempt' = 2
        /\ reply' = NoReply
        /\ UNCHANGED <<callVars, envVars, stop, serverVars>>
     \/ Return("Unknown")                 \* the second, or not retryable
  /\ UNCHANGED <<cursor, acked>>

(* OpenSession has no Exchange: its reply binds the cursor or fails. *)
OpenReply(valid) ==
  /\ Calling /\ op = "Open" /\ reply # NoReply
  /\ LET bound == reply.applied = 0 /\ reply.phase = "OPEN" /\ valid
     IN  IF CommandAccepted(reply) /\ bound
         THEN /\ cursor' = [cursor EXCEPT !.phase = reply.phase,
                                          !.next = reply.applied + 1]
              /\ Return("Applied")
         ELSE /\ UNCHANGED cursor
              /\ Return(IF CommandAccepted(reply) THEN "Unknown"
                        ELSE "Rejected")
  /\ UNCHANGED <<late, acked>>

(* Mutant: every retry of a WAIT starts a new budget. *)
WaitRestartsBudget ==
  /\ Calling /\ op # "Open" /\ reply # NoReply
  /\ Retries(op, reply)
  /\ attempt' = 0
  /\ reply' = NoReply
  /\ UNCHANGED <<op, request, waits, result, cursor, verdict, error, envVars,
                 stop, late, serverVars, acked>>

WaitReply ==
  /\ Calling /\ op # "Open" /\ reply # NoReply
  /\ Retries(op, reply)
  /\ attempt' = 0
  /\ reply' = NoReply
  /\ waits' = IF op = "Abort" THEN waits + 1 ELSE waits
  /\ UNCHANGED <<op, request, result, cursor, verdict, error, envVars, stop,
                 late, serverVars, acked>>

(* Mutant: a receipt is accepted whatever phase it confirms. *)
ConfirmsAnyPhase(rep, valid) ==
  /\ Delay(op, rep) = "absent"
  /\ valid
  /\ CommandAccepted(rep)
  /\ rep.applied = cursor.next
  /\ HasConcretePhase(rep)

(* The payload is what the task binding validates (assignment, actions,    *)
(* outcome); the phase and the sequence are what the SDK validates.        *)
Confirms(rep, valid) ==
  /\ Delay(op, rep) = "absent"
  /\ rep.phase \in AcceptedPhases(op)
  /\ valid
  /\ CommandAccepted(rep)
  /\ rep.applied = cursor.next
  /\ HasConcretePhase(rep)

(* Mutant: the Episode's identity survives the Episode. *)
EpisodeNeverCleared(rep) ==
  IF op = "Begin" /\ rep.phase = "RUNNING" THEN rep.episode
  ELSE cursor.episode

EpisodeAfter(rep) ==
  CASE op = "Begin" /\ rep.phase = "RUNNING" -> rep.episode
    [] op \in {"End", "Abort"} -> 0
    [] OTHER -> cursor.episode

(* Mutant: the sequence advances, the phase does not. *)
AppliedWithoutPhase ==
  /\ Calling /\ op # "Open" /\ reply # NoReply
  /\ Confirms(reply, TRUE)
  /\ cursor' = [cursor EXCEPT !.next = cursor.next + 1,
                              !.episode = EpisodeAfter(reply)]
  /\ acked' = Append(acked, request)
  /\ Return("Applied")
  /\ UNCHANGED late

AppliedReply ==
  /\ Calling /\ op # "Open" /\ reply # NoReply
  /\ Confirms(reply, TRUE)
  /\ cursor' = [phase |-> reply.phase, next |-> cursor.next + 1,
                episode |-> EpisodeAfter(reply)]
  /\ acked' = Append(acked, request)
  /\ Return("Applied")
  /\ UNCHANGED late

OtherReply(valid) ==
  /\ Calling /\ op # "Open" /\ reply # NoReply
  /\ ~Retries(op, reply)
  /\ ~Confirms(reply, valid)
  /\ Return(IF IsConclusiveRejected(reply) THEN "Rejected" ELSE "Unknown")
  /\ UNCHANGED <<cursor, late, acked>>

Exchange ==
  \/ ExchangeStopped \/ AbortBudgetExpires \/ Invoke \/ AttemptFails
  \/ WaitReply \/ AppliedReply
  \/ \E valid \in BOOLEAN : OpenReply(valid) \/ OtherReply(valid)

-----------------------------------------------------------------------------
(* The server: CheckCommand, then the AIServer's decision                  *)

(* Only the reply to the current attempt has a reader. *)
Respond(mine, rep) ==
  reply' = IF mine THEN rep ELSE reply

Classify(r) ==
  IF window.present /\ r.seq = window.seq
  THEN IF Bytes(r) = window.payload THEN "Replay" ELSE "PayloadConflict"
  ELSE IF r.seq # last + 1 THEN "OutOfOrder" ELSE "Proceed"

RejectCommand(mine) ==
  Respond(mine, CommandReply("REJECTED", last, phase))

ReplayStored(r, mine) ==
  /\ Classify(r) = "Replay"
  /\ Respond(mine, [window.response EXCEPT !.result = "ALREADY_APPLIED"])
  /\ UNCHANGED serverVars

(* A command CheckCommand turns down, or one the AIServer will not apply. *)
Refuse(r, mine) ==
  /\ Classify(r) # "Replay"
  /\ RejectCommand(mine)
  /\ UNCHANGED serverVars

Defer(r, mine) ==
  /\ Classify(r) = "Proceed"
  /\ r.op \in Waitable
  /\ \E retry \in {"zero", "positive"} :
       Respond(mine, [CommandReply("WAIT", last, phase)
                        EXCEPT !.retry = retry])
  /\ UNCHANGED serverVars

(* The phases an AIServer that respects the lifecycle applies a command    *)
(* in, and the phase it leaves: an Update is terminal exactly when all its *)
(* agents are done, and episodes run out.                                  *)
Transition(r, from, to) ==
  \/ r.op = "Init" /\ from = "OPEN" /\ to = "READY"
  \/ r.op = "Begin" /\ from = "READY" /\ to = "TASK_COMPLETE"
  \/ r.op = "Begin" /\ from = "READY" /\ to = "RUNNING"
       /\ episodes < MaxEpisodes
  \/ r.op = "Update" /\ from = "RUNNING"
       /\ to = IF r.final THEN "TERMINAL" ELSE "RUNNING"
  \/ r.op = "End" /\ from = "TERMINAL" /\ to = "READY"
  \/ r.op = "Abort" /\ from = "RUNNING" /\ to = "ABORTED"
  \/ r.op = "Close" /\ to = "CLOSED"
       /\ from \in {"OPEN", "READY", "ABORTED", "TASK_COMPLETE"}

(* CommitCommand: the sequence, the reply and the replay window together. *)
Commit(r, mine) ==
  /\ Classify(r) = "Proceed"
  /\ \E to \in Phases :
       /\ Transition(r, phase, to)
       /\ LET assigned == IF r.op = "Begin" /\ to = "RUNNING"
                          THEN episodes + 1 ELSE 0
              response == [CommandReply("APPLIED", r.seq, to)
                             EXCEPT !.episode = assigned]
          IN  /\ phase' = to
              /\ episodes' = IF assigned > 0 THEN assigned ELSE episodes
              /\ last' = r.seq
              /\ window' = [present |-> TRUE, seq |-> r.seq,
                            payload |-> Bytes(r), response |-> response]
              /\ log' = Append(log, r)
              /\ Respond(mine, response)

(* OpenSession is idempotent: every copy of the one request names the one  *)
(* Session. The AIServer may also have no Session to give.                 *)
OpenSession(mine) ==
  \/ /\ phase' = IF phase = "UNSPECIFIED" THEN "OPEN" ELSE phase
     /\ Respond(mine, CommandReply("APPLIED", last, phase'))
     /\ UNCHANGED <<last, window, episodes, log>>
  \/ /\ phase = "UNSPECIFIED"
     /\ RejectCommand(mine)
     /\ UNCHANGED serverVars

Serve(r, mine) ==
  \/ r.op = "Open" /\ OpenSession(mine)
  \/ r.op # "Open" /\ (ReplayStored(r, mine) \/ Refuse(r, mine)
                         \/ Defer(r, mine) \/ Commit(r, mine))

ServeAttempt ==
  /\ Calling /\ attempt > 0 /\ reply = NoReply
  /\ Serve(request, TRUE)
  /\ UNCHANGED <<callVars, attempt, cursor, envVars, stop, late, acked>>

(* A copy the client no longer waits for is served or vanishes. The two    *)
(* attempts of one call carry the same request and are one element of      *)
(* late, so one may be served and the other still be on its way.           *)
ServeLate ==
  \E r \in late :
    /\ Serve(r, FALSE)
    /\ late' \in {late, late \ {r}}
    /\ UNCHANGED <<callVars, attempt, cursor, envVars, stop, acked>>

LoseLate ==
  \E r \in late :
    /\ late' = late \ {r}
    /\ UNCHANGED <<callVars, attempt, cursor, envVars, stop, reply,
                   serverVars, acked>>

(* SIGINT or SIGTERM, at any time. *)
Signal ==
  /\ ~stop /\ op # "Done"
  /\ stop' = TRUE
  /\ UNCHANGED <<callVars, attempt, cursor, envVars, reply, late, serverVars,
                 acked>>

(* The process has exited; the server may still see late copies. *)
Exited == op = "Done" /\ UNCHANGED vars

-----------------------------------------------------------------------------
(* The specification                                                       *)

EmptyWindow == [present |-> FALSE, seq |-> 0, payload |-> Bytes(NoRequest),
                response |-> NoReply]

Init ==
  /\ op = "Open"
  /\ request = [op |-> "Open", seq |-> 0, episode |-> 0, final |-> FALSE]
  /\ attempt = 0
  /\ waits = 0
  /\ result = "None"
  /\ cursor = [phase |-> "UNSPECIFIED", next |-> 1, episode |-> 0]
  /\ verdict = "None"
  /\ error = <<>>
  /\ frame = 0
  /\ allDone = FALSE
  /\ stop = FALSE
  /\ reply = NoReply
  /\ late = {}
  /\ phase = "UNSPECIFIED"
  /\ last = 0
  /\ window = EmptyWindow
  /\ episodes = 0
  /\ log = <<>>
  /\ acked = <<>>

Client == RunSession \/ Exchange

Next ==
  \/ Client
  \/ ServeAttempt \/ ServeLate \/ LoseLate
  \/ Signal
  \/ Exited

Spec == Init /\ [][Next]_vars

(* The client never blocks for good: calls have deadlines, sleeps end, and *)
(* its thread is scheduled. Nothing is assumed of the server, the network  *)
(* or the signal.                                                          *)
LiveSpec == Spec /\ WF_vars(Client)

-----------------------------------------------------------------------------
(* Safety                                                                  *)

(* Every variable stays in its range; in particular the environment never  *)
(* runs past the assignment's max_steps and an Abort never outlives its    *)
(* WAIT budget.                                                            *)
TypeOK ==
  /\ op \in RpcOps \cup LocalOps
  /\ request \in Request \cup {NoRequest}
  /\ attempt \in 0..2
  /\ waits \in 0..AbortWaits
  /\ result \in Outcomes \cup {"None"}
  /\ cursor \in [phase : Phases, next : Nat \ {0}, episode : Nat]
  /\ verdict \in Outcomes \cup {"None"}
  /\ error \in Seq(RpcOps)
  /\ frame \in 0..MaxFrames
  /\ allDone \in BOOLEAN
  /\ stop \in BOOLEAN
  /\ reply \in Reply \cup {NoReply}
  /\ late \subseteq Request
  /\ phase \in Phases
  /\ last \in Nat
  /\ window \in [present : BOOLEAN, seq : Nat, payload : Payload,
                 response : Reply \cup {NoReply}]
  /\ episodes \in 0..MaxEpisodes
  /\ log \in Seq(Request)
  /\ acked \in Seq(Request)

(* The commands the Session carries, as the abstract ledger sees them: one *)
(* applied at a time, each acknowledged as the command it was before the   *)
(* next is applied. Retries, replays and late copies disappear in it.      *)
Ledger == INSTANCE CommandLedger WITH Command <- Request
ImplementsLedger == Ledger!Spec

(* The protocol's side of RunEpisode's promise, with an environment of     *)
(* which only the frame and the final result are known.                    *)
LoopStage ==
  CASE op = "Observe" -> "Observing"
    [] op = "Update"  -> "Reporting"
    [] op = "Apply"   -> "Applying"
    [] op = "End"     -> "Ended"
    [] OTHER          -> "Away"

Loop == INSTANCE FrameLoop WITH stage <- LoopStage
ImplementsFrameLoop == Loop!Spec

(* When nothing is left to acknowledge, the phase the client has confirmed *)
(* is the server's phase, and both count the same sequence: RunSession     *)
(* chooses Abort, Close or neither from a phase that is true.              *)
PhaseAgreement ==
  /\ cursor.next = Len(acked) + 1
  /\ last = Len(log)
  /\ (acked = log /\ cursor.phase # "UNSPECIFIED") => cursor.phase = phase

(* main() exits 0 exactly on Applied or Stopped: then the server's Session *)
(* is closed, and no command of it is in doubt.                            *)
CleanExit ==
  (op = "Done" /\ verdict \in {"Applied", "Stopped"})
    => phase = "CLOSED" /\ acked = log

(* The frames the environment executed are the frames it reported: when    *)
(* frame n is executed or the Episode is ended, exactly n + 1 reports were *)
(* acknowledged since the Begin, and only the last one before End is final.*)
FramesMatchReports ==
  op \in {"Apply", "End"} /\ result = "None" =>
    LET n == Len(acked)
    IN  /\ n > frame + 1
        /\ acked[n - frame - 1].op = "Begin"
        /\ \A i \in (n - frame)..n :
             acked[i].op = "Update" /\ acked[i].final = (op = "End" /\ i = n)

(* Episode commands carry the identity of the Episode the server runs, and *)
(* Session commands carry none ("SDK clears episode identity before        *)
(* CloseSession", lifecycle_command_transaction_test.cpp).                 *)
EpisodeIdentity ==
  request # NoRequest =>
    request.episode = IF op \in {"Update", "End", "Abort"}
                      THEN episodes ELSE 0

(* What an Episode command says of the Episode is true: whose it is, and    *)
(* that all its frames so far were reported.                               *)
EpisodeReported == FramesMatchReports /\ EpisodeIdentity

(* A command is never put in the place of another one that was applied:    *)
(* "never substitutes a command for Unknown" and "safe to replace with     *)
(* another operation at the same sequence only when the server proves that *)
(* it committed no lifecycle state" (session.h).                           *)
NoSubstitute ==
  request.seq \in 1..Len(log) => log[request.seq] = request

(* ALREADY_APPLIED, "command was already applied" (server_command.h), says *)
(* so of a command that was applied.                                       *)
AlreadyAppliedIsApplied ==
  (reply.result = "ALREADY_APPLIED" /\ op # "Open")
    => \E i \in DOMAIN log : log[i] = request

(* Both promises do hold as long as the network never keeps a copy of an   *)
(* attempt that the client gave up on.                                     *)
KeptWithoutLate ==
  [](late = {}) => [](NoSubstitute /\ AlreadyAppliedIsApplied)

(* Cleanup never hides what went wrong: the error a failing method left is *)
(* kept in front of anything Abort and Close add, and the failure that led *)
(* to finish() stays the Session's outcome.                                *)
FailureKept ==
  [][verdict # "None" =>
       /\ Failed(verdict) => verdict' = verdict
       /\ Len(error') >= Len(error)
       /\ SubSeq(error', 1, Len(error)) = error]_vars

-----------------------------------------------------------------------------
(* Liveness                                                                *)

(* A stop signal ends the Session, whatever the server answers or fails to *)
(* answer: no WAIT loop outlives it.                                       *)
StopEndsSession == stop ~> op = "Done"

(* Once finish() is entered, cleanup ends without any further signal: the  *)
(* Abort WAIT loop is bounded by its budget.                               *)
CleanupEnds == verdict # "None" ~> op = "Done"
=============================================================================
