----------------------- MODULE SessionProtocolProofs -----------------------
(***************************************************************************)
(* Proofs about SessionProtocol for every number of episodes, frames, WAIT *)
(* replies and late attempts: type correctness, the agreement of the two   *)
(* ends on the phase, the meaning of a clean exit, that the failure that   *)
(* led to the cleanup is kept, what is reported of an Episode and under    *)
(* whose identity, what holds on a network without late copies, and that   *)
(* the protocol implements CommandLedger and FrameLoop.                    *)
(***************************************************************************)
EXTENDS SessionProtocol, SequenceTheorems, TLAPS

-----------------------------------------------------------------------------
(* The inductive invariant                                                 *)

(* The phases a command leaves the Session in. *)
PhasesAfter(r) ==
  IF r.op = "Update" THEN {IF r.final THEN "TERMINAL" ELSE "RUNNING"}
  ELSE AcceptedPhases(r.op)

(* The Exchange works on the request its method prepared. *)
CallInv ==
  /\ op \in LocalOps => request = NoRequest
  /\ op \in RpcOps => request \in Request /\ request.op = op
  /\ op = "Open" => request.seq = 0
  /\ (op \in CommandOps /\ result # "Applied") => request.seq = cursor.next
  /\ attempt > 0 => op \in RpcOps /\ result = "None" /\ waits < AbortWaits
  /\ attempt = 0 => reply = NoReply

(* A frame is executed only while the time limit leaves room for it. *)
FrameInv ==
  /\ allDone \/ frame < MaxFrames
  /\ op = "Update" => request.final = allDone
  /\ op = "Apply" => ~allDone

(* The log is what is acknowledged, or one command more, which the replay  *)
(* window and the phase then describe.                                     *)
Outstanding(c) ==
  /\ log = Append(acked, c)
  /\ c.op \in CommandOps
  /\ window.present
  /\ window.payload = Bytes(c)
  /\ window.response.phase = phase
  /\ phase \in PhasesAfter(c)

LedgerInv ==
  /\ last = Len(log)
  /\ cursor.next = Len(acked) + 1
  /\ acked = log \/ \E c \in Request : Outstanding(c)
  /\ window.present => window.seq = last /\ window.response.applied = last

(* A late copy never names a sequence the client has not reached. *)
LateInv ==
  \A r \in late : r.seq <= cursor.next /\ (r.op = "Open" => r.seq = 0)

(* A reply that confirms the current sequence answers the bytes of the one *)
(* command that is not yet acknowledged.                                   *)
ReplyInv ==
  (op \in CommandOps /\ CommandAccepted(reply) /\ reply.applied = cursor.next)
    => \E c \in Request : /\ Outstanding(c)
                          /\ Bytes(request) = Bytes(c)
                          /\ reply.phase = phase

(* Before OpenSession is bound the Session carries no command. *)
BindInv ==
  /\ cursor.phase = "UNSPECIFIED" =>
       /\ op \in {"Open", "Done"}
       /\ log = <<>>
       /\ \A r \in late : r.op = "Open"
       /\ phase \in {"UNSPECIFIED", "OPEN"}
  /\ cursor.phase # "UNSPECIFIED" => phase # "UNSPECIFIED"
  /\ (op = "Open" /\ result # "Applied") => cursor.phase = "UNSPECIFIED"
  /\ (op = "Open" /\ CommandAccepted(reply)) => phase = "OPEN"

(* The confirmed phase RunSession is in when it takes a step. *)
ControlInv ==
  /\ op = "Loop" => cursor.phase = "READY"
  /\ op \in {"Observe", "Apply"} => cursor.phase = "RUNNING"
  /\ op = "Begin" =>
       cursor.phase \in IF result = "Applied" THEN {"RUNNING", "TASK_COMPLETE"}
                        ELSE {"READY"}
  /\ op = "Update" =>
       IF result # "Applied" THEN cursor.phase = "RUNNING"
       ELSE ~request.final => cursor.phase = "RUNNING"
  /\ (op \in {"Init", "End"} /\ result = "Applied") => cursor.phase = "READY"
  /\ (op = "Open" /\ result = "Applied") => cursor.phase = "OPEN"
  /\ (op = "Abort" /\ result = "Applied") => cursor.phase = "ABORTED"
  /\ (op = "Close" /\ result = "Applied") => cursor.phase = "CLOSED"
  /\ (op \in RpcOps /\ op \notin Stoppable) => result # "Stopped"
  /\ (op = "Done" /\ verdict \in {"Applied", "Stopped"})
       => cursor.phase = "CLOSED"
  /\ op \notin {"Abort", "Close", "Done"} => verdict = "None"
  /\ op \in {"Abort", "Close"} => verdict # "None"

(* What acknowledged commands left behind is what the server is in. *)
AgreementInv ==
  /\ (acked = log /\ cursor.phase # "UNSPECIFIED") => cursor.phase = phase
  /\ cursor.phase = "CLOSED" => phase = "CLOSED" /\ acked = log

IInv ==
  /\ TypeOK
  /\ CallInv
  /\ FrameInv
  /\ LedgerInv
  /\ LateInv
  /\ ReplyInv
  /\ BindInv
  /\ ControlInv
  /\ AgreementInv

-----------------------------------------------------------------------------
(* Facts about the operators                                               *)

(* A request's bytes and the phase its command leaves behind name it: two  *)
(* commands with the same bytes that may leave the same phase are the same *)
(* command. Without the phase, Begin and Close could not be told apart.    *)
LEMMA BytesAndPhase ==
  ASSUME NEW r \in Request, NEW c \in Request,
         r.op \in CommandOps, c.op \in CommandOps,
         Bytes(r) = Bytes(c),
         NEW p, p \in AcceptedPhases(r.op), p \in AcceptedPhases(c.op)
  PROVE  r = c
<1>1. r.seq = c.seq /\ r.episode = c.episode /\ r.final = c.final
  BY DEF Bytes, Request
<1>2. r.op = c.op
  <2>1. CASE r.op \in IdentityOnly
    BY <2>1 DEF Bytes, Request, RpcOps, CommandOps, IdentityOnly,
                AcceptedPhases
  <2>2. CASE r.op \notin IdentityOnly
    BY <2>2 DEF Bytes, Request, RpcOps, CommandOps, IdentityOnly
  <2> QED BY <2>1, <2>2
<1> QED BY <1>1, <1>2 DEF Request

(* A transition leads to a phase its command leaves behind. *)
LEMMA TransitionPhases ==
  ASSUME NEW r \in Request, NEW from \in Phases, NEW to \in Phases,
         Transition(r, from, to)
  PROVE  /\ r.op \in CommandOps
         /\ to \in PhasesAfter(r)
         /\ to # "UNSPECIFIED"
         /\ from # "CLOSED"
BY DEF Transition, PhasesAfter, AcceptedPhases, CommandOps, Request

LEMMA PhasesAfterAccepted ==
  ASSUME NEW r \in Request
  PROVE  PhasesAfter(r) \subseteq AcceptedPhases(r.op)
BY DEF PhasesAfter, AcceptedPhases, Request

(* A prepared request is a request of the method it was prepared for. *)
LEMMA PreparedRequest ==
  ASSUME TypeOK, NEW o \in RpcOps \cup LocalOps
  PROVE  /\ Prepare(o) \in Request \cup {NoRequest}
         /\ o \in LocalOps => Prepare(o) = NoRequest
         /\ o \in RpcOps => /\ Prepare(o) \in Request
                            /\ Prepare(o).op = o
                            /\ Prepare(o).final = (o = "Update" /\ allDone)
         /\ o = "Open" => Prepare(o).seq = 0
         /\ o \in CommandOps => Prepare(o).seq = cursor.next
BY DEF Prepare, TypeOK, Request, RpcOps, LocalOps, CommandOps

-----------------------------------------------------------------------------
(* Steps                                                                   *)

(* A client that has just started and a server without a Session satisfy   *)
(* the invariant.                                                          *)
LEMMA InitIInv == Init => IInv
<1> SUFFICES ASSUME Init PROVE IInv
  OBVIOUS
<1> USE BoundsAssumption DEF Init
<1>1. TypeOK
  <2>1. op \in RpcOps \cup LocalOps /\ request \in Request \cup {NoRequest}
    BY DEF Request, RpcOps
  <2>2. Bytes(NoRequest) \in Payload
    BY DEF Bytes, NoRequest, Payload, IdentityOnly
  <2>3. window \in [present : BOOLEAN, seq : Nat, payload : Payload,
                   response : Reply \cup {NoReply}]
    BY <2>2 DEF EmptyWindow
  <2>4. /\ cursor \in [phase : Phases, next : Nat \ {0}, episode : Nat]
        /\ phase \in Phases
    BY DEF Phases
  <2>5. error \in Seq(RpcOps) /\ log \in Seq(Request) /\ acked \in Seq(Request)
    OBVIOUS
  <2>6. /\ attempt \in 0..2 /\ waits \in 0..AbortWaits
        /\ frame \in 0..MaxFrames /\ last \in Nat /\ episodes \in 0..MaxEpisodes
    OBVIOUS
  <2>7. /\ result \in Outcomes \cup {"None"} /\ verdict \in Outcomes \cup {"None"}
        /\ allDone \in BOOLEAN /\ stop \in BOOLEAN
        /\ reply \in Reply \cup {NoReply} /\ late \subseteq Request
    OBVIOUS
  <2> HIDE DEF Init
  <2> QED BY <2>1, <2>3, <2>4, <2>5, <2>6, <2>7 DEF TypeOK
<1>2. CallInv
  BY DEF CallInv, RpcOps, LocalOps, CommandOps, Request
<1>3. FrameInv
  BY DEF FrameInv
<1>4. LedgerInv
  BY DEF LedgerInv, EmptyWindow
<1>5. LateInv /\ ReplyInv /\ BindInv /\ ControlInv /\ AgreementInv
  BY DEF LateInv, ReplyInv, BindInv, ControlInv, AgreementInv, NoReply,
         CommandAccepted, CommandOps, RpcOps, Stoppable
<1> QED BY <1>1, <1>2, <1>3, <1>4, <1>5 DEF IInv

(* finish() enters a cleanup method or ends the run. *)
LEMMA FinishEnters ==
  ASSUME TypeOK, NEW outcome \in Outcomes, Finish(outcome)
  PROVE  /\ verdict' = outcome
         /\ \E o \in {"Abort", "Close", "Done"} :
              /\ Enter(o)
              /\ o = "Done" => (outcome = "Unknown" \/ (~Active /\ ~CanClose))
<1> DEFINE o == IF outcome = "Unknown" THEN "Done"
                ELSE IF Active THEN "Abort"
                ELSE IF CanClose THEN "Close"
                ELSE "Done"
<1>1. verdict' = outcome /\ Enter(o)
  BY DEF Finish
<1>2. /\ o \in {"Abort", "Close", "Done"}
      /\ o = "Done" => outcome = "Unknown" \/ (~Active /\ ~CanClose)
  OBVIOUS
<1> HIDE DEF o
<1> QED BY <1>1, <1>2 DEF Enter

(* Every step of RunSession enters a method other than Open, from one that *)
(* has no attempt in flight.                                               *)
LEMMA RunSessionEnters ==
  ASSUME IInv, RunSession
  PROVE  /\ attempt = 0 /\ reply = NoReply
         /\ op # "Done"
         /\ \E o \in (RpcOps \cup LocalOps) \ {"Open"} : Enter(o)
         /\ verdict' \in Outcomes \cup {"None"}
         /\ frame' \in 0..MaxFrames /\ allDone' \in BOOLEAN
         /\ UNCHANGED Elsewhere
<1> DEFINE Entered == /\ \E o \in (RpcOps \cup LocalOps) \ {"Open"} : Enter(o)
                      /\ verdict' \in Outcomes \cup {"None"}
<1>1. TypeOK /\ CallInv /\ FrameInv
  BY DEF IInv
<1>2. ASSUME NEW o \in Outcomes, Finish(o) PROVE Entered
  BY <1>1, <1>2, FinishEnters DEF RpcOps, CommandOps, LocalOps
<1>3. result \in Outcomes \/ result = "None"
  BY <1>1 DEF TypeOK
<1>4. verdict \in Outcomes \cup {"None"} /\ UNCHANGED verdict
        => verdict' \in Outcomes \cup {"None"}
  OBVIOUS
<1>5. attempt = 0 /\ reply = NoReply /\ op # "Done"
  BY <1>1, BoundsAssumption
     DEF RunSession, CallInv, TypeOK, OpenReturns, LoadMap, InitReturns,
         LoopHead, BeginReturns, Observe, UpdateReturns, ApplyActions,
         EndReturns, AbortReturns, CloseReturns, RpcOps, CommandOps, LocalOps
<1>6. UNCHANGED Elsewhere
  BY DEF RunSession, OpenReturns, LoadMap, InitReturns, LoopHead,
         BeginReturns, Observe, UpdateReturns, ApplyActions, EndReturns,
         AbortReturns, CloseReturns
<1>7. frame' \in 0..MaxFrames /\ allDone' \in BOOLEAN
  <2>1. CASE UNCHANGED envVars
    BY <1>1, <2>1 DEF TypeOK, envVars
  <2>2. CASE frame' = 0 /\ allDone' = FALSE
    <3>1. frame' \in 0..MaxFrames
      BY <2>2, BoundsAssumption
    <3>2. allDone' \in BOOLEAN
      BY <2>2
    <3> QED BY <3>1, <3>2
  <2>3. CASE op = "Apply" /\ frame' = frame + 1 /\ allDone' \in BOOLEAN
    <3>1. ~allDone
      BY <1>1, <2>3 DEF FrameInv
    <3>2. frame \in Nat /\ frame < MaxFrames
      BY <1>1, <3>1 DEF TypeOK, FrameInv
    <3> QED BY <2>3, <3>2, BoundsAssumption
  <2>4. UNCHANGED envVars \/ (frame' = 0 /\ allDone' = FALSE)
          \/ (op = "Apply" /\ frame' = frame + 1 /\ allDone' \in BOOLEAN)
    BY DEF RunSession, OpenReturns, LoadMap, InitReturns, LoopHead,
           BeginReturns, Observe, UpdateReturns, ApplyActions, EndReturns,
           AbortReturns, CloseReturns
  <2> QED BY <2>1, <2>2, <2>3, <2>4
<1>8. Entered
  <2> USE <1>1, <1>2, <1>3, <1>4 DEF TypeOK, Outcomes
  <2>1. CASE OpenReturns
    BY <2>1 DEF OpenReturns, RpcOps, CommandOps, LocalOps
  <2>2. CASE LoadMap
    BY <2>2 DEF LoadMap, RpcOps, CommandOps, LocalOps
  <2>3. CASE InitReturns
    BY <2>3 DEF InitReturns, RpcOps, CommandOps, LocalOps
  <2>4. CASE LoopHead
    BY <2>4 DEF LoopHead, RpcOps, CommandOps, LocalOps
  <2>5. CASE BeginReturns
    BY <2>5 DEF BeginReturns, RpcOps, CommandOps, LocalOps
  <2>6. CASE Observe
    BY <2>6 DEF Observe, RpcOps, CommandOps, LocalOps
  <2>7. CASE UpdateReturns
    BY <2>7 DEF UpdateReturns, RpcOps, CommandOps, LocalOps
  <2>8. CASE ApplyActions
    BY <2>8 DEF ApplyActions, RpcOps, CommandOps, LocalOps
  <2>9. CASE EndReturns
    BY <2>9 DEF EndReturns, RpcOps, CommandOps, LocalOps
  <2>10. CASE AbortReturns
    BY <2>10 DEF AbortReturns, RpcOps, CommandOps, LocalOps
  <2>11. CASE CloseReturns
    BY <2>11 DEF CloseReturns, RpcOps, CommandOps, LocalOps
  <2> QED BY <2>1, <2>2, <2>3, <2>4, <2>5, <2>6, <2>7, <2>8, <2>9, <2>10,
             <2>11 DEF RunSession
<1> QED BY <1>5, <1>6, <1>7, <1>8

(* Serving a command keeps the server's variables in their ranges. *)
WindowType == [present : BOOLEAN, seq : Nat, payload : Payload,
               response : Reply \cup {NoReply}]

LEMMA CommandReplyType ==
  ASSUME NEW res \in Results, NEW n \in Nat, NEW p \in Phases
  PROVE  /\ CommandReply(res, n, p) \in Reply
         /\ CommandReply(res, n, p).result = res
         /\ CommandReply(res, n, p).applied = n
         /\ CommandReply(res, n, p).phase = p
BY DEF CommandReply, Reply

LEMMA BytesType ==
  ASSUME NEW r \in Request
  PROVE  Bytes(r) \in Payload
BY DEF Bytes, Request, Payload, RpcOps, CommandOps, IdentityOnly

LEMMA ServeType ==
  ASSUME TypeOK, NEW r \in Request, NEW mine \in BOOLEAN, Serve(r, mine)
  PROVE  /\ reply' \in Reply \cup {NoReply}
         /\ phase' \in Phases
         /\ last' \in Nat
         /\ window' \in WindowType
         /\ episodes' \in 0..MaxEpisodes
         /\ log' \in Seq(Request)
<1> DEFINE Goal == /\ reply' \in Reply \cup {NoReply}
                   /\ phase' \in Phases
                   /\ last' \in Nat
                   /\ window' \in WindowType
                   /\ episodes' \in 0..MaxEpisodes
                   /\ log' \in Seq(Request)
<1>1. /\ reply \in Reply \cup {NoReply}
      /\ phase \in Phases
      /\ last \in Nat
      /\ window \in WindowType
      /\ episodes \in 0..MaxEpisodes
      /\ log \in Seq(Request)
  BY DEF TypeOK, WindowType
<1>2. "OPEN" \in Phases /\ Results = {"APPLIED", "ALREADY_APPLIED", "WAIT", "REJECTED"}
  BY DEF Phases, Results
<1>3. ASSUME UNCHANGED serverVars, NEW rep \in Reply, Respond(mine, rep)
      PROVE  Goal
  BY <1>1, <1>3 DEF serverVars, Respond
<1>4. CASE OpenSession(mine)
  <2>1. CASE UNCHANGED serverVars /\ RejectCommand(mine)
    BY <1>1, <1>2, <1>3, <2>1, CommandReplyType DEF RejectCommand
  <2>2. CASE /\ phase' = IF phase = "UNSPECIFIED" THEN "OPEN" ELSE phase
             /\ Respond(mine, CommandReply("APPLIED", last, phase'))
             /\ UNCHANGED <<last, window, episodes, log>>
    <3>1. phase' \in Phases
      BY <1>1, <1>2, <2>2
    <3>2. CommandReply("APPLIED", last, phase') \in Reply
      BY <1>1, <1>2, <3>1, CommandReplyType
    <3> QED BY <1>1, <2>2, <3>1, <3>2 DEF Respond
  <2> QED BY <1>4, <2>1, <2>2 DEF OpenSession
<1>5. CASE ReplayStored(r, mine)
  <2>1. [window.response EXCEPT !.result = "ALREADY_APPLIED"] \in Reply
    BY <1>1, <1>2 DEF WindowType, Reply, NoReply, Phases
  <2> QED BY <1>3, <1>5, <2>1 DEF ReplayStored
<1>6. CASE Refuse(r, mine)
  BY <1>1, <1>2, <1>3, <1>6, CommandReplyType DEF Refuse, RejectCommand
<1>7. CASE Defer(r, mine)
  <2>1. PICK retry \in {"zero", "positive"} :
          Respond(mine, [CommandReply("WAIT", last, phase) EXCEPT !.retry = retry])
    BY <1>7 DEF Defer
  <2>2. [CommandReply("WAIT", last, phase) EXCEPT !.retry = retry] \in Reply
    BY <1>1, <1>2 DEF CommandReply, Reply
  <2> QED BY <1>3, <1>7, <2>1, <2>2 DEF Defer
<1>8. CASE Commit(r, mine)
  <2> DEFINE assigned(to) == IF r.op = "Begin" /\ to = "RUNNING"
                             THEN episodes + 1 ELSE 0
             response(to) == [CommandReply("APPLIED", r.seq, to)
                                EXCEPT !.episode = assigned(to)]
  <2>1. PICK to \in Phases :
          /\ Transition(r, phase, to)
          /\ phase' = to
          /\ episodes' = IF assigned(to) > 0 THEN assigned(to) ELSE episodes
          /\ last' = r.seq
          /\ window' = [present |-> TRUE, seq |-> r.seq,
                        payload |-> Bytes(r), response |-> response(to)]
          /\ log' = Append(log, r)
          /\ Respond(mine, response(to))
    BY <1>8 DEF Commit
  <2>2. r.seq \in Nat /\ Bytes(r) \in Payload
    BY BytesType DEF Request
  <2>3. assigned(to) \in 0..MaxEpisodes
    BY <1>1, <2>1, BoundsAssumption DEF Transition
  <2>4. response(to) \in Reply
    <3> HIDE DEF assigned
    <3> QED BY <1>2, <2>2, <2>3, BoundsAssumption DEF CommandReply, Reply
  <2>5. reply' \in Reply \cup {NoReply}
    BY <1>1, <2>1, <2>4 DEF Respond
  <2>6. window' \in WindowType
    BY <2>1, <2>2, <2>4 DEF WindowType
  <2>7. episodes' \in 0..MaxEpisodes
    BY <1>1, <2>1, <2>3
  <2>8. log' \in Seq(Request)
    BY <1>1, <2>1
  <2> QED BY <2>1, <2>2, <2>5, <2>6, <2>7, <2>8
<1> QED BY <1>4, <1>5, <1>6, <1>7, <1>8 DEF Serve

(* What the return of an Exchange leaves in the call's variables. *)
LEMMA ReturnType ==
  ASSUME TypeOK, Calling, NEW outcome \in Outcomes, Return(outcome)
  PROVE  /\ result' \in Outcomes \cup {"None"}
         /\ error' \in Seq(RpcOps)
         /\ attempt' \in 0..2
         /\ reply' \in Reply \cup {NoReply}
<1>1. op \in RpcOps /\ error \in Seq(RpcOps)
  BY DEF TypeOK, Calling
<1>2. <<>> \in Seq(RpcOps) /\ <<op>> \in Seq(RpcOps)
  BY <1>1
<1>3. error \o <<>> \in Seq(RpcOps) /\ error \o <<op>> \in Seq(RpcOps)
  BY <1>1, <1>2
<1>4. ErrorAfter(outcome) \in Seq(RpcOps)
  BY <1>2, <1>3 DEF ErrorAfter
<1> QED BY <1>4 DEF Return

(* The variables the client's own steps and the server's share. *)
LEMMA TypeStep ==
  ASSUME IInv, [Next]_vars
  PROVE  TypeOK'
<1>0. TypeOK /\ CallInv
  BY DEF IInv
<1>1. CASE RunSession
  <2>1. PICK o \in (RpcOps \cup LocalOps) \ {"Open"} : Enter(o)
    BY <1>1, RunSessionEnters
  <2>2. /\ op' \in RpcOps \cup LocalOps
        /\ request' \in Request \cup {NoRequest}
        /\ result' \in Outcomes \cup {"None"}
        /\ waits' \in 0..AbortWaits
    BY <1>0, <2>1, PreparedRequest, BoundsAssumption DEF Enter
  <2>3. /\ verdict' \in Outcomes \cup {"None"}
        /\ frame' \in 0..MaxFrames /\ allDone' \in BOOLEAN
        /\ UNCHANGED Elsewhere
    BY <1>1, RunSessionEnters
  <2> QED BY <1>0, <2>2, <2>3 DEF TypeOK, Elsewhere, serverVars
<1>2. CASE Exchange
  <2> DEFINE Rest == /\ UNCHANGED <<op, request, verdict, envVars, stop, serverVars>>
                     /\ UNCHANGED <<cursor, late, acked>>
             Own == /\ result' \in Outcomes \cup {"None"}
                    /\ error' \in Seq(RpcOps)
                    /\ attempt' \in 0..2
                    /\ reply' \in Reply \cup {NoReply}
                    /\ waits' \in 0..AbortWaits
  <2>1. Calling
    BY <1>2 DEF Exchange, ExchangeStopped, AbortBudgetExpires, Invoke,
                AttemptFails, WaitReply, AppliedReply, OpenReply, OtherReply
  <2>2. request \in Request
    BY <1>0, <2>1 DEF CallInv, Calling
  <2>3. \A out \in Outcomes : Return(out) =>
          Own /\ UNCHANGED <<op, request, verdict, envVars, stop, serverVars>>
    <3> SUFFICES ASSUME NEW out \in Outcomes, Return(out)
                 PROVE  Own /\ UNCHANGED <<op, request, verdict, envVars, stop,
                                          serverVars>>
      OBVIOUS
    <3>1. UNCHANGED <<op, request, waits, verdict, envVars, stop, serverVars>>
      BY DEF Return
    <3> QED BY <1>0, <2>1, <3>1, ReturnType DEF TypeOK
  <2>4. Own /\ Rest => TypeOK'
    BY <1>0 DEF TypeOK, envVars, serverVars
  <2>5. CASE ExchangeStopped \/ AbortBudgetExpires
    <3>1. PICK out \in Outcomes : Return(out)
      BY <2>5 DEF ExchangeStopped, AbortBudgetExpires, Outcomes
    <3> QED BY <2>3, <2>4, <2>5, <3>1 DEF ExchangeStopped, AbortBudgetExpires
  <2>6. CASE Invoke
    BY <1>0, <2>6 DEF Invoke, TypeOK, callVars, envVars, serverVars
  <2>7. CASE AttemptFails
    <3>1. late' \subseteq Request
      BY <1>0, <2>2, <2>7 DEF AttemptFails, Abandon, TypeOK
    <3>2. Own /\ UNCHANGED <<op, request, verdict, envVars, stop, serverVars>>
      <4>1. CASE Return("Unknown")
        BY <2>3, <4>1 DEF Outcomes
      <4>2. CASE /\ attempt' = 2
                 /\ reply' = NoReply
                 /\ UNCHANGED <<callVars, envVars, stop, serverVars>>
        BY <1>0, <4>2 DEF TypeOK, callVars
      <4> QED BY <2>7, <4>1, <4>2 DEF AttemptFails
    <3>3. UNCHANGED <<cursor, acked>>
      BY <2>7 DEF AttemptFails
    <3> QED BY <1>0, <3>1, <3>2, <3>3 DEF TypeOK, envVars, serverVars
  <2>8. CASE WaitReply
    <3>1. waits' \in 0..AbortWaits
      <4>1. attempt > 0
        BY <1>0, <2>8 DEF WaitReply, CallInv, TypeOK
      <4> QED BY <1>0, <2>8, <4>1, BoundsAssumption
              DEF WaitReply, CallInv, TypeOK
    <3> QED BY <1>0, <2>8, <3>1 DEF WaitReply, TypeOK, envVars, serverVars
  <2>9. CASE AppliedReply
    <3>1. reply \in Reply
      BY <1>0, <2>9 DEF AppliedReply, TypeOK
    <3>2. EpisodeAfter(reply) \in Nat
      BY <1>0, <3>1 DEF EpisodeAfter, TypeOK, Reply
    <3>3. cursor' \in [phase : Phases, next : Nat \ {0}, episode : Nat]
      BY <1>0, <2>9, <3>1, <3>2 DEF AppliedReply, TypeOK, Reply
    <3>4. acked' \in Seq(Request)
      BY <1>0, <2>2, <2>9 DEF AppliedReply, TypeOK
    <3>5. Own /\ UNCHANGED <<op, request, verdict, envVars, stop, serverVars>>
      BY <2>3, <2>9 DEF AppliedReply, Outcomes
    <3> QED BY <1>0, <2>9, <3>3, <3>4, <3>5
            DEF AppliedReply, TypeOK, envVars, serverVars
  <2>10. ASSUME NEW valid \in BOOLEAN, OpenReply(valid) PROVE TypeOK'
    <3>1. cursor' \in [phase : Phases, next : Nat \ {0}, episode : Nat]
      <4>1. reply \in Reply
        BY <1>0, <2>10 DEF OpenReply, TypeOK
      <4>2. reply.applied + 1 \in Nat \ {0} /\ reply.phase \in Phases
        BY <4>1 DEF Reply
      <4>3. \/ UNCHANGED cursor
            \/ cursor' = [cursor EXCEPT !.phase = reply.phase,
                                       !.next = reply.applied + 1]
        BY <2>10 DEF OpenReply
      <4> QED BY <1>0, <4>2, <4>3 DEF TypeOK
    <3>2. Own /\ UNCHANGED <<op, request, verdict, envVars, stop, serverVars>>
      BY <2>3, <2>10 DEF OpenReply, Outcomes
    <3> QED BY <1>0, <2>10, <3>1, <3>2
            DEF OpenReply, TypeOK, envVars, serverVars
  <2>11. ASSUME NEW valid \in BOOLEAN, OtherReply(valid) PROVE TypeOK'
    <3>1. PICK out \in Outcomes : Return(out)
      BY <2>11 DEF OtherReply, Outcomes
    <3> QED BY <2>3, <2>4, <2>11, <3>1 DEF OtherReply
  <2> QED BY <1>2, <2>5, <2>6, <2>7, <2>8, <2>9, <2>10, <2>11 DEF Exchange
<1>3. CASE ServeAttempt
  <2>1. request \in Request /\ TRUE \in BOOLEAN
    BY <1>0, <1>3 DEF ServeAttempt, Calling, CallInv
  <2> QED BY <1>0, <1>3, <2>1, ServeType
          DEF ServeAttempt, TypeOK, WindowType, callVars, envVars
<1>4. CASE ServeLate
  <2>1. PICK r \in late : Serve(r, FALSE) /\ late' \in {late, late \ {r}}
    BY <1>4 DEF ServeLate
  <2>2. r \in Request /\ late' \subseteq Request
    BY <1>0, <2>1 DEF TypeOK
  <2> QED BY <1>0, <1>4, <2>1, <2>2, ServeType
          DEF ServeLate, TypeOK, WindowType, callVars, envVars
<1>5. CASE LoseLate
  BY <1>0, <1>5 DEF LoseLate, TypeOK, callVars, envVars, serverVars
<1>6. CASE Signal
  BY <1>0, <1>6 DEF Signal, TypeOK, callVars, envVars, serverVars
<1>7. CASE UNCHANGED vars
  BY <1>0, <1>7 DEF vars, TypeOK
<1> QED BY <1>1, <1>2, <1>3, <1>4, <1>5, <1>6, <1>7
        DEF Next, Client, Exited

-----------------------------------------------------------------------------
(* What a step may change                                                  *)

(* Only RunSession moves between methods or touches the environment. *)
LEMMA OnlyRunSessionMoves ==
  ASSUME [Next]_vars, ~RunSession
  PROVE  UNCHANGED <<op, request, verdict, frame, allDone>>
<1>1. CASE Exchange
  BY <1>1 DEF Exchange, ExchangeStopped, AbortBudgetExpires, Invoke,
              AttemptFails, WaitReply, AppliedReply, OpenReply, OtherReply,
              Return, callVars, envVars
<1>2. CASE ServeAttempt \/ ServeLate \/ LoseLate \/ Signal \/ UNCHANGED vars
  BY <1>2 DEF ServeAttempt, ServeLate, LoseLate, Signal, vars, callVars,
              envVars
<1> QED BY <1>1, <1>2 DEF Next, Client, Exited

LEMMA NoReplyNotAccepted == ~CommandAccepted(NoReply)
BY DEF CommandAccepted, NoReply

(* The reply of a late copy reaches no one. *)
LEMMA LateReplyDiscarded ==
  ASSUME NEW r, Serve(r, FALSE)
  PROVE  reply' = reply
BY DEF Serve, OpenSession, ReplayStored, Refuse, Defer, Commit, RejectCommand,
       Respond

(* An outstanding command is the one beyond the acknowledged ones. *)
LEMMA OutstandingOne ==
  ASSUME TypeOK, NEW c \in Request, Outstanding(c)
  PROVE  /\ Len(log) = Len(acked) + 1
         /\ acked # log
         /\ log # <<>>
         /\ phase # "UNSPECIFIED"
<1>1. acked \in Seq(Request) /\ log \in Seq(Request)
  BY DEF TypeOK
<1>2. Len(log) = Len(acked) + 1 /\ Len(acked) \in Nat
  BY <1>1 DEF Outstanding
<1>3. log # <<>> /\ acked # log
  BY <1>1, <1>2
<1>4. phase # "UNSPECIFIED"
  BY DEF Outstanding, PhasesAfter, AcceptedPhases, CommandOps
<1> QED BY <1>2, <1>3, <1>4

(* A server step either commits a command as the one outstanding, or       *)
(* leaves the log, the window and, but for opening the Session, the phase. *)
Quiet(r) ==
  /\ UNCHANGED <<last, window, log>>
  /\ \/ UNCHANGED phase
     \/ r.op = "Open" /\ phase = "UNSPECIFIED" /\ phase' = "OPEN"

Confirmed(r, mine) ==
  /\ r.op \in CommandOps
  /\ acked = log
  /\ phase # "CLOSED"
  /\ log' = Append(log, r)
  /\ last' = r.seq /\ last' = last + 1
  /\ window'.present /\ window'.seq = r.seq
  /\ window'.payload = Bytes(r)
  /\ window'.response.applied = r.seq
  /\ window'.response.phase = phase'
  /\ phase' \in PhasesAfter(r)
  /\ phase' # "UNSPECIFIED"
  /\ mine => reply' = window'.response

LEMMA CommitConfirms ==
  ASSUME IInv, NEW r \in Request, r.seq <= cursor.next,
         NEW mine \in BOOLEAN, Commit(r, mine)
  PROVE  Confirmed(r, mine)
<1>1. TypeOK /\ LedgerInv
  BY DEF IInv
<1>2. r.seq \in Nat /\ last \in Nat /\ Len(acked) \in Nat
  BY <1>1 DEF TypeOK, Request
<1>3. r.seq = last + 1
  <2>1. Classify(r) = "Proceed"
    BY DEF Commit
  <2>2. CASE window.present /\ r.seq = window.seq
    BY <2>1, <2>2 DEF Classify
  <2>3. CASE ~(window.present /\ r.seq = window.seq)
    BY <2>1, <2>3 DEF Classify
  <2> QED BY <2>2, <2>3
<1>4. acked = log
  <2>1. last <= Len(acked)
    BY <1>1, <1>2, <1>3 DEF LedgerInv
  <2>2. ~\E c \in Request : Outstanding(c)
    BY <1>1, <1>2, <2>1, OutstandingOne DEF LedgerInv
  <2> QED BY <1>1, <2>2 DEF LedgerInv
<1> DEFINE assigned(to) == IF r.op = "Begin" /\ to = "RUNNING"
                           THEN episodes + 1 ELSE 0
           response(to) == [CommandReply("APPLIED", r.seq, to)
                              EXCEPT !.episode = assigned(to)]
<1>5. PICK to \in Phases :
        /\ Transition(r, phase, to)
        /\ phase' = to
        /\ last' = r.seq
        /\ window' = [present |-> TRUE, seq |-> r.seq,
                      payload |-> Bytes(r), response |-> response(to)]
        /\ log' = Append(log, r)
        /\ Respond(mine, response(to))
  BY DEF Commit
<1>6. /\ r.op \in CommandOps
      /\ to \in PhasesAfter(r)
      /\ to # "UNSPECIFIED"
      /\ phase # "CLOSED"
  BY <1>1, <1>5, TransitionPhases DEF TypeOK
<1>7. response(to).applied = r.seq /\ response(to).phase = to
  BY DEF CommandReply
<1>8. /\ window'.present /\ window'.seq = r.seq /\ window'.payload = Bytes(r)
      /\ window'.response = response(to)
  <2> HIDE DEF response
  <2> QED BY <1>5
<1>9. mine => reply' = response(to)
  BY <1>5 DEF Respond
<1> HIDE DEF response
<1> QED BY <1>3, <1>4, <1>5, <1>6, <1>7, <1>8, <1>9 DEF Confirmed

LEMMA ServeCases ==
  ASSUME IInv, NEW r \in Request, r.seq <= cursor.next,
         NEW mine \in BOOLEAN, Serve(r, mine)
  PROVE  Quiet(r) \/ Confirmed(r, mine)
<1>1. CASE r.op = "Open" /\ OpenSession(mine)
  BY <1>1 DEF OpenSession, Quiet, serverVars
<1>2. CASE ReplayStored(r, mine) \/ Refuse(r, mine) \/ Defer(r, mine)
  BY <1>2 DEF ReplayStored, Refuse, Defer, Quiet, serverVars
<1>3. CASE Commit(r, mine)
  BY <1>3, CommitConfirms
<1> QED BY <1>1, <1>2, <1>3 DEF Serve

(* The heart of the matter: a reply the client takes as its receipt is the *)
(* receipt of the very command it sent, so the log is what it acknowledges.*)
LEMMA AppliedReplyConfirms ==
  ASSUME IInv, AppliedReply
  PROVE  /\ op \in CommandOps
         /\ Outstanding(request)
         /\ acked' = log
         /\ cursor'.phase = phase
         /\ cursor'.next = cursor.next + 1
         /\ phase \in PhasesAfter(request)
         /\ UNCHANGED <<op, request, serverVars, late>>
<1>1. TypeOK /\ CallInv /\ ReplyInv
  BY DEF IInv
<1>2. op \in CommandOps /\ request \in Request /\ request.op = op
  BY <1>1 DEF AppliedReply, Calling, CallInv, RpcOps
<1>3. /\ reply.phase \in AcceptedPhases(op)
      /\ CommandAccepted(reply)
      /\ reply.applied = cursor.next
  BY DEF AppliedReply, Confirms
<1>4. PICK c \in Request : /\ Outstanding(c)
                           /\ Bytes(request) = Bytes(c)
                           /\ reply.phase = phase
  BY <1>1, <1>2, <1>3 DEF ReplyInv
<1>5. c.op \in CommandOps /\ phase \in AcceptedPhases(c.op)
  BY <1>4, PhasesAfterAccepted DEF Outstanding
<1>6. request = c
  BY <1>2, <1>3, <1>4, <1>5, BytesAndPhase
<1>7. acked' = log /\ phase \in PhasesAfter(request)
  BY <1>4, <1>6 DEF AppliedReply, Outstanding
<1>8. cursor'.phase = phase /\ cursor'.next = cursor.next + 1
  BY <1>4 DEF AppliedReply
<1>9. UNCHANGED <<op, request, serverVars, late>>
  BY DEF AppliedReply, Return
<1> QED BY <1>2, <1>4, <1>6, <1>7, <1>8, <1>9

(* While OpenSession is not bound, nothing is in the log. *)
LEMMA UnboundIsEmpty ==
  ASSUME IInv, op = "Open", result # "Applied"
  PROVE  /\ cursor.phase = "UNSPECIFIED"
         /\ log = <<>> /\ acked = <<>>
         /\ cursor.next = 1
<1>1. TypeOK /\ LedgerInv /\ BindInv
  BY DEF IInv
<1>2. cursor.phase = "UNSPECIFIED" /\ log = <<>>
  BY <1>1 DEF BindInv
<1>3. acked = log
  BY <1>1, <1>2, OutstandingOne DEF LedgerInv
<1>4. Len(acked) = 0
  BY <1>2, <1>3
<1> QED BY <1>1, <1>2, <1>3, <1>4 DEF LedgerInv

(* A reply that binds the Session was given by the Session. *)
LEMMA OpenReplyBinds ==
  ASSUME IInv, NEW valid \in BOOLEAN, OpenReply(valid)
  PROVE  /\ UNCHANGED <<op, request, serverVars, late, acked>>
         /\ \/ cursor' = cursor /\ result' # "Applied" /\ result' # "Stopped"
            \/ /\ phase = "OPEN" /\ cursor'.phase = "OPEN"
               /\ cursor'.next = cursor.next
               /\ result' = "Applied"
<1>1. TypeOK /\ BindInv
  BY DEF IInv
<1>2. UNCHANGED <<op, request, serverVars, late, acked>>
  BY DEF OpenReply, Return
<1>3. op = "Open" /\ result = "None"
  BY DEF OpenReply, Calling
<1>4. cursor.next = 1
  BY <1>3, UnboundIsEmpty
<1> DEFINE bound == reply.applied = 0 /\ reply.phase = "OPEN" /\ valid
<1>5. CASE CommandAccepted(reply) /\ bound
  <2>1. /\ cursor' = [cursor EXCEPT !.phase = reply.phase,
                                   !.next = reply.applied + 1]
        /\ result' = "Applied"
    BY <1>5 DEF OpenReply, Return
  <2>2. phase = "OPEN"
    BY <1>1, <1>3, <1>5 DEF BindInv
  <2>3. cursor'.phase = "OPEN" /\ cursor'.next = 1
    BY <1>1, <1>5, <2>1 DEF TypeOK
  <2> QED BY <1>2, <1>4, <2>1, <2>2, <2>3
<1>6. CASE ~(CommandAccepted(reply) /\ bound)
  <2>1. cursor' = cursor /\ result' \in {"Unknown", "Rejected"}
    BY <1>6 DEF OpenReply, Return
  <2> QED BY <1>2, <2>1
<1> QED BY <1>5, <1>6

(* Every other step of an Exchange leaves the cursor and the server alone. *)
LEMMA OtherExchange ==
  ASSUME TypeOK, Exchange, ~AppliedReply,
         ~ \E valid \in BOOLEAN : OpenReply(valid)
  PROVE  /\ UNCHANGED <<op, request, cursor, serverVars, acked>>
         /\ op \in RpcOps /\ result = "None"
         /\ result' # "Applied"
         /\ result' = "Stopped" => op \in Stoppable
         /\ reply' = reply \/ reply' = NoReply
         /\ late' = late \/ late' = late \cup {request}
<1>1. CASE ExchangeStopped \/ AbortBudgetExpires
  BY <1>1 DEF ExchangeStopped, AbortBudgetExpires, Return, Calling
<1>2. CASE Invoke \/ WaitReply
  BY <1>2 DEF Invoke, WaitReply, Calling, callVars
<1>3. CASE AttemptFails
  BY <1>3 DEF AttemptFails, Abandon, Return, Calling, callVars
<1>4. CASE \E valid \in BOOLEAN : OtherReply(valid)
  BY <1>4 DEF OtherReply, Return, Calling
<1> QED BY <1>1, <1>2, <1>3, <1>4 DEF Exchange

(* A served attempt is the client's current request. *)
LEMMA ServedRequest ==
  ASSUME IInv, ServeAttempt
  PROVE  /\ request \in Request /\ request.op = op
         /\ request.seq <= cursor.next
         /\ Quiet(request) \/ Confirmed(request, TRUE)
         /\ UNCHANGED <<callVars, attempt, cursor, envVars, stop, late, acked>>
         /\ attempt > 0
         /\ op = "Open" => Quiet(request)
<1>1. TypeOK /\ CallInv
  BY DEF IInv
<1>2. op \in RpcOps /\ result = "None"
  BY DEF ServeAttempt, Calling
<1>3. request \in Request /\ request.op = op
  BY <1>1, <1>2 DEF CallInv
<1>4. request.seq <= cursor.next
  BY <1>1, <1>2 DEF CallInv, TypeOK, RpcOps
<1>5. Quiet(request) \/ Confirmed(request, TRUE)
  BY <1>3, <1>4, ServeCases DEF ServeAttempt
<1>6. op = "Open" => Quiet(request)
  BY <1>3, <1>5 DEF Confirmed, CommandOps
<1> QED BY <1>3, <1>4, <1>5, <1>6 DEF ServeAttempt

LEMMA ServedLate ==
  ASSUME IInv, ServeLate
  PROVE  /\ \E r \in late : /\ r \in Request
                            /\ Quiet(r) \/ Confirmed(r, FALSE)
         /\ UNCHANGED <<callVars, attempt, cursor, envVars, stop, acked>>
         /\ reply' = reply
         /\ late' \subseteq late
<1>1. TypeOK /\ LateInv
  BY DEF IInv
<1>2. PICK r \in late : Serve(r, FALSE) /\ late' \in {late, late \ {r}}
  BY DEF ServeLate
<1>3. r \in Request /\ r.seq <= cursor.next
  BY <1>1 DEF TypeOK, LateInv
<1> QED BY <1>2, <1>3, ServeCases, LateReplyDiscarded DEF ServeLate

LEMMA CallStep ==
  ASSUME IInv, [Next]_vars
  PROVE  CallInv'
<1>0. TypeOK /\ CallInv
  BY DEF IInv
<1>1. CASE RunSession
  <2>1. PICK o \in (RpcOps \cup LocalOps) \ {"Open"} : Enter(o)
    BY <1>1, RunSessionEnters
  <2>2. attempt' = 0 /\ reply' = NoReply /\ cursor' = cursor
    BY <1>1, RunSessionEnters DEF Elsewhere
  <2>3. /\ op' = o /\ request' = Prepare(o)
    BY <2>1 DEF Enter
  <2> QED BY <1>0, <2>2, <2>3, PreparedRequest
          DEF CallInv, RpcOps, CommandOps, LocalOps
<1>2. CASE Exchange
  <2>1. op \in RpcOps /\ result = "None" /\ UNCHANGED <<op, request>>
    BY <1>2, <1>0, OtherExchange, AppliedReplyConfirms, OpenReplyBinds
       DEF AppliedReply, OpenReply, Calling
  <2>2. request \in Request /\ request.op = op /\ op \notin LocalOps
    BY <1>0, <2>1 DEF CallInv, RpcOps, CommandOps, LocalOps
  <2>3. (op' \in CommandOps /\ result' # "Applied") => request'.seq = cursor'.next
    <3>1. CASE AppliedReply
      BY <3>1 DEF AppliedReply, Return
    <3>2. CASE \E valid \in BOOLEAN : OpenReply(valid)
      BY <2>1, <3>2 DEF OpenReply, CommandOps
    <3>3. CASE ~AppliedReply /\ ~ \E valid \in BOOLEAN : OpenReply(valid)
      BY <1>0, <1>2, <2>1, <3>3, OtherExchange DEF CallInv
    <3> QED BY <3>1, <3>2, <3>3
  <2>4. \/ attempt' = 0 /\ reply' = NoReply
        \/ attempt' > 0 /\ result' = "None" /\ waits' < AbortWaits
    <3>1. ASSUME NEW out, Return(out) PROVE attempt' = 0 /\ reply' = NoReply
      BY <3>1 DEF Return
    <3>2. CASE Invoke
      BY <1>0, <3>2 DEF Invoke, callVars, Calling
    <3>3. CASE AttemptFails
      <4>1. CASE Return("Unknown")
        BY <3>1, <4>1
      <4>2. CASE attempt' = 2 /\ UNCHANGED callVars
        BY <1>0, <2>1, <3>3, <4>2 DEF AttemptFails, CallInv, callVars
      <4> QED BY <3>3, <4>1, <4>2 DEF AttemptFails
    <3>4. CASE WaitReply
      BY <3>4 DEF WaitReply
    <3>5. CASE \/ ExchangeStopped \/ AbortBudgetExpires \/ AppliedReply
               \/ \E valid \in BOOLEAN : OpenReply(valid) \/ OtherReply(valid)
      BY <3>1, <3>5 DEF ExchangeStopped, AbortBudgetExpires, AppliedReply,
                        OpenReply, OtherReply
    <3> QED BY <1>2, <3>2, <3>3, <3>4, <3>5 DEF Exchange
  <2> QED BY <1>0, <2>1, <2>2, <2>3, <2>4 DEF CallInv, TypeOK
<1>3. CASE ServeAttempt
  BY <1>0, <1>3, ServedRequest DEF CallInv, callVars
<1>4. CASE ServeLate
  BY <1>0, <1>4, ServedLate DEF CallInv, callVars
<1>5. CASE LoseLate \/ Signal \/ UNCHANGED vars
  BY <1>0, <1>5 DEF CallInv, LoseLate, Signal, vars, callVars
<1> QED BY <1>1, <1>2, <1>3, <1>4, <1>5 DEF Next, Client, Exited

LEMMA FrameStep ==
  ASSUME IInv, [Next]_vars
  PROVE  FrameInv'
<1>0. TypeOK /\ FrameInv
  BY DEF IInv
<1>1. CASE ~RunSession
  BY <1>0, <1>1, OnlyRunSessionMoves DEF FrameInv
<1>2. CASE RunSession
  <2> DEFINE Quietly == /\ UNCHANGED envVars
                        /\ op' \notin {"Update", "Apply"}
  <2>1. ASSUME NEW o \in Outcomes, Finish(o)
        PROVE  op' \in {"Abort", "Close", "Done"}
    BY <1>0, <2>1, FinishEnters DEF Enter
  <2>2. Quietly => FrameInv'
    BY <1>0 DEF FrameInv, envVars
  <2>3. result # "None" => result \in Outcomes
    BY <1>0 DEF TypeOK
  <2>4. CASE OpenReturns \/ LoadMap \/ InitReturns \/ LoopHead \/ EndReturns
    <3>1. UNCHANGED envVars
      BY <2>4 DEF OpenReturns, LoadMap, InitReturns, LoopHead, EndReturns
    <3>2. op' \notin {"Update", "Apply"}
      BY <2>1, <2>3, <2>4 DEF OpenReturns, LoadMap, InitReturns, LoopHead,
                              EndReturns, Enter, Outcomes
    <3> QED BY <2>2, <3>1, <3>2
  <2>5. CASE BeginReturns
    <3>1. op' \notin {"Update", "Apply"}
      BY <2>1, <2>3, <2>5 DEF BeginReturns, Enter, Outcomes
    <3>2. CASE UNCHANGED envVars
      BY <2>2, <3>1, <3>2
    <3>3. CASE frame' = 0 /\ allDone' = FALSE
      BY <3>1, <3>3, BoundsAssumption DEF FrameInv
    <3> QED BY <2>5, <3>2, <3>3 DEF BeginReturns
  <2>6. CASE Observe
    <3>1. UNCHANGED envVars
      BY <2>6 DEF Observe
    <3>2. CASE Enter("Update")
      <4>1. op' = "Update" /\ request'.final = allDone
        BY <1>0, <3>2 DEF Enter, Prepare, RpcOps, CommandOps, TypeOK
      <4> QED BY <1>0, <3>1, <4>1 DEF FrameInv, envVars
    <3>3. CASE op' \notin {"Update", "Apply"}
      BY <2>2, <3>1, <3>3
    <3> QED BY <2>1, <2>6, <3>2, <3>3 DEF Observe, Outcomes
  <2>7. CASE UpdateReturns
    <3>1. UNCHANGED envVars /\ op = "Update"
      BY <2>7 DEF UpdateReturns
    <3>2. CASE Enter(IF request.final THEN "End" ELSE "Apply")
      <4>1. op' # "Update" /\ (op' = "Apply" => ~request.final)
        BY <3>2 DEF Enter
      <4>2. op' = "Apply" => ~allDone
        BY <1>0, <3>1, <4>1 DEF FrameInv
      <4> QED BY <1>0, <3>1, <4>1, <4>2 DEF FrameInv, envVars
    <3>3. CASE op' \notin {"Update", "Apply"}
      BY <2>2, <3>1, <3>3
    <3> QED BY <2>1, <2>3, <2>7, <3>2, <3>3 DEF UpdateReturns
  <2>8. CASE ApplyActions
    <3>1. op' \notin {"Update", "Apply"}
      BY <2>1, <2>8 DEF ApplyActions, Enter, Outcomes
    <3>2. CASE UNCHANGED envVars
      BY <2>2, <3>1, <3>2
    <3>3. CASE /\ frame' = frame + 1
               /\ allDone' \in {done \in BOOLEAN : frame + 1 >= MaxFrames => done}
      <4>1. allDone' \/ frame' < MaxFrames
        <5>1. frame' < MaxFrames \/ frame' >= MaxFrames
          BY <1>0, <3>3, BoundsAssumption DEF TypeOK
        <5> QED BY <3>3, <5>1
      <4> QED BY <3>1, <4>1 DEF FrameInv
    <3> QED BY <2>8, <3>2, <3>3 DEF ApplyActions
  <2>9. CASE AbortReturns \/ CloseReturns
    <3>1. UNCHANGED envVars
      BY <2>9 DEF AbortReturns, CloseReturns
    <3>2. op' \notin {"Update", "Apply"}
      BY <2>9 DEF AbortReturns, CloseReturns, Enter
    <3> QED BY <2>2, <3>1, <3>2
  <2> QED BY <1>2, <2>4, <2>5, <2>6, <2>7, <2>8, <2>9 DEF RunSession
<1> QED BY <1>1, <1>2

(* A served command keeps the two ends one command apart at most. *)
LEMMA ServedLedger ==
  ASSUME IInv, NEW r \in Request, NEW mine \in BOOLEAN,
         Quiet(r) \/ Confirmed(r, mine),
         UNCHANGED <<cursor, acked>>
  PROVE  LedgerInv' /\ AgreementInv'
         /\ (phase # "UNSPECIFIED" => phase' # "UNSPECIFIED")
<1>0. TypeOK /\ LedgerInv /\ BindInv /\ AgreementInv
  BY DEF IInv
<1>1. CASE Quiet(r)
  <2>1. UNCHANGED <<last, window, log>>
    BY <1>1 DEF Quiet
  <2>2. CASE UNCHANGED phase
    BY <1>0, <2>1, <2>2 DEF LedgerInv, AgreementInv, Outstanding
  <2>3. CASE phase = "UNSPECIFIED" /\ phase' = "OPEN"
    <3>1. ~\E c \in Request : Outstanding(c)
      BY <1>0, <2>3, OutstandingOne
    <3>2. acked = log /\ cursor.phase = "UNSPECIFIED"
      BY <1>0, <2>3, <3>1 DEF LedgerInv, BindInv
    <3> QED BY <1>0, <2>1, <2>3, <3>2 DEF LedgerInv, AgreementInv
  <2> QED BY <1>1, <2>2, <2>3 DEF Quiet
<1>2. CASE Confirmed(r, mine)
  <2>1. /\ log' = Append(log, r) /\ acked' = log /\ cursor' = cursor
        /\ r.op \in CommandOps
        /\ window'.present /\ window'.seq = r.seq
        /\ window'.payload = Bytes(r)
        /\ window'.response.applied = r.seq
        /\ window'.response.phase = phase'
        /\ phase' \in PhasesAfter(r) /\ phase' # "UNSPECIFIED"
        /\ last' = r.seq /\ last' = last + 1
        /\ phase # "CLOSED" /\ acked = log
    BY <1>2 DEF Confirmed
  <2>2. Outstanding(r)'
    BY <2>1 DEF Outstanding
  <2>3. Len(log') = Len(log) + 1 /\ log' # log
    BY <1>0, <2>1 DEF TypeOK
  <2>4. LedgerInv'
    <3>1. last' = Len(log')
      BY <1>0, <2>1, <2>3 DEF LedgerInv
    <3>2. cursor'.next = Len(acked') + 1
      BY <1>0, <2>1 DEF LedgerInv
    <3> QED BY <2>1, <2>2, <3>1, <3>2 DEF LedgerInv
  <2>5. AgreementInv'
    BY <1>0, <2>1, <2>3 DEF AgreementInv
  <2> QED BY <2>1, <2>4, <2>5
<1> QED BY <1>1, <1>2

LEMMA LedgerAgreementStep ==
  ASSUME IInv, [Next]_vars
  PROVE  LedgerInv' /\ AgreementInv'
<1>0. TypeOK /\ LedgerInv /\ BindInv /\ AgreementInv /\ ReplyInv
  BY DEF IInv
<1>1. ASSUME UNCHANGED <<cursor, serverVars, acked>>
      PROVE  LedgerInv' /\ AgreementInv'
  BY <1>0, <1>1 DEF LedgerInv, AgreementInv, Outstanding, serverVars
<1>2. CASE RunSession
  BY <1>1, <1>2, RunSessionEnters DEF Elsewhere
<1>3. CASE AppliedReply
  <2>1. /\ acked' = log /\ log' = log /\ last' = last /\ window' = window
        /\ phase' = phase
        /\ cursor'.phase = phase /\ cursor'.next = cursor.next + 1
    BY <1>3, AppliedReplyConfirms DEF serverVars
  <2>2. request \in Request /\ Outstanding(request)
    BY <1>0, <1>3, AppliedReplyConfirms DEF IInv, CallInv, RpcOps
  <2>3. Len(log) = Len(acked) + 1
    BY <1>0, <2>2, OutstandingOne
  <2>4. LedgerInv'
    BY <1>0, <2>1, <2>3 DEF LedgerInv, TypeOK
  <2>5. AgreementInv'
    BY <2>1 DEF AgreementInv
  <2> QED BY <2>4, <2>5
<1>4. ASSUME NEW valid \in BOOLEAN, OpenReply(valid)
      PROVE  LedgerInv' /\ AgreementInv'
  <2>1. UNCHANGED <<serverVars, acked>>
    BY <1>4, OpenReplyBinds
  <2>2. CASE cursor' = cursor
    BY <1>1, <2>1, <2>2
  <2>3. CASE /\ phase = "OPEN" /\ cursor'.phase = "OPEN"
             /\ cursor'.next = cursor.next
    BY <1>0, <2>1, <2>3 DEF LedgerInv, AgreementInv, Outstanding, serverVars
  <2> QED BY <1>4, <2>2, <2>3, OpenReplyBinds
<1>5. CASE Exchange /\ ~AppliedReply /\ ~ \E valid \in BOOLEAN : OpenReply(valid)
  BY <1>0, <1>1, <1>5, OtherExchange
<1>6. CASE ServeAttempt
  BY <1>6, ServedRequest, ServedLedger
<1>7. CASE ServeLate
  <2>1. PICK r \in late : r \in Request /\ (Quiet(r) \/ Confirmed(r, FALSE))
    BY <1>7, ServedLate
  <2>2. UNCHANGED <<cursor, acked>> /\ FALSE \in BOOLEAN
    BY <1>7, ServedLate
  <2> QED BY <2>1, <2>2, ServedLedger
<1>8. CASE LoseLate \/ Signal \/ UNCHANGED vars
  BY <1>1, <1>8 DEF LoseLate, Signal, vars, serverVars
<1> QED BY <1>2, <1>3, <1>4, <1>5, <1>6, <1>7, <1>8 DEF Next, Client, Exited

LEMMA LateStep ==
  ASSUME IInv, [Next]_vars
  PROVE  LateInv'
<1>0. TypeOK /\ CallInv /\ LateInv
  BY DEF IInv
<1>1. ASSUME late' \subseteq late, cursor'.next = cursor.next
      PROVE  LateInv'
  BY <1>0, <1>1 DEF LateInv
<1>2. CASE RunSession
  BY <1>1, <1>2, RunSessionEnters DEF Elsewhere
<1>3. CASE AppliedReply
  <2>1. late' = late /\ cursor'.next = cursor.next + 1
    BY <1>3, AppliedReplyConfirms
  <2>2. \A r \in late : r.seq \in Nat /\ cursor.next \in Nat
    BY <1>0 DEF TypeOK, Request
  <2> QED BY <1>0, <2>1, <2>2 DEF LateInv
<1>4. CASE \E valid \in BOOLEAN : OpenReply(valid)
  BY <1>1, <1>4, OpenReplyBinds
<1>5. CASE Exchange /\ ~AppliedReply /\ ~ \E valid \in BOOLEAN : OpenReply(valid)
  <2>1. /\ cursor' = cursor
        /\ late' = late \/ late' = late \cup {request}
        /\ op \in RpcOps /\ result = "None"
    BY <1>0, <1>5, OtherExchange
  <2>2. request.seq <= cursor.next /\ (request.op = "Open" => request.seq = 0)
    BY <1>0, <2>1 DEF CallInv, TypeOK, RpcOps
  <2> QED BY <1>0, <2>1, <2>2 DEF LateInv
<1>6. CASE ServeAttempt
  BY <1>1, <1>6, ServedRequest
<1>7. CASE ServeLate
  BY <1>1, <1>7, ServedLate
<1>8. CASE LoseLate \/ Signal \/ UNCHANGED vars
  BY <1>1, <1>8 DEF LoseLate, Signal, vars
<1> QED BY <1>2, <1>3, <1>4, <1>5, <1>6, <1>7, <1>8 DEF Next, Client, Exited

LEMMA ReplyStep ==
  ASSUME IInv, [Next]_vars
  PROVE  ReplyInv'
<1>0. TypeOK /\ CallInv /\ LedgerInv /\ ReplyInv /\ BindInv
  BY DEF IInv
<1>1. ASSUME reply' = NoReply PROVE ReplyInv'
  BY <1>1, NoReplyNotAccepted DEF ReplyInv, CommandAccepted
<1>2. ASSUME reply' = reply,
             UNCHANGED <<op, request, cursor, serverVars, acked>>
      PROVE  ReplyInv'
  BY <1>0, <1>2 DEF ReplyInv, CommandAccepted, Outstanding, serverVars
<1>3. CASE RunSession
  BY <1>1, <1>3, RunSessionEnters DEF Elsewhere
<1>4. CASE AppliedReply \/ \E valid \in BOOLEAN : OpenReply(valid)
  BY <1>1, <1>4 DEF AppliedReply, OpenReply, Return
<1>5. CASE Exchange /\ ~AppliedReply /\ ~ \E valid \in BOOLEAN : OpenReply(valid)
  BY <1>0, <1>1, <1>2, <1>5, OtherExchange
<1>6. CASE ServeAttempt
  <2>1. SUFFICES ASSUME op \in CommandOps, CommandAccepted(reply'),
                        reply'.applied = cursor.next
                 PROVE  \E c \in Request : /\ Outstanding(c)'
                                           /\ Bytes(request) = Bytes(c)
                                           /\ reply'.phase = phase'
    BY <1>6, ServedRequest DEF ReplyInv, CommandAccepted, callVars
  <2>2. /\ request \in Request /\ request.op = op /\ request.op # "Open"
        /\ request.seq <= cursor.next /\ acked' = acked
    BY <1>6, <2>1, ServedRequest DEF CommandOps
  <2>3. CASE Refuse(request, TRUE)
    BY <2>1, <2>3 DEF Refuse, RejectCommand, Respond, CommandReply,
                      CommandAccepted
  <2>4. CASE Defer(request, TRUE)
    <3>1. PICK retry : reply' = [CommandReply("WAIT", last, phase)
                                   EXCEPT !.retry = retry]
      BY <2>4 DEF Defer, Respond
    <3> QED BY <2>1, <3>1 DEF CommandReply, CommandAccepted
  <2>5. CASE ReplayStored(request, TRUE)
    <3>1. /\ Classify(request) = "Replay"
          /\ reply' = [window.response EXCEPT !.result = "ALREADY_APPLIED"]
          /\ UNCHANGED serverVars
      BY <2>5 DEF ReplayStored, Respond
    <3>2. window.present /\ Bytes(request) = window.payload
      <4>1. CASE window.present /\ request.seq = window.seq
        BY <3>1, <4>1 DEF Classify
      <4>2. CASE ~(window.present /\ request.seq = window.seq)
        BY <3>1, <4>2 DEF Classify
      <4> QED BY <4>1, <4>2
    <3>3. window.response \in Reply \cup {NoReply}
      BY <1>0 DEF TypeOK
    <3>4. /\ reply'.applied = window.response.applied
          /\ reply'.phase = window.response.phase
      BY <3>1, <3>3 DEF Reply, NoReply
    <3>5. last = cursor.next
      BY <1>0, <2>1, <3>2, <3>4 DEF LedgerInv
    <3>6. Len(log) = Len(acked) + 1
      BY <1>0, <3>5 DEF LedgerInv
    <3>7. acked # log
      BY <1>0, <3>6 DEF TypeOK
    <3>8. PICK c \in Request : Outstanding(c)
      BY <1>0, <3>7 DEF LedgerInv
    <3>9. Bytes(request) = Bytes(c) /\ reply'.phase = phase'
      BY <3>1, <3>2, <3>4, <3>8 DEF Outstanding, serverVars
    <3>10. Outstanding(c)'
      BY <2>2, <3>1, <3>8 DEF Outstanding, serverVars
    <3> QED BY <3>9, <3>10
  <2>6. CASE Commit(request, TRUE)
    <3>1. Confirmed(request, TRUE)
      BY <2>2, <2>6, CommitConfirms
    <3>2. PICK c \in Request : c = request
      BY <2>2
    <3>3. Outstanding(c)'
      BY <2>2, <3>1, <3>2 DEF Confirmed, Outstanding
    <3>4. reply'.phase = phase'
      BY <3>1 DEF Confirmed
    <3> QED BY <3>2, <3>3, <3>4
  <2>7. Serve(request, TRUE)
    BY <1>6 DEF ServeAttempt
  <2>8. \/ ReplayStored(request, TRUE) \/ Refuse(request, TRUE)
        \/ Defer(request, TRUE) \/ Commit(request, TRUE)
    BY <2>2, <2>7 DEF Serve
  <2> QED BY <2>3, <2>4, <2>5, <2>6, <2>8
<1>7. CASE ServeLate
  <2>1. PICK r \in late : r \in Request /\ (Quiet(r) \/ Confirmed(r, FALSE))
    BY <1>7, ServedLate
  <2>2. UNCHANGED <<op, request, cursor, acked, reply>>
    BY <1>7, ServedLate DEF callVars
  <2>3. SUFFICES ASSUME op \in CommandOps, CommandAccepted(reply),
                        reply.applied = cursor.next
                 PROVE  \E c \in Request : /\ Outstanding(c)'
                                           /\ Bytes(request) = Bytes(c)
                                           /\ reply.phase = phase'
    BY <2>2 DEF ReplyInv, CommandAccepted
  <2>4. PICK c \in Request : /\ Outstanding(c)
                             /\ Bytes(request) = Bytes(c)
                             /\ reply.phase = phase
    BY <1>0, <2>3 DEF ReplyInv
  <2>5. acked # log /\ phase # "UNSPECIFIED"
    BY <1>0, <2>4, OutstandingOne
  <2>6. UNCHANGED <<last, window, log, phase>>
    BY <2>1, <2>5 DEF Quiet, Confirmed
  <2> QED BY <2>2, <2>4, <2>6 DEF Outstanding
<1>8. CASE LoseLate \/ Signal \/ UNCHANGED vars
  BY <1>2, <1>8 DEF LoseLate, Signal, vars, serverVars, callVars
<1> QED BY <1>3, <1>4, <1>5, <1>6, <1>7, <1>8 DEF Next, Client, Exited

LEMMA BindStep ==
  ASSUME IInv, [Next]_vars
  PROVE  BindInv'
<1>0. TypeOK /\ CallInv /\ BindInv /\ ControlInv /\ LedgerInv
  BY DEF IInv
<1>1. ASSUME UNCHANGED <<op, result, cursor, serverVars>>,
             late' \subseteq late,
             reply' = reply \/ reply' = NoReply
      PROVE  BindInv'
  BY <1>0, <1>1, NoReplyNotAccepted DEF BindInv, CommandAccepted, serverVars
<1>2. CASE RunSession
  <2>1. PICK o \in (RpcOps \cup LocalOps) \ {"Open"} : Enter(o)
    BY <1>2, RunSessionEnters
  <2>2. UNCHANGED <<cursor, late, serverVars>> /\ op' # "Open" /\ op # "Done"
    BY <1>2, <2>1, RunSessionEnters DEF Elsewhere, Enter
  <2>3. CASE op = "Open"
    <3>1. OpenReturns
      BY <1>2, <2>3 DEF RunSession, LoadMap, InitReturns, LoopHead,
                        BeginReturns, Observe, UpdateReturns, ApplyActions,
                        EndReturns, AbortReturns, CloseReturns
    <3>2. cursor.phase = "UNSPECIFIED" => op' = "Done"
      BY <1>0, <3>1 DEF OpenReturns, ControlInv, Enter
    <3> QED BY <1>0, <2>2, <3>2 DEF BindInv, serverVars
  <2>4. CASE op # "Open"
    <3>1. cursor.phase # "UNSPECIFIED"
      BY <1>0, <2>2, <2>4 DEF BindInv
    <3> QED BY <1>0, <2>2, <3>1 DEF BindInv, serverVars
  <2> QED BY <2>3, <2>4
<1>3. CASE AppliedReply
  <2>1. /\ op \in CommandOps /\ cursor'.phase = phase
        /\ UNCHANGED <<op, serverVars>>
    BY <1>3, AppliedReplyConfirms
  <2>2. op \notin {"Open", "Done"}
    BY <2>1 DEF CommandOps
  <2>3. phase # "UNSPECIFIED"
    BY <1>0, <2>2 DEF BindInv
  <2> QED BY <2>1, <2>2, <2>3 DEF BindInv, serverVars
<1>4. ASSUME NEW valid \in BOOLEAN, OpenReply(valid) PROVE BindInv'
  <2>1. /\ UNCHANGED <<op, serverVars, late>> /\ op = "Open" /\ result = "None"
        /\ reply' = NoReply
    BY <1>4, OpenReplyBinds DEF OpenReply, Return, Calling
  <2>2. CASE cursor' = cursor
    BY <1>0, <2>1, <2>2, NoReplyNotAccepted DEF BindInv, CommandAccepted, serverVars
  <2>3. CASE phase = "OPEN" /\ cursor'.phase = "OPEN" /\ result' = "Applied"
    BY <1>0, <2>1, <2>3, NoReplyNotAccepted DEF BindInv, CommandAccepted, serverVars
  <2> QED BY <1>4, <2>2, <2>3, OpenReplyBinds
<1>5. CASE Exchange /\ ~AppliedReply /\ ~ \E valid \in BOOLEAN : OpenReply(valid)
  <2>1. /\ UNCHANGED <<op, cursor, serverVars>>
        /\ op \in RpcOps /\ result = "None"
        /\ reply' = reply \/ reply' = NoReply
        /\ late' = late \/ late' = late \cup {request}
    BY <1>0, <1>5, OtherExchange
  <2>2. request.op = op /\ op # "Done"
    BY <1>0, <2>1 DEF CallInv, RpcOps, CommandOps
  <2> QED BY <1>0, <2>1, <2>2, NoReplyNotAccepted
          DEF BindInv, CommandAccepted, serverVars
<1>6. CASE ServeAttempt
  <2>1. /\ UNCHANGED <<op, result, cursor, late, acked>>
        /\ request \in Request /\ request.op = op
        /\ Quiet(request) \/ Confirmed(request, TRUE)
        /\ result = "None" /\ op \in RpcOps
        /\ op = "Open" => Quiet(request)
    BY <1>6, ServedRequest DEF callVars, ServeAttempt, Calling
  <2>2. cursor.phase # "UNSPECIFIED" => phase' # "UNSPECIFIED"
    BY <1>0, <2>1, ServedLedger DEF BindInv
  <2>3. CASE op # "Open"
    <3>1. op # "Done"
      BY <2>1 DEF RpcOps, CommandOps
    <3> QED BY <1>0, <2>1, <2>2, <2>3, <3>1 DEF BindInv
  <2>4. CASE op = "Open"
    <3>1. OpenSession(TRUE)
      BY <1>6, <2>1, <2>4 DEF ServeAttempt, Serve
    <3>2. cursor.phase = "UNSPECIFIED" /\ phase \in {"UNSPECIFIED", "OPEN"}
      BY <1>0, <2>1, <2>4 DEF BindInv
    <3>3. CommandAccepted(reply') => phase' = "OPEN"
      BY <3>1, <3>2 DEF OpenSession, RejectCommand, Respond, CommandReply,
                        CommandAccepted
    <3>4. log' = log /\ phase' \in {"UNSPECIFIED", "OPEN"}
      BY <2>1, <2>4, <3>2 DEF Quiet
    <3> QED BY <1>0, <2>1, <2>4, <3>2, <3>3, <3>4 DEF BindInv, CommandAccepted
  <2> QED BY <2>3, <2>4
<1>7. CASE ServeLate
  <2>1. PICK r \in late : r \in Request /\ (Quiet(r) \/ Confirmed(r, FALSE))
    BY <1>7, ServedLate
  <2>2. /\ UNCHANGED <<op, result, cursor, acked, reply>>
        /\ late' \subseteq late
    BY <1>7, ServedLate DEF callVars
  <2>3. phase # "UNSPECIFIED" => phase' # "UNSPECIFIED"
    BY <2>1, <2>2, ServedLedger
  <2>4. CASE cursor.phase = "UNSPECIFIED"
    <3>1. r.op = "Open" /\ log = <<>> /\ phase \in {"UNSPECIFIED", "OPEN"}
      BY <1>0, <2>1, <2>4 DEF BindInv
    <3>2. Quiet(r)
      BY <2>1, <3>1 DEF Confirmed, CommandOps
    <3> QED BY <1>0, <2>2, <2>4, <3>1, <3>2 DEF BindInv, Quiet, CommandAccepted
  <2>5. CASE cursor.phase # "UNSPECIFIED"
    <3>1. op = "Open" => reply = NoReply
      <4>1. op = "Open" => result = "Applied"
        BY <1>0, <2>5 DEF BindInv
      <4> QED BY <1>0, <4>1 DEF CallInv, TypeOK
    <3> QED BY <1>0, <2>2, <2>3, <2>5, <3>1, NoReplyNotAccepted
            DEF BindInv, CommandAccepted
  <2> QED BY <2>4, <2>5
<1>8. CASE LoseLate \/ Signal \/ UNCHANGED vars
  <2>1. /\ UNCHANGED <<op, result, cursor, serverVars, reply>>
        /\ late' \subseteq late
    BY <1>8 DEF LoseLate, Signal, vars, callVars, serverVars
  <2> QED BY <1>1, <2>1
<1> QED BY <1>2, <1>3, <1>4, <1>5, <1>6, <1>7, <1>8 DEF Next, Client, Exited

(* finish() with an outcome main() exits 0 on leaves a Session to abort or *)
(* close behind it, so it does not end the run.                            *)
LEMMA ControlFinish ==
  ASSUME TypeOK, NEW outcome \in Outcomes, Finish(outcome),
         outcome \in {"Applied", "Stopped"} => Active \/ CanClose,
         cursor' = cursor
  PROVE  ControlInv'
<1>1. PICK o \in {"Abort", "Close", "Done"} :
        /\ Enter(o)
        /\ o = "Done" => (outcome = "Unknown" \/ (~Active /\ ~CanClose))
  BY FinishEnters
<1>2. /\ op' = o /\ result' = "None" /\ verdict' = outcome
      /\ outcome # "None"
  BY <1>1, FinishEnters DEF Enter, Outcomes
<1>3. ~(o = "Done" /\ outcome \in {"Applied", "Stopped"})
  BY <1>1
<1> QED BY <1>2, <1>3 DEF ControlInv

LEMMA ControlStep ==
  ASSUME IInv, [Next]_vars
  PROVE  ControlInv'
<1>0. TypeOK /\ CallInv /\ ControlInv
  BY DEF IInv
<1>1. CASE RunSession
  <2>0. /\ cursor' = cursor
        /\ result # "None" => result \in Outcomes
    BY <1>0, <1>1, RunSessionEnters DEF Elsewhere, TypeOK
  <2> USE DEF Outcomes
  <2>1. CASE OpenReturns
    BY <1>0, <2>0, <2>1 DEF OpenReturns, ControlInv, Enter, RpcOps, Stoppable
  <2>2. CASE LoadMap
    <3>1. CASE Finish("Rejected")
      BY <1>0, <2>0, <3>1, ControlFinish
    <3>2. CASE Enter("Init") /\ UNCHANGED verdict
      BY <1>0, <2>0, <2>2, <3>2 DEF LoadMap, ControlInv, Enter
    <3> QED BY <2>2, <3>1, <3>2 DEF LoadMap
  <2>3. CASE InitReturns
    <3>1. CASE result # "Applied" /\ Finish(result)
      <4>1. result \in Outcomes /\ result # "Stopped"
        BY <1>0, <2>0, <2>3 DEF InitReturns, ControlInv, RpcOps, CommandOps,
                                Stoppable
      <4> QED BY <1>0, <2>0, <3>1, <4>1, ControlFinish
    <3>2. CASE result = "Applied" /\ Enter("Loop") /\ UNCHANGED verdict
      BY <1>0, <2>0, <2>3, <3>2 DEF InitReturns, ControlInv, Enter
    <3> QED BY <2>3, <3>1, <3>2 DEF InitReturns
  <2>4. CASE LoopHead
    <3>1. CASE Finish("Stopped")
      <4>1. CanClose
        BY <1>0, <2>4 DEF LoopHead, ControlInv, CanClose
      <4> QED BY <1>0, <2>0, <3>1, <4>1, ControlFinish
    <3>2. CASE Enter("Begin") /\ UNCHANGED verdict
      BY <1>0, <2>0, <2>4, <3>2 DEF LoopHead, ControlInv, Enter
    <3> QED BY <2>4, <3>1, <3>2 DEF LoopHead
  <2>5. CASE BeginReturns
    <3>1. CASE /\ result # "Applied" \/ cursor.phase = "TASK_COMPLETE"
               /\ Finish(result)
      <4>1. CanClose
        BY <1>0, <2>5, <3>1 DEF BeginReturns, ControlInv, CanClose
      <4>2. result \in Outcomes
        BY <2>0, <2>5 DEF BeginReturns
      <4> QED BY <1>0, <2>0, <3>1, <4>1, <4>2, ControlFinish
    <3>2. CASE Finish("Rejected")
      BY <1>0, <2>0, <3>2, ControlFinish
    <3>3. CASE /\ result = "Applied" /\ cursor.phase # "TASK_COMPLETE"
               /\ Enter("Observe") /\ UNCHANGED verdict
      BY <1>0, <2>0, <2>5, <3>3 DEF BeginReturns, ControlInv, Enter
    <3> QED BY <2>5, <3>1, <3>2, <3>3 DEF BeginReturns
  <2>6. CASE Observe
    <3>1. Active
      BY <1>0, <2>6 DEF Observe, ControlInv, Active
    <3>2. CASE Finish("Stopped") \/ Finish("Rejected")
      BY <1>0, <2>0, <3>1, <3>2, ControlFinish
    <3>3. CASE Enter("Update") /\ UNCHANGED verdict
      BY <1>0, <2>0, <2>6, <3>3 DEF Observe, ControlInv, Enter
    <3> QED BY <2>6, <3>2, <3>3 DEF Observe
  <2>7. CASE UpdateReturns
    <3>1. CASE result # "Applied" /\ Finish(result)
      <4>1. Active /\ result \in Outcomes
        BY <1>0, <2>0, <2>7, <3>1 DEF UpdateReturns, ControlInv, Active
      <4> QED BY <1>0, <2>0, <3>1, <4>1, ControlFinish
    <3>2. CASE /\ result = "Applied"
               /\ Enter(IF request.final THEN "End" ELSE "Apply")
               /\ UNCHANGED verdict
      <4>1. /\ op' = "End" \/ (op' = "Apply" /\ ~request.final)
            /\ result' = "None" /\ verdict' = verdict
        BY <3>2 DEF Enter
      <4>2. op = "Update"
        BY <2>7 DEF UpdateReturns
      <4> QED BY <1>0, <2>0, <3>2, <4>1, <4>2 DEF ControlInv
    <3> QED BY <2>7, <3>1, <3>2 DEF UpdateReturns
  <2>8. CASE ApplyActions
    <3>1. CASE Finish("Rejected")
      BY <1>0, <2>0, <3>1, ControlFinish
    <3>2. CASE Enter("Observe") /\ UNCHANGED verdict
      BY <1>0, <2>0, <2>8, <3>2 DEF ApplyActions, ControlInv, Enter
    <3> QED BY <2>8, <3>1, <3>2 DEF ApplyActions
  <2>9. CASE EndReturns
    <3>1. CASE result # "Applied" /\ Finish(result)
      <4>1. result \in Outcomes /\ result # "Stopped"
        BY <1>0, <2>0, <2>9 DEF EndReturns, ControlInv, RpcOps, CommandOps,
                                Stoppable
      <4> QED BY <1>0, <2>0, <3>1, <4>1, ControlFinish
    <3>2. CASE result = "Applied" /\ Enter("Loop") /\ UNCHANGED verdict
      BY <1>0, <2>0, <2>9, <3>2 DEF EndReturns, ControlInv, Enter
    <3> QED BY <2>9, <3>1, <3>2 DEF EndReturns
  <2>10. CASE AbortReturns
    <3>1. verdict # "None" /\ op = "Abort"
      BY <1>0, <2>10 DEF AbortReturns, ControlInv
    <3>2. CASE result = "Applied"
      <4>1. CanClose
        BY <1>0, <3>1, <3>2 DEF ControlInv, CanClose
      <4>2. op' = "Close" /\ result' = "None" /\ verdict' = verdict
        BY <2>10, <3>2, <4>1 DEF AbortReturns, Enter
      <4> QED BY <2>0, <3>1, <4>2 DEF ControlInv
    <3>3. CASE result # "Applied"
      <4>1. result # "Stopped"
        BY <1>0, <3>1 DEF ControlInv, RpcOps, CommandOps, Stoppable
      <4>2. /\ op' = "Done" /\ result' = "None"
            /\ verdict' = IF Failed(verdict) THEN verdict ELSE result
        BY <2>10, <3>3 DEF AbortReturns, Enter
      <4>3. verdict' \notin {"Applied", "Stopped"}
        BY <3>3, <4>1, <4>2 DEF Failed
      <4> QED BY <2>0, <4>2, <4>3 DEF ControlInv, RpcOps, CommandOps
    <3> QED BY <3>2, <3>3
  <2>11. CASE CloseReturns
    <3>1. op = "Close" /\ result # "None"
      BY <2>11 DEF CloseReturns
    <3>2. /\ op' = "Done" /\ result' = "None"
          /\ verdict' = IF result = "Applied" \/ Failed(verdict)
                        THEN verdict ELSE result
      BY <2>11 DEF CloseReturns, Enter
    <3>3. result = "Applied" => cursor'.phase = "CLOSED"
      BY <1>0, <2>0, <3>1 DEF ControlInv
    <3>4. result # "Applied" => verdict' \notin {"Applied", "Stopped"}
      <4>1. result # "Stopped"
        BY <1>0, <3>1 DEF ControlInv, RpcOps, CommandOps, Stoppable
      <4> QED BY <3>2, <4>1 DEF Failed
    <3> QED BY <3>2, <3>3, <3>4 DEF ControlInv, RpcOps, CommandOps
  <2> QED BY <1>1, <2>1, <2>2, <2>3, <2>4, <2>5, <2>6, <2>7, <2>8, <2>9,
             <2>10, <2>11 DEF RunSession
<1>2. CASE AppliedReply
  <2>1. /\ op \in CommandOps /\ UNCHANGED <<op, request, verdict>>
        /\ cursor'.phase = phase /\ phase \in PhasesAfter(request)
        /\ result' = "Applied"
    BY <1>2, AppliedReplyConfirms DEF AppliedReply, Return
  <2>2. request.op = op /\ request.final \in BOOLEAN
    BY <1>0, <2>1 DEF CallInv, RpcOps, Request
  <2> QED BY <1>0, <2>1, <2>2
          DEF ControlInv, PhasesAfter, AcceptedPhases, CommandOps, RpcOps
<1>3. ASSUME NEW valid \in BOOLEAN, OpenReply(valid) PROVE ControlInv'
  <2>1. op = "Open" /\ UNCHANGED <<op, verdict>>
    BY <1>3 DEF OpenReply, Return
  <2> QED BY <1>0, <1>3, <2>1, OpenReplyBinds DEF ControlInv
<1>4. CASE Exchange /\ ~AppliedReply /\ ~ \E valid \in BOOLEAN : OpenReply(valid)
  <2>1. UNCHANGED <<op, verdict, request>>
    BY <1>0, <1>4, OtherExchange
       DEF Exchange, ExchangeStopped, AbortBudgetExpires, Invoke,
           AttemptFails, WaitReply, OtherReply, Return, callVars
  <2>2. /\ cursor' = cursor /\ op \in RpcOps /\ result = "None"
        /\ result' # "Applied" /\ (result' = "Stopped" => op \in Stoppable)
    BY <1>0, <1>4, OtherExchange
  <2> QED BY <1>0, <2>1, <2>2 DEF ControlInv, RpcOps, CommandOps
<1>5. CASE ServeAttempt \/ ServeLate \/ LoseLate \/ Signal \/ UNCHANGED vars
  <2>1. UNCHANGED <<op, request, result, verdict, cursor>>
    BY <1>5 DEF ServeAttempt, ServeLate, LoseLate, Signal, vars, callVars
  <2> QED BY <1>0, <2>1 DEF ControlInv
<1> QED BY <1>1, <1>2, <1>3, <1>4, <1>5 DEF Next, Client, Exited

-----------------------------------------------------------------------------
(* Theorems                                                                *)

(* The invariant is inductive: it holds initially and every step of the    *)
(* client, the server, the network and the signal keeps it.                *)
THEOREM Invariance == Spec => []IInv
<1>1. IInv /\ [Next]_vars => IInv'
  <2> SUFFICES ASSUME IInv, [Next]_vars PROVE IInv'
    OBVIOUS
  <2>1. TypeOK'
    BY TypeStep
  <2>2. CallInv' /\ FrameInv' /\ LateInv'
    BY CallStep, FrameStep, LateStep
  <2>3. LedgerInv' /\ AgreementInv' /\ ReplyInv' /\ BindInv' /\ ControlInv'
    BY LedgerAgreementStep, ReplyStep, BindStep, ControlStep
  <2> QED BY <2>1, <2>2, <2>3 DEF IInv
<1> QED BY <1>1, InitIInv, PTL DEF Spec

(* Type correctness of every reachable state, with the environment's frame *)
(* below the time limit and the Abort WAITs below their budget             *)
(* (MazeEnv::CheckTimeout, Session::Exchange).                             *)
THEOREM TypeCorrect == Spec => []TypeOK
<1>1. IInv => TypeOK
  BY DEF IInv
<1> QED BY <1>1, Invariance, PTL

(* The phase RunSession decides on is the server's, once every applied     *)
(* command is acknowledged (AcceptCommandReply, CommitCommand).            *)
THEOREM PhasesAgree == Spec => []PhaseAgreement
<1>1. IInv => PhaseAgreement
  BY DEF IInv, LedgerInv, AgreementInv, PhaseAgreement
<1> QED BY <1>1, Invariance, PTL

(* A client that exits 0 has closed the server's Session (RunSession's     *)
(* finish(), main()).                                                      *)
THEOREM CleanExitCloses == Spec => []CleanExit
<1>1. IInv => CleanExit
  BY DEF IInv, ControlInv, AgreementInv, CleanExit
<1> QED BY <1>1, Invariance, PTL

(* A step of the protocol is a step of the ledger or leaves it alone. *)
LEMMA LedgerStep ==
  ASSUME IInv, [Next]_vars
  PROVE  [Ledger!Next]_(Ledger!ledgerVars)
<1>0. TypeOK
  BY DEF IInv
<1>1. CASE UNCHANGED <<log, acked>>
  BY <1>1 DEF Ledger!ledgerVars
<1>2. CASE AppliedReply
  <2>1. acked' = log /\ log' = log /\ Outstanding(request)
    BY <1>2, AppliedReplyConfirms DEF serverVars
  <2>2. request \in Request
    BY <1>2 DEF IInv, CallInv, AppliedReply, Calling
  <2>3. acked # log
    BY <1>0, <2>1, <2>2, OutstandingOne
  <2> QED BY <2>1, <2>3 DEF Ledger!Next, Ledger!Acknowledge
<1>3. ASSUME NEW r \in Request, NEW mine \in BOOLEAN, Confirmed(r, mine),
             acked' = acked
      PROVE  Ledger!Next
  <2>1. log \in Seq(Request) /\ acked = log /\ log' = Append(log, r)
    BY <1>0, <1>3 DEF Confirmed, TypeOK
  <2>2. /\ log' \in Seq(Request)
        /\ Len(log') = Len(log) + 1
        /\ SubSeq(log', 1, Len(log)) = log
    BY <2>1
  <2> QED BY <1>3, <2>1, <2>2 DEF Ledger!Next, Ledger!Apply
<1>4. CASE ServeAttempt
  <2>1. request \in Request /\ acked' = acked
    BY <1>4, ServedRequest
  <2>2. CASE Quiet(request)
    BY <1>1, <2>1, <2>2 DEF Quiet
  <2> QED BY <1>3, <1>4, <2>1, <2>2, ServedRequest
<1>5. CASE ServeLate
  <2>1. PICK r \in late : r \in Request /\ (Quiet(r) \/ Confirmed(r, FALSE))
    BY <1>5, ServedLate
  <2>2. acked' = acked
    BY <1>5, ServedLate
  <2>3. CASE Quiet(r)
    BY <1>1, <2>2, <2>3 DEF Quiet
  <2> QED BY <1>3, <2>1, <2>2, <2>3
<1>6. CASE RunSession
  BY <1>1, <1>6, RunSessionEnters DEF Elsewhere, serverVars
<1>7. CASE Exchange /\ ~AppliedReply
  BY <1>0, <1>1, <1>7, OtherExchange, OpenReplyBinds DEF serverVars
<1>8. CASE LoseLate \/ Signal \/ UNCHANGED vars
  BY <1>1, <1>8 DEF LoseLate, Signal, vars, serverVars
<1> QED BY <1>2, <1>4, <1>5, <1>6, <1>7, <1>8 DEF Next, Client, Exited

(* The retried, replayed and reordered exchange of commands is an exchange *)
(* in which each command is applied once and acknowledged as itself.       *)
THEOREM Refinement == Spec => ImplementsLedger
<1>1. Init => Ledger!Init
  BY DEF Init, Ledger!Init
<1>2. IInv /\ [Next]_vars => [Ledger!Next]_(Ledger!ledgerVars)
  BY LedgerStep
<1> QED BY <1>1, <1>2, Invariance, PTL
        DEF Spec, ImplementsLedger, Ledger!Spec

(* A step of the protocol is a step of RunEpisode's loop or is outside it. *)
LEMMA FrameLoopStep ==
  ASSUME IInv, [Next]_vars
  PROVE  [Loop!Next]_(Loop!loopVars)
<1>0. TypeOK /\ CallInv /\ FrameInv
  BY DEF IInv
<1>1. ASSUME UNCHANGED <<op, frame, allDone>>
      PROVE  UNCHANGED Loop!loopVars
  BY <1>1 DEF Loop!loopVars, LoopStage
<1>2. ASSUME NEW outcome \in Outcomes, Finish(outcome)
      PROVE  LoopStage' = "Away"
  <2>1. op' \in {"Abort", "Close", "Done"}
    BY <1>0, <1>2, FinishEnters DEF Enter
  <2> QED BY <2>1 DEF LoopStage
<1>3. result # "None" => result \in Outcomes
  BY <1>0 DEF TypeOK
<1>4. CASE RunSession
  <2>1. CASE op \notin {"Begin", "Observe", "Update", "Apply", "End"}
    <3>1. /\ op' \in {"LoadMap", "Init", "Loop", "Begin", "Abort", "Close",
                     "Done"}
          /\ UNCHANGED envVars
      <4>1. ASSUME NEW outcome \in Outcomes, Finish(outcome)
            PROVE  op' \in {"Abort", "Close", "Done"}
        BY <1>0, <4>1, FinishEnters DEF Enter
      <4> QED BY <1>3, <1>4, <2>1, <4>1
              DEF RunSession, OpenReturns, LoadMap, InitReturns, LoopHead,
                  BeginReturns, Observe, UpdateReturns, ApplyActions,
                  EndReturns, AbortReturns, CloseReturns, Enter, Outcomes
    <3> QED BY <2>1, <3>1 DEF Loop!loopVars, LoopStage, envVars
  <2>2. CASE BeginReturns
    <3>1. LoopStage = "Away" /\ LoopStage' \in {"Observing", "Away"}
      BY <1>2, <1>3, <2>2 DEF BeginReturns, LoopStage, Enter, Outcomes
    <3>2. CASE /\ \E outcome \in Outcomes : Finish(outcome)
               /\ UNCHANGED envVars
      BY <1>2, <3>1, <3>2 DEF Loop!loopVars, envVars
    <3>3. CASE frame' = 0 /\ allDone' = FALSE
      BY <3>1, <3>3 DEF Loop!Next, Loop!Restart
    <3> QED BY <1>3, <2>2, <3>2, <3>3 DEF BeginReturns, Outcomes
  <2>3. CASE Observe
    <3>1. LoopStage = "Observing" /\ UNCHANGED envVars
          /\ LoopStage' \in {"Reporting", "Away"}
      BY <1>2, <2>3 DEF Observe, LoopStage, Enter, Outcomes
    <3> QED BY <3>1 DEF Loop!Next, Loop!Report, Loop!Leave, envVars
  <2>4. CASE UpdateReturns
    <3>1. LoopStage = "Reporting" /\ UNCHANGED envVars
      BY <2>4 DEF UpdateReturns, LoopStage
    <3>2. \/ LoopStage' = "Away"
          \/ LoopStage' = IF allDone THEN "Ended" ELSE "Applying"
      <4>1. request.final = allDone
        BY <1>0, <2>4 DEF UpdateReturns, FrameInv
      <4> QED BY <1>2, <1>3, <2>4, <4>1 DEF UpdateReturns, LoopStage, Enter
    <3> QED BY <3>1, <3>2
            DEF Loop!Next, Loop!Reported, Loop!Leave, envVars
  <2>5. CASE ApplyActions
    <3>1. LoopStage = "Applying"
      BY <2>5 DEF ApplyActions, LoopStage
    <3>2. CASE Finish("Rejected") /\ UNCHANGED envVars
      <4>1. LoopStage' = "Away"
        BY <1>2, <3>2 DEF Outcomes
      <4> QED BY <3>1, <3>2, <4>1 DEF Loop!Next, Loop!Leave, envVars
    <3>3. CASE /\ Enter("Observe")
               /\ frame' = frame + 1
               /\ allDone' \in {done \in BOOLEAN :
                                 frame + 1 >= MaxFrames => done}
      <4>1. LoopStage' = "Observing"
        BY <3>3 DEF Enter, LoopStage
      <4> QED BY <3>1, <3>3, <4>1 DEF Loop!Next, Loop!Advance
    <3> QED BY <2>5, <3>2, <3>3 DEF ApplyActions
  <2>6. CASE EndReturns
    <3>1. LoopStage = "Ended" /\ LoopStage' = "Away" /\ UNCHANGED envVars
      BY <1>2, <1>3, <2>6 DEF EndReturns, LoopStage, Enter, Outcomes
    <3> QED BY <3>1 DEF Loop!Next, Loop!Leave, envVars
  <2> QED BY <1>4, <2>1, <2>2, <2>3, <2>4, <2>5, <2>6
          DEF RunSession, OpenReturns, LoadMap, InitReturns, LoopHead,
              AbortReturns, CloseReturns
<1>5. CASE ~RunSession
  <2>1. UNCHANGED <<op, frame, allDone>>
    BY <1>5, OnlyRunSessionMoves
  <2> QED BY <1>1, <2>1
<1> QED BY <1>4, <1>5

(* With any environment that counts its frames and ends by the last one,   *)
(* the protocol reports and executes frames as RunEpisode promises.        *)
THEOREM FrameLoopRefinement == Spec => ImplementsFrameLoop
<1>1. Init => Loop!Init
  BY DEF Init, Loop!Init, LoopStage
<1>2. IInv /\ [Next]_vars => [Loop!Next]_(Loop!loopVars)
  BY FrameLoopStep
<1> QED BY <1>1, <1>2, Invariance, PTL
        DEF Spec, ImplementsFrameLoop, Loop!Spec

(* Abort and Close, the only methods after finish(), add to the error and  *)
(* replace no failure.                                                     *)
LEMMA FailureStep ==
  ASSUME IInv, [Next]_vars, verdict # "None"
  PROVE  /\ Failed(verdict) => verdict' = verdict
         /\ Len(error') >= Len(error)
         /\ SubSeq(error', 1, Len(error)) = error
<1>0. TypeOK /\ ControlInv
  BY DEF IInv
<1>1. op \in {"Abort", "Close", "Done"} /\ error \in Seq(RpcOps)
  BY <1>0 DEF ControlInv, TypeOK
<1>2. ASSUME error' = error
      PROVE  Len(error') >= Len(error) /\ SubSeq(error', 1, Len(error)) = error
  BY <1>1, <1>2
<1>3. ASSUME NEW own \in Seq(RpcOps), error' = error \o own
      PROVE  Len(error') >= Len(error) /\ SubSeq(error', 1, Len(error)) = error
  BY <1>1, <1>3
<1>4. CASE RunSession
  <2>1. error' = error
    BY <1>4, RunSessionEnters DEF Elsewhere
  <2>2. AbortReturns \/ CloseReturns
    BY <1>1, <1>4 DEF RunSession, OpenReturns, LoadMap, InitReturns, LoopHead,
                      BeginReturns, Observe, UpdateReturns, ApplyActions,
                      EndReturns
  <2>3. Failed(verdict) => verdict' = verdict
    BY <2>2 DEF AbortReturns, CloseReturns, Enter
  <2> QED BY <1>2, <2>1, <2>3
<1>5. CASE Exchange
  <2>1. op \in {"Abort", "Close"} /\ verdict' = verdict
    BY <1>1, <1>5, OnlyRunSessionMoves
       DEF Exchange, ExchangeStopped, AbortBudgetExpires, Invoke,
           AttemptFails, WaitReply, AppliedReply, OpenReply, OtherReply,
           Calling, RpcOps, CommandOps, Return, callVars
  <2>2. error' = error \/ \E outcome \in Outcomes : Return(outcome)
    BY <1>5 DEF Exchange, ExchangeStopped, AbortBudgetExpires, Invoke,
                AttemptFails, WaitReply, AppliedReply, OpenReply, OtherReply,
                callVars, Outcomes
  <2>3. ASSUME NEW outcome \in Outcomes, Return(outcome)
        PROVE  \E own \in Seq(RpcOps) : error' = error \o own
    <3>1. <<op>> \in Seq(RpcOps) /\ <<>> \in Seq(RpcOps)
      BY <2>1 DEF RpcOps, CommandOps
    <3> QED BY <2>1, <2>3, <3>1 DEF Return, ErrorAfter
  <2> QED BY <1>2, <1>3, <2>1, <2>2, <2>3
<1>6. CASE ServeAttempt \/ ServeLate \/ LoseLate \/ Signal \/ UNCHANGED vars
  <2>1. UNCHANGED <<verdict, error>>
    BY <1>6 DEF ServeAttempt, ServeLate, LoseLate, Signal, vars, callVars
  <2> QED BY <1>2, <2>1
<1> QED BY <1>4, <1>5, <1>6 DEF Next, Client, Exited

(* Cleanup preserves the failure it follows (TaskClient::PreserveFailure,  *)
(* RunSession's finish()).                                                 *)
THEOREM FailurePreserved == Spec => FailureKept
<1>1. IInv /\ [Next]_vars =>
        [verdict # "None" =>
           /\ Failed(verdict) => verdict' = verdict
           /\ Len(error') >= Len(error)
           /\ SubSeq(error', 1, Len(error)) = error]_vars
  BY FailureStep
<1> QED BY <1>1, Invariance, PTL DEF Spec, FailureKept

-----------------------------------------------------------------------------
(* What Episode commands say of the Episode                                *)

(* What a acknowledges since the Begin: the reports of k frames, of which  *)
(* the last one is final if fin says so, and no other one.                 *)
Reports(a, k, fin) ==
  LET n == Len(a)
  IN  /\ n > k
      /\ a[n - k].op = "Begin"
      /\ \A i \in (n - k + 1)..n :
           a[i].op = "Update" /\ (a[i].final <=> fin /\ i = n)

(* How far the reports are at each place of RunEpisode's loop.             *)
ReportInv ==
  /\ (op = "Begin" /\ result = "Applied" /\ cursor.phase = "RUNNING")
       => Reports(acked, 0, FALSE)
  /\ (op = "Observe" \/ (op = "Update" /\ result # "Applied"))
       => Reports(acked, frame, FALSE)
  /\ (op = "Update" /\ result = "Applied")
       => Reports(acked, frame + 1, request.final)
  /\ op = "Apply" => Reports(acked, frame + 1, FALSE)
  /\ (op = "End" /\ result # "Applied") => Reports(acked, frame + 1, TRUE)

(* The confirmed phase, where ControlInv does not say it. *)
PlaceInv ==
  /\ (op = "LoadMap" \/ (op = "Init" /\ result # "Applied"))
       => cursor.phase = "OPEN"
  /\ (op = "Update" /\ result = "Applied")
       => cursor.phase = IF request.final THEN "TERMINAL" ELSE "RUNNING"
  /\ (op = "End" /\ result # "Applied") => cursor.phase = "TERMINAL"
  /\ (op = "Abort" /\ result # "Applied") => cursor.phase = "RUNNING"
  /\ (op = "Close" /\ result # "Applied") => CanClose
  /\ (op = "End" /\ result = "Applied")
       => \A r \in late : r.seq < cursor.next

(* The phases in which the client has the identity of an Episode.          *)
InEpisode == {"RUNNING", "TERMINAL"}

(* That identity is the one the server assigned last; a Begin learns it    *)
(* from the reply that the window keeps.                                   *)
EpisodeInv ==
  /\ cursor.episode = IF cursor.phase \in InEpisode THEN episodes ELSE 0
  /\ (window.present /\ window.payload.op = "IdentityOnly"
        /\ window.response.phase = "RUNNING")
       => window.response.episode = episodes
  /\ (op = "Begin" /\ CommandAccepted(reply) /\ reply.applied = cursor.next)
       => reply.episode = window.response.episode

(* All of it, with the property itself, is inductive beside IInv.          *)
HistoryInv == ReportInv /\ PlaceInv /\ EpisodeInv /\ EpisodeIdentity

(* Each step of RunSession and the method it enters. *)
LEMMA RunSessionCases ==
  ASSUME IInv, RunSession
  PROVE  /\ result' = "None" /\ request' = Prepare(op') /\ op' # "Open"
         /\ reply' = NoReply
         /\ UNCHANGED <<cursor, acked, late, phase, last, window, episodes, log>>
         /\ \/ op' = "Abort" /\ Active
            \/ op' = "Close" /\ CanClose
            \/ op' = "Done"
            \/ op' = "LoadMap" /\ op = "Open" /\ result = "Applied"
            \/ op' = "Init" /\ op = "LoadMap"
            \/ op' = "Loop" /\ result = "Applied"
            \/ op' = "Begin" /\ op = "Loop"
            \/ op' = "Observe" /\ op = "Begin" /\ result = "Applied"
                 /\ cursor.phase # "TASK_COMPLETE" /\ frame' = 0
            \/ op' = "Update" /\ op = "Observe" /\ frame' = frame
            \/ op' = "End" /\ op = "Update" /\ result = "Applied"
                 /\ request.final /\ frame' = frame
            \/ op' = "Apply" /\ op = "Update" /\ result = "Applied"
                 /\ ~request.final /\ frame' = frame
            \/ op' = "Observe" /\ op = "Apply" /\ frame' = frame + 1
<1>1. /\ reply' = NoReply
      /\ UNCHANGED <<cursor, acked, late, phase, last, window, episodes, log>>
  BY RunSessionEnters DEF Elsewhere, serverVars
<1>2. result' = "None" /\ request' = Prepare(op') /\ op' # "Open"
  BY RunSessionEnters DEF Enter
<1> DEFINE Ending == \/ op' = "Abort" /\ Active
                     \/ op' = "Close" /\ CanClose
                     \/ op' = "Done"
<1>3. ASSUME NEW o, Finish(o) PROVE Ending
  BY <1>3 DEF Finish, Enter
<1>4. CASE OpenReturns
  BY <1>1, <1>2, <1>4 DEF OpenReturns, Enter
<1>5. CASE LoadMap \/ InitReturns \/ LoopHead \/ EndReturns
  <2>1. CASE Ending
    BY <1>1, <1>2, <2>1
  <2>2. CASE ~Ending
    BY <1>1, <1>2, <1>3, <1>5, <2>2
       DEF LoadMap, InitReturns, LoopHead, EndReturns, Enter
  <2> QED BY <2>1, <2>2
<1>6. CASE BeginReturns
  <2>1. CASE Ending
    BY <1>1, <1>2, <2>1
  <2>2. CASE ~Ending
    <3> HIDE DEF Ending
    <3> QED
      BY <1>1, <1>2, <1>3, <1>6, <2>2 DEF BeginReturns, Enter
  <2> QED BY <2>1, <2>2
<1>7. CASE Observe \/ UpdateReturns \/ ApplyActions
  <2>1. CASE Ending
    BY <1>1, <1>2, <2>1
  <2>2. CASE ~Ending
    <3> HIDE DEF Ending
    <3> QED
      BY <1>1, <1>2, <1>3, <1>7, <2>2
         DEF Observe, UpdateReturns, ApplyActions, Enter, envVars
  <2> QED BY <2>1, <2>2
<1>8. CASE AbortReturns \/ CloseReturns
  BY <1>1, <1>2, <1>8 DEF AbortReturns, CloseReturns, Enter
<1> QED BY <1>4, <1>5, <1>6, <1>7, <1>8 DEF RunSession

(* A report acknowledged after k frames were. *)
LEMMA ReportsAppend ==
  ASSUME NEW a \in Seq(Request), NEW k \in Nat, NEW r \in Request,
         Reports(a, k, FALSE), r.op = "Update"
  PROVE  Reports(Append(a, r), k + 1, r.final)
<1> DEFINE b == Append(a, r)
           n == Len(a)
<1>1. /\ n \in Nat /\ Len(b) = n + 1 /\ b[n + 1] = r
      /\ \A i \in 1..n : b[i] = a[i]
  OBVIOUS
<1>2. n > k /\ a[n - k].op = "Begin"
      /\ \A i \in (n - k + 1)..n :
           a[i].op = "Update" /\ (a[i].final <=> FALSE /\ i = n)
  BY DEF Reports
<1> HIDE DEF b, n
<1>3. b[(n + 1) - (k + 1)].op = "Begin"
  BY <1>1, <1>2
<1>4. ASSUME NEW i \in ((n + 1) - (k + 1) + 1)..(n + 1)
      PROVE  b[i].op = "Update" /\ (b[i].final <=> r.final /\ i = n + 1)
  <2>1. CASE i = n + 1
    BY <1>1, <2>1
  <2>2. CASE i # n + 1
    <3>1. i \in (n - k + 1)..n /\ i \in 1..n
      BY <1>1, <1>2, <2>2
    <3>2. a[i].op = "Update" /\ ~a[i].final
      BY <1>2, <3>1
    <3> QED BY <1>1, <2>2, <3>1, <3>2
  <2> QED BY <2>1, <2>2
<1>5. n + 1 > k + 1
  BY <1>1, <1>2
<1>6. Reports(b, k + 1, r.final)
  BY <1>1, <1>3, <1>4, <1>5, Zenon DEF Reports
<1> QED BY <1>6, Zenon DEF b

(* A Begin acknowledged starts the count. *)
LEMMA ReportsBegin ==
  ASSUME NEW a \in Seq(Request), NEW r \in Request, r.op = "Begin"
  PROVE  Reports(Append(a, r), 0, FALSE)
<1> DEFINE b == Append(a, r)
<1>1. Len(b) \in Nat /\ Len(b) > 0 /\ b[Len(b)] = r
  OBVIOUS
<1> HIDE DEF b
<1> QED BY <1>1 DEF Reports, b

(* Steps that leave the method, its request and what is acknowledged. *)
LEMMA OtherSteps ==
  ASSUME IInv, [Next]_vars, ~RunSession, ~AppliedReply,
         ~ \E valid \in BOOLEAN : OpenReply(valid)
  PROVE  /\ UNCHANGED <<op, request, verdict, frame, cursor, acked>>
         /\ result' = "Applied" <=> result = "Applied"
<1>1. UNCHANGED <<op, request, verdict, frame>>
  BY OnlyRunSessionMoves
<1>2. CASE Exchange
  BY <1>1, <1>2, OtherExchange DEF IInv
<1>3. CASE ServeAttempt \/ ServeLate \/ LoseLate \/ Signal \/ UNCHANGED vars
  BY <1>1, <1>3 DEF ServeAttempt, ServeLate, LoseLate, Signal, vars, callVars
<1> QED BY <1>2, <1>3 DEF Next, Client, Exited

(* Every step keeps the count of reports: only an acknowledged Begin or    *)
(* Update adds to it, only ApplyActions counts a frame.                    *)
LEMMA ReportStep ==
  ASSUME IInv, ReportInv, [Next]_vars
  PROVE  ReportInv'
<1>0. TypeOK /\ CallInv /\ ControlInv
  BY DEF IInv
<1>1. CASE RunSession
  <2>1. cursor.phase \in {"RUNNING", "TASK_COMPLETE"} \/ ~(op = "Begin" /\ result = "Applied")
    BY <1>0 DEF ControlInv
  <2>2. result' = "None" /\ acked' = acked
    BY <1>1, RunSessionCases
  <2>3. CASE op' \notin {"Observe", "Update", "Apply", "End"}
    BY <2>2, <2>3 DEF ReportInv
  <2>4. CASE op' = "Observe" /\ op = "Begin" /\ result = "Applied"
                /\ cursor.phase # "TASK_COMPLETE" /\ frame' = 0
    BY <2>1, <2>2, <2>4 DEF ReportInv
  <2>5. CASE op' = "Update" /\ op = "Observe" /\ frame' = frame
    BY <2>2, <2>5 DEF ReportInv
  <2>6. CASE op' = "Observe" /\ op = "Apply" /\ frame' = frame + 1
    BY <2>2, <2>6 DEF ReportInv
  <2>7. CASE op' \in {"End", "Apply"} /\ op = "Update" /\ result = "Applied"
               /\ (op' = "End" <=> request.final) /\ frame' = frame
    <3>1. Reports(acked, frame + 1, request.final)
      BY <2>7 DEF ReportInv
    <3>2. request.final \in BOOLEAN
      BY <1>0, <2>7 DEF CallInv, RpcOps, CommandOps, Request
    <3>3. Reports(acked, frame + 1, op' = "End")
      BY <2>7, <3>1, <3>2
    <3> QED BY <2>2, <2>7, <3>3 DEF ReportInv
  <2> QED BY <1>1, <2>3, <2>4, <2>5, <2>6, <2>7, RunSessionCases
<1>2. CASE AppliedReply
  <2>1. /\ acked' = Append(acked, request) /\ result' = "Applied"
        /\ UNCHANGED <<op, request, frame>> /\ result = "None"
    BY <1>2 DEF AppliedReply, Return, envVars, Calling
  <2>2. op \in CommandOps /\ request \in Request /\ request.op = op
        /\ acked \in Seq(Request) /\ frame \in Nat
    BY <1>0, <1>2, AppliedReplyConfirms, BoundsAssumption
       DEF CallInv, TypeOK, RpcOps
  <2>3. CASE op = "Begin"
    BY <2>1, <2>2, <2>3, ReportsBegin DEF ReportInv
  <2>4. CASE op = "Update"
    <3>1. Reports(acked', frame + 1, request.final)
      BY <2>1, <2>2, <2>4, ReportsAppend DEF ReportInv
    <3> QED BY <2>1, <2>4, <3>1 DEF ReportInv
  <2>5. CASE op \notin {"Begin", "Update"}
    BY <2>1, <2>2, <2>5 DEF ReportInv, CommandOps
  <2> QED BY <2>3, <2>4, <2>5
<1>3. CASE \E valid \in BOOLEAN : OpenReply(valid)
  BY <1>3 DEF OpenReply, Return, Calling, ReportInv
<1>4. CASE /\ ~RunSession /\ ~AppliedReply
           /\ ~ \E valid \in BOOLEAN : OpenReply(valid)
  BY <1>4, OtherSteps DEF ReportInv
<1> QED BY <1>1, <1>2, <1>3, <1>4

(* Every step keeps the phase its place promises.                          *)
LEMMA PlaceStep ==
  ASSUME IInv, PlaceInv, [Next]_vars
  PROVE  PlaceInv'
<1>0. TypeOK /\ CallInv /\ LateInv /\ ControlInv
  BY DEF IInv
<1>1. CASE RunSession
  <2>1. CanClose' = CanClose /\ cursor' = cursor /\ result' = "None"
    BY <1>1, RunSessionCases DEF CanClose
  <2> QED BY <1>0, <1>1, <2>1, RunSessionCases DEF PlaceInv, ControlInv, Active
<1>2. CASE AppliedReply
  <2>1. /\ op \in CommandOps /\ result' = "Applied" /\ op' = op
        /\ request' = request /\ late' = late
        /\ cursor'.phase = phase /\ cursor'.next = cursor.next + 1
        /\ phase \in PhasesAfter(request)
    BY <1>2, AppliedReplyConfirms DEF AppliedReply, Return
  <2>2. request.op = op
    BY <1>0, <2>1 DEF CallInv, RpcOps
  <2>3. op = "Update" => phase = IF request.final THEN "TERMINAL" ELSE "RUNNING"
    BY <2>1, <2>2 DEF PhasesAfter
  <2>4. \A r \in late : r.seq < cursor'.next
    <3>1. cursor.next \in Nat /\ \A r \in late : r.seq \in Nat /\ r.seq <= cursor.next
      BY <1>0 DEF TypeOK, LateInv, Request
    <3> QED BY <2>1, <3>1
  <2> QED BY <2>1, <2>3, <2>4 DEF PlaceInv, CommandOps
<1>3. CASE \E valid \in BOOLEAN : OpenReply(valid)
  BY <1>3 DEF OpenReply, Return, Calling, PlaceInv
<1>4. CASE /\ ~RunSession /\ ~AppliedReply
           /\ ~ \E valid \in BOOLEAN : OpenReply(valid)
  <2>1. /\ UNCHANGED <<op, request, cursor>> /\ CanClose' = CanClose
        /\ result' = "Applied" <=> result = "Applied"
    BY <1>4, OtherSteps DEF CanClose
  <2>2. result = "Applied" => late' \subseteq late
    <3>1. CASE Exchange
      BY <1>0, <1>4, <3>1, OtherExchange
    <3>2. CASE ServeAttempt \/ ServeLate \/ LoseLate \/ Signal \/ UNCHANGED vars
      BY <3>2 DEF ServeAttempt, ServeLate, LoseLate, Signal, vars
    <3> QED BY <1>4, <3>1, <3>2 DEF Next, Client, Exited
  <2> QED BY <2>1, <2>2 DEF PlaceInv
<1> QED BY <1>1, <1>2, <1>3, <1>4

(* What serving a command does to the number of Episodes. *)
Assigned(r) ==
  IF r.op = "Begin" /\ phase' = "RUNNING"
  THEN /\ phase = "READY"
       /\ window'.response.episode = episodes'
  ELSE episodes' = episodes

(* Commit assigns an Episode for a Begin that leaves RUNNING, else none.   *)
LEMMA CommitAssigns ==
  ASSUME IInv, NEW r \in Request, r.seq <= cursor.next,
         NEW mine \in BOOLEAN, Commit(r, mine)
  PROVE  Confirmed(r, mine) /\ Assigned(r)
<1> DEFINE assigned(to) == IF r.op = "Begin" /\ to = "RUNNING"
                           THEN episodes + 1 ELSE 0
           response(to) == [CommandReply("APPLIED", r.seq, to)
                              EXCEPT !.episode = assigned(to)]
<1>1. PICK to \in Phases :
        /\ Transition(r, phase, to)
        /\ phase' = to
        /\ episodes' = IF assigned(to) > 0 THEN assigned(to) ELSE episodes
        /\ window' = [present |-> TRUE, seq |-> r.seq,
                      payload |-> Bytes(r), response |-> response(to)]
  BY DEF Commit
<1>2. episodes \in Nat
  BY BoundsAssumption DEF IInv, TypeOK
<1>3. response(to).episode = assigned(to)
  BY DEF CommandReply
<1>4. window'.response = response(to)
  <2> HIDE DEF response
  <2> QED BY <1>1
<1>5. CASE r.op = "Begin" /\ to = "RUNNING"
  <2>1. phase = "READY"
    BY <1>1, <1>5 DEF Transition
  <2>2. episodes' = episodes + 1
    BY <1>1, <1>2, <1>5
  <2> QED BY <1>1, <1>3, <1>4, <1>5, <2>1, <2>2, CommitConfirms DEF Assigned
<1>6. CASE ~(r.op = "Begin" /\ to = "RUNNING")
  BY <1>1, <1>6, CommitConfirms DEF Assigned
<1> QED BY <1>5, <1>6

(* Nothing else that serves a command does.                                *)
LEMMA ServeAssigns ==
  ASSUME IInv, NEW r \in Request, r.seq <= cursor.next,
         NEW mine \in BOOLEAN, Serve(r, mine)
  PROVE  \/ UNCHANGED <<window, episodes, log>>
         \/ Confirmed(r, mine) /\ Assigned(r)
<1>1. CASE r.op = "Open" /\ OpenSession(mine)
  BY <1>1 DEF OpenSession, serverVars
<1>2. CASE ReplayStored(r, mine) \/ Refuse(r, mine) \/ Defer(r, mine)
  BY <1>2 DEF ReplayStored, Refuse, Defer, serverVars
<1>3. CASE Commit(r, mine)
  BY <1>3, CommitAssigns
<1> QED BY <1>1, <1>2, <1>3 DEF Serve

(* A reply that grants the request carries the episode of the stored one. *)
LEMMA ServedEpisode ==
  ASSUME IInv, NEW r \in Request, r.seq <= cursor.next, r.op # "Open",
         Serve(r, TRUE), CommandAccepted(reply')
  PROVE  reply'.episode = window'.response.episode
<1>1. CASE ReplayStored(r, TRUE)
  <2>1. window.response \in Reply \cup {NoReply}
    BY DEF IInv, TypeOK
  <2>2. [window.response EXCEPT !.result = "ALREADY_APPLIED"].episode
          = window.response.episode
    BY <2>1 DEF Reply, NoReply
  <2> QED BY <1>1, <2>2 DEF ReplayStored, Respond, serverVars
<1>2. CASE Refuse(r, TRUE)
  BY <1>2 DEF Refuse, RejectCommand, Respond, CommandReply, CommandAccepted
<1>3. CASE Defer(r, TRUE)
  BY <1>3 DEF Defer, Respond, CommandReply, CommandAccepted
<1>4. CASE Commit(r, TRUE)
  BY <1>4, CommitConfirms DEF Confirmed
<1> QED BY <1>1, <1>2, <1>3, <1>4 DEF Serve

(* The steps that change the window, the log or the Episodes assigned.     *)
LEMMA ServerSteps ==
  ASSUME IInv, [Next]_vars
  PROVE  \/ UNCHANGED <<window, episodes, log>>
         \/ \E r \in Request, mine \in BOOLEAN :
              /\ mine => ServeAttempt /\ r = request
              /\ ~mine => ServeLate /\ r \in late
              /\ Confirmed(r, mine) /\ Assigned(r)
<1>0. TypeOK /\ CallInv /\ LateInv
  BY DEF IInv
<1>1. CASE RunSession
  BY <1>1, RunSessionCases
<1>2. CASE Exchange
  <2>1. CASE AppliedReply
    BY <2>1, AppliedReplyConfirms DEF serverVars
  <2>2. CASE \E valid \in BOOLEAN : OpenReply(valid)
    BY <2>2, OpenReplyBinds DEF serverVars
  <2>3. CASE ~AppliedReply /\ ~ \E valid \in BOOLEAN : OpenReply(valid)
    BY <1>0, <1>2, <2>3, OtherExchange DEF serverVars
  <2> QED BY <2>1, <2>2, <2>3
<1>3. CASE ServeAttempt
  <2>1. request \in Request /\ request.seq <= cursor.next
    BY <1>3, ServedRequest
  <2>2. Serve(request, TRUE)
    BY <1>3 DEF ServeAttempt
  <2> QED BY <1>3, <2>1, <2>2, ServeAssigns
<1>4. CASE ServeLate
  <2>1. PICK r \in late : Serve(r, FALSE)
    BY <1>4 DEF ServeLate
  <2>2. r \in Request /\ r.seq <= cursor.next
    BY <1>0 DEF TypeOK, LateInv
  <2> QED BY <1>4, <2>1, <2>2, ServeAssigns
<1>5. CASE LoseLate \/ Signal \/ UNCHANGED vars
  BY <1>5 DEF LoseLate, Signal, vars, serverVars
<1> QED BY <1>1, <1>2, <1>3, <1>4, <1>5 DEF Next, Client, Exited

(* A step that changes what the server has assigned is a Begin, which the  *)
(* client can only have sent between two Episodes: a late copy of an older *)
(* one is out of order by then.                                            *)
LEMMA EpisodeBegins ==
  ASSUME IInv, PlaceInv, [Next]_vars, episodes' # episodes
  PROVE  /\ cursor.phase = "READY" /\ op \notin {"Update", "End", "Abort"}
         /\ UNCHANGED <<op, request, cursor>>
<1>0. TypeOK /\ LedgerInv /\ BindInv /\ ControlInv /\ AgreementInv /\ CallInv
  BY DEF IInv
<1>1. PICK r \in Request, mine \in BOOLEAN :
        /\ mine => ServeAttempt /\ r = request
        /\ ~mine => ServeLate /\ r \in late
        /\ Confirmed(r, mine) /\ Assigned(r)
  BY ServerSteps
<1>2. /\ phase = "READY" /\ acked = log /\ r.seq = last + 1 /\ r.op = "Begin"
  BY <1>1 DEF Assigned, Confirmed
<1>3. cursor.phase = "READY"
  BY <1>0, <1>2 DEF BindInv, AgreementInv
<1>4. UNCHANGED <<op, request, cursor>>
  BY <1>1 DEF ServeAttempt, ServeLate, callVars
<1>5. ~(op = "End" /\ result = "Applied")
  <2> SUFFICES ASSUME op = "End", result = "Applied" PROVE FALSE
    OBVIOUS
  <2>1. ~mine
    BY <1>1 DEF ServeAttempt, Calling
  <2>2. r.seq < cursor.next
    BY <1>1, <2>1 DEF PlaceInv
  <2>3. cursor.next = r.seq /\ cursor.next \in Nat
    BY <1>0, <1>2 DEF LedgerInv, TypeOK
  <2> QED BY <2>2, <2>3
<1>6. op \notin {"Update", "End", "Abort"}
  <2>1. op = "Update" => cursor.phase # "READY"
    BY <1>0 DEF ControlInv, PlaceInv
  <2>2. op = "Abort" => cursor.phase # "READY"
    BY <1>0 DEF ControlInv, PlaceInv
  <2>3. op = "End" => cursor.phase # "READY"
    BY <1>5 DEF PlaceInv
  <2> QED BY <1>3, <2>1, <2>2, <2>3
<1> QED BY <1>3, <1>4, <1>6

(* Requests carry the Episode they are about. *)
LEMMA IdentityStep ==
  ASSUME IInv, PlaceInv, EpisodeInv, EpisodeIdentity, [Next]_vars
  PROVE  EpisodeIdentity'
<1>0. TypeOK /\ CallInv /\ ControlInv
  BY DEF IInv
<1>1. CASE RunSession
  <2>1. /\ episodes' = episodes /\ request' = Prepare(op') /\ op' # "Open"
    BY <1>1, RunSessionCases
  <2>2. request' # NoRequest => op' \in CommandOps /\ request'.episode = cursor.episode
    BY <2>1 DEF Prepare, RpcOps
  <2>3. cursor.episode = IF cursor.phase \in InEpisode THEN episodes ELSE 0
    BY DEF EpisodeInv
  <2>4. /\ op' = "Init" => cursor.phase = "OPEN"
        /\ op' = "Begin" => cursor.phase = "READY"
        /\ op' = "Update" => cursor.phase = "RUNNING"
        /\ op' = "End" => cursor.phase = "TERMINAL"
        /\ op' = "Abort" => cursor.phase = "RUNNING"
        /\ op' = "Close" => CanClose
    BY <1>0, <1>1, RunSessionCases DEF PlaceInv, ControlInv, Active
  <2> QED BY <2>1, <2>2, <2>3, <2>4
          DEF EpisodeIdentity, InEpisode, CommandOps, CanClose
<1>2. CASE ~RunSession
  <2>1. UNCHANGED <<op, request>>
    BY <1>2, OnlyRunSessionMoves
  <2>2. CASE episodes' = episodes
    BY <2>1, <2>2 DEF EpisodeIdentity
  <2>3. CASE episodes' # episodes
    BY <2>1, <2>3, EpisodeBegins DEF EpisodeIdentity
  <2> QED BY <2>2, <2>3
<1> QED BY <1>1, <1>2

(* The identity the client keeps is the one the server assigned, as long   *)
(* as the Episode lasts. *)
LEMMA CursorEpisodeStep ==
  ASSUME IInv, PlaceInv, EpisodeInv, [Next]_vars
  PROVE  cursor'.episode = IF cursor'.phase \in InEpisode THEN episodes' ELSE 0
<1>0. TypeOK /\ CallInv /\ BindInv /\ ControlInv
  BY DEF IInv
<1>e. cursor.episode = IF cursor.phase \in InEpisode THEN episodes ELSE 0
  BY DEF EpisodeInv
<1>1. CASE AppliedReply
  <2>1. /\ op \in CommandOps /\ phase \in PhasesAfter(request)
        /\ Outstanding(request) /\ cursor'.phase = phase
        /\ UNCHANGED <<window, episodes>> /\ cursor'.episode = EpisodeAfter(reply)
        /\ reply.phase = phase /\ CommandAccepted(reply)
        /\ reply.applied = cursor.next /\ result = "None"
    BY <1>1, AppliedReplyConfirms DEF AppliedReply, Confirms, Calling, serverVars
  <2>2. request.op = op /\ request \in Request
    BY <1>0, <2>1 DEF CallInv, RpcOps
  <2>3. CASE op = "Begin"
    <3>1. phase \in {"RUNNING", "TASK_COMPLETE"} /\ cursor.phase = "READY"
      BY <1>0, <2>1, <2>2, <2>3 DEF PhasesAfter, AcceptedPhases, ControlInv
    <3>2. phase = "RUNNING" => reply.episode = episodes
      <4>1. window.payload.op = "IdentityOnly"
        BY <2>1, <2>2, <2>3 DEF Outstanding, Bytes, IdentityOnly, Request
      <4> QED BY <2>1, <2>3, <4>1 DEF EpisodeInv, Outstanding
    <3> QED BY <1>e, <2>1, <2>3, <3>1, <3>2 DEF EpisodeAfter, InEpisode
  <2>4. CASE op \in {"End", "Abort"}
    BY <2>1, <2>2, <2>4 DEF EpisodeAfter, PhasesAfter, AcceptedPhases, InEpisode
  <2>5. CASE op = "Update"
    BY <1>0, <1>e, <2>1, <2>2, <2>5
       DEF EpisodeAfter, PhasesAfter, InEpisode, ControlInv
  <2>6. CASE op \in {"Init", "Close"}
    <3>1. cursor.phase \notin InEpisode
      BY <2>1, <2>6 DEF PlaceInv, InEpisode, CanClose
    <3>2. phase \notin InEpisode
      BY <2>1, <2>2, <2>6 DEF PhasesAfter, AcceptedPhases, InEpisode
    <3> QED BY <1>e, <2>1, <2>6, <3>1, <3>2 DEF EpisodeAfter
  <2> QED BY <2>1, <2>3, <2>4, <2>5, <2>6 DEF CommandOps
<1>2. ASSUME NEW valid \in BOOLEAN, OpenReply(valid)
      PROVE  cursor'.episode = IF cursor'.phase \in InEpisode THEN episodes' ELSE 0
  <2>1. cursor.phase = "UNSPECIFIED"
    BY <1>2, UnboundIsEmpty DEF OpenReply, Calling
  <2>2. cursor'.episode = cursor.episode /\ episodes' = episodes
    BY <1>0, <1>2 DEF OpenReply, Return, serverVars, TypeOK
  <2>3. cursor'.phase \in {"UNSPECIFIED", "OPEN"}
    BY <1>2, <2>1, OpenReplyBinds
  <2> QED BY <1>e, <2>1, <2>2, <2>3 DEF InEpisode
<1>3. CASE ~AppliedReply /\ ~ \E valid \in BOOLEAN : OpenReply(valid)
  <2>1. cursor' = cursor
    BY <1>3, RunSessionCases, OtherSteps
  <2>2. CASE episodes' = episodes
    BY <1>e, <2>1, <2>2
  <2>3. CASE episodes' # episodes
    BY <1>e, <2>1, <2>3, EpisodeBegins DEF InEpisode
  <2> QED BY <2>2, <2>3
<1> QED BY <1>1, <1>2, <1>3

(* Every step keeps the identity where it is.                              *)
LEMMA EpisodeStep ==
  ASSUME IInv, PlaceInv, EpisodeInv, [Next]_vars
  PROVE  EpisodeInv'
<1>0. TypeOK /\ CallInv /\ LedgerInv /\ LateInv /\ ReplyInv
  BY DEF IInv
<1>1. cursor'.episode = IF cursor'.phase \in InEpisode THEN episodes' ELSE 0
  BY CursorEpisodeStep
<1>2. (window'.present /\ window'.payload.op = "IdentityOnly"
         /\ window'.response.phase = "RUNNING")
        => window'.response.episode = episodes'
  <2>1. CASE UNCHANGED <<window, episodes, log>>
    BY <2>1 DEF EpisodeInv
  <2>2. ASSUME NEW r \in Request, NEW mine, Confirmed(r, mine), Assigned(r),
               window'.payload.op = "IdentityOnly",
               window'.response.phase = "RUNNING"
        PROVE  window'.response.episode = episodes'
    <3>1. window'.payload = Bytes(r) /\ phase' = "RUNNING" /\ phase' \in PhasesAfter(r)
      BY <2>2 DEF Confirmed
    <3>2. r.op \in IdentityOnly
      BY <2>2, <3>1 DEF Bytes, Request, RpcOps, CommandOps
    <3>3. r.op = "Begin"
      BY <3>1, <3>2 DEF IdentityOnly, PhasesAfter, AcceptedPhases
    <3> QED BY <2>2, <3>1, <3>3 DEF Assigned
  <2> QED BY <2>1, <2>2, ServerSteps
<1>3. (op' = "Begin" /\ CommandAccepted(reply') /\ reply'.applied = cursor'.next)
        => reply'.episode = window'.response.episode
  <2> SUFFICES ASSUME op' = "Begin", CommandAccepted(reply'),
                      reply'.applied = cursor'.next
               PROVE  reply'.episode = window'.response.episode
    OBVIOUS
  <2>0. reply' # NoReply
    BY NoReplyNotAccepted
  <2>1. ~RunSession /\ ~AppliedReply /\ ~ \E valid \in BOOLEAN : OpenReply(valid)
    BY <2>0, RunSessionCases DEF AppliedReply, OpenReply, Return
  <2>2. UNCHANGED <<op, request, cursor>>
    BY <2>1, OtherSteps
  <2>3. CASE ServeAttempt
    <3>1. Serve(request, TRUE) /\ request.seq <= cursor.next /\ request \in Request
          /\ request.op = op
      BY <2>3, ServedRequest DEF ServeAttempt
    <3> QED BY <2>2, <3>1, ServedEpisode
  <2>4. CASE Exchange
    <3>1. reply' = reply /\ window' = window
      BY <1>0, <2>0, <2>1, <2>4, OtherExchange DEF serverVars
    <3> QED BY <2>2, <3>1 DEF EpisodeInv
  <2>5. CASE ServeLate
    <3>1. reply' = reply
      BY <2>5, ServedLate
    <3>2. \E c \in Request : Outstanding(c)
      BY <1>0, <2>2, <3>1 DEF ReplyInv, CommandOps
    <3>3. acked # log
      BY <1>0, <3>2, OutstandingOne
    <3>4. window' = window
      BY <3>3, ServerSteps DEF Confirmed
    <3> QED BY <2>2, <3>1, <3>4 DEF EpisodeInv
  <2>6. CASE LoseLate \/ Signal \/ UNCHANGED vars
    BY <2>2, <2>6 DEF LoseLate, Signal, vars, serverVars, EpisodeInv
  <2> QED BY <2>1, <2>3, <2>4, <2>5, <2>6 DEF Next, Client, Exited
<1> QED BY <1>1, <1>2, <1>3 DEF EpisodeInv

(* What Episode commands say of the Episode, as an inductive invariant. *)
THEOREM HistoryInvariance == Spec => []HistoryInv
<1>1. Init => HistoryInv
  <2> SUFFICES ASSUME Init PROVE HistoryInv
    OBVIOUS
  <2>1. ReportInv /\ PlaceInv
    BY DEF Init, ReportInv, PlaceInv
  <2>2. EpisodeInv /\ EpisodeIdentity
    BY DEF Init, EpisodeInv, EpisodeIdentity, InEpisode, EmptyWindow, NoRequest
  <2> QED BY <2>1, <2>2 DEF HistoryInv
<1>2. IInv /\ HistoryInv /\ [Next]_vars => HistoryInv'
  BY ReportStep, PlaceStep, EpisodeStep, IdentityStep DEF HistoryInv
<1> QED BY <1>1, <1>2, Invariance, PTL DEF Spec

(* Update, End and Abort name the Episode the server runs, and a frame is  *)
(* executed, or the Episode ended, only when each frame so far was reported*)
(* (RunEpisode, TaskClient::BeginEpisode and EndEpisode).                *)
THEOREM EpisodesReported == Spec => []EpisodeReported
<1>1. IInv /\ HistoryInv => EpisodeReported
  <2> SUFFICES ASSUME IInv, HistoryInv PROVE FramesMatchReports
    BY DEF EpisodeReported, HistoryInv
  <2> SUFFICES ASSUME op \in {"Apply", "End"}, result = "None"
               PROVE  LET n == Len(acked)
                      IN  /\ n > frame + 1
                          /\ acked[n - frame - 1].op = "Begin"
                          /\ \A i \in (n - frame)..n :
                               /\ acked[i].op = "Update"
                               /\ acked[i].final = (op = "End" /\ i = n)
    BY DEF FramesMatchReports
  <2> DEFINE n == Len(acked)
  <2>1. Reports(acked, frame + 1, op = "End")
    BY DEF HistoryInv, ReportInv
  <2>2. n \in Nat /\ frame \in Nat /\ acked \in Seq(Request)
    BY BoundsAssumption DEF IInv, TypeOK
  <2>3. \A i \in 1..n : acked[i].final \in BOOLEAN
    <3>1. \A i \in 1..n : acked[i] \in Request
      BY <2>2
    <3>2. \A r \in Request : r.final \in BOOLEAN
      BY DEF Request
    <3> QED BY <3>1, <3>2, Zenon
  <2>4. n - (frame + 1) = n - frame - 1 /\ n - (frame + 1) + 1 = n - frame
    BY <2>2
  <2>5. /\ n > frame + 1 /\ acked[n - frame - 1].op = "Begin"
        /\ \A i \in (n - frame)..n : /\ acked[i].op = "Update"
                                     /\ acked[i].final <=> (op = "End" /\ i = n)
    BY <2>1, <2>4 DEF Reports
  <2>6. \A i \in (n - frame)..n : i \in 1..n
    BY <2>2, <2>5
  <2>7. \A i \in (n - frame)..n : acked[i].final = (op = "End" /\ i = n)
    BY <2>3, <2>5, <2>6
  <2> QED BY <2>5, <2>7
<1> QED BY <1>1, Invariance, HistoryInvariance, PTL

-----------------------------------------------------------------------------
(* Without late copies                                                     *)

(* As long as no copy is late, only the client's own command can be applied*)
(* and not yet acknowledged, and then nothing but that is answered.        *)
OwnInv ==
  /\ acked # log =>
       \/ op = "Done"
       \/ op \in CommandOps /\ result \in {"None", "Unknown"} /\ Outstanding(request)
  /\ (acked # log /\ op \in CommandOps /\ result = "None")
       => attempt > 0 /\ (reply = NoReply \/ CommandAccepted(reply))
  /\ (op \in CommandOps /\ result = "Applied")
       => acked = log /\ request.seq = Len(log) /\ log[Len(log)] = request
  /\ (op # "Open" /\ reply.result = "ALREADY_APPLIED") => acked # log

(* A command in doubt ends the Session. *)
LEMMA UnknownEnds ==
  ASSUME RunSession, op \in CommandOps, result = "Unknown"
  PROVE  op' = "Done"
<1>1. Finish("Unknown") => op' = "Done"
  BY DEF Finish, Enter
<1> QED
  BY <1>1 DEF RunSession, OpenReturns, LoadMap, InitReturns, LoopHead, BeginReturns,
         Observe, UpdateReturns, ApplyActions, EndReturns, AbortReturns,
         CloseReturns, Enter, CommandOps

(* What answers an attempt: once its command is applied, only that. *)
LEMMA OwnAnswer ==
  ASSUME IInv, ServeAttempt, op \in CommandOps
  PROVE  \/ /\ acked = log /\ Confirmed(request, TRUE)
            /\ CommandAccepted(reply')
         \/ /\ acked = log /\ reply'.result \in {"WAIT", "REJECTED"}
            /\ UNCHANGED <<log, window, phase>>
         \/ /\ acked # log /\ Outstanding(request)
            /\ CommandAccepted(reply') /\ UNCHANGED <<log, window, phase>>
         \/ ~(\/ acked = log
              \/ Outstanding(request))
<1>0. TypeOK /\ CallInv /\ LedgerInv
  BY DEF IInv
<1>1. /\ request \in Request /\ request.op = op /\ request.seq = cursor.next
      /\ Serve(request, TRUE) /\ op # "Open"
  BY <1>0, ServedRequest DEF ServeAttempt, Calling, CallInv, CommandOps
<1>2. cursor.next = Len(acked) + 1 /\ last = Len(log) /\ Len(acked) \in Nat
  BY <1>0 DEF LedgerInv, TypeOK
<1>3. CASE acked = log
  <2>1. Classify(request) # "Replay"
    BY <1>0, <1>1, <1>2, <1>3 DEF Classify, LedgerInv
  <2>2. CASE Commit(request, TRUE)
    <3>1. Confirmed(request, TRUE)
      <4>1. request.seq <= cursor.next
        BY <1>1, <1>2
      <4> QED BY <1>1, <2>2, <4>1, CommitConfirms
    <3>2. CommandAccepted(reply')
      <4> DEFINE response(to, n) == [CommandReply("APPLIED", request.seq, to)
                                      EXCEPT !.episode = n]
      <4>1. PICK to, n : to \in Phases /\ reply' = response(to, n)
        BY <2>2 DEF Commit, Respond
      <4>2. response(to, n).result = "APPLIED"
        BY DEF CommandReply
      <4> QED BY <4>1, <4>2 DEF CommandAccepted
    <3> QED BY <1>3, <3>1, <3>2
  <2>3. CASE Refuse(request, TRUE)
    BY <1>3, <2>3 DEF Refuse, RejectCommand, Respond, CommandReply, serverVars
  <2>4. CASE Defer(request, TRUE)
    BY <1>3, <2>4 DEF Defer, Respond, CommandReply, serverVars
  <2> QED BY <1>1, <2>1, <2>2, <2>3, <2>4 DEF Serve, ReplayStored
<1>4. CASE acked # log /\ Outstanding(request)
  <2>1. Len(log) = Len(acked) + 1
    BY <1>0, <1>1, <1>4, OutstandingOne
  <2>2. Classify(request) = "Replay"
    BY <1>0, <1>1, <1>2, <1>4, <2>1 DEF Classify, LedgerInv, Outstanding
  <2>3. ReplayStored(request, TRUE)
    BY <1>1, <2>2 DEF Serve, Refuse, Defer, Commit
  <2>4. window.response \in Reply \cup {NoReply}
    BY <1>0 DEF TypeOK
  <2>5. reply'.result = "ALREADY_APPLIED"
    BY <2>3, <2>4 DEF ReplayStored, Respond, Reply, NoReply
  <2> QED BY <1>4, <2>3, <2>5 DEF ReplayStored, CommandAccepted, serverVars
<1> QED BY <1>3, <1>4

(* Every step keeps that, while no copy is late.                           *)
LEMMA OwnStep ==
  ASSUME IInv, OwnInv, late = {}, [Next]_vars
  PROVE  OwnInv'
<1>0. TypeOK /\ CallInv /\ LedgerInv
  BY DEF IInv
<1>n. NoReply.result = "None"
  BY DEF NoReply
<1>1. CASE RunSession
  <2>1. /\ result' = "None" /\ reply' = NoReply /\ UNCHANGED <<acked, log>>
    BY <1>1, RunSessionCases
  <2>2. acked # log => op' = "Done"
    <3>1. op \in CommandOps => result # "None"
      BY <1>1 DEF RunSession, OpenReturns, LoadMap, InitReturns, LoopHead,
                  BeginReturns, Observe, UpdateReturns, ApplyActions, EndReturns,
                  AbortReturns, CloseReturns, CommandOps
    <3>2. op # "Done"
      BY <1>1, RunSessionEnters
    <3> QED BY <1>1, <3>1, <3>2, UnknownEnds DEF OwnInv
  <2> QED BY <1>n, <2>1, <2>2 DEF OwnInv, CommandOps
<1>2. CASE AppliedReply
  <2>1. /\ op \in CommandOps /\ acked' = log /\ log' = log /\ Outstanding(request)
        /\ UNCHANGED <<op, request>> /\ reply' = NoReply /\ result = "None"
    BY <1>2, AppliedReplyConfirms DEF serverVars, AppliedReply, Return, Calling
  <2>2. log = Append(acked, request) /\ request.seq = cursor.next
        /\ cursor.next = Len(acked) + 1 /\ acked \in Seq(Request)
    BY <1>0, <2>1 DEF Outstanding, CallInv, LedgerInv, TypeOK
  <2>3. request.seq = Len(log) /\ log[Len(log)] = request
    BY <2>2
  <2> QED BY <1>n, <2>1, <2>3 DEF OwnInv
<1>3. ASSUME NEW valid \in BOOLEAN, OpenReply(valid) PROVE OwnInv'
  <2>1. op = "Open" /\ op' = op /\ acked = log /\ UNCHANGED <<acked, log>>
    BY <1>3, UnboundIsEmpty, OpenReplyBinds DEF OpenReply, Calling, serverVars
  <2> QED BY <2>1 DEF OwnInv, CommandOps
<1>4. CASE Exchange /\ ~AppliedReply /\ ~ \E valid \in BOOLEAN : OpenReply(valid)
  <2>1. /\ UNCHANGED <<op, request, acked, log, window, phase>>
        /\ op \in RpcOps /\ result = "None" /\ result' # "Applied"
        /\ reply' = reply \/ reply' = NoReply
    BY <1>0, <1>4, OtherExchange DEF serverVars
  <2>2. CASE acked = log
    BY <1>n, <2>1, <2>2 DEF OwnInv
  <2>3. CASE acked # log
    <3>1. /\ op \in CommandOps /\ Outstanding(request) /\ attempt > 0
          /\ reply = NoReply \/ CommandAccepted(reply)
      BY <2>1, <2>3 DEF OwnInv, RpcOps, CommandOps
    <3>2. \/ result' = "Unknown"
          \/ result' = "None" /\ attempt' > 0 /\ reply' = NoReply
      <4>1. ~ExchangeStopped /\ ~AbortBudgetExpires /\ ~Invoke
        BY <3>1 DEF ExchangeStopped, AbortBudgetExpires, Invoke
      <4>2. ~WaitReply
        BY <3>1 DEF WaitReply, Retries, IsCommandWait, CommandAccepted
      <4>3. CASE AttemptFails
        BY <2>1, <4>3 DEF AttemptFails, Return, callVars
      <4>4. ASSUME NEW valid \in BOOLEAN, OtherReply(valid) PROVE result' = "Unknown"
        BY <3>1, <4>4 DEF OtherReply, Return, IsConclusiveRejected, CommandAccepted
      <4> QED BY <1>4, <4>1, <4>2, <4>3, <4>4 DEF Exchange
    <3>3. Outstanding(request)'
      BY <2>1, <3>1 DEF Outstanding
    <3> QED BY <2>1, <2>3, <3>1, <3>2, <3>3 DEF OwnInv
  <2> QED BY <2>2, <2>3
<1>5. CASE ServeAttempt
  <2>1. /\ UNCHANGED <<op, request, result, attempt, acked, cursor>>
        /\ op \in RpcOps /\ result = "None" /\ attempt > 0
    BY <1>5, ServedRequest DEF ServeAttempt, Calling, callVars
  <2>2. CASE op = "Open"
    BY <1>5, <2>1, <2>2, UnboundIsEmpty, ServedRequest DEF OwnInv, CommandOps, Quiet
  <2>3. CASE op \in CommandOps
    <3>1. CASE acked = log /\ Confirmed(request, TRUE) /\ CommandAccepted(reply')
      <4>1. Outstanding(request)' /\ log' = Append(log, request)
        BY <2>1, <3>1 DEF Outstanding, Confirmed
      <4>2. acked' # log'
        BY <1>0, <2>1, <3>1, <4>1 DEF TypeOK
      <4> QED BY <2>1, <2>3, <3>1, <4>1, <4>2 DEF OwnInv
    <3>2. CASE /\ acked = log /\ reply'.result \in {"WAIT", "REJECTED"}
               /\ UNCHANGED <<log, window, phase>>
      BY <2>1, <3>2 DEF OwnInv
    <3>3. CASE /\ acked # log /\ Outstanding(request)
               /\ CommandAccepted(reply') /\ UNCHANGED <<log, window, phase>>
      <4>1. Outstanding(request)'
        BY <2>1, <3>3 DEF Outstanding
      <4> QED BY <2>1, <2>3, <3>3, <4>1 DEF OwnInv
    <3>4. acked = log \/ Outstanding(request)
      BY <2>3 DEF OwnInv, CommandOps
    <3> QED BY <1>5, <2>3, <3>1, <3>2, <3>3, <3>4, OwnAnswer
  <2> QED BY <2>1, <2>2, <2>3 DEF RpcOps
<1>6. CASE ServeLate \/ LoseLate
  BY <1>6 DEF ServeLate, LoseLate
<1>7. CASE Signal \/ UNCHANGED vars
  BY <1>7 DEF Signal, vars, callVars, serverVars, OwnInv, Outstanding
<1> QED BY <1>1, <1>2, <1>3, <1>4, <1>5, <1>6, <1>7 DEF Next, Client, Exited

(* The two promises of session.h and server_command.h that a late copy can *)
(* break (no other command takes the place of an applied one, an answer    *)
(* ALREADY_APPLIED is about the command that was sent) hold on a network   *)
(* that keeps no copy.                                                     *)
THEOREM KeptWithoutLates == Spec => KeptWithoutLate
<1>1. Init => OwnInv
  BY DEF Init, OwnInv, NoReply, CommandOps
<1>2. IInv /\ OwnInv /\ late = {} /\ [Next]_vars => OwnInv'
  BY OwnStep
<1>3. IInv /\ OwnInv => NoSubstitute
  <2> SUFFICES ASSUME IInv, OwnInv, request.seq \in 1..Len(log)
               PROVE  log[request.seq] = request
    BY DEF NoSubstitute
  <2>1. TypeOK /\ CallInv /\ LedgerInv
    BY DEF IInv
  <2>2. op \in CommandOps
    <3>1. op \in LocalOps => request.seq = 0
      BY <2>1 DEF CallInv, NoRequest
    <3> QED BY <2>1, <3>1 DEF CallInv, TypeOK, RpcOps
  <2>3. CASE result = "Applied"
    BY <2>2, <2>3 DEF OwnInv
  <2>4. CASE result # "Applied"
    <3>1. request.seq = Len(acked) + 1 /\ acked \in Seq(Request)
      BY <2>1, <2>2, <2>4 DEF CallInv, LedgerInv, TypeOK
    <3>2. acked # log
      BY <3>1
    <3>3. log = Append(acked, request)
      BY <2>2, <3>2 DEF OwnInv, Outstanding, CommandOps
    <3> QED BY <3>1, <3>3
  <2> QED BY <2>3, <2>4
<1>4. IInv /\ OwnInv => AlreadyAppliedIsApplied
  <2> SUFFICES ASSUME IInv, OwnInv, reply.result = "ALREADY_APPLIED", op # "Open"
               PROVE  \E i \in DOMAIN log : log[i] = request
    BY DEF AlreadyAppliedIsApplied
  <2>1. TypeOK /\ CallInv
    BY DEF IInv
  <2>2. op \in CommandOps
    BY <2>1 DEF CallInv, NoReply, RpcOps, TypeOK
  <2>3. log = Append(acked, request) /\ acked \in Seq(Request)
    BY <2>1, <2>2 DEF OwnInv, Outstanding, CommandOps, TypeOK
  <2>4. Len(acked) + 1 \in DOMAIN log /\ log[Len(acked) + 1] = request
    BY <2>3
  <2> QED BY <2>4
<1> DEFINE NoLate == late = {}
<1>5. Spec /\ []NoLate => []OwnInv
  <2>1. IInv /\ OwnInv /\ NoLate /\ [Next]_vars => OwnInv'
    BY <1>2
  <2> HIDE DEF NoLate
  <2> QED BY <1>1, <2>1, Invariance, PTL DEF Spec
<1>6. Spec /\ []NoLate => [](NoSubstitute /\ AlreadyAppliedIsApplied)
  <2> HIDE DEF NoLate
  <2> QED BY <1>3, <1>4, <1>5, Invariance, PTL
<1>7. KeptWithoutLate <=> ([]NoLate => [](NoSubstitute /\ AlreadyAppliedIsApplied))
  BY PTL DEF KeptWithoutLate
<1> QED BY <1>6, <1>7, PTL
=============================================================================
