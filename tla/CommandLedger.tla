--------------------------- MODULE CommandLedger ---------------------------
(***************************************************************************)
(* What the RL-SDK promises about the commands of one Session, without     *)
(* sequences, retries, replay windows or transports: the AIServer applies  *)
(* commands one at a time, it applies none while the Client has not yet    *)
(* acknowledged the previous one, and the Client acknowledges exactly what *)
(* was applied, each command once and in order.                            *)
(*                                                                         *)
(* The promise is the one stated beside the code: "A Client cannot submit  *)
(* command N+1 until it has accepted the reply for N"                      *)
(* (rl_sdk/replay_window.h) and "The sequence is committed only after the  *)
(* server proves that this exact command was applied" (rl_sdk/session.h).  *)
(* SessionProtocol is shown to implement it.                               *)
(***************************************************************************)
EXTENDS Naturals, Sequences

CONSTANT Command     \* the commands a Session may carry

VARIABLES
  log,               \* commands the server has applied, in order
  acked              \* commands the client has accepted as applied, in order

ledgerVars == <<log, acked>>

Init ==
  /\ log = <<>>
  /\ acked = <<>>

(* The server applies one more command, any command, when every earlier    *)
(* one is acknowledged.                                                    *)
Apply ==
  /\ acked = log
  /\ log' \in Seq(Command)
  /\ Len(log') = Len(log) + 1
  /\ SubSeq(log', 1, Len(log)) = log
  /\ UNCHANGED acked

(* The client accepts the one outstanding command. *)
Acknowledge ==
  /\ acked # log
  /\ acked' = log
  /\ UNCHANGED log

Next ==
  \/ Apply
  \/ Acknowledge

Spec == Init /\ [][Next]_ledgerVars
=============================================================================
