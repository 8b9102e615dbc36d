--------------------------- MODULE ManagedRuntime ---------------------------
(***************************************************************************)
(* run.sh around the client process: starting it, waiting for its marker,  *)
(* publishing the readiness receipt, and the traps that end it and remove  *)
(* both files. The wrapper is the first process of a managed container:    *)
(* all others end with it. A signal is modelled where its trap runs, which *)
(* is between two commands or inside of wait and never during a foreground *)
(* command.                                                                *)
(***************************************************************************)
EXTENDS Naturals

CONSTANTS
  MaxRuns,     \* starts of the container
  MaxSignals,  \* TERM or INT sent to one run of the wrapper
  MaxPolls     \* looks for the marker; 100 in the code

ASSUME RuntimeAssumption ==
  MaxRuns \in Nat /\ MaxSignals \in Nat /\ MaxPolls \in Nat

VARIABLES
  managed,   \* RL_INFRA_MANAGED is true
  run,       \* the current start
  at,        \* where the wrapper is
  polls,
  known,     \* client_pid is not empty
  stopping,
  code,      \* the exit status the wrapper is going to give
  client,    \* the client process
  marker,    \* the start that wrote client-managed-ready, 0 for no file
  receipt,   \* the same of readiness.json
  sent,      \* signals handled in this start
  gap, cut   \* a signal hit the unnamed client; a signal cut the clean-up

files == <<marker, receipt>>
vars == <<managed, run, at, polls, known, stopping, code, client, files,
          sent, gap, cut>>

Alive == {"starting", "connecting", "connected", "running"}
Gone  == {"clean", "failed", "killed"}

(* Where a trap can run. *)
Trapped == {"forked", "poll", "alive", "wait", "leaving", "term", "grace",
            "remove", "removed"}

(* The wrapper ends, and with it the container. *)
Exit ==
  /\ at' = "exited"
  /\ client' = IF managed /\ client \in Alive THEN "killed" ELSE client

Init ==
  /\ managed \in BOOLEAN
  /\ run = 0 /\ at = "down" /\ polls = 0 /\ known = FALSE /\ stopping = FALSE
  /\ code = "none" /\ client = "none" /\ marker = 0 /\ receipt = 0
  /\ sent = 0 /\ gap = FALSE /\ cut = FALSE

-----------------------------------------------------------------------------
(* The wrapper                                                             *)

(* The files of an earlier start are still there. *)
Start ==
  /\ at \in {"down", "exited"} /\ client \notin Alive /\ run < MaxRuns
  /\ run' = run + 1 /\ at' = "clear" /\ polls' = 0
  /\ known' = FALSE /\ stopping' = FALSE /\ code' = "none"
  /\ client' = "none" /\ sent' = 0 /\ gap' = FALSE /\ cut' = FALSE
  /\ UNCHANGED <<managed, files>>

Clear ==
  /\ at = "clear" /\ at' = "spawn"
  /\ marker' = IF managed THEN 0 ELSE marker
  /\ receipt' = IF managed THEN 0 ELSE receipt
  /\ UNCHANGED <<managed, run, polls, known, stopping, code, client, sent,
                 gap, cut>>

(* A platform value or the executable is missing, or a signal ends the     *)
(* wrapper before its traps are set.                                       *)
Refuse ==
  /\ at = "spawn" /\ at' = "exited" /\ code' = "refused"
  /\ UNCHANGED <<managed, run, polls, known, stopping, client, files, sent,
                 gap, cut>>

Spawn ==
  /\ at = "spawn" /\ at' = "forked" /\ client' = "starting"
  /\ UNCHANGED <<managed, run, polls, known, stopping, code, files, sent,
                 gap, cut>>

NoteClient ==
  /\ at = "forked" /\ known' = TRUE
  /\ at' = IF managed THEN "poll" ELSE "wait"
  /\ UNCHANGED <<managed, run, polls, stopping, code, client, files, sent,
                 gap, cut>>

(* Line 105. The alias in the marker is the host the wrapper has passed.   *)
LookForMarker ==
  /\ at = "poll"
  /\ at' = IF marker # 0 THEN "publish" ELSE "alive"
  /\ UNCHANGED <<managed, run, polls, known, stopping, code, client, files,
                 sent, gap, cut>>

(* Mutant: the loop has no end. *)
PollOn ==
  /\ at = "alive" /\ client \in Alive
  /\ at' = "poll" /\ polls' = (polls + 1) % (MaxPolls + 2)
  /\ UNCHANGED <<managed, run, known, stopping, code, client, files, sent,
                 gap, cut>>

PollAgain ==
  /\ at = "alive" /\ client \in Alive /\ polls < MaxPolls
  /\ at' = "poll" /\ polls' = polls + 1
  /\ UNCHANGED <<managed, run, known, stopping, code, client, files, sent,
                 gap, cut>>

(* The client ended or the last look is over: exit 1. *)
NotReady ==
  /\ at = "alive" /\ (client \in Gone \/ polls = MaxPolls)
  /\ at' = "leaving" /\ code' = "failed"
  /\ UNCHANGED <<managed, run, polls, known, stopping, client, files, sent,
                 gap, cut>>

(* Nobody looks at the exit status of publish_readiness. *)
Publish ==
  /\ at = "publish" /\ at' = "wait"
  /\ receipt' \in {run, receipt}
  /\ UNCHANGED <<managed, run, polls, known, stopping, code, client, marker,
                 sent, gap, cut>>

(* Mutant: the status of the client is lost. *)
WaitedOnly ==
  /\ at = "wait" /\ client \in Gone
  /\ at' = "leaving" /\ known' = FALSE
  /\ code' = "ok"
  /\ UNCHANGED <<managed, run, polls, stopping, client, files, sent, gap, cut>>

(* Mutant: wait is repeated for as long as it fails. *)
WaitedWell ==
  /\ at = "wait" /\ client = "clean"
  /\ at' = "leaving" /\ known' = FALSE /\ code' = "ok"
  /\ UNCHANGED <<managed, run, polls, stopping, client, files, sent, gap, cut>>

Waited ==
  /\ at = "wait" /\ client \in Gone
  /\ at' = "leaving" /\ known' = FALSE
  /\ code' = IF client = "clean" THEN "ok" ELSE "failed"
  /\ UNCHANGED <<managed, run, polls, stopping, client, files, sent, gap, cut>>

(* The EXIT trap enters shutdown. *)
Leave ==
  /\ at = "leaving" /\ at' = "term" /\ stopping' = TRUE
  /\ UNCHANGED <<managed, run, polls, known, code, client, files, sent,
                 gap, cut>>

(* Mutant: TERM is sent and not waited for. *)
TerminateOnly ==
  /\ at = "term"
  /\ at' = "remove"
  /\ client' = IF known /\ client = "starting" THEN "killed" ELSE client
  /\ UNCHANGED <<managed, run, polls, known, stopping, code, files, sent,
                 gap, cut>>

(* TERM ends a client that has not yet installed its handler; any other    *)
(* only notes it.                                                          *)
Terminate ==
  /\ at = "term"
  /\ at' = IF known /\ client \in Alive THEN "grace" ELSE "remove"
  /\ client' = IF known /\ client = "starting" THEN "killed" ELSE client
  /\ UNCHANGED <<managed, run, polls, known, stopping, code, files, sent,
                 gap, cut>>

Reaped ==
  /\ at = "grace" /\ client \in Gone /\ at' = "remove"
  /\ UNCHANGED <<managed, run, polls, known, stopping, code, client, files,
                 sent, gap, cut>>

(* Mutant: the wait for the client has no limit. *)
KillNever == at = "grace" /\ client \in Alive /\ UNCHANGED vars

(* The four seconds are over. *)
Kill ==
  /\ at = "grace" /\ client \in Alive
  /\ client' = "killed" /\ at' = "remove"
  /\ UNCHANGED <<managed, run, polls, known, stopping, code, files, sent,
                 gap, cut>>

(* Mutant: the marker is forgotten. *)
RemoveReceipt ==
  /\ at = "remove" /\ at' = "removed"
  /\ receipt' = IF managed THEN 0 ELSE receipt
  /\ UNCHANGED <<managed, run, polls, known, stopping, code, client, marker,
                 sent, gap, cut>>

(* The end of shutdown. A client that it did not know is still alive.      *)
Remove ==
  /\ at = "remove" /\ at' = "removed"
  /\ marker' = IF managed THEN 0 ELSE marker
  /\ receipt' = IF managed THEN 0 ELSE receipt
  /\ UNCHANGED <<managed, run, polls, known, stopping, code, client, sent,
                 gap, cut>>

(* The exit of on_signal, or the end of the EXIT trap. *)
Quit ==
  /\ at = "removed" /\ Exit
  /\ UNCHANGED <<managed, run, polls, known, stopping, code, files, sent, gap,
                 cut>>

(* on_signal: the first one runs shutdown. One that arrives in shutdown    *)
(* returns from it at once and exits: what was left to do is not done, if  *)
(* the files were not removed yet.                                         *)
OnSignal ==
  /\ at \in Trapped /\ sent < MaxSignals
  /\ sent' = sent + 1 /\ code' = "ok"
  /\ gap' = (gap \/ at = "forked")
  /\ \/ /\ ~stopping
        /\ stopping' = TRUE /\ at' = "term"
        /\ UNCHANGED <<client, cut>>
     \/ /\ stopping
        /\ cut' = (cut \/ at # "removed") /\ Exit
        /\ UNCHANGED stopping
  /\ UNCHANGED <<managed, run, polls, known, files>>

Wrapper ==
  \/ Clear \/ Spawn \/ NoteClient \/ LookForMarker \/ PollAgain \/ NotReady
  \/ Publish \/ Waited \/ Leave \/ Terminate \/ Reaped \/ Kill \/ Remove
  \/ Quit

-----------------------------------------------------------------------------
(* The client                                                              *)

ClientAt(s, next) ==
  /\ client = s /\ client' = next
  /\ UNCHANGED <<managed, run, at, polls, known, stopping, code, sent, gap,
                 cut>>

(* Its handlers are installed; the configuration may be refused. *)
Prepare ==
  (ClientAt("starting", "connecting") \/ ClientAt("starting", "failed"))
    /\ UNCHANGED files

(* WaitForConnected does not look at the stop flag. *)
Connect ==
  (ClientAt("connecting", "connected") \/ ClientAt("connecting", "failed"))
    /\ UNCHANGED files

(* Mutant: the marker is written before the connection is there. *)
PublishEarly ==
  \/ /\ ClientAt("connecting", "connecting")
     /\ marker' = IF managed THEN run ELSE marker
     /\ UNCHANGED receipt
  \/ ClientAt("connected", "running") /\ UNCHANGED files

(* PublishManagedReadyMarker, and the Session starts. *)
PublishMarker ==
  \/ /\ ClientAt("connected", "running")
     /\ marker' = IF managed THEN run ELSE marker
     /\ UNCHANGED receipt
  \/ ClientAt("connected", "failed") /\ UNCHANGED files

(* Run returns. *)
RunEnds ==
  (ClientAt("running", "clean") \/ ClientAt("running", "failed"))
    /\ UNCHANGED files

(* The container is killed, or the machine stops. *)
Crash ==
  /\ at \notin {"down", "exited"}
  /\ at' = "down" /\ client' = "none"
  /\ UNCHANGED <<managed, run, polls, known, stopping, code, files, sent,
                 gap, cut>>

Stopped ==
  at \in {"down", "exited"} /\ run = MaxRuns /\ UNCHANGED vars

Next ==
  \/ Start \/ Refuse \/ Wrapper \/ OnSignal
  \/ Prepare \/ Connect \/ PublishMarker \/ RunEnds \/ Crash \/ Stopped

(* The shell executes its commands; nothing is assumed of the client.      *)
Spec == Init /\ [][Next]_vars /\ WF_vars(Wrapper)

-----------------------------------------------------------------------------
(* Properties                                                              *)

TypeOK ==
  /\ managed \in BOOLEAN /\ known \in BOOLEAN /\ stopping \in BOOLEAN
  /\ gap \in BOOLEAN /\ cut \in BOOLEAN
  /\ run \in 0..MaxRuns /\ polls \in 0..MaxPolls /\ sent \in 0..MaxSignals
  /\ at \in Trapped \cup {"down", "clear", "spawn", "publish", "exited"}
  /\ code \in {"none", "ok", "failed", "refused"}
  /\ client \in Alive \cup Gone \cup {"none"}
  /\ marker \in 0..run /\ receipt \in 0..run

(* Once the wrapper has removed what an earlier start left, a receipt says *)
(* that the client of this start has connected: its marker is there too.   *)
ReceiptTrue ==
  at \notin {"down", "clear"} /\ receipt # 0 =>
    receipt = run /\ marker = run /\ client \notin {"starting", "connecting",
                                                    "connected"}

(* What the receipt says is true at every step.                            *)
ReceiptSound == TypeOK /\ ReceiptTrue

(* A wrapper that ends has withdrawn its receipt, but for a signal in the  *)
(* clean-up. It has also ended the client and removed its marker, but for  *)
(* the client it had just started and not yet noted: that one goes on and  *)
(* may write a marker after the files were removed.                        *)
CleanExit ==
  at = "exited" /\ ~cut =>
    /\ receipt = 0
    /\ client \in Alive \/ marker # 0 => gap

(* Without a signal, status 0 is given for a client that ended well only.  *)
ExitTold ==
  at = "exited" /\ sent = 0 /\ code = "ok" => client = "clean"

(* The wrapper ends well: what it leaves behind and what it says.          *)
ExitSound == CleanExit /\ ExitTold

(* A signal ends the wrapper, whatever the client is waiting for.          *)
SignalEndsIt == sent > 0 ~> at \in {"exited", "down"}

(* A receipt does not outlive its client.                                  *)
ReceiptWithdrawn ==
  receipt = run /\ client \in Gone ~> receipt = 0 \/ cut \/ at = "down"
=============================================================================
