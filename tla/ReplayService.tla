--------------------------- MODULE ReplayService ---------------------------
(***************************************************************************)
(* The detached Replay service of one checkout:                            *)
(*                                                                         *)
(*   managers   runs of run_replay.sh and run_replay.sh -stop, any number  *)
(*              at a time                        scripts/replay_service.py *)
(*   processes  the Replay servers they start, and other processes that    *)
(*              get a pid a server had           maze_viz_server.py main   *)
(*   files      operation.lock, service.json and one ready file for each   *)
(*              server instance                                            *)
(*                                                                         *)
(* A manager works under the lock, one file or process operation a step,   *)
(* and may die between any two of them. Liveness and owner of a pid are    *)
(* read in one step: whatever changes between the two reads of             *)
(* _owned_replay_pid gives an answer one read would give too.              *)
(***************************************************************************)
EXTENDS Integers, FiniteSets

CONSTANTS
  Managers,        \* runs of run_replay.sh
  Pids,            \* process ids for servers and for others
  Configs,         \* identities a start may ask for: config, directory, ...
  PortOf,          \* the port of each of them
  Nobody,          \* no manager
  MaxOps,          \* bound: starts and stops asked for
  MaxForeign,      \* bound: other processes that take a free pid
  MaxDeaths,       \* bound: servers that die of something else
  MaxFaults        \* bound: managers that die, SIGKILLs that take too long

(* Ports and configurations are checked before the lock is taken. *)
ASSUME ServiceAssumption ==
  /\ IsFiniteSet(Pids)
  /\ PortOf \in [Configs -> Int]
  /\ Nobody \notin Managers
  /\ {MaxOps, MaxForeign, MaxDeaths, MaxFaults} \subseteq Nat

VARIABLES
  lock,            \* who holds operation.lock
  service,         \* service.json, NoState if absent
  ready,           \* instances whose ready file exists
  procs,           \* the process of each pid
  pc, loc,         \* each manager's next step and what it remembers
  result,          \* how each manager's last operation ended
  budget           \* what is left of the bounds

files == <<service, ready>>
vars == <<lock, service, ready, procs, pc, loc, result, budget>>

-----------------------------------------------------------------------------
(* Processes                                                               *)

Instances == 1..MaxOps                   \* instance_id: one for each start

(* stage: a server's way through main(). sig: the signal not yet acted on. *)
(* parent: the manager it is a child of; for a foreign process, the        *)
(* manager that held the lock when it got its pid.                         *)
Process == [kind: {"none", "server", "zombie", "foreign"},
            inst: {0} \cup Instances, config: Configs \cup {Nobody},
            stage: {"loading", "bound", "ready", "closing"},
            sig: {"none", "term", "kill"}, parent: Managers \cup {Nobody}]

Idle == [kind |-> "none", inst |-> 0, config |-> Nobody, stage |-> "loading",
         sig |-> "none", parent |-> Nobody]

(* _process_is_live; a zombie is not.                                      *)
Live(p) == procs[p].kind \in {"server", "foreign"}

Serves(p, i) == procs[p].kind = "server" /\ procs[p].inst = i
Alive(i) == \E p \in Pids : Serves(p, i)

(* Mutant: the command line of the process is not looked at.               *)
OwnerIsLive(p, i) == IF Live(p) THEN "ours" ELSE "dead"

(* _owned_replay_pid: the recorded pid is ours, dead or somebody else's.   *)
Owner(p, i) == IF ~Live(p) THEN "dead"
               ELSE IF Serves(p, i) THEN "ours" ELSE "different"

Listening(port) == \E p \in Pids : /\ procs[p].kind = "server"
                                   /\ PortOf[procs[p].config] = port
                                   /\ procs[p].stage \in {"bound", "ready"}

(* os.kill: reaches whatever has the pid. SIGKILL outranks SIGTERM.        *)
Signalled(p, s) ==
  IF ~Live(p) \/ procs[p].sig = "kill" THEN procs
  ELSE [procs EXCEPT ![p].sig = s]

(* A child that ends stays a zombie as long as its manager runs.           *)
Exited(p) ==
  [procs EXCEPT ![p] = IF procs[p].kind = "server" /\ procs[p].parent # Nobody
                       THEN [Idle EXCEPT !.kind = "zombie",
                                         !.parent = procs[p].parent]
                       ELSE Idle]

(* The processes when manager m has ended.                                 *)
Orphaned(m) ==
  [p \in Pids |->
     IF procs[p].kind = "zombie" /\ procs[p].parent = m THEN Idle
     ELSE IF procs[p].kind = "server" /\ procs[p].parent = m
     THEN [procs[p] EXCEPT !.parent = Nobody] ELSE procs[p]]

-----------------------------------------------------------------------------
(* The server process: main() of maze_viz_server.py                        *)

ServerUnchanged == UNCHANGED <<lock, service, pc, loc, result>>

(* The HTTP socket is bound, or the server exits because it is not: this   *)
(* always happens when another server has the port.                        *)
Bind(p) ==
  /\ procs[p].kind = "server" /\ procs[p].stage = "loading"
  /\ \/ /\ ~Listening(PortOf[procs[p].config])
        /\ procs' = [procs EXCEPT ![p].stage = "bound"]
     \/ procs' = Exited(p)
  /\ UNCHANGED <<ready, budget>> /\ ServerUnchanged

(* write_ready_receipt; a SIGTERM that arrives in it may be seen after it. *)
Publish(p) ==
  /\ procs[p].kind = "server" /\ procs[p].stage = "bound"
  /\ procs' = [procs EXCEPT ![p].stage = "ready"]
  /\ ready' = ready \cup {procs[p].inst}
  /\ UNCHANGED budget /\ ServerUnchanged

(* SIGTERM: before its handler is installed it just kills.                 *)
TakeTerm(p) ==
  /\ procs[p].kind = "server" /\ procs[p].sig = "term"
  /\ \/ procs[p].stage = "loading" /\ procs' = Exited(p)
     \/ /\ procs[p].stage \in {"bound", "ready"}
        /\ procs' = [procs EXCEPT ![p].stage = "closing", ![p].sig = "none"]
  /\ UNCHANGED <<ready, budget>> /\ ServerUnchanged

(* The finally block: the socket is closed, the ready file removed.        *)
Close(p) ==
  /\ procs[p].kind = "server" /\ procs[p].stage = "closing"
  /\ ready' = ready \ {procs[p].inst}
  /\ procs' = Exited(p)
  /\ UNCHANGED budget /\ ServerUnchanged

TakeKill(p) ==
  /\ procs[p].kind = "server" /\ procs[p].sig = "kill"
  /\ procs' = Exited(p)
  /\ UNCHANGED <<ready, budget>> /\ ServerUnchanged

(* Something else ends a server, without its cleanup.                      *)
Die(p) ==
  /\ procs[p].kind = "server" /\ budget.deaths > 0
  /\ budget' = [budget EXCEPT !.deaths = @ - 1]
  /\ procs' = Exited(p)
  /\ UNCHANGED ready /\ ServerUnchanged

(* The operating system gives a free pid to another program.               *)
ForeignStarts(p) ==
  /\ procs[p].kind = "none" /\ budget.foreign > 0
  /\ budget' = [budget EXCEPT !.foreign = @ - 1]
  /\ procs' = [procs EXCEPT ![p].kind = "foreign", ![p].parent = lock]
  /\ UNCHANGED ready /\ ServerUnchanged

ForeignEnds(p) ==
  /\ procs[p].kind = "foreign"
  /\ procs' = Exited(p)
  /\ UNCHANGED <<ready, budget>> /\ ServerUnchanged

-----------------------------------------------------------------------------
(* A manager                                                               *)

NoState == [pid |-> Nobody, inst |-> 0, config |-> Nobody, status |-> "absent"]
Fresh == [op |-> "none", id |-> 0, config |-> Nobody, pid |-> Nobody, inst |-> 0]

At(m, step) == pc[m] = step
Goto(m, step) == pc' = [pc EXCEPT ![m] = step]

(* The operation ends: the lock is released with the lock file's close.    *)
Return(m, r) ==
  /\ pc' = [pc EXCEPT ![m] = "idle"]
  /\ loc' = [loc EXCEPT ![m] = Fresh]
  /\ result' = [result EXCEPT ![m] = r]
  /\ lock' = IF lock = m THEN Nobody ELSE lock
  /\ procs' = Orphaned(m)

(* main(): run_replay.sh, or run_replay.sh -stop.                          *)
Request(m, op, c) ==
  /\ At(m, "idle") /\ budget.ops > 0
  /\ budget' = [budget EXCEPT !.ops = @ - 1]
  /\ loc' = [loc EXCEPT ![m] = [Fresh EXCEPT !.op = op, !.id = budget.ops,
                                             !.config = c]]
  /\ result' = [result EXCEPT ![m] = "none"]
  /\ Goto(m, "lock")
  /\ UNCHANGED <<lock, files, procs>>

(* Mutant: the lock is shared.                                             *)
AcquireShared(m) ==
  /\ At(m, "lock")
  /\ lock' = m
  /\ Goto(m, "check")
  /\ UNCHANGED <<files, procs, loc, result, budget>>

Acquire(m) ==
  /\ At(m, "lock") /\ lock = Nobody
  /\ lock' = m
  /\ Goto(m, "check")
  /\ UNCHANGED <<files, procs, loc, result, budget>>

(* Mutant: the identity of the running service is not compared.            *)
FoundRunningAny(m) ==
  IF loc[m].op = "stop"
  THEN /\ Goto(m, "term") /\ UNCHANGED <<lock, procs, result>>
       /\ loc' = [loc EXCEPT ![m].pid = service.pid, ![m].inst = service.inst]
  ELSE Return(m, "already")

(* The state file names a server of ours that is alive.                    *)
FoundRunning(m) ==
  IF loc[m].op = "stop"
  THEN /\ Goto(m, "term") /\ UNCHANGED <<lock, procs, result>>
       /\ loc' = [loc EXCEPT ![m].pid = service.pid, ![m].inst = service.inst]
  ELSE Return(m, IF service.config = loc[m].config THEN "already" ELSE "other")

(* It names a dead one: what that left is cleaned up.                      *)
FoundDead(m) ==
  /\ Goto(m, "sweepReady")
  /\ loc' = [loc EXCEPT ![m].inst = service.inst]
  /\ UNCHANGED <<lock, procs, result>>

FoundNothing(m) ==
  IF loc[m].op = "stop" THEN Return(m, "notRunning")
  ELSE Goto(m, "spawn") /\ UNCHANGED <<lock, procs, loc, result>>

Check(m) ==
  /\ At(m, "check")
  /\ \/ service = NoState /\ FoundNothing(m)
     \/ /\ service # NoState
        /\ CASE Owner(service.pid, service.inst) = "ours" -> FoundRunning(m)
             [] Owner(service.pid, service.inst) = "dead" -> FoundDead(m)
             [] OTHER -> Return(m, "refused")
  /\ UNCHANGED <<files, budget>>

(* Mutant: only the state file is removed.                                 *)
SweepKeepsReady(m) ==
  /\ At(m, "sweepReady")
  /\ Goto(m, "sweepState")
  /\ UNCHANGED <<lock, files, procs, loc, result, budget>>

(* _cleanup_state: the ready file, then the state file.                    *)
SweepReady(m) ==
  /\ At(m, "sweepReady")
  /\ ready' = ready \ {loc[m].inst}
  /\ Goto(m, "sweepState")
  /\ UNCHANGED <<lock, service, procs, loc, result, budget>>

SweepState(m) ==
  /\ At(m, "sweepState")
  /\ service' = NoState
  /\ \/ /\ loc[m].op = "start"
        /\ Goto(m, "spawn") /\ UNCHANGED <<lock, procs, loc, result>>
     \/ loc[m].op = "stop" /\ Return(m, "stopped")
     \/ loc[m].op = "fail" /\ Return(m, "failed")
  /\ UNCHANGED <<ready, budget>>

(* subprocess.Popen.                                                       *)
Spawn(m) ==
  /\ At(m, "spawn")
  /\ \E p \in Pids :
       /\ procs[p].kind = "none"
       /\ procs' = [procs EXCEPT ![p] =
                      [Idle EXCEPT !.kind = "server", !.inst = loc[m].id,
                                   !.config = loc[m].config,
                                   !.parent = m]]
       /\ loc' = [loc EXCEPT ![m].pid = p, ![m].inst = loc[m].id]
  /\ Goto(m, "record")
  /\ UNCHANGED <<lock, files, result, budget>>

StateOf(m, status) == [pid |-> loc[m].pid, inst |-> loc[m].inst,
                       config |-> loc[m].config, status |-> status]

(* Mutant: the state is written without the pid.                           *)
RecordNoPid(m) ==
  /\ At(m, "record")
  /\ service' = [StateOf(m, "starting") EXCEPT !.pid = Nobody]
  /\ Goto(m, "wait")
  /\ UNCHANGED <<lock, ready, procs, loc, result, budget>>

Record(m) ==
  /\ At(m, "record")
  /\ service' = StateOf(m, "starting")
  /\ Goto(m, "wait")
  /\ UNCHANGED <<lock, ready, procs, loc, result, budget>>

(* The wait for the ready file: it is there.                               *)
SeeReady(m) ==
  /\ At(m, "wait") /\ loc[m].inst \in ready
  /\ Goto(m, "confirm")
  /\ UNCHANGED <<lock, files, procs, loc, result, budget>>

Confirm(m) ==
  /\ At(m, "confirm")
  /\ service' = StateOf(m, "running")
  /\ Return(m, "started")
  /\ UNCHANGED <<ready, budget>>

(* Mutant: a start that fails cleans up without ending its server.         *)
GiveUpLeaves(m) ==
  /\ pc[m] \in {"wait", "confirm"}
  /\ loc' = [loc EXCEPT ![m].op = "fail"]
  /\ Goto(m, "sweepReady")
  /\ UNCHANGED <<lock, files, procs, result, budget>>

(* The server exited, the deadline passed, or ^C: every BaseException.     *)
GiveUp(m) ==
  /\ pc[m] \in {"wait", "confirm"}
  /\ loc' = [loc EXCEPT ![m].op = "fail"]
  /\ IF Serves(loc[m].pid, loc[m].inst)
     THEN procs' = Signalled(loc[m].pid, "term") /\ Goto(m, "failWait")
     ELSE Goto(m, "sweepReady") /\ UNCHANGED procs
  /\ UNCHANGED <<lock, files, result, budget>>

(* process.wait(timeout=2.0), process.kill(), process.wait(timeout=2.0).   *)
FailWait(m) ==
  /\ pc[m] \in {"failWait", "failKillWait"}
  /\ ~Serves(loc[m].pid, loc[m].inst)
  /\ Goto(m, "sweepReady")
  /\ UNCHANGED <<lock, files, procs, loc, result, budget>>

FailKill(m) ==
  /\ At(m, "failWait")
  /\ Serves(loc[m].pid, loc[m].inst)
  /\ procs' = Signalled(loc[m].pid, "kill")
  /\ Goto(m, "failKillWait")
  /\ UNCHANGED <<lock, files, loc, result, budget>>

-----------------------------------------------------------------------------
(* _stop_replay, once it owns the pid                                      *)

Term(m) ==
  /\ At(m, "term")
  /\ procs' = Signalled(loc[m].pid, "term")
  /\ Goto(m, "stopWait")
  /\ UNCHANGED <<lock, files, loc, result, budget>>

(* Mutant: the stop does not wait for the server's end.                    *)
StopWaitNot(m) ==
  /\ pc[m] \in {"stopWait", "stopKillWait"}
  /\ Goto(m, "sweepReady")
  /\ UNCHANGED <<lock, files, procs, loc, result, budget>>

StopWait(m) ==
  /\ pc[m] \in {"stopWait", "stopKillWait"}
  /\ ~Live(loc[m].pid)
  /\ Goto(m, "sweepReady")
  /\ UNCHANGED <<lock, files, procs, loc, result, budget>>

(* Mutant: no deadline while another process has the pid.                  *)
RecheckOwn(m) ==
  /\ At(m, "stopWait")
  /\ Owner(loc[m].pid, loc[m].inst) # "different"
  /\ Goto(m, "kill")
  /\ UNCHANGED <<lock, files, procs, loc, result, budget>>

(* The five seconds are over and the pid lives: ownership is read again.   *)
(* Another owner is refused; a pid that died meanwhile is not noticed.     *)
Recheck(m) ==
  /\ At(m, "stopWait")
  /\ IF Owner(loc[m].pid, loc[m].inst) = "different"
     THEN Return(m, "refused")
     ELSE Goto(m, "kill") /\ UNCHANGED <<lock, procs, loc, result>>
  /\ UNCHANGED <<files, budget>>

(* Mutant: SIGTERM once more instead of SIGKILL.                           *)
KillGently(m) ==
  /\ At(m, "kill")
  /\ IF Live(loc[m].pid)
     THEN /\ procs' = Signalled(loc[m].pid, "term")
          /\ Goto(m, "stopKillWait")
          /\ UNCHANGED <<lock, loc, result>>
     ELSE Return(m, "uncaught")
  /\ UNCHANGED <<files, budget>>

(* os.kill(pid, SIGKILL): with nobody there, an error nothing catches.     *)
Kill(m) ==
  /\ At(m, "kill")
  /\ IF Live(loc[m].pid)
     THEN /\ procs' = Signalled(loc[m].pid, "kill")
          /\ Goto(m, "stopKillWait")
          /\ UNCHANGED <<lock, loc, result>>
     ELSE Return(m, "uncaught")
  /\ UNCHANGED <<files, budget>>

(* Another process has the killed server's pid: "did not stop".            *)
PidTaken(m) ==
  /\ At(m, "stopKillWait")
  /\ Owner(loc[m].pid, loc[m].inst) = "different"
  /\ Return(m, "failed")
  /\ UNCHANGED <<files, budget>>

-----------------------------------------------------------------------------
(* Faults                                                                  *)

(* A SIGKILL has no effect for two seconds: the files are left as they are.*)
KillTooSlow(m) ==
  /\ pc[m] \in {"failKillWait", "stopKillWait"}
  /\ Serves(loc[m].pid, loc[m].inst)
  /\ budget.faults > 0
  /\ budget' = [budget EXCEPT !.faults = @ - 1]
  /\ Return(m, "failed")
  /\ UNCHANGED files

(* The manager is killed, or an error of a file operation ends it.         *)
Crash(m) ==
  /\ ~At(m, "idle") /\ budget.faults > 0
  /\ budget' = [budget EXCEPT !.faults = @ - 1]
  /\ Return(m, "crashed")
  /\ UNCHANGED files

-----------------------------------------------------------------------------
Init ==
  /\ lock = Nobody
  /\ service = NoState
  /\ ready = {}
  /\ procs = [p \in Pids |-> Idle]
  /\ pc = [m \in Managers |-> "idle"]
  /\ loc = [m \in Managers |-> Fresh]
  /\ result = [m \in Managers |-> "none"]
  /\ budget = [ops |-> MaxOps, foreign |-> MaxForeign,
               deaths |-> MaxDeaths, faults |-> MaxFaults]

ManagerStep(m) ==
  \/ Check(m) \/ SweepReady(m) \/ SweepState(m) \/ Spawn(m) \/ Record(m)
  \/ SeeReady(m) \/ Confirm(m) \/ GiveUp(m) \/ FailWait(m) \/ FailKill(m)
  \/ Term(m) \/ StopWait(m) \/ Recheck(m) \/ Kill(m) \/ PidTaken(m)

ServerStep(p) == Bind(p) \/ Publish(p) \/ TakeTerm(p) \/ Close(p) \/ TakeKill(p)

Environment(p) == Die(p) \/ ForeignStarts(p) \/ ForeignEnds(p)

Next ==
  \/ \E m \in Managers :
       \/ \E c \in Configs : Request(m, "start", c)
       \/ Request(m, "stop", Nobody)
       \/ Acquire(m) \/ ManagerStep(m) \/ KillTooSlow(m) \/ Crash(m)
  \/ \E p \in Pids : ServerStep(p) \/ Environment(p)

Spec == Init /\ [][Next]_vars

(* Scheduling: timed waits end, the kernel hands the lock to each waiting  *)
(* manager in its turn, and SIGKILL kills. A server need not get to a      *)
(* SIGTERM, and other processes promise nothing.                           *)
Fairness ==
  /\ \A m \in Managers : WF_vars(ManagerStep(m)) /\ SF_vars(Acquire(m))
  /\ \A p \in Pids : WF_vars(TakeKill(p))

FairSpec == Spec /\ Fairness

-----------------------------------------------------------------------------
(* Properties                                                              *)

(* Every variable has its type.                                            *)
Steps == {"idle", "lock", "check", "sweepReady", "sweepState", "spawn",
          "record", "wait", "confirm", "failWait", "failKillWait",
          "term", "stopWait", "kill", "stopKillWait"}
Results == {"none", "started", "already", "other", "refused", "stopped",
            "notRunning", "failed", "uncaught", "crashed"}

TypeOK ==
  /\ lock \in Managers \cup {Nobody}
  /\ service \in {NoState} \cup
       [pid: Pids, inst: Instances, config: Configs, status: {"starting", "running"}]
  /\ ready \subseteq Instances
  /\ procs \in [Pids -> Process]
  /\ pc \in [Managers -> Steps]
  /\ loc \in [Managers -> [op: {"none", "start", "stop", "fail"},
                          id: {0} \cup Instances, config: Configs \cup {Nobody},
                          pid: Pids \cup {Nobody}, inst: {0} \cup Instances]]
  /\ result \in [Managers -> Results]
  /\ budget \in [ops: 0..MaxOps, foreign: 0..MaxForeign,
                 deaths: 0..MaxDeaths, faults: 0..MaxFaults]

Servers == {p \in Pids : procs[p].kind = "server"}

(* However starts and stops interleave, there is one server at most; every *)
(* manager that dies and every SIGKILL that comes too late can cost one.   *)
OneServicePerFault ==
  Cardinality(Servers) <= 1 + (MaxFaults - budget.faults)

(* The state file is the only way to find the service: it is not removed   *)
(* or replaced while the server it names is alive.                         *)
StateOutlivesServer ==
  [][service'.inst # service.inst => ~Alive(service.inst)]_vars

(* The ownership check: a process that took its pid while no manager held  *)
(* the lock is never sent a signal. One that takes a pid while the lock is *)
(* held, between the check and the signal of its holder, is outside of it. *)
OldForeignSafe ==
  \A p \in Pids : procs[p].kind = "foreign" /\ procs[p].parent = Nobody
                    => procs[p].sig = "none"

(* No manager has died and no SIGKILL came too late so far.                *)
NoFault == budget.faults = MaxFaults

(* Then, with the lock free and no state file, nothing is left behind: no  *)
(* server, and no ready file that a later reader could take for one.       *)
NothingLeft ==
  NoFault /\ lock = Nobody /\ service = NoState => Servers = {} /\ ready = {}

(* What is running, or left behind, is accounted for by the faults.        *)
ServiceSound == TypeOK /\ OneServicePerFault /\ NothingLeft

Ends(m, rs) == result'[m] # result[m] /\ result'[m] \in rs

(* And a start that succeeds, its own or one that finds the service        *)
(* running, leaves a state file with the requested configuration, and its  *)
(* server has bound its socket and said so.                                *)
StartedIsReady ==
  [][\A m \in Managers : NoFault /\ Ends(m, {"started", "already"}) =>
       /\ service'.config = loc[m].config
       /\ service'.status = "running" /\ service'.inst \in ready']_vars

(* No start or stop hangs, whatever happens to servers and pids.           *)
OperationsEnd ==
  \A m \in Managers : ~At(m, "idle") ~> At(m, "idle")

(* A stop that has found its server ends it, unless the manager dies.      *)
StopEndsServer ==
  \A i \in Instances :
    (\E m \in Managers : At(m, "stopWait") /\ loc[m].inst = i)
      ~> ~Alive(i) \/ ~NoFault
=============================================================================
