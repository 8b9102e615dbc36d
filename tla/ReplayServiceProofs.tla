------------------------ MODULE ReplayServiceProofs ------------------------
(***************************************************************************)
(* The safety of the Replay service for any number of managers, pids,      *)
(* configurations, operations, foreign processes, deaths and faults.       *)
(* Fairness plays no part.                                                 *)
(***************************************************************************)
EXTENDS ReplayService, FiniteSetTheorems, TLAPS

(* The places at which a manager watches the server the state file names.  *)
Watching == {"wait", "confirm", "failWait", "failKillWait", "term",
             "stopWait", "kill", "stopKillWait"}
Stopping == {"term", "stopWait", "kill", "stopKillWait"}
Sweeping == {"sweepReady", "sweepState"}

Holding(m) == pc[m] \notin {"idle", "lock"}

(* Who is past the lock has it, and only who has it is past it.            *)
LockInv == \A m \in Managers : lock = m <=> Holding(m)

(* What a manager remembers at each place.                                 *)
LocInv == \A m \in Managers :
  /\ pc[m] # "idle" => loc[m].id \in Instances /\ loc[m].id > budget.ops
  /\ pc[m] \in {"lock", "check"} => loc[m].op \in {"start", "stop"}
  /\ pc[m] \in {"spawn", "record", "wait", "confirm"} => loc[m].op = "start"
  /\ pc[m] \in {"failWait", "failKillWait"} => loc[m].op = "fail"
  /\ pc[m] \in Stopping => loc[m].op = "stop"
  /\ loc[m].op = "start" => loc[m].config \in Configs
  /\ pc[m] \in Watching \cup {"record"} =>
       loc[m].pid \in Pids /\ loc[m].inst \in Instances

(* Each operation has an instance id of its own.                           *)
IdInv == \A m, n \in Managers :
  pc[m] # "idle" /\ pc[n] # "idle" /\ loc[m].id = loc[n].id => m = n

(* Servers run instances that were requested; a pid without a live process *)
(* has no signal pending.                                                  *)
ProcInv == \A p \in Pids :
  /\ procs[p].kind = "server" =>
       procs[p].inst \in Instances /\ procs[p].inst > budget.ops
  /\ ~Live(p) => procs[p].sig = "none"

(* The instance of a start that has not spawned runs nowhere.              *)
FreshInv == \A m \in Managers :
  /\ loc[m].op = "start"
  /\ pc[m] \in Sweeping \cup {"lock", "check", "spawn"}
  => ~Alive(loc[m].id)

(* The state file names one process at most, and who works on a service    *)
(* works on the one it names.                                              *)
NameInv ==
  /\ service # NoState =>
       \A p \in Pids : Serves(p, service.inst) => p = service.pid
  /\ \A m \in Managers :
       /\ pc[m] \in {"spawn", "record"} => service = NoState
       /\ pc[m] = "record" =>
            \A p \in Pids : Serves(p, loc[m].inst) => p = loc[m].pid
       /\ pc[m] \in Watching \cup Sweeping =>
            service # NoState /\ service.inst = loc[m].inst
       /\ pc[m] \in Watching => service.pid = loc[m].pid
       /\ pc[m] \in Sweeping => ~Alive(loc[m].inst)

(* A process that takes the pid a stop has checked starts under its lock.  *)
ForeignInv ==
  /\ OldForeignSafe
  /\ \A m \in Managers :
       pc[m] \in Stopping /\ procs[loc[m].pid].kind = "foreign"
         => procs[loc[m].pid].parent = m

(* The instances somebody can still find.                                  *)
Named(i) ==
  \/ service # NoState /\ i = service.inst
  \/ \E m \in Managers : At(m, "record") /\ i = loc[m].inst

Stray == {p \in Servers : ~Named(procs[p].inst)}

(* Each server that nobody can find has cost a fault.                      *)
StrayInv == Cardinality(Stray) <= MaxFaults - budget.faults

(* Without a fault, ready files are those of instances that can be found.  *)
LeftInv == NoFault =>
  /\ \A i \in ready : Named(i)
  /\ \A m \in Managers : At(m, "sweepState") => ready = {}

(* Nobody ends a server whose start is under way, and a server that can be *)
(* found running has said that it is ready.                                *)
ReadyInv ==
  /\ \A m \in Managers :
       /\ pc[m] \in {"record", "wait", "confirm"} =>
            \A p \in Pids : Serves(p, loc[m].inst) =>
              procs[p].sig = "none" /\ procs[p].stage # "closing"
       /\ pc[m] = "confirm" => loc[m].inst \in ready
  /\ NoFault /\ (\A m \in Managers : Holding(m) => At(m, "check"))
       /\ Alive(service.inst)
     => service.status = "running" /\ service.inst \in ready

IInv ==
  /\ TypeOK /\ LockInv /\ LocInv /\ IdInv /\ ProcInv /\ FreshInv /\ NameInv
  /\ ForeignInv /\ StrayInv /\ LeftInv /\ ReadyInv

-----------------------------------------------------------------------------
(* What the operations on processes leave alone                            *)

(* A signal changes nothing but sig, and only that of its live receiver.   *)
LEMMA SignalledFacts ==
  ASSUME procs \in [Pids -> Process], NEW p \in Pids, NEW s \in {"term", "kill"}
  PROVE  /\ Signalled(p, s) \in [Pids -> Process]
         /\ \A q \in Pids :
              LET new == Signalled(p, s)[q] IN
              /\ new.kind = procs[q].kind /\ new.inst = procs[q].inst
              /\ new.stage = procs[q].stage /\ new.parent = procs[q].parent
              /\ q # p \/ ~Live(p) => new = procs[q]
  BY DEF Signalled, Live, Process

(* A process that ends is gone, or waits for its parent as a zombie.       *)
LEMMA ExitedFacts ==
  ASSUME procs \in [Pids -> Process], NEW p \in Pids
  PROVE  /\ Exited(p) \in [Pids -> Process]
         /\ Exited(p)[p].kind \in {"none", "zombie"} /\ Exited(p)[p].sig = "none"
         /\ \A q \in Pids \ {p} : Exited(p)[q] = procs[q]
  BY DEF Exited, Idle, Process

(* The end of a manager changes servers in their parent only, and others   *)
(* only in that its zombies are reaped.                                    *)
LEMMA OrphanedFacts ==
  ASSUME procs \in [Pids -> Process], NEW m \in Managers
  PROVE  /\ Orphaned(m) \in [Pids -> Process]
         /\ \A q \in Pids :
              LET new == Orphaned(m)[q] IN
              /\ \/ new.kind = procs[q].kind
                 \/ procs[q].kind = "zombie" /\ new = Idle
              /\ procs[q].kind = "server" =>
                   /\ new.inst = procs[q].inst /\ new.stage = procs[q].stage
                   /\ new.sig = procs[q].sig
              /\ procs[q].kind \in {"none", "foreign"} => new = procs[q]
<1> DEFINE new(q) == Orphaned(m)[q]
<1> SUFFICES ASSUME NEW q \in Pids
             PROVE  /\ new(q) \in Process
                    /\ \/ new(q).kind = procs[q].kind
                       \/ procs[q].kind = "zombie" /\ new(q) = Idle
                    /\ procs[q].kind = "server" =>
                         /\ new(q).inst = procs[q].inst
                         /\ new(q).stage = procs[q].stage
                         /\ new(q).sig = procs[q].sig
                    /\ procs[q].kind \in {"none", "foreign"} => new(q) = procs[q]
  BY Zenon DEF Orphaned
<1>1. new(q) = IF procs[q].kind = "zombie" /\ procs[q].parent = m THEN Idle
               ELSE IF procs[q].kind = "server" /\ procs[q].parent = m
               THEN [procs[q] EXCEPT !.parent = Nobody] ELSE procs[q]
  BY Zenon DEF Orphaned
<1>2. Idle \in Process
  BY DEF Idle, Process
<1>3. procs[q] \in Process
  OBVIOUS
<1> HIDE DEF new
<1>4. CASE procs[q].kind = "zombie" /\ procs[q].parent = m
  BY <1>1, <1>2, <1>4, Zenon
<1>5. CASE procs[q].kind = "server" /\ procs[q].parent = m
  <2>1. new(q) = [procs[q] EXCEPT !.parent = Nobody]
    BY <1>1, <1>5, Zenon
  <2> QED
    BY <1>3, <1>5, <2>1 DEF Process
<1>6. CASE /\ ~(procs[q].kind = "zombie" /\ procs[q].parent = m)
           /\ ~(procs[q].kind = "server" /\ procs[q].parent = m)
  BY <1>1, <1>3, <1>6, Zenon
<1> QED
  BY <1>4, <1>5, <1>6

(* A server gets on with main().                                           *)
LEMMA StagedFacts ==
  ASSUME procs \in [Pids -> Process], NEW p \in Pids,
         NEW s \in {"bound", "ready"},
         procs' = [procs EXCEPT ![p].stage = s]
  PROVE  /\ procs' \in [Pids -> Process]
         /\ procs'[p].kind = procs[p].kind /\ procs'[p].inst = procs[p].inst
         /\ procs'[p].sig = procs[p].sig /\ procs'[p].stage = s
         /\ \A q \in Pids \ {p} : procs'[q] = procs[q]
  BY DEF Process

(* It takes the SIGTERM.                                                   *)
LEMMA ClosingFacts ==
  ASSUME procs \in [Pids -> Process], NEW p \in Pids,
         procs' = [procs EXCEPT ![p].stage = "closing", ![p].sig = "none"]
  PROVE  /\ procs' \in [Pids -> Process]
         /\ procs'[p].kind = procs[p].kind /\ procs'[p].inst = procs[p].inst
         /\ procs'[p].sig = "none"
         /\ \A q \in Pids \ {p} : procs'[q] = procs[q]
<1> DEFINE old == procs[p]
           new == [old EXCEPT !.stage = "closing", !.sig = "none"]
<1>1. procs' = [procs EXCEPT ![p] = new]
  BY Zenon
<1>2. old \in Process
  OBVIOUS
<1>3. /\ new \in Process /\ new.kind = old.kind /\ new.inst = old.inst
      /\ new.sig = "none"
  <2> HIDE DEF old
  <2> QED
    BY <1>2 DEF Process
<1> HIDE DEF new
<1> QED
  BY <1>1, <1>3

(* Another program gets the pid.                                           *)
LEMMA ForeignFacts ==
  ASSUME procs \in [Pids -> Process], lock \in Managers \cup {Nobody},
         NEW p \in Pids,
         procs' = [procs EXCEPT ![p].kind = "foreign", ![p].parent = lock]
  PROVE  /\ procs' \in [Pids -> Process]
         /\ procs'[p].kind = "foreign" /\ procs'[p].parent = lock
         /\ procs'[p].sig = procs[p].sig
         /\ \A q \in Pids \ {p} : procs'[q] = procs[q]
<1> DEFINE old == procs[p]
           new == [old EXCEPT !.kind = "foreign", !.parent = lock]
<1>1. procs' = [procs EXCEPT ![p] = new]
  BY Zenon
<1>2. old \in Process
  OBVIOUS
<1>3. /\ new \in Process /\ new.kind = "foreign" /\ new.sig = old.sig
      /\ new.parent = lock
  <2> HIDE DEF old
  <2> QED
    BY <1>2 DEF Process
<1> HIDE DEF new
<1> QED
  BY <1>1, <1>3

(* A free pid.                                                             *)
LEMMA IdleFacts ==
  /\ Idle \in Process
  /\ Idle.kind = "none" /\ Idle.sig = "none" /\ Idle.stage = "loading"
  BY DEF Idle, Process

(* The server of a start, in full.                                         *)
LEMMA SpawnedFacts ==
  ASSUME procs \in [Pids -> Process], NEW p \in Pids, NEW i \in Instances,
         NEW c \in Configs, NEW m \in Managers,
         procs' = [procs EXCEPT ![p] =
                     [Idle EXCEPT !.kind = "server", !.inst = i,
                                  !.config = c, !.parent = m]]
  PROVE  /\ procs' \in [Pids -> Process]
         /\ procs'[p].kind = "server" /\ procs'[p].inst = i
         /\ procs'[p].sig = "none" /\ procs'[p].stage = "loading"
         /\ \A q \in Pids \ {p} : procs'[q] = procs[q]
  BY IdleFacts DEF Process

-----------------------------------------------------------------------------
(* What a step does to a process                                           *)

Kept(q) ==
  /\ procs'[q].kind = procs[q].kind /\ procs'[q].inst = procs[q].inst
  /\ procs'[q].sig = procs[q].sig /\ procs'[q].stage = procs[q].stage
  /\ procs[q].kind = "foreign" => procs'[q].parent = procs[q].parent

Ended(q) == procs'[q].kind \in {"none", "zombie"} /\ procs'[q].sig = "none"

(* A server gets on; only SIGTERM makes it close.                          *)
Advanced(q) ==
  /\ procs[q].kind = "server" /\ procs'[q].kind = "server"
  /\ procs'[q].inst = procs[q].inst
  /\ procs'[q].sig \in {procs[q].sig, "none"}
  /\ procs'[q].stage = "closing" => procs[q].sig = "term"

Started(q) ==
  /\ ~Live(q) /\ procs'[q].kind = "foreign"
  /\ procs'[q].sig = procs[q].sig /\ procs'[q].parent = lock

SignalledBy(m, q) ==
  /\ pc[m] \in {"wait", "confirm", "failWait", "term", "kill"}
  /\ pc'[m] \in {"failWait", "failKillWait", "stopWait", "stopKillWait"}
  /\ q = loc[m].pid /\ Live(q)
  /\ procs[q].kind = "server" \/ pc[m] \in Stopping
  /\ procs'[q].kind = procs[q].kind /\ procs'[q].inst = procs[q].inst
  /\ procs'[q].parent = procs[q].parent

SpawnedBy(m, q) ==
  /\ pc[m] = "spawn" /\ pc'[m] = "record" /\ q = loc'[m].pid
  /\ ~Live(q) /\ procs'[q].kind = "server" /\ procs'[q].inst = loc[m].id
  /\ procs'[q].sig = "none" /\ procs'[q].stage = "loading"

Effect(q) ==
  \/ Kept(q) \/ Ended(q) \/ Advanced(q) \/ Started(q)
  \/ \E m \in Managers : SignalledBy(m, q) \/ SpawnedBy(m, q)

ProcsStep == procs' \in [Pids -> Process] /\ \A q \in Pids : Effect(q)

(* A step that leaves the processes alone.                                 *)
LEMMA Unchanged ==
  ASSUME procs \in [Pids -> Process], procs' = procs
  PROVE  ProcsStep
  BY DEF ProcsStep, Effect, Kept

(* The end of a manager.                                                   *)
LEMMA Returned ==
  ASSUME procs \in [Pids -> Process], NEW m \in Managers, procs' = Orphaned(m)
  PROVE  ProcsStep
<1>1. procs' \in [Pids -> Process]
  BY OrphanedFacts, Zenon
<1>2. ASSUME NEW q \in Pids PROVE Kept(q) \/ Ended(q)
  <2>1. CASE procs[q].kind = "server"
    BY <2>1, OrphanedFacts DEF Kept
  <2>2. CASE procs[q].kind \in {"none", "foreign"}
    BY <2>2, OrphanedFacts DEF Kept
  <2>3. CASE procs[q].kind = "zombie"
    <3>1. procs'[q] = procs[q] \/ procs'[q] = Idle
      BY <2>3 DEF Orphaned
    <3> QED
      BY <3>1, IdleFacts DEF Kept, Ended
  <2> QED
    BY <2>1, <2>2, <2>3 DEF Process
<1> QED
  BY <1>1, <1>2 DEF ProcsStep, Effect

(* The end of a process.                                                   *)
LEMMA EndedStep ==
  ASSUME procs \in [Pids -> Process], NEW p \in Pids, procs' = Exited(p)
  PROVE  ProcsStep
<1>1. procs' \in [Pids -> Process]
  BY ExitedFacts, Zenon
<1>2. Ended(p)
  BY ExitedFacts, Zenon DEF Ended
<1>3. ASSUME NEW q \in Pids \ {p} PROVE Kept(q)
  BY ExitedFacts, Zenon DEF Kept
<1> QED
  BY <1>1, <1>2, <1>3 DEF ProcsStep, Effect

(* A signal from a manager.                                                *)
LEMMA SignalStep ==
  ASSUME procs \in [Pids -> Process], NEW m \in Managers,
         NEW s \in {"term", "kill"},
         loc[m].pid \in Pids, procs' = Signalled(loc[m].pid, s),
         pc[m] \in {"wait", "confirm", "failWait", "term", "kill"},
         procs[loc[m].pid].kind = "server" \/ pc[m] \in Stopping,
         pc'[m] \in {"failWait", "failKillWait", "stopWait", "stopKillWait"}
  PROVE  ProcsStep
<1> DEFINE p == loc[m].pid
<1>1. procs' \in [Pids -> Process]
  BY SignalledFacts, Zenon
<1>2. CASE Live(p)
  <2>1. SignalledBy(m, p)
    BY <1>2, SignalledFacts DEF SignalledBy
  <2>2. ASSUME NEW q \in Pids \ {p} PROVE Kept(q)
    <3>1. procs'[q] = procs[q]
      BY SignalledFacts, Zenon
    <3> QED
      BY <3>1 DEF Kept
  <2> QED
    BY <1>1, <2>1, <2>2 DEF ProcsStep, Effect
<1>3. CASE ~Live(p)
  BY <1>3, Unchanged DEF Signalled
<1> QED
  BY <1>2, <1>3

(* Each step does one of these to each process.                            *)
LEMMA ProcessStep == IInv /\ [Next]_vars => ProcsStep
<1> SUFFICES ASSUME IInv, [Next]_vars PROVE ProcsStep
  OBVIOUS
<1>1. /\ procs \in [Pids -> Process] /\ lock \in Managers \cup {Nobody}
      /\ pc \in [Managers -> Steps]
  BY DEF IInv, TypeOK
<1>2. ASSUME NEW m \in Managers,
             \/ Acquire(m) \/ SweepReady(m) \/ Record(m) \/ SeeReady(m)
             \/ FailWait(m) \/ StopWait(m) \/ \E o, c : Request(m, o, c)
      PROVE  ProcsStep
  BY <1>1, <1>2, Unchanged
  DEF Acquire, SweepReady, Record, SeeReady, FailWait, StopWait, Request, files
<1>3. ASSUME NEW m \in Managers,
             \/ Check(m) \/ SweepState(m) \/ Confirm(m) \/ Recheck(m)
             \/ PidTaken(m) \/ KillTooSlow(m) \/ Crash(m)
      PROVE  ProcsStep
  <2>1. procs' = procs \/ procs' = Orphaned(m)
    BY <1>3
    DEF Check, SweepState, Confirm, Recheck, PidTaken, KillTooSlow, Crash,
        Return, FoundNothing, FoundRunning, FoundDead
  <2> QED
    BY <1>1, <2>1, Unchanged, Returned
<1>4. ASSUME NEW m \in Managers, GiveUp(m) \/ FailKill(m) \/ Term(m) \/ Kill(m)
      PROVE  ProcsStep
  <2>1. loc[m].pid \in Pids
    BY <1>4 DEF IInv, LocInv, Watching, GiveUp, FailKill, Term, Kill, At
  <2>2. CASE GiveUp(m)
    BY <1>1, <2>1, <2>2, Unchanged, SignalStep DEF GiveUp, Goto, Serves
  <2>3. CASE FailKill(m) \/ Term(m)
    BY <1>1, <2>1, <2>3, SignalStep
    DEF FailKill, Term, Goto, At, Serves, Stopping
  <2>4. CASE Kill(m)
    <3>1. CASE Live(loc[m].pid)
      BY <1>1, <2>1, <2>4, <3>1, SignalStep DEF Kill, Goto, At, Stopping
    <3>2. CASE ~Live(loc[m].pid)
      BY <1>1, <2>4, <3>2, Returned DEF Kill, Return
    <3> QED
      BY <3>1, <3>2
  <2> QED
    BY <1>4, <2>2, <2>3, <2>4
<1>5. ASSUME NEW m \in Managers, Spawn(m)
      PROVE  ProcsStep
  <2>1. loc[m].id \in Instances /\ loc[m].config \in Configs
    BY <1>5 DEF IInv, LocInv, Spawn, At
  <2>2. PICK p \in Pids :
          /\ procs[p].kind = "none"
          /\ procs' = [procs EXCEPT ![p] =
                         [Idle EXCEPT !.kind = "server", !.inst = loc[m].id,
                                      !.config = loc[m].config, !.parent = m]]
          /\ loc' = [loc EXCEPT ![m].pid = p, ![m].inst = loc[m].id]
    BY <1>5, Zenon DEF Spawn
  <2>3. loc'[m].pid = p
    BY <2>2 DEF IInv, TypeOK
  <2>4. /\ procs' \in [Pids -> Process]
        /\ procs'[p].kind = "server" /\ procs'[p].inst = loc[m].id
        /\ procs'[p].sig = "none" /\ procs'[p].stage = "loading"
        /\ \A q \in Pids \ {p} : procs'[q] = procs[q]
    BY <1>1, <2>1, <2>2, SpawnedFacts, Zenon
  <2>5. pc[m] = "spawn" /\ pc'[m] = "record"
    BY <1>1, <1>5 DEF Spawn, At, Goto
  <2>6. SpawnedBy(m, p)
    BY <2>2, <2>3, <2>4, <2>5 DEF SpawnedBy, Live
  <2>7. ASSUME NEW q \in Pids \ {p} PROVE Kept(q)
    BY <2>4, Zenon DEF Kept
  <2> QED
    BY <2>4, <2>6, <2>7 DEF ProcsStep, Effect
<1>6. ASSUME NEW p \in Pids, Bind(p) \/ Publish(p) \/ TakeTerm(p)
      PROVE  ProcsStep
  <2>1. procs[p].kind = "server"
    BY <1>6 DEF Bind, Publish, TakeTerm
  <2>2. ASSUME NEW s \in {"bound", "ready"},
               procs' = [procs EXCEPT ![p].stage = s]
        PROVE  ProcsStep
    <3>1. /\ procs' \in [Pids -> Process]
          /\ procs'[p].kind = procs[p].kind /\ procs'[p].inst = procs[p].inst
          /\ procs'[p].sig = procs[p].sig /\ procs'[p].stage = s
          /\ \A q \in Pids \ {p} : procs'[q] = procs[q]
      BY <1>1, <2>2, StagedFacts, Zenon
    <3>2. Advanced(p)
      BY <2>1, <2>2, <3>1 DEF Advanced
    <3>3. ASSUME NEW q \in Pids \ {p} PROVE Kept(q)
      BY <3>1, Zenon DEF Kept
    <3> QED
      BY <3>1, <3>2, <3>3 DEF ProcsStep, Effect
  <2>3. ASSUME procs' = [procs EXCEPT ![p].stage = "closing", ![p].sig = "none"],
               procs[p].sig = "term"
        PROVE  ProcsStep
    <3>1. /\ procs' \in [Pids -> Process]
          /\ procs'[p].kind = procs[p].kind /\ procs'[p].inst = procs[p].inst
          /\ procs'[p].sig = "none"
          /\ \A q \in Pids \ {p} : procs'[q] = procs[q]
      BY <1>1, <2>3, ClosingFacts, Zenon
    <3>2. Advanced(p)
      BY <2>1, <2>3, <3>1 DEF Advanced
    <3>3. ASSUME NEW q \in Pids \ {p} PROVE Kept(q)
      BY <3>1, Zenon DEF Kept
    <3> QED
      BY <3>1, <3>2, <3>3 DEF ProcsStep, Effect
  <2> QED
    BY <1>1, <1>6, <2>2, <2>3, EndedStep DEF Bind, Publish, TakeTerm
<1>7. ASSUME NEW p \in Pids,
             Close(p) \/ TakeKill(p) \/ Die(p) \/ ForeignEnds(p)
      PROVE  ProcsStep
  BY <1>1, <1>7, EndedStep DEF Close, TakeKill, Die, ForeignEnds
<1>8. ASSUME NEW p \in Pids, ForeignStarts(p)
      PROVE  ProcsStep
  <2>1. procs[p].kind = "none"
        /\ procs' = [procs EXCEPT ![p].kind = "foreign", ![p].parent = lock]
    BY <1>8 DEF ForeignStarts
  <2>2. /\ procs' \in [Pids -> Process]
        /\ procs'[p].kind = "foreign" /\ procs'[p].parent = lock
        /\ procs'[p].sig = procs[p].sig
        /\ \A q \in Pids \ {p} : procs'[q] = procs[q]
    BY <1>1, <2>1, ForeignFacts, Zenon
  <2>3. Started(p)
    BY <2>1, <2>2 DEF Started, Live
  <2>4. ASSUME NEW q \in Pids \ {p} PROVE Kept(q)
    BY <2>2, Zenon DEF Kept
  <2> QED
    BY <2>2, <2>3, <2>4 DEF ProcsStep, Effect
<1>9. CASE UNCHANGED vars
  BY <1>1, <1>9, Unchanged DEF vars
<1> QED
  BY <1>2, <1>3, <1>4, <1>5, <1>6, <1>7, <1>8, <1>9
  DEF Next, ManagerStep, ServerStep, Environment

-----------------------------------------------------------------------------
(* Types: what a step does to them                                         *)

(* TypeOK by parts.                                                        *)
FlowType ==
  /\ lock \in Managers \cup {Nobody}
  /\ pc \in [Managers -> Steps]
  /\ result \in [Managers -> Results]

Local == [op: {"none", "start", "stop", "fail"},
          id: {0} \cup Instances, config: Configs \cup {Nobody},
          pid: Pids \cup {Nobody}, inst: {0} \cup Instances]
LocType == loc \in [Managers -> Local]

FilesType ==
  /\ service \in {NoState} \cup
       [pid: Pids, inst: Instances, config: Configs, status: {"starting", "running"}]
  /\ ready \subseteq Instances

BudgetType == budget \in [ops: 0..MaxOps, foreign: 0..MaxForeign,
                 deaths: 0..MaxDeaths, faults: 0..MaxFaults]
(* A manager at rest remembers nothing; records keep their type.           *)
LEMMA FreshFacts == Fresh \in Local
  BY DEF Fresh, Local

(* What the state file names is a pid and an instance.                     *)
LEMMA StateFacts ==
  TypeOK /\ service # NoState => service.pid \in Pids /\ service.inst \in Instances
  BY DEF TypeOK

(* A manager may take them over.                                           *)
LEMMA LocalFacts ==
  ASSUME loc \in [Managers -> Local], NEW m \in Managers, NEW p \in Pids,
         NEW i \in Instances,
         loc' = [loc EXCEPT ![m].pid = p, ![m].inst = i]
  PROVE  loc' \in [Managers -> Local]
  BY DEF Local

(* What a manager remembers after it has looked for the service.           *)
LEMMA CheckType ==
  ASSUME TypeOK, NEW m \in Managers, Check(m)
  PROVE  loc' \in [Managers -> Local]
<1>1. loc \in [Managers -> Local]
  BY DEF TypeOK, Local
<1>2. CASE loc' = loc \/ loc' = [loc EXCEPT ![m] = Fresh]
  BY <1>1, <1>2, FreshFacts
<1>3. CASE /\ service # NoState
           /\ loc' = [loc EXCEPT ![m].pid = service.pid, ![m].inst = service.inst]
  BY <1>1, <1>3, StateFacts, LocalFacts, Zenon
<1>4. CASE service # NoState /\ loc' = [loc EXCEPT ![m].inst = service.inst]
  BY <1>1, <1>4, StateFacts DEF Local
<1>5. CASE service = NoState
  BY <1>2, <1>5, Zenon DEF Check, FoundNothing, Return
<1>6. CASE service # NoState
  <2>1. FoundRunning(m) \/ FoundDead(m) \/ Return(m, "refused")
    BY <1>6 DEF Check
  <2> QED
    BY <1>2, <1>3, <1>4, <1>6, <2>1 DEF FoundRunning, FoundDead, Return
<1> QED
  BY <1>5, <1>6

(* The lock, the places of the managers and their results.                 *)
LEMMA FlowStep == IInv /\ [Next]_vars => FlowType'
<1> SUFFICES ASSUME IInv, [Next]_vars PROVE FlowType'
  OBVIOUS
<1> USE DEF IInv, TypeOK, FlowType, Steps, Results, At, Goto, Return,
    ServerUnchanged, FoundRunning, FoundDead, FoundNothing, files
<1>1. ASSUME NEW m \in Managers, NEW o \in {"start", "stop"},
             NEW c \in Configs \cup {Nobody}, Request(m, o, c),
             o = "start" => c \in Configs
      PROVE  FlowType'
  BY <1>1 DEF Request
<1>2. ASSUME NEW m \in Managers, Acquire(m) PROVE FlowType'
  BY <1>2 DEF Acquire
<1>3. ASSUME NEW m \in Managers, Check(m) PROVE FlowType'
  BY <1>3 DEF Check
<1>4. ASSUME NEW m \in Managers, SweepReady(m) PROVE FlowType'
  BY <1>4 DEF SweepReady
<1>5. ASSUME NEW m \in Managers, SweepState(m) PROVE FlowType'
  BY <1>5 DEF SweepState
<1>6. ASSUME NEW m \in Managers, Spawn(m) PROVE FlowType'
  BY <1>6 DEF Spawn
<1>7. ASSUME NEW m \in Managers, Record(m) PROVE FlowType'
  BY <1>7 DEF Record
<1>8. ASSUME NEW m \in Managers, SeeReady(m) PROVE FlowType'
  BY <1>8 DEF SeeReady
<1>9. ASSUME NEW m \in Managers, Confirm(m) PROVE FlowType'
  BY <1>9 DEF Confirm
<1>10. ASSUME NEW m \in Managers, GiveUp(m) PROVE FlowType'
  BY <1>10 DEF GiveUp
<1>11. ASSUME NEW m \in Managers, FailWait(m) PROVE FlowType'
  BY <1>11 DEF FailWait
<1>12. ASSUME NEW m \in Managers, FailKill(m) PROVE FlowType'
  BY <1>12 DEF FailKill
<1>13. ASSUME NEW m \in Managers, Term(m) PROVE FlowType'
  BY <1>13 DEF Term
<1>14. ASSUME NEW m \in Managers, StopWait(m) PROVE FlowType'
  BY <1>14 DEF StopWait
<1>15. ASSUME NEW m \in Managers, Recheck(m) PROVE FlowType'
  BY <1>15 DEF Recheck
<1>16. ASSUME NEW m \in Managers, Kill(m) PROVE FlowType'
  BY <1>16 DEF Kill
<1>17. ASSUME NEW m \in Managers, PidTaken(m) PROVE FlowType'
  BY <1>17 DEF PidTaken
<1>18. ASSUME NEW m \in Managers, KillTooSlow(m) PROVE FlowType'
  BY <1>18 DEF KillTooSlow
<1>19. ASSUME NEW m \in Managers, Crash(m) PROVE FlowType'
  BY <1>19 DEF Crash
<1>20. ASSUME NEW p \in Pids, ServerStep(p) \/ Environment(p)
      PROVE  FlowType'
  BY <1>20 DEF ServerStep, Environment, Bind, Publish, TakeTerm, Close,
      TakeKill, Die, ForeignStarts, ForeignEnds
<1>21. CASE UNCHANGED vars
  BY <1>21 DEF vars
<1> QED
  BY <1>1, <1>2, <1>3, <1>4, <1>5, <1>6, <1>7, <1>8, <1>9, <1>10, <1>11,
      <1>12, <1>13, <1>14, <1>15, <1>16, <1>17, <1>18, <1>19, <1>20, <1>21
  DEF Next, ManagerStep

(* What the managers remember.                                             *)
LEMMA LocTypeStep == IInv /\ [Next]_vars => LocType'
<1> SUFFICES ASSUME IInv, [Next]_vars PROVE LocType'
  OBVIOUS
<1>t. loc \in [Managers -> Local]
  BY DEF IInv, TypeOK, Local
<1> USE DEF IInv, TypeOK, LocType, Local, LocInv, At, Goto, Return,
    ServerUnchanged, FoundRunning, FoundDead, FoundNothing, files
<1>1. ASSUME NEW m \in Managers, NEW o \in {"start", "stop"},
             NEW c \in Configs \cup {Nobody}, Request(m, o, c),
             o = "start" => c \in Configs
      PROVE  LocType'
  <2> HIDE DEF Fresh
  <2>1. budget.ops \in Instances
    BY <1>1, ServiceAssumption DEF Request, Instances
  <2> QED
    BY <1>1, <2>1, FreshFacts DEF Request
<1>2. ASSUME NEW m \in Managers, Acquire(m) PROVE LocType'
  BY <1>2, ServiceAssumption, FreshFacts DEF Acquire
<1>3. ASSUME NEW m \in Managers, Check(m) PROVE LocType'
  <2>1. TypeOK
    BY DEF IInv
  <2> QED
    BY <1>3, <2>1, CheckType, Zenon DEF LocType
<1>4. ASSUME NEW m \in Managers, SweepReady(m) PROVE LocType'
  BY <1>4, ServiceAssumption, FreshFacts DEF SweepReady
<1>5. ASSUME NEW m \in Managers, SweepState(m) PROVE LocType'
  BY <1>5, ServiceAssumption, FreshFacts DEF SweepState
<1>6. ASSUME NEW m \in Managers, Spawn(m) PROVE LocType'
  <2>1. PICK p \in Pids : loc' = [loc EXCEPT ![m].pid = p, ![m].inst = loc[m].id]
    BY <1>6, Zenon DEF Spawn
  <2>2. loc[m].id \in Instances
    BY <1>6 DEF Spawn
  <2> QED
    BY <2>1, <2>2, <1>t, LocalFacts, Zenon
<1>7. ASSUME NEW m \in Managers, Record(m) PROVE LocType'
  BY <1>7, ServiceAssumption, FreshFacts DEF Record
<1>8. ASSUME NEW m \in Managers, SeeReady(m) PROVE LocType'
  BY <1>8, ServiceAssumption, FreshFacts DEF SeeReady
<1>9. ASSUME NEW m \in Managers, Confirm(m) PROVE LocType'
  BY <1>9, ServiceAssumption, FreshFacts DEF Confirm
<1>10. ASSUME NEW m \in Managers, GiveUp(m) PROVE LocType'
  BY <1>10, ServiceAssumption, FreshFacts DEF GiveUp
<1>11. ASSUME NEW m \in Managers, FailWait(m) PROVE LocType'
  BY <1>11, ServiceAssumption, FreshFacts DEF FailWait
<1>12. ASSUME NEW m \in Managers, FailKill(m) PROVE LocType'
  BY <1>12, ServiceAssumption, FreshFacts DEF FailKill
<1>13. ASSUME NEW m \in Managers, Term(m) PROVE LocType'
  BY <1>13, ServiceAssumption, FreshFacts DEF Term
<1>14. ASSUME NEW m \in Managers, StopWait(m) PROVE LocType'
  BY <1>14, ServiceAssumption, FreshFacts DEF StopWait
<1>15. ASSUME NEW m \in Managers, Recheck(m) PROVE LocType'
  BY <1>15, ServiceAssumption, FreshFacts DEF Recheck
<1>16. ASSUME NEW m \in Managers, Kill(m) PROVE LocType'
  BY <1>16, ServiceAssumption, FreshFacts DEF Kill
<1>17. ASSUME NEW m \in Managers, PidTaken(m) PROVE LocType'
  BY <1>17, ServiceAssumption, FreshFacts DEF PidTaken
<1>18. ASSUME NEW m \in Managers, KillTooSlow(m) PROVE LocType'
  BY <1>18, ServiceAssumption, FreshFacts DEF KillTooSlow
<1>19. ASSUME NEW m \in Managers, Crash(m) PROVE LocType'
  BY <1>19, ServiceAssumption, FreshFacts DEF Crash
<1>20. ASSUME NEW p \in Pids, ServerStep(p) \/ Environment(p)
      PROVE  LocType'
  BY <1>20, ServiceAssumption, FreshFacts DEF ServerStep, Environment, Bind,
      Publish, TakeTerm, Close, TakeKill, Die, ForeignStarts, ForeignEnds
<1>21. CASE UNCHANGED vars
  BY <1>21, ServiceAssumption, FreshFacts DEF vars
<1> QED
  BY <1>1, <1>2, <1>3, <1>4, <1>5, <1>6, <1>7, <1>8, <1>9, <1>10, <1>11,
      <1>12, <1>13, <1>14, <1>15, <1>16, <1>17, <1>18, <1>19, <1>20, <1>21
  DEF Next, ManagerStep

(* The files.                                                              *)
LEMMA FilesStep == IInv /\ [Next]_vars => FilesType'
<1> SUFFICES ASSUME IInv, [Next]_vars PROVE FilesType'
  OBVIOUS
<1> USE DEF IInv, TypeOK, FilesType, LocInv, Watching, StateOf, ProcInv, At,
    Goto, Return, ServerUnchanged, FoundRunning, FoundDead, FoundNothing,
    files
<1>1. ASSUME NEW m \in Managers, NEW o \in {"start", "stop"},
             NEW c \in Configs \cup {Nobody}, Request(m, o, c),
             o = "start" => c \in Configs
      PROVE  FilesType'
  BY <1>1, ServiceAssumption DEF Request
<1>2. ASSUME NEW m \in Managers, Acquire(m) PROVE FilesType'
  BY <1>2, ServiceAssumption DEF Acquire
<1>3. ASSUME NEW m \in Managers, Check(m) PROVE FilesType'
  BY <1>3, ServiceAssumption DEF Check
<1>4. ASSUME NEW m \in Managers, SweepReady(m) PROVE FilesType'
  BY <1>4, ServiceAssumption DEF SweepReady
<1>5. ASSUME NEW m \in Managers, SweepState(m) PROVE FilesType'
  BY <1>5, ServiceAssumption DEF SweepState
<1>6. ASSUME NEW m \in Managers, Spawn(m) PROVE FilesType'
  BY <1>6, ServiceAssumption DEF Spawn
<1>7. ASSUME NEW m \in Managers, Record(m) PROVE FilesType'
  BY <1>7, ServiceAssumption DEF Record
<1>8. ASSUME NEW m \in Managers, SeeReady(m) PROVE FilesType'
  BY <1>8, ServiceAssumption DEF SeeReady
<1>9. ASSUME NEW m \in Managers, Confirm(m) PROVE FilesType'
  BY <1>9, ServiceAssumption DEF Confirm
<1>10. ASSUME NEW m \in Managers, GiveUp(m) PROVE FilesType'
  BY <1>10, ServiceAssumption DEF GiveUp
<1>11. ASSUME NEW m \in Managers, FailWait(m) PROVE FilesType'
  BY <1>11, ServiceAssumption DEF FailWait
<1>12. ASSUME NEW m \in Managers, FailKill(m) PROVE FilesType'
  BY <1>12, ServiceAssumption DEF FailKill
<1>13. ASSUME NEW m \in Managers, Term(m) PROVE FilesType'
  BY <1>13, ServiceAssumption DEF Term
<1>14. ASSUME NEW m \in Managers, StopWait(m) PROVE FilesType'
  BY <1>14, ServiceAssumption DEF StopWait
<1>15. ASSUME NEW m \in Managers, Recheck(m) PROVE FilesType'
  BY <1>15, ServiceAssumption DEF Recheck
<1>16. ASSUME NEW m \in Managers, Kill(m) PROVE FilesType'
  BY <1>16, ServiceAssumption DEF Kill
<1>17. ASSUME NEW m \in Managers, PidTaken(m) PROVE FilesType'
  BY <1>17, ServiceAssumption DEF PidTaken
<1>18. ASSUME NEW m \in Managers, KillTooSlow(m) PROVE FilesType'
  BY <1>18, ServiceAssumption DEF KillTooSlow
<1>19. ASSUME NEW m \in Managers, Crash(m) PROVE FilesType'
  BY <1>19, ServiceAssumption DEF Crash
<1>20. ASSUME NEW p \in Pids, ServerStep(p) \/ Environment(p)
      PROVE  FilesType'
  BY <1>20, ServiceAssumption DEF ServerStep, Environment, Bind, Publish,
      TakeTerm, Close, TakeKill, Die, ForeignStarts, ForeignEnds
<1>21. CASE UNCHANGED vars
  BY <1>21, ServiceAssumption DEF vars
<1> QED
  BY <1>1, <1>2, <1>3, <1>4, <1>5, <1>6, <1>7, <1>8, <1>9, <1>10, <1>11,
      <1>12, <1>13, <1>14, <1>15, <1>16, <1>17, <1>18, <1>19, <1>20, <1>21
  DEF Next, ManagerStep

(* The bounds.                                                             *)
LEMMA BudgetStep == IInv /\ [Next]_vars => BudgetType'
<1> SUFFICES ASSUME IInv, [Next]_vars PROVE BudgetType'
  OBVIOUS
<1> USE DEF IInv, TypeOK, BudgetType, At, Goto, Return, ServerUnchanged,
    FoundRunning, FoundDead, FoundNothing, files
<1>1. ASSUME NEW m \in Managers, NEW o \in {"start", "stop"},
             NEW c \in Configs \cup {Nobody}, Request(m, o, c),
             o = "start" => c \in Configs
      PROVE  BudgetType'
  BY <1>1, ServiceAssumption DEF Request
<1>2. ASSUME NEW m \in Managers, Acquire(m) PROVE BudgetType'
  BY <1>2, ServiceAssumption DEF Acquire
<1>3. ASSUME NEW m \in Managers, Check(m) PROVE BudgetType'
  BY <1>3, ServiceAssumption DEF Check
<1>4. ASSUME NEW m \in Managers, SweepReady(m) PROVE BudgetType'
  BY <1>4, ServiceAssumption DEF SweepReady
<1>5. ASSUME NEW m \in Managers, SweepState(m) PROVE BudgetType'
  BY <1>5, ServiceAssumption DEF SweepState
<1>6. ASSUME NEW m \in Managers, Spawn(m) PROVE BudgetType'
  BY <1>6, ServiceAssumption DEF Spawn
<1>7. ASSUME NEW m \in Managers, Record(m) PROVE BudgetType'
  BY <1>7, ServiceAssumption DEF Record
<1>8. ASSUME NEW m \in Managers, SeeReady(m) PROVE BudgetType'
  BY <1>8, ServiceAssumption DEF SeeReady
<1>9. ASSUME NEW m \in Managers, Confirm(m) PROVE BudgetType'
  BY <1>9, ServiceAssumption DEF Confirm
<1>10. ASSUME NEW m \in Managers, GiveUp(m) PROVE BudgetType'
  BY <1>10, ServiceAssumption DEF GiveUp
<1>11. ASSUME NEW m \in Managers, FailWait(m) PROVE BudgetType'
  BY <1>11, ServiceAssumption DEF FailWait
<1>12. ASSUME NEW m \in Managers, FailKill(m) PROVE BudgetType'
  BY <1>12, ServiceAssumption DEF FailKill
<1>13. ASSUME NEW m \in Managers, Term(m) PROVE BudgetType'
  BY <1>13, ServiceAssumption DEF Term
<1>14. ASSUME NEW m \in Managers, StopWait(m) PROVE BudgetType'
  BY <1>14, ServiceAssumption DEF StopWait
<1>15. ASSUME NEW m \in Managers, Recheck(m) PROVE BudgetType'
  BY <1>15, ServiceAssumption DEF Recheck
<1>16. ASSUME NEW m \in Managers, Kill(m) PROVE BudgetType'
  BY <1>16, ServiceAssumption DEF Kill
<1>17. ASSUME NEW m \in Managers, PidTaken(m) PROVE BudgetType'
  BY <1>17, ServiceAssumption DEF PidTaken
<1>18. ASSUME NEW m \in Managers, KillTooSlow(m) PROVE BudgetType'
  BY <1>18, ServiceAssumption DEF KillTooSlow
<1>19. ASSUME NEW m \in Managers, Crash(m) PROVE BudgetType'
  BY <1>19, ServiceAssumption DEF Crash
<1>20. ASSUME NEW p \in Pids, ServerStep(p) \/ Environment(p)
      PROVE  BudgetType'
  BY <1>20, ServiceAssumption DEF ServerStep, Environment, Bind, Publish,
      TakeTerm, Close, TakeKill, Die, ForeignStarts, ForeignEnds
<1>21. CASE UNCHANGED vars
  BY <1>21, ServiceAssumption DEF vars
<1> QED
  BY <1>1, <1>2, <1>3, <1>4, <1>5, <1>6, <1>7, <1>8, <1>9, <1>10, <1>11,
      <1>12, <1>13, <1>14, <1>15, <1>16, <1>17, <1>18, <1>19, <1>20, <1>21
  DEF Next, ManagerStep

-----------------------------------------------------------------------------
(* Lock, memory and ids: what a step does to them                          *)

(* The lock has one holder, which is past it.                              *)
LEMMA LockStep == IInv /\ [Next]_vars => LockInv'
<1> SUFFICES ASSUME IInv, [Next]_vars PROVE LockInv'
  OBVIOUS
<1> USE DEF IInv, TypeOK, LockInv, Holding, Steps, Instances, At, Goto,
    Return, ServerUnchanged, FoundRunning, FoundDead, FoundNothing, files
<1>1. ASSUME NEW m \in Managers, NEW o \in {"start", "stop"},
             NEW c \in Configs \cup {Nobody}, Request(m, o, c),
             o = "start" => c \in Configs
      PROVE  LockInv'
  BY <1>1, ServiceAssumption DEF Request
<1>2. ASSUME NEW m \in Managers, Acquire(m) PROVE LockInv'
  BY <1>2, ServiceAssumption DEF Acquire
<1>3. ASSUME NEW m \in Managers, Check(m) PROVE LockInv'
  BY <1>3, ServiceAssumption DEF Check
<1>4. ASSUME NEW m \in Managers, SweepReady(m) PROVE LockInv'
  BY <1>4, ServiceAssumption DEF SweepReady
<1>5. ASSUME NEW m \in Managers, SweepState(m) PROVE LockInv'
  BY <1>5, ServiceAssumption DEF SweepState
<1>6. ASSUME NEW m \in Managers, Spawn(m) PROVE LockInv'
  BY <1>6, ServiceAssumption DEF Spawn
<1>7. ASSUME NEW m \in Managers, Record(m) PROVE LockInv'
  BY <1>7, ServiceAssumption DEF Record
<1>8. ASSUME NEW m \in Managers, SeeReady(m) PROVE LockInv'
  BY <1>8, ServiceAssumption DEF SeeReady
<1>9. ASSUME NEW m \in Managers, Confirm(m) PROVE LockInv'
  BY <1>9, ServiceAssumption DEF Confirm
<1>10. ASSUME NEW m \in Managers, GiveUp(m) PROVE LockInv'
  BY <1>10, ServiceAssumption DEF GiveUp
<1>11. ASSUME NEW m \in Managers, FailWait(m) PROVE LockInv'
  BY <1>11, ServiceAssumption DEF FailWait
<1>12. ASSUME NEW m \in Managers, FailKill(m) PROVE LockInv'
  BY <1>12, ServiceAssumption DEF FailKill
<1>13. ASSUME NEW m \in Managers, Term(m) PROVE LockInv'
  BY <1>13, ServiceAssumption DEF Term
<1>14. ASSUME NEW m \in Managers, StopWait(m) PROVE LockInv'
  BY <1>14, ServiceAssumption DEF StopWait
<1>15. ASSUME NEW m \in Managers, Recheck(m) PROVE LockInv'
  BY <1>15, ServiceAssumption DEF Recheck
<1>16. ASSUME NEW m \in Managers, Kill(m) PROVE LockInv'
  BY <1>16, ServiceAssumption DEF Kill
<1>17. ASSUME NEW m \in Managers, PidTaken(m) PROVE LockInv'
  BY <1>17, ServiceAssumption DEF PidTaken
<1>18. ASSUME NEW m \in Managers, KillTooSlow(m) PROVE LockInv'
  BY <1>18, ServiceAssumption DEF KillTooSlow
<1>19. ASSUME NEW m \in Managers, Crash(m) PROVE LockInv'
  BY <1>19, ServiceAssumption DEF Crash
<1>20. ASSUME NEW p \in Pids, ServerStep(p) \/ Environment(p)
      PROVE  LockInv'
  BY <1>20, ServiceAssumption DEF ServerStep, Environment, Bind, Publish,
      TakeTerm, Close, TakeKill, Die, ForeignStarts, ForeignEnds
<1>21. CASE UNCHANGED vars
  BY <1>21, ServiceAssumption DEF vars
<1> QED
  BY <1>1, <1>2, <1>3, <1>4, <1>5, <1>6, <1>7, <1>8, <1>9, <1>10, <1>11,
      <1>12, <1>13, <1>14, <1>15, <1>16, <1>17, <1>18, <1>19, <1>20, <1>21
  DEF Next, ManagerStep

(* What a manager remembers fits its place.                                *)
LEMMA LocStep == IInv /\ [Next]_vars => LocInv'
<1> SUFFICES ASSUME IInv, [Next]_vars PROVE LocInv'
  OBVIOUS
<1> USE DEF IInv, TypeOK, LockInv, Holding, LocInv, Watching, Stopping,
    Sweeping, Fresh, At, Goto, Return, ServerUnchanged, FoundRunning,
    FoundDead, FoundNothing, files, Steps, Instances, NameInv, NoState
<1>1. ASSUME NEW m \in Managers, NEW o \in {"start", "stop"},
             NEW c \in Configs \cup {Nobody}, Request(m, o, c),
             o = "start" => c \in Configs
      PROVE  LocInv'
  BY <1>1, ServiceAssumption DEF Request
<1>2. ASSUME NEW m \in Managers, Acquire(m) PROVE LocInv'
  BY <1>2, ServiceAssumption DEF Acquire
<1>3. ASSUME NEW m \in Managers, Check(m) PROVE LocInv'
  <2> DEFINE L(n) ==
        /\ pc[n] # "idle" => loc[n].id \in Instances /\ loc[n].id > budget.ops
        /\ pc[n] \in {"lock", "check"} => loc[n].op \in {"start", "stop"}
        /\ pc[n] \in {"spawn", "record", "wait", "confirm"} => loc[n].op = "start"
        /\ pc[n] \in {"failWait", "failKillWait"} => loc[n].op = "fail"
        /\ pc[n] \in Stopping => loc[n].op = "stop"
        /\ loc[n].op = "start" => loc[n].config \in Configs
        /\ pc[n] \in Watching \cup {"record"} =>
             loc[n].pid \in Pids /\ loc[n].inst \in Instances
  <2>1. ASSUME NEW n \in Managers, n # m PROVE L(n)'
    BY <1>3, <2>1 DEF Check
  <2>2. L(m)'
    <3>1. CASE service = NoState
      BY <1>3, <3>1 DEF Check
    <3>2. CASE service # NoState
      <4>1. service.pid \in Pids /\ service.inst \in Instances
        BY <3>2
      <4>2. CASE FoundRunning(m)
        BY <1>3, <4>1, <4>2 DEF Check
      <4>3. CASE FoundDead(m)
        BY <1>3, <4>1, <4>3 DEF Check
      <4>4. CASE Return(m, "refused")
        BY <1>3, <4>4 DEF Check
      <4> QED
        BY <1>3, <3>2, <4>2, <4>3, <4>4 DEF Check
    <3> QED
      BY <3>1, <3>2
  <2> QED
    BY <2>1, <2>2
<1>4. ASSUME NEW m \in Managers, SweepReady(m) PROVE LocInv'
  BY <1>4, ServiceAssumption DEF SweepReady
<1>5. ASSUME NEW m \in Managers, SweepState(m) PROVE LocInv'
  BY <1>5, ServiceAssumption DEF SweepState
<1>6. ASSUME NEW m \in Managers, Spawn(m) PROVE LocInv'
  BY <1>6, ServiceAssumption DEF Spawn
<1>7. ASSUME NEW m \in Managers, Record(m) PROVE LocInv'
  BY <1>7, ServiceAssumption DEF Record
<1>8. ASSUME NEW m \in Managers, SeeReady(m) PROVE LocInv'
  BY <1>8, ServiceAssumption DEF SeeReady
<1>9. ASSUME NEW m \in Managers, Confirm(m) PROVE LocInv'
  BY <1>9, ServiceAssumption DEF Confirm
<1>10. ASSUME NEW m \in Managers, GiveUp(m) PROVE LocInv'
  BY <1>10, ServiceAssumption DEF GiveUp
<1>11. ASSUME NEW m \in Managers, FailWait(m) PROVE LocInv'
  BY <1>11, ServiceAssumption DEF FailWait
<1>12. ASSUME NEW m \in Managers, FailKill(m) PROVE LocInv'
  BY <1>12, ServiceAssumption DEF FailKill
<1>13. ASSUME NEW m \in Managers, Term(m) PROVE LocInv'
  BY <1>13, ServiceAssumption DEF Term
<1>14. ASSUME NEW m \in Managers, StopWait(m) PROVE LocInv'
  BY <1>14, ServiceAssumption DEF StopWait
<1>15. ASSUME NEW m \in Managers, Recheck(m) PROVE LocInv'
  BY <1>15, ServiceAssumption DEF Recheck
<1>16. ASSUME NEW m \in Managers, Kill(m) PROVE LocInv'
  BY <1>16, ServiceAssumption DEF Kill
<1>17. ASSUME NEW m \in Managers, PidTaken(m) PROVE LocInv'
  BY <1>17, ServiceAssumption DEF PidTaken
<1>18. ASSUME NEW m \in Managers, KillTooSlow(m) PROVE LocInv'
  BY <1>18, ServiceAssumption DEF KillTooSlow
<1>19. ASSUME NEW m \in Managers, Crash(m) PROVE LocInv'
  BY <1>19, ServiceAssumption DEF Crash
<1>20. ASSUME NEW p \in Pids, ServerStep(p) \/ Environment(p)
      PROVE  LocInv'
  BY <1>20, ServiceAssumption DEF ServerStep, Environment, Bind, Publish,
      TakeTerm, Close, TakeKill, Die, ForeignStarts, ForeignEnds
<1>21. CASE UNCHANGED vars
  BY <1>21, ServiceAssumption DEF vars
<1> QED
  BY <1>1, <1>2, <1>3, <1>4, <1>5, <1>6, <1>7, <1>8, <1>9, <1>10, <1>11,
      <1>12, <1>13, <1>14, <1>15, <1>16, <1>17, <1>18, <1>19, <1>20, <1>21
  DEF Next, ManagerStep

(* Instance ids are not used twice.                                        *)
LEMMA IdStep == IInv /\ [Next]_vars => IdInv'
<1> SUFFICES ASSUME IInv, [Next]_vars PROVE IdInv'
  OBVIOUS
<1> USE DEF IInv, TypeOK, LockInv, Holding, LocInv, Watching, Stopping,
    Sweeping, Fresh, At, Goto, Return, ServerUnchanged, FoundRunning,
    FoundDead, FoundNothing, files, IdInv, Instances
<1>1. ASSUME NEW m \in Managers, NEW o \in {"start", "stop"},
             NEW c \in Configs \cup {Nobody}, Request(m, o, c),
             o = "start" => c \in Configs
      PROVE  IdInv'
  BY <1>1, ServiceAssumption DEF Request
<1>2. ASSUME NEW m \in Managers, Acquire(m) PROVE IdInv'
  BY <1>2, ServiceAssumption DEF Acquire
<1>3. ASSUME NEW m \in Managers, Check(m) PROVE IdInv'
  BY <1>3, ServiceAssumption DEF Check
<1>4. ASSUME NEW m \in Managers, SweepReady(m) PROVE IdInv'
  BY <1>4, ServiceAssumption DEF SweepReady
<1>5. ASSUME NEW m \in Managers, SweepState(m) PROVE IdInv'
  BY <1>5, ServiceAssumption DEF SweepState
<1>6. ASSUME NEW m \in Managers, Spawn(m) PROVE IdInv'
  BY <1>6, ServiceAssumption DEF Spawn
<1>7. ASSUME NEW m \in Managers, Record(m) PROVE IdInv'
  BY <1>7, ServiceAssumption DEF Record
<1>8. ASSUME NEW m \in Managers, SeeReady(m) PROVE IdInv'
  BY <1>8, ServiceAssumption DEF SeeReady
<1>9. ASSUME NEW m \in Managers, Confirm(m) PROVE IdInv'
  BY <1>9, ServiceAssumption DEF Confirm
<1>10. ASSUME NEW m \in Managers, GiveUp(m) PROVE IdInv'
  BY <1>10, ServiceAssumption DEF GiveUp
<1>11. ASSUME NEW m \in Managers, FailWait(m) PROVE IdInv'
  BY <1>11, ServiceAssumption DEF FailWait
<1>12. ASSUME NEW m \in Managers, FailKill(m) PROVE IdInv'
  BY <1>12, ServiceAssumption DEF FailKill
<1>13. ASSUME NEW m \in Managers, Term(m) PROVE IdInv'
  BY <1>13, ServiceAssumption DEF Term
<1>14. ASSUME NEW m \in Managers, StopWait(m) PROVE IdInv'
  BY <1>14, ServiceAssumption DEF StopWait
<1>15. ASSUME NEW m \in Managers, Recheck(m) PROVE IdInv'
  BY <1>15, ServiceAssumption DEF Recheck
<1>16. ASSUME NEW m \in Managers, Kill(m) PROVE IdInv'
  BY <1>16, ServiceAssumption DEF Kill
<1>17. ASSUME NEW m \in Managers, PidTaken(m) PROVE IdInv'
  BY <1>17, ServiceAssumption DEF PidTaken
<1>18. ASSUME NEW m \in Managers, KillTooSlow(m) PROVE IdInv'
  BY <1>18, ServiceAssumption DEF KillTooSlow
<1>19. ASSUME NEW m \in Managers, Crash(m) PROVE IdInv'
  BY <1>19, ServiceAssumption DEF Crash
<1>20. ASSUME NEW p \in Pids, ServerStep(p) \/ Environment(p)
      PROVE  IdInv'
  BY <1>20, ServiceAssumption DEF ServerStep, Environment, Bind, Publish,
      TakeTerm, Close, TakeKill, Die, ForeignStarts, ForeignEnds
<1>21. CASE UNCHANGED vars
  BY <1>21, ServiceAssumption DEF vars
<1> QED
  BY <1>1, <1>2, <1>3, <1>4, <1>5, <1>6, <1>7, <1>8, <1>9, <1>10, <1>11,
      <1>12, <1>13, <1>14, <1>15, <1>16, <1>17, <1>18, <1>19, <1>20, <1>21
  DEF Next, ManagerStep

-----------------------------------------------------------------------------
(* How managers and files move                                             *)

(* Where a start may be that has not spawned its server.                   *)
Unspawned == Sweeping \cup {"lock", "check", "spawn"}

(* How a manager gets to the places at which its memory matters, and with  *)
(* what memory.                                                            *)
Moves == \A m \in Managers :
  /\ loc'[m].op = "start" /\ pc'[m] \in Unspawned =>
       \/ loc[m].op = "start" /\ pc[m] \in Unspawned /\ loc'[m].id = loc[m].id
       \/ loc'[m].id = budget.ops
  /\ pc'[m] = "record" =>
       \/ pc[m] = "record" /\ loc'[m] = loc[m]
       \/ pc[m] = "spawn" /\ loc[m].op = "start" /\ loc'[m].inst = loc[m].id
  /\ pc'[m] \in {"wait", "confirm"} =>
       pc[m] \in {"record", "wait", "confirm"} /\ loc'[m] = loc[m]
  /\ pc'[m] \in Stopping =>
       \/ pc[m] \in Stopping /\ loc'[m] = loc[m]
       \/ pc[m] = "check" /\ procs' = procs /\ procs[loc'[m].pid].kind = "server"

(* An instance gets lost to all when it is dead and swept up, or when its  *)
(* manager dies before it has written the state file.                      *)
NamedMoves == \A i \in Instances : Named(i) /\ ~Named(i)' =>
  \/ ~Alive(i) /\ \E m \in Managers : pc[m] = "sweepState"
  \/ /\ budget'.faults < budget.faults
     /\ \E m \in Managers : pc[m] = "record" /\ i = loc[m].inst

(* What the state file may say next, and what it says to managers that     *)
(* rely on it.                                                             *)
StateMoves ==
  /\ \/ service' = service \/ service' = NoState
     \/ \E m \in Managers : /\ pc[m] = "record" /\ service'.inst = loc[m].inst
                           /\ service'.pid = loc[m].pid
     \/ /\ service # NoState
        /\ service'.inst = service.inst /\ service'.pid = service.pid
  /\ \A m \in Managers :
       /\ pc'[m] \in {"spawn", "record"} => service' = NoState
       /\ pc'[m] \in Watching \cup Sweeping =>
            service' # NoState /\ service'.inst = loc'[m].inst
       /\ pc'[m] \in Watching => service'.pid = loc'[m].pid
       /\ pc'[m] \in Sweeping => \A p \in Pids : ~Serves(p, loc'[m].inst)

(* The managers' places and memories move as said.                         *)
LEMMA MovesStep == IInv /\ [Next]_vars => Moves
<1> SUFFICES ASSUME IInv, [Next]_vars PROVE Moves
  OBVIOUS
<1> USE DEF IInv, TypeOK, LockInv, Holding, LocInv, Watching, Stopping,
    Sweeping, Fresh, At, Goto, Return, ServerUnchanged, FoundRunning,
    FoundDead, FoundNothing, files, Moves, Unspawned, Owner, Live, Serves
<1>1. ASSUME NEW m \in Managers, NEW o \in {"start", "stop"},
             NEW c \in Configs \cup {Nobody}, Request(m, o, c),
             o = "start" => c \in Configs
      PROVE  Moves
  BY <1>1 DEF Request
<1>2. ASSUME NEW m \in Managers, Acquire(m) PROVE Moves
  BY <1>2 DEF Acquire
<1>3. ASSUME NEW m \in Managers, Check(m) PROVE Moves
  BY <1>3 DEF Check
<1>4. ASSUME NEW m \in Managers, SweepReady(m) PROVE Moves
  BY <1>4 DEF SweepReady
<1>5. ASSUME NEW m \in Managers, SweepState(m) PROVE Moves
  BY <1>5 DEF SweepState
<1>6. ASSUME NEW m \in Managers, Spawn(m) PROVE Moves
  BY <1>6 DEF Spawn
<1>7. ASSUME NEW m \in Managers, Record(m) PROVE Moves
  BY <1>7 DEF Record
<1>8. ASSUME NEW m \in Managers, SeeReady(m) PROVE Moves
  BY <1>8 DEF SeeReady
<1>9. ASSUME NEW m \in Managers, Confirm(m) PROVE Moves
  BY <1>9 DEF Confirm
<1>10. ASSUME NEW m \in Managers, GiveUp(m) PROVE Moves
  BY <1>10 DEF GiveUp
<1>11. ASSUME NEW m \in Managers, FailWait(m) PROVE Moves
  BY <1>11 DEF FailWait
<1>12. ASSUME NEW m \in Managers, FailKill(m) PROVE Moves
  BY <1>12 DEF FailKill
<1>13. ASSUME NEW m \in Managers, Term(m) PROVE Moves
  BY <1>13 DEF Term
<1>14. ASSUME NEW m \in Managers, StopWait(m) PROVE Moves
  BY <1>14 DEF StopWait
<1>15. ASSUME NEW m \in Managers, Recheck(m) PROVE Moves
  BY <1>15 DEF Recheck
<1>16. ASSUME NEW m \in Managers, Kill(m) PROVE Moves
  BY <1>16 DEF Kill
<1>17. ASSUME NEW m \in Managers, PidTaken(m) PROVE Moves
  BY <1>17 DEF PidTaken
<1>18. ASSUME NEW m \in Managers, KillTooSlow(m) PROVE Moves
  BY <1>18 DEF KillTooSlow
<1>19. ASSUME NEW m \in Managers, Crash(m) PROVE Moves
  BY <1>19 DEF Crash
<1>20. ASSUME NEW p \in Pids, ServerStep(p) \/ Environment(p)
      PROVE  Moves
  BY <1>20 DEF ServerStep, Environment, Bind, Publish, TakeTerm, Close,
      TakeKill, Die, ForeignStarts, ForeignEnds
<1>21. CASE UNCHANGED vars
  BY <1>21 DEF vars
<1> QED
  BY <1>1, <1>2, <1>3, <1>4, <1>5, <1>6, <1>7, <1>8, <1>9, <1>10, <1>11,
      <1>12, <1>13, <1>14, <1>15, <1>16, <1>17, <1>18, <1>19, <1>20, <1>21
  DEF Next, ManagerStep

(* So does the state file.                                                 *)
LEMMA StateMovesStep == IInv /\ [Next]_vars => StateMoves
<1> SUFFICES ASSUME IInv, [Next]_vars PROVE StateMoves
  OBVIOUS
<1> USE DEF IInv, TypeOK, LockInv, Holding, LocInv, Watching, Stopping,
    Sweeping, Fresh, At, Goto, Return, ServerUnchanged, FoundRunning,
    FoundDead, FoundNothing, files, StateMoves, NameInv, Alive, Serves,
    Owner, Live, NoState, StateOf
<1>1. ASSUME NEW m \in Managers, NEW o \in {"start", "stop"},
             NEW c \in Configs \cup {Nobody}, Request(m, o, c),
             o = "start" => c \in Configs
      PROVE  StateMoves
  BY <1>1 DEF Request
<1>2. ASSUME NEW m \in Managers, Acquire(m) PROVE StateMoves
  BY <1>2 DEF Acquire
<1>3. ASSUME NEW m \in Managers, Check(m) PROVE StateMoves
  BY <1>3 DEF Check
<1>4. ASSUME NEW m \in Managers, SweepReady(m) PROVE StateMoves
  BY <1>4 DEF SweepReady
<1>5. ASSUME NEW m \in Managers, SweepState(m) PROVE StateMoves
  BY <1>5 DEF SweepState
<1>6. ASSUME NEW m \in Managers, Spawn(m) PROVE StateMoves
  BY <1>6 DEF Spawn
<1>7. ASSUME NEW m \in Managers, Record(m) PROVE StateMoves
  BY <1>7 DEF Record
<1>8. ASSUME NEW m \in Managers, SeeReady(m) PROVE StateMoves
  BY <1>8 DEF SeeReady
<1>9. ASSUME NEW m \in Managers, Confirm(m) PROVE StateMoves
  BY <1>9 DEF Confirm
<1>10. ASSUME NEW m \in Managers, GiveUp(m) PROVE StateMoves
  BY <1>10 DEF GiveUp
<1>11. ASSUME NEW m \in Managers, FailWait(m) PROVE StateMoves
  BY <1>11 DEF FailWait
<1>12. ASSUME NEW m \in Managers, FailKill(m) PROVE StateMoves
  BY <1>12 DEF FailKill
<1>13. ASSUME NEW m \in Managers, Term(m) PROVE StateMoves
  BY <1>13 DEF Term
<1>14. ASSUME NEW m \in Managers, StopWait(m) PROVE StateMoves
  BY <1>14 DEF StopWait
<1>15. ASSUME NEW m \in Managers, Recheck(m) PROVE StateMoves
  BY <1>15 DEF Recheck
<1>16. ASSUME NEW m \in Managers, Kill(m) PROVE StateMoves
  BY <1>16 DEF Kill
<1>17. ASSUME NEW m \in Managers, PidTaken(m) PROVE StateMoves
  BY <1>17 DEF PidTaken
<1>18. ASSUME NEW m \in Managers, KillTooSlow(m) PROVE StateMoves
  BY <1>18 DEF KillTooSlow
<1>19. ASSUME NEW m \in Managers, Crash(m) PROVE StateMoves
  BY <1>19 DEF Crash
<1>20. ASSUME NEW p \in Pids, ServerStep(p) \/ Environment(p)
      PROVE  StateMoves
  BY <1>20 DEF ServerStep, Environment, Bind, Publish, TakeTerm, Close,
      TakeKill, Die, ForeignStarts, ForeignEnds
<1>21. CASE UNCHANGED vars
  BY <1>21 DEF vars
<1> QED
  BY <1>1, <1>2, <1>3, <1>4, <1>5, <1>6, <1>7, <1>8, <1>9, <1>10, <1>11,
      <1>12, <1>13, <1>14, <1>15, <1>16, <1>17, <1>18, <1>19, <1>20, <1>21
  DEF Next, ManagerStep

(* And what can be found.                                                  *)
LEMMA NamedStep == IInv /\ [Next]_vars => NamedMoves
<1> SUFFICES ASSUME IInv, [Next]_vars PROVE NamedMoves
  OBVIOUS
<1> USE DEF IInv, TypeOK, LockInv, Holding, LocInv, Watching, Stopping,
    Sweeping, Fresh, At, Goto, Return, ServerUnchanged, FoundRunning,
    FoundDead, FoundNothing, files, NamedMoves, NameInv, Named, NoState,
    StateOf
<1>1. ASSUME NEW m \in Managers, NEW o \in {"start", "stop"},
             NEW c \in Configs \cup {Nobody}, Request(m, o, c),
             o = "start" => c \in Configs
      PROVE  NamedMoves
  BY <1>1, ServiceAssumption DEF Request
<1>2. ASSUME NEW m \in Managers, Acquire(m) PROVE NamedMoves
  BY <1>2, ServiceAssumption DEF Acquire
<1>3. ASSUME NEW m \in Managers, Check(m) PROVE NamedMoves
  BY <1>3, ServiceAssumption DEF Check
<1>4. ASSUME NEW m \in Managers, SweepReady(m) PROVE NamedMoves
  BY <1>4, ServiceAssumption DEF SweepReady
<1>5. ASSUME NEW m \in Managers, SweepState(m) PROVE NamedMoves
  BY <1>5, ServiceAssumption DEF SweepState
<1>6. ASSUME NEW m \in Managers, Spawn(m) PROVE NamedMoves
  BY <1>6, ServiceAssumption DEF Spawn
<1>7. ASSUME NEW m \in Managers, Record(m) PROVE NamedMoves
  BY <1>7, ServiceAssumption DEF Record
<1>8. ASSUME NEW m \in Managers, SeeReady(m) PROVE NamedMoves
  BY <1>8, ServiceAssumption DEF SeeReady
<1>9. ASSUME NEW m \in Managers, Confirm(m) PROVE NamedMoves
  BY <1>9, ServiceAssumption DEF Confirm
<1>10. ASSUME NEW m \in Managers, GiveUp(m) PROVE NamedMoves
  BY <1>10, ServiceAssumption DEF GiveUp
<1>11. ASSUME NEW m \in Managers, FailWait(m) PROVE NamedMoves
  BY <1>11, ServiceAssumption DEF FailWait
<1>12. ASSUME NEW m \in Managers, FailKill(m) PROVE NamedMoves
  BY <1>12, ServiceAssumption DEF FailKill
<1>13. ASSUME NEW m \in Managers, Term(m) PROVE NamedMoves
  BY <1>13, ServiceAssumption DEF Term
<1>14. ASSUME NEW m \in Managers, StopWait(m) PROVE NamedMoves
  BY <1>14, ServiceAssumption DEF StopWait
<1>15. ASSUME NEW m \in Managers, Recheck(m) PROVE NamedMoves
  BY <1>15, ServiceAssumption DEF Recheck
<1>16. ASSUME NEW m \in Managers, Kill(m) PROVE NamedMoves
  BY <1>16, ServiceAssumption DEF Kill
<1>17. ASSUME NEW m \in Managers, PidTaken(m) PROVE NamedMoves
  BY <1>17, ServiceAssumption DEF PidTaken
<1>18. ASSUME NEW m \in Managers, KillTooSlow(m) PROVE NamedMoves
  BY <1>18, ServiceAssumption DEF KillTooSlow
<1>19. ASSUME NEW m \in Managers, Crash(m) PROVE NamedMoves
  BY <1>19, ServiceAssumption DEF Crash
<1>20. ASSUME NEW p \in Pids, ServerStep(p) \/ Environment(p)
      PROVE  NamedMoves
  BY <1>20, ServiceAssumption DEF ServerStep, Environment, Bind, Publish,
      TakeTerm, Close, TakeKill, Die, ForeignStarts, ForeignEnds
<1>21. CASE UNCHANGED vars
  BY <1>21, ServiceAssumption DEF vars
<1> QED
  BY <1>1, <1>2, <1>3, <1>4, <1>5, <1>6, <1>7, <1>8, <1>9, <1>10, <1>11,
      <1>12, <1>13, <1>14, <1>15, <1>16, <1>17, <1>18, <1>19, <1>20, <1>21
  DEF Next, ManagerStep

(* Who writes and removes ready files, and what that says to managers.     *)
ReadyMoves ==
  /\ \/ ready' = ready
     \/ \E m \in Managers : /\ pc[m] = "sweepReady" /\ pc'[m] = "sweepState"
                            /\ ready' = ready \ {loc[m].inst}
     \/ \E p \in Pids : /\ procs[p].kind = "server"
                        /\ ready' = ready \cup {procs[p].inst}
                        /\ UNCHANGED <<service, pc, loc>>
     \/ \E p \in Pids : /\ procs[p].kind = "server" /\ procs[p].stage = "closing"
                        /\ procs'[p].kind # "server"
                        /\ ready' = ready \ {procs[p].inst}
                        /\ UNCHANGED <<service, pc, loc>>
  /\ \A m \in Managers :
       /\ pc'[m] = "sweepState" =>
            /\ loc'[m] = loc[m]
            /\ \/ pc[m] = "sweepState"
               \/ pc[m] = "sweepReady" /\ ready' = ready \ {loc[m].inst}
       /\ pc'[m] = "confirm" =>
            \/ pc[m] = "confirm"
            \/ pc[m] = "wait" /\ loc[m].inst \in ready /\ ready' = ready

(* The holder of the lock, if any, has changed nothing yet.                *)
Quiet == \A m \in Managers : Holding(m) => At(m, "check")

(* How the lock gets free, or to a holder that has changed nothing.        *)
QuietMoves == Quiet' =>
  \/ Quiet /\ service' = service
  \/ service' = NoState
  \/ service' = service /\ ~Alive(service.inst)
  \/ budget'.faults < budget.faults
  \/ \E m \in Managers : /\ pc[m] = "confirm" /\ service'.inst = loc[m].inst
                         /\ service'.status = "running"

(* The ready files move as said.                                           *)
LEMMA ReadyStep == IInv /\ [Next]_vars => ReadyMoves
<1> SUFFICES ASSUME IInv, [Next]_vars PROVE ReadyMoves
  OBVIOUS
<1> USE DEF IInv, TypeOK, LockInv, Holding, LocInv, Watching, Stopping,
    Sweeping, Fresh, At, Goto, Return, ServerUnchanged, FoundRunning,
    FoundDead, FoundNothing, files, ReadyMoves, Live, ProcInv, NoState
<1>1. ASSUME NEW m \in Managers, NEW o \in {"start", "stop"},
             NEW c \in Configs \cup {Nobody}, Request(m, o, c),
             o = "start" => c \in Configs
      PROVE  ReadyMoves
  BY <1>1, ServiceAssumption, ExitedFacts DEF Request
<1>2. ASSUME NEW m \in Managers, Acquire(m) PROVE ReadyMoves
  BY <1>2, ServiceAssumption, ExitedFacts DEF Acquire
<1>3. ASSUME NEW m \in Managers, Check(m) PROVE ReadyMoves
  BY <1>3, ServiceAssumption, ExitedFacts DEF Check
<1>4. ASSUME NEW m \in Managers, SweepReady(m) PROVE ReadyMoves
  BY <1>4, ServiceAssumption, ExitedFacts DEF SweepReady
<1>5. ASSUME NEW m \in Managers, SweepState(m) PROVE ReadyMoves
  BY <1>5, ServiceAssumption, ExitedFacts DEF SweepState
<1>6. ASSUME NEW m \in Managers, Spawn(m) PROVE ReadyMoves
  BY <1>6, ServiceAssumption, ExitedFacts DEF Spawn
<1>7. ASSUME NEW m \in Managers, Record(m) PROVE ReadyMoves
  BY <1>7, ServiceAssumption, ExitedFacts DEF Record
<1>8. ASSUME NEW m \in Managers, SeeReady(m) PROVE ReadyMoves
  BY <1>8, ServiceAssumption, ExitedFacts DEF SeeReady
<1>9. ASSUME NEW m \in Managers, Confirm(m) PROVE ReadyMoves
  BY <1>9, ServiceAssumption, ExitedFacts DEF Confirm
<1>10. ASSUME NEW m \in Managers, GiveUp(m) PROVE ReadyMoves
  BY <1>10, ServiceAssumption, ExitedFacts DEF GiveUp
<1>11. ASSUME NEW m \in Managers, FailWait(m) PROVE ReadyMoves
  BY <1>11, ServiceAssumption, ExitedFacts DEF FailWait
<1>12. ASSUME NEW m \in Managers, FailKill(m) PROVE ReadyMoves
  BY <1>12, ServiceAssumption, ExitedFacts DEF FailKill
<1>13. ASSUME NEW m \in Managers, Term(m) PROVE ReadyMoves
  BY <1>13, ServiceAssumption, ExitedFacts DEF Term
<1>14. ASSUME NEW m \in Managers, StopWait(m) PROVE ReadyMoves
  BY <1>14, ServiceAssumption, ExitedFacts DEF StopWait
<1>15. ASSUME NEW m \in Managers, Recheck(m) PROVE ReadyMoves
  BY <1>15, ServiceAssumption, ExitedFacts DEF Recheck
<1>16. ASSUME NEW m \in Managers, Kill(m) PROVE ReadyMoves
  BY <1>16, ServiceAssumption, ExitedFacts DEF Kill
<1>17. ASSUME NEW m \in Managers, PidTaken(m) PROVE ReadyMoves
  BY <1>17, ServiceAssumption, ExitedFacts DEF PidTaken
<1>18. ASSUME NEW m \in Managers, KillTooSlow(m) PROVE ReadyMoves
  BY <1>18, ServiceAssumption, ExitedFacts DEF KillTooSlow
<1>19. ASSUME NEW m \in Managers, Crash(m) PROVE ReadyMoves
  BY <1>19, ServiceAssumption, ExitedFacts DEF Crash
<1>20. ASSUME NEW p \in Pids, ServerStep(p) \/ Environment(p)
      PROVE  ReadyMoves
  BY <1>20, ServiceAssumption, ExitedFacts DEF ServerStep, Environment, Bind,
      Publish, TakeTerm, Close, TakeKill, Die, ForeignStarts, ForeignEnds
<1>21. CASE UNCHANGED vars
  BY <1>21, ServiceAssumption, ExitedFacts DEF vars
<1> QED
  BY <1>1, <1>2, <1>3, <1>4, <1>5, <1>6, <1>7, <1>8, <1>9, <1>10, <1>11,
      <1>12, <1>13, <1>14, <1>15, <1>16, <1>17, <1>18, <1>19, <1>20, <1>21
  DEF Next, ManagerStep

(* And the lock.                                                           *)
LEMMA QuietStep == IInv /\ [Next]_vars => QuietMoves
<1> SUFFICES ASSUME IInv, [Next]_vars PROVE QuietMoves
  OBVIOUS
<1> USE DEF IInv, TypeOK, LockInv, Holding, LocInv, Watching, Stopping,
    Sweeping, Fresh, At, Goto, Return, ServerUnchanged, FoundRunning,
    FoundDead, FoundNothing, files, QuietMoves, Quiet, NameInv, StateOf,
    Alive, Serves, Owner, Live
<1>1. ASSUME NEW m \in Managers, NEW o \in {"start", "stop"},
             NEW c \in Configs \cup {Nobody}, Request(m, o, c),
             o = "start" => c \in Configs
      PROVE  QuietMoves
  BY <1>1 DEF Request
<1>2. ASSUME NEW m \in Managers, Acquire(m) PROVE QuietMoves
  BY <1>2 DEF Acquire
<1>3. ASSUME NEW m \in Managers, Check(m) PROVE QuietMoves
  BY <1>3 DEF Check
<1>4. ASSUME NEW m \in Managers, SweepReady(m) PROVE QuietMoves
  BY <1>4 DEF SweepReady
<1>5. ASSUME NEW m \in Managers, SweepState(m) PROVE QuietMoves
  BY <1>5 DEF SweepState
<1>6. ASSUME NEW m \in Managers, Spawn(m) PROVE QuietMoves
  BY <1>6 DEF Spawn
<1>7. ASSUME NEW m \in Managers, Record(m) PROVE QuietMoves
  BY <1>7 DEF Record
<1>8. ASSUME NEW m \in Managers, SeeReady(m) PROVE QuietMoves
  BY <1>8 DEF SeeReady
<1>9. ASSUME NEW m \in Managers, Confirm(m) PROVE QuietMoves
  BY <1>9 DEF Confirm
<1>10. ASSUME NEW m \in Managers, GiveUp(m) PROVE QuietMoves
  BY <1>10 DEF GiveUp
<1>11. ASSUME NEW m \in Managers, FailWait(m) PROVE QuietMoves
  BY <1>11 DEF FailWait
<1>12. ASSUME NEW m \in Managers, FailKill(m) PROVE QuietMoves
  BY <1>12 DEF FailKill
<1>13. ASSUME NEW m \in Managers, Term(m) PROVE QuietMoves
  BY <1>13 DEF Term
<1>14. ASSUME NEW m \in Managers, StopWait(m) PROVE QuietMoves
  BY <1>14 DEF StopWait
<1>15. ASSUME NEW m \in Managers, Recheck(m) PROVE QuietMoves
  BY <1>15 DEF Recheck
<1>16. ASSUME NEW m \in Managers, Kill(m) PROVE QuietMoves
  BY <1>16 DEF Kill
<1>17. ASSUME NEW m \in Managers, PidTaken(m) PROVE QuietMoves
  BY <1>17 DEF PidTaken
<1>18. ASSUME NEW m \in Managers, KillTooSlow(m) PROVE QuietMoves
  BY <1>18 DEF KillTooSlow
<1>19. ASSUME NEW m \in Managers, Crash(m) PROVE QuietMoves
  BY <1>19 DEF Crash
<1>20. ASSUME NEW p \in Pids, ServerStep(p) \/ Environment(p)
      PROVE  QuietMoves
  BY <1>20 DEF ServerStep, Environment, Bind, Publish, TakeTerm, Close,
      TakeKill, Die, ForeignStarts, ForeignEnds
<1>21. CASE UNCHANGED vars
  BY <1>21 DEF vars
<1> QED
  BY <1>1, <1>2, <1>3, <1>4, <1>5, <1>6, <1>7, <1>8, <1>9, <1>10, <1>11,
      <1>12, <1>13, <1>14, <1>15, <1>16, <1>17, <1>18, <1>19, <1>20, <1>21
  DEF Next, ManagerStep

-----------------------------------------------------------------------------
(* The invariant, conjunct by conjunct                                     *)

(* A server after a step is one from before it, or was just spawned.       *)
LEMMA Serving == IInv /\ [Next]_vars =>
  \A p \in Pids : procs'[p].kind = "server" =>
    \/ procs[p].kind = "server" /\ procs'[p].inst = procs[p].inst
    \/ \E m \in Managers : /\ pc[m] = "spawn" /\ pc'[m] = "record"
                           /\ p = loc'[m].pid /\ procs'[p].inst = loc[m].id
  BY ProcessStep
  DEF ProcsStep, Effect, Kept, Ended, Advanced, Started, SignalledBy, SpawnedBy

(* The bounds only go down.                                                *)
LEMMA Faults == IInv /\ [Next]_vars =>
  /\ budget.ops \in Nat /\ budget'.ops \in Nat /\ budget'.ops <= budget.ops
  /\ budget.faults \in 0..MaxFaults /\ budget'.faults \in 0..MaxFaults
  /\ budget'.faults <= budget.faults
<1> SUFFICES ASSUME IInv, [Next]_vars
    PROVE  /\ budget.ops \in Nat /\ budget'.ops \in Nat
           /\ budget'.ops <= budget.ops
           /\ budget.faults \in 0..MaxFaults /\ budget'.faults \in 0..MaxFaults
           /\ budget'.faults <= budget.faults
  OBVIOUS
<1>1. /\ budget \in [ops: 0..MaxOps, foreign: 0..MaxForeign,
                     deaths: 0..MaxDeaths, faults: 0..MaxFaults]
      /\ MaxOps \in Nat /\ MaxFaults \in Nat
  BY ServiceAssumption DEF IInv, TypeOK
<1>2. \/ budget' = budget
      \/ \E k \in {"ops", "foreign", "deaths", "faults"} :
           budget[k] > 0 /\ budget' = [budget EXCEPT ![k] = @ - 1]
  BY Zenon
  DEF Next, ManagerStep, ServerStep, Environment, vars, Request, Acquire, Check,
     SweepReady, SweepState, Spawn, Record, SeeReady, Confirm, GiveUp,
     FailWait, FailKill, Term, StopWait, Recheck, Kill, PidTaken, KillTooSlow,
     Crash, Bind, Publish, TakeTerm, Close, TakeKill, Die, ForeignStarts,
     ForeignEnds
<1> QED
  BY <1>1, <1>2

(* ProcInv is preserved: an instance runs only after it was requested.     *)
LEMMA ProcInvStep == IInv /\ [Next]_vars => ProcInv'
<1> SUFFICES ASSUME IInv, [Next]_vars, NEW p \in Pids
             PROVE  /\ procs'[p].kind = "server" =>
                         /\ procs'[p].inst \in Instances
                         /\ procs'[p].inst > budget'.ops
                    /\ Live(p)' \/ procs'[p].sig = "none"
  BY DEF ProcInv
<1>1. budget.ops \in Nat /\ budget'.ops \in Nat /\ budget'.ops <= budget.ops
  BY Faults
<1>2. procs'[p].kind = "server" =>
        procs'[p].inst \in Instances /\ procs'[p].inst > budget.ops
  BY Serving DEF IInv, ProcInv, LocInv
<1>3. procs'[p].kind = "server" => procs'[p].inst > budget'.ops
  BY <1>1, <1>2 DEF Instances
<1>4. Live(p)' \/ procs'[p].sig = "none"
  BY ProcessStep
  DEF ProcsStep, Effect, Kept, Ended, Advanced, Started, SignalledBy,
      SpawnedBy, Live, IInv, ProcInv
<1> QED
  BY <1>2, <1>3, <1>4

(* FreshInv is preserved: ids are handed out downwards, so the next one    *)
(* runs nowhere.                                                           *)
LEMMA FreshInvStep == IInv /\ [Next]_vars => FreshInv'
<1> SUFFICES ASSUME IInv, [Next]_vars, NEW m \in Managers,
                    loc'[m].op = "start", pc'[m] \in Unspawned,
                    NEW p \in Pids, procs'[p].kind = "server",
                    procs'[p].inst = loc'[m].id
             PROVE  FALSE
  BY DEF FreshInv, Unspawned, Alive, Serves
<1>1. CASE /\ loc[m].op = "start" /\ pc[m] \in Unspawned
           /\ loc'[m].id = loc[m].id
  <2>1. CASE procs[p].kind = "server" /\ procs'[p].inst = procs[p].inst
    BY <1>1, <2>1 DEF IInv, FreshInv, Unspawned, Alive, Serves
  <2>2. ASSUME NEW n \in Managers, pc[n] = "spawn", pc'[n] = "record",
               procs'[p].inst = loc[n].id
        PROVE  FALSE
    BY <1>1, <2>2 DEF IInv, IdInv, Unspawned, Sweeping
  <2> QED
    BY <2>1, <2>2, Serving
<1>2. CASE loc'[m].id = budget.ops
  <2>1. procs'[p].inst > budget.ops /\ procs'[p].inst \in Instances
    BY Serving DEF IInv, ProcInv, LocInv
  <2> QED
    BY <1>2, <2>1 DEF Instances
<1> QED
  BY <1>1, <1>2, MovesStep DEF Moves

(* NameInv is preserved: the lock makes the state file the holder's alone. *)
LEMMA NameInvStep == IInv /\ [Next]_vars => NameInv'
<1> SUFFICES ASSUME IInv, [Next]_vars PROVE NameInv'
  OBVIOUS
<1>s. /\ \/ service' = service \/ service' = NoState
         \/ \E m \in Managers :
              /\ pc[m] = "record"
              /\ service'.inst = loc[m].inst /\ service'.pid = loc[m].pid
         \/ /\ service # NoState
            /\ service'.inst = service.inst /\ service'.pid = service.pid
      /\ \A m \in Managers :
           /\ pc'[m] \in {"spawn", "record"} => service' = NoState
           /\ pc'[m] \in Watching \cup Sweeping =>
                service' # NoState /\ service'.inst = loc'[m].inst
           /\ pc'[m] \in Watching => service'.pid = loc'[m].pid
           /\ pc'[m] \in Sweeping => \A p \in Pids : ~Serves(p, loc'[m].inst)
  BY StateMovesStep DEF StateMoves
<1>1. ASSUME service' # NoState, NEW p \in Pids, Serves(p, service.inst)'
      PROVE  p = service'.pid
  <2>1. procs[p].kind = "server" /\ procs'[p].inst = procs[p].inst
    BY <1>1, <1>s, Serving DEF Serves
  <2> QED
    BY <1>1, <1>s, <2>1 DEF Serves, IInv, NameInv
<1>2. ASSUME NEW m \in Managers, pc'[m] = "record", NEW p \in Pids,
             Serves(p, loc[m].inst)'
      PROVE  p = loc'[m].pid
  <2>1. LockInv /\ LockInv'
    BY LockStep DEF IInv
  <2>2. CASE pc[m] = "record" /\ loc'[m] = loc[m]
    <3>1. procs[p].kind = "server" /\ procs'[p].inst = procs[p].inst
      BY <1>2, <2>1, <2>2, Serving DEF Serves, LockInv, Holding
    <3> QED
      BY <1>2, <2>2, <3>1 DEF Serves, IInv, NameInv
  <2>3. CASE pc[m] = "spawn" /\ loc[m].op = "start" /\ loc'[m].inst = loc[m].id
    <3>1. ~(procs[p].kind = "server" /\ procs'[p].inst = procs[p].inst)
      BY <1>2, <2>3 DEF IInv, FreshInv, Alive, Serves
    <3>2. PICK n \in Managers :
            pc[n] = "spawn" /\ pc'[n] = "record" /\ p = loc'[n].pid
      BY <1>2, <3>1, Serving DEF Serves
    <3> QED
      BY <2>1, <2>3, <3>2 DEF LockInv, Holding
  <2> QED
    BY <1>2, <2>2, <2>3, MovesStep DEF Moves
<1>3. ASSUME NEW m \in Managers, pc'[m] \in Sweeping, NEW p \in Pids,
             Serves(p, loc[m].inst)'
      PROVE  FALSE
  <2>1. LockInv'
    BY LockStep
  <2>2. procs[p].kind = "server" /\ procs'[p].inst = procs[p].inst
    BY <1>3, <2>1, Serving DEF Serves, LockInv, Holding, Sweeping
  <2> QED
    BY <1>3, <1>s, <2>2 DEF Serves
<1> QED
  BY <1>s, <1>1, <1>2, <1>3 DEF NameInv, Alive

(* ForeignInv is preserved: a signal goes to a pid whose owner was read    *)
(* under the same lock.                                                    *)
LEMMA ForeignInvStep == IInv /\ [Next]_vars => ForeignInv'
<1> SUFFICES ASSUME IInv, [Next]_vars PROVE ForeignInv'
  OBVIOUS
<1>1. ASSUME NEW p \in Pids, procs'[p].kind = "foreign",
             procs'[p].parent = Nobody
      PROVE  procs'[p].sig = "none"
  <2>1. Effect(p)
    BY ProcessStep DEF ProcsStep
  <2>2. CASE Kept(p)
    BY <1>1, <2>2 DEF Kept, IInv, ForeignInv, OldForeignSafe
  <2>3. CASE Started(p)
    BY <1>1, <2>3 DEF Started, IInv, ProcInv
  <2>4. ASSUME NEW m \in Managers, SignalledBy(m, p)
        PROVE  FALSE
    BY <1>1, <2>4, ServiceAssumption DEF SignalledBy, IInv, ForeignInv
  <2> QED
    BY <1>1, <2>1, <2>2, <2>3, <2>4 DEF Effect, Ended, Advanced, SpawnedBy
<1>2. ASSUME NEW m \in Managers, pc'[m] \in Stopping,
             procs'[loc'[m].pid].kind = "foreign"
      PROVE  procs'[loc'[m].pid].parent = m
  <2> DEFINE p == loc'[m].pid
  <2>1. \/ pc[m] \in Stopping /\ loc'[m] = loc[m]
        \/ pc[m] = "check" /\ procs' = procs /\ procs[p].kind = "server"
    BY <1>2, MovesStep DEF Moves
  <2>2. pc[m] \in Stopping /\ loc'[m] = loc[m]
    BY <1>2, <2>1
  <2>3. p \in Pids /\ lock = m
    BY <2>2 DEF IInv, LocInv, LockInv, Holding, Stopping, Watching
  <2>4. Effect(p)
    BY <2>3, ProcessStep DEF ProcsStep
  <2>5. CASE Kept(p)
    BY <1>2, <2>2, <2>5 DEF Kept, IInv, ForeignInv
  <2>6. ASSUME NEW n \in Managers, SignalledBy(n, p)
        PROVE  procs'[p].parent = m
    BY <1>2, <2>2, <2>6 DEF SignalledBy, IInv, ForeignInv
  <2> QED
    BY <1>2, <2>3, <2>4, <2>5, <2>6
    DEF Effect, Ended, Advanced, Started, SpawnedBy
<1> QED
  BY <1>1, <1>2 DEF ForeignInv, OldForeignSafe

(* Servers can be counted.                                                 *)
LEMMA ServersFinite == IsFiniteSet(Servers) /\ IsFiniteSet(Stray)
  BY ServiceAssumption, FS_Subset DEF Servers, Stray

(* A server that is stray after a step was so before it, or was there but  *)
(* could be found.                                                         *)
LEMMA StrayBefore ==
  ASSUME IInv, [Next]_vars, NEW p \in Stray'
  PROVE  /\ p \in Servers /\ procs'[p].inst = procs[p].inst
         /\ procs[p].inst \in Instances
<1>1. p \in Pids /\ procs'[p].kind = "server" /\ ~Named(procs[p].inst)'
  BY DEF Stray, Servers
<1>2. ASSUME NEW m \in Managers, pc[m] = "spawn", pc'[m] = "record",
             procs'[p].inst = loc[m].id
      PROVE  FALSE
  <2>1. loc'[m].inst = loc[m].id
    BY <1>2, MovesStep DEF Moves
  <2> QED
    BY <1>1, <1>2, <2>1 DEF Named, At
<1>3. procs[p].kind = "server" /\ procs'[p].inst = procs[p].inst
  BY <1>1, <1>2, Serving
<1> QED
  BY <1>1, <1>3 DEF Servers, IInv, ProcInv

(* StrayInv is preserved: a server gets lost only with its manager.        *)
LEMMA StrayStep == IInv /\ [Next]_vars => StrayInv'
<1> SUFFICES ASSUME IInv, [Next]_vars PROVE StrayInv'
  OBVIOUS
<1> DEFINE before == MaxFaults - budget.faults
           after == MaxFaults - budget'.faults
<1>1. before \in Nat /\ after \in Nat /\ before <= after
  BY Faults, ServiceAssumption
<1>2. /\ IsFiniteSet(Stray) /\ Cardinality(Stray) \in Nat
      /\ Cardinality(Stray) <= before
  BY ServersFinite, FS_CardinalityType DEF IInv, StrayInv
<1>3. CASE Stray' \subseteq Stray
  <2>1. Cardinality(Stray') <= Cardinality(Stray) /\ Cardinality(Stray') \in Nat
    BY <1>2, <1>3, FS_Subset, FS_CardinalityType
  <2> QED
    BY <1>1, <1>2, <2>1 DEF StrayInv
<1>4. ASSUME NEW q \in Stray', q \notin Stray
      PROVE  StrayInv'
  <2>1. \A p \in Stray' : p \notin Stray =>
          /\ budget'.faults < budget.faults
          /\ \E m \in Managers : pc[m] = "record" /\ p = loc[m].pid
    <3> SUFFICES ASSUME NEW p \in Stray', p \notin Stray
                 PROVE  /\ budget'.faults < budget.faults
                        /\ \E m \in Managers : pc[m] = "record" /\ p = loc[m].pid
      OBVIOUS
    <3> DEFINE i == procs[p].inst
    <3>1. p \in Pids /\ Serves(p, i) /\ i \in Instances /\ procs'[p].inst = i
      BY StrayBefore DEF Servers, Serves
    <3>2. Named(i) /\ ~Named(i)' /\ Alive(i)
      BY <3>1, Zenon DEF Stray, Servers, Serves, Alive
    <3>3. PICK m \in Managers : /\ budget'.faults < budget.faults
                                /\ pc[m] = "record" /\ i = loc[m].inst
      BY <3>1, <3>2, NamedStep DEF NamedMoves
    <3>4. p = loc[m].pid
      BY <3>1, <3>3 DEF IInv, NameInv
    <3> QED
      BY <3>3, <3>4
  <2>2. budget'.faults < budget.faults
    BY <1>4, <2>1
  <2>3. Stray' \subseteq Stray \cup {q}
    BY <1>4, <2>1 DEF IInv, LockInv, Holding
  <2>4. /\ Cardinality(Stray') <= Cardinality(Stray) + 1
        /\ Cardinality(Stray') \in Nat
    <3>1. /\ IsFiniteSet(Stray \cup {q})
          /\ Cardinality(Stray \cup {q}) = Cardinality(Stray) + 1
      BY <1>2, <1>4, FS_AddElement
    <3> QED
      BY <2>3, <3>1, FS_Subset, FS_CardinalityType
  <2>5. before + 1 <= after
    BY <2>2, Faults, ServiceAssumption
  <2> QED
    BY <1>1, <1>2, <2>4, <2>5 DEF StrayInv
<1> QED
  BY <1>3, <1>4

(* LeftInv is preserved: without a fault every server can be found, and so *)
(* can what it publishes.                                                  *)
LEMMA LeftInvStep == IInv /\ [Next]_vars => LeftInv'
<1> SUFFICES ASSUME IInv, [Next]_vars, NoFault'
             PROVE  /\ \A i \in ready' : Named(i)'
                    /\ \A m \in Managers : pc'[m] = "sweepState" => ready' = {}
  BY DEF LeftInv, At
<1>1. NoFault /\ ~(budget'.faults < budget.faults)
  BY Faults, ServiceAssumption DEF NoFault
<1>2. /\ \A i \in ready : Named(i)
      /\ \A m \in Managers : pc[m] = "sweepState" => ready = {}
      /\ ready \subseteq Instances
  BY <1>1 DEF IInv, LeftInv, At, TypeOK
<1>3. Stray = {}
  <2>1. Cardinality(Stray) <= 0
    BY <1>1, ServiceAssumption DEF IInv, StrayInv, NoFault
  <2> QED
    BY <2>1, ServersFinite, FS_CardinalityType, FS_EmptySet
<1>4. \A p \in Pids : procs[p].kind = "server" => Named(procs[p].inst)
  BY <1>3 DEF Stray, Servers
<1>r. /\ \/ ready' = ready
         \/ \E m \in Managers : /\ pc[m] = "sweepReady" /\ pc'[m] = "sweepState"
                                /\ ready' = ready \ {loc[m].inst}
         \/ \E p \in Pids : /\ procs[p].kind = "server"
                            /\ ready' = ready \cup {procs[p].inst}
                            /\ UNCHANGED <<service, pc, loc>>
         \/ \E p \in Pids : /\ procs[p].kind = "server"
                            /\ ready' = ready \ {procs[p].inst}
                            /\ UNCHANGED <<service, pc, loc>>
      /\ \A m \in Managers : pc'[m] = "sweepState" =>
           /\ loc'[m] = loc[m]
           /\ \/ pc[m] = "sweepState"
              \/ pc[m] = "sweepReady" /\ ready' = ready \ {loc[m].inst}
  BY ReadyStep DEF ReadyMoves
<1>5. ASSUME NEW i \in ready' PROVE Named(i)'
  <2>1. CASE i \in ready
    <3>1. Named(i) /\ i \in Instances
      BY <1>2, <2>1
    <3>2. ~\E m \in Managers : pc[m] = "sweepState"
      BY <1>2, <2>1
    <3> QED
      BY <1>1, <3>1, <3>2, NamedStep DEF NamedMoves
  <2>2. CASE i \notin ready
    <3>1. PICK p \in Pids : /\ procs[p].kind = "server" /\ i = procs[p].inst
                            /\ UNCHANGED <<service, pc, loc>>
      BY <1>r, <1>5, <2>2
    <3>2. Named(i)
      BY <1>4, <3>1
    <3> QED
      BY <3>1, <3>2 DEF Named, At
  <2> QED
    BY <2>1, <2>2
<1>6. ASSUME NEW m \in Managers, pc'[m] = "sweepState" PROVE ready' = {}
  <2>1. /\ service # NoState /\ service.inst = loc[m].inst
        /\ ~Alive(loc[m].inst) /\ lock = m
    BY <1>r, <1>6 DEF IInv, NameInv, Sweeping, LockInv, Holding
  <2>2. \A i : Named(i) => i = loc[m].inst
    BY <1>r, <1>6, <2>1 DEF Named, At, IInv, LockInv, Holding
  <2>3. CASE pc[m] = "sweepReady" /\ ready' = ready \ {loc[m].inst}
    BY <1>2, <2>2, <2>3
  <2>4. CASE pc[m] = "sweepState"
    <3>1. ready = {}
      BY <1>2, <2>4
    <3>2. \A p \in Pids : procs[p].kind # "server"
      BY <1>4, <2>1, <2>2 DEF Alive, Serves
    <3> QED
      BY <1>r, <3>1, <3>2
  <2> QED
    BY <1>r, <1>6, <2>3, <2>4
<1> QED
  BY <1>5, <1>6

(* No server runs the instance of an absent state file.                    *)
LEMMA NoInstance == NoState.inst = 0 /\ 0 \notin Instances
<1>1. NoState.inst = 0
  BY DEF NoState
<1>2. 0 \notin Instances
  BY ServiceAssumption DEF Instances
<1> QED
  BY <1>1, <1>2

(* A server whose start is under way: nobody ends it.                      *)
LEMMA StartingStep ==
  ASSUME IInv, [Next]_vars, NEW m \in Managers,
         pc'[m] \in {"record", "wait", "confirm"}, NEW p \in Pids,
         procs'[p].kind = "server", procs'[p].inst = loc'[m].inst
  PROVE  procs'[p].sig = "none" /\ procs'[p].stage # "closing"
<1>1. LockInv /\ LockInv' /\ Effect(p)
  BY LockStep, ProcessStep DEF IInv, ProcsStep
<1>2. lock' = m
  BY <1>1 DEF LockInv, Holding
<1>3. ASSUME NEW n \in Managers, SpawnedBy(n, p)
      PROVE  procs'[p].sig = "none" /\ procs'[p].stage # "closing"
  BY <1>3 DEF SpawnedBy
<1>4. ASSUME NEW n \in Managers, SignalledBy(n, p)
      PROVE  FALSE
  <2>1. n = m
    BY <1>1, <1>2, <1>4 DEF SignalledBy, LockInv, Holding
  <2> QED
    BY <1>4, <2>1 DEF SignalledBy
<1>5. ASSUME procs[p].kind = "server", procs'[p].inst = procs[p].inst
      PROVE  procs[p].sig = "none" /\ procs[p].stage # "closing"
  <2>1. CASE pc[m] \in {"record", "wait", "confirm"} /\ loc'[m] = loc[m]
    BY <1>5, <2>1 DEF IInv, ReadyInv, Serves
  <2>2. CASE pc[m] = "spawn" /\ loc[m].op = "start" /\ loc'[m].inst = loc[m].id
    BY <1>5, <2>2 DEF IInv, FreshInv, Alive, Serves
  <2> QED
    BY <2>1, <2>2, MovesStep DEF Moves
<1>6. CASE Kept(p)
  BY <1>5, <1>6 DEF Kept
<1>7. CASE Advanced(p)
  BY <1>5, <1>7 DEF Advanced
<1> QED
  BY <1>1, <1>3, <1>4, <1>6, <1>7 DEF Effect, Ended, Started

(* ReadyInv is preserved: a ready file goes away with its server, or when  *)
(* that is dead.                                                           *)
LEMMA ReadyInvStep == IInv /\ [Next]_vars => ReadyInv'
<1> SUFFICES ASSUME IInv, [Next]_vars PROVE ReadyInv'
  OBVIOUS
<1>r. /\ \/ ready' = ready
         \/ \E m \in Managers : /\ pc[m] = "sweepReady" /\ pc'[m] = "sweepState"
                                /\ ready' = ready \ {loc[m].inst}
         \/ \E p \in Pids : /\ procs[p].kind = "server"
                            /\ ready' = ready \cup {procs[p].inst}
                            /\ UNCHANGED <<service, pc, loc>>
         \/ \E p \in Pids : /\ procs[p].kind = "server"
                            /\ procs[p].stage = "closing"
                            /\ procs'[p].kind # "server"
                            /\ ready' = ready \ {procs[p].inst}
                            /\ UNCHANGED <<service, pc, loc>>
      /\ \A m \in Managers : pc'[m] = "confirm" =>
           \/ pc[m] = "confirm"
           \/ pc[m] = "wait" /\ loc[m].inst \in ready /\ ready' = ready
  BY ReadyStep DEF ReadyMoves
<1>1. ASSUME NEW m \in Managers, pc'[m] = "confirm"
      PROVE  loc'[m].inst \in ready'
  <2>1. loc'[m] = loc[m]
    BY <1>1, MovesStep DEF Moves
  <2>2. CASE pc[m] = "confirm"
    <3>1. loc[m].inst \in ready /\ lock = m
      BY <2>2 DEF IInv, ReadyInv, LockInv, Holding
    <3>2. ASSUME NEW n \in Managers, pc[n] = "sweepReady" PROVE FALSE
      BY <2>2, <3>1, <3>2 DEF IInv, LockInv, Holding
    <3>3. ASSUME NEW p \in Pids, procs[p].kind = "server",
                 procs[p].stage = "closing"
          PROVE  procs[p].inst # loc[m].inst
      BY <2>2, <3>3 DEF IInv, ReadyInv, Serves
    <3> QED
      BY <1>r, <2>1, <3>1, <3>2, <3>3
  <2>3. CASE pc[m] = "wait" /\ loc[m].inst \in ready /\ ready' = ready
    BY <2>1, <2>3
  <2> QED
    BY <1>r, <1>1, <2>2, <2>3
<1>2. ASSUME NoFault', Quiet', Alive(service.inst)'
      PROVE  service'.status = "running" /\ service'.inst \in ready'
  <2>1. PICK p \in Pids :
          procs'[p].kind = "server" /\ procs'[p].inst = service'.inst
    BY <1>2 DEF Alive, Serves
  <2>2. procs[p].kind = "server" /\ procs'[p].inst = procs[p].inst
    BY <1>2, <2>1, Serving DEF Quiet, Holding, At
  <2>3. NoFault /\ ~(budget'.faults < budget.faults)
    BY <1>2, Faults, ServiceAssumption DEF NoFault
  <2>4. CASE Quiet /\ service' = service
    <3>1. service.status = "running" /\ service.inst \in ready
      BY <2>1, <2>2, <2>3, <2>4 DEF IInv, ReadyInv, Quiet, Alive, Serves
    <3>2. service # NoState
      BY <2>1, <2>2, <2>4, NoInstance DEF IInv, ProcInv
    <3>3. ASSUME NEW n \in Managers, pc[n] = "sweepReady" PROVE FALSE
      BY <2>4, <3>3 DEF Quiet, Holding, At
    <3>4. ASSUME NEW q \in Pids, procs[q].kind = "server",
                 procs'[q].kind # "server"
          PROVE  procs[q].inst # service.inst
      BY <2>1, <2>2, <2>4, <3>2, <3>4 DEF IInv, NameInv, Serves
    <3> QED
      BY <1>r, <2>4, <3>1, <3>3, <3>4
  <2>5. CASE service' = NoState
    BY <2>1, <2>2, <2>5, NoInstance DEF IInv, ProcInv
  <2>6. CASE service' = service /\ ~Alive(service.inst)
    BY <2>1, <2>2, <2>6 DEF Alive, Serves
  <2>7. ASSUME NEW m \in Managers, pc[m] = "confirm",
               service'.inst = loc[m].inst, service'.status = "running"
        PROVE  service'.inst \in ready'
    <3>1. loc[m].inst \in ready /\ lock = m
      BY <2>7 DEF IInv, ReadyInv, LockInv, Holding
    <3>2. ASSUME NEW n \in Managers, pc[n] = "sweepReady" PROVE FALSE
      BY <2>7, <3>1, <3>2 DEF IInv, LockInv, Holding
    <3>3. ASSUME NEW q \in Pids, procs[q].kind = "server",
                 procs[q].stage = "closing"
          PROVE  procs[q].inst # loc[m].inst
      BY <2>7, <3>3 DEF IInv, ReadyInv, Serves
    <3> QED
      BY <1>r, <2>7, <3>1, <3>2, <3>3
  <2> QED
    BY <1>2, <2>3, <2>4, <2>5, <2>6, <2>7, QuietStep DEF QuietMoves
<1>3. \A m \in Managers : pc'[m] \in {"record", "wait", "confirm"} =>
        \A p \in Pids : Serves(p, loc[m].inst)' =>
          procs'[p].sig = "none" /\ procs'[p].stage # "closing"
  BY StartingStep DEF Serves
<1> QED
  BY <1>1, <1>2, <1>3 DEF ReadyInv, Quiet

-----------------------------------------------------------------------------
(* IInv is inductive.                                                      *)
THEOREM Inductive == IInv /\ [Next]_vars => IInv'
<1> SUFFICES ASSUME IInv, [Next]_vars PROVE IInv'
  OBVIOUS
<1>1. TypeOK'
  BY FlowStep, LocTypeStep, FilesStep, BudgetStep, ProcessStep, Zenon
  DEF TypeOK, FlowType, LocType, Local, FilesType, BudgetType, ProcsStep
<1> QED
  BY <1>1, LockStep, LocStep, IdStep, ProcInvStep, FreshInvStep, NameInvStep,
     ForeignInvStep, StrayStep, LeftInvStep, ReadyInvStep, Zenon
  DEF IInv

(* It holds with nothing running.                                          *)
LEMMA Initial == Init => IInv
<1> SUFFICES ASSUME Init PROVE IInv
  OBVIOUS
<1>1. /\ lock = Nobody /\ service = NoState /\ ready = {}
      /\ procs = [p \in Pids |-> Idle]
      /\ pc = [m \in Managers |-> "idle"]
      /\ loc = [m \in Managers |-> Fresh]
      /\ result = [m \in Managers |-> "none"]
      /\ budget = [ops |-> MaxOps, foreign |-> MaxForeign,
                   deaths |-> MaxDeaths, faults |-> MaxFaults]
      /\ {MaxOps, MaxForeign, MaxDeaths, MaxFaults} \subseteq Nat
      /\ Nobody \notin Managers
  BY ServiceAssumption DEF Init
<1>2. TypeOK
  <2>1. procs \in [Pids -> Process]
    BY <1>1, IdleFacts
  <2>2. loc \in [Managers -> Local]
    BY <1>1, FreshFacts
  <2>3. FlowType /\ FilesType /\ BudgetType
    BY <1>1 DEF FlowType, FilesType, BudgetType, Steps, Results
  <2> QED
    BY <2>1, <2>2, <2>3, Zenon
    DEF TypeOK, FlowType, Local, FilesType, BudgetType
<1>3. /\ \A p \in Pids : procs[p].kind = "none" /\ procs[p].sig = "none"
      /\ \A m \in Managers : pc[m] = "idle" /\ loc[m].op = "none"
  BY <1>1, IdleFacts DEF Fresh
<1>4. LockInv /\ LocInv /\ IdInv /\ ProcInv /\ FreshInv /\ NameInv
  BY <1>1, <1>3
  DEF LockInv, Holding, LocInv, IdInv, ProcInv, FreshInv, NameInv, Watching,
      Stopping, Sweeping, Live
<1>5. ForeignInv /\ LeftInv /\ ReadyInv
  BY <1>1, <1>3
  DEF ForeignInv, OldForeignSafe, LeftInv, ReadyInv, Stopping, At, Alive, Serves
<1>6. StrayInv
  <2>1. Stray = {} /\ budget.faults = MaxFaults /\ MaxFaults \in Nat
    BY <1>1, <1>3 DEF Stray, Servers
  <2> QED
    BY <2>1, FS_EmptySet DEF StrayInv
<1> QED
  BY <1>2, <1>4, <1>5, <1>6 DEF IInv

(* So it always holds, however starts, stops, deaths and foreign processes *)
(* interleave.                                                             *)
THEOREM Invariance == Spec => []IInv
  BY Initial, Inductive, PTL DEF Spec

(* It gives ServiceSound: at most one server can be found, all others are  *)
(* stray.                                                                  *)
LEMMA Sound == IInv => ServiceSound
<1> SUFFICES ASSUME IInv PROVE ServiceSound
  OBVIOUS
<1> DEFINE faults == MaxFaults - budget.faults
<1>1. /\ IsFiniteSet(Servers) /\ IsFiniteSet(Stray)
      /\ Cardinality(Stray) \in Nat /\ Cardinality(Stray) <= faults
      /\ faults \in Nat
  BY ServersFinite, FS_CardinalityType, ServiceAssumption
  DEF IInv, StrayInv, TypeOK
<1>2. OneServicePerFault
  <2>1. PICK q : \A p \in Servers : p \in Stray \/ p = q
    <3>1. CASE \E m \in Managers : pc[m] = "record"
      <4>1. PICK m \in Managers : pc[m] = "record"
        BY <3>1
      <4>2. service = NoState /\ lock = m
        BY <4>1 DEF IInv, NameInv, LockInv, Holding
      <4>3. \A p \in Servers : p \in Stray \/ p = loc[m].pid
        BY <4>1, <4>2
        DEF Stray, Servers, Named, At, IInv, NameInv, Serves, LockInv, Holding
      <4> QED
        BY <4>3
    <3>2. CASE ~\E m \in Managers : pc[m] = "record"
      <4>1. \A p \in Servers : p \in Stray \/ p = service.pid
        BY <3>2 DEF Stray, Servers, Named, At, IInv, NameInv, Serves
      <4> QED
        BY <4>1
    <3> QED
      BY <3>1, <3>2
  <2>2. Servers \subseteq Stray \cup {q}
    BY <2>1
  <2>3. /\ IsFiniteSet(Stray \cup {q})
        /\ Cardinality(Stray \cup {q}) <= Cardinality(Stray) + 1
        /\ Cardinality(Stray \cup {q}) \in Nat
    <3>1. CASE q \in Stray
      <4>1. Stray \cup {q} = Stray
        BY <3>1
      <4> QED
        BY <1>1, <4>1
    <3>2. CASE q \notin Stray
      BY <1>1, <3>2, FS_AddElement
    <3> QED
      BY <3>1, <3>2
  <2>4. /\ Cardinality(Servers) <= Cardinality(Stray \cup {q})
        /\ Cardinality(Servers) \in Nat
    BY <2>2, <2>3, <1>1, FS_Subset, FS_CardinalityType
  <2> QED
    BY <1>1, <2>3, <2>4 DEF OneServicePerFault
<1>3. ASSUME NoFault, lock = Nobody, service = NoState
      PROVE  Servers = {} /\ ready = {}
  <2>1. \A i : ~Named(i)
    BY <1>3, ServiceAssumption DEF Named, At, IInv, LockInv, Holding
  <2>2. Stray = {}
    BY <1>1, <1>3, FS_EmptySet, ServiceAssumption DEF NoFault
  <2> QED
    BY <1>3, <2>1, <2>2 DEF Stray, IInv, LeftInv
<1> QED
  BY <1>2, <1>3 DEF ServiceSound, NothingLeft, IInv

(* ServiceSound holds always: types, one server at most for each fault and *)
(* one more, and without a fault nothing left behind where no state file   *)
(* is.                                                                     *)
THEOREM ServicesSound == Spec => []ServiceSound
  BY Invariance, Sound, PTL

(* No foreign process that took its pid while no manager held the lock is  *)
(* ever signalled.                                                         *)
THEOREM OldForeignsSafe == Spec => []OldForeignSafe
<1>1. IInv => OldForeignSafe
  BY DEF IInv, ForeignInv
<1> QED
  BY <1>1, Invariance, PTL

(* The two action properties, and for the second what is known when a      *)
(* start succeeds.                                                         *)
Outlives == service'.inst # service.inst => ~Alive(service.inst)

AlreadyMoves == \A m \in Managers : Ends(m, {"started", "already"}) =>
  \/ /\ pc[m] = "check" /\ Alive(service.inst) /\ ready' = ready
     /\ service' = service /\ service.config = loc[m].config
  \/ /\ pc[m] = "confirm" /\ ready' = ready
     /\ service' = StateOf(m, "running")

(* StateOutlivesServer, step by step.                                      *)
LEMMA OutlivesStep == IInv /\ [Next]_vars => Outlives
<1> SUFFICES ASSUME IInv, [Next]_vars PROVE Outlives
  OBVIOUS
<1> USE DEF IInv, TypeOK, LockInv, Holding, LocInv, Watching, Stopping,
    Sweeping, Fresh, At, Goto, Return, ServerUnchanged, FoundRunning,
    FoundDead, FoundNothing, files, Outlives, NameInv, ProcInv, Alive,
    Serves, StateOf
<1>1. ASSUME NEW m \in Managers, NEW o \in {"start", "stop"},
             NEW c \in Configs \cup {Nobody}, Request(m, o, c),
             o = "start" => c \in Configs
      PROVE  Outlives
  BY <1>1 DEF Request
<1>2. ASSUME NEW m \in Managers, Acquire(m) PROVE Outlives
  BY <1>2 DEF Acquire
<1>3. ASSUME NEW m \in Managers, Check(m) PROVE Outlives
  BY <1>3 DEF Check
<1>4. ASSUME NEW m \in Managers, SweepReady(m) PROVE Outlives
  BY <1>4 DEF SweepReady
<1>5. ASSUME NEW m \in Managers, SweepState(m) PROVE Outlives
  BY <1>5 DEF SweepState
<1>6. ASSUME NEW m \in Managers, Spawn(m) PROVE Outlives
  BY <1>6 DEF Spawn
<1>7. ASSUME NEW m \in Managers, Record(m) PROVE Outlives
  BY <1>7, NoInstance DEF Record
<1>8. ASSUME NEW m \in Managers, SeeReady(m) PROVE Outlives
  BY <1>8 DEF SeeReady
<1>9. ASSUME NEW m \in Managers, Confirm(m) PROVE Outlives
  BY <1>9 DEF Confirm
<1>10. ASSUME NEW m \in Managers, GiveUp(m) PROVE Outlives
  BY <1>10 DEF GiveUp
<1>11. ASSUME NEW m \in Managers, FailWait(m) PROVE Outlives
  BY <1>11 DEF FailWait
<1>12. ASSUME NEW m \in Managers, FailKill(m) PROVE Outlives
  BY <1>12 DEF FailKill
<1>13. ASSUME NEW m \in Managers, Term(m) PROVE Outlives
  BY <1>13 DEF Term
<1>14. ASSUME NEW m \in Managers, StopWait(m) PROVE Outlives
  BY <1>14 DEF StopWait
<1>15. ASSUME NEW m \in Managers, Recheck(m) PROVE Outlives
  BY <1>15 DEF Recheck
<1>16. ASSUME NEW m \in Managers, Kill(m) PROVE Outlives
  BY <1>16 DEF Kill
<1>17. ASSUME NEW m \in Managers, PidTaken(m) PROVE Outlives
  BY <1>17 DEF PidTaken
<1>18. ASSUME NEW m \in Managers, KillTooSlow(m) PROVE Outlives
  BY <1>18 DEF KillTooSlow
<1>19. ASSUME NEW m \in Managers, Crash(m) PROVE Outlives
  BY <1>19 DEF Crash
<1>20. ASSUME NEW p \in Pids, ServerStep(p) \/ Environment(p)
      PROVE  Outlives
  BY <1>20 DEF ServerStep, Environment, Bind, Publish, TakeTerm, Close,
      TakeKill, Die, ForeignStarts, ForeignEnds
<1>21. CASE UNCHANGED vars
  BY <1>21 DEF vars
<1> QED
  BY <1>1, <1>2, <1>3, <1>4, <1>5, <1>6, <1>7, <1>8, <1>9, <1>10, <1>11,
      <1>12, <1>13, <1>14, <1>15, <1>16, <1>17, <1>18, <1>19, <1>20, <1>21
  DEF Next, ManagerStep

(* A start ends in success in one of two places.                           *)
LEMMA AlreadyStep == IInv /\ [Next]_vars => AlreadyMoves
<1> SUFFICES ASSUME IInv, [Next]_vars PROVE AlreadyMoves
  OBVIOUS
<1> USE DEF IInv, TypeOK, LockInv, Holding, LocInv, Watching, Stopping,
    Sweeping, Fresh, At, Goto, Return, ServerUnchanged, FoundRunning,
    FoundDead, FoundNothing, files, AlreadyMoves, Ends, Owner, Live, Serves,
    Alive, Results
<1>1. ASSUME NEW m \in Managers, NEW o \in {"start", "stop"},
             NEW c \in Configs \cup {Nobody}, Request(m, o, c),
             o = "start" => c \in Configs
      PROVE  AlreadyMoves
  BY <1>1 DEF Request
<1>2. ASSUME NEW m \in Managers, Acquire(m) PROVE AlreadyMoves
  BY <1>2 DEF Acquire
<1>3. ASSUME NEW m \in Managers, Check(m) PROVE AlreadyMoves
  BY <1>3 DEF Check
<1>4. ASSUME NEW m \in Managers, SweepReady(m) PROVE AlreadyMoves
  BY <1>4 DEF SweepReady
<1>5. ASSUME NEW m \in Managers, SweepState(m) PROVE AlreadyMoves
  BY <1>5 DEF SweepState
<1>6. ASSUME NEW m \in Managers, Spawn(m) PROVE AlreadyMoves
  BY <1>6 DEF Spawn
<1>7. ASSUME NEW m \in Managers, Record(m) PROVE AlreadyMoves
  BY <1>7 DEF Record
<1>8. ASSUME NEW m \in Managers, SeeReady(m) PROVE AlreadyMoves
  BY <1>8 DEF SeeReady
<1>9. ASSUME NEW m \in Managers, Confirm(m) PROVE AlreadyMoves
  BY <1>9 DEF Confirm
<1>10. ASSUME NEW m \in Managers, GiveUp(m) PROVE AlreadyMoves
  BY <1>10 DEF GiveUp
<1>11. ASSUME NEW m \in Managers, FailWait(m) PROVE AlreadyMoves
  BY <1>11 DEF FailWait
<1>12. ASSUME NEW m \in Managers, FailKill(m) PROVE AlreadyMoves
  BY <1>12 DEF FailKill
<1>13. ASSUME NEW m \in Managers, Term(m) PROVE AlreadyMoves
  BY <1>13 DEF Term
<1>14. ASSUME NEW m \in Managers, StopWait(m) PROVE AlreadyMoves
  BY <1>14 DEF StopWait
<1>15. ASSUME NEW m \in Managers, Recheck(m) PROVE AlreadyMoves
  BY <1>15 DEF Recheck
<1>16. ASSUME NEW m \in Managers, Kill(m) PROVE AlreadyMoves
  BY <1>16 DEF Kill
<1>17. ASSUME NEW m \in Managers, PidTaken(m) PROVE AlreadyMoves
  BY <1>17 DEF PidTaken
<1>18. ASSUME NEW m \in Managers, KillTooSlow(m) PROVE AlreadyMoves
  BY <1>18 DEF KillTooSlow
<1>19. ASSUME NEW m \in Managers, Crash(m) PROVE AlreadyMoves
  BY <1>19 DEF Crash
<1>20. ASSUME NEW p \in Pids, ServerStep(p) \/ Environment(p)
      PROVE  AlreadyMoves
  BY <1>20 DEF ServerStep, Environment, Bind, Publish, TakeTerm, Close,
      TakeKill, Die, ForeignStarts, ForeignEnds
<1>21. CASE UNCHANGED vars
  BY <1>21 DEF vars
<1> QED
  BY <1>1, <1>2, <1>3, <1>4, <1>5, <1>6, <1>7, <1>8, <1>9, <1>10, <1>11,
      <1>12, <1>13, <1>14, <1>15, <1>16, <1>17, <1>18, <1>19, <1>20, <1>21
  DEF Next, ManagerStep

(* The state file is never removed or replaced while its server is alive.  *)
THEOREM StatesOutliveServers == Spec => StateOutlivesServer
<1>1. IInv /\ [Next]_vars =>
        [service'.inst # service.inst => ~Alive(service.inst)]_vars
  BY OutlivesStep DEF Outlives
<1> QED
  BY <1>1, Invariance, PTL DEF Spec, StateOutlivesServer

(* A start that succeeds without a fault, by step.                         *)
LEMMA StartsReady == IInv /\ [Next]_vars =>
  \A m \in Managers : NoFault /\ Ends(m, {"started", "already"}) =>
    /\ service'.config = loc[m].config
    /\ service'.status = "running" /\ service'.inst \in ready'
<1> SUFFICES ASSUME IInv, [Next]_vars, NEW m \in Managers, NoFault,
                    Ends(m, {"started", "already"})
             PROVE  /\ service'.config = loc[m].config
                    /\ service'.status = "running" /\ service'.inst \in ready'
  OBVIOUS
<1>1. CASE /\ pc[m] = "check" /\ Alive(service.inst) /\ ready' = ready
           /\ service' = service /\ service.config = loc[m].config
  <2>1. \A n \in Managers : Holding(n) => At(n, "check")
    BY <1>1 DEF IInv, LockInv, Holding, At
  <2> QED
    BY <1>1, <2>1 DEF IInv, ReadyInv
<1>2. CASE /\ pc[m] = "confirm" /\ ready' = ready
           /\ service' = StateOf(m, "running")
  BY <1>2 DEF StateOf, IInv, ReadyInv
<1> QED
  BY <1>1, <1>2, AlreadyStep DEF AlreadyMoves

(* A start that succeeds without a fault has a server that is ready and    *)
(* has the configuration asked for.                                        *)
THEOREM StartedsReady == Spec => StartedIsReady
<1>1. IInv /\ [Next]_vars =>
        [\A m \in Managers : NoFault /\ Ends(m, {"started", "already"}) =>
           /\ service'.config = loc[m].config
           /\ service'.status = "running" /\ service'.inst \in ready']_vars
  BY StartsReady
<1> QED
  BY <1>1, Invariance, PTL DEF Spec, StartedIsReady
=============================================================================
