# Verification of the Maze Client

TLA+ models, TLC runs and TLAPS proofs kept beside the Maze Client: the C++ program that runs maze
Episodes against an AIServer, the header-only RL-SDK it speaks the lifecycle protocol with, and the
scripts and services around it. Every definition is a translation of code; `PROJECT.json` maps each one
to its lines.

## 1. Inventory

| Component | State | Operations | Interacts with | Hard behaviour |
|---|---|---|---|---|
| Session, client side (`session.h`, `task_client.h`, `transport.h`) | cursor (phase, next sequence, episode id), error text, current request | OpenSession, Init, BeginEpisode, Update, EndEpisode, AbortEpisode, CloseSession; the WAIT loop; two transport attempts per call | AIServer by unary gRPC; the binding by callbacks; the stop flag | timeouts, lost replies, late attempts, WAITs without a budget, cleanup after a failure |
| Session, server side (`server_command.h`, `replay_window.h`) | phase, last sequence, stored request and reply | CheckCommand, CommitCommand, RejectCommand | AIServer handlers call it | replays, byte-identical requests, out-of-order commands |
| Task binding (`client_adapter.cpp`, `assignment.h`) | last open reply, execution cursors, episode number, chain_failed | Open, Initialize, Begin, RunEpisode, End, Abort, Close | RL-SDK, environment, recorder | one step of several failing; results reported late |
| Maze environment (`maze_env.*`) | agents, frame id, grid | Init, Reset, Step, AdvanceFrame, GetActionMask, AllDone | binding | termination off by one, corner cutting, mask against Step |
| Action receipts (`action_receipt.h`) | per agent: retired, last executed action | Attach, Record, Execute, PrepareAppliedAgentUpdate | binding, environment | a candidate that must not be committed early |
| Frame recorder (`viz_recorder.*`) | open replay file | Begin, RecordFrame, End, CopyMapFile | replay index server, by a file | names that collide, half-written lines |
| Replay index server (`maze_viz_server.py`) | line index and file list caches | list_files, frame count, pages, status, maps | recorder's files, HTTP threads | stale size, concurrent requests |
| Replay service manager (`replay_service.py`) | state file, lock, server process | start, stop | index server, by pid and receipt | crash between two steps, reused pids, two managers at once |
| Managed runtime (`run.sh`, `main.cpp`, `publish_readiness.py`) | client process, ready marker, readiness receipt | start, publish, shutdown | platform, by signals and files | a signal at any moment |
| Configuration (`config_loader.*`) | none after loading | precedence of four sources | main | which source wins |
| Map generator (`generate_maze.py`) | the maze being made; the files of a batch | carve, open, dig, furnish, search, retry, save | the client, by map files | grid and rounding arithmetic, retries that meet other seeds, interrupts |
| Logger, viewers, build and contract scripts, generated protobuf code | none of interest | | | not modelled |

What makes each one correct:

* **Session**: nothing is applied twice, skipped, or acknowledged as something else; the client decides on
  cleanup from a phase that is true; a clean exit leaves the Session closed; a stop always ends it; the first
  failure is the one reported.
* **Episode** (binding, environment, receipts): every executed frame is reported, the last result before End;
  an agent's receipt is the action it was assigned; nothing ends an Episode but the goal or the time limit.
* **Recorder and index server**: no frame is missing from the index, whatever is appended meanwhile, and pages
  hold the frames of their range.
* **Replay service manager**: at most one server, never a signal to a process it does not own, nothing left
  behind by a failed start.
* **Managed runtime**: the receipt is there only for a client that has connected and goes when the client does;
  an exit leaves no receipt, and a marker or a client only where a signal came at one of two places.
* **Map generator**: a saved map has a way by the client's own rule of movement, is accepted by the client, and
  is never written over; a generation ends.

## 2. Plan

| # | Module | Builds on | Says | Status |
|---|---|---|---|---|
| 1 | `CommandLedger` | | abstract promise of the SDK about a Session's commands | done |
| 2 | `SessionProtocol` | refines 1 and 4 | the whole lifecycle protocol, both ends | done |
| 3 | `SessionProtocolProofs` | 2 | type correctness, phase agreement, clean exit, both refinements, kept failures, what commands say of the Episode, what a network without late copies keeps | done |
| 4 | `FrameLoop` | | abstract promise of `RunEpisode` to the protocol and to the environment | done |
| 5 | `MazeEpisode`, `MazeEpisodeProofs` | refines 4 | environment, receipts, validation of action batches | done |
| 6 | `ReplayService`, `ReplayServiceProofs` | | start and stop of the index server under the lock, crashes, reused pids | done |
| 7 | `ReplayIndex`, `ReplayIndexProofs` | | recorder appending, index server scanning and caching | done |
| 8 | `ManagedRuntime`, `ManagedRuntimeProofs` | | wrapper, client, marker, receipt, signals | done |
| 9 | `MazeGrid`, `GridPaths` | | actions, and shortest paths as a definition | done |
| 10 | `ActionSearch`, `ActionSearchProofs` | 9 | the search of generator and client, step by step | done |
| 11 | `MapGenerator`, `MapGeneratorProofs` | 9 | one map, from the first wall to what the client makes of the file | done |
| 12 | `MapBatch`, `MapBatchProofs` | | batches of maps and their files | done |

## 3. Modules and the code

### 3.1 SessionProtocol, one Session end to end

The client is one thread, so its state is where that thread is: `op` is the method `RunSession` is in,
`request` the request that method prepared, `attempt` the transport attempt being waited for (0 at the top of
the loop in `Session::Exchange`), `waits` the WAIT replies of the current Abort, `result` what the Exchange
returned, `verdict` the outcome handed to `finish()`. `cursor` is `Session::cursor_`, `error` the list of
operations whose failures `TaskClient::error_` reports. `frame` and `allDone` are what the protocol reads of
the environment. `phase`, `last`, `window` are the server's `LifecycleCursor` and `LifecycleReplayWindow`;
`late` holds attempts the client gave up on which the network may still deliver. `log` and `acked` are
history: the commands the server applied and those the client accepted as applied.

* The methods of `RunSession` are the actions of `RunSession` in the module; each takes the whole decision of
  the binding's callback, the choice of the next command and the preparation of its request.
* `Session::Exchange` is: send an attempt, receive or give up, retry once, read the reply. A deadline may
  expire before or after the server served the attempt, and the abandoned attempt may stay in `late`.
* `CheckCommand`, `CommitCommand` and `RejectCommand` are the server's handling of an attempt, for a current
  one (`ServeAttempt`) and for a late one (`ServeLate`, whose reply nobody reads).
* What an AIServer decides about a command that passes `CheckCommand` is not in the repository. It is any
  choice that respects the lifecycle: apply in a phase the command is legal in, WAIT where a WAIT is defined,
  or REJECTED. The server is taken to conform in one more way: it answers an Update that is not final with
  RUNNING and a final one with TERMINAL.

`Bytes(r)` is what the replay window compares. `BeginEpisodeReq`, `EndEpisodeReq` and `CloseSessionReq` hold
nothing but a `CommandIdentity`, so it is the same for all three.

### 3.2 MazeEpisode, what happens inside RunEpisode

`agents` and `frame` are `MazeEnv`, `cursors` is the adapter's `agent_execution`, `report` the `UpdateReq`
and `batch` the action batch of its reply, `executed` how far the apply callback has come. `refused` is set
where the adapter sets `chain_failed` for a reason of its own: a receipt that is missing in observe, an
action that is refused in apply. `assigned` and `finals` are history. `Begin`, `Observe`, `UpdateApplied`,
`Execute` (one action of the batch) and `AdvanceFrame` are the callbacks in the order `RunEpisode` calls them.
The batch in a reply is anything that passes `PrepareAppliedAgentUpdate`, drawn from all batches with
agent ids and action ids inside and outside the assignment.

### 3.3 How the two meet

`FrameLoop` is what `RunEpisode` promises to both sides: a frame is executed only after the report of its
predecessor's result was applied, the Episode is ended only after a final report was, and no frame follows.
`SessionProtocol` implements it with an environment
that ends whenever it likes but not after `max_steps`; `MazeEpisode` implements it with a protocol of which
only *applied once* or *given up* is left. Both refinements are checked and proved. So what one module
assumes about the other's part is what the other shows: `MazeEpisode.TerminationSound` is why the environment
in `SessionProtocol` may not run past `MaxFrames`, and `SessionProtocol`'s `ImplementsLedger` is why
`UpdateApplied` is one step. `SessionProtocol` also lets observe and apply fail; `ChainNeverRefuses` shows
that with this environment they do not, so its failures there are an over-approximation.

### 3.4 ReplayService, starting and stopping the Replay server

Any number of runs of `run_replay.sh` (`Managers`) work under `operation.lock`, one file or process operation
a step; `pc` says which one comes next and `loc` holds the local variables. `service` is service.json, `ready`
the ready files, `procs` what has each pid: nothing, a server on its way through `main()` of
maze_viz_server.py, a zombie, or a process of somebody else. `FoundRunning`, `FoundDead` and `FoundNothing`
are the branches of `_start_replay` and `_stop_replay` on the state they find; `SweepReady` and `SweepState`
are `_cleanup_state`; `Spawn`, `Record`, `SeeReady`, `Confirm`, `GiveUp` and the `Fail*` actions are the rest
of a start, `Term` to `KillTooSlow` the rest of a stop. Faults are managers that die between any two
operations (`Crash`) and SIGKILLs that take longer than the last deadline (`KillTooSlow`); other processes may
take a free pid at any time, and servers may die. Deadlines are choices: a wait may be over whenever the code
looks at its clock.

### 3.5 ReplayIndex, one replay file while it grows

`recorded` and `size` are the frames given to `RecordFrame` and the bytes that have reached the file: the
stdio buffer may be written out at any byte, so lines appear in pieces. `cache` is the entry of
`_index_cache`; each HTTP thread reads the modification time and the size, waits for the lock, takes the
cached index (`Hit`) or scans on from the size kept with it (`Miss`, `ScanLine`, `ScanEnd`). The answers of
the handlers are functions of the index a thread ends up with (`FrameCount`, `PageFrames`, `Listed`);
`PageFrames` reads its frames in a loop that passes over lines it cannot parse. `torn`
is history: it says that bytes have appeared inside of a line or while a request was running.

### 3.6 MazeGrid, GridPaths and ActionSearch

`MazeGrid` is the table of the nine actions, `GridPaths` defines shortest paths over a set of open cells layer
by layer, in rounds that are taken sixteen at a time to keep TLC's recursion shallow. `ActionSearch` is the
queue search that the program has twice, in Python for the generator and in C++ for the client, one direction
a step. `SearchExact` compares it with `GridPaths`, which then stands for it in `MapGenerator` and in
`WithinReach` of `MazeEpisode`.

### 3.7 MapGenerator, one map

`generate_reachable_map` and `generate_map` in the order of their code: `CarveOn`/`CarveBack` (the depth-first
carving with its stack), `OpenExtra`, `Dig` (ends, safe zones, grid), `Furnish` (pillars and cleared squares),
then `Accept` or `Unreachable`, with `EndsTooClose` for random ends that are not found. What the random
generator draws is a choice, so a run covers every seed. `config` is the configuration, chosen once. The
second part is the client's side: `GridSizeWritten` and `PositionWritten` are the lengths in the file, rounded
to hundredths, and `ClientSees` is the cell `MazeEnv::Init` computes from them.

### 3.8 MapBatch, batches of maps

`main()` of the generator: an entry for every map, up to `MAX_RETRY` seeds for each, a file opened and written
in two steps, a summary. `good`, the seeds that give a map with a way, is a choice: deciding it is
`MapGenerator`'s part. Batches follow one another in the same directory, each with `--seed` or with seeds from
the clock, and may be interrupted at any step.

### 3.9 ManagedRuntime, run.sh around the client

`at` is the line run.sh has come to, `client` the client process, `marker` and `receipt` the start that wrote
client-managed-ready and readiness.json. bash runs a trap between two commands or inside of `wait`, never
during a foreground command; `Trapped` lists those places, and `OnSignal` is the trap there. `Crash` kills the
container, and `Start` finds the files of the start before. The clean-up takes several steps, with the client
going on between them: `Terminate` and the wait for the client, `Remove` (`run.sh:86`), `Quit` (`:92`, or the
end of the EXIT trap), with which a managed container ends. `gap` and `cut` are history: a signal came between
the fork and the assignment of `client_pid`, or in the clean-up before the files were removed.

## 4. Runs

| Run | Bounds | Question |
|---|---|---|
| `session` | 2 Episodes, 2 frames, Abort gives up after 2 WAITs, 2 late attempts | safety, both refinements and liveness of the Session under every fault |
| `session_substitute` | 1 Episode, 1 frame, 1 WAIT, 1 late attempt | expected violation, see 7 |
| `session_replay` | the same | expected violation, see 7 |
| `episode` | 2 agents, 3x3 map, goal 2 actions away, 3 frames, 2 Episodes, with and without masks | the inside of RunEpisode with any accepted batch |
| `replay_service` | 2 managers, 3 pids, 2 configurations on 2 ports, 2 operations, 1 foreign process, 1 dying server, 1 fault | two operations against each other and against the machine |
| `index` | 2 threads, 2 frames of 2 bytes, a flush every 2 frames | requests against a growing file |
| `index_count` | 1 thread, 2 frames of 3 bytes | expected violation, see 7 |
| `action_search` | every 3x3 map, start and goal | the search against its definition |
| `map` | 4x4 rooms of 3x3 cells; 4x4 rooms of 2x2 cells full of pillars; 3x3 single cells with random ends; fixed ends in every cell of a diagonal; 2 attempts | every maze that can be carved under these configurations |
| `batch` | 7 seeds, 3 batches of 3 maps, 3 attempts | files and summary |
| `batch_abort` | 6 seeds, 1 batch | expected violation, see 7 |
| `runtime` | 2 starts, 2 signals in each, 3 looks for the marker | signals, failures and a restart |

Why the bounds are enough to be interesting.

* `session`: two Episodes let state survive from one to the next (episode id, cursors, the replay window). Two
  frames give an Update before and after the last one, and 2 late attempts let an Open or Begin overtake its
  successor while another one is on its way; a late attempt is discarded by its sequence unless it is the next
  one, so more of them repeat those cases. Two WAITs let an Abort be retried once and then run out.
  `KeptWithoutLate` speaks of the behaviours in which no attempt is late: those keep what the two expected
  violations break.
* `episode`: the map's one blocked cell gives diagonals with one blocked corner, moves into a wall and moves
  out of the grid; the goal is nearer than the frame limit by one, so one agent can reach it, early or with
  its last action, while the other runs out of time. Agents are symmetric: nothing in `MazeEnv` tells them
  apart but their id, and they do not block each other.
* `replay_service`: two operations are the smallest number that can race, and the second may be asked for
  after the first has ended, so that it finds its state. With one fault every step at which a manager can die
  is met. `NothingLeft`, `StartedIsReady` and `StopEndsServer` say what holds as long as no fault happened
  (`NoFault`); the others hold with one.
* `index`: with lines of two bytes a scan can end before the last byte of a line and the next one begin at it.
  Two threads let a scan with an older stat end last. `index_count` uses longer lines.
* `map`: four by four rooms are the fewest with rooms outside of both safe zones that pillars can fill and
  walls between them. Pillars are none or all there are (`MaxPillars` = 0): maps get harder with every pillar
  in the rooms where a way must remain.
* `batch`: three entries and three attempts make the seeds of an entry overlap those of both others.
* `runtime`: a second signal falls into the clean-up of the first, a second start finds the files of the
  first.

Some of the properties checked are conjunctions of named parts, and the text speaks of the parts:
`EpisodeReported` is `FramesMatchReports` and `EpisodeIdentity`; `ServiceSound` has `OneServicePerFault` and
`NothingLeft`; `IndexSound` has `NoFrameLost`; `AnswersExact` is `IndexExact` and `PagesExact`; `SearchSound`
has `QueueOrdered`, `DistancesReached` and `ExpandedComplete`; `MapSound` has `PerfectMaze`, `DugInOnePiece`,
`BorderClosed`, `SegmentsExact` and `FixedEndsNearest`; `FilesSound` has `SavedMapsHaveWay`; `ReceiptSound` has
`ReceiptTrue`; `ExitSound` is `CleanExit` and `ExitTold`. Those with Sound in their name also hold the module's
`TypeOK`.

Each of their parts, and each other property, is broken by a mutant of the code listed in `PROJECT.json`: a
comparison off by one, an unchecked phase, a missing reset, masks that cut corners, a lock not waited for, a
file opened without a look.

`CHECK_DEADLOCK` is off in `replay_service` only: there the number of operations is a bound, and when they are
used up and every process has settled nothing is left to do. Elsewhere a program that has ended is a
stuttering action (`Exited`, `SessionOver`, `Returned`, `Over`, `Stopped`), so that any other dead end is
reported; the index server always has a request to take.

## 5. Fairness

* `SessionProtocol`: weak fairness of the client as a whole, `WF_vars(Client)`. Its calls have deadlines
  (`transport.h` sets one on every attempt), its sleeps are bounded (`TaskClient::WaitDelay` and the stop
  check), it waits for no other thread, so it always has an enabled step that the scheduler eventually takes.
  Nothing is assumed of the server, the network or the stop signal: the server may never answer, answer WAIT
  for ever, and the signal may never come. That is why `StopEndsSession` starts from a signal, and why a
  Session that waits in a Begin for ever is no violation: those WAITs have no budget in the code.
* `ReplayService`: weak fairness of each manager's own steps (its waits have deadlines) and strong fairness of
  getting the lock: `flock` queues its waiters. Of servers only `TakeKill` is fair: a server may ignore
  SIGTERM for ever, but not SIGKILL. `OperationsEnd` and `StopEndsServer` follow from the managers' deadlines.
* `ReplayIndex`: weak fairness of the recorder (the Episode goes on and ends) and of requests (viewers poll),
  strong fairness of a thread that waits for the lock.
* `MapGenerator`: weak fairness of its one thread.
* `ManagedRuntime`: weak fairness of the wrapper. Nothing is assumed of the client: it may hang in its
  connection or in a Session for ever, and `SignalEndsIt` holds because of the four seconds and the KILL.

`MazeEpisode`, `ActionSearch` and `MapBatch` are checked for safety only.

## 6. Proofs

Every safety property and every action property that a passing run checks is proved for all values of the
constants; `AcceptedByClient` under a condition on the lengths of the configuration.

**`SessionProtocolProofs`** proves, for all values of the four bounds: `TypeOK`, `PhaseAgreement`, `CleanExit`,
`FailureKept`, `EpisodeReported`, `KeptWithoutLate`, `ImplementsLedger` and `ImplementsFrameLoop`. The
assumption is `BoundsAssumption`.

The properties are not inductive: that an accepted reply acknowledges the one outstanding command depends on
what replies may be in flight. `IInv` adds:

* `LedgerInv`: the log is what is acknowledged, or one command more, which then is described by the replay
  window and the phase (`Outstanding`).
* `ReplyInv`: an accepted reply for the current sequence answers the bytes of that command, with its phase.
* `LateInv`: a late attempt never names a sequence the client has not reached, so it is discarded, replayed
  or is the next command.
* `BindInv`, `ControlInv`, `AgreementInv`: what the confirmed phase is at each point of `RunSession`.
* `CallInv`, `FrameInv`: the Exchange works on the request its method prepared; a frame is executed only
  below the limit.

The core is lemma `BytesAndPhase`. Bytes alone do not name a command: a Begin, an End and a Close at one
sequence are the same bytes. But the phases the client accepts after them are disjoint, so bytes *and* phase
name it. The phase check of `AcceptCommandReply` is all that stands between the replay window and a wrong
acknowledgement, and dropping it (a mutant) breaks the refinement.

`EpisodeReported` speaks of the whole log, so it needs an invariant of its own beside `IInv`, `HistoryInv`:
how many Updates end the log at each place of `RunEpisode`'s loop, and whether the last of them was final
(`ReportInv`); the confirmed phase at the places `ControlInv` says nothing of (`PlaceInv`); and that the
client's Episode id is the one the server assigned last, a Begin that was retried learning it from the reply
kept in the window (`EpisodeInv`). `KeptWithoutLate` is a statement about behaviours, `[](late = {})` implying
two action properties. Its proof takes `late = {}` into the step: then only the client's own command can be
applied and not acknowledged (`OwnInv`).

**`MazeEpisodeProofs`** proves for every set of agents, map, step limit, mask mode and number of Episodes:
`TypeOK`, `ChainNeverRefuses`, `ReceiptIsAssignment`, `MaskedMovesNeverBlocked`, `TerminationSound`,
`TerminalReportedOnce`, `WithinReach` and `ImplementsFrameLoop`. Its `IInv` adds `ReceiptInv` (between frames
every agent taking part carries the receipt its next report needs) and `BatchInv` (while a batch is executed
it names every agent taking part exactly once; those already named have moved and hold receipts, the others
are as they were reported). That an accepted batch names *every* agent is a counting argument: its agents are
distinct, expected, and as many as are expected, hence all of them (`BatchCovers`). `WithinReach` needs
`ReachInv`: in the frame being executed the agents still to move stand in the layer of the frame before. The
assumption is `EpisodeAssumption`: agents exist, start and goal are different free cells of the grid,
max_steps is positive. `MazeEnv::Init` and the adapter refuse anything else.

**`ActionSearchProofs`** proves for grids of every size, every map, start and goal: `TypeOK`, `QueueOrdered`
(the queue is ordered by distance, spans two distances at most and holds no cell twice), `DistancesReached` (a
distance written down is the length of a path of allowed actions: its cell has a neighbour one step nearer),
`ExpandedComplete` (a cell that was expanded leaves no allowed neighbour unseen or farther than one step
more), and with them `SearchSound`. The inductive invariant adds `FrontierNear`: the cell being expanded and
the queue behind it lie within one step of each other.

`SearchExact` compares the result with the definition in `GridPaths`. When the search stops its distances are
a certificate (`Certified`): the start and only the start has distance 0, every other distance is one more
than that of a neighbour, and no cell nearer than the goal has a neighbour that is unseen or too far. A round
of the definition takes the cells at distance n to those at n + 1 (`NextLevel`), so whatever holds of the
first round and is led on by each one holds of the last (`RoundsLead`); there are enough rounds because no
level before the goal is empty (`LevelsFull`), hence the goal is no farther than there are open cells
(`GoalNear`). The generator's search takes a move by `Passable`, the client's rule is `CanMove`: `MovesAgree`
shows that they are the same. The assumption is that the grid has a cell.

**`ReplayServiceProofs`** proves for any number of managers, pids, configurations, operations, foreign
processes, dying servers and faults `ServiceSound`, `OldForeignSafe`, `StateOutlivesServer` and
`StartedIsReady`. None is inductive, since they speak of the state file while a manager acts on what it
remembers of it. `IInv` adds:

* `LockInv`, `LocInv`, `IdInv`: one manager is past the lock, what it remembers at each place has its type,
  and no two operations have the same instance id.
* `ProcInv`, `FreshInv`: servers run instances that were asked for; the instance of a start that has not
  spawned runs nowhere, which is why the process `Spawn` makes is the only one of its instance.
* `NameInv`: no process but the one the state file names runs its instance; who watches, stops or sweeps works
  on the instance in the file, and who sweeps it up has seen it dead. `StateOutlivesServer` follows from it.
* `ForeignInv`: a foreign process at the pid a stop has checked took it while the stop held the lock.
* `StrayInv`: servers that neither the file nor a manager in `record` names are no more than the faults so
  far. A server gets lost only where a manager dies between `Spawn` and `Record`.
* `LeftInv`, `ReadyInv`: without a fault a ready file belongs to an instance that can be found, and a server
  found alive by a manager that has changed nothing is running and ready.

Next has twenty actions, and most parts of `IInv` see few of them. The proof therefore says once what a
step can do to each thing (`Effect` to a process, `Moves` to a manager, `StateMoves` to the state file,
`NamedMoves` to the names of instances, `ReadyMoves` to ready files, `QuietMoves` to the lock), action by
action, and proves each part of `IInv` from these. The assumption, `ServiceAssumption`, is that pids are
finitely many, each configuration has a port, and the bounds are numbers.

**`ReplayIndexProofs`** proves for any line length above one, flush interval, pages, threads and frames
`IndexSound` and `AnswersExact`. `IndexSound` rests on `CoverInv`: the cache has every line that begins below
its size, a scan every one below its own position, and no size is larger than the file. The next line start
after a position is the one `readline` comes to (`NextLineFacts`), so a scan that starts anywhere, even in the
middle of a line, misses none. `AnswersExact` is about files that grow by whole lines and between requests and
rests on `ExactInv`: a thread in a request has seen the size the file still has, and its index is as long as
what it has read. That a page is what it should be is an induction over the loop of `load_frames_paged`. The
assumption is `IndexAssumption`.

**`ManagedRuntimeProofs`** proves for any number of starts, signals and looks for the marker `ReceiptSound` and
`ExitSound`. `IInv` adds what the place of the wrapper says of client and files (`PlaceInv`), that a marker
is of this start's connected client once old ones are removed (`MarkerInv`), that only a client just forked,
or one hit by a signal there, is unknown to `shutdown` and can leave a marker after `Remove` (`KnownInv`), and
that without a signal status 0 is the client's (`CodeInv`). The assumption is that the three bounds are numbers.

**`MapBatchProofs`** proves for any seeds, `--count`, number of retries and of batches `FilesSound`,
`SavedIsKept` and `SummaryTrue`. `IInv` adds that what is about to be written has a way (`FoundInv`), and that
all a batch can try exists (`BatchInv`). For the summary, `CountInv` follows the count on both sides: it is
the number of files that were not there before the batch, whole but for the one being written (`DiskInv`), and
with `--seed` the number of entries so far that have a seed to be found, none of the seeds tried for the
present entry being one (`SeedInv`). The assumption, `BatchAssumption`, is that the seeds are the numbers from
0 to some n, and that a batch tries at least once.

**`MapGeneratorProofs`** proves for any configurations, draws and number of retries `MapSound`,
`RoomyMapsReachable` and, with a condition, `AcceptedByClient`. `IInv` follows the making of a map:

* `CarveInv`: while the maze is carved the rooms visited are linked to the first one by one opening less than
  there are rooms, and a room not on the stack has no unvisited neighbour (`Carved`); so when the stack is
  empty all rooms are linked, by as many openings as a tree has. `Linked` is said with closed sets of rooms,
  which makes every later step trivial: more openings close fewer sets.
* `MadeInv`: the ends are those of the mode, the dug grid is `DugFrom` of the walls, and the searched one is
  that with pillars of some draw and the two squares cleared.

From there on the proof is about walks. A set of cells with all its neighbours that touches a rim of a room
has all of it, and all of the gap and the next rim where there is no wall (`RimWalked`, `RightWalked`,
`UpperWalked`); with the links between rooms it has every rim and gap (`RoomsHang`). The search ends with such
a set (`SearchReaches`, by `RoundsLead` as in `ActionSearchProofs`), hence `DugInOnePiece`. Pillars stand off
the rims in rooms of at least 3 by 3 cells and never in the rooms of start and goal
(`FurnishedIsPassable`), hence `RoomyMapsReachable`; that smaller rooms with pillars may block the way is the
reason for the retries. `MapsAccepted` assumes that a cell is longer, in hundredths, than there are cells in a
row (`GridSizeWritten > OutDim`). Then the rounded length and the rounded position together move a position
by less than half a cell (`ReadBack`); maps of more than about a hundred cells of length 1 in a row are beyond it.
The four configurations of the run satisfy it. The assumption, `GeneratorAssumption`, is what `main()` reads:
lengths above 0, a ratio of at most 1 and ends within the map.

**Induction.** The library's induction theorem takes a predicate as a parameter, which none of the provers
here can instantiate. The proofs about recursive functions (`ReplayIndexProofs`, `MazeEpisodeProofs`,
`ActionSearchProofs`, `MapGeneratorProofs`) use a form of it for sets instead: a set of numbers that has 0 and with n also n + 1 is
`Nat`. It follows from `NatLessThanWellFounded` and `WFMin` of the library (lemmas `LessThan`, `LeastElement`,
`Induction`), and so does that a function given by its first value and a step exists (`Recursion`), without
which nothing is known of one.

**Only model-checked**: the liveness properties, which need fairness and ENABLED, and what `AcceptedByClient`
says of configurations with cells shorter than the condition of `MapsAccepted` asks for.

## 7. Findings

* `session_substitute` (`NoSubstitute`). `session.h:150` says the SDK never substitutes a command for an
  Unknown one, and `session.h:70` that a rejected command is replaced only when the server proves that it
  committed nothing. The proof is the reply to the second attempt of a call. The first attempt, given up on
  at its deadline, can still be applied after that reply, when an Abort or a Close already stands at the same
  sequence. The client then ends with Unknown; the ledger still holds.
* `session_replay` (`AlreadyAppliedIsApplied`). `CheckCommand` compares bytes only, so a Close at the sequence
  of a Begin that arrived late counts as its replay and is answered ALREADY_APPLIED, "command was already
  applied", although no Close was. The client's phase check turns the reply into Unknown, so here too the
  ledger holds.

  Both need an attempt that arrives after its call was given up on: `KeptWithoutLate` says that neither
  happens without one.
* `index_count` (`CountTrue`). The index server reads the size of a file, scans to its end, and keeps the size
  read before as the position to go on from. A frame appended in between is indexed by this scan and by the
  next; a line that was cut is continued in its middle. The numbers of frames and pages that follow are too
  high until a full rebuild. No frame is lost by it (`NoFrameLost`).
* `batch_abort` (`BatchRunsThrough`). A base seed without a way is retried with the seeds after it, which are
  the base seeds of the entries after it. When such a map is saved, the next entry generates it again, finds
  the file and ends the whole batch.

The models show more that the code does, where no text of the repository says otherwise, and the properties
are stated around it:

* A manager of the Replay service that dies between `Popen` (`replay_service.py:486`) and the state file
  (`:512`) leaves a server that no later stop finds. `OneServicePerFault` bounds this to one server a fault.
* A manager that dies while it waits leaves a state "starting"; the next start takes its server for a running
  one (`:422`) although its socket may not be bound. `StartedIsReady` is stated for runs without a fault.
* A second signal during the clean-up of run.sh returns from `shutdown` at once (`run.sh:79`): the client is
  not waited for and the readiness files stay. A first signal after a failed start does the same. `CleanExit`
  and `ReceiptWithdrawn` except these (`cut`); once the files are removed a signal cuts nothing.
* A signal between the fork and the assignment of `client_pid` (`run.sh:99-100`) leaves a client that shutdown
  does not know (`gap`). In a container it ends with the wrapper, but if it connects between the `rm`
  (`run.sh:86`) and the exit (`:92`), client-managed-ready stays behind until the next start removes it
  (`:14`). `CleanExit` excepts the client and the marker of this case, never the receipt; TLC finds this
  behaviour when the exception for the marker is dropped.
* The exit status of `publish_readiness.py` is not looked at (`run.sh:123`): the client then runs in a
  container that never becomes ready.
* The generator marks all blocked cells as used when it forms the vertical segments, so its pass over the rows
  (`generate_maze.py:456-479`) finds nothing, although its heading (`:14`, `:414`) speaks of horizontal runs
  that are merged too. The segments are exact all the same (`SegmentsExact`), only more than needed. `RowsAreIdle` is the theorem.
* Fixed ends in one and the same room have no way of positive length: all retries are used up.

## 8. Not modelled, and why

* More than one Session at a server, a session id or epoch that does not match: one client has one Session,
  and the request id makes a repeated Open a replay.
* A server that answers TERMINAL to an Update that was not final, or RUNNING to a final one. The client accepts
  both phases after any Update (`task_client.h:117`) and would go on with a command that is illegal for the
  server; the AIServer is not part of the repository, and is taken to end the Episode when the report does.
* What Open, Initialize and Begin validate about names, versions and limits: a choice of outcome.
* Map loading (`MazeEnv::Init`): its result is `EpisodeAssumption`; for generated maps `ClientSees` shows that
  the cells come out as meant. Reading the JSON stays out.
* Lengths are integers, `ToGrid` and `Rounded` exact: the code uses doubles and floats, whose error is far
  below the hundredths the file is written in.
* Draws of pillars between none and all, and densities: a probability has no meaning to TLC.
* Recorder: names of replay files (two Episodes in one second, two clients), the copy of the map file.
* Index server: HTTP, the listing's two-second cache, the cache of maps, static pages. They show what the
  index says, or what it said two seconds ago.
* Option and configuration parsing in all programs, and the order of sources in `config_loader`: read once
  before anything runs.
* `bfs_reachable` of the generator, which nothing calls; ASCII previews; bitmaps.
* Logging, wording, rendering, the replay JSON, generated protobuf code, the task generator, the viewers,
  build scripts. `sync_contract_snapshot.py` copies files for a developer, who runs it again when it fails.
