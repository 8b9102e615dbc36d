------------------------------ MODULE MapBatch ------------------------------
(***************************************************************************)
(* The batches of generate_maze.py: main() asks generate_reachable_map for *)
(* one map per base seed and writes each to maze_<seed>.json. One user     *)
(* runs batch after batch into the same directory. Which seeds give a map  *)
(* with a way is MapGenerator's subject; here it is a set.                 *)
(***************************************************************************)
EXTENDS Naturals, FiniteSets

CONSTANTS
  Seeds,          \* the seeds that exist: 0..n
  Count,          \* --count
  MAX_RETRY,
  MaxRuns         \* bound: batches run

ASSUME BatchAssumption ==
  /\ Seeds \subseteq Nat /\ \E n \in Seeds : Seeds = 0..n
  /\ Count \in Nat \ {0} /\ MAX_RETRY \in Nat \ {0} /\ MaxRuns \in Nat

VARIABLES
  good,           \* the seeds that give a map with a way
  files,          \* what the output directory holds of each seed
  stage,          \* what the program is doing
  seeded,         \* --seed is given; otherwise the clock gives each seed
  entry,          \* i: the entries of the batch before this one
  base,           \* args.seed, or the entry's seed from the clock
  attempt,        \* attempts for this entry
  success,        \* success_count
  runs,           \* batches run
  existing        \* history: the seeds with a file when the batch began

vars == <<good, files, stage, seeded, entry, base, attempt, success, runs,
          existing>>

(* The seed tried now; the retries of an entry run into the next ones. *)
CurrentSeed == base + (IF seeded THEN entry ELSE 0) + attempt

Present == {s \in Seeds : files[s] # "absent"}

(* The seeds the entry n of a seeded batch may end with. *)
Window(n) == {s \in Seeds : s >= base + n /\ s < base + n + MAX_RETRY}

-----------------------------------------------------------------------------

(* Bound: the seeds a batch may begin with, so that all it can try exist. *)
BaseSeeds(given) ==
  LET last == (IF given THEN Count - 1 ELSE 0) + MAX_RETRY - 1
  IN  {s \in Seeds : s + last \in Seeds}

Start ==
  /\ stage \in {"Done", "Refused", "Interrupted"} /\ runs < MaxRuns
  /\ runs' = runs + 1
  /\ stage' = "Try"
  /\ seeded' \in BOOLEAN
  /\ base' \in BaseSeeds(seeded')
  /\ entry' = 0 /\ attempt' = 0 /\ success' = 0
  /\ existing' = Present
  /\ UNCHANGED <<good, files>>

(* The next entry of the loop, or the summary. Without --seed the clock    *)
(* may give any seed, the same one too.                                    *)
NextEntry ==
  /\ entry' = entry + 1
  /\ attempt' = 0
  /\ stage' = IF entry + 1 < Count THEN "Try" ELSE "Done"
  /\ base' \in IF seeded THEN {base} ELSE BaseSeeds(FALSE)

Found ==
  /\ stage = "Try" /\ CurrentSeed \in good
  /\ success' = success + 1
  /\ stage' = "Save"
  /\ UNCHANGED <<good, files, seeded, entry, base, attempt, runs, existing>>

(* Mutant: the last map is returned, with or without a way. *)
LastAnyway ==
  /\ stage = "Try" /\ CurrentSeed \notin good
  /\ attempt + 1 < MAX_RETRY
  /\ attempt' = attempt + 1
  /\ stage' = IF attempt + 2 = MAX_RETRY THEN "Save" ELSE stage
  /\ UNCHANGED <<good, files, seeded, entry, base, success, runs, existing>>

(* Mutant: one retry too many. *)
NextSeedOnceMore ==
  /\ stage = "Try" /\ CurrentSeed \notin good
  /\ attempt + 1 <= MAX_RETRY
  /\ attempt' = attempt + 1
  /\ UNCHANGED <<good, files, stage, seeded, entry, base, success, runs,
                 existing>>

NextSeed ==
  /\ stage = "Try" /\ CurrentSeed \notin good
  /\ attempt + 1 < MAX_RETRY
  /\ attempt' = attempt + 1
  /\ UNCHANGED <<good, files, stage, seeded, entry, base, success, runs,
                 existing>>

(* Every seed of the entry failed: it is skipped. *)
NoMap ==
  /\ stage = "Try" /\ CurrentSeed \notin good
  /\ attempt + 1 = MAX_RETRY
  /\ NextEntry
  /\ UNCHANGED <<good, files, seeded, success, runs, existing>>

(* The file is there already: the program exits. *)
Refuse ==
  /\ stage = "Save" /\ CurrentSeed \in Present
  /\ stage' = "Refused"
  /\ UNCHANGED <<good, files, seeded, entry, base, attempt, success, runs,
                 existing>>

(* Mutant: the file is opened without a look. *)
CreateOver ==
  /\ stage = "Save"
  /\ files' = [files EXCEPT ![CurrentSeed] = "partial"]
  /\ stage' = "Write"
  /\ UNCHANGED <<good, seeded, entry, base, attempt, success, runs, existing>>

Create ==
  /\ stage = "Save" /\ CurrentSeed \notin Present
  /\ files' = [files EXCEPT ![CurrentSeed] = "partial"]
  /\ stage' = "Write"
  /\ UNCHANGED <<good, seeded, entry, base, attempt, success, runs, existing>>

(* Mutant: the batch goes on before the file is closed. *)
WrittenUnflushed ==
  /\ stage = "Write"
  /\ NextEntry
  /\ UNCHANGED <<good, files, seeded, success, runs, existing>>

Written ==
  /\ stage = "Write"
  /\ files' = [files EXCEPT ![CurrentSeed] = "complete"]
  /\ NextEntry
  /\ UNCHANGED <<good, seeded, success, runs, existing>>

(* The program is interrupted or fails: its file stays as it is. *)
Interrupt ==
  /\ stage \in {"Try", "Save", "Write"}
  /\ stage' = "Interrupted"
  /\ UNCHANGED <<good, files, seeded, entry, base, attempt, success, runs,
                 existing>>

Over ==
  /\ stage \in {"Done", "Refused", "Interrupted"} /\ runs = MaxRuns
  /\ UNCHANGED vars

Init ==
  /\ good \in SUBSET Seeds
  /\ files = [s \in Seeds |-> "absent"]
  /\ stage = "Done" /\ seeded = FALSE
  /\ entry = 0 /\ base = 0 /\ attempt = 0 /\ success = 0 /\ runs = 0
  /\ existing = {}

Next ==
  \/ Start \/ Found \/ NextSeed \/ NoMap
  \/ Refuse \/ Create \/ Written \/ Interrupt
  \/ Over

Spec == Init /\ [][Next]_vars

-----------------------------------------------------------------------------
(* Properties                                                              *)

TypeOK ==
  /\ good \subseteq Seeds
  /\ files \in [Seeds -> {"absent", "partial", "complete"}]
  /\ stage \in {"Try", "Save", "Write", "Done", "Refused", "Interrupted"}
  /\ seeded \in BOOLEAN /\ entry \in 0..Count /\ attempt \in 0..MAX_RETRY-1
  /\ base \in Seeds /\ success \in 0..Count /\ runs \in 0..MaxRuns
  /\ existing \subseteq Seeds
  /\ stage \in {"Try", "Save", "Write"} => CurrentSeed \in Seeds

(* Whatever is interrupted and started again, a file named for a seed is   *)
(* that seed's map and has a way.                                          *)
SavedMapsHaveWay == \A s \in Present : s \in good

(* What is on the disk is sound at every step.                             *)
FilesSound == TypeOK /\ SavedMapsHaveWay

(* A map that was saved is never changed again, by no batch. *)
SavedIsKept ==
  [][\A s \in Seeds : files[s] = "complete" => files'[s] = "complete"]_vars

(* A batch that ends with its summary has saved as many new, whole maps as *)
(* the summary counts, and one for every entry with a map to be found.     *)
SummaryTrue ==
  stage = "Done" /\ runs > 0 =>
    /\ Cardinality(Present \ existing) = success
    /\ \A s \in Present \ existing : files[s] = "complete"
    /\ seeded =>
         success = Cardinality({n \in 0..Count-1 : Window(n) \cap good # {}})

(* A batch with --seed into a directory without maps that is not           *)
(* interrupted goes through all its entries: it is not ended half way.     *)
BatchRunsThrough == stage = "Refused" /\ seeded => existing # {}
=============================================================================
