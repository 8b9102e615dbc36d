--------------------------- MODULE MapBatchProofs ---------------------------
(***************************************************************************)
(* What batches of maps leave on the disk, for any seeds, numbers of maps, *)
(* of retries and of batches, each of them interrupted anywhere.           *)
(***************************************************************************)
EXTENDS MapBatch, FiniteSetTheorems, TLAPS

Busy == stage \in {"Try", "Save", "Write"}

(* The offset of the last seed that this batch can try. *)
Last == (IF seeded THEN Count - 1 ELSE 0) + MAX_RETRY - 1

(* All that a batch can try exists, and it counts one map for an entry.    *)
BatchInv ==
  /\ Busy => base + Last \in Seeds /\ entry < Count
  /\ stage = "Try" => success <= entry
  /\ stage \in {"Save", "Write"} => success <= entry + 1

(* What is about to be written has a way. *)
FoundInv == stage \in {"Save", "Write"} => CurrentSeed \in good

IInv == TypeOK /\ SavedMapsHaveWay /\ BatchInv /\ FoundInv

(* Below the last seed there is every other one, so the one tried exists.  *)
LEMMA SeedTried ==
  ASSUME NEW b \in Seeds, NEW d \in BOOLEAN, NEW n \in 0..Count-1,
         NEW a \in 0..MAX_RETRY-1,
         b + ((IF d THEN Count - 1 ELSE 0) + MAX_RETRY - 1) \in Seeds
  PROVE  b + (IF d THEN n ELSE 0) + a \in Seeds
<1>1. PICK m \in Seeds : Seeds = 0..m
  BY BatchAssumption
<1>2. m \in Nat /\ b \in Nat /\ Count \in Nat \ {0} /\ MAX_RETRY \in Nat \ {0}
  BY BatchAssumption
<1>3. CASE d
  BY <1>1, <1>2, <1>3
<1>4. CASE ~d
  BY <1>1, <1>2, <1>4
<1> QED
  BY <1>3, <1>4

(* The first seed can be tried by a batch that is to begin there.          *)
LEMMA BaseSeedIsSeed ==
  ASSUME NEW d \in BOOLEAN, NEW b \in BaseSeeds(d)
  PROVE  /\ b \in Seeds
         /\ b + ((IF d THEN Count - 1 ELSE 0) + MAX_RETRY - 1) \in Seeds
<1>1. CASE d
  BY <1>1, BatchAssumption DEF BaseSeeds
<1>2. CASE ~d
  BY <1>2, BatchAssumption DEF BaseSeeds
<1> QED
  BY <1>1, <1>2

LEMMA InitIInv == Init => IInv
<1> SUFFICES ASSUME Init PROVE IInv
  OBVIOUS
<1>1. 0 \in Seeds
  BY BatchAssumption
<1>2. TypeOK
  <2>1. seeded \in BOOLEAN
    BY Zenon DEF Init
  <2> QED
    BY <1>1, <2>1, BatchAssumption DEF Init, TypeOK
<1>3. SavedMapsHaveWay /\ BatchInv /\ FoundInv
  BY DEF Init, SavedMapsHaveWay, Present, BatchInv, FoundInv, Busy
<1> QED
  BY <1>2, <1>3 DEF IInv

(* What follows an entry: the same batch goes on with the next one.        *)
LEMMA NextEntryKeeps ==
  ASSUME IInv, Busy, NextEntry, good' = good, seeded' = seeded,
         success' = success, success <= entry + 1
  PROVE  /\ stage' \in {"Try", "Done"} /\ entry' \in 0..Count
         /\ attempt' \in 0..MAX_RETRY-1 /\ base' \in Seeds
         /\ stage' = "Try" => CurrentSeed' \in Seeds
         /\ BatchInv' /\ FoundInv'
<1>1. /\ entry \in 0..Count /\ entry < Count /\ base \in Seeds
      /\ base + Last \in Seeds /\ seeded \in BOOLEAN /\ success \in 0..Count
  BY DEF IInv, TypeOK, BatchInv
<1>2. /\ entry' = entry + 1 /\ attempt' = 0
      /\ stage' = IF entry + 1 < Count THEN "Try" ELSE "Done"
      /\ base' \in IF seeded THEN {base} ELSE BaseSeeds(FALSE)
  BY DEF NextEntry
<1>3. base' \in Seeds /\ base' + Last' \in Seeds
  <2>1. CASE seeded
    BY <1>1, <1>2, <2>1 DEF Last
  <2>2. CASE ~seeded
    <3>1. /\ base' \in Seeds
          /\ base' + ((IF FALSE THEN Count - 1 ELSE 0) + MAX_RETRY - 1) \in Seeds
      BY <1>2, <2>2, BaseSeedIsSeed
    <3> QED
      BY <2>2, <3>1 DEF Last
  <2> QED
    BY <2>1, <2>2
<1>4. entry' \in 0..Count /\ attempt' \in 0..MAX_RETRY-1
  BY <1>1, <1>2, BatchAssumption
<1>5. stage' \in {"Try", "Done"} /\ (stage' = "Try" => entry' \in 0..Count-1)
  BY <1>1, <1>2, BatchAssumption
<1>6. BatchInv' /\ FoundInv'
  BY <1>1, <1>2, <1>3, <1>5, BatchAssumption DEF BatchInv, FoundInv, Busy
<1>7. stage' = "Try" => CurrentSeed' \in Seeds
  BY <1>1, <1>3, <1>4, <1>5, SeedTried DEF CurrentSeed, Last
<1> QED
  BY <1>3, <1>4, <1>5, <1>6, <1>7

LEMMA NextIInv == IInv /\ [Next]_vars => IInv'
<1> SUFFICES ASSUME IInv, [Next]_vars PROVE IInv'
  OBVIOUS
<1> USE DEF IInv
<1>1. CASE Start
  <2>1. /\ runs' = runs + 1 /\ runs < MaxRuns /\ stage' = "Try"
        /\ seeded' \in BOOLEAN /\ base' \in BaseSeeds(seeded')
        /\ entry' = 0 /\ attempt' = 0 /\ success' = 0
        /\ existing' = Present /\ good' = good /\ files' = files
    BY <1>1 DEF Start
  <2>2. base' \in Seeds /\ base' + Last' \in Seeds
    BY <2>1, BaseSeedIsSeed DEF Last
  <2>3. /\ entry' \in 0..Count-1 /\ attempt' \in 0..MAX_RETRY-1
        /\ runs' \in 0..MaxRuns /\ success' \in 0..Count /\ success' <= entry'
    BY <2>1, BatchAssumption DEF TypeOK
  <2>4. CurrentSeed' \in Seeds
    BY <2>1, <2>2, <2>3, SeedTried DEF CurrentSeed, Last
  <2>5. Present \subseteq Seeds /\ entry' \in 0..Count
    BY <2>3, BatchAssumption DEF Present
  <2>6. TypeOK'
    BY <2>1, <2>2, <2>3, <2>4, <2>5 DEF TypeOK
  <2>7. BatchInv' /\ FoundInv' /\ SavedMapsHaveWay'
    BY <2>1, <2>2, <2>3, BatchAssumption
    DEF BatchInv, FoundInv, Busy, SavedMapsHaveWay, Present
  <2> QED
    BY <2>6, <2>7
<1>2. CASE Found
  <2>1. /\ stage = "Try" /\ CurrentSeed \in good /\ success' = success + 1
        /\ stage' = "Save" /\ CurrentSeed' = CurrentSeed /\ Last' = Last
        /\ UNCHANGED <<good, files, seeded, entry, base, attempt, runs, existing>>
    BY <1>2 DEF Found, CurrentSeed, Last
  <2>2. success \in 0..Count /\ entry \in 0..Count /\ entry < Count
        /\ success <= entry /\ base + Last \in Seeds
    BY <2>1 DEF TypeOK, BatchInv, Busy
  <2>3. success' \in 0..Count /\ success' <= entry' + 1
    BY <2>1, <2>2, BatchAssumption
  <2>4. TypeOK'
    BY <2>1, <2>3 DEF TypeOK
  <2>5. BatchInv' /\ FoundInv' /\ SavedMapsHaveWay'
    BY <2>1, <2>2, <2>3 DEF BatchInv, FoundInv, Busy, SavedMapsHaveWay, Present
  <2> QED
    BY <2>4, <2>5
<1>3. CASE NextSeed
  <2>1. /\ stage = "Try" /\ attempt + 1 < MAX_RETRY /\ attempt' = attempt + 1
        /\ Last' = Last
        /\ UNCHANGED <<good, files, stage, seeded, entry, base, success, runs,
                       existing>>
    BY <1>3 DEF NextSeed, Last
  <2>2. /\ attempt \in 0..MAX_RETRY-1 /\ entry \in 0..Count /\ entry < Count
        /\ base + Last \in Seeds /\ base \in Seeds /\ seeded \in BOOLEAN
        /\ success <= entry
    BY <2>1 DEF TypeOK, BatchInv, Busy
  <2>3. attempt' \in 0..MAX_RETRY-1 /\ entry \in 0..Count-1
    BY <2>1, <2>2, BatchAssumption
  <2>4. CurrentSeed' \in Seeds
    BY <2>1, <2>2, <2>3, SeedTried DEF CurrentSeed, Last
  <2>5. TypeOK'
    BY <2>1, <2>3, <2>4 DEF TypeOK
  <2>6. BatchInv' /\ FoundInv' /\ SavedMapsHaveWay'
    BY <2>1, <2>2 DEF BatchInv, FoundInv, Busy, SavedMapsHaveWay, Present
  <2> QED
    BY <2>5, <2>6
<1>4. CASE NoMap
  <2>1. /\ stage = "Try" /\ NextEntry /\ Busy
        /\ UNCHANGED <<good, files, seeded, success, runs, existing>>
    BY <1>4 DEF NoMap, Busy
  <2>2. success <= entry + 1
    BY <2>1, BatchAssumption DEF BatchInv, TypeOK
  <2>3. /\ stage' \in {"Try", "Done"} /\ entry' \in 0..Count
        /\ attempt' \in 0..MAX_RETRY-1 /\ base' \in Seeds
        /\ stage' = "Try" => CurrentSeed' \in Seeds
        /\ BatchInv' /\ FoundInv'
    BY <2>1, <2>2, NextEntryKeeps
  <2>4. TypeOK'
    BY <2>1, <2>3 DEF TypeOK
  <2>5. SavedMapsHaveWay'
    BY <2>1 DEF SavedMapsHaveWay, Present
  <2> QED
    BY <2>3, <2>4, <2>5
<1>5. CASE Refuse \/ Interrupt
  <2>1. /\ stage' \in {"Refused", "Interrupted"}
        /\ UNCHANGED <<good, files, seeded, entry, base, attempt, success, runs,
                       existing>>
    BY <1>5 DEF Refuse, Interrupt
  <2> QED
    BY <2>1
    DEF TypeOK, BatchInv, FoundInv, Busy, SavedMapsHaveWay, Present
<1>6. CASE Create
  <2>1. /\ stage = "Save" /\ stage' = "Write"
        /\ files' = [files EXCEPT ![CurrentSeed] = "partial"]
        /\ CurrentSeed' = CurrentSeed /\ Last' = Last
        /\ UNCHANGED <<good, seeded, entry, base, attempt, success, runs, existing>>
    BY <1>6 DEF Create, CurrentSeed, Last
  <2>2. TypeOK'
    BY <2>1 DEF TypeOK
  <2>3. BatchInv' /\ FoundInv'
    BY <2>1 DEF BatchInv, FoundInv, Busy
  <2>4. SavedMapsHaveWay'
    BY <2>1 DEF SavedMapsHaveWay, Present, FoundInv, TypeOK
  <2> QED
    BY <2>2, <2>3, <2>4
<1>7. CASE Written
  <2>1. /\ stage = "Write" /\ NextEntry /\ Busy
        /\ files' = [files EXCEPT ![CurrentSeed] = "complete"]
        /\ UNCHANGED <<good, seeded, success, runs, existing>>
    BY <1>7 DEF Written, Busy
  <2>2. success <= entry + 1 /\ CurrentSeed \in good
    BY <2>1 DEF BatchInv, FoundInv
  <2>3. /\ stage' \in {"Try", "Done"} /\ entry' \in 0..Count
        /\ attempt' \in 0..MAX_RETRY-1 /\ base' \in Seeds
        /\ stage' = "Try" => CurrentSeed' \in Seeds
        /\ BatchInv' /\ FoundInv'
    BY <2>1, <2>2, NextEntryKeeps
  <2>4. TypeOK'
    BY <2>1, <2>3 DEF TypeOK
  <2>5. SavedMapsHaveWay'
    BY <2>1, <2>2 DEF SavedMapsHaveWay, Present, TypeOK
  <2> QED
    BY <2>3, <2>4, <2>5
<1>8. CASE Over \/ UNCHANGED vars
  BY <1>8
  DEF Over, vars, TypeOK, BatchInv, FoundInv, Busy, Last, CurrentSeed,
      SavedMapsHaveWay, Present
<1> HIDE DEF IInv
<1> QED
  BY <1>1, <1>2, <1>3, <1>4, <1>5, <1>6, <1>7, <1>8 DEF Next

(* The inductive invariant holds whatever batches are run. *)
THEOREM Invariance == Spec => []IInv
  BY InitIInv, NextIInv, PTL DEF Spec

(* A file in the output directory, whole or not, is of a seed whose map    *)
(* has a way: generate_reachable_map returns no other.                     *)
THEOREM FilesHold == Spec => []FilesSound
<1>1. IInv => FilesSound
  BY DEF IInv, FilesSound
<1> QED
  BY <1>1, Invariance, PTL

(* A map that was saved stays as it is: save_map never writes to a file    *)
(* that is there.                                                          *)
THEOREM SavedKept == Spec => SavedIsKept
<1>1. ASSUME IInv, [Next]_vars
      PROVE  [\A s \in Seeds : files[s] = "complete" => files'[s] = "complete"]_vars
  <2>1. files \in [Seeds -> {"absent", "partial", "complete"}]
    BY <1>1 DEF IInv, TypeOK
  <2>2. CASE Create
    BY <2>1, <2>2 DEF Create, Present
  <2>3. CASE Written
    BY <2>1, <2>3 DEF Written
  <2>4. CASE files' = files
    BY <2>4
  <2> QED
    BY <1>1, <2>2, <2>3, <2>4
    DEF Next, Start, Found, NextSeed, NoMap, Refuse, Interrupt, Over, vars
<1> QED
  BY <1>1, Invariance, PTL DEF Spec, SavedIsKept

(* The seeds of the batch's maps so far, and the entries before the n-th   *)
(* that have a map to be found.                                            *)
New == Present \ existing
Findable(n) == {i \in 0..n-1 : Window(i) \cap good # {}}

(* A batch that is under way or has come to its summary. *)
Counting == (Busy \/ stage = "Done") /\ runs > 0

(* The count follows the disk: each map counted is a new file, whole but   *)
(* for the one that is being written.                                      *)
DiskInv ==
  Counting =>
    /\ existing \subseteq Present
    /\ Cardinality(New) = IF stage = "Save" THEN success - 1 ELSE success
    /\ \A s \in New :
         \/ files[s] = "complete"
         \/ stage = "Write" /\ s = CurrentSeed
    /\ stage = "Write" => CurrentSeed \in New

(* The count follows the seeds: each entry with a map to be found is       *)
(* counted, and the seeds of this entry tried so far have none.            *)
SeedInv ==
  Counting =>
    /\ stage = "Done" => entry = Count
    /\ seeded => success = Cardinality(Findable(entry))
                           + IF stage \in {"Save", "Write"} THEN 1 ELSE 0
    /\ seeded /\ stage = "Try" =>
         \A a \in 0..attempt-1 : base + entry + a \notin good

CountInv == (Busy => runs > 0) /\ DiskInv /\ SeedInv

LEMMA NewIsFinite == TypeOK => IsFiniteSet(New) /\ Cardinality(New) \in Nat
<1> SUFFICES ASSUME TypeOK PROVE IsFiniteSet(New) /\ Cardinality(New) \in Nat
  OBVIOUS
<1>1. PICK m \in Seeds : Seeds = 0..m
  BY BatchAssumption
<1>2. 0 \in Int /\ m \in Int
  BY <1>1, BatchAssumption
<1>3. IsFiniteSet(Seeds)
  BY <1>1, <1>2, FS_Interval
<1>4. New \in SUBSET Seeds
  BY DEF New, Present
<1> QED
  BY <1>3, <1>4, FS_Subset, FS_CardinalityType

(* One more entry is found when it has a map to be found. *)
LEMMA FindableNext ==
  ASSUME NEW n \in Nat
  PROVE  /\ Cardinality(Findable(n)) \in Nat
         /\ Cardinality(Findable(n + 1)) =
              Cardinality(Findable(n))
                + IF Window(n) \cap good # {} THEN 1 ELSE 0
<1>1. IsFiniteSet(Findable(n))
  <2>1. IsFiniteSet(0..n-1)
    <3>1. 0 \in Int /\ n - 1 \in Int
      OBVIOUS
    <3> QED
      BY <3>1, FS_Interval
  <2>2. Findable(n) \in SUBSET (0..n-1)
    BY DEF Findable
  <2> QED
    BY <2>1, <2>2, FS_Subset
<1>2. Cardinality(Findable(n)) \in Nat
  BY <1>1, FS_CardinalityType
<1>3. 0..(n+1)-1 = (0..n-1) \cup {n} /\ n \notin 0..n-1
  OBVIOUS
<1>4. CASE Window(n) \cap good # {}
  <2>1. Findable(n + 1) = Findable(n) \cup {n} /\ n \notin Findable(n)
    BY <1>3, <1>4, Zenon DEF Findable
  <2> QED
    BY <1>1, <1>2, <1>4, <2>1, FS_AddElement
<1>5. CASE Window(n) \cap good = {}
  <2>1. Findable(n + 1) = Findable(n)
    BY <1>3, <1>5, Zenon DEF Findable
  <2> QED
    BY <1>2, <1>5, <2>1
<1> QED
  BY <1>2, <1>4, <1>5

(* An entry that none of its seeds has a map for is not findable. *)
LEMMA NoneFindable ==
  ASSUME IInv, seeded, CurrentSeed \notin good, attempt + 1 = MAX_RETRY,
         \A a \in 0..attempt-1 : base + entry + a \notin good
  PROVE  Window(entry) \cap good = {}
<1>1. base \in Nat /\ entry \in Nat /\ attempt \in Nat /\ Seeds \subseteq Nat
  BY BatchAssumption DEF IInv, TypeOK
<1> SUFFICES ASSUME NEW s \in Window(entry), s \in good PROVE FALSE
  OBVIOUS
<1>2. s \in Nat /\ s >= base + entry /\ s < base + entry + MAX_RETRY
  BY <1>1 DEF Window
<1> DEFINE a == s - (base + entry)
<1>3. a \in 0..attempt /\ base + entry + a = s
  BY <1>1, <1>2
<1>4. CurrentSeed = base + entry + attempt
  BY DEF CurrentSeed
<1> HIDE DEF a
<1>5. CASE a = attempt
  BY <1>3, <1>4, <1>5
<1>6. CASE a # attempt
  <2>1. a \in 0..attempt-1
    BY <1>1, <1>3, <1>6
  <2> QED
    BY <1>3, <2>1
<1> QED
  BY <1>5, <1>6

(* An entry that has a map is findable. *)
LEMMA FoundIsFindable ==
  ASSUME IInv, seeded, Busy, CurrentSeed \in good
  PROVE  Window(entry) \cap good # {}
<1>1. /\ base \in Nat /\ entry \in Nat /\ attempt \in 0..MAX_RETRY-1
      /\ CurrentSeed \in Seeds /\ MAX_RETRY \in Nat
  BY BatchAssumption DEF IInv, TypeOK, Busy
<1>2. CurrentSeed = base + entry + attempt
  BY DEF CurrentSeed
<1>3. CurrentSeed \in Window(entry)
  BY <1>1, <1>2 DEF Window
<1> QED
  BY <1>3

(* The count after an entry of a batch with --seed. *)
LEMMA SeedNext ==
  ASSUME IInv, IInv', Busy, runs > 0, NextEntry,
         UNCHANGED <<good, seeded, success, runs>>,
         seeded => success = Cardinality(Findable(entry))
                             + IF Window(entry) \cap good # {} THEN 1 ELSE 0
  PROVE  SeedInv'
<1>1. /\ entry' = entry + 1 /\ attempt' = 0 /\ entry \in 0..Count /\ Count \in Nat
      /\ entry < Count
      /\ stage' = IF entry + 1 < Count THEN "Try" ELSE "Done"
      /\ seeded => base' = base
  <2>1. /\ entry' = entry + 1 /\ attempt' = 0
        /\ stage' = IF entry + 1 < Count THEN "Try" ELSE "Done"
        /\ base' \in IF seeded THEN {base} ELSE BaseSeeds(FALSE)
    BY DEF NextEntry
  <2>2. entry \in 0..Count /\ Count \in Nat /\ entry < Count
    BY BatchAssumption DEF IInv, TypeOK, BatchInv
  <2>3. seeded => base' = base
    BY <2>1, Zenon
  <2> QED
    BY <2>1, <2>2, <2>3
<1>2. ASSUME seeded'
      PROVE  success' = Cardinality(Findable(entry))'
  <2>1. seeded /\ base' = base
    BY <1>1, <1>2
  <2>2. Findable(entry)' = Findable(entry + 1)
    BY <1>1, <2>1, Zenon DEF Findable, Window
  <2>3. Cardinality(Findable(entry + 1)) = Cardinality(Findable(entry))
                             + IF Window(entry) \cap good # {} THEN 1 ELSE 0
    BY <1>1, FindableNext
  <2> QED
    BY <2>1, <2>2, <2>3
<1>3. stage' = "Done" => entry' = Count'
  BY <1>1
<1>4. \A a \in 0..attempt'-1 : FALSE
  BY <1>1
<1>5. stage' \notin {"Save", "Write"} /\ (seeded' => Cardinality(Findable(entry))' \in Nat)
  <2>1. ASSUME seeded' PROVE Cardinality(Findable(entry))' \in Nat
    <3>1. Findable(entry)' = Findable(entry + 1)
      BY <1>1, <2>1, Zenon DEF Findable, Window
    <3>2. Cardinality(Findable(entry + 1)) \in Nat
      BY <1>1, FindableNext
    <3> QED
      BY <3>1, <3>2
  <2> QED
    BY <1>1, <2>1
<1> QED
  BY <1>2, <1>3, <1>4, <1>5 DEF SeedInv

LEMMA NextCountInv == IInv /\ IInv' /\ CountInv /\ [Next]_vars => CountInv'
<1> SUFFICES ASSUME IInv, IInv', CountInv, [Next]_vars PROVE CountInv'
  OBVIOUS
<1>t. /\ files \in [Seeds -> {"absent", "partial", "complete"}]
      /\ entry \in Nat /\ attempt \in Nat /\ base \in Nat
      /\ success \in Nat /\ runs \in Nat /\ seeded \in BOOLEAN
  BY BatchAssumption DEF IInv, TypeOK
<1>1. CASE Start
  <2>1. /\ runs' = runs + 1 /\ stage' = "Try"
        /\ entry' = 0 /\ attempt' = 0 /\ success' = 0
        /\ existing' = Present /\ good' = good /\ files' = files
    BY <1>1 DEF Start
  <2>2. Present' = Present /\ New' = {} /\ Findable(entry)' = {}
    BY <2>1 DEF Present, New, Findable
  <2>3. Cardinality({}) = 0
    BY FS_EmptySet
  <2>4. DiskInv'
    BY <2>1, <2>2, <2>3 DEF DiskInv
  <2>5. SeedInv'
    BY <2>1, <2>2, <2>3 DEF SeedInv
  <2>6. runs' > 0
    BY <1>t, <2>1
  <2> QED
    BY <2>4, <2>5, <2>6 DEF CountInv
<1>2. CASE Found
  <2>1. /\ stage = "Try" /\ stage' = "Save" /\ success' = success + 1
        /\ UNCHANGED <<good, files, seeded, entry, base, attempt, runs, existing>>
    BY <1>2 DEF Found
  <2>2. Present' = Present /\ New' = New /\ Findable(entry)' = Findable(entry)
    BY <2>1, Zenon DEF Present, New, Findable, Window
  <2>3. Counting /\ runs > 0
    BY <2>1 DEF CountInv, Counting, Busy
  <2>4. Cardinality(Findable(entry)) \in Nat
    BY <1>t, FindableNext
  <2>5. DiskInv'
    BY <1>t, <2>1, <2>2, <2>3 DEF CountInv, DiskInv
  <2>6. SeedInv'
    BY <1>t, <2>1, <2>2, <2>3, <2>4 DEF CountInv, SeedInv
  <2> QED
    BY <2>1, <2>3, <2>5, <2>6 DEF CountInv
<1>3. CASE NextSeed
  <2>1. /\ stage = "Try" /\ CurrentSeed \notin good /\ attempt' = attempt + 1
        /\ UNCHANGED <<good, files, stage, seeded, entry, base, success, runs,
                       existing>>
    BY <1>3 DEF NextSeed
  <2>2. Present' = Present /\ New' = New /\ Findable(entry)' = Findable(entry)
    BY <2>1, Zenon DEF Present, New, Findable, Window
  <2>3. Counting /\ runs > 0
    BY <2>1 DEF CountInv, Counting, Busy
  <2>4. DiskInv'
    BY <2>1, <2>2, <2>3 DEF CountInv, DiskInv
  <2>5. ASSUME seeded, NEW a \in 0..attempt'-1 PROVE base' + entry' + a \notin good'
    <3>1. CASE a \in 0..attempt-1
      BY <2>1, <2>3, <2>5, <3>1 DEF CountInv, SeedInv
    <3>2. CASE a = attempt
      BY <2>1, <2>5, <3>2 DEF CurrentSeed
    <3> QED
      BY <1>t, <2>1, <3>1, <3>2
  <2>6. SeedInv'
    BY <2>1, <2>2, <2>3, <2>5 DEF CountInv, SeedInv
  <2> QED
    BY <2>1, <2>3, <2>4, <2>6 DEF CountInv
<1>4. CASE NoMap
  <2>1. /\ stage = "Try" /\ CurrentSeed \notin good /\ attempt + 1 = MAX_RETRY
        /\ NextEntry /\ Busy /\ stage' \in {"Try", "Done"}
        /\ UNCHANGED <<good, files, seeded, success, runs, existing>>
    BY <1>4 DEF NoMap, NextEntry, Busy
  <2>2. Present' = Present /\ New' = New
    BY <2>1, Zenon DEF Present, New
  <2>3. Counting /\ runs > 0
    BY <2>1 DEF CountInv, Counting
  <2>4. DiskInv'
    BY <2>1, <2>2, <2>3 DEF CountInv, DiskInv
  <2>5. seeded => success = Cardinality(Findable(entry))
                            + IF Window(entry) \cap good # {} THEN 1 ELSE 0
    <3>1. ASSUME seeded PROVE Window(entry) \cap good = {}
      BY <2>1, <2>3, <3>1, NoneFindable DEF CountInv, SeedInv
    <3> QED
      BY <2>1, <2>3, <3>1 DEF CountInv, SeedInv
  <2>6. SeedInv'
    BY <2>1, <2>3, <2>5, SeedNext
  <2> QED
    BY <2>1, <2>3, <2>4, <2>6 DEF CountInv
<1>5. CASE Refuse \/ Interrupt
  <2>1. stage' \in {"Refused", "Interrupted"}
    BY <1>5 DEF Refuse, Interrupt
  <2> QED
    BY <2>1 DEF CountInv, DiskInv, SeedInv, Counting, Busy
<1>6. CASE Create
  <2>1. /\ stage = "Save" /\ stage' = "Write" /\ CurrentSeed \notin Present
        /\ files' = [files EXCEPT ![CurrentSeed] = "partial"]
        /\ CurrentSeed' = CurrentSeed
        /\ UNCHANGED <<good, seeded, entry, base, attempt, success, runs, existing>>
    BY <1>6 DEF Create, CurrentSeed
  <2>2. Counting /\ runs > 0 /\ CurrentSeed \in Seeds
    BY <2>1 DEF CountInv, Counting, Busy, IInv, TypeOK
  <2>3. /\ existing \subseteq Present /\ Cardinality(New) = success - 1
        /\ \A s \in New : files[s] = "complete"
    BY <2>1, <2>2 DEF CountInv, DiskInv
  <2>4. Present' = Present \cup {CurrentSeed}
    BY <1>t, <2>1, <2>2 DEF Present
  <2>5. New' = New \cup {CurrentSeed} /\ CurrentSeed \notin New
    BY <2>1, <2>3, <2>4 DEF New
  <2>6. Cardinality(New') = success
    BY <1>t, <2>3, <2>5, NewIsFinite, FS_AddElement DEF IInv
  <2>7. \A s \in New : s # CurrentSeed /\ s \in Seeds
    BY <2>5 DEF New, Present
  <2>8. \A s \in New : files'[s] = "complete"
    BY <1>t, <2>1, <2>3, <2>7
  <2>9. DiskInv'
    BY <2>1, <2>3, <2>4, <2>5, <2>6, <2>8 DEF DiskInv
  <2>10. Findable(entry)' = Findable(entry)
    BY <2>1, Zenon DEF Findable, Window
  <2>11. SeedInv'
    BY <2>1, <2>2, <2>10 DEF CountInv, SeedInv
  <2> QED
    BY <2>1, <2>2, <2>9, <2>11 DEF CountInv
<1>7. CASE Written
  <2>1. /\ stage = "Write" /\ NextEntry /\ Busy /\ stage' \in {"Try", "Done"}
        /\ files' = [files EXCEPT ![CurrentSeed] = "complete"]
        /\ UNCHANGED <<good, seeded, success, runs, existing>>
    BY <1>7 DEF Written, NextEntry, Busy
  <2>2. Counting /\ runs > 0 /\ CurrentSeed \in good
    BY <2>1 DEF CountInv, Counting, IInv, FoundInv
  <2>3. /\ existing \subseteq Present /\ Cardinality(New) = success
        /\ \A s \in New : files[s] = "complete" \/ s = CurrentSeed
        /\ CurrentSeed \in New
    BY <2>1, <2>2 DEF CountInv, DiskInv
  <2>4. Present' = Present
    BY <1>t, <2>1, <2>3 DEF Present, New
  <2>5. New' = New /\ \A s \in New : s \in Seeds
    BY <2>1, <2>4 DEF New, Present
  <2>6. \A s \in New : files'[s] = "complete"
    BY <1>t, <2>1, <2>3, <2>5
  <2>7. DiskInv'
    BY <2>1, <2>3, <2>4, <2>5, <2>6 DEF DiskInv
  <2>8. seeded => success = Cardinality(Findable(entry))
                            + IF Window(entry) \cap good # {} THEN 1 ELSE 0
    <3>1. ASSUME seeded PROVE Window(entry) \cap good # {}
      BY <2>1, <2>2, <3>1, FoundIsFindable
    <3> QED
      BY <2>1, <2>2, <3>1 DEF CountInv, SeedInv
  <2>9. SeedInv'
    BY <2>1, <2>2, <2>8, SeedNext
  <2> QED
    BY <2>1, <2>2, <2>7, <2>9 DEF CountInv
<1>8. CASE Over \/ UNCHANGED vars
  <2>1. UNCHANGED vars
    BY <1>8 DEF Over
  <2> QED
    BY <2>1 DEF vars, CountInv, DiskInv, SeedInv, Counting, Busy, New, Present,
                Findable, Window, CurrentSeed
<1> QED
  BY <1>1, <1>2, <1>3, <1>4, <1>5, <1>6, <1>7, <1>8 DEF Next

(* A batch that comes to its summary has saved as many new maps as it says,*)
(* all of them whole, and with --seed one for each entry that a seed of    *)
(* its retries has a map for: success_count of main() counts them.         *)
THEOREM SummaryHolds == Spec => []SummaryTrue
<1>1. Init => CountInv
  BY DEF Init, CountInv, DiskInv, SeedInv, Counting, Busy
<1>2. IInv /\ CountInv => SummaryTrue
  <2> SUFFICES ASSUME IInv, CountInv, stage = "Done", runs > 0
               PROVE  /\ Cardinality(New) = success
                      /\ \A s \in New : files[s] = "complete"
                      /\ seeded => success = Cardinality(Findable(Count))
    BY DEF SummaryTrue, New, Findable
  <2>1. Counting
    BY DEF Counting
  <2>2. DiskInv /\ SeedInv
    BY DEF CountInv
  <2>3. Cardinality(Findable(Count)) \in Nat
    BY BatchAssumption, FindableNext
  <2> QED
    BY <2>1, <2>2, <2>3 DEF DiskInv, SeedInv
<1> QED
  BY <1>1, <1>2, NextCountInv, Invariance, PTL DEF Spec
=============================================================================
