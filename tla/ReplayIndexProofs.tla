------------------------- MODULE ReplayIndexProofs -------------------------
(***************************************************************************)
(* Proofs about ReplayIndex, for any number of threads, any line length,   *)
(* any pages and any number of frames.                                     *)
(*                                                                         *)
(* IndexSound says what is true however the file grows under the requests: *)
(* no frame below the cached size is missing. It rests on CoverInv: a scan *)
(* has every line that begins below its own position, and no position ever *)
(* passes the end of the file. AnswersExact says more where bytes appear   *)
(* in whole lines and between requests; it rests on ExactInv, which relates *)
(* what a thread remembers to the size the file still has. That a page is  *)
(* exact is shown by induction over the loop that reads it, from the fact  *)
(* of the library that < is well-founded on Nat.                           *)
(***************************************************************************)
EXTENDS ReplayIndex, FiniteSetTheorems, WellFoundedInduction, TLAPS

(* What the cache and a thread hold.                                       *)
Index == {NoIndex} \cup [mtime: Offsets, size: Offsets, lines: Seq(Offsets)]
Local == [mtime: Offsets, size: Offsets, offset: Offsets, lines: Seq(Offsets)]
Places == {"idle", "size", "lock", "scan", "answer"}

(* Every variable has its type, lines are sequences of offsets, and the    *)
(* lock is held by the one thread that scans.                              *)
ShapeInv ==
  /\ recorded \in 0..MaxFrames /\ size \in 0..Bytes
  /\ closed \in BOOLEAN /\ torn \in BOOLEAN
  /\ cache \in Index /\ loc \in [Threads -> Local]
  /\ holder \in Threads \cup {NoThread}
  /\ pc \in [Threads -> Places]
  /\ \A t \in Threads : pc[t] = "scan" <=> holder = t

(* lines has every line that begins below position end. *)
Covers(lines, end) ==
  \A o \in Offsets : IsLineStart(o) /\ o < end => o \in Lines(lines)

(* What was read of the file is not more than there is, and the indexes    *)
(* are complete up to where they are continued.                            *)
CoverInv ==
  /\ cache.size <= size /\ Covers(cache.lines, cache.size)
  /\ \A t \in Threads :
       /\ loc[t].size <= size
       /\ pc[t] = "scan" => Covers(loc[t].lines, loc[t].offset)

(* As long as the file grows line by line and between requests, whoever is  *)
(* in a request has seen its present size, and no index is longer or        *)
(* shorter than what it was made from.                                      *)
ExactInv == ~torn =>
  /\ IsLineStart(size)
  /\ Exact(cache.lines)
  /\ cache # NoIndex => cache.size = Len(cache.lines) * LineLen
  /\ \A t \in Threads :
       /\ pc[t] # "idle" => loc[t].mtime = size
       /\ pc[t] \in {"lock", "scan"} => loc[t].size = size
       /\ pc[t] \in {"scan", "answer"} => Exact(loc[t].lines)
       /\ pc[t] = "scan" => /\ loc[t].offset = Len(loc[t].lines) * LineLen
                            /\ loc[t].offset <= size
       /\ pc[t] = "answer" => size = Len(loc[t].lines) * LineLen

IInv == ShapeInv /\ CoverInv /\ ExactInv

(* The bytes given to the recorder are offsets of the file.                *)
LEMMA OffsetsFacts ==
  ASSUME recorded \in 0..MaxFrames
  PROVE  /\ Bytes \in Nat /\ 0..Bytes \subseteq Offsets /\ 0 \in Offsets
         /\ Offsets \subseteq Nat
<1>1. LineLen \in Nat /\ MaxFrames \in Nat
  BY IndexAssumption
<1>2. recorded * LineLen <= MaxFrames * LineLen /\ recorded * LineLen \in Nat
  BY <1>1
<1>3. MaxFrames * LineLen \in Nat
  BY <1>1
<1> QED
  BY <1>2, <1>3 DEF Bytes, Offsets

(* NextLine is the first line start behind an offset; between a line start *)
(* and the next one there is none.                                         *)
LEMMA NextLineFacts ==
  ASSUME NEW o \in Nat
  PROVE  /\ NextLine(o) \in Nat /\ o < NextLine(o)
         /\ \A p \in Nat : IsLineStart(p) /\ o <= p /\ p < NextLine(o) => p = o
         /\ IsLineStart(o) => NextLine(o) = o + LineLen
<1> DEFINE q == o \div LineLen
<1>1. LineLen \in Nat /\ LineLen > 1
  BY IndexAssumption
<1>2. q \in Nat /\ o = LineLen * q + (o % LineLen) /\ o % LineLen \in 0..LineLen-1
  BY <1>1
<1>3. NextLine(o) = LineLen * q + LineLen
  BY <1>1, <1>2 DEF NextLine
<1>4. ASSUME NEW p \in Nat, p % LineLen = 0, o <= p, p < NextLine(o)
      PROVE  p = o
  <2> DEFINE r == p \div LineLen
  <2>1. r \in Nat /\ p = LineLen * r
    BY <1>1, <1>4
  <2>2. LineLen * r < LineLen * (q + 1) 
    BY <1>1, <1>2, <1>3, <1>4, <2>1
  <2>3. r < q + 1
    BY <1>1, <1>2, <2>1, <2>2
  <2>4. LineLen * r <= LineLen * q
    BY <1>1, <1>2, <2>1, <2>3
  <2> QED
    BY <1>2, <1>4, <2>1, <2>4, <1>1
<1>5. NextLine(o) \in Nat /\ o < NextLine(o)
  BY <1>1, <1>2, <1>3
<1> QED
  BY <1>2, <1>3, <1>4, <1>5, <1>1 DEF IsLineStart

(* The cached index of a file never indexed, and of one that was.          *)
LEMMA IndexFacts ==
  /\ NoIndex.size = -1 /\ NoIndex.mtime = -1 /\ NoIndex.lines = <<>>
  /\ cache \in Index => /\ cache.lines \in Seq(Offsets)
                        /\ cache # NoIndex => /\ cache.size \in Offsets
                                              /\ cache.mtime \in Offsets
<1>1. NoIndex.size = -1 /\ NoIndex.mtime = -1 /\ NoIndex.lines = <<>>
  BY DEF NoIndex
<1>2. CASE cache = NoIndex
  <2>1. <<>> \in Seq(Offsets)
    OBVIOUS
  <2> QED
    BY <1>1, <1>2, <2>1
<1>3. ASSUME cache # NoIndex, cache \in Index
      PROVE  /\ cache.lines \in Seq(Offsets) /\ cache.size \in Offsets
             /\ cache.mtime \in Offsets
  BY <1>3 DEF Index
<1> QED
  BY <1>1, <1>2, <1>3

(* Updates of what a thread remembers keep its type.                       *)
LEMMA LocalFacts ==
  \A l \in Local :
    /\ l.lines \in Seq(Offsets) /\ {l.mtime, l.size, l.offset} \subseteq Offsets
    /\ \A n \in Offsets : /\ [l EXCEPT !.mtime = n] \in Local
                          /\ [l EXCEPT !.size = n] \in Local
    /\ \A s \in Seq(Offsets) :
         /\ [l EXCEPT !.lines = s] \in Local
         /\ \A n \in Offsets : /\ [l EXCEPT !.lines = s, !.offset = n] \in Local
                               /\ [l EXCEPT !.offset = n, !.lines = s] \in Local
  BY DEF Local

(* What Append gives, element by element.                                  *)
LEMMA AppendIs ==
  ASSUME NEW S, NEW s \in Seq(S), NEW e \in S
  PROVE  Append(s, e) = [j \in 1..Len(s)+1 |->
                           IF j = Len(s)+1 THEN e ELSE s[j]]
<1> DEFINE a == Append(s, e)
<1>1. /\ a \in Seq(S) /\ Len(a) = Len(s) + 1 /\ Len(s) \in Nat
      /\ a[Len(s)+1] = e /\ \A j \in 1..Len(s) : a[j] = s[j]
  OBVIOUS
<1> HIDE DEF a
<1>2. a = [j \in 1..Len(a) |-> a[j]]
  BY <1>1
<1>3. \A j \in 1..Len(s)+1 : a[j] = IF j = Len(s)+1 THEN e ELSE s[j]
  BY <1>1
<1>4. a = [j \in 1..Len(s)+1 |-> IF j = Len(s)+1 THEN e ELSE s[j]]
  BY <1>1, <1>2, <1>3
<1> QED
  BY <1>4 DEF a

(* A line added to an index is in it, and so is what was there.            *)
LEMMA AppendFacts ==
  ASSUME NEW s \in Seq(Offsets), NEW o \in Offsets
  PROVE  /\ Append(s, o) \in Seq(Offsets) /\ Lines(s) \subseteq Lines(Append(s, o))
         /\ o \in Lines(Append(s, o))
<1>1. /\ Append(s, o) \in Seq(Offsets) /\ Len(s) + 1 \in DOMAIN Append(s, o)
      /\ Append(s, o)[Len(s) + 1] = o
      /\ \A i \in DOMAIN s : i \in DOMAIN Append(s, o) /\ Append(s, o)[i] = s[i]
  OBVIOUS
<1> QED
  BY <1>1, Zenon DEF Lines

(* Every step keeps the types, and the lock with the one thread that scans.*)
LEMMA ShapeStep == IInv /\ [Next]_vars => ShapeInv'
<1> SUFFICES ASSUME IInv, [Next]_vars PROVE ShapeInv'
  OBVIOUS
<1>1. /\ Bytes \in Nat /\ 0..Bytes \subseteq Offsets /\ 0 \in Offsets
      /\ Offsets \subseteq Nat /\ NoThread \notin Threads
  BY OffsetsFacts, IndexAssumption DEF IInv, ShapeInv
<1>2. size \in Offsets
  BY <1>1 DEF IInv, ShapeInv
<1> USE DEF IInv, ShapeInv, At, Goto, writer, Places
<1>3. CASE RecordFrame
  <2>1. recorded' \in 0..MaxFrames /\ Bytes <= Bytes' /\ Bytes' \in Nat
    BY <1>3, IndexAssumption DEF RecordFrame, Bytes
  <2> QED
    BY <1>1, <1>3, <2>1 DEF RecordFrame
<1>4. CASE WriteOut
  <2>1. size' \in 0..Bytes /\ Bytes' = Bytes
    BY <1>1, <1>4 DEF WriteOut, Bytes
  <2> QED
    BY <1>4, <2>1 DEF WriteOut
<1>5. CASE End
  BY <1>5 DEF End, Bytes
<1>6. ASSUME NEW t \in Threads, Request(t) \/ ReadSize(t) PROVE ShapeInv'
  <2>1. loc' \in [Threads -> Local]
    <3> DEFINE l == [loc[t] EXCEPT !.mtime = size]
               r == [loc[t] EXCEPT !.size = size]
    <3>1. l \in Local /\ r \in Local
      <4>1. loc[t] \in Local
        OBVIOUS
      <4> QED
        BY <1>2, <4>1, LocalFacts, Zenon
    <3>2. loc' = [loc EXCEPT ![t] = l] \/ loc' = [loc EXCEPT ![t] = r]
      BY <1>6, Zenon DEF Request, ReadSize
    <3> HIDE DEF l, r
    <3> QED
      BY <3>1, <3>2
  <2> QED
    BY <1>1, <1>6, <2>1 DEF Request, ReadSize, Bytes
<1>7. ASSUME NEW t \in Threads, Hit(t) PROVE ShapeInv'
  <2>1. cache.lines \in Seq(Offsets)
    BY IndexFacts
  <2>2. loc' \in [Threads -> Local]
    BY <1>1, <1>7, <2>1, LocalFacts DEF Hit
  <2> QED
    BY <1>1, <1>7, <2>2 DEF Hit, Bytes
<1>8. ASSUME NEW t \in Threads, Miss(t) PROVE ShapeInv'
  <2>1. ScanFrom(t) \in Local
    <3>1. loc[t] \in Local /\ <<>> \in Seq(Offsets)
      OBVIOUS
    <3> QED
      BY <1>1, <3>1, IndexFacts, LocalFacts DEF ScanFrom
  <2>2. loc' \in [Threads -> Local]
    BY <1>8, <2>1 DEF Miss
  <2> QED
    BY <1>1, <1>8, <2>2 DEF Miss, Bytes
<1>9. ASSUME NEW t \in Threads, ScanLine(t) PROVE ShapeInv'
  <2> DEFINE o == loc[t].offset
             e == IF NextLine(o) <= size THEN NextLine(o) ELSE size
             l == IF o = NextLine(o) - 1 THEN loc[t].lines
                  ELSE Append(loc[t].lines, o)
  <2>1. o \in Offsets /\ e \in Offsets /\ l \in Seq(Offsets)
    <3>1. loc[t] \in Local
      OBVIOUS
    <3>2. o \in Offsets /\ loc[t].lines \in Seq(Offsets)
      BY <3>1, <1>1, LocalFacts
    <3>3. e \in 0..Bytes
      <4>1. o \in Nat
        BY <1>1, <3>2
      <4> HIDE DEF o
      <4>2. NextLine(o) \in Nat
        BY <4>1, NextLineFacts
      <4> QED
        BY <1>1, <4>2
    <3> QED
      BY <1>1, <3>2, <3>3, AppendFacts
  <2>2. loc' = [loc EXCEPT ![t].offset = e, ![t].lines = l]
    BY <1>9 DEF ScanLine
  <2> HIDE DEF o, e, l
  <2>3. loc' \in [Threads -> Local]
    BY <2>1, <2>2 DEF Local
  <2> QED
    BY <1>9, <2>3 DEF ScanLine, Bytes
<1>10. ASSUME NEW t \in Threads, ScanEnd(t) PROVE ShapeInv'
  <2>1. cache' \in Index
    BY <1>10 DEF ScanEnd, Index, Local
  <2> QED
    BY <1>1, <1>10, <2>1 DEF ScanEnd, Bytes
<1>11. ASSUME NEW t \in Threads, Reply(t) PROVE ShapeInv'
  <2>1. Idle \in Local
    BY <1>1 DEF Idle, Local
  <2> QED
    BY <1>1, <1>11, <2>1 DEF Reply, Bytes
<1>12. CASE UNCHANGED vars
  BY <1>12 DEF vars, Bytes
<1> QED
  BY <1>3, <1>4, <1>5, <1>6, <1>7, <1>8, <1>9, <1>10, <1>11, <1>12
  DEF Next, Recorder, Build

(* Every step keeps the indexes complete up to their position: ScanLine    *)
(* passes over no line start, and ScanEnd keeps a position at most as far  *)
(* as the scan came.                                                       *)
LEMMA CoverStep == IInv /\ [Next]_vars => CoverInv'
<1> SUFFICES ASSUME IInv, [Next]_vars PROVE CoverInv'
  OBVIOUS
<1>1. /\ Offsets \subseteq Nat /\ size \in Nat /\ size' \in Nat /\ size <= size'
      /\ NoThread \notin Threads
  <2>1. size \in Nat /\ Offsets \subseteq Nat
    BY OffsetsFacts DEF IInv, ShapeInv
  <2>2. size' = size \/ size' \in size+1..Bytes
    BY DEF Next, Recorder, RecordFrame, WriteOut, End, Request, Build, ReadSize,
       Hit, Miss, ScanLine, ScanEnd, Reply, writer, vars
  <2>3. Bytes \in Nat
    BY OffsetsFacts DEF IInv, ShapeInv
  <2> QED
    BY <2>1, <2>2, <2>3, IndexAssumption
<1>2. /\ pc \in [Threads -> Places] /\ loc \in [Threads -> Local]
      /\ cache \in Index /\ \A t \in Threads : pc[t] = "scan" <=> holder = t
  BY DEF IInv, ShapeInv
<1>3. \A t \in Threads : loc[t].size \in Nat /\ loc[t].offset \in Nat
  BY <1>1, <1>2 DEF Local
<1>15. cache.size \in Int
  <2>1. CASE cache = NoIndex
    BY <2>1, IndexFacts
  <2>2. CASE cache # NoIndex
    <3>1. cache.size \in Nat
      BY <1>1, <1>2, <2>2, IndexFacts, Zenon
    <3> QED
      BY <3>1
  <2> QED
    BY <2>1, <2>2
<1> USE DEF IInv, CoverInv, At, Goto, writer
<1>4. CASE Recorder \/ UNCHANGED vars
  <2>1. UNCHANGED <<cache, pc, loc>>
    BY <1>4 DEF Recorder, RecordFrame, WriteOut, End, vars
  <2> QED
    BY <1>1, <1>2, <1>3, <1>15, <2>1
<1>5. ASSUME NEW t \in Threads, Request(t) \/ ReadSize(t) \/ Hit(t) PROVE CoverInv'
  <2>1. /\ pc'[t] # "scan" /\ \A u \in Threads \ {t} : pc'[u] = pc[u] /\ loc'[u] = loc[u]
        /\ UNCHANGED <<cache, size>> /\ loc'[t].size \in {loc[t].size, size}
    BY <1>2, <1>5 DEF Request, ReadSize, Hit, Local
  <2> QED
    BY <1>1, <1>2, <1>3, <2>1
<1>6. ASSUME NEW t \in Threads, Miss(t) PROVE CoverInv'
  <2>1. Covers(loc'[t].lines, loc'[t].offset)
    BY <1>1, <1>2, <1>6 DEF Miss, ScanFrom, Covers
  <2>2. loc'[t].size = loc[t].size
    BY <1>2, <1>6 DEF Miss, ScanFrom, Local
  <2> QED
    BY <1>2, <1>6, <2>1, <2>2 DEF Miss
<1>7. ASSUME NEW t \in Threads, ScanLine(t) PROVE CoverInv'
  <2> DEFINE o == loc[t].offset
             e == IF NextLine(o) <= size THEN NextLine(o) ELSE size
             l == IF o = NextLine(o) - 1 THEN loc[t].lines
                  ELSE Append(loc[t].lines, o)
  <2>1. /\ loc'[t].offset = e /\ loc'[t].lines = l /\ loc'[t].size = loc[t].size
        /\ pc[t] = "scan" /\ pc' = pc /\ cache' = cache /\ size' = size
        /\ \A u \in Threads \ {t} : loc'[u] = loc[u]
    BY <1>2, <1>7 DEF ScanLine, Local
  <2>2. o \in Nat /\ e <= NextLine(o) /\ e \in Nat /\ NextLine(o) \in Nat
    BY <1>1, <1>3, NextLineFacts
  <2>3. loc[t].lines \in Seq(Offsets) /\ o \in Offsets
    BY <1>2 DEF Local
  <2>4. Lines(loc[t].lines) \subseteq Lines(l)
    BY <2>3, AppendFacts
  <2>5. IsLineStart(o) => o \in Lines(l)
    <3>1. ASSUME IsLineStart(o) PROVE o # NextLine(o) - 1
      BY <2>2, <3>1, NextLineFacts, IndexAssumption
    <3>2. o \in Lines(Append(loc[t].lines, o))
      BY <2>3, AppendFacts
    <3> QED
      BY <3>1, <3>2
  <2>6. ASSUME NEW p \in Offsets, IsLineStart(p), p < e PROVE p \in Lines(l)
    <3>1. CASE p < o
      BY <1>2, <2>1, <2>4, <2>6, <3>1 DEF Covers
    <3>2. CASE o <= p
      <4>1. p = o
        BY <1>1, <2>2, <2>6, <3>2, NextLineFacts
      <4> QED
        BY <2>5, <2>6, <4>1
    <3> QED
      BY <1>1, <2>2, <3>1, <3>2
  <2> HIDE DEF e, l
  <2>7. Covers(l, e)
    BY <2>6 DEF Covers
  <2> QED
    BY <1>2, <2>1, <2>7
<1>8. ASSUME NEW t \in Threads, ScanEnd(t) PROVE CoverInv'
  <2>1. Covers(loc[t].lines, loc[t].size)
    BY <1>1, <1>3, <1>8 DEF ScanEnd, Covers
  <2> QED
    BY <1>2, <1>8, <2>1 DEF ScanEnd
<1>9. ASSUME NEW t \in Threads, Reply(t) PROVE CoverInv'
  BY <1>1, <1>2, <1>9 DEF Reply, Idle
<1> QED
  BY <1>4, <1>5, <1>6, <1>7, <1>8, <1>9 DEF Next, Build

(* Lines are LineLen apart.                                                *)
LEMMA LineFacts ==
  /\ \A n \in Nat : n * LineLen \in Nat /\ IsLineStart(n * LineLen)
                    /\ (n + 1) * LineLen = n * LineLen + LineLen
  /\ \A o, s \in Nat : IsLineStart(o) /\ IsLineStart(s) /\ o < s => o + LineLen <= s
  /\ LineLen \in Nat /\ LineLen > 1
<1>1. LineLen \in Nat /\ LineLen > 1
  BY IndexAssumption
<1>2. ASSUME NEW n \in Nat
      PROVE  n * LineLen \in Nat /\ IsLineStart(n * LineLen)
             /\ (n + 1) * LineLen = n * LineLen + LineLen
  BY <1>1 DEF IsLineStart
<1>3. ASSUME NEW o \in Nat, NEW s \in Nat, IsLineStart(o), IsLineStart(s), o < s
      PROVE  o + LineLen <= s
  <2>1. NextLine(o) = o + LineLen
    BY <1>3, NextLineFacts
  <2>2. ~(s < NextLine(o))
    BY <1>3, NextLineFacts
  <2> QED
    BY <1>1, <2>1, <2>2
<1> QED
  BY <1>1, <1>2, <1>3

(* An exact index is exact with its next line.                             *)
LEMMA ExactAppend ==
  ASSUME NEW s \in Seq(Offsets), Exact(s), Len(s) * LineLen \in Offsets
  PROVE  Exact(Append(s, Len(s) * LineLen))
  BY DEF Exact

(* So is the one without a line.                                           *)
LEMMA ExactEmpty == Exact(<<>>)
  BY DEF Exact

(* Where bytes appear in whole lines and between requests, every step      *)
(* keeps the indexes exact.                                                *)
LEMMA ExactStep == IInv /\ [Next]_vars => ExactInv'
<1> SUFFICES ASSUME IInv, [Next]_vars, ~torn' PROVE ExactInv'
  BY DEF ExactInv
<1>1. /\ Offsets \subseteq Nat /\ size \in Nat /\ NoThread \notin Threads
      /\ pc \in [Threads -> Places] /\ loc \in [Threads -> Local]
      /\ cache \in Index /\ \A t \in Threads : pc[t] = "scan" <=> holder = t
  BY OffsetsFacts, IndexAssumption DEF IInv, ShapeInv
<1>2. ~torn
  BY DEF Next, Recorder, RecordFrame, WriteOut, End, Request, Build, ReadSize,
     Hit, Miss, ScanLine, ScanEnd, Reply, writer, vars
<1>3. /\ IsLineStart(size)
      /\ Exact(cache.lines)
      /\ cache # NoIndex => cache.size = Len(cache.lines) * LineLen
      /\ \A t \in Threads :
           /\ pc[t] # "idle" => loc[t].mtime = size
           /\ pc[t] \in {"lock", "scan"} => loc[t].size = size
           /\ pc[t] \in {"scan", "answer"} => Exact(loc[t].lines)
           /\ pc[t] = "scan" => /\ loc[t].offset = Len(loc[t].lines) * LineLen
                                /\ loc[t].offset <= size
           /\ pc[t] = "answer" => size = Len(loc[t].lines) * LineLen
  BY <1>2 DEF IInv, ExactInv
<1>4. /\ Covers(cache.lines, cache.size) /\ cache.size <= size
      /\ cache.lines \in Seq(Offsets)
  BY <1>1, IndexFacts DEF IInv, CoverInv
<1> DEFINE Of(t) ==
      /\ pc[t] # "idle" => loc[t].mtime = size
      /\ pc[t] \in {"lock", "scan"} => loc[t].size = size
      /\ pc[t] \in {"scan", "answer"} => Exact(loc[t].lines)
      /\ pc[t] = "scan" => /\ loc[t].offset = Len(loc[t].lines) * LineLen
                           /\ loc[t].offset <= size
      /\ pc[t] = "answer" => size = Len(loc[t].lines) * LineLen
<1>5. ASSUME NEW t \in Threads, UNCHANGED <<size, torn, cache>>, Of(t)',
             \A u \in Threads \ {t} : pc'[u] = pc[u] /\ loc'[u] = loc[u]
      PROVE  ExactInv'
  BY <1>3, <1>5 DEF ExactInv
<1> USE DEF At, Goto, writer
<1>6. CASE RecordFrame \/ End \/ UNCHANGED vars
  BY <1>3, <1>6 DEF RecordFrame, End, vars, ExactInv
<1>7. CASE WriteOut
  BY <1>3, <1>7 DEF WriteOut, ExactInv
<1>8. ASSUME NEW t \in Threads, Request(t) \/ ReadSize(t) \/ Reply(t) PROVE ExactInv'
  <2>1. Of(t)'
    BY <1>1, <1>3, <1>8 DEF Request, ReadSize, Reply, Local
  <2> QED
    BY <1>1, <1>5, <1>8, <2>1 DEF Request, ReadSize, Reply
<1>9. ASSUME NEW t \in Threads, Hit(t) PROVE ExactInv'
  <2>1. loc[t].size \in Nat
    BY <1>1 DEF Local
  <2>2. cache.size = size /\ cache # NoIndex
    BY <1>1, <1>3, <1>9, <2>1, IndexFacts DEF Hit
  <2>3. /\ loc'[t].lines = cache.lines /\ loc'[t].mtime = loc[t].mtime
        /\ pc[t] = "lock" /\ pc'[t] = "answer"
    BY <1>1, <1>9 DEF Hit, Local
  <2>4. Of(t)'
    BY <1>3, <1>9, <2>2, <2>3 DEF Hit
  <2> QED
    BY <1>1, <1>5, <1>9, <2>4 DEF Hit
<1>10. ASSUME NEW t \in Threads, Miss(t) PROVE ExactInv'
  <2>1. /\ loc'[t] = ScanFrom(t) /\ pc[t] = "lock" /\ pc'[t] = "scan"
        /\ UNCHANGED <<size, torn, cache>>
        /\ \A u \in Threads \ {t} : pc'[u] = pc[u] /\ loc'[u] = loc[u]
    BY <1>1, <1>10 DEF Miss
  <2>2. loc'[t].mtime = size /\ loc'[t].size = size
    BY <1>1, <1>3, <2>1 DEF ScanFrom, Local
  <2>3. CASE cache # NoIndex /\ cache.size <= loc[t].size
    <3>1. loc'[t].lines = cache.lines /\ loc'[t].offset = cache.size
      BY <1>1, <2>1, <2>3 DEF ScanFrom, Local
    <3>2. Of(t)'
      BY <1>3, <1>4, <2>1, <2>2, <2>3, <3>1
    <3> QED
      BY <1>5, <2>1, <3>2
  <2>4. CASE ~(cache # NoIndex /\ cache.size <= loc[t].size)
    <3>1. loc'[t].lines = <<>> /\ loc'[t].offset = 0
      BY <1>1, <2>1, <2>4 DEF ScanFrom, Local
    <3>2. Of(t)'
      BY <1>1, <2>1, <2>2, <3>1, ExactEmpty, LineFacts
    <3> QED
      BY <1>5, <2>1, <3>2
  <2> QED
    BY <2>3, <2>4
<1>11. ASSUME NEW t \in Threads, ScanLine(t) PROVE ExactInv'
  <2> DEFINE o == loc[t].offset
             s == loc[t].lines
  <2>1. /\ pc[t] = "scan" /\ pc' = pc /\ o < size /\ UNCHANGED <<size, torn, cache>>
        /\ \A u \in Threads \ {t} : loc'[u] = loc[u]
        /\ loc'[t].offset = IF NextLine(o) <= size THEN NextLine(o) ELSE size
        /\ loc'[t].lines = IF o = NextLine(o) - 1 THEN s ELSE Append(s, o)
        /\ loc'[t].mtime = loc[t].mtime /\ loc'[t].size = loc[t].size
    BY <1>1, <1>11 DEF ScanLine, Local
  <2>2. /\ s \in Seq(Offsets) /\ o \in Offsets /\ o \in Nat /\ Len(s) \in Nat
        /\ Exact(s) /\ o = Len(s) * LineLen
    <3>1. s \in Seq(Offsets) /\ o \in Offsets
      BY <1>1, LocalFacts, Zenon
    <3>2. Exact(s) /\ o = Len(s) * LineLen
      BY <1>3, <2>1, Zenon
    <3>3. o \in Nat
      BY <1>1, <3>1, Zenon
    <3>4. Len(s) \in Nat
      BY <3>1
    <3> QED
      BY <3>1, <3>2, <3>3, <3>4
  <2> HIDE DEF o, s
  <2>3. NextLine(o) = o + LineLen /\ o + LineLen <= size
    <3>1. IsLineStart(o)
      BY <2>2, LineFacts
    <3>2. o + LineLen <= size
      BY <1>1, <1>3, <2>1, <2>2, <3>1, LineFacts
    <3> QED
      BY <2>2, <3>1, <3>2, NextLineFacts
  <2>4. /\ loc'[t].offset = o + LineLen /\ loc'[t].lines = Append(s, o)
        /\ Len(Append(s, o)) = Len(s) + 1
    <3>1. LineLen \in Nat /\ LineLen > 1
      BY LineFacts
    <3>2. o # NextLine(o) - 1 /\ NextLine(o) <= size
      BY <2>2, <2>3, <3>1
    <3> QED
      BY <2>1, <2>2, <2>3, <3>2
  <2>5. Exact(loc'[t].lines)
    BY <2>2, <2>4, ExactAppend
  <2>6. o + LineLen = (Len(s) + 1) * LineLen
    BY <2>2, LineFacts
  <2>7. Of(t)'
    BY <1>3, <2>1, <2>3, <2>4, <2>5, <2>6
  <2> QED
    BY <1>5, <2>1, <2>7
<1>12. ASSUME NEW t \in Threads, ScanEnd(t) PROVE ExactInv'
  <2>1. /\ pc[t] = "scan" /\ loc' = loc /\ size' = size /\ loc[t].offset >= size
        /\ pc'[t] = "answer" /\ \A u \in Threads \ {t} : pc'[u] = pc[u]
        /\ cache'.size = loc[t].size /\ cache'.lines = loc[t].lines
    BY <1>1, <1>12 DEF ScanEnd
  <2>2. size = Len(loc[t].lines) * LineLen
    <3>1. loc[t].offset \in Nat
      BY <1>1 DEF Local
    <3> QED
      BY <1>1, <1>3, <2>1, <3>1
  <2> QED
    BY <1>3, <2>1, <2>2 DEF ExactInv
<1> QED
  BY <1>6, <1>7, <1>8, <1>9, <1>10, <1>11, <1>12 DEF Next, Recorder, Build

(* The inductive invariant of the recorder and the server's threads.       *)
THEOREM Invariance == Spec => []IInv
<1>1. Init => IInv
  <2> SUFFICES ASSUME Init PROVE IInv
    OBVIOUS
  <2>1. /\ 0 \in Offsets /\ <<>> \in Seq(Offsets) /\ NoThread \notin Threads
        /\ 0 \in 0..MaxFrames /\ 0 * LineLen = 0
    BY IndexAssumption DEF Offsets
  <2>2. Idle \in Local /\ Idle.size = 0
    BY <2>1 DEF Idle, Local
  <2>3. ShapeInv
    <3>1. /\ recorded \in 0..MaxFrames /\ size \in 0..Bytes
          /\ closed \in BOOLEAN /\ torn \in BOOLEAN
      <4>1. recorded = 0 /\ size = 0 /\ closed = FALSE /\ torn = FALSE
        BY Zenon DEF Init
      <4>2. closed \in BOOLEAN /\ torn \in BOOLEAN
        BY <4>1, Zenon
      <4>3. recorded \in 0..MaxFrames /\ size \in 0..Bytes
        BY <2>1, <4>1 DEF Bytes
      <4> QED
        BY <4>2, <4>3
    <3>2. cache \in Index /\ loc \in [Threads -> Local]
      BY <2>2 DEF Init, Index
    <3>3. /\ holder \in Threads \cup {NoThread} /\ pc \in [Threads -> Places]
          /\ \A t \in Threads : pc[t] = "scan" <=> holder = t
      BY <2>1 DEF Init, Places
    <3> QED
      BY <3>1, <3>2, <3>3 DEF ShapeInv
  <2>4. CoverInv
    BY <2>1, <2>2, IndexFacts DEF Init, CoverInv, Covers, Offsets
  <2>5. ExactInv
    BY <2>1, IndexFacts, ExactEmpty, LineFacts DEF Init, ExactInv
  <2> QED
    BY <2>3, <2>4, <2>5 DEF IInv
<1>2. IInv /\ [Next]_vars => IInv'
  BY ShapeStep, CoverStep, ExactStep DEF IInv
<1> QED
  BY <1>1, <1>2, PTL DEF Spec

(* Whatever the recorder writes while the threads scan, _build_line_index  *)
(* loses no frame below the position the next scan starts from.            *)
THEOREM IndexIsSound == Spec => []IndexSound
<1>1. IInv => TypeOK
  <2> SUFFICES ASSUME IInv PROVE TypeOK
    OBVIOUS
  <2>1. cache.lines \in Seq(Offsets) /\ cache.size \in Offsets \cup {-1} /\ cache.mtime \in Offsets \cup {-1}
    BY IndexFacts DEF IInv, ShapeInv
  <2>2. \A t \in Threads : /\ {loc[t].mtime, loc[t].size, loc[t].offset} \subseteq Offsets
                           /\ loc[t].lines \in Seq(Offsets)
    BY LocalFacts DEF IInv, ShapeInv
  <2>3. \A s \in Seq(Offsets) : Lines(s) \subseteq Offsets
    BY DEF Lines
  <2> QED
    BY <2>1, <2>2, <2>3 DEF IInv, ShapeInv, TypeOK, Places
<1>2. IInv => NoFrameLost
  <2> SUFFICES ASSUME IInv, NEW o \in Starts, o < cache.size
               PROVE  o \in Lines(cache.lines)
    BY DEF NoFrameLost
  <2>1. o \in Offsets /\ IsLineStart(o)
    BY OffsetsFacts DEF IInv, ShapeInv, Starts, IsFrame
  <2> QED
    BY <2>1 DEF IInv, CoverInv, Covers
<1> QED
  BY <1>1, <1>2, Invariance, PTL DEF IndexSound

(* Induction over the natural numbers, from the fact that < is             *)
(* well-founded on them.                                                   *)
LEMMA LessThan == \A x, y \in Nat : x < y => <<x, y>> \in OpToRel(<, Nat)
  BY DEF OpToRel

(* A set of naturals that is not empty has a least element.               *)
LEMMA LeastElement ==
  ASSUME NEW S, S \subseteq Nat, S # {}
  PROVE  \E m \in S : \A n \in S : m <= n
<1>1. PICK m \in S : \A n \in S : ~(<<n, m>> \in OpToRel(<, Nat))
  BY NatLessThanWellFounded, WFMin
<1>2. \A n \in S : ~(n < m)
  BY <1>1, LessThan
<1> QED
  BY <1>2

(* A set that has 0 and is closed under + 1 has every natural.             *)
LEMMA Induction ==
  ASSUME NEW S, 0 \in S, \A n \in Nat : n \in S => n + 1 \in S
  PROVE  Nat \subseteq S
<1> SUFFICES ASSUME NEW k \in Nat, k \notin S PROVE FALSE
  OBVIOUS
<1>1. PICK m \in Nat \ S : \A n \in Nat \ S : m <= n
  BY LeastElement
<1>2. m # 0 /\ m - 1 \in Nat
  BY <1>1
<1>3. m - 1 \in S
  BY <1>1, <1>2
<1> QED
  BY <1>1, <1>2, <1>3

(* Offsets of lines are ordered as the numbers of the lines.               *)
LEMMA Scale ==
  ASSUME NEW a \in Int, NEW b \in Int
  PROVE  /\ a * LineLen \in Int
         /\ a * LineLen <= b * LineLen <=> a <= b
         /\ a * LineLen < b * LineLen <=> a < b
<1>1. LineLen \in Nat /\ LineLen > 1
  BY IndexAssumption
<1>2. a <= b => a * LineLen <= b * LineLen
  BY <1>1
<1>3. a < b => a * LineLen < b * LineLen
  BY <1>1
<1>4. b < a => b * LineLen < a * LineLen
  BY <1>1
<1>5. b <= a => b * LineLen <= a * LineLen
  BY <1>1
<1> QED
  BY <1>1, <1>2, <1>3, <1>4, <1>5

(* What load_frames_paged reads: the lines from page[1] on, to the limit   *)
(* or to the last one.                                                     *)
LEMMA WantedFacts ==
  ASSUME NEW lines \in Seq(Offsets), NEW page \in Pages
  PROVE  LET n == Cardinality(Wanted(lines, page))
         IN  /\ page[1] \in Int /\ page[2] \in Int /\ n \in Nat
             /\ page[1] + n <= Len(lines) \/ n = 0
             /\ \A i \in Int :
                  i >= page[1] => (i < page[1] + n <=>
                                   i < Len(lines) /\ i < page[1] + page[2])
<1> DEFINE end == IF page[1] + page[2] < Len(lines) THEN page[1] + page[2]
                  ELSE Len(lines)
<1>1. page[1] \in Int /\ page[2] \in Int /\ Len(lines) \in Nat
  BY IndexAssumption
<1>2. end \in Int /\ Cardinality({}) = 0
  BY <1>1, FS_EmptySet
<1>3. Wanted(lines, page) = IF page[1] < end THEN page[1]..end-1 ELSE {}
  BY DEF Wanted
<1>4. Cardinality(page[1]..end-1) = IF page[1] > end-1 THEN 0 ELSE end-1-page[1]+1
  <2>1. \A b \in Int : Cardinality(page[1]..b) = IF page[1] > b THEN 0 ELSE b-page[1]+1
    BY <1>1, FS_Interval
  <2>2. end - 1 \in Int
    BY <1>2
  <2> HIDE DEF end
  <2> QED
    BY <2>1, <2>2
<1>5. Cardinality(Wanted(lines, page)) = IF page[1] < end THEN end - page[1] ELSE 0
  BY <1>1, <1>2, <1>3, <1>4
<1> QED
  BY <1>1, <1>5

(* The loop of load_frames_paged, over an index whose lines are all whole  *)
(* frames, leaves none of them out.                                        *)
LEMMA FramesRead ==
  ASSUME NEW lines \in Seq(Offsets), NEW page \in Pages, page[1] >= 0,
         Exact(lines), \A i \in DOMAIN lines : IsFrame(lines[i])
  PROVE  LET n == Cardinality(Wanted(lines, page))
         IN  PageFrames(lines, page) = [j \in 1..n |-> (page[1] + j - 1) * LineLen]
<1> DEFINE n == Cardinality(Wanted(lines, page))
           line(i) == Nth(lines, page[1] + i - 1)
           off(i) == (page[1] + i - 1) * LineLen
           Reads(F) == F = [i \in 0..n |->
             IF i = 0 THEN <<>>
             ELSE IF IsFrame(Nth(lines, page[1] + i - 1))
                  THEN Append(F[i-1], Nth(lines, page[1] + i - 1))
             ELSE F[i-1]]
           G == CHOOSE F : Reads(F)
           W == [i \in 0..n |-> [j \in 1..i |-> off(j)]]
<1>1. PageFrames(lines, page) = G[n]
  BY Zenon DEF PageFrames
<1>2. page[1] \in Nat /\ page[2] \in Int /\ n \in Nat /\ Len(lines) \in Nat
  BY WantedFacts
<1>3. \A i \in 1..n : line(i) = off(i) /\ IsFrame(line(i)) /\ off(i) \in Int
  <2> SUFFICES ASSUME NEW i \in 1..n
               PROVE  line(i) = off(i) /\ IsFrame(line(i)) /\ off(i) \in Int
    OBVIOUS
  <2> DEFINE k == page[1] + i - 1
  <2>1. k \in Nat /\ k \in Int /\ k + 1 \in 1..Len(lines) /\ ~(k < 0)
        /\ (k + 1) - 1 = k
    BY <1>2, WantedFacts
  <2> HIDE DEF k
  <2>2. Nth(lines, k) = lines[k + 1]
    BY <2>1 DEF Nth
  <2>3. lines[k + 1] = k * LineLen /\ IsFrame(lines[k + 1])
    BY <2>1 DEF Exact
  <2>4. k * LineLen \in Int
    BY <2>1, Scale
  <2>5. Nth(lines, k) = k * LineLen /\ IsFrame(Nth(lines, k)) /\ k * LineLen \in Int
    BY <2>2, <2>3, <2>4
  <2> QED
    BY <2>5, Zenon DEF k
<1> HIDE DEF n
<1>4. Reads(W)
  <2>1. \A i \in 1..n : W[i] = Append(W[i-1], off(i))
    <3> SUFFICES ASSUME NEW i \in 1..n PROVE W[i] = Append(W[i-1], off(i))
      OBVIOUS
    <3> HIDE DEF off
    <3>1. W[i] = [j \in 1..i |-> off(j)] /\ W[i-1] = [j \in 1..i-1 |-> off(j)]
      BY <1>2
    <3> DEFINE a == [j \in 1..i-1 |-> off(j)]
    <3>2. a \in Seq(Int) /\ off(i) \in Int
      <4>1. \A j \in 1..i-1 : off(j) \in Int
        BY <1>2, <1>3
      <4> QED
        BY <1>2, <1>3, <4>1
    <3>3. Len(a) + 1 = i /\ W[i-1] = a
      BY <1>2, <3>1
    <3> HIDE DEF W
    <3>4. [j \in 1..i |-> off(j)] = [j \in 1..i |-> IF j = i THEN off(i) ELSE a[j]]
      BY <1>2
    <3> HIDE DEF a
    <3>5. Append(a, off(i)) = [j \in 1..Len(a)+1 |->
                                 IF j = Len(a)+1 THEN off(i) ELSE a[j]]
      BY <3>2, AppendIs
    <3>6. Append(a, off(i)) = [j \in 1..i |-> off(j)]
      BY <3>3, <3>4, <3>5, Zenon
    <3> QED
      BY <3>1, <3>3, <3>6, Zenon
  <2>2. W[0] = <<>>
    BY <1>2
  <2>3. \A i \in 0..n : W[i] = IF i = 0 THEN <<>>
                             ELSE IF IsFrame(line(i)) THEN Append(W[i-1], line(i))
                             ELSE W[i-1]
    <3> SUFFICES ASSUME NEW i \in 0..n, i # 0
                 PROVE  IsFrame(line(i)) /\ W[i] = Append(W[i-1], line(i))
      BY <2>2, Zenon
    <3>1. i \in 1..n
      BY <1>2
    <3> QED
      BY <1>3, <2>1, <3>1, Zenon
  <2> QED
    BY <2>3
<1>5. Reads(G)
  BY <1>4, Zenon
<1>6. W[n] = [j \in 1..n |-> off(j)]
  BY <1>2
<1> HIDE DEF G
<1> DEFINE S == {i \in Nat : i <= n => G[i] = W[i]}
<1>7. 0 \in S
  BY <1>2, <1>4, <1>5
<1>8. ASSUME NEW i \in Nat, i \in S PROVE i + 1 \in S
  <2> SUFFICES ASSUME i + 1 <= n PROVE G[i+1] = W[i+1]
    OBVIOUS
  <2>1. i + 1 \in 0..n /\ i + 1 # 0 /\ (i + 1) - 1 = i /\ i <= n /\ i + 1 \in 1..n
    BY <1>2
  <2>2. G[i] = W[i]
    BY <1>8, <2>1
  <2> HIDE DEF W
  <2>3. G[i+1] = Append(G[i], line(i+1)) /\ W[i+1] = Append(W[i], line(i+1))
    BY <1>3, <1>4, <1>5, <2>1
  <2> QED
    BY <2>2, <2>3
<1>9. Nat \subseteq S
  <2> HIDE DEF S
  <2> QED
    BY <1>7, <1>8, Induction
<1>10. G[n] = W[n]
  <2>1. n \in S /\ n <= n
    <3> HIDE DEF S
    <3> QED
      BY <1>2, <1>9
  <2> HIDE DEF W
  <2> QED
    BY <2>1
<1>11. PageFrames(lines, page) = [j \in 1..n |-> off(j)]
  BY <1>1, <1>6, <1>10, Zenon
<1> QED
  BY <1>11 DEF n

(* So the page has the frames of its range, in their order.                *)
LEMMA PageIsExact ==
  ASSUME NEW lines \in Seq(Offsets), NEW page \in Pages, page[1] >= 0,
         Exact(lines), \A i \in DOMAIN lines : IsFrame(lines[i])
  PROVE  LET f == PageFrames(lines, page)
         IN  /\ Lines(f) = InPage(lines, page)
             /\ \A i \in DOMAIN f : f[i] = (page[1] + i - 1) * LineLen
<1> DEFINE n == Cardinality(Wanted(lines, page))
           f == PageFrames(lines, page)
<1>1. f = [j \in 1..n |-> (page[1] + j - 1) * LineLen]
  BY FramesRead
<1>2. page[1] \in Nat /\ page[2] \in Int /\ n \in Nat /\ Len(lines) \in Nat
  BY WantedFacts
<1>9. /\ page[1] + n <= Len(lines) \/ n = 0
      /\ \A i \in Int :
           i >= page[1] => (i < page[1] + n <=>
                            i < Len(lines) /\ i < page[1] + page[2])
  BY WantedFacts
<1>3. \A o : o \in Lines(lines) <=> \E i \in 0..Len(lines)-1 : o = i * LineLen
  <2>1. \A i \in 1..Len(lines) : lines[i] = (i - 1) * LineLen
    BY DEF Exact
  <2>2. \A i \in 0..Len(lines)-1 : i + 1 \in 1..Len(lines) /\ (i + 1) - 1 = i
    BY <1>2
  <2>3. \A i \in 1..Len(lines) : i - 1 \in 0..Len(lines)-1
    BY <1>2
  <2> QED
    BY <2>1, <2>2, <2>3 DEF Lines
<1>4. ASSUME NEW o \in Lines(f) PROVE o \in InPage(lines, page)
  <2> HIDE DEF f, n
  <2>1. PICK j \in 1..n : o = (page[1] + j - 1) * LineLen
    BY <1>1 DEF Lines
  <2> DEFINE i == page[1] + j - 1
  <2>2. i \in 0..Len(lines)-1 /\ page[1] <= i /\ i < page[1] + page[2]
    <3>1. i \in Int /\ i >= page[1] /\ i < page[1] + n /\ i >= 0
      BY <1>2
    <3> HIDE DEF i
    <3> QED
      BY <1>2, <1>9, <3>1
  <2>3. o >= page[1] * LineLen /\ o < (page[1] + page[2]) * LineLen
    <3>1. i \in Int /\ page[1] \in Int /\ page[1] + page[2] \in Int
      BY <1>2, <2>2
    <3> HIDE DEF i
    <3> QED
      BY <2>1, <2>2, <3>1, Scale DEF i
  <2>4. o \in Lines(lines)
    BY <1>3, <2>1, <2>2
  <2> QED
    BY <2>3, <2>4 DEF InPage
<1>5. ASSUME NEW o \in InPage(lines, page) PROVE o \in Lines(f)
  <2> HIDE DEF f, n
  <2>1. PICK i \in 0..Len(lines)-1 : o = i * LineLen
    BY <1>3, <1>5 DEF InPage
  <2>2. page[1] * LineLen <= i * LineLen /\ i * LineLen < (page[1] + page[2]) * LineLen
    <3>1. o >= page[1] * LineLen /\ o < (page[1] + page[2]) * LineLen
      BY <1>5 DEF InPage
    <3>2. page[1] * LineLen \in Int /\ i * LineLen \in Int
      <4>1. page[1] \in Int /\ i \in Int
        BY <1>2
      <4> QED
        BY <4>1, Scale
    <3> QED
      BY <2>1, <3>1, <3>2
  <2>3. page[1] <= i /\ i < page[1] + page[2]
    <3>1. page[1] \in Int /\ i \in Int /\ page[1] + page[2] \in Int
      BY <1>2
    <3> QED
      BY <2>2, <3>1, Scale
  <2>4. i < page[1] + n
    <3>1. i \in Int /\ i >= page[1] /\ i < Len(lines)
      BY <1>2, <2>3
    <3> QED
      BY <1>9, <2>3, <3>1
  <2> DEFINE j == i - page[1] + 1
  <2>5. j \in 1..n /\ page[1] + j - 1 = i
    BY <1>2, <2>3, <2>4
  <2> HIDE DEF j
  <2> QED
    BY <1>1, <2>1, <2>5 DEF Lines
<1> QED
  BY <1>1, <1>4, <1>5

(* An answer is made from an index of exactly the lines the file has, and  *)
(* each of them can be read.                                               *)
LEMMA AnswersWhole == IInv /\ ~torn =>
  \A lines \in Answering : /\ lines \in Seq(Offsets) /\ Exact(lines)
                           /\ size = Len(lines) * LineLen
                           /\ \A i \in DOMAIN lines : IsFrame(lines[i])
<1> SUFFICES ASSUME IInv, ~torn, NEW t \in Threads, pc[t] = "answer"
             PROVE  LET lines == loc[t].lines
                    IN  /\ lines \in Seq(Offsets) /\ Exact(lines)
                        /\ size = Len(lines) * LineLen
                        /\ \A i \in DOMAIN lines : IsFrame(lines[i])
  BY DEF Answering, At
<1> DEFINE lines == loc[t].lines
<1>1. lines \in Seq(Offsets)
  BY LocalFacts DEF IInv, ShapeInv
<1>2. Exact(lines) /\ size = Len(lines) * LineLen
  BY DEF IInv, ExactInv
<1> HIDE DEF lines
<1>3. ASSUME NEW i \in 1..Len(lines) PROVE IsFrame(lines[i])
  <2> DEFINE k == i - 1
             o == lines[i]
  <2>1. Len(lines) \in Nat
    BY <1>1
  <2>2. k \in Nat /\ k + 1 <= Len(lines) /\ k \in Int /\ k + 1 = i
    BY <2>1
  <2>3. o = k * LineLen
    BY <1>2 DEF Exact
  <2> HIDE DEF k, o
  <2>4. o \in Nat /\ IsLineStart(o) /\ (k + 1) * LineLen = o + LineLen
    BY <2>2, <2>3, LineFacts
  <2>5. (k + 1) * LineLen <= Len(lines) * LineLen
    BY <2>1, <2>2, Scale
  <2>6. NextLine(o) = o + LineLen
    BY <2>4, NextLineFacts
  <2> QED
    BY <1>2, <2>4, <2>5, <2>6 DEF IsFrame, o
<1>4. DOMAIN lines = 1..Len(lines)
  BY <1>1
<1> QED
  BY <1>1, <1>2, <1>3, <1>4, Zenon DEF lines

(* As long as bytes appear in whole lines and between requests, the        *)
(* incremental index is the one a single scan gives, list_files leaves no  *)
(* file out, and load_frames_paged returns the frames of the page.         *)
THEOREM AnswersAreExact == Spec => []AnswersExact
<1>1. IInv => IndexExact
  <2> SUFFICES ASSUME IInv, ~torn
               PROVE  Exact(cache.lines) /\ cache.size <= Len(cache.lines) * LineLen
    BY DEF IndexExact
  <2>1. Exact(cache.lines) /\ (cache # NoIndex => cache.size = Len(cache.lines) * LineLen)
    BY DEF IInv, ExactInv
  <2>2. cache.lines \in Seq(Offsets) /\ Len(cache.lines) * LineLen \in Nat
    <3>1. cache.lines \in Seq(Offsets)
      BY IndexFacts DEF IInv, ShapeInv
    <3>2. Len(cache.lines) \in Nat
      BY <3>1
    <3> QED
      BY <3>1, <3>2, LineFacts
  <2>3. CASE cache = NoIndex
    BY <2>1, <2>2, <2>3, IndexFacts
  <2>4. CASE cache # NoIndex
    BY <2>1, <2>2, <2>4
  <2> QED
    BY <2>3, <2>4
<1>2. IInv => PagesExact
  <2> SUFFICES ASSUME IInv, ~torn, NEW lines \in Answering
               PROVE  /\ Listed(lines)
                      /\ \A page \in Pages : page[1] >= 0 =>
                           LET f == PageFrames(lines, page)
                           IN  /\ Lines(f) = InPage(lines, page)
                               /\ \A i \in DOMAIN f :
                                    f[i] = (page[1] + i - 1) * LineLen
    BY DEF PagesExact
  <2>1. /\ lines \in Seq(Offsets) /\ Exact(lines)
        /\ \A i \in DOMAIN lines : IsFrame(lines[i])
    BY AnswersWhole
  <2>2. Listed(lines)
    BY <2>1 DEF Listed
  <2> QED
    BY <2>1, <2>2, PageIsExact
<1> QED
  BY <1>1, <1>2, Invariance, PTL DEF AnswersExact

=============================================================================
