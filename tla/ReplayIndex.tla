---------------------------- MODULE ReplayIndex ----------------------------
(***************************************************************************)
(* One replay file, written by the Client and read by the Replay server:   *)
(*                                                                         *)
(*   VizRecorder        appends one line for each frame, through a stdio   *)
(*                      buffer                            viz_recorder.cpp *)
(*   VizReplayServer    HTTP threads that index the lines by their byte    *)
(*                      offsets, keep the index in a cache and read frames *)
(*                      through it                      maze_viz_server.py *)
(*                                                                         *)
(* A frame is a line of LineLen bytes, the last of them the newline. The   *)
(* modification time is represented by the size the file had at that time: *)
(* the file only grows, so the two change together.                        *)
(***************************************************************************)
EXTENDS Integers, Sequences, FiniteSets

CONSTANTS
  Threads,         \* HTTP threads of the server
  NoThread,        \* nobody
  LineLen,         \* bytes of a line with its newline
  FlushEvery,      \* RecordFrame flushes after so many frames
  Pages,           \* offset and limit of the pages asked for
  MaxFrames        \* bound: frames of the Episode

ASSUME IndexAssumption ==
  /\ NoThread \notin Threads
  /\ LineLen \in Nat \ {0, 1} /\ FlushEvery \in Nat \ {0}
  /\ Pages \subseteq Int \X Int
  /\ MaxFrames \in Nat

VARIABLES
  recorded,        \* frames given to RecordFrame
  size,            \* bytes of the file
  closed,          \* the Episode's file is closed
  torn,            \* history: bytes appeared within a line or a request
  cache,           \* _index_cache of the file
  holder,          \* who holds the server's lock
  pc, loc          \* each thread's next step and what it remembers

writer == <<recorded, size, closed, torn>>
vars == <<recorded, size, closed, torn, cache, holder, pc, loc>>

-----------------------------------------------------------------------------
(* The file                                                                *)

Bytes == recorded * LineLen              \* with those still in the buffer

NextLine(o) == (o \div LineLen + 1) * LineLen
IsLineStart(o) == o % LineLen = 0

(* A frame can be read at o: json.loads takes a whole line, nothing else.  *)
IsFrame(o) == IsLineStart(o) /\ NextLine(o) <= size

Starts == {o \in 0..size : IsFrame(o)}

(* VizRecorder::RecordFrame; every FlushEvery frames it waits for the disk.*)
RecordFrame ==
  /\ ~closed /\ recorded < MaxFrames
  /\ recorded % FlushEvery = 0 => size = Bytes
  /\ recorded' = recorded + 1
  /\ UNCHANGED <<size, closed, torn, cache, holder, pc, loc>>

(* The buffer is written out: any part of it, wherever a line ends.        *)
WriteOut ==
  /\ ~closed
  /\ size' \in size+1..Bytes
  /\ torn' = (\/ torn \/ ~IsLineStart(size')
               \/ \E t \in Threads : pc[t] # "idle")
  /\ UNCHANGED <<recorded, closed, cache, holder, pc, loc>>

(* VizRecorder::End flushes and closes the file.                           *)
End ==
  /\ ~closed /\ size = Bytes
  /\ closed' = TRUE
  /\ UNCHANGED <<recorded, size, torn, cache, holder, pc, loc>>

-----------------------------------------------------------------------------
(* _build_line_index                                                       *)

Idle == [mtime |-> 0, size |-> 0, offset |-> 0, lines |-> <<>>]
NoIndex == [mtime |-> -1, size |-> -1, lines |-> <<>>]

At(t, step) == pc[t] = step
Goto(t, step) == pc' = [pc EXCEPT ![t] = step]

(* A request arrives and the file's modification time is read.             *)
Request(t) ==
  /\ At(t, "idle")
  /\ loc' = [loc EXCEPT ![t].mtime = size]
  /\ Goto(t, "size")
  /\ UNCHANGED <<writer, cache, holder>>

(* Its size, still without the lock.                                       *)
ReadSize(t) ==
  /\ At(t, "size")
  /\ loc' = [loc EXCEPT ![t].size = size]
  /\ Goto(t, "lock")
  /\ UNCHANGED <<writer, cache, holder>>

(* Mutant: a cached index is never out of date.                            *)
HitAnyAge(t) ==
  /\ At(t, "lock") /\ holder = NoThread
  /\ cache # NoIndex
  /\ loc' = [loc EXCEPT ![t].lines = cache.lines]
  /\ Goto(t, "answer")
  /\ UNCHANGED <<writer, cache, holder>>

(* The cached index is of a file that looks the same.                      *)
Hit(t) ==
  /\ At(t, "lock") /\ holder = NoThread
  /\ cache.mtime = loc[t].mtime /\ cache.size = loc[t].size
  /\ loc' = [loc EXCEPT ![t].lines = cache.lines]
  /\ Goto(t, "answer")
  /\ UNCHANGED <<writer, cache, holder>>

(* Mutant: an incremental scan that begins at the last line it has.        *)
ScanFromLast(t) ==
  IF cache # NoIndex /\ cache.size <= loc[t].size /\ cache.lines # <<>>
  THEN [loc[t] EXCEPT !.lines = cache.lines,
                      !.offset = cache.lines[Len(cache.lines)]]
  ELSE [loc[t] EXCEPT !.lines = <<>>, !.offset = 0]

(* Where the scan begins: at the cached size, or at 0 when the file looks  *)
(* smaller than that or was never indexed.                                 *)
ScanFrom(t) ==
  IF cache # NoIndex /\ cache.size <= loc[t].size
  THEN [loc[t] EXCEPT !.lines = cache.lines, !.offset = cache.size]
  ELSE [loc[t] EXCEPT !.lines = <<>>, !.offset = 0]

(* Mutant: the lock is not waited for.                                     *)
MissUnlocked(t) ==
  /\ At(t, "lock")
  /\ ~(cache.mtime = loc[t].mtime /\ cache.size = loc[t].size)
  /\ holder' = t
  /\ loc' = [loc EXCEPT ![t] = ScanFrom(t)]
  /\ Goto(t, "scan")
  /\ UNCHANGED <<writer, cache>>

Miss(t) ==
  /\ At(t, "lock") /\ holder = NoThread
  /\ ~(cache.mtime = loc[t].mtime /\ cache.size = loc[t].size)
  /\ holder' = t
  /\ loc' = [loc EXCEPT ![t] = ScanFrom(t)]
  /\ Goto(t, "scan")
  /\ UNCHANGED <<writer, cache>>

(* Mutant: a line without its newline is passed over.                      *)
ScanWholeLine(t) ==
  LET o == loc[t].offset
      e == IF NextLine(o) <= size THEN NextLine(o) ELSE size
  IN  /\ At(t, "scan") /\ o < size
      /\ loc' = [loc EXCEPT
                   ![t].offset = e,
                   ![t].lines = IF o = NextLine(o) - 1 \/ e < NextLine(o) THEN @
                                ELSE Append(@, o)]
      /\ UNCHANGED <<writer, cache, holder, pc>>

(* One line, or what there is of it; a lone newline is no line.            *)
ScanLine(t) ==
  LET o == loc[t].offset
      e == IF NextLine(o) <= size THEN NextLine(o) ELSE size
  IN  /\ At(t, "scan") /\ o < size
      /\ loc' = [loc EXCEPT
                   ![t].offset = e,
                   ![t].lines = IF o = NextLine(o) - 1 THEN @
                                ELSE Append(@, o)]
      /\ UNCHANGED <<writer, cache, holder, pc>>

(* End of file: the index is kept under the time and size read before.     *)
ScanEnd(t) ==
  /\ At(t, "scan") /\ loc[t].offset >= size
  /\ cache' = [mtime |-> loc[t].mtime, size |-> loc[t].size,
               lines |-> loc[t].lines]
  /\ holder' = NoThread
  /\ Goto(t, "answer")
  /\ UNCHANGED <<writer, loc>>

-----------------------------------------------------------------------------
(* The requests, by the index they got: what each answers                  *)

(* get_frame_count and get_file_status.                                    *)
FrameCount(lines) == Len(lines)

(* line_offsets[i], a negative i counted from the end.                     *)
Nth(lines, i) == IF i < 0 THEN lines[Len(lines) + i + 1] ELSE lines[i + 1]

(* Mutant: the limit counted from the file's beginning.                    *)
WantedToLimit(lines, page) ==
  LET end == IF page[2] < Len(lines) THEN page[2] ELSE Len(lines)
  IN  IF page[1] < end THEN page[1]..end-1 ELSE {}

(* load_frames_paged: the numbers of the lines it reads ...                *)
Wanted(lines, page) ==
  LET end == IF page[1] + page[2] < Len(lines) THEN page[1] + page[2]
             ELSE Len(lines)
  IN  IF page[1] < end THEN page[1]..end-1 ELSE {}

(* ... one before the first line is an IndexError, which it reports ...    *)
PageFails(lines, page) == \E i \in Wanted(lines, page) : i < -Len(lines)

(* ... and the frames it finds there, invalid lines left out.              *)
PageFrames(lines, page) ==
  LET wanted == Cardinality(Wanted(lines, page))
      line(n) == Nth(lines, page[1] + n - 1)
      frames[n \in 0..wanted] ==
        IF n = 0 THEN <<>>
        ELSE IF IsFrame(line(n)) THEN Append(frames[n-1], line(n))
        ELSE frames[n-1]
  IN  frames[wanted]

(* list_files: a file without a first frame that can be read is left out.  *)
Listed(lines) == lines # <<>> => IsFrame(lines[1])

Reply(t) ==
  /\ At(t, "answer")
  /\ loc' = [loc EXCEPT ![t] = Idle]
  /\ Goto(t, "idle")
  /\ UNCHANGED <<writer, cache, holder>>

-----------------------------------------------------------------------------
Init ==
  /\ recorded = 0 /\ size = 0 /\ closed = FALSE /\ torn = FALSE
  /\ cache = NoIndex /\ holder = NoThread
  /\ pc = [t \in Threads |-> "idle"]
  /\ loc = [t \in Threads |-> Idle]

Recorder == RecordFrame \/ WriteOut \/ End

Build(t) == ReadSize(t) \/ Hit(t) \/ Miss(t) \/ ScanLine(t) \/ ScanEnd(t)

Next == Recorder \/ \E t \in Threads : Request(t) \/ Build(t) \/ Reply(t)

Spec == Init /\ [][Next]_vars

(* The Episode ends, requests keep coming and each thread gets on; a lock  *)
(* that is free again and again is got.                                    *)
Fairness ==
  /\ WF_vars(Recorder)
  /\ \A t \in Threads : WF_vars(Request(t)) /\ SF_vars(Build(t) \/ Reply(t))

FairSpec == Spec /\ Fairness

-----------------------------------------------------------------------------
(* Properties                                                              *)

Offsets == 0..MaxFrames * LineLen
Lines(s) == {s[i] : i \in DOMAIN s}

(* Every variable has its type; only the holder of the lock scans.         *)
TypeOK ==
  /\ recorded \in 0..MaxFrames /\ size \in 0..Bytes
  /\ closed \in BOOLEAN /\ torn \in BOOLEAN
  /\ cache.mtime \in Offsets \cup {-1} /\ cache.size \in Offsets \cup {-1}
  /\ Lines(cache.lines) \subseteq Offsets
  /\ holder \in Threads \cup {NoThread}
  /\ pc \in [Threads -> {"idle", "size", "lock", "scan", "answer"}]
  /\ \A t \in Threads :
       /\ {loc[t].mtime, loc[t].size, loc[t].offset} \subseteq Offsets
       /\ Lines(loc[t].lines) \subseteq Offsets
       /\ pc[t] = "scan" <=> holder = t

(* However requests interleave with each other and with the recorder, no   *)
(* frame is lost: the index has every line that begins below the position  *)
(* the next scan will start from.                                          *)
NoFrameLost ==
  \A o \in Starts : o < cache.size => o \in Lines(cache.lines)

Exact(lines) == \A i \in DOMAIN lines : lines[i] = (i - 1) * LineLen

(* The index is sound, whatever happens to the file meanwhile.             *)
IndexSound == TypeOK /\ NoFrameLost

(* As long as bytes appear in whole lines and between requests, the index  *)
(* that grew scan by scan is the one a single scan would give.             *)
IndexExact ==
  ~torn => Exact(cache.lines) /\ cache.size <= Len(cache.lines) * LineLen

Answering == {loc[t].lines : t \in {u \in Threads : At(u, "answer")}}

(* Then a page holds the frames of its range, in their order, and the list *)
(* never leaves out the file.                                              *)
InPage(lines, page) ==
  {o \in Lines(lines) : o >= page[1] * LineLen
                        /\ o < (page[1] + page[2]) * LineLen}

PagesExact ==
  ~torn => \A lines \in Answering :
    /\ Listed(lines)
    /\ \A page \in Pages : page[1] >= 0 =>
         LET f == PageFrames(lines, page)
         IN  /\ Lines(f) = InPage(lines, page)
             /\ \A i \in DOMAIN f : f[i] = (page[1] + i - 1) * LineLen

(* Index and answers are exact where bytes appear in whole lines and       *)
(* between requests.                                                       *)
AnswersExact == IndexExact /\ PagesExact

(* The number of frames that is reported is never more than there are      *)
(* lines, the last one perhaps not complete.                               *)
CountTrue ==
  \A lines \in Answering :
    FrameCount(lines) <= (size + LineLen - 1) \div LineLen

(* Once the Episode is over every frame is in the index for good.          *)
CatchesUp == <>[](closed /\ Starts \subseteq Lines(cache.lines))
=============================================================================
