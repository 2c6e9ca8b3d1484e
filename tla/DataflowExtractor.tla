------------------------- MODULE DataflowExtractor -------------------------
(***************************************************************************)
(* Stage 1 of a dataflow build: io.fluidity.dataflow.DataflowExtractor.    *)
(*                                                                         *)
(* One process() call reads one source file line by line and cuts it into  *)
(* segments, the maximal runs of lines with one correlation id.  A segment *)
(* is collected in a temporary file; when the id changes, or the input     *)
(* ends, flushToStorage copies it to the model directory as a .corr file   *)
(* and writes a .dat file with the fields extracted from the same lines.   *)
(* Both names are made of the segment's start time, end time and id.       *)
(*                                                                         *)
(* Several calls run at the same time, one per source file, and share only *)
(* the model directory.  A step of this module is one line of a source     *)
(* file, one copyToStorage or one new temporary file.                      *)
(***************************************************************************)
EXTENDS Naturals, Sequences, FiniteSets, Functions

CONSTANTS
  Files,        \* the source files, each read by one process() call
  Keys,         \* the correlation ids that occur in them
  NoKey,        \* a line without the correlation field, and "nada" before the first id
  Times,        \* the values currentTime takes, extracted or guessed
  Ops,          \* whether a line can name a service.operation, and can lack it
  MaxLines      \* bound: lines of a source file

ASSUME ExtractorAssumption ==
  /\ NoKey \notin Keys
  /\ Times \subseteq Nat
  /\ Ops \subseteq BOOLEAN
  /\ MaxLines \in Nat

VARIABLES
  pc,      \* where process() stands, per file
  ending,  \* why it stopped reading: "no", "eof" or "throw"
  lines,   \* the lines read so far
  cur,     \* currentCorrelation
  tmp,     \* currentFile: "none" before the first, "open", or "deleted"
  seg,     \* the lines of the current temporary file
  start,   \* startTime
  last,    \* lastCorrelationTime
  dat,     \* datData: the lines whose fields it accumulates
  ops,     \* the operations counter
  corr,    \* the model directory's .corr files, by name
  dats,    \* the model directory's .dat files, by name
  cut,     \* history: lines whose .corr file was lost, or cut short, in its copy
  replaced,\* history: lines whose .corr file was replaced by another of its name
  cutDat   \* history: names whose .dat file was lost in its copy

readVars == <<pc, ending, lines>>
segVars == <<cur, tmp, seg, start, last, dat, ops>>
bucket == <<corr, dats, cut, replaced, cutDat>>
vars == <<readVars, segVars, bucket>>

PC == {"read", "corr", "dat", "open", "done", "killed"}
Line == [key : Keys \cup {NoKey}, time : Times \cup {0}, op : BOOLEAN]
Name == Nat \X Nat \X (Keys \cup {NoKey})

Init ==
  /\ pc = [f \in Files |-> "read"]
  /\ ending = [f \in Files |-> "no"]
  /\ lines = [f \in Files |-> <<>>]
  /\ cur = [f \in Files |-> NoKey]
  /\ tmp = [f \in Files |-> "none"]
  /\ seg = [f \in Files |-> <<>>]
  /\ start = [f \in Files |-> 0]
  /\ last = [f \in Files |-> 0]
  /\ dat = [f \in Files |-> <<>>]
  /\ ops = [f \in Files |-> 0]
  /\ corr = <<>>
  /\ dats = <<>>
  /\ cut = {}
  /\ replaced = {}
  /\ cutDat = {}

-----------------------------------------------------------------------------
(* Reading *)

\* bos.isPresent(): a temporary file has been opened by this call.
HasSegment(f) == tmp[f] # "none"

\* Leaving the loop, normally or by an exception, enters the finally block,
\* whose flush does nothing unless a temporary file has been opened.
EnterFinally(f, why) ==
  /\ pc' = [pc EXCEPT ![f] = IF HasSegment(f) THEN "corr" ELSE "done"]
  /\ ending' = [ending EXCEPT ![f] = why]

\* Mutant: the finally block flushes until the copy succeeds.
FailFinallyRetried(f) ==
  /\ pc' = [pc EXCEPT ![f] = "corr"]
  /\ ending' = [ending EXCEPT ![f] = "throw"]

\* A failure inside the finally block ends the call.
FailFinally(f) ==
  /\ pc' = [pc EXCEPT ![f] = "done"]
  /\ ending' = [ending EXCEPT ![f] = "throw"]

Read(f, line) ==
  /\ pc[f] = "read"
  /\ Len(lines[f]) < MaxLines
  /\ lines' = [lines EXCEPT ![f] = Append(@, line)]

\* Mutant: a line without an operation takes one off.
CountDown(op) == IF op THEN 1 ELSE 0 - 1

Count(op) == IF op THEN 1 ELSE 0

\* A line the search does not match, or without the correlation field.
Skip(f) ==
  /\ Read(f, [key |-> NoKey, time |-> 0, op |-> FALSE])
  /\ UNCHANGED <<pc, ending, segVars, bucket>>

\* A line of the current correlation joins the temporary file and datData.
ReadSame(f) ==
  /\ \E t \in Times, o \in Ops :
       /\ cur[f] \in Keys
       /\ Read(f, [key |-> cur[f], time |-> t, op |-> o])
       /\ last' = [last EXCEPT ![f] = t]
       /\ ops' = [ops EXCEPT ![f] = @ + Count(o)]
  /\ seg' = [seg EXCEPT ![f] = Append(@, Len(lines'[f]))]
  /\ dat' = [dat EXCEPT ![f] = Append(@, Len(lines'[f]))]
  /\ UNCHANGED <<pc, ending, cur, tmp, start, bucket>>

\* Mutant: the next segment is opened without a flush.
ReadOtherUnflushed(f) ==
  /\ \E k \in Keys \ {cur[f]}, t \in Times, o \in Ops :
       Read(f, [key |-> k, time |-> t, op |-> o])
  /\ pc' = [pc EXCEPT ![f] = "open"]
  /\ UNCHANGED <<ending, segVars, bucket>>

\* A line of another correlation flushes the segment before it opens the next.
ReadOther(f) ==
  /\ \E k \in Keys \ {cur[f]}, t \in Times, o \in Ops :
       Read(f, [key |-> k, time |-> t, op |-> o])
  /\ pc' = [pc EXCEPT ![f] = IF HasSegment(f) THEN "corr" ELSE "open"]
  /\ UNCHANGED <<ending, segVars, bucket>>

\* Mutant: the last segment is not flushed.
EofUnflushed(f) ==
  /\ pc[f] = "read"
  /\ pc' = [pc EXCEPT ![f] = "done"]
  /\ ending' = [ending EXCEPT ![f] = "eof"]
  /\ UNCHANGED <<lines, segVars, bucket>>

\* The end of the input.  A file without a line does not come here: the first
\* line is used before the loop, and ReadFails stands for its exception.
Eof(f) ==
  /\ pc[f] = "read"
  /\ lines[f] # <<>>
  /\ EnterFinally(f, "eof")
  /\ UNCHANGED <<lines, segVars, bucket>>

\* readLine throws, or there was no line at all.
ReadFails(f) ==
  /\ pc[f] = "read"
  /\ EnterFinally(f, "throw")
  /\ UNCHANGED <<lines, segVars, bucket>>

\* Writing a line to the temporary file fails, and the close in the finally
\* block's flush fails with it; or closing the reader fails, before that flush.
\* Nothing of the segment is copied.
WriteFails(f) ==
  /\ pc[f] = "read"
  /\ FailFinally(f)
  /\ UNCHANGED <<lines, segVars, bucket>>

-----------------------------------------------------------------------------
(* flushToStorage: the .corr file, then the .dat file *)

\* Mutant: equal times are not nudged.
EndTimeUnnudged(s, l) == IF l < s THEN s + 10 ELSE l

\* Mutant: the end is always the nudged start.
EndTimeOfStart(s, l) == s + 1

\* The end time of a segment's name: nudged past the start when the times of
\* its lines are equal or went backwards.
EndTime(s, l) ==
  CASE l = s -> s + 1
    [] l < s -> s + 10
    [] OTHER -> l

\* Mutant: currentCorrelation is assigned before the flush.
SegmentNameLate(f) ==
  <<start[f], EndTime(start[f], last[f]), lines[f][Len(lines[f])].key>>

SegmentName(f) == <<start[f], EndTime(start[f], last[f]), cur[f]>>

\* Writing an object of the bucket replaces the one of that name.
Put(store, n, v) == [m \in DOMAIN store \cup {n} |-> IF m = n THEN v ELSE store[m]]
Drop(store, n) == Restrict(store, DOMAIN store \ {n})

LinesAt(n) == IF n \in DOMAIN corr THEN {corr[n].file} \X Range(corr[n].lines) ELSE {}

\* Mutant: the temporary file is not deleted.
CopyCorrKeeping(f, kept) ==
  /\ pc[f] = "corr"
  /\ tmp[f] = "open"
  /\ corr' = Put(corr, SegmentName(f), [file |-> f, lines |-> kept])
  /\ pc' = [pc EXCEPT ![f] = "dat"]
  /\ replaced' = replaced \cup LinesAt(SegmentName(f))
  /\ UNCHANGED <<ending, lines, cur, tmp, seg, start, last, dat, ops, dats, cutDat>>

\* The copy of the temporary file ends and the file is deleted; kept is what
\* the copy wrote.  Whatever the name held before is replaced.
CopyCorr(f, kept) ==
  /\ pc[f] = "corr"
  /\ tmp[f] = "open"
  /\ corr' = Put(corr, SegmentName(f), [file |-> f, lines |-> kept])
  /\ tmp' = [tmp EXCEPT ![f] = "deleted"]
  /\ pc' = [pc EXCEPT ![f] = "dat"]
  /\ replaced' = replaced \cup LinesAt(SegmentName(f))
  /\ UNCHANGED <<ending, lines, cur, seg, start, last, dat, ops, dats, cutDat>>

StoreCorr(f) == CopyCorr(f, seg[f]) /\ UNCHANGED cut

\* An IOException of the copy is printed and swallowed: the file is cut short ...
CutCorr(f) ==
  /\ \E m \in 0 .. MaxLines : m < Len(seg[f]) /\ CopyCorr(f, SubSeq(seg[f], 1, m))
  /\ cut' = cut \cup ({f} \X Range(seg[f]))

\* ... or, on S3 where the object is put when the stream closes, is not there.
LoseCorr(f) ==
  /\ pc[f] = "corr"
  /\ tmp[f] = "open"
  /\ tmp' = [tmp EXCEPT ![f] = "deleted"]
  /\ pc' = [pc EXCEPT ![f] = "dat"]
  /\ cut' = cut \cup ({f} \X Range(seg[f]))
  /\ UNCHANGED <<ending, lines, cur, seg, start, last, dat, ops, corr, dats,
                 replaced, cutDat>>

\* An exception that leaves flushToStorage: from the loop it reaches the finally
\* block, which flushes again; from the finally block it ends the call.
LeaveFlush(f) ==
  /\ IF ending[f] = "no" THEN EnterFinally(f, "throw") ELSE FailFinally(f)
  /\ UNCHANGED <<lines, segVars, bucket>>

\* The storage refuses an output stream for the .corr file.
CorrThrows(f) == pc[f] = "corr" /\ tmp[f] = "open" /\ LeaveFlush(f)

\* The temporary file was deleted by an earlier flush: FileNotFoundException.
CorrMissing(f) == pc[f] = "corr" /\ tmp[f] = "deleted" /\ LeaveFlush(f)

\* After a flush the loop opens the next segment, the finally block is over.
AfterFlush(f) == IF ending[f] = "no" THEN "open" ELSE "done"

\* Mutant: datData.clear() forgotten.
FlushDatKeeping(f) ==
  /\ pc[f] = "dat"
  /\ pc' = [pc EXCEPT ![f] = AfterFlush(f)]
  /\ UNCHANGED <<ending, lines, segVars, corr, cut, replaced>>

\* The copy of the .dat file is over, datData is cleared.
FlushDat(f) ==
  /\ pc[f] = "dat"
  /\ dat' = [dat EXCEPT ![f] = <<>>]
  /\ pc' = [pc EXCEPT ![f] = AfterFlush(f)]
  /\ UNCHANGED <<ending, lines, cur, tmp, seg, start, last, ops, corr, cut, replaced>>

DatOf(f) == [file |-> f, lines |-> dat[f], ops |-> ops[f]]

\* Mutant: the .dat file is named with the end time before the nudge.
StoreDatUnnudged(f) ==
  /\ FlushDat(f)
  /\ dats' = Put(dats, <<start[f], last[f], cur[f]>>, DatOf(f))
  /\ UNCHANGED cutDat

StoreDat(f) ==
  /\ FlushDat(f)
  /\ dats' = Put(dats, SegmentName(f), DatOf(f))
  /\ UNCHANGED cutDat

\* The copy is lost: the name has no readable .dat file.
LoseDat(f) ==
  /\ FlushDat(f)
  /\ dats' \in {dats, Drop(dats, SegmentName(f))}
  /\ cutDat' = cutDat \cup {SegmentName(f)}

DatThrows(f) == pc[f] = "dat" /\ LeaveFlush(f)

-----------------------------------------------------------------------------
(* The next segment *)

Pending(f) == lines[f][Len(lines[f])]

\* The temporary file of the line that was read last, its first line.
OpenSegment(f) ==
  /\ pc[f] = "open"
  /\ cur' = [cur EXCEPT ![f] = Pending(f).key]
  /\ tmp' = [tmp EXCEPT ![f] = "open"]
  /\ seg' = [seg EXCEPT ![f] = <<Len(lines[f])>>]
  /\ start' = [start EXCEPT ![f] = Pending(f).time]
  /\ last' = [last EXCEPT ![f] = Pending(f).time]
  /\ dat' = [dat EXCEPT ![f] = Append(@, Len(lines[f]))]
  /\ ops' = [ops EXCEPT ![f] = Count(Pending(f).op)]
  /\ pc' = [pc EXCEPT ![f] = "read"]
  /\ UNCHANGED <<ending, lines, bucket>>

\* createTempFile throws, because the id has fewer than three characters or because
\* of the disk.  currentCorrelation is the new id by now; currentFile is still the
\* deleted one.
TempFileFails(f) ==
  /\ pc[f] = "open"
  /\ cur' = [cur EXCEPT ![f] = Pending(f).key]
  /\ EnterFinally(f, "throw")
  /\ UNCHANGED <<lines, tmp, seg, start, last, dat, ops, bucket>>

\* The file is created but not its stream.  If an earlier segment's stream is
\* there, the finally block's flush copies the empty file under the new id and
\* the earlier segment's times.
StreamFails(f) ==
  /\ pc[f] = "open"
  /\ cur' = [cur EXCEPT ![f] = Pending(f).key]
  /\ EnterFinally(f, "throw")
  /\ IF HasSegment(f)
       THEN /\ tmp' = [tmp EXCEPT ![f] = "open"]
            /\ seg' = [seg EXCEPT ![f] = <<>>]
       ELSE UNCHANGED <<tmp, seg>>
  /\ UNCHANGED <<lines, start, last, dat, ops, bucket>>

\* The function that runs the call is stopped, at its time limit for one.
Killed(f) ==
  /\ pc[f] \notin {"done", "killed"}
  /\ pc' = [pc EXCEPT ![f] = "killed"]
  /\ UNCHANGED <<ending, lines, segVars, bucket>>

Flush(f) ==
  \/ StoreCorr(f)
  \/ CutCorr(f)
  \/ LoseCorr(f)
  \/ CorrThrows(f)
  \/ CorrMissing(f)
  \/ StoreDat(f)
  \/ LoseDat(f)
  \/ DatThrows(f)

Step(f) ==
  \/ Skip(f)
  \/ ReadSame(f)
  \/ ReadOther(f)
  \/ Eof(f)
  \/ ReadFails(f)
  \/ WriteFails(f)
  \/ Flush(f)
  \/ OpenSegment(f)
  \/ TempFileFails(f)
  \/ StreamFails(f)

Finished(f) == pc[f] \in {"done", "killed"}

Next == \E f \in Files : Step(f) \/ Killed(f)

Spec == Init /\ [][Next]_vars /\ \A f \in Files : WF_vars(Step(f))

-----------------------------------------------------------------------------
(* Properties *)

StoredLine(f, n) ==
  \E m \in DOMAIN corr : corr[m].file = f /\ n \in Range(corr[m].lines)

CorrelatedLines(f) == {n \in DOMAIN lines[f] : lines[f][n].key # NoKey}

\* Every variable has its type.
TypeOK ==
  /\ pc \in [Files -> PC]
  /\ ending \in [Files -> {"no", "eof", "throw"}]
  /\ lines \in [Files -> Seq(Line)]
  /\ cur \in [Files -> Keys \cup {NoKey}]
  /\ tmp \in [Files -> {"none", "open", "deleted"}]
  /\ seg \in [Files -> Seq(Nat)]
  /\ start \in [Files -> Nat]
  /\ last \in [Files -> Nat]
  /\ dat \in [Files -> Seq(Nat)]
  /\ ops \in [Files -> Nat]
  /\ DOMAIN corr \subseteq Name
  /\ \A m \in DOMAIN corr : corr[m] \in [file : Files, lines : Seq(Nat)]
  /\ DOMAIN dats \subseteq Name
  /\ \A m \in DOMAIN dats : dats[m] \in [file : Files, lines : Seq(Nat), ops : Nat]
  /\ cut \subseteq Files \X Nat
  /\ replaced \subseteq Files \X Nat
  /\ cutDat \subseteq Name

\* The name of every stored file has a start before its end, whatever times were
\* extracted or guessed: a flow's durations are computed from the two, and stage
\* 2 and the histograms divide by and index with them (flushToStorage's nudge;
\* DataflowExtractorTest: "File times are not correct").
NamesOrdered == \A m \in DOMAIN corr \cup DOMAIN dats : m[1] < m[2]

\* A .corr file holds lines of the correlation in its name only, in the order of
\* the source file, none of them twice and, between two of them, none that
\* belongs to another correlation (Model.CORR_FILE_FMT).
CorrFileIsASegment ==
  \A m \in DOMAIN corr : LET c == corr[m] IN
    /\ \A i \in DOMAIN c.lines : lines[c.file][c.lines[i]].key = m[3]
    /\ \A i, j \in DOMAIN c.lines : i < j => c.lines[i] < c.lines[j]
    /\ \A i, j \in DOMAIN c.lines :
         \A n \in c.lines[i] .. c.lines[j] : lines[c.file][n].key \in {m[3], NoKey}

\* No failure loses a line without a trace: each correlated line that was read is
\* in a .corr file, or in the segment in hand, or is the line a step is working
\* on, unless the storage swallowed its file or a file of the same name replaced
\* it.  In particular a failed segment never takes an earlier one with it.
LinesAccountedFor ==
  \A f \in Files : \A n \in CorrelatedLines(f) :
    \/ StoredLine(f, n)
    \/ <<f, n>> \in cut \cup replaced
    \/ n \in Range(seg[f])
    \/ n = Len(lines[f])

\* A call that reads to the end and meets no exception has stored every
\* correlated line, but for the same two ways of losing one.
CompleteWithoutFailure ==
  \A f \in Files : pc[f] = "done" /\ ending[f] = "eof" =>
    \A n \in CorrelatedLines(f) : StoredLine(f, n) \/ <<f, n>> \in cut \cup replaced

\* Each line is extracted once: no two .corr files hold the same line.
LinesStoredOnce ==
  \A m, n \in DOMAIN corr :
    m # n /\ corr[m].file = corr[n].file
      => Range(corr[m].lines) \cap Range(corr[n].lines) = {}

\* The lines of a file that was not cut short and whose times never go backwards
\* lie within the times of its name, which is all that stage 2 reads of them.
NameSpansLines ==
  \A m \in DOMAIN corr :
    LET c == corr[m]
        T(i) == lines[c.file][c.lines[i]].time
    IN /\ ({c.file} \X Range(c.lines)) \cap cut = {}
       /\ \A i, j \in DOMAIN c.lines : i < j => T(i) <= T(j)
       => \A i \in DOMAIN c.lines : m[1] <= T(i) /\ T(i) <= m[2]

\* A .dat file describes one segment: the lines its fields come from have the
\* correlation of its name, and its "operations" counts those with an operation,
\* except in the empty one written after a stream could not be opened.
DatDescribesSegment ==
  \A m \in DOMAIN dats : LET d == dats[m] IN
    /\ \A i \in DOMAIN d.lines : lines[d.file][d.lines[i]].key = m[3]
    /\ d.lines # <<>> =>
         d.ops = Cardinality({i \in DOMAIN d.lines : lines[d.file][d.lines[i]].op})

\* A .corr file has its .dat file, unless the storage lost it, or the call that
\* wrote the .corr file is about to write it, or has failed.
CorrHasDat ==
  \A m \in DOMAIN corr :
    LET f == corr[m].file IN
      \/ m \in DOMAIN dats
      \/ m \in cutDat
      \/ pc[f] = "dat" /\ SegmentName(f) = m
      \/ ending[f] = "throw"
      \/ pc[f] = "killed"

\* Every call ends, however often the storage and the disk fail: the flush of the
\* finally block is not repeated.
EveryCallEnds == \A f \in Files : <>Finished(f)

\* Model.java:30, "The correlation file contains an extracted set of line items
\* that contain a common-correlation id": a call that reads to the end, none of
\* whose copies was cut, has stored every correlated line.
NoLineLost ==
  \A f \in Files : pc[f] = "done" /\ ending[f] = "eof" =>
    \A n \in CorrelatedLines(f) : StoredLine(f, n) \/ <<f, n>> \in cut

=============================================================================
