--------------------------- MODULE SearchResults ---------------------------
(***************************************************************************)
(* What a search answers: how the lines of the files become staged events  *)
(* (SearchEventCollector) and the histogram of a batch                     *)
(* (SimpleHistoCollector, TimeSeries), and how these are merged into the   *)
(* events and the chart on the page (LineByLineEventAggregator,            *)
(* CountHistoAggregator).  SearchSession has the calls and their order;    *)
(* here a call is its effect on the data.                                  *)
(*                                                                         *)
(* Time is in any unit a minute is a multiple of.  The search counts, and  *)
(* groups by tag.                                                          *)
(***************************************************************************)
EXTENDS Integers, Sequences, FiniteSets, Functions, SequencesExt, FiniteSetsExt

CONSTANTS
  Batches,   \* the batches of files, each a sequence
  Tags, Tag, \* the tags, and the tag of each file
  Fields,    \* the names a field is extracted under
  NoField,   \* no field is extracted from a line
  Lines,     \* the lines a file can have: time, match, field
  MaxLines,  \* bound: how many a file has
  From, To,  \* the time range of the search
  Minute,
  Delta,     \* the width of a bucket buildHistogram chooses for the range
  Limit      \* the number of events an answer is limited to

Files == UNION {Range(b) : b \in Range(Batches)}

ASSUME ResultsAssumption ==
  /\ Batches \in Seq(Seq(Files))
  /\ \A i \in DOMAIN Batches : Batches[i] # <<>> /\ IsInjective(Batches[i])
  /\ \A i, j \in DOMAIN Batches : i # j => Range(Batches[i]) \cap Range(Batches[j]) = {}
  /\ Tag \in [Files -> Tags]
  /\ IsFiniteSet(Fields) /\ NoField \notin Fields
  /\ Lines \subseteq [time : Nat, match : BOOLEAN, field : Fields \cup {NoField}]
  /\ MaxLines \in [Files -> Nat]
  /\ From \in Nat /\ To \in Nat /\ From < To
  /\ Minute \in Nat \ {0} /\ Delta \in Nat \ {0} /\ Delta % Minute = 0
  /\ Limit \in Nat

VARIABLES
  lines,   \* the lines of the files
  done,    \* how many files of each batch have been searched
  staged,  \* the event files in the staging directory, by file
  counted, \* the events of each file that its batch's histogram has counted (history)
  histo,   \* the histogram of each batch: counts, by tag and field, and by bucket
  stored,  \* the batches whose histogram was written
  merged,  \* the answer to the final events: after which time, and the events
  chart    \* the answer to the final histogram: counts, by tag and bucket

vars == <<lines, done, staged, counted, histo, stored, merged, chart>>

BatchIds == DOMAIN Batches
Keys == Tags \X Fields

FloorMin(t) == (t \div Minute) * Minute
Start == FloorMin(From)

\* buildHistogram.
Buckets == 0 .. (FloorMin(To) - Start) \div Delta

\* index: no time before the start is asked for.
Index(t) == (t - Start) \div Delta

NoCounts == [k \in Keys |-> [i \in Buckets |-> 0]]
NoEvents == [from |-> -1, events |-> <<>>]
NoChart == <<>>

\* The lines of the files, as many as each may have.
Contents ==
  {c \in [Files -> UNION {BoundedSeq(Lines, MaxLines[f]) : f \in Files}] :
     \A f \in Files : Len(c[f]) <= MaxLines[f]}

Init ==
  /\ lines \in Contents
  /\ done = [b \in BatchIds |-> 0]
  /\ staged = <<>> /\ counted = <<>>
  /\ histo = [b \in BatchIds |-> NoCounts]
  /\ stored = {}
  /\ merged = NoEvents /\ chart = NoChart

-----------------------------------------------------------------------------
(* searchFile *)

\* Mutant: lines that do not match are staged as well.
InRange(line) == From < line.time /\ line.time < To

\* A line the search keeps.
Kept(line) == From < line.time /\ line.time < To /\ line.match

\* One after the other, the elements of s that are in S.  (SelectSeq is not an operator
\* that can be proved about.)
Those(s, S) ==
  LET those[i \in 0 .. Len(s)] ==
        IF i = 0 THEN <<>>
        ELSE IF s[i] \in S THEN Append(those[i - 1], s[i]) ELSE those[i - 1]
  IN those[Len(s)]

\* The events of the first n lines of f, in the order of the file.
EventsOf(f, n) ==
  LET all == [i \in 1 .. n |-> [file |-> f, line |-> i, time |-> lines[f][i].time,
                                field |-> lines[f][i].field, match |-> lines[f][i].match]]
  IN Those(all, {e \in Range(all) : Kept(e)})

\* Mutant: the search has one histogram, and its last file's.
CountedAnew(h, tag, events) ==
  [k \in Keys |-> [i \in Buckets |->
     Cardinality({j \in DOMAIN events :
       <<tag, events[j].field>> = k /\ Index(events[j].time) = i})]]

\* SimpleHistoCollector.add for each of the events: one more in the bucket of its time,
\* if it has a field.
Counted(h, tag, events) ==
  [k \in Keys |-> [i \in Buckets |-> h[k][i] +
     Cardinality({j \in DOMAIN events :
       <<tag, events[j].field>> = k /\ Index(events[j].time) = i})]]

\* A batch counts under the tags of its first file.
TagOfBatch(b) == Tag[Batches[b][1]]

With(files, f, events) == [g \in DOMAIN files \cup {f} |-> IF g = f THEN events ELSE files[g]]

\* The next file of a batch.  Its events up to line n are counted: that is its end, or
\* the stream or an add fails there.  An event is written before it is counted, through
\* a buffer: the event file has those up to a line m, one more at most than are counted,
\* or it is lost at close.  A file that cannot be opened or is empty has no events.
SearchFile(b) ==
  /\ done[b] < Len(Batches[b])
  /\ LET f == Batches[b][done[b] + 1]
     IN \/ \E n, m \in 0 .. Len(lines[f]) :
             /\ lines[f] # <<>> /\ m <= n + 1
             /\ counted' = With(counted, f, EventsOf(f, n))
             /\ histo' = [histo EXCEPT ![b] = Counted(@, TagOfBatch(b), EventsOf(f, n))]
             /\ staged' \in {staged, With(staged, f, EventsOf(f, m))}
        \/ UNCHANGED <<staged, counted, histo>>
  /\ done' = [done EXCEPT ![b] = @ + 1]
  /\ UNCHANGED <<lines, stored, merged, chart>>

Searched(b) == done[b] = Len(Batches[b])

\* SimpleHistoCollector.close; a failure is hidden, and the histogram is not there.
CloseHisto(b) ==
  /\ Searched(b) /\ done' = [done EXCEPT ![b] = @ + 1]
  /\ stored' \in {stored, stored \cup {b}}
  /\ UNCHANGED <<lines, staged, counted, histo, merged, chart>>

Closed(b) == done[b] > Len(Batches[b])

-----------------------------------------------------------------------------
(* The final answers, when every batch has been answered *)

\* Mutant: from the time on.
FromOn(events, from) == Those(events, {e \in Range(events) : e.time >= from})

After(events, from) == Those(events, {e \in Range(events) : e.time > from})

\* The staged files one after the other, in the order of the HashMap: findNextLine
\* takes its first entry, and never looks at the times.
Spliced(order, from) == After(FlattenSeq([i \in DOMAIN order |-> staged[order[i]]]), from)

Orders == {s \in [1 .. Cardinality(DOMAIN staged) -> DOMAIN staged] : IsInjective(s)}

Cut(events) == SubSeq(events, 1, Min({Limit, Len(events)}))

\* finaliseEvents, of the whole search or after the time of a bucket the user clicks.
MergeEvents ==
  /\ merged = NoEvents
  /\ \A b \in BatchIds : Closed(b)
  /\ \E order \in Orders, from \in {From} \cup {Start + i * Delta : i \in Buckets} :
       merged' = [from |-> from, events |-> Cut(Spliced(order, from))]
  /\ UNCHANGED <<lines, done, staged, counted, histo, stored, chart>>

\* finaliseHisto: series of one name are added up, and then those of one group.
MergeHisto ==
  /\ chart = NoChart
  /\ \A b \in BatchIds : Closed(b)
  /\ chart' = [t \in Tags |-> [i \in Buckets |->
       SumFunction([k \in {key \in Keys : key[1] = t} |->
         SumFunction([b \in stored |-> histo[b][k][i]])])]]
  /\ UNCHANGED <<lines, done, staged, counted, histo, stored, merged>>

Next ==
  \/ \E b \in BatchIds : SearchFile(b) \/ CloseHisto(b)
  \/ MergeEvents
  \/ MergeHisto

Spec == Init /\ [][Next]_vars

-----------------------------------------------------------------------------
(* Properties *)

Event == [file : Files, line : Nat, time : Nat, field : Fields \cup {NoField}, match : BOOLEAN]

EventsIn(files) == UNION {Range(files[f]) : f \in DOMAIN files}
Staged == EventsIn(staged)
Collected == EventsIn(counted)
BatchOf(f) == CHOOSE b \in BatchIds : f \in Range(Batches[b])

\* Every variable has its type, and what is staged or counted is in the range of the search.
TypeOK ==
  /\ \A f \in Files : lines[f] \in Seq(Lines)
  /\ \A b \in BatchIds : done[b] \in 0 .. Len(Batches[b]) + 1
  /\ DOMAIN staged \subseteq DOMAIN counted /\ DOMAIN counted \subseteq Files
  /\ \A e \in Staged \cup Collected : e \in Event /\ From < e.time /\ e.time < To /\ e.match
  /\ histo \in [BatchIds -> [Keys -> [Buckets -> Nat]]]
  /\ stored \subseteq BatchIds
  /\ merged.from \in Nat \cup {-1} /\ Range(merged.events) \subseteq Event
  /\ chart # NoChart => chart \in [Tags -> [Buckets -> Nat]]

\* The bars of the chart are the events that were collected: each has as many as there
\* are with a field in its time, of the batches that count under its tag, and no event
\* with a field is outside every bar, unless the histogram of its batch was lost.  These
\* are the events of the list beside the chart as well, but for those of event files that
\* were cut short or lost, and one event of a file at most that was written and, its add
\* having failed, not counted.
ChartCountsEvents ==
  LET Fielded == {e \in Collected : e.field # NoField /\ BatchOf(e.file) \in stored}
      Bar(t, i) == {e \in Fielded : /\ TagOfBatch(BatchOf(e.file)) = t
                                    /\ Start + i * Delta <= e.time
                                    /\ e.time < Start + (i + 1) * Delta}
  IN chart # NoChart =>
       /\ \A t \in Tags, i \in Buckets : chart[t][i] = Cardinality(Bar(t, i))
       /\ Fielded = UNION {Bar(t, i) : t \in Tags, i \in Buckets}
       /\ \A d, e \in Staged \ Collected : d.file = e.file => d = e

\* The answer to the final events has the staged events after the time that was asked
\* for, each once and those of a file in the order of the file: all of them, or as many
\* as the limit allows.
MergedWhole ==
  LET Wanted == {e \in Staged : e.time > merged.from}
      es == merged.events
  IN merged # NoEvents =>
       /\ Range(es) \subseteq Wanted
       /\ IsInjective(es)
       /\ Len(es) = Min({Limit, Cardinality(Wanted)})
       /\ \A i, j \in DOMAIN es : i < j /\ es[i].file = es[j].file => es[i].line < es[j].line

\* LineByLineEventAggregator.java:34, "Splices together raw event files by the
\* timestamp": files whose own events are in the order of time are merged in it.
MergedByTime ==
  LET Ordered(s) == \A i, j \in DOMAIN s : i < j => s[i].time <= s[j].time
  IN (\A f \in DOMAIN staged : Ordered(staged[f])) => Ordered(merged.events)
=============================================================================
