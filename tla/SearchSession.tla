--------------------------- MODULE SearchSession ---------------------------
(***************************************************************************)
(* A search from the web page: the page's Search object and SearchRest     *)
(* (search.js, backend.js) and the server's SearchResource and             *)
(* StandardSearchRunner.                                                   *)
(*                                                                         *)
(* The page asks for the files a search matches and sends them back in     *)
(* batches.  The handler of a batch writes one file of events for each     *)
(* source file and one histogram for the batch to the search's staging     *)
(* directory and answers a count for each file.  When as many counts as    *)
(* files have arrived the page asks for the merged events and for the      *)
(* merged histogram.                                                       *)
(*                                                                         *)
(* Calls are asynchronous: they may be answered in any order, fail, or be  *)
(* answered after the user has submitted the next search.  A callback of   *)
(* the page, with all that it publishes, is one step.                      *)
(***************************************************************************)
EXTENDS Naturals, Sequences, FiniteSets, SequencesExt, FiniteSetsExt

CONSTANTS
  Listing,     \* the files a search can match, in the order the query service lists them
  Paths,       \* the paths of their storage URLs
  Path,        \* the path of a file's URL: files of different buckets may have the same
  FileBatch,   \* FILE_BATCH: a batch is sent when it has more files than this
  ThrottleAt,  \* calls of searchFile beyond which the next one sleeps first
  MaxSearches, \* bound: submits, numbered as their uids
  MaxUnderWay  \* bound: calls under way when the user submits again

ASSUME SearchAssumption ==
  /\ Listing \in Seq(Range(Listing)) /\ IsInjective(Listing)
  /\ FileBatch \in Nat
  /\ ThrottleAt \in Nat
  /\ MaxSearches \in Nat
  /\ MaxUnderWay \in Nat

Files == Range(Listing)

ASSUME PathAssumption == Path \in [Files -> Paths]

VARIABLES
  search,   \* searchRequest's uid, 0 before the first submit
  metas,    \* searchFileMetas
  results,  \* searchedEvents: for each result 1 if its file was searched, else 0
  total,    \* totalEvents
  count,    \* searchingFilesCount
  calls,    \* the REST calls that have neither been received nor failed
  events,   \* the event files of the staging directories: by uid and path, the file searched
  histos,   \* their histograms: by uid and path, the batch that was searched
  view,     \* the events the editor shows
  chart,    \* the series the chart shows
  failed,   \* history: searches a call of which failed, or a batch was answered without a result
  lost,     \* history: the batches that failed
  listed,   \* history: the search when the last file list came
  mixed,    \* history: searches submitted while calls were under way, or under way then
  searched, \* history: the files that were searched to the end, by uid
  stored,   \* history: what reached the staging directory, events by file, histograms by the
            \* first file of the batch
  left      \* history: what was still there when it was merged, and was left out

pageVars == <<search, metas, results, total, count, view, chart>>
stagingVars == <<events, histos>>
historyVars == <<failed, lost, listed, mixed>>
stagedVars == <<searched, stored, left>>
vars == <<pageVars, calls, stagingVars, historyVars, stagedVars>>

Uids == 1 .. MaxSearches

\* uid is the one sent with the call, list that of the search whose file list led to
\* it, files a batch.  The answers: files to a submit, counts to a batch, and to a
\* final call the files that were merged.
Call ==
  [kind : {"submit", "batch", "events", "histo"}, uid : Uids, list : Uids, at : {"waiting", "sent", "answered"},
   files : Seq(Files), counts : Seq({0, 1}), merged : SUBSET Files]

NewCall(kind, uid, list, files, at) ==
  [kind |-> kind, uid |-> uid, list |-> list, at |-> at,
   files |-> files, counts |-> <<>>, merged |-> {}]

\* What is on the page: of no search at first.
Empty == [uid |-> 0, files |-> {}, total |-> 0]

Init ==
  /\ search = 0 /\ metas = <<>> /\ results = <<>> /\ total = 0 /\ count = 0
  /\ calls = {}
  /\ events = <<>> /\ histos = <<>>
  /\ view = Empty /\ chart = Empty
  /\ failed = {} /\ lost = 0 /\ listed = 0 /\ mixed = {}
  /\ searched = {} /\ stored = {} /\ left = {}

-----------------------------------------------------------------------------
(* The page *)

\* The submit button: nothing keeps the user from it while calls are under way.
Submit ==
  /\ search < MaxSearches
  /\ Cardinality(calls) <= MaxUnderWay
  /\ search' = search + 1
  /\ calls' = calls \cup {NewCall("submit", search + 1, search + 1, <<>>, "sent")}
  /\ chart' = Empty
  /\ mixed' = IF calls = {} THEN mixed ELSE mixed \cup {search, search + 1}
  /\ UNCHANGED <<metas, results, total, count, view, stagingVars, failed, lost, listed, stagedVars>>

Received(c, kind) == c \in calls /\ c.kind = kind /\ c.at = "answered"

\* Mutant: a batch that is not full is not sent.
FullBatches(files) ==
  [i \in 1 .. Len(files) \div (FileBatch + 1) |->
     SubSeq(files, (i - 1) * (FileBatch + 1) + 1, i * (FileBatch + 1))]

\* The files in their order, FileBatch + 1 at a time, and what is left.
Batches(files) ==
  LET size == FileBatch + 1
      n == (Len(files) + FileBatch) \div size
  IN [i \in 1 .. n |-> SubSeq(files, (i - 1) * size + 1, Min({i * size, Len(files)}))]

\* Mutant: a call that sleeps is not counted yet.
CountedUnthrottled(n) == Min({count + n, ThrottleAt})

Counted(n) == count + n

\* Mutant: the results of the last search are kept.
KeptResults == results

FirstResults == <<>>

\* setFileUrls: the batches are sent under the search request of now, whichever
\* search the list answers.
ReceiveFiles(c) ==
  /\ Received(c, "submit")
  /\ metas' = c.files
  /\ results' = FirstResults
  /\ total' = 0
  /\ LET bs == Batches(c.files)
         At(i) == IF count + i > ThrottleAt THEN "waiting" ELSE "sent"
     IN /\ count' = Counted(Len(bs))
        /\ calls' = (calls \ {c}) \cup
             {NewCall("batch", search, c.uid, bs[i], At(i)) : i \in DOMAIN bs}
  /\ listed' = search
  /\ UNCHANGED <<search, view, chart, stagingVars, failed, lost, mixed, stagedVars>>

\* The sleep of a throttled call is over.
Wake(c) ==
  /\ c \in calls /\ c.at = "waiting"
  /\ calls' = (calls \ {c}) \cup {[c EXCEPT !.at = "sent"]}
  /\ UNCHANGED <<pageVars, stagingVars, historyVars, stagedVars>>

\* The count of results reaches the count of files; it never does if it has passed it.
Completes(rs) == Len(results) < Len(metas) /\ Len(metas) <= Len(rs)

\* The sum of results, each of which is 0 or 1.
SumOf(rs) == Cardinality({i \in DOMAIN rs : rs[i] = 1})

\* Mutant: the sum is taken before the result that completes it.
TotalBefore(rs) == SumOf(SubSeq(rs, 1, Len(metas) - 1))

TotalOf(rs) == SumOf(SubSeq(rs, 1, Len(metas)))

\* setSearchFileResults for each result of a batch, counted to the search of now.
ReceiveResults(c) ==
  /\ Received(c, "batch")
  /\ count' = count - 1
  /\ results' = results \o c.counts
  /\ IF Completes(results')
       THEN /\ total' = TotalOf(results')
            /\ calls' = (calls \ {c}) \cup
                 {NewCall(k, search, c.list, <<>>, "sent") : k \in {"events", "histo"}}
       ELSE /\ calls' = calls \ {c}
            /\ UNCHANGED total
  /\ UNCHANGED <<search, metas, view, chart, stagingVars, historyVars, stagedVars>>

\* setFinalEvents, with the total of now.
ReceiveEvents(c) ==
  /\ Received(c, "events")
  /\ view' = [uid |-> c.uid, files |-> c.merged, total |-> total]
  /\ calls' = calls \ {c}
  /\ UNCHANGED <<search, metas, results, total, count, chart, stagingVars, historyVars, stagedVars>>

\* setFinalHisto.
ReceiveHisto(c) ==
  /\ Received(c, "histo")
  /\ chart' = [uid |-> c.uid, files |-> c.merged, total |-> 0]
  /\ calls' = calls \ {c}
  /\ UNCHANGED <<search, metas, results, total, count, view, stagingVars, historyVars, stagedVars>>

-----------------------------------------------------------------------------
(* The server *)

Sent(c, kind) == c \in calls /\ c.kind = kind /\ c.at = "sent"

Answers(c, answer) == calls' = (calls \ {c}) \cup {[answer EXCEPT !.at = "answered"]}

Place == [f \in Files |-> CHOOSE i \in DOMAIN Listing : Listing[i] = f]
AsListed(files) == \A i, j \in DOMAIN files : i < j => Place[files[i]] < Place[files[j]]

\* submit: the files the search matches, in the order of the listing.
ServeSubmit(c) ==
  /\ Sent(c, "submit")
  /\ \E n \in 0 .. Len(Listing) : \E files \in [1 .. n -> Files] :
       AsListed(files) /\ Answers(c, [c EXCEPT !.files = files])
  /\ UNCHANGED <<pageVars, stagingVars, historyVars, stagedVars>>

\* Mutant: one histogram for all the batches of a search.
HistoNameOfSearch(c) == <<c.uid, Path[metas[1]]>>

\* histoDestinationURI of the batch's first file.
HistoName(c) == <<c.uid, Path[c.files[1]]>>

\* Mutant: the events of a batch are staged in one file.
EventsNameOfBatch(c, f) == <<c.uid, Path[c.files[1]]>>

\* eventsDestinationURI: stagingLocation keeps the path of the file's URL, and drops
\* its bucket.
EventsName(c, f) == <<c.uid, Path[f]>>

Write(store, new) == [n \in DOMAIN store \cup DOMAIN new |->
                        IF n \in DOMAIN new THEN new[n] ELSE store[n]]

\* What a batch leaves under each name of the files whose event file is put: the files
\* are searched in their order, and one that has the name of another replaces it.
EventsPut(c, put) ==
  LET Of(n) == {i \in DOMAIN c.files : c.files[i] \in put /\ EventsName(c, c.files[i]) = n}
  IN [n \in {EventsName(c, f) : f \in put} |-> c.files[Max(Of(n))]]

\* Mutant: the result of zeroes is added to every file's, not to a failed one's only.
CountsTwice(files, whole) ==
  FlattenSeq([i \in DOMAIN files |-> <<IF files[i] \in whole THEN 1 ELSE 0, 0>>])

\* A file that fails has a result as well, of zeroes.
CountsOf(files, whole) == [i \in DOMAIN files |-> IF files[i] \in whole THEN 1 ELSE 0]

\* searchFile: some files of the batch are searched to their end, the others fail before
\* it.  Whether the event file of one is put does not follow from that: closing it puts
\* what a failed file has, and on S3 hides that it could not, or that there was nothing
\* to put.  The histogram of the batch is put in the end, or it is lost in the same way.
\* One step: nothing reads the staging directory of a search while a batch of it is under
\* way, unless searches overlap (FinalAfterBatches); of what two batches put under one
\* name the last one stays, as if the batches had been served in that order.
ServeBatch(c) ==
  /\ Sent(c, "batch")
  /\ \E whole, put \in SUBSET Range(c.files), histo \in SUBSET {c.files[1]} :
       /\ events' = Write(events, EventsPut(c, put))
       /\ histos' = Write(histos, [n \in {HistoName(c) : f \in histo} |-> c.files])
       /\ Answers(c, [c EXCEPT !.counts = CountsOf(c.files, whole)])
       /\ searched' = searched \cup {<<c.uid, f>> : f \in whole}
       /\ stored' = stored \cup {<<"events", c.uid, f>> : f \in put}
                             \cup {<<"histo", c.uid, f>> : f \in histo}
  /\ UNCHANGED <<pageVars, historyVars, left>>

Failing(c) == failed' = failed \cup {c.uid}

\* The histogram's function cannot be made: the answer has no results.
ServeNothing(c) ==
  /\ Sent(c, "batch")
  /\ Answers(c, c)
  /\ Failing(c)
  /\ UNCHANGED <<pageVars, stagingVars, lost, listed, mixed, stagedVars>>

\* The names of a search in the store.
StagedBy(c, store) == {n \in DOMAIN store : n[1] = c.uid}

\* finaliseEvents: the event files of the search are merged.  getInputStreams lists them
\* and hides that one could not be read, or was not within the minute it waits: any may
\* be left out, and an error leaves out all, the answer being its zeroes.
ServeEvents(c) ==
  /\ Sent(c, "events")
  /\ \E some \in SUBSET StagedBy(c, events) :
       /\ Answers(c, [c EXCEPT !.merged = {events[n] : n \in some}])
       /\ left' = left \cup {<<"events", c.uid, events[n]>> : n \in StagedBy(c, events) \ some}
  /\ UNCHANGED <<pageVars, stagingVars, historyVars, searched, stored>>

\* finaliseHisto: the histograms of the search are merged, in the same way; an error
\* answers nothing.
ServeHisto(c) ==
  /\ Sent(c, "histo")
  /\ \E some \in SUBSET StagedBy(c, histos) :
       /\ Answers(c, [c EXCEPT !.merged = UNION {Range(histos[n]) : n \in some}])
       /\ left' = left \cup {<<"histo", c.uid, histos[n][1]>> : n \in StagedBy(c, histos) \ some}
  /\ UNCHANGED <<pageVars, stagingVars, historyVars, searched, stored>>

\* A call fails, before or after it was served.  jQuery.ajax has no option "fail":
\* the page does nothing.
Fail(c) ==
  /\ c \in calls /\ c.at # "waiting"
  /\ calls' = calls \ {c}
  /\ Failing(c)
  /\ lost' = IF c.kind = "batch" THEN lost + 1 ELSE lost
  /\ UNCHANGED <<pageVars, stagingVars, listed, mixed, stagedVars>>

Receive(c) == ReceiveFiles(c) \/ ReceiveResults(c) \/ ReceiveEvents(c) \/ ReceiveHisto(c)
Serve(c) ==
  \/ ServeSubmit(c)
  \/ ServeBatch(c)
  \/ ServeNothing(c)
  \/ ServeEvents(c)
  \/ ServeHisto(c)
Advance == \E c \in calls : Receive(c) \/ Wake(c) \/ Serve(c) \/ Fail(c)

Next == Submit \/ Advance

\* The page's event loop runs its callbacks and its timers, and a call is answered or
\* fails in the end; nothing is assumed of the user.
Spec == Init /\ [][Next]_vars /\ WF_vars(Advance)

-----------------------------------------------------------------------------
(* Properties *)

View == [uid : 0 .. MaxSearches, files : SUBSET Files, total : Nat]

\* Every variable has its type.
TypeOK ==
  /\ search \in 0 .. MaxSearches
  /\ metas \in Seq(Files)
  /\ results \in Seq({0, 1})
  /\ total \in Nat
  /\ count \in Nat
  /\ calls \subseteq Call
  /\ DOMAIN events \subseteq Uids \X Paths
  /\ \A n \in DOMAIN events : events[n] \in Files
  /\ DOMAIN histos \subseteq Uids \X Paths
  /\ \A n \in DOMAIN histos : histos[n] \in Seq(Files) \ {<<>>}
  /\ view \in View
  /\ chart \in View
  /\ failed \subseteq Uids
  /\ lost \in Nat
  /\ listed \in 0 .. MaxSearches
  /\ mixed \subseteq 0 .. MaxSearches
  /\ searched \subseteq Uids \X Files
  /\ stored \subseteq {"events", "histo"} \X Uids \X Files
  /\ left \subseteq {"events", "histo"} \X Uids \X Files

OfKind(kind) == {c \in calls : c.kind = kind}

\* searchingFilesCount counts the batches that sleep, are under way or are to be
\* received, and every batch that ever failed: the throttle of searchFile counts
\* what it should and, besides, what it can no longer see.
CountsBatches == count = Cardinality(OfKind("batch")) + lost

\* The final events and the final histogram of a search that no other one overlaps
\* are asked for when every batch of it has been answered: no batch writes to the
\* staging directory while it is merged.
FinalAfterBatches ==
  \A c \in calls : c.kind \in {"events", "histo"} /\ c.uid \notin mixed =>
    OfKind("batch") = {} /\ Len(results) = Len(metas)

Alone(uid) == uid \in Uids /\ uid = search /\ uid \notin mixed

\* Of the files of the last search, and of its batches, those that kind was stored of.
StoredOf(kind, files) == {f \in files : <<kind, search, f>> \in stored}
LeftOut(kind, f) == <<kind, search, f>> \in left

\* The files merged in the events: of those with an event file, one for each path, but
\* for one that was left out.
MergedEvents(files) ==
  LET put == StoredOf("events", Range(metas))
  IN /\ files \subseteq put
     /\ \A f, g \in files : Path[f] = Path[g] => f = g
     /\ \A f \in put : \E g \in put : Path[g] = Path[f] /\ (g \in files \/ LeftOut("events", g))

\* The files merged in the chart: of the batches with a histogram one for each path of
\* their first files, but for one that was left out.
MergedHistos(files) ==
  LET put == {b \in Range(Batches(metas)) : <<"histo", search, b[1]>> \in stored}
  IN \A b \in put : \E d \in put :
       Path[d[1]] = Path[b[1]] /\ (Range(d) \subseteq files \/ LeftOut("histo", d[1]))

\* The events on the page are merged from an event file of every path the search has
\* stored one for, none is there for a file it did not find, and one is missing only if
\* the merge could not read it; their total counts the files that were searched to the
\* end, whether or not their events were stored.  Unless another search overlapped.
ShownWhole ==
  Alone(view.uid) =>
    /\ MergedEvents(view.files)
    /\ view.total = Cardinality({f \in Range(metas) : <<search, f>> \in searched})

\* The chart has the files of a batch for every name a histogram was stored under, or
\* the merge could not read it: only a batch whose first file has the same path, in
\* another bucket, replaces it.
ChartWhole == Alone(chart.uid) => MergedHistos(chart.files)

\* Where the last search is for its user.
Phase ==
  CASE search = 0 -> "idle"
    [] search \in mixed -> "overlapped"
    [] search \notin mixed \cup {0} /\ listed # search -> "asked"
    [] search \notin mixed \cup {0} /\ listed = search /\ view.uid = search -> "shown"
    [] OTHER -> IF Len(results) < Len(metas) \/ metas = <<>> THEN "searching" ELSE "complete"

Underway == Phase \in {"searching", "complete", "shown"}

Promise == INSTANCE SearchPromise WITH
  MaxFiles <- Len(Listing),
  phase <- Phase,
  left <- IF Underway THEN Len(metas) - Len(results) ELSE 0,
  whole <- IF Underway THEN SumOf(results) ELSE 0,
  reported <- IF Phase = "shown" THEN view.total ELSE 0

\* The page keeps what it promises: SearchPromise is implemented.
KeepsPromise == Promise!Spec

\* A search ends: its events are shown, unless it matches no file, a call of it fails
\* or is answered without a result, or another search overlaps.
SearchEnds ==
  \A u \in Uids :
    search = u ~> \/ view.uid = u
                  \/ u \in mixed \cup failed
                  \/ search = u /\ calls = {} /\ metas = <<>>

=============================================================================
