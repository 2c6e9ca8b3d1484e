# A verification model of Fluidity

Fluidity searches log files where they are stored and builds *dataflow models* of them: the
lines of one correlation id, collected from all files, become a *flow* whose durations are
shown as a latency ladder and as histograms. The program is a set of Java functions behind
REST resources (`search/`, `services/`) and a web page (`web/`). This directory holds TLA+
modules of the parts where steps of several actors meet, TLC instances that check them, and
proofs, checked by TLAPS, of what is claimed for every value of the constants.

- [1. The system](#1-the-system)
- [2. The modules and the code](#2-the-modules-and-the-code)
- [3. The runs](#3-the-runs)
- [4. The proofs](#4-the-proofs)
- [5. Where the code differs from what it says](#5-where-the-code-differs-from-what-it-says)
- [6. What is not modelled](#6-what-is-not-modelled)
- [7. What could follow](#7-what-could-follow)

## 1. The system

| Component | State it keeps | Operations | What makes it hard | What makes it correct |
|---|---|---|---|---|
| **Correlation extraction** `DataflowExtractor` | one temporary file, times, id and fields of the segment in hand; the model directory's `.corr` and `.dat` files | `process`, `flushToStorage` | every call on the disk or the storage can fail, and the `finally` block flushes once more from whatever state it finds; copies whose exception is swallowed; names made of times and an id collide; several calls at once | a `.corr` file holds a run of lines of one id; each line is stored once, or lost in a known way; names have ordered times; the call ends |
| **Dataflow build** `WorkflowRunner`, `DataflowBuilder`, `DataflowResource.submit`, `rewriteCorrelationData` | thread pool, status queue and its scheduler, the group in hand, the histograms | `submit`, `run` with its three stages, `rewriteCorrelationData` | a bounded wait whose result is not used; handlers that outlive their call; a listing in pages while files are still written; groups made by adjacency; names taken apart by a delimiter an id may contain; exceptions that skip stages or stop between two of the objects of one; a second submit, beside the first or after it | the flows partition the listing; each is of one correlation with ordered times; a build nothing went wrong with is complete; no histogram of an aborted build is stored; `run` ends |
| **Flow model** `FlowInfo`, `DataflowHistoCollector`, `LatencyLadderFun`, `FlowStats` | ladder and histogram series by time | `add`, `results` | flows before the start or past the end of the range; integer buckets | each flow in one bucket; totals equal the flows (not modelled) |
| **Object storage** `AwsS3StorageService`, `FileSystemBasedStorageService` | objects by name | list (paged), get, put, upload, import, concurrent download of many streams | pages, order, one-minute wait for downloads, streams that fail at `close` | a listing is each object of the prefix once, in order |
| **Storage REST resource** `StorageResource`, `StorageIndexer` | - | upload, import, remove imported | three systems written one after the other, each of which may fail; calls side by side; a server that stops half way | what the caller is told is what the table holds; an import cut short has put the newest files; a removal takes nothing it did not find |
| **Metadata queries** `AwsQueryService`, `RocksDBQueryService` | file metadata by tenant and name | put, delete, list, find | batches of 25, a failing batch that is dropped here and kept there, unprocessed items, deletes from a listing that is stale by then | one record per tenant and name; what was listed or found is put or deleted, but for what a failing batch missed |
| **Search client** `search.js`, `backend.js`, `pubsub.js` | request, file list, results, count of calls under way, view and chart | submit, batches, throttle, final calls | asynchronous calls that arrive in any order, fail, or belong to an earlier search | a search ends; what is shown is of every file of it |
| **Search server** `SearchResource`, `StandardSearchRunner`, `SearchEventCollector` | the staging directory of each search | submit, files, finalizeEvents, finalizeHisto | files that fail within a batch, objects lost at close, names that drop the bucket, downloads left out of a merge | one result per file; what is merged is what was staged, a file for each name |
| **Event aggregation** `SearchEventCollector`, `LineByLineEventAggregator` | one pending record per stream | `process` | lines at the ends of the range, a limit, a start time, streams that fail part way | each event once, in the order of its file, up to the limit |
| **Histograms** `TimeSeries`, `SimpleHistoCollector`, `*HistoAggregator` | buckets of a range | `update`, `merge` | the bucket index at both ends; one histogram for a batch whose files have other tags; series of one name from several batches; events counted whose file is lost, or written and not counted | a bar counts the events of its time that were collected |
| **Search expression, time extraction** | - | matchers, extractors, guessed times | text formats | - |
| **Explorer** `explorer.js`, `backend.js`, `import.js` | the table of files, the editor, the spinner | list, open, import, remove | a file is fetched in up to five calls, with a fallback and a retry; the next one may be opened meanwhile; one spinner without a count | the editor has the file that was opened last; the spinner says whether something is loaded; the page comes to rest |
| **Refinery page** `refinery.js`, `refinery/vue.js` | a name input, the query inputs, the table of a model's data | pick, load, save, list, submit | the name and the query are set by different events; calls overtake each other; other users save; a query is joined with bars and cut at them | a query that was loaded is that of the model it was loaded from |
| **Dataflow views** `dataflow.js`, `rest.js`, `uplot/` | histogram, heat map, two bar charts, the records of a flow | a click in one asks for the next | answers in any order; a chart library that is loaded beside the calls and draws made-up data | a view has what was last asked of it |
| **Convertors, sign-in, navigation** | - | single requests, formatting | - | - |

How they interact. The page submits a search or a model build by REST. A *search* is driven by
the page: it asks for the matching files, posts them in batches to `SearchResource`, whose
handlers read the sources from the storage and write event and histogram files to the staging
directory of the search (keyed by its uid), and when all results are in asks for the merges. A
*build* is driven by the server: `DataflowResource.submit` runs a `WorkflowRunner`, which posts
one `rewriteCorrelationData` call per source file (usually to another function instance). Each
handler runs `DataflowExtractor` and writes to the model directory; the runner then lists that
directory and writes flows, ladder and histogram beside it. On the *page*, its parts call each
other over `$.Topic` (`pubsub.js`), whose `publish` runs the subscribers at once, and share one
spinner, one editor and the model name. The components on the server share nothing but the
bucket, and nothing locks it: the only coordination is the runner's wait for its pool, the page's
count of results, and the names of the objects. The hazards of `PROJECT.json` name, line
by line, where that can go wrong.

## 2. The modules and the code

### DataflowExtractor - stage 1 of a build

`DataflowExtractor.process` and `flushToStorage`, one instance per source file, with the model
directory (`corr`, `dats`) shared.

| TLA+ | code |
|---|---|
| `cur`, `tmp`, `seg` | `currentCorrelation`, `currentFile` with its streams, what was written to it |
| `start`, `last` | `startTime`, `lastCorrelationTime` |
| `dat`, `ops` | `datData` and the operations counter |
| `pc`, `ending` | where the call stands: the loop, the two copies of a flush, opening the next file; and whether the loop was left at the end of the input or by an exception |
| `Skip`, `ReadSame`, `ReadOther` | one turn of the loop |
| `StoreCorr`, `CutCorr`, `LoseCorr`, `CorrThrows`, `CorrMissing` | the copy of the `.corr` file: done; cut short or lost with its exception swallowed by the copy function; refused by the storage; the temporary file gone |
| `StoreDat`, `LoseDat`, `DatThrows` | the same for the `.dat` file, whose success clears `datData` |
| `OpenSegment`, `TempFileFails`, `StreamFails` | the next segment: `currentCorrelation` is assigned before the file is created |
| `EnterFinally`, `FailFinally`, `LeaveFlush` | the `finally` block, and exceptions that leave `flushToStorage` from the loop or from that block |
| `EndTime` | the nudge of an end time that is not after its start |
| `Killed` | the function instance is stopped |

Contents are abstracted to line numbers, ids and times to model values and numbers. `cut`,
`replaced` and `cutDat` are history variables: they say which lines the storage swallowed or an
object of the same name replaced, so that the properties can say that *nothing else* is lost.
No action reads them.

### WorkflowRunner - the build around it

`WorkflowRunner.run`, the pool's tasks and their remote handlers, and the listing. A handler is
seen through what `DataflowExtractor` stores: the names `Segments[f]`, in order, until it ends,
fails or dies. The assumption `NamesOrderedAssumption` about those names is what the theorem
`StoredNamesOrdered` establishes for the extractor.

| TLA+ | code |
|---|---|
| `Submit`, `SubmitFails` | `DataflowResource.submit` makes a new runner; `dfBuilder.listFiles`, `limit(limitList)` |
| `CallStarts`, `CallReturns`, `CallFails` | a pool thread in `rewriteCorrelationDataS`, which turns every exception into a message |
| `JobStarts`, `JobStores`, `JobEnds`, `JobFails`, `JobDies` | the handler of `rewriteCorrelationData` |
| `PoolTerminates`, `AwaitTimesOut` | `awaitTermination(15, MINUTES)`, whose result is not used |
| `FetchPage`, `Left` | `listBucketAndProcess`: the prefix, the path of the model without a slash at its end, is in the first request only |
| `VisitSame`, `VisitOther`, `LastFlow` | the callback of `buildDataFlowIndexForCorrelations`, with `equalsIgnoreCase`, and the flow after the loop |
| `Fields`, `StartIn`, `EndIn`, `Parseable` | `getDurations`: the times are the fourth and third field from the end of the name, numbers or an exception |
| `FlowOf`, `FlowName`, `WriteFlow` | `DataflowModeller.getCorrelationFlow`, `FlowInfo`, `writeCorrelationFlow` |
| `StoreLadder`, `StoreHisto`, `LastSlice`, `Written` | stage 3: one object for each hour (`slice`), each stored, lost or left unreadable |
| `Abort` | an exception between any two steps of the stages 2 and 3 |
| `FinalDrain`, `Tick` | the status queue |
| `Crash` | the process of the runner stops; handlers go on |

Every submit has a runner with variables of its own, and may come at any time: the runs share the
model directory, where `ladder[h]` and `histo[h]` say which of them stored the object of an hour.
An id is known by its words, what stands between two delimiters (`Parts`), and a word by the
number it parses to (`Number`), which is all that grouping and times depend on. An id like `42_x`
therefore has a flow whose times are the end of the file and 42, one like `x_x` ends the build.

### SearchSession - a search, page and server

The page's `Search` object and `RestVersion` of `search/backend.js`, and the server's
`SearchResource` with `StandardSearchRunner`. REST calls are a set of records: sleeping in the
throttle, sent, or answered; any of them can be taken next, so that calls overtake each other.

| TLA+ | code |
|---|---|
| `search`, `metas`, `results`, `total` | `searchRequest` (its uid), `searchFileMetas`, `searchedEvents`, `totalEvents` |
| `count` | `searchingFilesCount` |
| `events`, `histos` | the staging directories, by the uid of the search and the path of a file: `stagingLocation` drops the bucket, so that two files, or two batches, may have one name (`EventsName`, `HistoName`, `Path`) |
| `view`, `chart` | the editor and the chart, with what they were made of |
| `Submit`, `ReceiveFiles`, `ReceiveResults`, `ReceiveEvents`, `ReceiveHisto` | `submitSearch`, `setFileUrls`, `setSearchFileResults` for each result, `setFinalEvents`, `setFinalHisto` |
| `Wake`, `Fail` | the `sleep` of `searchFile`; a call that fails, which nothing in the page notices |
| `ServeBatch` | `searchFile`: which files were searched to the end, of which an event file was put, and whether the histogram was, are three independent choices, since `close` puts what a failed file has and on S3 hides that it could not |
| `ServeEvents`, `ServeHisto` | the merges, of any of what is staged: `getInputStreams` leaves out a stream it could not read, or not in a minute |
| `ServeSubmit`, `ServeNothing` | the resource's other answers |

`SearchPromise` is the abstract specification: a search is asked, its files are found, their
answers are counted down to none, and the events are shown once, with the total of what the
answers counted. `KeepsPromise` states that `SearchSession` implements it, under the refinement
mapping of `Promise == INSTANCE SearchPromise WITH ...`: `Phase` is read off the page's variables,
`left` is how many files have no result, `whole` the sum of the results, `reported` the total on the
page. The promise is silent about a search that another one overlaps (the phase `overlapped`), and
nothing in the repository promises more.

A publish of `pubsub.js` calls its subscribers at once, so a callback with all it publishes is
one step. A served batch is one step too; `FinalAfterBatches` is why that is enough for a search
no other one overlaps. `failed`, `lost`, `listed`, `mixed`, `searched`, `stored` and `left` are history
variables; the last three say what was searched, what was put, and what a merge left out.

### FileCatalogue - the files that can be searched

The REST calls that change the catalogue, in the deployment on AWS: `StorageResource` (upload,
import, removal) and `QueryResource` (put, delete), over the table of `AwsQueryService` and the
buckets of `AwsS3StorageService`. A call is a sequence of requests to the two services, and calls
run side by side; every request may be refused, fail after it was done, or, if it is a batch, be
done in part without an exception.

| TLA+ | code |
|---|---|
| `table`, `catalogue` | whether the table was created; its records, keyed by tenant and name. `by` is history: the call that put the record |
| `objects`, `unwritten` | the objects uploads have written; history: uploads that wrote none (an empty file, or a failure of S3 that is only logged) |
| `task`, `pc`, `answer` | a call's parameters, where it is, and what its caller has been told |
| `listed`, `found`, `todo`, `batch` | the listing's position, the results, those no batch has had yet, and the batch a failure leaves behind |
| `missed` | history: items of a call's batches that were not done and are not tried again |
| `StoreUpload`, `StoreFails`, `PutUpload` | `uploadFile`: `storage.upload`, then `indexer.index` and `query.put` |
| `PutMeta`, `DeleteMeta`, `CreateTable` | `QueryResource.put`, `delete` and `list`, the only one that creates the table |
| `ListPage`, `ListFails` | `importFromStorage` of the S3 service: a page, its filter, and the continuation without the prefix |
| `PutBatch`, `PutLast` | `putList` over the results sorted newest first; a batch that fails is logged and dropped, but not the last one |
| `QueryFiles`, `ScanTable`, `DeleteBatch`, `DeleteLast`, `ReadFails` | `removeByStorageId`: `query`, then `deleteList` with its scan; a batch that fails is kept |
| `Crash` | the server stops |

A batch is cleared when its size exceeds `BATCH_LIMIT`; since items go from the list to the batch
one by one with no other effect, a batch with all the items it takes is one step (`Room`).

### SearchResults - what a search answers

What `SearchSession` abstracts from: the lines. The files have every content of up to `MaxLines`
lines; a search stages their events, counts them in the histogram of the batch, and merges both.

| TLA+ | code |
|---|---|
| `Kept`, `EventsOf`, `Those` | the condition of `SearchEventCollector.process`, and the events of a file up to where its stream fails |
| `Start`, `Buckets`, `Index` | `TimeSeries`: `floorMin`, `buildHistogram`, `index` |
| `Counted`, `TagOfBatch` | `SimpleHistoCollector.add` under the group of the first file's tags, as `updateFileInfo` is called |
| `SearchFile` | `SearchEventCollector.process` of the next file: an event is written through a buffer, then counted, so that a failure leaves a histogram up to line `n` and an event file up to a line `m` that is at most one event ahead, cut short, or lost at `close` |
| `counted` | history: the events of each file that `histoCollector.add` was called for |
| `CloseHisto` | the `close` of a batch's histogram, which hides a failure |
| `Spliced`, `Orders` | `findNextLine`: the first entry of the `HashMap`, so one file after the other in any order |
| `After`, `Cut`, `MergeEvents` | `process(fromTime, limit)`, for the final events of a search and for those of a click on a bar |
| `MergeHisto` | `AbstractHistoAggregator.process` and `CountHistoAggregator.processSeries` |

### Client - the rest of the page

`Page` has what the parts share: the spinner, the calls that show it, and, for each panel, the
action of the user whose answer it shows (`shown`), and which one asked for it last (`asked`, a
history variable). `Explorer`, `Refinery` and `DataflowViews` extend it, each with its own variables
and actions, and `Client` composes the three and adds the reload of the page. The data of a panel
is abstracted to the number of the action that asked for it, which is what tells old from new.

| TLA+ | code |
|---|---|
| `Show`, `Hide`, `HideAndShow`, `Leave` | the topics `startSpinner` and `stopSpinner` of a callback |
| `Ask`, `Send`, `Answer`, `Refuse`, `GiveUp` | a `$.get` with the spinner and its callbacks; `GiveUp` is a failure that has none, as `fail` is no option of `jQuery.ajax` and a plain `$.get` has no handler |
| `Open`, `TextUrl`, `ArchiveUrl`, `TextContent`, `FallBack`, `NoContent` | `fileContentsByURL` and `fileContents` |
| `Loaded`, `Again`, `Expanded`, `Broken` | `downloadBinaryDataFromURL`, its `onerror` and its reader |
| `PickModel`, `FillInputs`, `SaveModel` | `loadModel` and `saveModel` of `refinery/vue.js`; a save needs a tag in every input |
| `Join`, `Split` | the inputs are joined with bars, and the query is cut at them; a text is the sequence of its pieces between bars |
| `OtherSaves` | another user saves the model |
| `ServeLoad`, `ServeSave` | `DataflowResource.loadModel`, which takes a storage it cannot read for a model that is not there, and `saveModel` |
| `SubmitModel`, `ModelBuilt`, `BuildLost` | `Refinery.submit` and `submitReply`, which refreshes the table |
| `ClickHistogram`, `ClickHeatmap`, `Drilldown` | the click handlers of `uplot/` |
| `ChartLoaded` | `loaded1`, `loaded2`: the load callback of Google's chart library |
| `Reload` | the page is loaded again, by the user or by signing out and in |

`MC*.tla` hold the values of the constants for the runs. Operators marked "Mutant" are changed
forms of the definition below them, used to confirm that a property notices the change; no
specification uses them.

## 3. The runs

| Run | Instance | What it shows |
|---|---|---|
| `extract_one_file` | 1 file, up to 3 lines, 2 ids, times 0 and 5, lines with and without an operation | what a stored file holds and is named, a call without failure is complete, every call ends, under every failure at every step |
| `extract_two_files` | 2 files of up to 2 lines, 2 ids, 1 time: every name collides | each line is stored once or accounted for; a `.corr` file has its `.dat` file |
| `build_once` | 2 files, 4 names of two overlapping correlations and an id like `42_42`, ids that differ in case, 1 thread, pages of 2, other model directories on either side, one with an id like `x_x`, a search of 2 hours | the listing callback, the groups and their times, the wait, the status queue, that no hour of a histogram is of an aborted build, the end of `run` |
| `build_again` | 1 file of 2 names, 2 submits at any time, pages of 1, 1 hour | a submit nothing went wrong with is complete whatever the other one leaves or still does |
| `search_one` | 1 search of up to 4 files of 2 paths, batches of 2, the second call sleeps | the final calls come after every batch; the page shows what was staged, a file for each name; the search ends; it is a `SearchPromise` |
| `search_overlap` | 2 searches of up to 1 file, the second submitted at any time | the count of batches stays right across searches; a search that does not overlap keeps its promise |
| `catalogue_calls` | 2 calls of any kind, a bucket of 3 objects, pages and batches of 2, a table that is absent, empty or holds files of two tenants | what an answer says about the table, the order of an import, what a removal deletes, and what can take a key out of the table |
| `client_page` | the loading of the page and 2 actions of the user; 3 files (a text, an archive, a storage name), 2 models, one saved with a query of 5 pieces, an input with a bar or without a tag, another user who saves | the spinner, the panels, the inputs, and that the page comes to rest |
| `search_results` | 2 batches of 3 files in all, up to 2 lines and 4 in all, 6 kinds of line, a limit of 3 | the bars are the events that were collected; the merged events are the staged ones |
| `extract_equal_names`, `delete_batches`, `merged_by_time` | as above | expected violations, [section 5](#5-where-the-code-differs-from-what-it-says) |

Between them the passing runs take every action of every module. Each of their properties has a
changed operator in the module (marked "Mutant") with which TLC finds it violated.

**Bounds.** `MaxLines = 3` is the shortest file with a segment that ends, another one, and the
first id again, which is what names, flushes and stale state need; a fourth line repeats one of
these steps. `Times = {0, 5}` gives an end after, equal to and before a start, and a nudge by 1
that no line's time equals. Two files with one time make any two names of an id equal.
`PageSize = 2` with four names and two of other directories puts a page's end inside a group and in
front of one, and the second page past the prefix.
`Threads = 1` lets a task wait behind another. `FileBatch = 1` with four files makes two full
batches, a shorter list one that is not; two paths make every case of a name that is in two buckets: in
one batch, in two, and of the first files of two. `ThrottleAt = 1` makes the second call sleep. `MaxRuns = 2` and
`MaxSearches = 2` are one more than a history-free instance. Two calls are what any of the catalogue's races needs: one that reads and one that writes in
between. Three objects in pages and batches of two make a full page and a full batch, and one of
each that is not; a name outside the prefix and one outside the mask are told apart, and two
objects of equal age and one that is older make the order of time differ from the order of names.
`BatchLimit = 1` and `MaxItems = 2` stand for 24 and 25: a batch is sent when it is as large as
the service allows, and one more item is too many. `MaxUnderWay` bounds the calls under
way at a second submit; in `search_overlap` it is above what can occur.
`MaxActions = 3` is the loading of the page and two actions, which is what a race on the page is
made of: two answers for one panel, a load and a save, a fallback beside a second file. The calls a
callback makes are of the action that led to it, so that the last answer of one action may come
after the other has ended; one action more repeats a race with other names. In `search_results` the lines
have the times of both ends of the range, which it excludes, and of both ends of a bucket; two lines
in one file and a second file in the batch are what order, limit and the tags of a batch need.
`UtfOrder` is `TRUE` in all runs of the build: the listing is in the order `Storage.java:51` demands.
Two hours are what a stop between two slices needs; a ladder and a histogram share them.

**Views.** `build_again`, `search_results` and `merged_by_time` have a `VIEW`. That of `build_again` leaves out what no
guard reads and its property does not name (the flows and what is stored of stage 3, the status
queue); that of the other two the lines of the files which have been searched, which nothing reads again
and of which only the type invariant speaks (they never change). States that are one in the view have the
same future as far as the properties can tell.

**Fairness.** An extraction is a sequential program: `WF(Step(f))`, which covers its failures as
well, says that it goes on; `Killed` is not fair. The runner's thread and its timer run:
`WF(Stages)`, where the wait can always time out, and `WF(Tick(r))`; nothing is assumed of the
pool's calls, the handlers or the client, which is the point of `RunEnds`. In a search
`WF(Advance)` says that the page's event loop goes on and a call is answered or fails in the end
(the browser ends it); since each such step takes a call nearer to its end and only a bounded
number follow from it, no call needs fairness of its own. Nothing is assumed of the user.
`WF(Endings)` says the same of the other calls of the page; it leaves out a download that is tried
again, which may fail for ever, and the chart library, which may never come. Here, too, no call needs
fairness of its own: a view has a bounded number of calls in front of it, and so has everything else.
`CHECK_DEADLOCK FALSE` is in every configuration because each system stops: calls have ended, the
last submit is done, the user leaves the page alone.

**What holds under which condition.** `FlowTimesOrdered` holds with the UTF-binary listing order only (the
theorem `FlowTimes` has it as its hypothesis), of flows of this model's files whose ids have no delimiter.
`FlowsPartitionListing` is about the callback: it holds of whatever was listed, and says nothing of what
the listing missed, which is `BuildComplete`. `SpinnerTellsTruth` and `LatestShown` are
exact as long as no two calls are side by side, or race for one panel; of those which do they say less
(`crowded`, `unsure`), since the page itself keeps no order among them.

## 4. The proofs

`DataflowExtractorProofs` proves, for any set of files, ids and times and any number of lines:

| Theorem | Statement |
|---|---|
| `TypeCorrect` | `Spec => []TypeOK` |
| `StoredNamesOrdered` | `Spec => []NamesOrdered`, the assumption of `WorkflowRunner` |
| `SegmentInvariant` | `Spec => [](TypeInv /\ SegmentInv)`, the inductive invariant |
| `CorrFilesAreSegments` | `Spec => []CorrFileIsASegment` |
| `NoLineTwice` | `Spec => []LinesStoredOnce` |
| `NoLineUnaccounted` | `Spec => []LinesAccountedFor` |
| `CompleteCalls` | `Spec => []CompleteWithoutFailure` |
| `FieldInvariant` | `Spec => []DatInv`, the inductive invariant about times and fields |
| `NamesSpanLines` | `Spec => []NameSpansLines` |
| `DatFilesDescribe` | `Spec => []DatDescribesSegment` |
| `DatFilesFollow` | `Spec => []CorrHasDat` |

The only assumption is `ExtractorAssumption` (the marker of a line without id is no id, times are
numbers). The argument:

1. `TypeOK` alone is not inductive: `OpenSegment` takes its id and time from the line read last.
   `HasPending` adds that a step which waits for a new segment has such a line with an id;
   `TypeInv` is both. The order of names is a fact about `EndTime` (`NameOfSegment`).
2. The properties about lines speak of the bucket, but what gets there comes from the temporary
   file of a call, possibly after several failures. `SegmentInv` therefore says
   - `Control`: which state of the temporary file goes with which point of the call;
   - `Segments`: what the temporary file holds is a segment of the current id, unless the call
     is past a failure, and the line read last is not in it while the next one is pending;
   - `Stored`: each `.corr` file is a segment of the id in its name, or a prefix of one
     (`SegmentPrefix`: a copy cut short is one still);
   - `LinesStoredOnce`, with `Fresh`: what a call has in an open temporary file is in no `.corr`
     file yet. Without `Fresh` nothing forbids the flush of the `finally` block from storing the
     segment a second time, under another name. It is the deletion of the temporary file
     after the copy, and `CorrMissing` after it, that keeps `Fresh`;
   - `Placed`: where each correlated line is.
3. `StepOfOneFile` says that a step of one call leaves the variables of the others; each conjunct
   has a lemma with one step per action (`ControlStep`, `SegmentsStep`, `StoredStep`, `FreshStep`,
   `OnceStep`, `PlacedStep`). The bucket is shared, so those about stored files also treat a file
   that one call replaces for another (`CopyStep`, `CopyAccounts`).
4. The times in a name and the fields of a `.dat` file are kept apart from the file they belong to,
   in `startTime`, `lastCorrelationTime` and `datData`. `DatInv` ties them together: `InHand` says
   that the times in hand are those of the first and the last line of the segment, and that the
   fields come from lines of its id, all of which the operations counter has seen; `DatStored` says
   the same of every `.dat` file. That `datData` is empty whenever a new segment is opened is the
   part which a missing reset would break, and the one without which `CorrHasDat` is not inductive.

`WorkflowRunnerProofs` proves, for any files and stored names, any size of the pool and of a page
and any number of submits:

| Theorem | Statement |
|---|---|
| `TypeCorrect` | `Spec => []TypeOK` |
| `HistoOfWholeBuilds` | `Spec => []HistoOfWholeBuild`, for every hour and submits side by side |
| `FlowsOfOneCorrelation` | `Spec => []FlowsAreGroups` |
| `FlowTimes` | `UtfOrder` gives `Spec => []FlowTimesOrdered`, of plain ids |
| `CompleteInvariant` | `Spec => [](TypeInv /\ CompleteInv)`, the inductive invariant of a complete build |
| `BuildsAreComplete` | `Spec => []BuildComplete` |
| `QueueIsDrained` | `Spec => []StatusDrained` |
| `FlowsPartition` | `Spec => []FlowsPartitionListing` |

from `WorkflowAssumption` and `NamesOrderedAssumption` (which is `StoredNamesOrdered` of the
extractor). `TypeInv` adds to `TypeOK` that the
model directory is finite: a page is a subset of the directory, and only a finite one has a
sequence of its names (`PageType`). `RunSteps` and `VisitSteps` say once what any step does to one run: it leaves its listing,
groups and flows alone and moves it on from one stage to the next (`Kept`, `Moves`), or it is a step of
its own listing; a crash, a handler, a timer or another submit is thereby dealt with in one case.
`StoredInv` says that a run in stage 3, and one of which an hour of a ladder or histogram is
stored, came to the end of its listing with no group in hand (`Over`). It stays there (`OverStays`),
and nobody stores in the name of another run (`StoresOwn`); with `Division`, by which the flows are
then the whole listing, that is `HistoOfWholeBuild`. `GroupInv` ties the open group to the last flow built.
`ListingInv` carries the order of the listing through the pages: what is in the group comes
before what is on the page, and a page that is fetched after more was stored in the directory
still begins after all that is listed (`PageOrder`). `TimesFound` says that the fields counted from
the end of a name are its times if its id is plain.

That a build sees every file follows from its three stages, one conjunct of `CompleteInv` each:
a handler that has ended has stored every name (`JobInv`); the build begins when no call of the
run is queued or under way, unless one failed or the wait timed out (`PoolInv`); and what is in the
directory is listed, or comes after all that is (`SeenInv`), since the pages follow the order of the
names. `NotYet` keeps an earlier submit's handlers apart from a later one's.

`FlowsPartitionListing` says at which place of the listing each file of each flow is, with
`FilesBefore` for the number of files in the flows before it: a count, and not the flows' files
flattened by recursion, about which the inductive step would need an induction of its own (`Division`). Its proof
needs nothing but that a step of the callback adds to the flows, the group or the page at their
ends (`PartitionHead` and its neighbours).

`FileCatalogueProofs` proves, for any calls side by side, any buckets, tenants and tables, and any
size of a page and a batch, from `CatalogueAssumption` (names and times are numbers, the names
and the loaded records are finitely many, an import names a bucket, a call about one file names
one):

| Theorem | Statement |
|---|---|
| `TypeCorrect` | `Spec => []TypeOK`, with the uniqueness of keys |
| `RemovesOnlyFound` | `Spec => OnlyFoundIsRemoved` |
| `UploadsListed` | `Spec => []UploadedIsListed` |
| `RemovalsComplete` | `Spec => []RemoveComplete` |
| `ImportsComplete` | `Spec => []ImportComplete` |
| `ImportsNewestFirst` | `Spec => []NewestPutFirst` |

`IInv` is what all of them rest on: what an import has in hand is its own records of keys it has
listed (`ImportShape`, without which two records of one key could be put at once), and what a
removal has in hand has keys it found (`RemoveShape`). `TableChange` says once what any step does
to the table; `KeyStays` follows, that a key leaves it by a delete or by a removal that found it,
and that is the part of `UploadedIsListed` and `ImportComplete` which other calls could disturb.
`RemoveComplete` speaks of records and not of keys, and would fail if a record that a removal has
deleted came back. `Spent` is why it does not: what is in the table or was found there is from a
call that will not put it again, and a record that comes in is from one that would have
(`NewRecords`). The same fact serves the order of an import: until it sends a batch, no record of
its own is in the table. `ListingInOrder` carries the order of keys through the pages
(`FirstKeys`, `PageOrder`), so that the last page leaves out nothing under the prefix, and
`FirstNewest` that of times through the batches.

`SearchSessionProofs` proves, for any listing, any size of a batch and of the throttle and any number
of searches, from `SearchAssumption`:

| Theorem | Statement |
|---|---|
| `TypeCorrect` | `Spec => []TypeOK` |
| `BatchesAreCounted` | `Spec => []CountsBatches` |
| `MergedAfterBatches` | `Spec => []FinalAfterBatches` |
| `PromiseIsKept` | `Spec => KeepsPromise`, the refinement |

`TypeInv` is the type invariant with what counting needs: the calls are a finite set, no two of its
batches are one (`CallInv`: the batches of a list have different files, and a list is received once),
and `CountsBatches` itself, without which `count` might go below zero. For the rest, the calls of a
search that is alone must be told from what an overlapped one left behind. `MixedInv` says that a
call is of the last search or of one in `mixed`. `LoneInv` describes a last search that is not:
while the list is under way there is no other call (`LoneCalls`); the files of its batches are
disjoint, and with the results there are they are never more than the files it has found
(`LoneBatches`); its final calls are there only when the results are, and there is one for the events
until they are shown (`LoneEnd`). `SumOf` is a cardinality and not a recursive sum, so that the sum
of results that are appended needs no induction. With `SearchInv == TypeInv /\ MixedInv /\
LoneInv` a submit maps to `Ask`, a list to `Find`, results to `Answer`, events to `Show`, or to a
stutter of `SearchPromise` as every other step does: one lemma for each.

`SearchShownProofs` builds on it, for the same constants:

| Theorem | Statement |
|---|---|
| `ShownIsWhole` | `Spec => []ShownWhole` |
| `ChartIsWhole` | `Spec => []ChartWhole` |

`StagedInv` adds the staging directory of a lone search. A batch that was not served has searched
nothing, and one that was answers how many of its files were searched to the end (`BatchesStaged`); once every
result is in, their sum is the number of those files that no batch still waits for
(`ResultsStaged`); under a name in the directory is a file, or a batch, of that name which was put there,
and there is one for every name something was put under, whichever replaced which
(`NamesStaged`). From these follows that what the final calls are answered with, and what the page
then shows, is what is staged but for what the merge left out (`EndStaged`). Before the list has come there is nothing of the search in
the directory. `search = listed` tells the two cases apart, and `search \notin mixed` leaves out the
searches that another one overlaps.

`SearchResultsProofs` proves, for any batches, tags and fields, any lines and any number of
them, and any range, minute, bucket and limit, from `ResultsAssumption` (the batches are not empty
and share no file, the fields are finitely many, a bucket is a number of minutes):

| Theorem | Statement |
|---|---|
| `TypeCorrect` | `Spec => []TypeOK` |
| `ChartIsTheEvents` | `Spec => []ChartCountsEvents` |
| `MergeIsWhole` | `Spec => []MergedWhole` |

`ResultsInv` relates the counts to the events they count. `FilesInv` says what an event file, and what was
counted of a file, can have: events that are kept, with growing line numbers, of which at most one is staged
and not counted (`OneAhead`, `AheadIs`). `HistoInv` says that each count of a batch's histogram
is the number of the collected events of the batch, the key and the bucket; it is kept because a file
is searched once, which is `DoneInv`. `AnswersInv` has the two properties with what makes them last: no file is
searched after an answer. The rest is about the operators. `Those` and `FlattenSeq` are
described by where each element of the result is from (`Chosen`, `Laid`), which gives the elements and their
order; `SumOfCards` says that a sum of the sizes of sets with nothing in common is the size of
their union, twice used for a bar: over the batches and over the fields. `IndexIs` and
`IndexInBuckets` are the arithmetic of a bucket: a time in the range is in exactly one, also the last
one, because both ends of the buckets are whole minutes and the time is before the end of the range.

**Data of any length.** The induction theorems of the library take an operator and cannot be used
here. What `Those`, `FlattenSeq` and `SumFunction` do is proved all the same: their recursion is a
function, the function that meets its equation is shown to exist up to every length, and the set of the
lengths for which the claim holds contains 0 and with every number the next one. `Induction`
says that such a set is `Nat`; it follows from the least element of the rest (`LeastOf`), and that from
`WFMin` of the library. `SelectSeq` and the folds that take an operator do not allow it, which is why
`SearchResults` has `Those` and `SumFunction` instead.

`ClientProofs` proves, for any files, models and queries and any number of actions, from the
assumptions of the four modules:

| Theorem | Statement |
|---|---|
| `TypeCorrect` | `Spec => []TypeOK` |
| `SpinnerIsTrue` | `Spec => []SpinnerTellsTruth` |
| `LatestIsShown` | `Spec => []LatestShown` |
| `LoadedIsStored` | `Spec => []LoadedQueryKept` |

Each of the three has an invariant of its own. `SpinnerInv` adds that two calls under way are
`crowded`. `PanelInv` adds that a call for a panel is the last one that was asked for, unless the panel
is in `unsure`, and that a bar chart without its library has nothing to lose to the made-up data;
`ViewInv` ties a view of a file to its call, which no other view has. `LoadInv` adds what makes a
load safe to fill in: no save of its model is under way, and what it was answered is still stored; and
a save under way of the model in the inputs has a query that is cut into these inputs, so that it may come late.
That a query of four pieces is saved as it was loaded is a fact about `Join` and `Split` (`JoinOfSplit`). The calls
of `Page` (`Ask`, `Send`, `End`, `GiveUp`) have lemmas of their own, which the steps of the three
parts cite.

**Model-checked only.** Every safety property of a passing run, and the refinement, is a theorem for
all values of the constants. What is left to TLC is liveness: `EveryCallEnds`, `RunEnds`, `SearchEnds` and
`PageSettles` speak of fairness, and so of `ENABLED`, which is out of the prover's reach. The
assumptions on the constants are checked by TLC on every instance, and each is one the code makes
true or, like the order of the listing in `FlowTimes`, is a hypothesis of the theorem.

## 5. Where the code differs from what it says

| Run | Property | What happens |
|---|---|---|
| `extract_equal_names` | `NoLineLost` | two segments of one id with equal times have one name; the later `.corr` file replaces the earlier one (`DataflowExtractor.java:162`) |
| `merged_by_time` | `MergedByTime` | "Splices together raw event files by the timestamp": the least entry is never looked for, and the events come one file after the other (`LineByLineEventAggregator.java:34`, `:147`) |
| `delete_batches` | `BatchWithinLimit` | "break into chunks of 25": a delete batch that failed is kept, the next item is added to it, and from then on the service refuses it for its size (`AwsQueryService.java:145`) |

What the models show of the code besides, and no run states as a property:

- Files are grouped by adjacency in a listing by start time, so that a correlation which overlaps
  another in time gets several flows (`WorkflowRunner.java:189`); `FlowsAreGroups` is what holds.
- The file system's listing sorts a copy and uses the original, against "MANDATORY: List in
  UTF-binary order" (`FileSystemBasedStorageService.java:157`, `Storage.java:51`). Without that order
  `FlowTimesOrdered` fails: set `UtfOrder = FALSE` in the run `build_once`, and `PageSize = 6`, since the
  file system has no pages.
- An id with the delimiter in it, such as `42_x`, has a flow with the end of its file for a start, and one
  such as `x_x` ends the build (`DataflowModeller.java:41`); `FlowTimesOrdered` leaves these ids out.
- The hours of a ladder or histogram are stored one by one, so that a stop between two of them, or a
  stream's exception, leaves hours of an older build beside new ones (`WorkflowRunner.java:142`).
- The end of a flow is the end of its last file, not the latest end of its files (`FlowInfo.java:99`).
- Files of different buckets with one path have one name in the staging directory, and one replaces
  the other (`Search.java:147`); an object S3 did not take at `close`, and a download that failed, are
  left out without an error (`AwsS3StorageService.java:453`, `:401`). `ShownWhole`, `ChartWhole` and
  `ChartCountsEvents` say what is still true of the page then.
- An input of the refinery with a bar in it comes back as other inputs, and what follows the fourth bar
  is gone with the next save (`refinery/vue.js:141`).
- From its second page on an S3 listing has no prefix, and another model's files enter the flows
  (`AwsS3StorageService.java:91`); they are in `Left`, and `FlowTimesOrdered` leaves them out.
- An archive is downloaded again from a path without the offset the service asks for
  (`backend.js:91`), and what the service answers to it is taken for the archive; the download link of the explorer lacks the offset too (`backend.js:191`).
- A click on a bar of the search chart asks for the events after the start of the bucket, and so
  without those exactly at it.
- `fail` is no option of `jQuery.ajax` (`search/backend.js:111`, `refinery/backend.js:48`): such a
  failure leaves the spinner, and the count of batches, as they are.
- The refinery's Load button and the return key call a `loadModel` that is not defined
  (`refinery/vue.js:132`): only the choice of a suggested name loads a model, which is `PickModel`.
- The heat map's last column has no second time, since the handler reads the next column's.

Besides, two models have behaviours that no text of the repository rules out, so that no run
claims otherwise. In the catalogue, an import's count includes the items of batches that failed
(`missed`), an upload whose object S3 did not take is answered like any other (`unwritten`), and
a removal ignores the bucket it is given and takes all the tenant's files that match the mask.
In the search, results of
an overlapped search are counted to the next one (`mixed`), and a search one of whose calls
fails, or that matches no file, shows nothing, with no message (`failed`, `SearchEnds`).

## 6. What is not modelled

- Text: search expressions, matchers, field extraction, JSON convertors. Whether a line matches,
  its id and its time are inputs.
- The arithmetic of guessed times (`DateUtil`, `DateTimeExtractor`): a line's time is any of
  `Times`, in any order.
- Flow statistics, the values of the ladder and the series functions other than the count; the overlay
  of a day, and what the charts make of an answer. Of `slice` there is that each hour is an object.
- The catalogue of the other deployments: `RocksDBQueryService` with the file system, and the
  fixtures. In the one on AWS: a query or a scan of the table is one step, although it reads in
  pages; the bucket that is imported does not change meanwhile; the limits of 200000 results and
  10000 pages are out of the reach of an instance; the reads (`find`, `get`, `download`) change
  nothing. A file that is uploaded twice replaces its record and its object, whoever sends it.
- How the downloads of `getInputStreams` run beside each other and their wait of a minute: that any of them
  may be missing is in `SearchSession`; in `SearchResults` such a file is like one lost at `close`.
- The read side of `DataflowResource`: the lists it answers are whatever a view draws.
- In the client: the spinner of a search (`Client` has the other calls; a search that runs beside them
  is one more of those that make it `crowded`), the race of a click on a bar of the search chart with
  the next search, the upload form and the download link, which keep nothing on the page, the zoom of
  the editor, the hover links of a search result, autocompletion, and the age of a session.
- Server wiring, JSON convertors, the data generator.
- Third-party and experimental client code: the three vendored builds of uPlot under
  `trial/uplot/uplot`, which are two thirds of the repository's JavaScript, the trial pages around
  them, the jQuery transports, and the chart options, made-up series and tables of text in what the
  repository wrote itself. The modules are mapped to the code that keeps and changes state, in
  JavaScript and, for the larger part, in Java; a large share of the JavaScript has none.

## 7. What could follow

1. An abstract catalogue - a map from keys to records that calls change atomically, or in part if
   one fails - with `FileCatalogue` as its implementation, and the RocksDB and file-system
   deployment as other values of `OneAnswer` and `Outcome`.
2. That `SearchSession` abstracts `SearchResults`: a file that is whole there has all its events here.
3. The safety part of the four liveness properties: for each a measure that every fair step makes
   smaller, proved to do so, so that only the last step of the argument is left to TLC.
4. The file system's listing, with `UtfOrder = FALSE`: what a build makes of it.
5. The flow statistics and the ladder, as `SearchResults` has the histogram of a search.
