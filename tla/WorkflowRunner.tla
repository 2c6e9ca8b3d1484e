--------------------------- MODULE WorkflowRunner ---------------------------
(***************************************************************************)
(* The build of a dataflow model: services/dataflow/WorkflowRunner, the    *)
(* REST calls it fans out (DataflowResource) and the listing of the model  *)
(* directory (AwsS3StorageService, FileSystemBasedStorageService).         *)
(*                                                                         *)
(* Stage 1 submits one task per source file to a pool.  A task calls a     *)
(* remote function, the job, that runs DataflowExtractor on the file and   *)
(* stores its .corr files one after the other.  The runner waits for the   *)
(* pool, but no longer than 15 minutes.  Stage 2 lists the model           *)
(* directory, collects adjacent .corr files of one correlation in a group  *)
(* and writes a flow for each group.  Stage 3 stores the ladder and then   *)
(* the histogram of all the flows, one object for each hour of the search. *)
(*                                                                         *)
(* Every submit of the model has a runner of its own, and nothing keeps a  *)
(* client from submitting while an earlier run, or what a stopped one left *)
(* of its jobs, goes on: the runs share the model directory.               *)
(***************************************************************************)
EXTENDS Integers, Sequences, FiniteSets, SequencesExt

CONSTANTS
  Files,      \* the source files the search matches
  ListLimit,  \* DataflowBuilder.limitList: at most so many are taken
  Keys,       \* correlation ids
  KeyRank,    \* their UTF-binary order
  Words,      \* what stands between two of Model.DELIM in an id
  Parts,      \* the words of an id: more than one if the id contains the delimiter
  Lower,      \* a word as equalsIgnoreCase sees it
  Number,     \* the number Long.parseLong makes of a word
  NaN,        \* what is no number
  Segments,   \* the names DataflowExtractor stores of a file, in order
  Foreign,    \* the .corr files of the other model directories
  Slices,     \* the hours of each submit's search, one object of stage 3 for each
  Threads,    \* N_THREADS
  PageSize,   \* objects of one page of a bucket listing
  UtfOrder,   \* whether the storage lists in UTF-binary order
  MaxRuns     \* bound: submits of the model

Runs == 1 .. MaxRuns
Calls == Runs \X Files

\* The name of a .corr file: its directory, the start and the end time and the id.
\* Directory 1 is the model's; the names of 0 and 2 begin like it (the path of a model
\* has no slash at its end), one sorts before it and one after; 3 comes after them.
\* Times have the same number of digits, so that their UTF-binary order is their
\* numeric order.
Name == (0 .. 3) \X Nat \X Nat \X Keys
KeyOf(n) == n[4]
StartOf(n) == n[2]
EndOf(n) == n[3]

ASSUME WorkflowAssumption ==
  /\ ListLimit \in Nat
  /\ KeyRank \in [Keys -> Nat]
  /\ Parts \in [Keys -> Seq(Words) \ {<<>>}]
  /\ Lower \in [Words -> Words]
  /\ NaN \notin Int
  /\ Number \in [Words -> Int \cup {NaN}]
  /\ Segments \in [Files -> Seq(Name)]
  /\ Foreign \subseteq Name /\ IsFiniteSet(Foreign)
  /\ Slices \in [Runs -> Seq(Nat)]
  /\ Threads \in Nat \ {0}
  /\ PageSize \in Nat \ {0}
  /\ UtfOrder \in BOOLEAN
  /\ MaxRuns \in Nat

\* DataflowExtractor!NamesOrdered, which stage 2 relies on.
ASSUME NamesOrderedAssumption ==
  /\ \A f \in Files : \A i \in DOMAIN Segments[f] :
       Segments[f][i][1] = 1 /\ StartOf(Segments[f][i]) < EndOf(Segments[f][i])
  /\ \A n \in Foreign : n[1] # 1 /\ StartOf(n) < EndOf(n)

VARIABLES
  \* by run
  pc,       \* where the runner of the submit stands
  taken,    \* the files dfBuilder.listFiles returned
  status,   \* statusQueue's length
  ticking,  \* whether the scheduler drains it
  listing,  \* the names listed so far, in the order listed
  page,     \* those of the current page that are not processed yet
  more,     \* the next page of the listing: "first", "more" or "none"
  group,    \* correlationFileSet
  built,    \* the flows handed to the histogram collector, in order
  slice,    \* the slices of the ladder, then of the histogram, that are dealt with
  \* by run and file
  task,     \* the pool's tasks
  job,      \* the remote calls' handlers
  pos,      \* the .corr files a handler has stored
  \* the model directory
  bucket,   \* its .corr files
  flows,    \* its .flow files, by name
  ladder,   \* its .ladder files, by hour: the run that stored it, 0 if none or unreadable
  histo,    \* its .histo files, likewise
  \* history
  troubled, \* runs with a failed, late or stopped part
  aborted   \* runs an exception ended

poolVars == <<taken, task>>
jobVars == <<job, pos, bucket>>
queueVars == <<status, ticking>>
buildVars == <<listing, page, more, group, built>>
modelVars == <<flows, slice, ladder, histo>>
historyVars == <<troubled, aborted>>
vars == <<pc, poolVars, jobVars, queueVars, buildVars, modelVars, historyVars>>

Hours == UNION {Range(Slices[r]) : r \in Runs}

Init ==
  /\ pc = [r \in Runs |-> "idle"]
  /\ taken = [r \in Runs |-> {}]
  /\ task = [c \in Calls |-> "none"]
  /\ job = [c \in Calls |-> "none"]
  /\ pos = [c \in Calls |-> 0]
  /\ status = [r \in Runs |-> 0]
  /\ ticking = [r \in Runs |-> FALSE]
  /\ bucket = {}
  /\ more = [r \in Runs |-> "first"]
  /\ listing = [r \in Runs |-> <<>>] /\ page = listing /\ group = listing /\ built = listing
  /\ slice = [r \in Runs |-> 0]
  /\ flows = <<>>
  /\ ladder = [h \in Hours |-> 0] /\ histo = ladder
  /\ troubled = {} /\ aborted = {}

Goes(r, from, to) ==
  /\ pc[r] = from
  /\ pc' = [pc EXCEPT ![r] = to]

-----------------------------------------------------------------------------
(* Stage 1: the pool, its REST calls and their handlers *)

InPool(r, st) == {f \in Files : task[<<r, f>>] = st}

\* The submits are numbered as they come.
Begins(r, at) ==
  /\ \A q \in 1 .. r - 1 : pc[q] # "idle"
  /\ Goes(r, "idle", at)
  /\ ticking' = [ticking EXCEPT ![r] = TRUE]

\* A new WorkflowRunner with its own queue, scheduler and pool: the matching files,
\* no more than the limit, are submitted to the pool.  Whether another run of the
\* model goes on is not asked.
Submit(r) ==
  /\ Begins(r, "extract")
  /\ \E S \in SUBSET Files :
       /\ Cardinality(S) = Min({ListLimit, Cardinality(Files)})
       /\ taken' = [taken EXCEPT ![r] = S]
       /\ task' = [c \in Calls |-> IF c[1] = r /\ c[2] \in S THEN "queued" ELSE task[c]]
  /\ UNCHANGED <<jobVars, status, buildVars, modelVars, historyVars>>

\* listFiles fails: nothing is submitted to the pool.
SubmitFails(r) ==
  /\ Begins(r, "drain")
  /\ aborted' = aborted \cup {r}
  /\ UNCHANGED <<poolVars, jobVars, status, buildVars, modelVars, troubled>>

\* A thread of the pool takes a task and sends its request.
CallStarts(r, f) ==
  /\ task[<<r, f>>] = "queued"
  /\ Cardinality(InPool(r, "calling")) < Threads
  /\ task' = [task EXCEPT ![<<r, f>>] = "calling"]
  /\ job' = [job EXCEPT ![<<r, f>>] = "sent"]
  /\ UNCHANGED <<pc, taken, pos, bucket, queueVars, buildVars, modelVars, historyVars>>

\* rewriteCorrelationDataS returns the handler's answer or, for any exception, a
\* message; the task queues either and counts the file as rewritten.
TaskEnds(r, f) ==
  /\ task[<<r, f>>] = "calling"
  /\ task' = [task EXCEPT ![<<r, f>>] = "ended"]
  /\ status' = [status EXCEPT ![r] = @ + 1]

CallReturns(r, f) ==
  /\ job[<<r, f>>] = "ended"
  /\ TaskEnds(r, f)
  /\ UNCHANGED <<pc, taken, jobVars, ticking, buildVars, modelVars, historyVars>>

\* The connection fails or the answer is lost: the handler may go on, or start yet.
CallFails(r, f) ==
  /\ TaskEnds(r, f)
  /\ troubled' = troubled \cup {r}
  /\ UNCHANGED <<pc, taken, jobVars, ticking, buildVars, modelVars, aborted>>

JobMoves(r, f, from, to) ==
  /\ job[<<r, f>>] = from
  /\ job' = [job EXCEPT ![<<r, f>>] = to]
  /\ UNCHANGED <<pc, poolVars, queueVars, buildVars, modelVars, aborted>>

JobStarts(r, f) == JobMoves(r, f, "sent", "running") /\ UNCHANGED <<pos, bucket, troubled>>

\* DataflowExtractor's next StoreCorr.
JobStores(r, f) ==
  /\ pos[<<r, f>>] < Len(Segments[f])
  /\ JobMoves(r, f, "running", "running")
  /\ pos' = [pos EXCEPT ![<<r, f>>] = @ + 1]
  /\ bucket' = bucket \cup {Segments[f][pos'[<<r, f>>]]}
  /\ UNCHANGED troubled

JobEnds(r, f) ==
  /\ pos[<<r, f>>] = Len(Segments[f])
  /\ JobMoves(r, f, "running", "ended")
  /\ UNCHANGED <<pos, bucket, troubled>>

\* The extraction fails part way: the handler catches it and answers all the same.
JobFails(r, f) ==
  /\ JobMoves(r, f, "running", "ended")
  /\ troubled' = troubled \cup {r}
  /\ UNCHANGED <<pos, bucket>>

\* The request is lost, or the function that serves it is stopped.
JobDies(r, f) ==
  /\ \E st \in {"sent", "running"} : JobMoves(r, f, st, "dead")
  /\ troubled' = troubled \cup {r}
  /\ UNCHANGED <<pos, bucket>>

\* Mutant: the wait is over when every task has a thread.
PoolStarted(r) == \A f \in taken[r] : task[<<r, f>>] # "queued"

PoolOver(r) == \A f \in taken[r] : task[<<r, f>>] = "ended"

\* Stage 2 starts, with its variables as they are in a new runner.
StartBuild(r) ==
  /\ Goes(r, "extract", "build")
  /\ UNCHANGED <<poolVars, jobVars, queueVars, buildVars, modelVars, aborted>>

PoolTerminates(r) ==
  /\ PoolOver(r)
  /\ StartBuild(r)
  /\ UNCHANGED troubled

\* Mutant: the wait has no limit.
AwaitForever(r) == FALSE

\* awaitTermination's result is not looked at, and the pool goes on.
AwaitTimesOut(r) ==
  /\ ~PoolOver(r)
  /\ StartBuild(r)
  /\ troubled' = troubled \cup {r}

-----------------------------------------------------------------------------
(* Stage 2: the listing and its callback *)

Before(m, n) ==
  \/ m[1] < n[1]
  \/ m[1] = n[1] /\ StartOf(m) < StartOf(n)
  \/ m[1] = n[1] /\ StartOf(m) = StartOf(n) /\ EndOf(m) < EndOf(n)
  \/ m[1] = n[1] /\ StartOf(m) = StartOf(n) /\ EndOf(m) = EndOf(n)
       /\ KeyRank[KeyOf(m)] < KeyRank[KeyOf(n)]

Orders(S) ==
  {p \in SetToSeqs(S) : UtfOrder => \A i, j \in DOMAIN p : i < j => Before(p[i], p[j])}

\* What is left to list.  The first request carries the path of the model, without a
\* slash at its end, as its prefix; a continuation request carries the token only, and
\* goes on with whatever the bucket holds after the last name of the page before.
Left(r) ==
  IF more[r] = "first"
    THEN bucket \cup {n \in Foreign : n[1] # 3}
    ELSE {n \in bucket \cup Foreign : \A i \in DOMAIN listing[r] : Before(listing[r][i], n)}

FetchPage(r) ==
  /\ pc[r] = "build"
  /\ page[r] = <<>>
  /\ more[r] # "none"
  /\ \E S \in kSubset(Min({PageSize, Cardinality(Left(r))}), Left(r)) :
       /\ \A m \in S, n \in Left(r) \ S : Before(m, n)
       /\ \E p \in Orders(S) :
            /\ page' = [page EXCEPT ![r] = p]
            /\ listing' = [listing EXCEPT ![r] = @ \o p]
       /\ more' = [more EXCEPT ![r] = IF S = Left(r) THEN "none" ELSE "more"]
  /\ UNCHANGED <<pc, poolVars, jobVars, queueVars, group, built, modelVars, historyVars>>

\* split[3] of a file name: an id with the delimiter is known by its first word.
FirstWord(n) == Parts[KeyOf(n)][1]

\* Mutant: one group for each directory.
SameDirectory(m, n) == m[1] = n[1]

SameGroup(m, n) == Lower[FirstWord(m)] = Lower[FirstWord(n)]

\* The file joins the group of the file before it.
VisitSame(r) ==
  /\ pc[r] = "build"
  /\ page[r] # <<>>
  /\ group[r] # <<>> => SameGroup(Head(page[r]), group[r][1])
  /\ group' = [group EXCEPT ![r] = Append(@, Head(page[r]))]
  /\ page' = [page EXCEPT ![r] = Tail(@)]
  /\ UNCHANGED <<pc, poolVars, jobVars, queueVars, listing, more, built, modelVars, historyVars>>

\* What stands between the delimiters of a file name after its prefix, the last of it
\* being the suffix: numbers where there are.
Fields(n) ==
  LET words == Parts[KeyOf(n)]
  IN <<StartOf(n), EndOf(n)>> \o [i \in DOMAIN words |-> Number[words[i]]] \o <<NaN>>

\* The times of a name are found by counting delimiters from its end: in a name whose id
\* has one they are its end and the second word of the id.
StartIn(n) == Fields(n)[Len(Fields(n)) - 3]
EndIn(n) == Fields(n)[Len(Fields(n)) - 2]

\* Every one of them is a number; parseLong throws otherwise.
Parseable(g) == \A i \in DOMAIN g : StartIn(g[i]) \in Int /\ EndIn(g[i]) \in Int

\* Mutant: the end is taken from the start's place in the durations.
FlowOfStarts(g) ==
  [key |-> FirstWord(g[1]), files |-> g, start |-> StartIn(g[1]), end |-> StartIn(g[Len(g)])]

\* FlowInfo: the files, the start of the first and the end of the last of them.
FlowOf(g) ==
  [key |-> FirstWord(g[1]), files |-> g, start |-> StartIn(g[1]), end |-> EndIn(g[Len(g)])]

FlowName(f) == <<f.start, f.end, f.key>>

\* The flow of the group is added to the histograms, then stored; the storage's
\* exceptions are caught here.
WriteFlow(r) ==
  LET f == FlowOf(group[r]) IN
    /\ Parseable(group[r])
    /\ built' = [built EXCEPT ![r] = Append(@, f)]
    /\ flows' \in {flows,
                   [n \in DOMAIN flows \cup {FlowName(f)} |->
                      IF n = FlowName(f) THEN f ELSE flows[n]]}

\* The file is the first of another group: the flow of the last one is written.
VisitOther(r) ==
  /\ pc[r] = "build"
  /\ page[r] # <<>> /\ group[r] # <<>>
  /\ ~SameGroup(Head(page[r]), group[r][1])
  /\ WriteFlow(r)
  /\ group' = [group EXCEPT ![r] = <<Head(page[r])>>]
  /\ page' = [page EXCEPT ![r] = Tail(@)]
  /\ UNCHANGED <<pc, poolVars, jobVars, queueVars, listing, more, slice, ladder, histo,
                 historyVars>>

\* The listing's callback has seen everything.
EndsListing(r) ==
  /\ Goes(r, "build", "ladder")
  /\ page[r] = <<>> /\ more[r] = "none"
  /\ group' = [group EXCEPT ![r] = <<>>]
  /\ status' = [status EXCEPT ![r] = @ + 1]
  /\ UNCHANGED <<poolVars, jobVars, ticking, listing, page, more, slice, ladder, histo,
                 historyVars>>

\* Mutant: no flow for the last group.
LastFlowDropped(r) == EndsListing(r) /\ UNCHANGED <<built, flows>>

\* The listing is over: the flow of the last group.
LastFlow(r) ==
  /\ EndsListing(r)
  /\ IF group[r] = <<>> THEN UNCHANGED <<built, flows>> ELSE WriteFlow(r)

\* Mutant: the exception is caught before stage 3.
AbortCaught(r) ==
  /\ \E st \in {"build", "ladder", "histo"} : Goes(r, st, "ladder")
  /\ aborted' = aborted \cup {r}
  /\ UNCHANGED <<poolVars, jobVars, queueVars, buildVars, modelVars, troubled>>

\* An exception of the storage, between two pages, flows or slices, or of a file name
\* that does not parse, ends the stages.
Abort(r) ==
  /\ \E st \in {"build", "ladder", "histo"} : Goes(r, st, "drain")
  /\ aborted' = aborted \cup {r}
  /\ UNCHANGED <<poolVars, jobVars, queueVars, buildVars, modelVars, troubled>>

-----------------------------------------------------------------------------
(* Stage 3 and the end of run() *)

\* The next slice is stored in place of what was there, or is not: an exception of the
\* stream, which is caught, leaves the earlier object or one that cannot be read.
Written(stored, r) ==
  LET h == Slices[r][slice[r] + 1] IN {stored, [stored EXCEPT ![h] = r], [stored EXCEPT ![h] = 0]}

NextSlice(r, at) ==
  /\ pc[r] = at
  /\ slice[r] < Len(Slices[r])
  /\ slice' = [slice EXCEPT ![r] = @ + 1]

StoreLadder(r) ==
  /\ NextSlice(r, "ladder")
  /\ ladder' \in Written(ladder, r)
  /\ UNCHANGED <<pc, poolVars, jobVars, queueVars, buildVars, flows, histo, historyVars>>

StoreHisto(r) ==
  /\ NextSlice(r, "histo")
  /\ histo' \in Written(histo, r)
  /\ UNCHANGED <<pc, poolVars, jobVars, queueVars, buildVars, flows, ladder, historyVars>>

LastSlice(r) ==
  /\ slice[r] = Len(Slices[r])
  /\ Goes(r, "ladder", "histo") \/ Goes(r, "histo", "drain")
  /\ slice' = [slice EXCEPT ![r] = 0]
  /\ UNCHANGED <<poolVars, jobVars, queueVars, buildVars, flows, ladder, histo, historyVars>>

\* The scheduler is shut down.
Ends(r) ==
  /\ Goes(r, "drain", "done")
  /\ ticking' = [ticking EXCEPT ![r] = FALSE]
  /\ UNCHANGED <<poolVars, jobVars, buildVars, modelVars, historyVars>>

\* Mutant: without a last drain.
ShutdownUndrained(r) == Ends(r) /\ UNCHANGED status

\* Mutant: one message is taken, whether there is one or not.
DrainOne(r) == Ends(r) /\ status' = [status EXCEPT ![r] = @ - 1]

\* drainStatusQueue, then scheduler.shutdown.
FinalDrain(r) == Ends(r) /\ status' = [status EXCEPT ![r] = 0]

\* The scheduler's drainStatusQueue, every 100 ms.
Tick(r) ==
  /\ ticking[r]
  /\ status[r] > 0
  /\ status' = [status EXCEPT ![r] = 0]
  /\ UNCHANGED <<pc, poolVars, jobVars, ticking, buildVars, modelVars, historyVars>>

\* The process of the runner stops, with its pool and its scheduler.  The handlers
\* run elsewhere.
Crash(r) ==
  /\ pc[r] \notin {"idle", "done", "stopped"}
  /\ pc' = [pc EXCEPT ![r] = "stopped"]
  /\ task' = [c \in Calls |->
                IF c[1] = r /\ task[c] \in {"queued", "calling"} THEN "none" ELSE task[c]]
  /\ status' = [status EXCEPT ![r] = 0]
  /\ ticking' = [ticking EXCEPT ![r] = FALSE]
  /\ troubled' = troubled \cup {r}
  /\ UNCHANGED <<taken, jobVars, buildVars, modelVars, aborted>>

Pool(r, f) == CallStarts(r, f) \/ CallReturns(r, f) \/ CallFails(r, f)

Handler(r, f) ==
  JobStarts(r, f) \/ JobStores(r, f) \/ JobEnds(r, f) \/ JobFails(r, f) \/ JobDies(r, f)

Stages(r) ==
  \/ PoolTerminates(r)
  \/ AwaitTimesOut(r)
  \/ FetchPage(r)
  \/ VisitSame(r)
  \/ VisitOther(r)
  \/ LastFlow(r)
  \/ Abort(r)
  \/ StoreLadder(r)
  \/ StoreHisto(r)
  \/ LastSlice(r)
  \/ FinalDrain(r)

Next ==
  \E r \in Runs :
    \/ Submit(r)
    \/ SubmitFails(r)
    \/ \E f \in Files : Pool(r, f) \/ Handler(r, f)
    \/ Stages(r)
    \/ Tick(r)
    \/ Crash(r)

\* The thread that runs run() is scheduled and its timer goes off; nothing is
\* assumed of the network, of the handlers or of the client.
Spec == Init /\ [][Next]_vars /\ \A r \in Runs : WF_vars(Stages(r)) /\ WF_vars(Tick(r))

-----------------------------------------------------------------------------
(* Properties *)

Flow == [key : Words, files : Seq(Name), start : Int, end : Int]

\* Every variable has its type.
TypeOK ==
  /\ pc \in [Runs -> {"idle", "extract", "build", "ladder", "histo", "drain", "done", "stopped"}]
  /\ taken \in [Runs -> SUBSET Files]
  /\ task \in [Calls -> {"none", "queued", "calling", "ended"}]
  /\ job \in [Calls -> {"none", "sent", "running", "ended", "dead"}]
  /\ pos \in [Calls -> Nat]
  /\ status \in [Runs -> Nat]
  /\ ticking \in [Runs -> BOOLEAN]
  /\ bucket \subseteq Name
  /\ listing \in [Runs -> Seq(Name)]
  /\ page \in [Runs -> Seq(Name)]
  /\ more \in [Runs -> {"first", "more", "none"}]
  /\ group \in [Runs -> Seq(Name)]
  /\ built \in [Runs -> Seq(Flow)]
  /\ DOMAIN flows \subseteq Int \X Int \X Words
  /\ \A n \in DOMAIN flows : flows[n] \in Flow
  /\ slice \in [Runs -> Nat]
  /\ ladder \in [Hours -> 0 .. MaxRuns]
  /\ histo \in [Hours -> 0 .. MaxRuns]
  /\ troubled \subseteq Runs
  /\ aborted \subseteq Runs

\* The files of the flows of a run before the i-th.
FilesBefore(r, i) == Cardinality(UNION {{a} \X DOMAIN built[r][a].files : a \in 1 .. i - 1})

\* The callback of the listing neither drops a file nor takes one twice, at the
\* change of a group, at the end of a page or at the end of the listing: the flows
\* in the order they were built, then the group in hand and the rest of the page,
\* are the listing (buildDataFlowIndexForCorrelations).
FlowsPartitionListing ==
  \A r \in Runs :
    LET n == FilesBefore(r, Len(built[r]) + 1) IN
      /\ Len(listing[r]) = n + Len(group[r]) + Len(page[r])
      /\ \A i \in DOMAIN built[r] : \A j \in DOMAIN built[r][i].files :
           listing[r][FilesBefore(r, i) + j] = built[r][i].files[j]
      /\ \A j \in DOMAIN group[r] : listing[r][n + j] = group[r][j]
      /\ \A j \in DOMAIN page[r] : listing[r][n + Len(group[r]) + j] = page[r][j]

\* A flow's files are all of its correlation, and two consecutive flows are not.
FlowsAreGroups ==
  \A r \in Runs :
    /\ \A i \in DOMAIN built[r] : \A j \in DOMAIN built[r][i].files :
         Lower[FirstWord(built[r][i].files[j])] = Lower[built[r][i].key]
    /\ \A i \in 1 .. Len(built[r]) - 1 : Lower[built[r][i].key] # Lower[built[r][i + 1].key]

\* The files of a flow are of this model, and their ids have no delimiter.
OfThisModel(f) == \A i \in DOMAIN f.files : f.files[i][1] = 1
PlainIds(f) == \A i \in DOMAIN f.files : Len(Parts[KeyOf(f.files[i])]) = 1

\* A stored flow of this model's files ends after it starts, with the times that
\* FlowInfo takes from its first and its last file: durationMs, the histograms and
\* the flow's name are made of them.  It needs the order of the listing as well as
\* that of the times in each name (Storage.java:51, "MANDATORY: List in UTF-binary
\* order").  It does not hold of a flow with an id such as 42_x, whose name parses,
\* but with the end and the 42 for its times.
FlowTimesOrdered ==
  \A n \in DOMAIN flows :
    OfThisModel(flows[n]) /\ PlainIds(flows[n]) => flows[n].start < flows[n].end

\* Stage 2 has seen every .corr file of every file taken, unless the wait timed out
\* or a call or its handler failed.  A second submit repairs the first: it is
\* complete whatever the first one left, and while it and its handlers still write.
BuildComplete ==
  \A r \in Runs \ (troubled \cup aborted) :
    pc[r] \in {"ladder", "histo", "drain", "done"} =>
      \A f \in taken[r] : \A i \in DOMAIN Segments[f] : Segments[f][i] \in Range(listing[r])

\* Stage 2 of a run came to its end: every name listed is in a flow.
Whole(r) ==
  /\ more[r] = "none"
  /\ Len(listing[r]) = FilesBefore(r, Len(built[r]) + 1)

\* What is stored of a ladder or a histogram is of a build whose flows were all made,
\* in every slice and whichever runs store theirs at the same time.  A slice may be
\* older than the one beside it, as the storing of them is not atomic, but never of a
\* build that an exception cut short in stage 2.
HistoOfWholeBuild == \A h \in Hours : \A r \in {ladder[h], histo[h]} \ {0} : Whole(r)

\* No status message is left in the queue of a run that ended and whose tasks did:
\* the last ones are drained before the scheduler is shut down.
StatusDrained ==
  \A r \in Runs \ troubled : pc[r] = "done" /\ PoolOver(r) => status[r] = 0

\* A submit comes to its end even if no call ever returns, because the wait for the
\* pool is bounded; or its process is stopped.
RunEnds == \A r \in Runs : pc[r] = "extract" ~> pc[r] \in {"done", "stopped"}
=============================================================================
