------------------------ MODULE WorkflowRunnerProofs ------------------------
(***************************************************************************)
(* Theorems about WorkflowRunner, for every set of source files and of     *)
(* correlation ids, every size of a page and of the pool, and any number   *)
(* of submits, one after the other or side by side.                        *)
(***************************************************************************)
EXTENDS WorkflowRunner, FiniteSetTheorems, TLAPS

-----------------------------------------------------------------------------
(* Type correctness *)

TypeInv == TypeOK /\ IsFiniteSet(bucket)

LEMMA TypeInit == Init => TypeInv
<1>. SUFFICES ASSUME Init PROVE TypeInv
  OBVIOUS
<1>1. IsFiniteSet(bucket)
  BY FS_EmptySet DEF Init
<1>2. 0 \in 0 .. MaxRuns
  BY WorkflowAssumption
<1>3. TypeOK
  BY <1>2 DEF Init, TypeOK
<1>. QED BY <1>1, <1>3 DEF TypeInv

\* A run goes from one stage to another.
LEMMA TypeGoes ==
  ASSUME TypeInv, NEW r \in Runs, NEW from, NEW to, Goes(r, from, to),
         to \in {"extract", "build", "ladder", "histo", "drain", "done", "stopped"}
  PROVE  pc' \in [Runs -> {"idle", "extract", "build", "ladder", "histo", "drain", "done", "stopped"}]
BY DEF Goes, TypeInv, TypeOK

\* A call of a task or a step of its handler.
LEMMA TypeCalls ==
  ASSUME TypeInv, NEW r \in Runs, NEW f \in Files, Pool(r, f) \/ Handler(r, f)
  PROVE  TypeInv'
<1>. USE DEF TypeInv
<1>1. <<r, f>> \in Calls
  BY DEF Calls
<1>2. CASE CallStarts(r, f)
  BY <1>1, <1>2 DEF CallStarts, TypeOK, queueVars, buildVars, modelVars, historyVars
<1>3. ASSUME TaskEnds(r, f)
      PROVE  task' \in [Calls -> {"none", "queued", "calling", "ended"}] /\ status' \in [Runs -> Nat]
  BY <1>1, <1>3 DEF TaskEnds, TypeOK
<1>4. CASE CallReturns(r, f)
  BY <1>3, <1>4 DEF CallReturns, TypeOK, jobVars, buildVars, modelVars, historyVars
<1>5. CASE CallFails(r, f)
  BY <1>3, <1>5 DEF CallFails, TypeOK, jobVars, buildVars, modelVars
<1>6. ASSUME NEW from, NEW to \in {"running", "ended", "dead"}, JobMoves(r, f, from, to),
             pos' \in [Calls -> Nat], bucket' \subseteq Name, IsFiniteSet(bucket'), troubled' \subseteq Runs
      PROVE  TypeInv'
  BY <1>1, <1>6 DEF JobMoves, TypeOK, poolVars, queueVars, buildVars, modelVars
<1>7. CASE JobStarts(r, f)
  BY <1>6, <1>7 DEF JobStarts, TypeOK
<1>8. CASE JobStores(r, f)
  <2>1. pos' \in [Calls -> Nat] /\ pos'[<<r, f>>] = pos[<<r, f>>] + 1
    BY <1>1, <1>8 DEF JobStores, TypeOK
  <2>2. Segments[f] \in Seq(Name) /\ pos[<<r, f>>] \in Nat
    BY <1>1, WorkflowAssumption DEF TypeOK
  <2>3. Segments[f][pos'[<<r, f>>]] \in Name
    BY <1>8, <2>1, <2>2 DEF JobStores
  <2>4. bucket' \subseteq Name /\ IsFiniteSet(bucket')
    BY <1>8, <2>3, FS_AddElement DEF JobStores, TypeOK
  <2>. QED BY <1>6, <1>8, <2>1, <2>4 DEF JobStores, TypeOK
<1>9. CASE JobEnds(r, f)
  BY <1>6, <1>9 DEF JobEnds, TypeOK
<1>10. CASE JobFails(r, f)
  BY <1>6, <1>10 DEF JobFails, TypeOK
<1>11. CASE JobDies(r, f)
  BY <1>6, <1>11 DEF JobDies, TypeOK
<1>. QED BY <1>2, <1>4, <1>5, <1>7, <1>8, <1>9, <1>10, <1>11 DEF Pool, Handler

\* A page is a sequence of names that are left to list, and it is added to the listing.
LEMMA PageType ==
  ASSUME TypeInv, NEW r \in Runs, FetchPage(r)
  PROVE  /\ page' \in [Runs -> Seq(Name)]
         /\ listing' \in [Runs -> Seq(Name)]
         /\ listing'[r] = listing[r] \o page'[r]
         /\ \A i \in DOMAIN page'[r] : page'[r][i] \in Left(r)
<1>1. PICK S \in kSubset(Min({PageSize, Cardinality(Left(r))}), Left(r)) :
        \E p \in Orders(S) :
          /\ page' = [page EXCEPT ![r] = p]
          /\ listing' = [listing EXCEPT ![r] = @ \o p]
  BY DEF FetchPage
<1>2. PICK p \in Orders(S) :
        /\ page' = [page EXCEPT ![r] = p]
        /\ listing' = [listing EXCEPT ![r] = @ \o p]
  BY <1>1
<1>3. S \subseteq Left(r)
  BY <1>1 DEF kSubset
<1>4. Left(r) \subseteq bucket \cup Foreign
  BY DEF Left
<1>5. IsFiniteSet(bucket \cup Foreign)
  BY WorkflowAssumption, FS_Union DEF TypeInv
<1>6. IsFiniteSet(S)
  BY <1>3, <1>4, <1>5, FS_Subset
<1>7. Cardinality(S) \in Nat
  BY <1>6, FS_CardinalityType
<1>8. p \in [1 .. Cardinality(S) -> S]
  BY <1>2 DEF Orders, SetToSeqs
<1>9. S \subseteq Name
  BY <1>3, <1>4, WorkflowAssumption DEF TypeInv, TypeOK
<1>10. p \in [1 .. Cardinality(S) -> Name]
  BY <1>8, <1>9
<1>11. p \in Seq(Name)
  BY <1>7, <1>10
<1>12. listing[r] \o p \in Seq(Name)
  BY <1>11 DEF TypeInv, TypeOK
<1>13. page'[r] = p /\ listing'[r] = listing[r] \o p
  BY <1>2 DEF TypeInv, TypeOK
<1>. QED BY <1>2, <1>3, <1>8, <1>11, <1>12, <1>13 DEF TypeInv, TypeOK

\* A flow made of a group has the type of one, and the stored flows keep theirs.
LEMMA FlowType ==
  ASSUME TypeInv, NEW r \in Runs, group[r] # <<>>, WriteFlow(r)
  PROVE  /\ FlowOf(group[r]) \in Flow
         /\ built' = [built EXCEPT ![r] = Append(@, FlowOf(group[r]))]
         /\ built' \in [Runs -> Seq(Flow)]
         /\ DOMAIN flows' \subseteq Int \X Int \X Words
         /\ \A n \in DOMAIN flows' : flows'[n] \in Flow
<1>. DEFINE g == group[r]
            w == FlowOf(g)
<1>1. g \in Seq(Name) /\ Len(g) \in Nat /\ Len(g) > 0 /\ DOMAIN g = 1 .. Len(g)
  BY DEF TypeInv, TypeOK
<1>2. g[1] \in Name /\ 1 \in DOMAIN g /\ Len(g) \in DOMAIN g
  BY <1>1
<1>3. FirstWord(g[1]) \in Words
  <2>1. KeyOf(g[1]) \in Keys
    BY <1>2 DEF Name, KeyOf
  <2>2. Parts[KeyOf(g[1])] \in Seq(Words) \ {<<>>}
    BY <2>1, WorkflowAssumption
  <2>. QED BY <2>2 DEF FirstWord
<1>4. StartIn(g[1]) \in Int /\ EndIn(g[Len(g)]) \in Int
  BY <1>2 DEF WriteFlow, Parseable
<1>5. w \in Flow
  BY <1>1, <1>3, <1>4 DEF FlowOf, Flow
<1>6. FlowName(w) \in Int \X Int \X Words
  BY <1>3, <1>4 DEF FlowOf, FlowName
<1>7. /\ built' = [built EXCEPT ![r] = Append(@, w)]
      /\ flows' \in {flows,
                     [n \in DOMAIN flows \cup {FlowName(w)} |->
                        IF n = FlowName(w) THEN w ELSE flows[n]]}
  BY DEF WriteFlow
<1>. HIDE DEF w
<1>8. Append(built[r], w) \in Seq(Flow)
  BY <1>5 DEF TypeInv, TypeOK
<1>9. built' \in [Runs -> Seq(Flow)]
  BY <1>7, <1>8 DEF TypeInv, TypeOK
<1>10. DOMAIN flows \subseteq Int \X Int \X Words /\ \A n \in DOMAIN flows : flows[n] \in Flow
  BY DEF TypeInv, TypeOK
<1>. DEFINE longer == [n \in DOMAIN flows \cup {FlowName(w)} |-> IF n = FlowName(w) THEN w ELSE flows[n]]
<1>11. DOMAIN longer \subseteq Int \X Int \X Words /\ \A n \in DOMAIN longer : longer[n] \in Flow
  BY <1>5, <1>6, <1>10
<1>12. flows' = flows \/ flows' = longer
  BY <1>7
<1>. HIDE DEF longer
<1>13. DOMAIN flows' \subseteq Int \X Int \X Words /\ \A n \in DOMAIN flows' : flows'[n] \in Flow
  BY <1>10, <1>11, <1>12
<1>. QED BY <1>5, <1>7, <1>9, <1>13 DEF w

\* Taking the head off a page.
LEMMA HeadType ==
  ASSUME TypeInv, NEW r \in Runs, page[r] # <<>>
  PROVE  Head(page[r]) \in Name /\ Tail(page[r]) \in Seq(Name)
BY DEF TypeInv, TypeOK

\* The end of the listing.
LEMMA TypeEndsListing ==
  ASSUME TypeInv, NEW r \in Runs, EndsListing(r),
         built' \in [Runs -> Seq(Flow)], DOMAIN flows' \subseteq Int \X Int \X Words,
         \A n \in DOMAIN flows' : flows'[n] \in Flow
  PROVE  TypeInv'
<1>1. pc' \in [Runs -> {"idle", "extract", "build", "ladder", "histo", "drain", "done", "stopped"}]
  BY TypeGoes DEF EndsListing
<1>2. status' \in [Runs -> Nat] /\ group' \in [Runs -> Seq(Name)]
  BY DEF EndsListing, TypeInv, TypeOK
<1>. QED BY <1>1, <1>2 DEF EndsListing, TypeInv, TypeOK, poolVars, jobVars, historyVars

\* An object of stage 3 is of a run, or none.
LEMMA WrittenType ==
  ASSUME NEW r \in Runs, NEW s \in [Hours -> 0 .. MaxRuns], NEW t \in Written(s, r)
  PROVE  t \in [Hours -> 0 .. MaxRuns]
<1>1. 0 \in 0 .. MaxRuns /\ r \in 0 .. MaxRuns
  BY WorkflowAssumption DEF Runs
<1>2. PICK h : t \in {s, [s EXCEPT ![h] = r], [s EXCEPT ![h] = 0]}
  BY DEF Written
<1>. QED BY <1>1, <1>2

LEMMA TypeStages ==
  ASSUME TypeInv, NEW r \in Runs, Stages(r)
  PROVE  TypeInv'
<1>. USE DEF TypeInv
<1>1. ASSUME StartBuild(r), troubled' \subseteq Runs PROVE TypeInv'
  <2>1. pc' \in [Runs -> {"idle", "extract", "build", "ladder", "histo", "drain", "done", "stopped"}]
    BY <1>1, TypeGoes DEF StartBuild
  <2>. QED BY <1>1, <2>1 DEF StartBuild, TypeOK, poolVars, jobVars, queueVars, buildVars, modelVars
<1>2. CASE PoolTerminates(r)
  BY <1>1, <1>2 DEF PoolTerminates, TypeOK
<1>3. CASE AwaitTimesOut(r)
  BY <1>1, <1>3 DEF AwaitTimesOut, TypeOK
<1>4. CASE FetchPage(r)
  <2>1. more' \in [Runs -> {"first", "more", "none"}]
    BY <1>4 DEF FetchPage, TypeOK
  <2>. QED
    BY <1>4, <2>1, PageType
       DEF FetchPage, TypeOK, poolVars, jobVars, queueVars, modelVars, historyVars
<1>5. CASE VisitSame(r)
  <2>1. page[r] # <<>> /\ Head(page[r]) \in Name /\ Tail(page[r]) \in Seq(Name)
    BY <1>5, HeadType DEF VisitSame
  <2>2. Append(group[r], Head(page[r])) \in Seq(Name)
    BY <2>1 DEF TypeOK
  <2>3. group' \in [Runs -> Seq(Name)] /\ page' \in [Runs -> Seq(Name)]
    BY <1>5, <2>1, <2>2 DEF VisitSame, TypeOK
  <2>. QED
    BY <1>5, <2>3 DEF VisitSame, TypeOK, poolVars, jobVars, queueVars, modelVars, historyVars
<1>6. CASE VisitOther(r)
  <2>1. page[r] # <<>> /\ group[r] # <<>> /\ WriteFlow(r)
    BY <1>6 DEF VisitOther
  <2>2. <<Head(page[r])>> \in Seq(Name) /\ Tail(page[r]) \in Seq(Name)
    BY <2>1, HeadType
  <2>3. group' \in [Runs -> Seq(Name)] /\ page' \in [Runs -> Seq(Name)]
    BY <1>6, <2>2 DEF VisitOther, TypeOK
  <2>. QED
    BY <1>6, <2>1, <2>3, FlowType DEF VisitOther, TypeOK, poolVars, jobVars, queueVars, historyVars
<1>7. CASE LastFlow(r)
  <2>1. CASE group[r] = <<>>
    BY <1>7, <2>1, TypeEndsListing DEF LastFlow, TypeOK
  <2>2. CASE group[r] # <<>>
    BY <1>7, <2>2, FlowType, TypeEndsListing DEF LastFlow
  <2>. QED BY <2>1, <2>2
<1>8. CASE Abort(r)
  <2>1. pc' \in [Runs -> {"idle", "extract", "build", "ladder", "histo", "drain", "done", "stopped"}]
    BY <1>8, TypeGoes DEF Abort
  <2>. QED BY <1>8, <2>1 DEF Abort, TypeOK, poolVars, jobVars, queueVars, buildVars, modelVars
<1>9. ladder \in [Hours -> 0 .. MaxRuns] /\ histo \in [Hours -> 0 .. MaxRuns]
  BY DEF TypeOK
<1>10. CASE StoreLadder(r)
  <2>1. ladder' \in [Hours -> 0 .. MaxRuns]
    BY <1>9, <1>10, WrittenType DEF StoreLadder
  <2>2. slice' \in [Runs -> Nat]
    BY <1>10 DEF StoreLadder, NextSlice, TypeOK
  <2>. QED
    BY <1>10, <2>1, <2>2 DEF StoreLadder, NextSlice, TypeOK, poolVars, jobVars, queueVars, buildVars, historyVars
<1>11. CASE StoreHisto(r)
  <2>1. histo' \in [Hours -> 0 .. MaxRuns]
    BY <1>9, <1>11, WrittenType DEF StoreHisto
  <2>2. slice' \in [Runs -> Nat]
    BY <1>11 DEF StoreHisto, NextSlice, TypeOK
  <2>. QED
    BY <1>11, <2>1, <2>2 DEF StoreHisto, NextSlice, TypeOK, poolVars, jobVars, queueVars, buildVars, historyVars
<1>12. CASE LastSlice(r)
  <2>1. pc' \in [Runs -> {"idle", "extract", "build", "ladder", "histo", "drain", "done", "stopped"}]
    BY <1>12, TypeGoes DEF LastSlice
  <2>2. slice' \in [Runs -> Nat]
    BY <1>12 DEF LastSlice, TypeOK
  <2>. QED
    BY <1>12, <2>1, <2>2 DEF LastSlice, TypeOK, poolVars, jobVars, queueVars, buildVars, historyVars
<1>13. CASE FinalDrain(r)
  <2>1. pc' \in [Runs -> {"idle", "extract", "build", "ladder", "histo", "drain", "done", "stopped"}]
    BY <1>13, TypeGoes DEF FinalDrain, Ends
  <2>2. ticking' \in [Runs -> BOOLEAN] /\ status' \in [Runs -> Nat]
    BY <1>13 DEF FinalDrain, Ends, TypeOK
  <2>. QED
    BY <1>13, <2>1, <2>2
       DEF FinalDrain, Ends, TypeOK, poolVars, jobVars, buildVars, modelVars, historyVars
<1>. QED
  BY <1>2, <1>3, <1>4, <1>5, <1>6, <1>7, <1>8, <1>10, <1>11, <1>12, <1>13 DEF Stages

LEMMA TypeStep ==
  ASSUME TypeInv, [Next]_vars
  PROVE  TypeInv'
<1>. USE DEF TypeInv
<1>1. ASSUME NEW r \in Runs, NEW at \in {"extract", "drain"}, Begins(r, at)
      PROVE  /\ pc' \in [Runs -> {"idle", "extract", "build", "ladder", "histo", "drain", "done", "stopped"}]
             /\ ticking' \in [Runs -> BOOLEAN]
  <2>1. pc' \in [Runs -> {"idle", "extract", "build", "ladder", "histo", "drain", "done", "stopped"}]
    BY <1>1, TypeGoes DEF Begins
  <2>. QED BY <1>1, <2>1 DEF Begins, TypeOK
<1>2. ASSUME NEW r \in Runs, Submit(r) PROVE TypeInv'
  <2>1. taken' \in [Runs -> SUBSET Files] /\ task' \in [Calls -> {"none", "queued", "calling", "ended"}]
    BY <1>2 DEF Submit, TypeOK
  <2>. QED
    BY <1>1, <1>2, <2>1 DEF Submit, TypeOK, jobVars, buildVars, modelVars, historyVars
<1>3. ASSUME NEW r \in Runs, SubmitFails(r) PROVE TypeInv'
  BY <1>1, <1>3 DEF SubmitFails, TypeOK, poolVars, jobVars, buildVars, modelVars
<1>4. ASSUME NEW r \in Runs, Tick(r) PROVE TypeInv'
  BY <1>4 DEF Tick, TypeOK, poolVars, jobVars, buildVars, modelVars, historyVars
<1>5. ASSUME NEW r \in Runs, Crash(r) PROVE TypeInv'
  <2>1. task' \in [Calls -> {"none", "queued", "calling", "ended"}]
    BY <1>5 DEF Crash, TypeOK
  <2>2. status' \in [Runs -> Nat] /\ ticking' \in [Runs -> BOOLEAN]
    BY <1>5 DEF Crash, TypeOK
  <2>3. pc' \in [Runs -> {"idle", "extract", "build", "ladder", "histo", "drain", "done", "stopped"}]
    BY <1>5 DEF Crash, TypeOK
  <2>. QED
    BY <1>5, <2>1, <2>2, <2>3 DEF Crash, TypeOK, jobVars, buildVars, modelVars
<1>6. CASE UNCHANGED vars
  BY <1>6 DEF vars, TypeOK, poolVars, jobVars, queueVars, buildVars, modelVars, historyVars
<1>. QED BY <1>2, <1>3, <1>4, <1>5, <1>6, TypeCalls, TypeStages DEF Next

\* Every variable of the build keeps its type (WorkflowRunner.run).
THEOREM TypeCorrect == Spec => []TypeOK
<1>1. Init => TypeInv
  BY TypeInit
<1>2. TypeInv /\ [Next]_vars => TypeInv'
  BY TypeStep
<1>3. TypeInv => TypeOK
  BY DEF TypeInv
<1>. QED BY <1>1, <1>2, <1>3, PTL DEF Spec

-----------------------------------------------------------------------------
(* What a step does to the build of one run *)

\* The listing of a run and what came of it are left alone.
Kept(q) ==
  /\ listing'[q] = listing[q] /\ page'[q] = page[q] /\ more'[q] = more[q]
  /\ group'[q] = group[q] /\ built'[q] = built[q]

\* A run stays where it is, or goes on in a step that is not one of the listing.
Moves(q) ==
  \/ pc'[q] = pc[q]
  \/ pc[q] = "idle" /\ pc'[q] = "extract"
  \/ pc[q] = "extract" /\ pc'[q] = "build"
  \/ pc[q] = "ladder" /\ pc'[q] = "histo"
  \/ pc[q] = "histo" /\ pc'[q] = "drain"
  \/ pc[q] = "drain" /\ pc'[q] = "done"
  \/ pc[q] \in {"idle", "build", "ladder", "histo"} /\ pc'[q] = "drain" /\ q \in aborted'
  \/ pc[q] \notin {"idle", "done", "stopped"} /\ pc'[q] = "stopped" /\ q \in troubled'

LEMMA GoesMoves ==
  ASSUME TypeInv, NEW r \in Runs, NEW from, NEW to, Goes(r, from, to)
  PROVE  pc[r] = from /\ pc'[r] = to /\ \A q \in Runs \ {r} : pc'[q] = pc[q]
BY DEF Goes, TypeInv, TypeOK

\* A step of a run leaves the builds of the others alone.
LEMMA OthersKept ==
  ASSUME TypeInv, NEW r \in Runs, NEW q \in Runs \ {r}, Stages(r)
  PROVE  Kept(q) /\ pc'[q] = pc[q]
<1>. USE DEF TypeInv, TypeOK, Kept
<1>1. CASE PoolTerminates(r) \/ AwaitTimesOut(r)
  BY <1>1, GoesMoves DEF PoolTerminates, AwaitTimesOut, StartBuild, buildVars
<1>2. CASE FetchPage(r)
  BY <1>2 DEF FetchPage
<1>3. CASE VisitSame(r)
  BY <1>3 DEF VisitSame
<1>4. CASE VisitOther(r)
  BY <1>4 DEF VisitOther, WriteFlow
<1>5. CASE LastFlow(r)
  BY <1>5, GoesMoves DEF LastFlow, EndsListing, WriteFlow
<1>6. CASE Abort(r)
  BY <1>6, GoesMoves DEF Abort, buildVars
<1>7. CASE StoreLadder(r) \/ StoreHisto(r)
  BY <1>7 DEF StoreLadder, StoreHisto, buildVars
<1>8. CASE LastSlice(r) \/ FinalDrain(r)
  BY <1>8, GoesMoves DEF LastSlice, FinalDrain, Ends, buildVars
<1>. QED BY <1>1, <1>2, <1>3, <1>4, <1>5, <1>6, <1>7, <1>8 DEF Stages

\* What any step does to the build of a run.
LEMMA RunSteps ==
  ASSUME TypeInv, [Next]_vars, NEW q \in Runs
  PROVE  \/ FetchPage(q) \/ VisitSame(q) \/ VisitOther(q) \/ LastFlow(q)
         \/ Kept(q) /\ Moves(q)
<1>1. CASE UNCHANGED vars
  BY <1>1 DEF vars, buildVars, Kept, Moves
<1>2. ASSUME NEW r \in Runs, Submit(r) PROVE Kept(q) /\ Moves(q)
  <2>1. UNCHANGED buildVars /\ Goes(r, "idle", "extract")
    BY <1>2 DEF Submit, Begins
  <2>. QED BY <2>1, GoesMoves DEF buildVars, Kept, Moves
<1>3. ASSUME NEW r \in Runs, SubmitFails(r) PROVE Kept(q) /\ Moves(q)
  <2>1. UNCHANGED buildVars /\ Goes(r, "idle", "drain") /\ r \in aborted'
    BY <1>3 DEF SubmitFails, Begins
  <2>. QED BY <2>1, GoesMoves DEF buildVars, Kept, Moves
<1>4. ASSUME NEW r \in Runs, NEW f \in Files, Pool(r, f) \/ Handler(r, f)
      PROVE  Kept(q) /\ Moves(q)
  <2>1. UNCHANGED <<pc, buildVars>>
    BY <1>4
       DEF Pool, Handler, CallStarts, CallReturns, CallFails, JobMoves, JobStarts, JobStores,
           JobEnds, JobFails, JobDies
  <2>. QED BY <2>1 DEF buildVars, Kept, Moves
<1>5. ASSUME NEW r \in Runs, Tick(r) PROVE Kept(q) /\ Moves(q)
  BY <1>5 DEF Tick, buildVars, Kept, Moves
<1>6. ASSUME NEW r \in Runs, Crash(r) PROVE Kept(q) /\ Moves(q)
  BY <1>6 DEF Crash, buildVars, Kept, Moves, TypeInv, TypeOK
<1>7. ASSUME NEW r \in Runs, Stages(r), r # q PROVE Kept(q) /\ Moves(q)
  BY <1>7, OthersKept DEF Moves
<1>8. CASE PoolTerminates(q) \/ AwaitTimesOut(q)
  <2>1. UNCHANGED buildVars /\ Goes(q, "extract", "build")
    BY <1>8 DEF PoolTerminates, AwaitTimesOut, StartBuild
  <2>. QED BY <2>1, GoesMoves DEF buildVars, Kept, Moves
<1>9. CASE Abort(q)
  <2>1. PICK st \in {"build", "ladder", "histo"} : Goes(q, st, "drain")
    BY <1>9 DEF Abort
  <2>2. UNCHANGED buildVars /\ q \in aborted'
    BY <1>9 DEF Abort
  <2>. QED BY <2>1, <2>2, GoesMoves DEF buildVars, Kept, Moves
<1>10. CASE StoreLadder(q) \/ StoreHisto(q)
  BY <1>10 DEF StoreLadder, StoreHisto, buildVars, Kept, Moves
<1>11. CASE LastSlice(q)
  <2>1. UNCHANGED buildVars /\ (Goes(q, "ladder", "histo") \/ Goes(q, "histo", "drain"))
    BY <1>11 DEF LastSlice
  <2>. QED BY <2>1, GoesMoves DEF buildVars, Kept, Moves
<1>12. CASE FinalDrain(q)
  <2>1. UNCHANGED buildVars /\ Goes(q, "drain", "done")
    BY <1>12 DEF FinalDrain, Ends
  <2>. QED BY <2>1, GoesMoves DEF buildVars, Kept, Moves
<1>13. Stages(q) => \/ FetchPage(q) \/ VisitSame(q) \/ VisitOther(q) \/ LastFlow(q)
                    \/ Kept(q) /\ Moves(q)
  BY <1>8, <1>9, <1>10, <1>11, <1>12 DEF Stages
<1>. QED BY <1>1, <1>2, <1>3, <1>4, <1>5, <1>6, <1>7, <1>13 DEF Next

\* What the steps of a run's listing do to its variables.
LEMMA VisitSteps ==
  ASSUME TypeInv, NEW q \in Runs
  PROVE  /\ FetchPage(q) =>
              /\ pc[q] = "build" /\ page[q] = <<>> /\ more[q] # "none" /\ more'[q] # "first"
              /\ UNCHANGED <<pc, group, built, bucket, flows>>
         /\ VisitSame(q) =>
              /\ pc[q] = "build" /\ page[q] # <<>> /\ UNCHANGED <<pc, more, listing, built, bucket, flows>>
              /\ group[q] # <<>> => SameGroup(Head(page[q]), group[q][1])
              /\ group'[q] = Append(group[q], Head(page[q])) /\ page'[q] = Tail(page[q])
         /\ VisitOther(q) =>
              /\ pc[q] = "build" /\ page[q] # <<>> /\ UNCHANGED <<pc, more, listing, bucket>>
              /\ group[q] # <<>> /\ WriteFlow(q) /\ ~SameGroup(Head(page[q]), group[q][1])
              /\ group'[q] = <<Head(page[q])>> /\ page'[q] = Tail(page[q])
         /\ LastFlow(q) =>
              /\ pc[q] = "build" /\ pc'[q] = "ladder" /\ page[q] = <<>> /\ more[q] = "none"
              /\ UNCHANGED <<page, more, listing, bucket>> /\ group'[q] = <<>>
              /\ IF group[q] = <<>> THEN UNCHANGED <<built, flows>> ELSE WriteFlow(q)
<1>. USE DEF TypeInv, TypeOK
<1>1. ASSUME FetchPage(q)
      PROVE  /\ pc[q] = "build" /\ page[q] = <<>> /\ more[q] # "none" /\ more'[q] # "first"
             /\ UNCHANGED <<pc, group, built, bucket, flows>>
  <2>1. more'[q] \in {"none", "more"}
    BY <1>1 DEF FetchPage
  <2>. QED BY <1>1, <2>1 DEF FetchPage, jobVars, modelVars
<1>2. ASSUME VisitSame(q)
      PROVE  /\ pc[q] = "build" /\ page[q] # <<>>
             /\ UNCHANGED <<pc, more, listing, built, bucket, flows>>
             /\ group[q] # <<>> => SameGroup(Head(page[q]), group[q][1])
             /\ group'[q] = Append(group[q], Head(page[q])) /\ page'[q] = Tail(page[q])
  BY <1>2 DEF VisitSame, jobVars, modelVars
<1>3. ASSUME VisitOther(q)
      PROVE  /\ pc[q] = "build" /\ page[q] # <<>> /\ UNCHANGED <<pc, more, listing, bucket>>
             /\ group[q] # <<>> /\ WriteFlow(q) /\ ~SameGroup(Head(page[q]), group[q][1])
             /\ group'[q] = <<Head(page[q])>> /\ page'[q] = Tail(page[q])
  BY <1>3 DEF VisitOther, jobVars
<1>4. ASSUME LastFlow(q)
      PROVE  /\ pc[q] = "build" /\ pc'[q] = "ladder" /\ page[q] = <<>> /\ more[q] = "none"
             /\ UNCHANGED <<page, more, listing, bucket>> /\ group'[q] = <<>>
             /\ IF group[q] = <<>> THEN UNCHANGED <<built, flows>> ELSE WriteFlow(q)
  BY <1>4, GoesMoves DEF LastFlow, EndsListing, jobVars
<1>. QED BY <1>1, <1>2, <1>3, <1>4

\* A run that has not come to stage 2 has listed nothing.
Fresh ==
  \A q \in Runs : pc[q] \in {"idle", "extract"} =>
    listing[q] = <<>> /\ page[q] = <<>> /\ more[q] = "first" /\ group[q] = <<>> /\ built[q] = <<>>

LEMMA FreshStep ==
  ASSUME TypeInv, Fresh, [Next]_vars
  PROVE  Fresh'
<1>1. SUFFICES ASSUME NEW q \in Runs, pc'[q] \in {"idle", "extract"}
               PROVE  /\ listing'[q] = <<>> /\ page'[q] = <<>> /\ more'[q] = "first"
                      /\ group'[q] = <<>> /\ built'[q] = <<>>
  BY DEF Fresh
<1>2. Kept(q) /\ Moves(q)
  BY <1>1, RunSteps, VisitSteps
<1>. QED BY <1>1, <1>2 DEF Kept, Moves, Fresh

-----------------------------------------------------------------------------
(* The flows and the listing *)

\* The places of the files of the flows before the i-th.
Places(b, i) == UNION {{a} \X DOMAIN b[a].files : a \in 1 .. i - 1}

\* The flows, the group in hand and the rest of the page are the listing.
Partition(b, g, p, l) ==
  LET n == Cardinality(Places(b, Len(b) + 1)) IN
    /\ Len(l) = n + Len(g) + Len(p)
    /\ \A i \in DOMAIN b : \A j \in DOMAIN b[i].files :
         l[Cardinality(Places(b, i)) + j] = b[i].files[j]
    /\ \A j \in DOMAIN g : l[n + j] = g[j]
    /\ \A j \in DOMAIN p : l[n + Len(g) + j] = p[j]

Finite(b) == IsFiniteSet(Places(b, Len(b) + 1))

\* A flow more has its files after those of the flows before it.
LEMMA PlacesOfOneMore ==
  ASSUME NEW b \in Seq(Flow), NEW i \in DOMAIN b, IsFiniteSet(Places(b, i))
  PROVE  /\ IsFiniteSet(Places(b, i + 1))
         /\ Cardinality(Places(b, i + 1)) = Cardinality(Places(b, i)) + Len(b[i].files)
<1>. DEFINE s == b[i].files
            T == {i} \X DOMAIN s
            h == [j \in DOMAIN s |-> <<i, j>>]
<1>1. i \in Nat /\ s \in Seq(Name)
  <2>1. i \in Nat /\ b[i] \in Flow
    OBVIOUS
  <2>. QED BY <2>1 DEF Flow
<1>2. Len(s) \in Nat /\ DOMAIN s = 1 .. Len(s)
  BY <1>1
<1>3. IsFiniteSet(DOMAIN s) /\ Cardinality(DOMAIN s) = Len(s)
  <2>. DEFINE k == Len(s)
  <2>1. k \in Nat /\ DOMAIN s = 1 .. k
    BY <1>2
  <2>. HIDE DEF k
  <2>2. IsFiniteSet(1 .. k) /\ Cardinality(1 .. k) = k
    BY <2>1, FS_Interval
  <2>. QED BY <2>1, <2>2 DEF k
<1>4. IsFiniteSet(T) /\ Cardinality(T) = Len(s)
  <2>1. h \in Bijection(DOMAIN s, T)
    BY DEF Bijection, Injection, Surjection, IsInjective
  <2>. QED BY <1>3, <2>1, FS_Bijection DEF ExistsBijection
<1>5. Places(b, i + 1) = Places(b, i) \cup T
  <2>1. 1 .. (i + 1) - 1 = 1 .. i - 1 \cup {i}
    BY <1>1
  <2>. QED BY <2>1 DEF Places
<1>6. Places(b, i) \cap T = {}
  <2>1. \A a \in 1 .. i - 1 : a # i
    BY <1>1
  <2>. QED BY <2>1 DEF Places
<1>7. Cardinality(Places(b, i)) \in Nat
  BY FS_CardinalityType
<1>8. Cardinality(Places(b, i) \cap T) = 0
  BY <1>6, FS_EmptySet
<1>. HIDE DEF T
<1>9. /\ IsFiniteSet(Places(b, i) \cup T)
      /\ Cardinality(Places(b, i) \cup T)
           = Cardinality(Places(b, i)) + Cardinality(T) - Cardinality(Places(b, i) \cap T)
  BY <1>4, FS_Union
<1>10. Cardinality(Places(b, i + 1)) = Cardinality(Places(b, i)) + Cardinality(T)
  <2>1. Cardinality(T) \in Nat
    BY <1>2, <1>4
  <2>2. Cardinality(Places(b, i) \cup T) = Cardinality(Places(b, i)) + Cardinality(T) - 0
    BY <1>8, <1>9
  <2>3. Cardinality(Places(b, i + 1)) = Cardinality(Places(b, i) \cup T)
    BY <1>5
  <2>. QED BY <1>7, <2>1, <2>2, <2>3
<1>. QED BY <1>4, <1>5, <1>9, <1>10

\* The files of a flow come before those of the group in hand.
LEMMA PlacesBound ==
  ASSUME NEW b \in Seq(Flow), Finite(b), NEW i \in DOMAIN b
  PROVE  /\ Cardinality(Places(b, i)) \in Nat
         /\ Cardinality(Places(b, Len(b) + 1)) \in Nat
         /\ Cardinality(Places(b, i)) + Len(b[i].files) <= Cardinality(Places(b, Len(b) + 1))
<1>1. Len(b) \in Nat /\ i \in 1 .. Len(b)
  OBVIOUS
<1>2. /\ 1 .. i - 1 \subseteq 1 .. (Len(b) + 1) - 1
      /\ 1 .. (i + 1) - 1 \subseteq 1 .. (Len(b) + 1) - 1
  BY <1>1
<1>3. /\ Places(b, i) \subseteq Places(b, Len(b) + 1)
      /\ Places(b, i + 1) \subseteq Places(b, Len(b) + 1)
  BY <1>2 DEF Places
<1>4. IsFiniteSet(Places(b, i))
  BY <1>3, FS_Subset DEF Finite
<1>5. Cardinality(Places(b, i + 1)) <= Cardinality(Places(b, Len(b) + 1))
  BY <1>3, FS_Subset DEF Finite
<1>. QED BY <1>4, <1>5, PlacesOfOneMore, FS_CardinalityType DEF Finite

\* The group in hand becomes a flow.
LEMMA PartitionFlow ==
  ASSUME NEW b \in Seq(Flow), Finite(b), NEW w \in Flow, NEW p \in Seq(Name), NEW l \in Seq(Name),
         Partition(b, w.files, p, l)
  PROVE  Finite(Append(b, w)) /\ Partition(Append(b, w), <<>>, p, l)
<1>. DEFINE c == Append(b, w)
<1>1. /\ c \in Seq(Flow) /\ Len(b) \in Nat /\ Len(c) = Len(b) + 1
      /\ DOMAIN c = 1 .. Len(b) + 1 /\ DOMAIN b = 1 .. Len(b)
      /\ c[Len(b) + 1] = w /\ \A i \in DOMAIN b : c[i] = b[i]
  OBVIOUS
<1>. HIDE DEF c
<1>2. ASSUME NEW i \in 1 .. Len(b) + 1 PROVE Places(c, i) = Places(b, i)
  <2>1. \A a \in 1 .. i - 1 : a \in DOMAIN b
    BY <1>1
  <2>. QED BY <1>1, <2>1 DEF Places
<1>3. Len(b) + 1 \in 1 .. Len(b) + 1 /\ Len(b) + 1 \in DOMAIN c
  BY <1>1
<1>4. IsFiniteSet(Places(c, Len(b) + 1))
  BY <1>2, <1>3 DEF Finite
<1>5. /\ IsFiniteSet(Places(c, Len(c) + 1))
      /\ Cardinality(Places(c, Len(c) + 1)) = Cardinality(Places(b, Len(b) + 1)) + Len(w.files)
  BY <1>1, <1>2, <1>3, <1>4, PlacesOfOneMore
<1>6. Cardinality(Places(b, Len(b) + 1)) \in Nat /\ Len(w.files) \in Nat /\ Len(p) \in Nat
  BY FS_CardinalityType DEF Finite, Flow
<1>7. ASSUME NEW i \in DOMAIN c, NEW j \in DOMAIN c[i].files
      PROVE  l[Cardinality(Places(c, i)) + j] = c[i].files[j]
  <2>1. CASE i = Len(b) + 1
    BY <1>1, <1>2, <1>3, <1>7, <2>1 DEF Partition
  <2>2. CASE i # Len(b) + 1
    <3>1. i \in DOMAIN b /\ i \in 1 .. Len(b) + 1
      BY <1>1, <2>2
    <3>. QED BY <1>1, <1>2, <1>7, <3>1 DEF Partition
  <2>. QED BY <2>1, <2>2
<1>8. Len(l) = Cardinality(Places(c, Len(c) + 1)) + 0 + Len(p)
  BY <1>5, <1>6 DEF Partition
<1>9. \A j \in DOMAIN p : l[Cardinality(Places(c, Len(c) + 1)) + 0 + j] = p[j]
  BY <1>5, <1>6 DEF Partition
<1>10. Partition(c, <<>>, p, l)
  BY <1>7, <1>8, <1>9 DEF Partition
<1>. QED BY <1>5, <1>10 DEF c, Finite

\* The head of the page joins the group.
LEMMA PartitionHead ==
  ASSUME NEW b \in Seq(Flow), Finite(b), NEW g \in Seq(Name), NEW p \in Seq(Name),
         NEW l \in Seq(Name), p # <<>>, Partition(b, g, p, l)
  PROVE  Partition(b, Append(g, Head(p)), Tail(p), l)
<1>. DEFINE n == Cardinality(Places(b, Len(b) + 1))
            h == Append(g, Head(p))
<1>1. n \in Nat
  BY FS_CardinalityType DEF Finite
<1>2. /\ Len(g) \in Nat /\ Len(p) \in Nat /\ Len(p) > 0
      /\ Len(h) = Len(g) + 1 /\ Len(Tail(p)) = Len(p) - 1
      /\ h[Len(g) + 1] = p[1] /\ 1 \in DOMAIN p
      /\ \A j \in DOMAIN h : (j \in DOMAIN g /\ h[j] = g[j]) \/ j = Len(g) + 1
      /\ \A j \in DOMAIN Tail(p) : j \in Nat /\ j + 1 \in DOMAIN p /\ Tail(p)[j] = p[j + 1]
  OBVIOUS
<1>3. /\ Len(l) = n + Len(g) + Len(p)
      /\ \A j \in DOMAIN g : l[n + j] = g[j]
      /\ \A j \in DOMAIN p : l[n + Len(g) + j] = p[j]
  BY DEF Partition
<1>4. \A i \in DOMAIN b : \A j \in DOMAIN b[i].files :
        l[Cardinality(Places(b, i)) + j] = b[i].files[j]
  BY DEF Partition
<1>. HIDE DEF n, h
<1>5. Len(l) = n + Len(h) + Len(Tail(p))
  BY <1>1, <1>2, <1>3
<1>6. ASSUME NEW j \in DOMAIN h PROVE l[n + j] = h[j]
  <2>1. n + (Len(g) + 1) = n + Len(g) + 1
    BY <1>1, <1>2
  <2>. QED BY <1>2, <1>3, <2>1
<1>7. ASSUME NEW j \in DOMAIN Tail(p) PROVE l[n + Len(h) + j] = Tail(p)[j]
  <2>1. j \in Nat /\ n + Len(h) + j = n + Len(g) + (j + 1)
    BY <1>1, <1>2
  <2>2. j + 1 \in DOMAIN p /\ Tail(p)[j] = p[j + 1]
    BY <1>2
  <2>3. l[n + Len(g) + (j + 1)] = p[j + 1]
    BY <1>3, <2>2
  <2>. QED BY <2>1, <2>2, <2>3
<1>. QED BY <1>4, <1>5, <1>6, <1>7 DEF Partition, n, h

\* A page is added to the listing.
LEMMA PartitionPage ==
  ASSUME NEW b \in Seq(Flow), Finite(b), NEW g \in Seq(Name), NEW p \in Seq(Name),
         NEW l \in Seq(Name), Partition(b, g, <<>>, l)
  PROVE  Partition(b, g, p, l \o p)
<1>. DEFINE n == Cardinality(Places(b, Len(b) + 1))
            m == l \o p
<1>1. n \in Nat /\ Len(g) \in Nat
  BY FS_CardinalityType DEF Finite
<1>2. Len(l) = n + Len(g)
  BY <1>1 DEF Partition
<1>3. /\ Len(p) \in Nat
      /\ Len(m) = Len(l) + Len(p)
      /\ \A j \in 1 .. Len(l) : m[j] = l[j]
      /\ \A j \in DOMAIN p : m[Len(l) + j] = p[j]
  OBVIOUS
<1>4. (\A j \in DOMAIN g : l[n + j] = g[j]) /\ DOMAIN g = 1 .. Len(g)
  BY DEF Partition
<1>. HIDE DEF n, m
<1>5. ASSUME NEW i \in DOMAIN b, NEW j \in DOMAIN b[i].files
      PROVE  m[Cardinality(Places(b, i)) + j] = b[i].files[j]
  <2>1. b[i].files \in Seq(Name)
    <3>1. b[i] \in Flow
      OBVIOUS
    <3>. QED BY <3>1 DEF Flow
  <2>2. j \in Nat /\ 1 <= j /\ j <= Len(b[i].files) /\ Len(b[i].files) \in Nat
    BY <2>1
  <2>3. Cardinality(Places(b, i)) \in Nat /\ Cardinality(Places(b, i)) + Len(b[i].files) <= n
    BY PlacesBound DEF n
  <2>4. Cardinality(Places(b, i)) + j \in 1 .. Len(l)
    BY <1>1, <1>2, <2>2, <2>3
  <2>. QED BY <1>3, <2>4 DEF Partition
<1>6. ASSUME NEW j \in DOMAIN g PROVE m[n + j] = g[j]
  <2>1. n + j \in 1 .. Len(l)
    BY <1>1, <1>2, <1>4
  <2>. QED BY <1>3, <1>4, <2>1
<1>7. Len(m) = n + Len(g) + Len(p) /\ \A j \in DOMAIN p : m[n + Len(g) + j] = p[j]
  BY <1>1, <1>2, <1>3
<1>. QED BY <1>5, <1>6, <1>7 DEF Partition, n, m

\* Before a build there is nothing to divide.
LEMMA PartitionNone == Finite(<<>>) /\ Partition(<<>>, <<>>, <<>>, <<>>)
<1>1. Places(<<>>, Len(<<>>) + 1) = {}
  BY DEF Places
<1>. QED BY <1>1, FS_EmptySet DEF Finite, Partition

\* The flows, the group in hand and the rest of the page of a run are its listing.
Divided(q) == Finite(built[q]) /\ Partition(built[q], group[q], page[q], listing[q])

LEMMA PartitionStep ==
  ASSUME TypeInv, NEW q \in Runs, Divided(q), [Next]_vars
  PROVE  Divided(q)'
<1>. DEFINE b == built[q]
            g == group[q]
            p == page[q]
            l == listing[q]
<1>1. b \in Seq(Flow) /\ g \in Seq(Name) /\ p \in Seq(Name) /\ l \in Seq(Name)
  BY DEF TypeInv, TypeOK
<1>2. Finite(b) /\ Partition(b, g, p, l)
  BY DEF Divided
<1>. HIDE DEF b, g, p, l
<1>3. SUFFICES Finite(b') /\ Partition(b', g', p', l')
  BY DEF Divided, b, g, p, l
<1>4. CASE FetchPage(q)
  <2>1. p = <<>> /\ UNCHANGED <<g, b>>
    BY <1>4, VisitSteps DEF b, g, p
  <2>2. l' = l \o p' /\ p' \in Seq(Name)
    BY <1>4, PageType DEF l, p
  <2>3. Partition(b, g, p', l \o p')
    BY <1>1, <1>2, <2>1, <2>2, PartitionPage
  <2>. QED BY <1>2, <2>1, <2>2, <2>3
<1>5. CASE VisitSame(q)
  <2>1. p # <<>> /\ g' = Append(g, Head(p)) /\ p' = Tail(p) /\ UNCHANGED <<b, l>>
    BY <1>5, VisitSteps DEF b, g, p, l
  <2>2. Partition(b, Append(g, Head(p)), Tail(p), l)
    BY <1>1, <1>2, <2>1, PartitionHead
  <2>. QED BY <1>2, <2>1, <2>2
<1>6. ASSUME g # <<>>, WriteFlow(q)
      PROVE  Finite(b') /\ Partition(b', <<>>, p, l) /\ b' \in Seq(Flow)
  <2>1. PICK w \in Flow : w = FlowOf(g) /\ b' = Append(b, w)
    BY <1>6, FlowType DEF b, g, TypeInv, TypeOK
  <2>2. w.files = g
    BY <2>1 DEF FlowOf
  <2>3. Finite(Append(b, w)) /\ Partition(Append(b, w), <<>>, p, l)
    BY <1>1, <1>2, <2>2, PartitionFlow
  <2>. QED BY <1>1, <2>1, <2>3
<1>7. CASE VisitOther(q)
  <2>1. /\ p # <<>> /\ g # <<>> /\ WriteFlow(q)
        /\ g' = <<Head(p)>> /\ p' = Tail(p) /\ UNCHANGED l
    BY <1>7, VisitSteps DEF g, p, l
  <2>2. PICK c \in Seq(Flow) : c = b' /\ Finite(c) /\ Partition(c, <<>>, p, l)
    BY <1>6, <2>1
  <2>3. Partition(c, Append(<<>>, Head(p)), Tail(p), l)
    <3>1. <<>> \in Seq(Name)
      OBVIOUS
    <3>. QED BY <1>1, <2>1, <2>2, <3>1, PartitionHead
  <2>4. Append(<<>>, Head(p)) = <<Head(p)>>
    OBVIOUS
  <2>. QED BY <2>1, <2>2, <2>3, <2>4
<1>8. CASE LastFlow(q)
  <2>1. p = <<>> /\ g' = <<>> /\ UNCHANGED <<p, l>>
    BY <1>8, VisitSteps DEF g, p, l
  <2>2. CASE g = <<>>
    <3>1. UNCHANGED b
      BY <1>8, <2>2, VisitSteps DEF b, g
    <3>. QED BY <1>2, <2>1, <2>2, <3>1
  <2>3. CASE g # <<>>
    <3>1. WriteFlow(q)
      BY <1>8, <2>3, VisitSteps DEF g
    <3>. QED BY <1>6, <2>1, <2>3, <3>1
  <2>. QED BY <2>2, <2>3
<1>9. CASE Kept(q)
  BY <1>2, <1>9 DEF Kept, b, g, p, l
<1>. QED BY <1>4, <1>5, <1>7, <1>8, <1>9, RunSteps

\* The inductive invariant of the listing's division.
THEOREM Division == Spec => [](TypeInv /\ \A q \in Runs : Divided(q))
<1>. DEFINE Inv == TypeInv /\ \A q \in Runs : Divided(q)
<1>1. Init => Inv
  BY TypeInit, PartitionNone DEF Init, Divided
<1>2. Inv /\ [Next]_vars => Inv'
  BY TypeStep, PartitionStep
<1>. QED BY <1>1, <1>2, PTL DEF Spec

\* The listing's callback drops no file and takes none twice: flow after flow, the files
\* of the flows are the listing, but for the group in hand and the rest of the page
\* (WorkflowRunner.buildDataFlowIndexForCorrelations).
THEOREM FlowsPartition == Spec => []FlowsPartitionListing
<1>1. (\A q \in Runs : Divided(q)) => FlowsPartitionListing
  BY DEF FlowsPartitionListing, FilesBefore, Divided, Partition, Places
<1>. QED BY <1>1, Division, PTL

-----------------------------------------------------------------------------
(* What an exception leaves of a ladder or a histogram *)

\* The listing of a run is over, and every name of it is in a flow.
Over(q) == more[q] = "none" /\ page[q] = <<>> /\ group[q] = <<>>

\* A run that stores slices, or has any in storage, came to the end of its listing, and
\* its stage 2 is behind it.
StoredInv ==
  /\ \A q \in Runs : pc[q] \in {"ladder", "histo"} => Over(q)
  /\ \A h \in Hours : \A q \in {ladder[h], histo[h]} \ {0} :
       Over(q) /\ pc[q] \notin {"idle", "extract", "build"}

\* A run whose stage 2 is behind it stays where its listing ended.
LEMMA OverStays ==
  ASSUME TypeInv, [Next]_vars, NEW q \in Runs, Over(q), pc[q] \notin {"idle", "extract", "build"}
  PROVE  Over(q)' /\ pc'[q] \notin {"idle", "extract", "build"}
<1>1. Kept(q) /\ Moves(q)
  BY RunSteps, VisitSteps
<1>. QED BY <1>1 DEF Kept, Moves, Over

\* Only the runner of a run in stage 3 stores an object in its name.
LEMMA StoresOwn ==
  ASSUME TypeInv, [Next]_vars, NEW h \in Hours, NEW q \in {ladder'[h], histo'[h]} \ {0}
  PROVE  q \in {ladder[h], histo[h]} \/ (q \in Runs /\ pc[q] \in {"ladder", "histo"})
<1>. USE DEF TypeInv
<1>1. ASSUME NEW r \in Runs, NEW s \in [Hours -> 0 .. MaxRuns], NEW t \in Written(s, r)
      PROVE  t[h] \in {s[h], r, 0}
  BY <1>1 DEF Written
<1>2. ladder \in [Hours -> 0 .. MaxRuns] /\ histo \in [Hours -> 0 .. MaxRuns]
  BY DEF TypeOK
<1>3. ASSUME UNCHANGED <<ladder, histo>> PROVE q \in {ladder[h], histo[h]}
  <2>1. ladder'[h] = ladder[h] /\ histo'[h] = histo[h]
    BY <1>3
  <2>. QED BY <2>1
<1>4. ASSUME NEW r \in Runs, StoreLadder(r) PROVE q \in {ladder[h], histo[h], r} /\ pc[r] = "ladder"
  BY <1>1, <1>2, <1>4 DEF StoreLadder, NextSlice
<1>5. ASSUME NEW r \in Runs, StoreHisto(r) PROVE q \in {ladder[h], histo[h], r} /\ pc[r] = "histo"
  BY <1>1, <1>2, <1>5 DEF StoreHisto, NextSlice
<1>6. ASSUME NEW r \in Runs, NEW f \in Files, Pool(r, f) \/ Handler(r, f)
      PROVE  UNCHANGED <<ladder, histo>>
  BY <1>6
     DEF Pool, Handler, CallStarts, CallReturns, CallFails, JobMoves, JobStarts, JobStores,
         JobEnds, JobFails, JobDies, modelVars
<1>7. ASSUME NEW r \in Runs, Stages(r), ~StoreLadder(r), ~StoreHisto(r)
      PROVE  UNCHANGED <<ladder, histo>>
  BY <1>7
     DEF Stages, PoolTerminates, AwaitTimesOut, StartBuild, FetchPage, VisitSame, VisitOther,
         LastFlow, EndsListing, Abort, LastSlice, FinalDrain, Ends, modelVars
<1>8. ASSUME NEW r \in Runs, Submit(r) \/ SubmitFails(r) \/ Tick(r) \/ Crash(r)
      PROVE  UNCHANGED <<ladder, histo>>
  BY <1>8 DEF Submit, SubmitFails, Tick, Crash, modelVars
<1>9. UNCHANGED vars => UNCHANGED <<ladder, histo>>
  BY DEF vars, modelVars
<1>10. CASE UNCHANGED <<ladder, histo>>
  BY <1>3, <1>10
<1>11. ASSUME NEW r \in Runs, StoreLadder(r) \/ StoreHisto(r)
      PROVE  q \in {ladder[h], histo[h]} \/ (q \in Runs /\ pc[q] \in {"ladder", "histo"})
  BY <1>4, <1>5, <1>11
<1>. QED BY <1>6, <1>7, <1>8, <1>9, <1>10, <1>11 DEF Next

LEMMA StoredStep ==
  ASSUME TypeInv, StoredInv, [Next]_vars
  PROVE  StoredInv'
<1>1. ASSUME NEW q \in Runs, pc'[q] \in {"ladder", "histo"} PROVE Over(q)'
  <2>1. CASE LastFlow(q)
    BY <2>1, VisitSteps DEF Over
  <2>2. CASE Kept(q) /\ Moves(q)
    BY <1>1, <2>2 DEF Kept, Moves, Over, StoredInv
  <2>. QED BY <1>1, <2>1, <2>2, RunSteps, VisitSteps
<1>2. ASSUME NEW h \in Hours, NEW q \in {ladder'[h], histo'[h]} \ {0}
      PROVE  Over(q)' /\ pc'[q] \notin {"idle", "extract", "build"}
  <2>1. q \in Runs
    <3>1. ladder'[h] \in 0 .. MaxRuns /\ histo'[h] \in 0 .. MaxRuns
      BY TypeStep DEF TypeInv, TypeOK
    <3>. QED BY <1>2, <3>1, WorkflowAssumption DEF Runs
  <2>2. Over(q) /\ pc[q] \notin {"idle", "extract", "build"}
    BY <1>2, <2>1, StoresOwn DEF StoredInv
  <2>. QED BY <2>1, <2>2, OverStays
<1>. QED BY <1>1, <1>2 DEF StoredInv

\* The slices of a ladder or a histogram in storage are of builds that listed everything
\* and made a flow of every group, however many slices there are, whichever of them an
\* exception left out and whatever other runs do (WorkflowRunner.storeLadderModel and
\* storeHistoModel, after buildDataFlowIndexForCorrelations).
THEOREM HistoOfWholeBuilds == Spec => []HistoOfWholeBuild
<1>1. Init => StoredInv
  BY DEF Init, StoredInv
<1>2. TypeInv /\ StoredInv /\ [Next]_vars => StoredInv'
  BY StoredStep
<1>3. Spec => []StoredInv
  BY <1>1, <1>2, Division, PTL DEF Spec
<1>4. ASSUME TypeInv, \A q \in Runs : Divided(q), StoredInv PROVE HistoOfWholeBuild
  <2>1. SUFFICES ASSUME NEW h \in Hours, NEW q \in {ladder[h], histo[h]} \ {0}
                 PROVE  Whole(q)
    BY DEF HistoOfWholeBuild
  <2>2. q \in Runs
    <3>1. ladder[h] \in 0 .. MaxRuns /\ histo[h] \in 0 .. MaxRuns
      BY <1>4 DEF TypeInv, TypeOK
    <3>. QED BY <2>1, <3>1, WorkflowAssumption DEF Runs
  <2>3. Over(q) /\ Divided(q)
    BY <1>4, <2>1, <2>2 DEF StoredInv
  <2>4. Cardinality(Places(built[q], Len(built[q]) + 1)) \in Nat
    BY <2>3, FS_CardinalityType DEF Divided, Finite
  <2>5. Len(listing[q]) = Cardinality(Places(built[q], Len(built[q]) + 1)) + 0 + 0
    BY <2>3 DEF Divided, Partition, Over
  <2>6. FilesBefore(q, Len(built[q]) + 1) = Cardinality(Places(built[q], Len(built[q]) + 1))
    BY DEF FilesBefore, Places
  <2>. QED BY <2>3, <2>4, <2>5, <2>6 DEF Whole, Over
<1>. QED BY <1>3, <1>4, Division, PTL

-----------------------------------------------------------------------------
(* The groups of the listing *)

\* The correlation of a name, as the groups see it.
GroupOf(n) == Lower[FirstWord(n)]

\* The flows of a run are of one correlation each, and two consecutive ones are not.
Grouped(b) ==
  /\ \A i \in DOMAIN b : \A j \in DOMAIN b[i].files : GroupOf(b[i].files[j]) = Lower[b[i].key]
  /\ \A i \in 1 .. Len(b) - 1 : Lower[b[i].key] # Lower[b[i + 1].key]

\* The group in hand is of one correlation.
OneGroup(g) == \A i \in DOMAIN g : GroupOf(g[i]) = GroupOf(g[1])

\* It is not that of the last flow.
GoesOn(b, g) == b # <<>> => g # <<>> /\ GroupOf(g[1]) # Lower[b[Len(b)].key]

GroupInv(q) ==
  /\ Grouped(built[q])
  /\ OneGroup(group[q])
  /\ pc[q] = "build" => GoesOn(built[q], group[q])

\* A flow of the group in hand goes on with the groups of the flows.
LEMMA GroupsGoOn ==
  ASSUME NEW b \in Seq(Flow), NEW g \in Seq(Name), NEW w \in Flow, Grouped(b), OneGroup(g),
         GoesOn(b, g), w.key = FirstWord(g[1]), w.files = g
  PROVE  /\ Grouped(Append(b, w))
         /\ Append(b, w) # <<>>
         /\ Append(b, w)[Len(Append(b, w))] = w
<1>. DEFINE c == Append(b, w)
<1>1. /\ Len(c) = Len(b) + 1
      /\ c[Len(b) + 1] = w
      /\ \A i \in 1 .. Len(b) : c[i] = b[i]
      /\ DOMAIN c = 1 .. Len(b) + 1
      /\ DOMAIN b = 1 .. Len(b)
      /\ Len(b) \in Nat
      /\ c # <<>>
  OBVIOUS
<1>. HIDE DEF c
<1>2. ASSUME NEW i \in DOMAIN c, NEW j \in DOMAIN c[i].files
      PROVE  GroupOf(c[i].files[j]) = Lower[c[i].key]
  <2>1. CASE i = Len(b) + 1
    BY <1>1, <1>2, <2>1 DEF OneGroup, GroupOf
  <2>2. CASE i \in 1 .. Len(b)
    BY <1>1, <1>2, <2>2 DEF Grouped
  <2>. QED BY <1>1, <2>1, <2>2
<1>3. ASSUME NEW i \in 1 .. Len(c) - 1
      PROVE  Lower[c[i].key] # Lower[c[i + 1].key]
  <2>1. CASE i = Len(b)
    <3>1. b # <<>>
      BY <1>1, <1>3, <2>1
    <3>. QED BY <1>1, <2>1, <3>1 DEF GoesOn, GroupOf
  <2>2. CASE i \in 1 .. Len(b) - 1
    BY <1>1, <2>2 DEF Grouped
  <2>3. i \in Nat /\ 1 <= i /\ i <= Len(b) /\ Len(b) \in Nat
    BY <1>1, <1>3
  <2>4. i = Len(b) \/ i \in 1 .. Len(b) - 1
    BY <2>3
  <2>. QED BY <2>1, <2>2, <2>4
<1>4. Grouped(c)
  BY <1>2, <1>3 DEF Grouped
<1>. QED BY <1>1, <1>4 DEF c

LEMMA GroupStep ==
  ASSUME TypeInv, Fresh, NEW q \in Runs, GroupInv(q), [Next]_vars
  PROVE  GroupInv(q)'
<1>. DEFINE b == built[q]
            g == group[q]
            p == page[q]
<1>1. b \in Seq(Flow) /\ g \in Seq(Name) /\ p \in Seq(Name)
  BY DEF TypeInv, TypeOK
<1>2. Grouped(b) /\ OneGroup(g) /\ (pc[q] = "build" => GoesOn(b, g))
  BY DEF GroupInv
<1>3. pc[q] = "extract" => b = <<>> /\ g = <<>>
  BY DEF Fresh
<1>. HIDE DEF b, g, p
<1>4. SUFFICES Grouped(b') /\ OneGroup(g') /\ (pc'[q] = "build" => GoesOn(b', g'))
  BY DEF GroupInv, b, g, p
<1>5. CASE FetchPage(q)
  BY <1>2, <1>5, VisitSteps DEF b, g
<1>6. CASE VisitSame(q)
  <2>1. /\ g' = Append(g, Head(p)) /\ p # <<>> /\ pc[q] = "build"
        /\ g # <<>> => GroupOf(Head(p)) = GroupOf(g[1])
        /\ UNCHANGED b
    BY <1>6, VisitSteps DEF b, g, p, SameGroup, GroupOf
  <2>2. Head(p) \in Name
    BY <1>1, <2>1
  <2>3. CASE g = <<>>
    <3>1. g' = <<Head(p)>> /\ b = <<>>
      BY <1>2, <2>1, <2>3 DEF GoesOn
    <3>. QED BY <1>2, <2>1, <3>1 DEF OneGroup, GoesOn
  <2>4. CASE g # <<>>
    <3>1. /\ g' # <<>> /\ g'[1] = g[1]
          /\ \A i \in DOMAIN g' : (i \in DOMAIN g /\ g'[i] = g[i]) \/ g'[i] = Head(p)
      BY <1>1, <2>1, <2>2, <2>4
    <3>. QED BY <1>2, <2>1, <2>4, <3>1 DEF OneGroup, GoesOn
  <2>. QED BY <2>3, <2>4
<1>7. ASSUME g # <<>>, WriteFlow(q), pc[q] = "build"
      PROVE  Grouped(b') /\ b' # <<>> /\ b'[Len(b')].key = FirstWord(g[1])
  <2>1. PICK w \in Flow : w = FlowOf(g) /\ b' = Append(b, w)
    BY <1>7, FlowType DEF b, g, TypeInv, TypeOK
  <2>2. w.files = g /\ w.key = FirstWord(g[1])
    BY <2>1 DEF FlowOf
  <2>. QED BY <1>1, <1>2, <1>7, <2>1, <2>2, GroupsGoOn
<1>8. CASE VisitOther(q)
  <2>1. /\ g # <<>> /\ WriteFlow(q) /\ g' = <<Head(p)>> /\ pc[q] = "build"
        /\ GroupOf(Head(p)) # GroupOf(g[1])
    BY <1>8, VisitSteps DEF g, p, SameGroup, GroupOf
  <2>2. Grouped(b') /\ b'[Len(b')].key = FirstWord(g[1])
    BY <1>7, <2>1
  <2>. QED BY <2>1, <2>2 DEF OneGroup, GoesOn, GroupOf
<1>9. CASE LastFlow(q)
  <2>1. pc[q] = "build" /\ pc'[q] # "build" /\ g' = <<>>
    BY <1>9, VisitSteps DEF g
  <2>2. Grouped(b')
    <3>1. CASE g = <<>>
      <4>1. UNCHANGED b
        BY <1>9, <3>1, VisitSteps DEF b, g
      <4>. QED BY <1>2, <4>1
    <3>2. CASE g # <<>>
      <4>1. WriteFlow(q)
        BY <1>9, <3>2, VisitSteps DEF g
      <4>. QED BY <1>7, <2>1, <3>2, <4>1
    <3>. QED BY <3>1, <3>2
  <2>. QED BY <2>1, <2>2 DEF OneGroup
<1>10. CASE Kept(q) /\ Moves(q)
  <2>1. UNCHANGED <<b, g>>
    BY <1>10 DEF Kept, b, g
  <2>2. pc'[q] = "build" => GoesOn(b, g)
    BY <1>2, <1>3, <1>10 DEF Moves, GoesOn
  <2>. QED BY <1>2, <2>1, <2>2
<1>. QED BY <1>5, <1>6, <1>8, <1>9, <1>10, RunSteps

\* The files of a flow are all of its correlation, and consecutive flows are of two,
\* for every listing, however its pages cut the groups
\* (WorkflowRunner.buildDataFlowIndexForCorrelations).
THEOREM FlowsOfOneCorrelation == Spec => []FlowsAreGroups
<1>. DEFINE Inv == TypeInv /\ Fresh /\ \A q \in Runs : GroupInv(q)
<1>1. Init => Inv
  BY TypeInit DEF Init, Fresh, GroupInv, Grouped, OneGroup, GoesOn
<1>2. Inv /\ [Next]_vars => Inv'
  BY TypeStep, FreshStep, GroupStep
<1>3. Inv => FlowsAreGroups
  BY DEF FlowsAreGroups, GroupInv, Grouped, GroupOf
<1>. QED BY <1>1, <1>2, <1>3, PTL DEF Spec

-----------------------------------------------------------------------------
(* The order of the listing *)

TimesOrdered(n) == StartOf(n) < EndOf(n)

BucketOrdered == \A n \in bucket : TimesOrdered(n)

\* Of two names a listing may give one after the other.
InOrder(s) == \A i, j \in DOMAIN s : i < j => Before(s[i], s[j])

\* The group in hand and then the page are listed, with their times in order as the
\* extractor made them, and are in the listing's order.
ListingInv(q) ==
  /\ \A i \in DOMAIN group[q] : TimesOrdered(group[q][i]) /\ group[q][i] \in Range(listing[q])
  /\ \A i \in DOMAIN page[q] : TimesOrdered(page[q][i]) /\ page[q][i] \in Range(listing[q])
  /\ InOrder(group[q]) /\ InOrder(page[q])
  /\ \A i \in DOMAIN group[q], j \in DOMAIN page[q] : Before(group[q][i], page[q][j])
  /\ more[q] = "first" => group[q] = <<>> /\ page[q] = <<>>

\* What a step does to the .corr files and the flows that are stored.
LEMMA StoreSteps ==
  ASSUME TypeInv, [Next]_vars
  PROVE  \/ UNCHANGED <<bucket, flows>>
         \/ \E r \in Runs, f \in Files : JobStores(r, f) /\ UNCHANGED flows
         \/ \E r \in Runs : UNCHANGED bucket /\ group[r] # <<>> /\ WriteFlow(r)
<1>1. ASSUME NEW r \in Runs, NEW f \in Files, Pool(r, f) \/ Handler(r, f), ~JobStores(r, f)
      PROVE  UNCHANGED <<bucket, flows>>
  BY <1>1
     DEF Pool, Handler, CallStarts, CallReturns, CallFails, JobMoves, JobStarts, JobEnds,
         JobFails, JobDies, modelVars, jobVars
<1>2. ASSUME NEW r \in Runs, NEW f \in Files, JobStores(r, f) PROVE UNCHANGED flows
  BY <1>2 DEF JobStores, JobMoves, modelVars
<1>3. ASSUME NEW r \in Runs, Submit(r) \/ SubmitFails(r) \/ Tick(r) \/ Crash(r)
      PROVE  UNCHANGED <<bucket, flows>>
  BY <1>3 DEF Submit, SubmitFails, Tick, Crash, jobVars, modelVars
<1>4. ASSUME NEW r \in Runs, VisitOther(r)
      PROVE  UNCHANGED bucket /\ group[r] # <<>> /\ WriteFlow(r)
  BY <1>4, VisitSteps
<1>5. ASSUME NEW r \in Runs, LastFlow(r)
      PROVE  \/ UNCHANGED <<bucket, flows>>
             \/ UNCHANGED bucket /\ group[r] # <<>> /\ WriteFlow(r)
  BY <1>5, VisitSteps
<1>6. ASSUME NEW r \in Runs, Stages(r), ~VisitOther(r), ~LastFlow(r)
      PROVE  UNCHANGED <<bucket, flows>>
  BY <1>6
     DEF Stages, PoolTerminates, AwaitTimesOut, StartBuild, FetchPage, VisitSame, Abort,
         StoreLadder, StoreHisto, LastSlice, FinalDrain, Ends, jobVars, modelVars
<1>7. UNCHANGED vars => UNCHANGED <<bucket, flows>>
  BY DEF vars, jobVars, modelVars
<1>. QED BY <1>1, <1>2, <1>3, <1>4, <1>5, <1>6, <1>7 DEF Next

\* What the handlers store has its times in order.
LEMMA BucketStep ==
  ASSUME TypeInv, BucketOrdered, [Next]_vars
  PROVE  BucketOrdered'
<1>1. ASSUME NEW r \in Runs, NEW f \in Files, JobStores(r, f) PROVE BucketOrdered'
  <2>1. pos[<<r, f>>] \in Nat /\ pos'[<<r, f>>] = pos[<<r, f>>] + 1
    BY <1>1 DEF JobStores, TypeInv, TypeOK, Calls
  <2>2. pos'[<<r, f>>] \in DOMAIN Segments[f]
    <3>1. Segments[f] \in Seq(Name) /\ pos[<<r, f>>] < Len(Segments[f])
      BY <1>1, WorkflowAssumption DEF JobStores
    <3>2. DOMAIN Segments[f] = 1 .. Len(Segments[f]) /\ Len(Segments[f]) \in Nat
      BY <3>1
    <3>. QED BY <2>1, <3>1, <3>2
  <2>3. TimesOrdered(Segments[f][pos'[<<r, f>>]])
    BY <2>2, NamesOrderedAssumption DEF TimesOrdered
  <2>. QED BY <1>1, <2>3 DEF JobStores, BucketOrdered
<1>2. CASE UNCHANGED bucket
  BY <1>2 DEF BucketOrdered
<1>. QED BY <1>1, <1>2, StoreSteps

\* A page begins after all that is listed.
LEMMA PageOrder ==
  ASSUME UtfOrder, TypeInv, BucketOrdered, NEW q \in Runs, ListingInv(q), FetchPage(q)
  PROVE  /\ InOrder(page'[q])
         /\ \A i \in DOMAIN page'[q] : TimesOrdered(page'[q][i]) /\ page'[q][i] \in Range(listing'[q])
         /\ \A i \in DOMAIN group[q], j \in DOMAIN page'[q] : Before(group[q][i], page'[q][j])
         /\ \A n \in Range(listing[q]) : n \in Range(listing'[q])
<1>. DEFINE l == listing[q]
            p == page'[q]
            m == listing'[q]
<1>1. /\ p \in Seq(Name) /\ m = l \o p /\ l \in Seq(Name)
      /\ \A i \in DOMAIN p : p[i] \in Left(q)
  BY PageType DEF TypeInv, TypeOK
<1>2. InOrder(p)
  <2>1. PICK S \in kSubset(Min({PageSize, Cardinality(Left(q))}), Left(q)) :
          \E s \in Orders(S) : page' = [page EXCEPT ![q] = s]
    BY DEF FetchPage
  <2>2. PICK s \in Orders(S) : page' = [page EXCEPT ![q] = s]
    BY <2>1
  <2>3. p = s
    BY <2>2 DEF TypeInv, TypeOK
  <2>. QED BY UtfOrder, <2>3 DEF Orders, InOrder
<1>3. \A i \in DOMAIN p : TimesOrdered(p[i])
  <2>1. Left(q) \subseteq bucket \cup Foreign
    BY DEF Left
  <2>. QED BY <1>1, <2>1, NamesOrderedAssumption DEF BucketOrdered, TimesOrdered
<1>. HIDE DEF l, p, m
<1>4. \A i \in DOMAIN p : p[i] \in Range(m)
  <2>1. SUFFICES ASSUME NEW i \in DOMAIN p PROVE p[i] \in Range(m)
    OBVIOUS
  <2>2. m[Len(l) + i] = p[i] /\ Len(l) + i \in DOMAIN m
    BY <1>1
  <2>. QED BY <2>2 DEF Range
<1>5. \A n \in Range(l) : n \in Range(m)
  <2>1. SUFFICES ASSUME NEW i \in DOMAIN l PROVE l[i] \in Range(m)
    BY DEF Range
  <2>2. m[i] = l[i] /\ i \in DOMAIN m
    BY <1>1
  <2>. QED BY <2>2 DEF Range
<1>6. ASSUME NEW i \in DOMAIN group[q], NEW j \in DOMAIN p PROVE Before(group[q][i], p[j])
  <2>1. more[q] # "first" /\ group[q][i] \in Range(l)
    BY DEF ListingInv, l
  <2>2. PICK k \in DOMAIN l : group[q][i] = l[k]
    BY <2>1 DEF Range
  <2>3. p[j] \in Left(q)
    BY <1>1
  <2>. QED BY <2>1, <2>2, <2>3 DEF Left, l
<1>. QED BY <1>2, <1>3, <1>4, <1>5, <1>6 DEF l, p, m

\* The head of the page, taken off it, is before what is left of it.
LEMMA PageHead ==
  ASSUME TypeInv, NEW q \in Runs, ListingInv(q), page[q] # <<>>
  PROVE  /\ TimesOrdered(Head(page[q])) /\ Head(page[q]) \in Range(listing[q])
         /\ \A j \in DOMAIN Tail(page[q]) :
              /\ TimesOrdered(Tail(page[q])[j]) /\ Tail(page[q])[j] \in Range(listing[q])
              /\ Before(Head(page[q]), Tail(page[q])[j])
              /\ \E k \in DOMAIN page[q] : Tail(page[q])[j] = page[q][k]
         /\ InOrder(Tail(page[q]))
<1>. DEFINE p == page[q]
<1>1. p \in Seq(Name) /\ Len(p) \in Nat /\ Len(p) > 0 /\ DOMAIN p = 1 .. Len(p)
  BY DEF TypeInv, TypeOK
<1>2. InOrder(p) /\ \A i \in DOMAIN p : TimesOrdered(p[i]) /\ p[i] \in Range(listing[q])
  BY DEF ListingInv
<1>. HIDE DEF p
<1>3. Head(p) = p[1] /\ 1 \in DOMAIN p
  BY <1>1
<1>4. \A j \in DOMAIN Tail(p) : j \in Nat /\ j >= 1 /\ j + 1 \in DOMAIN p /\ Tail(p)[j] = p[j + 1]
  BY <1>1
<1>5. InOrder(Tail(p))
  <2>1. SUFFICES ASSUME NEW i \in DOMAIN Tail(p), NEW j \in DOMAIN Tail(p), i < j
                 PROVE  Before(Tail(p)[i], Tail(p)[j])
    BY DEF InOrder
  <2>2. i + 1 < j + 1
    BY <1>4, <2>1
  <2>. QED BY <1>2, <1>4, <2>2 DEF InOrder
<1>6. ASSUME NEW j \in DOMAIN Tail(p) PROVE Before(Head(p), Tail(p)[j])
  <2>1. 1 < j + 1
    BY <1>4
  <2>. QED BY <1>2, <1>3, <1>4, <2>1 DEF InOrder
<1>. QED BY <1>2, <1>3, <1>4, <1>5, <1>6 DEF p

LEMMA ConcatFirst ==
  ASSUME NEW S, NEW s \in Seq(S), NEW t \in Seq(S)
  PROVE  /\ s \o t \in Seq(S)
         /\ Len(s \o t) = Len(s) + Len(t)
         /\ \A i \in 1 .. Len(s) : (s \o t)[i] = s[i]
OBVIOUS

LEMMA ThreeParts ==
  ASSUME NEW S, NEW a \in Seq(S), NEW w \in Seq(S), NEW c \in Seq(S), Len(a) >= 2
  PROVE  /\ Len(a \o w \o c) = Len(a) + Len(w) + Len(c)
         /\ (a \o w \o c)[1] = a[1]
         /\ (a \o w \o c)[2] = a[2]
<1>1. /\ a \o w \in Seq(S) /\ Len(a \o w) = Len(a) + Len(w)
      /\ \A i \in 1 .. Len(a) : (a \o w)[i] = a[i]
  BY ConcatFirst
<1>2. /\ Len((a \o w) \o c) = Len(a \o w) + Len(c)
      /\ \A i \in 1 .. Len(a \o w) : ((a \o w) \o c)[i] = (a \o w)[i]
  BY <1>1, ConcatFirst
<1>3. /\ Len(a) \in Nat /\ Len(w) \in Nat
      /\ 1 \in 1 .. Len(a) /\ 2 \in 1 .. Len(a)
      /\ 1 \in 1 .. Len(a \o w) /\ 2 \in 1 .. Len(a \o w)
  BY <1>1
<1>. QED BY <1>1, <1>2, <1>3

\* In a name whose id has no delimiter the times are found where they are.
LEMMA TimesFound ==
  ASSUME NEW n \in Name, Len(Parts[KeyOf(n)]) = 1
  PROVE  StartIn(n) = StartOf(n) /\ EndIn(n) = EndOf(n)
<1>. DEFINE words == Parts[KeyOf(n)]
            numbers == [i \in DOMAIN words |-> Number[words[i]]]
<1>1. words \in Seq(Words) /\ Len(words) = 1 /\ DOMAIN words = 1 .. 1
  <2>1. KeyOf(n) \in Keys
    BY DEF Name, KeyOf
  <2>. QED BY <2>1, WorkflowAssumption
<1>2. numbers \in Seq(Int \cup {NaN}) /\ Len(numbers) = 1
  BY <1>1, WorkflowAssumption
<1>3. Fields(n) = <<StartOf(n), EndOf(n)>> \o numbers \o <<NaN>>
  BY DEF Fields
<1>4. StartOf(n) \in Int \cup {NaN} /\ EndOf(n) \in Int \cup {NaN}
  BY DEF Name, StartOf, EndOf
<1>. HIDE DEF words, numbers
<1>5. /\ Len(Fields(n)) = 4
      /\ Fields(n)[1] = StartOf(n) /\ Fields(n)[2] = EndOf(n)
  <2>. DEFINE T == Int \cup {NaN}
              a == <<StartOf(n), EndOf(n)>>
              c == <<NaN>>
  <2>1. a \in Seq(T) /\ c \in Seq(T) /\ Len(a) >= 2
    BY <1>4
  <2>2. Len(a) = 2 /\ a[1] = StartOf(n) /\ a[2] = EndOf(n) /\ Len(c) = 1
    OBVIOUS
  <2>3. numbers \in Seq(T) /\ Fields(n) = a \o numbers \o c
    BY <1>2, <1>3
  <2>4. Len(numbers) = 1
    BY <1>2
  <2>. HIDE DEF T, a, c
  <2>5. /\ Len(Fields(n)) = Len(a) + Len(numbers) + Len(c)
        /\ Fields(n)[1] = a[1] /\ Fields(n)[2] = a[2]
    BY <2>1, <2>3, ThreeParts
  <2>. QED BY <2>2, <2>4, <2>5
<1>. QED BY <1>5 DEF StartIn, EndIn

\* A flow of the group in hand, if it is of this model, has its times in order.
LEMMA FlowInOrder ==
  ASSUME TypeInv, NEW q \in Runs, ListingInv(q), FlowTimesOrdered, group[q] # <<>>, WriteFlow(q)
  PROVE  FlowTimesOrdered'
<1>. DEFINE g == group[q]
            w == FlowOf(g)
<1>1. g \in Seq(Name) /\ Len(g) \in Nat /\ Len(g) > 0 /\ DOMAIN g = 1 .. Len(g) /\ g # <<>>
  BY DEF TypeInv, TypeOK
<1>2. InOrder(g) /\ \A i \in DOMAIN g : StartOf(g[i]) < EndOf(g[i])
  BY DEF ListingInv, TimesOrdered
<1>3. flows' \in {flows,
                  [n \in DOMAIN flows \cup {FlowName(w)} |->
                     IF n = FlowName(w) THEN w ELSE flows[n]]}
  BY DEF WriteFlow
<1>. HIDE DEF g
<1>4. 1 \in DOMAIN g /\ Len(g) \in DOMAIN g /\ g[1] \in Name /\ g[Len(g)] \in Name
  BY <1>1
<1>5. /\ StartOf(g[1]) \in Nat
      /\ StartOf(g[Len(g)]) \in Nat
      /\ EndOf(g[Len(g)]) \in Nat
  BY <1>4 DEF Name, StartOf, EndOf
<1>6. StartOf(g[Len(g)]) < EndOf(g[Len(g)])
  BY <1>2, <1>4
<1>7. ASSUME OfThisModel(w), PlainIds(w) PROVE w.start < w.end
  <2>1. w.files = g /\ w.start = StartIn(g[1]) /\ w.end = EndIn(g[Len(g)])
    BY DEF FlowOf
  <2>2. /\ g[1][1] = 1 /\ g[Len(g)][1] = 1
        /\ Len(Parts[KeyOf(g[1])]) = 1 /\ Len(Parts[KeyOf(g[Len(g)])]) = 1
    BY <1>4, <1>7, <2>1 DEF OfThisModel, PlainIds
  <2>3. w.start = StartOf(g[1]) /\ w.end = EndOf(g[Len(g)])
    BY <1>4, <2>1, <2>2, TimesFound
  <2>4. StartOf(g[1]) <= StartOf(g[Len(g)])
    <3>1. CASE Len(g) = 1
      BY <1>5, <3>1
    <3>2. CASE Len(g) # 1
      <4>1. 1 < Len(g)
        BY <1>1, <3>2
      <4>2. Before(g[1], g[Len(g)])
        BY <1>2, <1>4, <4>1 DEF InOrder
      <4>. QED BY <1>5, <2>2, <4>2 DEF Before
    <3>. QED BY <3>1, <3>2
  <2>. QED BY <1>5, <1>6, <2>3, <2>4
<1>. HIDE DEF w
<1>8. ASSUME NEW n \in DOMAIN flows'
      PROVE  flows'[n] = w \/ (n \in DOMAIN flows /\ flows'[n] = flows[n])
  BY <1>3, <1>8
<1>. QED BY <1>7, <1>8 DEF FlowTimesOrdered, OfThisModel, PlainIds

LEMMA TimesStep ==
  ASSUME TypeInv, \A q \in Runs : ListingInv(q), FlowTimesOrdered, [Next]_vars
  PROVE  FlowTimesOrdered'
<1>1. CASE UNCHANGED flows
  BY <1>1 DEF FlowTimesOrdered
<1>. QED BY <1>1, StoreSteps, FlowInOrder

LEMMA ListingStep ==
  ASSUME UtfOrder, TypeInv, BucketOrdered, NEW q \in Runs, ListingInv(q), [Next]_vars
  PROVE  ListingInv(q)'
<1>. DEFINE g == group[q]
            p == page[q]
            l == listing[q]
<1>1. g \in Seq(Name) /\ p \in Seq(Name)
  BY DEF TypeInv, TypeOK
<1>2. CASE FetchPage(q)
  <2>1. UNCHANGED g /\ more'[q] # "first"
    BY <1>2, VisitSteps
  <2>. QED BY <1>2, <2>1, PageOrder DEF ListingInv, InOrder
<1>3. CASE VisitSame(q)
  <2>1. /\ p # <<>> /\ g' = Append(g, Head(p)) /\ p' = Tail(p)
        /\ UNCHANGED <<l, more>>
    BY <1>3, VisitSteps
  <2>2. Head(p) \in Name /\ 1 \in DOMAIN p /\ Head(p) = p[1]
    BY <1>1, <2>1
  <2>3. /\ DOMAIN g' = 1 .. Len(g) + 1 /\ DOMAIN g = 1 .. Len(g) /\ Len(g) \in Nat
        /\ g'[Len(g) + 1] = Head(p)
        /\ \A i \in 1 .. Len(g) : g'[i] = g[i]
    BY <1>1, <2>1, <2>2
  <2>4. /\ \A i \in DOMAIN g : TimesOrdered(g[i]) /\ g[i] \in Range(l)
        /\ InOrder(g) /\ \A i \in DOMAIN g, j \in DOMAIN p : Before(g[i], p[j])
        /\ more[q] = "first" => p = <<>>
    BY DEF ListingInv
  <2>5. /\ TimesOrdered(Head(p)) /\ Head(p) \in Range(l)
        /\ \A j \in DOMAIN Tail(p) :
             /\ TimesOrdered(Tail(p)[j]) /\ Tail(p)[j] \in Range(l)
             /\ Before(Head(p), Tail(p)[j])
             /\ \E k \in DOMAIN p : Tail(p)[j] = p[k]
        /\ InOrder(Tail(p))
    BY <2>1, PageHead
  <2>. HIDE DEF g, p, l
  <2>6. \A i \in DOMAIN g' : TimesOrdered(g'[i]) /\ g'[i] \in Range(l)
    BY <2>3, <2>4, <2>5
  <2>7. InOrder(g')
    <3>1. SUFFICES ASSUME NEW i \in DOMAIN g', NEW j \in DOMAIN g', i < j
                   PROVE  Before(g'[i], g'[j])
      BY DEF InOrder
    <3>2. i \in DOMAIN g /\ g'[i] = g[i]
      BY <2>3, <3>1
    <3>3. CASE j = Len(g) + 1
      BY <2>2, <2>3, <2>4, <3>2, <3>3
    <3>4. CASE j \in DOMAIN g
      BY <2>3, <2>4, <3>1, <3>2, <3>4 DEF InOrder
    <3>. QED BY <2>3, <3>3, <3>4
  <2>8. ASSUME NEW i \in DOMAIN g', NEW j \in DOMAIN p' PROVE Before(g'[i], p'[j])
    <3>1. CASE i = Len(g) + 1
      BY <2>1, <2>3, <2>5, <3>1
    <3>2. CASE i \in DOMAIN g
      BY <2>1, <2>3, <2>4, <2>5, <3>2
    <3>. QED BY <2>3, <3>1, <3>2
  <2>9. more'[q] # "first"
    BY <2>1, <2>4
  <2>10. \A j \in DOMAIN p' : TimesOrdered(p'[j]) /\ p'[j] \in Range(l)
    BY <2>1, <2>5
  <2>11. InOrder(p')
    BY <2>1, <2>5
  <2>. QED BY <2>1, <2>6, <2>7, <2>8, <2>9, <2>10, <2>11 DEF ListingInv, g, p, l
<1>4. CASE VisitOther(q)
  <2>1. /\ p # <<>> /\ g' = <<Head(p)>> /\ p' = Tail(p) /\ UNCHANGED <<l, more>>
    BY <1>4, VisitSteps
  <2>2. DOMAIN g' = {1} /\ g'[1] = Head(p)
    BY <2>1
  <2>3. InOrder(g')
    BY <2>2 DEF InOrder
  <2>4. more'[q] # "first"
    BY <2>1 DEF ListingInv
  <2>. QED BY <2>1, <2>2, <2>3, <2>4, PageHead DEF ListingInv
<1>5. CASE LastFlow(q)
  <2>1. g' = <<>> /\ UNCHANGED <<p, l, more>>
    BY <1>5, VisitSteps
  <2>. QED BY <2>1 DEF ListingInv, InOrder
<1>6. CASE Kept(q)
  BY <1>6 DEF Kept, ListingInv, InOrder
<1>. QED BY <1>2, <1>3, <1>4, <1>5, <1>6, RunSteps

\* With a storage that lists in UTF-binary order, the stored flows of this model whose
\* ids have no delimiter have their start before their end, however the listing is cut
\* into pages and whatever is stored between two of them (Storage.java:51, FlowInfo's
\* times).
THEOREM FlowTimes == ASSUME UtfOrder PROVE Spec => []FlowTimesOrdered
<1>. DEFINE Inv == TypeInv /\ BucketOrdered /\ (\A q \in Runs : ListingInv(q)) /\ FlowTimesOrdered
<1>1. Init => Inv
  BY TypeInit DEF Init, BucketOrdered, ListingInv, InOrder, FlowTimesOrdered
<1>2. Inv /\ [Next]_vars => Inv'
  BY UtfOrder, TypeStep, BucketStep, ListingStep, TimesStep
<1>3. Inv => FlowTimesOrdered
  OBVIOUS
<1>. QED BY <1>1, <1>2, <1>3, PTL DEF Spec

-----------------------------------------------------------------------------
(* Whether the build sees every file *)

\* Nothing has happened yet in a submit to come.
NotYet ==
  \A q \in Runs : pc[q] = "idle" =>
    taken[q] = {} /\ \A f \in Files : task[<<q, f>>] = "none" /\ job[<<q, f>>] = "none"

\* Only the files taken have a task, and once the build has started the pool is over,
\* unless a call failed, the wait timed out or the process was stopped.
PoolInv(q) ==
  /\ \A f \in Files \ taken[q] : task[<<q, f>>] = "none"
  /\ pc[q] \notin {"idle", "extract"} /\ q \notin troubled => PoolOver(q)

\* What a handler has stored is in the bucket, and a handler that ended, or whose call
\* did, has stored every file, unless its run is troubled.
JobInv ==
  \A r \in Runs, f \in Files :
    /\ \A i \in DOMAIN Segments[f] : i <= pos[<<r, f>>] => Segments[f][i] \in bucket
    /\ r \notin troubled /\ "ended" \in {task[<<r, f>>], job[<<r, f>>]}
         => pos[<<r, f>>] = Len(Segments[f])

Listed(q, n) == \E i \in DOMAIN listing[q] : listing[q][i] = n

\* A page to come begins before n.
ToCome(q, n) ==
  \/ more[q] = "first"
  \/ more[q] = "more" /\ \A i \in DOMAIN listing[q] : Before(listing[q][i], n)

\* What the build needs is listed or to come, and at the end of the listing listed.
SeenInv(q) ==
  /\ more[q] = "first" => listing[q] = <<>>
  /\ q \notin troubled \cup aborted =>
       \A f \in taken[q] : \A i \in DOMAIN Segments[f] :
         /\ pc[q] = "build" => Listed(q, Segments[f][i]) \/ ToCome(q, Segments[f][i])
         /\ pc[q] \in {"ladder", "histo", "drain", "done"} => Listed(q, Segments[f][i])

PoolsInv == NotYet /\ (\A q \in Runs : PoolInv(q)) /\ JobInv /\ StatusDrained
CompleteInv == Fresh /\ PoolsInv /\ \A q \in Runs : SeenInv(q)

LEMMA PcSteps ==
  ASSUME TypeInv, [Next]_vars, NEW q \in Runs
  PROVE  Moves(q) \/ (pc[q] = "build" /\ pc'[q] = "ladder")
BY RunSteps, VisitSteps DEF Moves

\* What a step of a call and its handler leaves alone, and from where it starts.
LEMMA CallStep ==
  ASSUME TypeInv, NEW r \in Runs, NEW f \in Files, Pool(r, f) \/ Handler(r, f)
  PROVE  /\ UNCHANGED <<pc, taken>>
         /\ \A c \in Calls : c # <<r, f>> =>
              task'[c] = task[c] /\ job'[c] = job[c] /\ pos'[c] = pos[c]
         /\ task[<<r, f>>] # "none" \/ job[<<r, f>>] # "none"
         /\ task'[<<r, f>>] = task[<<r, f>>] \/ task[<<r, f>>] \in {"queued", "calling"}
         /\ \A x \in Runs : status'[x] = status[x] \/ (x = r /\ task[<<r, f>>] = "calling")
         /\ bucket \subseteq bucket' /\ troubled \subseteq troubled' /\ aborted' = aborted
<1>. USE DEF TypeInv
<1>1. <<r, f>> \in Calls
  BY DEF Calls
<1>2. CASE CallStarts(r, f)
  BY <1>1, <1>2 DEF CallStarts, TypeOK, queueVars, historyVars
<1>3. CASE CallReturns(r, f) \/ CallFails(r, f)
  BY <1>1, <1>3 DEF CallReturns, CallFails, TaskEnds, TypeOK, jobVars, historyVars
<1>4. ASSUME NEW from \in {"sent", "running"}, NEW to, JobMoves(r, f, from, to)
      PROVE  /\ UNCHANGED <<pc, taken, task, status, aborted>>
             /\ \A c \in Calls : c # <<r, f>> => job'[c] = job[c]
             /\ job[<<r, f>>] # "none"
  BY <1>1, <1>4 DEF JobMoves, TypeOK, poolVars, queueVars
<1>5. CASE JobStarts(r, f) \/ JobEnds(r, f) \/ JobFails(r, f) \/ JobDies(r, f)
  BY <1>4, <1>5 DEF JobStarts, JobEnds, JobFails, JobDies
<1>6. CASE JobStores(r, f)
  <2>1. /\ JobMoves(r, f, "running", "running")
        /\ pos' = [pos EXCEPT ![<<r, f>>] = @ + 1]
        /\ bucket \subseteq bucket' /\ UNCHANGED troubled
    BY <1>6 DEF JobStores
  <2>. QED BY <1>4, <2>1 DEF TypeOK
<1>. QED BY <1>2, <1>3, <1>5, <1>6 DEF Pool, Handler

\* How far a step of a call brings it.
LEMMA CallGoesOn ==
  ASSUME TypeInv, NEW r \in Runs, NEW f \in Files, Pool(r, f) \/ Handler(r, f), r \notin troubled'
  PROVE  \/ /\ task'[<<r, f>>] = "calling" /\ job'[<<r, f>>] = "sent"
            /\ UNCHANGED <<pos, bucket>>
         \/ /\ job[<<r, f>>] = "ended" /\ job'[<<r, f>>] = "ended"
            /\ UNCHANGED <<pos, bucket>>
         \/ /\ job'[<<r, f>>] = "running" /\ UNCHANGED <<task, pos, bucket>>
         \/ /\ job'[<<r, f>>] = "running" /\ UNCHANGED task
            /\ pos[<<r, f>>] < Len(Segments[f])
            /\ pos'[<<r, f>>] = pos[<<r, f>>] + 1
            /\ bucket' = bucket \cup {Segments[f][pos[<<r, f>>] + 1]}
         \/ pos[<<r, f>>] = Len(Segments[f]) /\ UNCHANGED <<pos, bucket>>
<1>. USE DEF TypeInv
<1>1. <<r, f>> \in Calls
  BY DEF Calls
<1>2. CASE CallStarts(r, f)
  BY <1>1, <1>2 DEF CallStarts, TypeOK
<1>3. CASE CallReturns(r, f)
  BY <1>3 DEF CallReturns, jobVars
<1>4. CASE CallFails(r, f) \/ JobFails(r, f) \/ JobDies(r, f)
  BY <1>4 DEF CallFails, JobFails, JobDies
<1>5. CASE JobStarts(r, f)
  BY <1>1, <1>5 DEF JobStarts, JobMoves, TypeOK, poolVars
<1>6. CASE JobStores(r, f)
  <2>1. pos' = [pos EXCEPT ![<<r, f>>] = @ + 1] /\ job' = [job EXCEPT ![<<r, f>>] = "running"]
    BY <1>6 DEF JobStores, JobMoves
  <2>2. pos'[<<r, f>>] = pos[<<r, f>>] + 1 /\ job'[<<r, f>>] = "running"
    BY <1>1, <2>1 DEF TypeOK
  <2>. QED BY <1>6, <2>2 DEF JobStores, JobMoves, poolVars
<1>7. CASE JobEnds(r, f)
  BY <1>7 DEF JobEnds
<1>. QED BY <1>2, <1>3, <1>4, <1>5, <1>6, <1>7 DEF Pool, Handler

\* Every other step leaves the pools and the handlers alone; stage 2 begins when a pool
\* is over or the wait for it is, and a run ends with an empty queue.
Quiet ==
  /\ UNCHANGED <<poolVars, jobVars>>
  /\ troubled \subseteq troubled' /\ aborted \subseteq aborted'
  /\ \A q \in Runs :
       /\ pc[q] = "extract" /\ pc'[q] = "build" => PoolOver(q) \/ q \in troubled'
       /\ status'[q] = status[q] \/ status'[q] = 0 \/ pc'[q] = "ladder"
       /\ pc[q] # "done" /\ pc'[q] = "done" => status'[q] = 0

LEMMA PoolSteps ==
  ASSUME TypeInv, [Next]_vars
  PROVE  \/ \E r \in Runs : Submit(r)
         \/ \E r \in Runs, f \in Files : Pool(r, f) \/ Handler(r, f)
         \/ \E r \in Runs : Crash(r)
         \/ Quiet
<1>. USE DEF TypeInv, TypeOK
<1>1. ASSUME UNCHANGED <<poolVars, jobVars, pc, status>>, troubled \subseteq troubled', aborted \subseteq aborted'
      PROVE  Quiet
  BY <1>1 DEF Quiet
<1>2. CASE UNCHANGED vars
  BY <1>1, <1>2 DEF vars, queueVars, historyVars
<1>3. ASSUME NEW r \in Runs, NEW from, NEW to, Goes(r, from, to), UNCHANGED <<poolVars, jobVars>>,
              troubled \subseteq troubled', aborted \subseteq aborted',
              from = "extract" /\ to = "build" => PoolOver(r) \/ r \in troubled',
              \A q \in Runs \ {r} : status'[q] = status[q],
              status'[r] = status[r] \/ status'[r] = 0 \/ to = "ladder",
              to = "done" => status'[r] = 0
       PROVE  Quiet
  <2>1. pc[r] = from /\ pc'[r] = to /\ \A q \in Runs \ {r} : pc'[q] = pc[q]
    BY <1>3, GoesMoves
  <2>2. ASSUME NEW q \in Runs
        PROVE  /\ pc[q] = "extract" /\ pc'[q] = "build" => PoolOver(q) \/ q \in troubled'
               /\ status'[q] = status[q] \/ status'[q] = 0 \/ pc'[q] = "ladder"
               /\ pc[q] # "done" /\ pc'[q] = "done" => status'[q] = 0
    <3>1. CASE q = r
      BY <1>3, <2>1, <3>1
    <3>2. CASE q # r
      BY <1>3, <2>1, <3>2
    <3>. QED BY <3>1, <3>2
  <2>. QED BY <1>3, <2>2 DEF Quiet
<1>4. ASSUME NEW r \in Runs, SubmitFails(r) PROVE Quiet
  <2>1. Goes(r, "idle", "drain") /\ UNCHANGED <<poolVars, jobVars, status, troubled>> /\ aborted \subseteq aborted'
    BY <1>4 DEF SubmitFails, Begins
  <2>. QED BY <2>1, <1>3
<1>5. ASSUME NEW r \in Runs, Tick(r) PROVE Quiet
  BY <1>5 DEF Tick, Quiet, historyVars
<1>6. ASSUME NEW r \in Runs, PoolTerminates(r) \/ AwaitTimesOut(r) PROVE Quiet
  <2>1. /\ Goes(r, "extract", "build") /\ UNCHANGED <<poolVars, jobVars, status, aborted>>
        /\ troubled \subseteq troubled' /\ (PoolOver(r) \/ r \in troubled')
    BY <1>6 DEF PoolTerminates, AwaitTimesOut, StartBuild, queueVars
  <2>. QED BY <2>1, <1>3
<1>7. ASSUME NEW r \in Runs, FetchPage(r) \/ VisitSame(r) \/ VisitOther(r) PROVE Quiet
  BY <1>1, <1>7 DEF FetchPage, VisitSame, VisitOther, queueVars, historyVars
<1>8. ASSUME NEW r \in Runs, LastFlow(r) PROVE Quiet
  <2>1. /\ Goes(r, "build", "ladder") /\ UNCHANGED <<poolVars, jobVars, troubled, aborted>>
        /\ \A q \in Runs \ {r} : status'[q] = status[q]
    BY <1>8 DEF LastFlow, EndsListing, historyVars
  <2>. QED BY <2>1, <1>3
<1>9. ASSUME NEW r \in Runs, Abort(r) PROVE Quiet
  <2>1. PICK st \in {"build", "ladder", "histo"} : Goes(r, st, "drain")
    BY <1>9 DEF Abort
  <2>2. UNCHANGED <<poolVars, jobVars, status, troubled>> /\ aborted \subseteq aborted'
    BY <1>9 DEF Abort, queueVars
  <2>. QED BY <2>1, <2>2, <1>3
<1>10. ASSUME NEW r \in Runs, StoreLadder(r) \/ StoreHisto(r) PROVE Quiet
  BY <1>1, <1>10 DEF StoreLadder, StoreHisto, NextSlice, queueVars, historyVars
<1>11. ASSUME NEW r \in Runs, LastSlice(r) PROVE Quiet
  <2>1. Goes(r, "ladder", "histo") \/ Goes(r, "histo", "drain")
    BY <1>11 DEF LastSlice
  <2>2. UNCHANGED <<poolVars, jobVars, status, troubled, aborted>>
    BY <1>11 DEF LastSlice, queueVars, historyVars
  <2>. QED BY <2>1, <2>2, <1>3
<1>12. ASSUME NEW r \in Runs, FinalDrain(r) PROVE Quiet
  <2>1. /\ Goes(r, "drain", "done") /\ UNCHANGED <<poolVars, jobVars, troubled, aborted>>
        /\ status'[r] = 0 /\ \A q \in Runs \ {r} : status'[q] = status[q]
    BY <1>12 DEF FinalDrain, Ends, historyVars
  <2>. QED BY <2>1, <1>3
<1>. QED
  BY <1>2, <1>4, <1>5, <1>6, <1>7, <1>8, <1>9, <1>10, <1>11, <1>12 DEF Next, Stages

\* A step of a call keeps the account of the pools and of the handlers.
LEMMA PoolsInvCall ==
  ASSUME TypeInv, PoolsInv, NEW r \in Runs, NEW f \in Files, Pool(r, f) \/ Handler(r, f)
  PROVE  PoolsInv'
<1>. USE DEF PoolsInv
<1>1. /\ UNCHANGED <<pc, taken>>
      /\ \A c \in Calls : c # <<r, f>> =>
           task'[c] = task[c] /\ job'[c] = job[c] /\ pos'[c] = pos[c]
      /\ task[<<r, f>>] # "none" \/ job[<<r, f>>] # "none"
      /\ task'[<<r, f>>] = task[<<r, f>>] \/ task[<<r, f>>] \in {"queued", "calling"}
      /\ \A x \in Runs : status'[x] = status[x] \/ (x = r /\ task[<<r, f>>] = "calling")
      /\ bucket \subseteq bucket' /\ troubled \subseteq troubled'
  BY CallStep
<1>2. <<r, f>> \in Calls /\ \A x \in Runs, g \in Files : <<x, g>> \in Calls
  BY DEF Calls
<1>3. NotYet'
  <2>1. pc[r] # "idle"
    BY <1>1 DEF NotYet
  <2>2. SUFFICES ASSUME NEW x \in Runs, NEW g \in Files, pc[x] = "idle"
                 PROVE  task'[<<x, g>>] = "none" /\ job'[<<x, g>>] = "none"
    BY <1>1 DEF NotYet
  <2>3. <<x, g>> # <<r, f>>
    BY <2>1, <2>2
  <2>. QED BY <1>1, <1>2, <2>2, <2>3 DEF NotYet
<1>4. \A x \in Runs, g \in Files :
        task[<<x, g>>] \in {"none", "ended"} => task'[<<x, g>>] = task[<<x, g>>]
  BY <1>1, <1>2
<1>5. ASSUME NEW x \in Runs PROVE PoolInv(x)'
  <2>1. taken[x] \subseteq Files
    BY DEF TypeInv, TypeOK
  <2>. QED BY <1>1, <1>4, <2>1 DEF PoolInv, PoolOver
<1>6. StatusDrained'
  <2>1. SUFFICES ASSUME NEW x \in Runs, pc[x] = "done", x \notin troubled PROVE status'[x] = 0
    BY <1>1 DEF StatusDrained
  <2>2. PoolOver(x) /\ \A g \in Files \ taken[x] : task[<<x, g>>] = "none"
    BY <2>1 DEF PoolInv
  <2>3. status[x] = 0
    BY <2>1, <2>2 DEF StatusDrained
  <2>4. x = r => task[<<r, f>>] # "calling"
    BY <2>2 DEF PoolOver
  <2>. QED BY <1>1, <2>3, <2>4
<1>7. ASSUME NEW x \in Runs, NEW g \in Files, <<x, g>> # <<r, f>>
      PROVE  /\ \A i \in DOMAIN Segments[g] : i <= pos'[<<x, g>>] => Segments[g][i] \in bucket'
             /\ x \notin troubled' /\ "ended" \in {task'[<<x, g>>], job'[<<x, g>>]}
                  => pos'[<<x, g>>] = Len(Segments[g])
  BY <1>1, <1>2, <1>7 DEF JobInv
<1>8. \A i \in DOMAIN Segments[f] : i <= pos'[<<r, f>>] => Segments[f][i] \in bucket'
  <2>1. pos[<<r, f>>] \in Nat /\ Segments[f] \in Seq(Name)
    BY <1>2, WorkflowAssumption DEF TypeInv, TypeOK
  <2>2. CASE JobStores(r, f)
    <3>1. /\ pos'[<<r, f>>] = pos[<<r, f>>] + 1
          /\ bucket' = bucket \cup {Segments[f][pos[<<r, f>>] + 1]}
      BY <1>2, <2>2 DEF JobStores, TypeInv, TypeOK
    <3>2. SUFFICES ASSUME NEW i \in DOMAIN Segments[f], i <= pos[<<r, f>>] + 1
                   PROVE  Segments[f][i] \in bucket'
      BY <3>1
    <3>3. i <= pos[<<r, f>>] \/ i = pos[<<r, f>>] + 1
      BY <2>1, <3>2
    <3>. QED BY <3>1, <3>3 DEF JobInv
  <2>3. CASE ~JobStores(r, f)
    <3>1. UNCHANGED pos
      BY <2>3 DEF Pool, Handler, CallStarts, CallReturns, CallFails, JobStarts, JobEnds, JobFails,
                  JobDies, jobVars
    <3>. QED BY <1>1, <3>1 DEF JobInv
  <2>. QED BY <2>2, <2>3
<1>9. ASSUME r \notin troubled', "ended" \in {task'[<<r, f>>], job'[<<r, f>>]}
      PROVE  pos'[<<r, f>>] = Len(Segments[f])
  <2>1. r \notin troubled /\ pos[<<r, f>>] \in Nat /\ Len(Segments[f]) \in Nat
    BY <1>1, <1>2, <1>9, WorkflowAssumption DEF TypeInv, TypeOK
  <2>2. "ended" \in {task[<<r, f>>], job[<<r, f>>]} => pos[<<r, f>>] = Len(Segments[f])
    BY <2>1 DEF JobInv
  <2>. QED BY <1>9, <2>1, <2>2, CallGoesOn
<1>10. JobInv'
  BY <1>7, <1>8, <1>9 DEF JobInv
<1>. QED BY <1>3, <1>5, <1>6, <1>10

\* So does every other step.
LEMMA PoolsInvStep ==
  ASSUME TypeInv, PoolsInv, [Next]_vars
  PROVE  PoolsInv'
<1>. USE DEF TypeInv, PoolsInv
<1>1. \A r \in Runs, f \in Files : <<r, f>> \in Calls
  BY DEF Calls
<1>2. ASSUME UNCHANGED jobVars, troubled \subseteq troubled',
             \A r \in Runs, f \in Files : task'[<<r, f>>] = "ended" => task[<<r, f>>] = "ended"
      PROVE  JobInv'
  <2>1. UNCHANGED <<job, pos, bucket>>
    BY <1>2 DEF jobVars
  <2>. QED BY <1>2, <2>1 DEF JobInv
<1>3. ASSUME NEW r \in Runs, Submit(r) PROVE PoolsInv'
  <2>1. Goes(r, "idle", "extract") /\ UNCHANGED <<jobVars, status, troubled>>
    BY <1>3 DEF Submit, Begins, historyVars
  <2>2. PICK S \in SUBSET Files :
          /\ taken' = [taken EXCEPT ![r] = S]
          /\ task' = [c \in Calls |-> IF c[1] = r /\ c[2] \in S THEN "queued" ELSE task[c]]
    BY <1>3 DEF Submit
  <2>3. /\ taken'[r] = S /\ \A q \in Runs \ {r} : taken'[q] = taken[q]
        /\ \A q \in Runs, f \in Files :
             task'[<<q, f>>] = IF q = r /\ f \in S THEN "queued" ELSE task[<<q, f>>]
    BY <1>1, <2>2 DEF TypeOK
  <2>4. pc[r] = "idle" /\ pc'[r] = "extract" /\ \A q \in Runs \ {r} : pc'[q] = pc[q]
    BY <2>1, GoesMoves
  <2>5. NotYet'
    BY <2>1, <2>3, <2>4 DEF NotYet, jobVars
  <2>6. ASSUME NEW q \in Runs PROVE PoolInv(q)'
    <3>1. taken[q] \subseteq Files
      BY DEF TypeOK
    <3>2. CASE q = r
      BY <2>3, <2>4, <3>2 DEF PoolInv, NotYet
    <3>3. CASE q # r
      BY <2>1, <2>3, <2>4, <3>1, <3>3 DEF PoolInv, PoolOver
    <3>. QED BY <3>2, <3>3
  <2>7. JobInv'
    BY <1>2, <2>1, <2>3
  <2>8. StatusDrained'
    <3>1. SUFFICES ASSUME NEW x \in Runs, pc'[x] = "done", x \notin troubled, PoolOver(x)'
                   PROVE  status[x] = 0
      BY <2>1 DEF StatusDrained
    <3>2. x # r /\ pc[x] = "done"
      BY <2>4, <3>1
    <3>3. PoolOver(x)
      BY <3>1, <3>2 DEF PoolInv
    <3>. QED BY <3>1, <3>2, <3>3 DEF StatusDrained
  <2>. QED BY <2>5, <2>6, <2>7, <2>8
<1>4. ASSUME NEW r \in Runs, Crash(r) PROVE PoolsInv'
  <2>1. /\ pc[r] \notin {"idle", "done"} /\ pc'[r] = "stopped" /\ \A q \in Runs \ {r} : pc'[q] = pc[q]
        /\ UNCHANGED <<taken, jobVars>> /\ troubled' = troubled \cup {r}
        /\ \A q \in Runs \ {r} : status'[q] = status[q]
    BY <1>4 DEF Crash, TypeOK
  <2>2. \A q \in Runs, f \in Files :
          /\ task'[<<q, f>>] \in {"none", task[<<q, f>>]}
          /\ q # r => task'[<<q, f>>] = task[<<q, f>>]
    BY <1>1, <1>4 DEF Crash
  <2>3. NotYet'
    BY <2>1, <2>2 DEF NotYet, jobVars
  <2>4. ASSUME NEW q \in Runs PROVE PoolInv(q)'
    <3>1. taken[q] \subseteq Files
      BY DEF TypeOK
    <3>. QED BY <2>1, <2>2, <3>1 DEF PoolInv, PoolOver
  <2>5. JobInv'
    BY <1>2, <2>1, <2>2
  <2>6. StatusDrained'
    <3>1. SUFFICES ASSUME NEW x \in Runs, pc'[x] = "done", x \notin troubled', PoolOver(x)'
                   PROVE  status'[x] = 0
      BY DEF StatusDrained
    <3>2. x # r /\ pc[x] = "done" /\ x \notin troubled
      BY <2>1, <3>1
    <3>3. PoolOver(x)
      BY <3>2 DEF PoolInv
    <3>. QED BY <2>1, <3>2, <3>3 DEF StatusDrained
  <2>. QED BY <2>3, <2>4, <2>5, <2>6
<1>5. CASE Quiet
  <2>1. /\ UNCHANGED <<taken, task, jobVars>> /\ troubled \subseteq troubled'
        /\ \A q \in Runs : PoolOver(q)' = PoolOver(q)
    BY <1>5 DEF Quiet, poolVars, PoolOver
  <2>2. \A q \in Runs : Moves(q) \/ (pc[q] = "build" /\ pc'[q] = "ladder")
    BY PcSteps
  <2>3. NotYet'
    <3>1. \A q \in Runs : pc'[q] = "idle" => pc[q] = "idle"
      BY <2>2 DEF Moves
    <3>. QED BY <2>1, <3>1 DEF NotYet, jobVars
  <2>4. ASSUME NEW q \in Runs PROVE PoolInv(q)'
    <3>1. SUFFICES ASSUME pc'[q] \notin {"idle", "extract"}, q \notin troubled' PROVE PoolOver(q)
      BY <2>1 DEF PoolInv
    <3>2. CASE pc[q] = "idle"
      BY <3>2 DEF NotYet, PoolOver
    <3>3. CASE pc[q] = "extract"
      BY <1>5, <2>2, <3>1, <3>3 DEF Moves, Quiet
    <3>4. CASE pc[q] \notin {"idle", "extract"}
      BY <2>1, <3>1, <3>4 DEF PoolInv
    <3>. QED BY <3>2, <3>3, <3>4
  <2>5. JobInv'
    BY <1>2, <2>1
  <2>6. StatusDrained'
    <3>1. SUFFICES ASSUME NEW x \in Runs, pc'[x] = "done", x \notin troubled', PoolOver(x)'
                   PROVE  status'[x] = 0
      BY DEF StatusDrained
    <3>2. CASE pc[x] = "done"
      <4>1. status[x] = 0
        BY <2>1, <3>1, <3>2 DEF StatusDrained
      <4>. QED BY <1>5, <3>1, <4>1 DEF Quiet
    <3>3. CASE pc[x] # "done"
      BY <1>5, <3>1, <3>3 DEF Quiet
    <3>. QED BY <3>2, <3>3
  <2>. QED BY <2>3, <2>4, <2>5, <2>6
<1>. QED BY <1>3, <1>4, <1>5, PoolSteps, PoolsInvCall

\* A name that is left to list is on the page that is fetched, or comes after it.
LEMMA PageWhole ==
  ASSUME TypeInv, NEW q \in Runs, FetchPage(q), NEW n \in Left(q)
  PROVE  \/ \E i \in DOMAIN page'[q] : page'[q][i] = n
         \/ more'[q] = "more" /\ \A i \in DOMAIN page'[q] : Before(page'[q][i], n)
<1>1. PICK S \in kSubset(Min({PageSize, Cardinality(Left(q))}), Left(q)) :
        /\ \A x \in S, y \in Left(q) \ S : Before(x, y)
        /\ \E p \in Orders(S) : page' = [page EXCEPT ![q] = p]
        /\ more' = [more EXCEPT ![q] = IF S = Left(q) THEN "none" ELSE "more"]
  BY DEF FetchPage
<1>2. PICK p \in Orders(S) : page' = [page EXCEPT ![q] = p]
  BY <1>1
<1>3. page'[q] = p /\ more'[q] = IF S = Left(q) THEN "none" ELSE "more"
  BY <1>1, <1>2 DEF TypeInv, TypeOK
<1>4. S \subseteq Left(q)
  BY <1>1 DEF kSubset
<1>5. IsFiniteSet(bucket \cup Foreign) /\ Left(q) \subseteq bucket \cup Foreign
  BY WorkflowAssumption, FS_Union DEF TypeInv, Left
<1>6. IsFiniteSet(S) /\ Cardinality(S) \in Nat
  BY <1>4, <1>5, FS_Subset, FS_CardinalityType
<1>7. /\ p \in [1 .. Cardinality(S) -> S]
      /\ \A i, j \in 1 .. Cardinality(S) : i # j => p[i] # p[j]
  BY <1>2 DEF Orders, SetToSeqs
<1>8. CASE n \in S
  <2>1. p \in Injection(1 .. Cardinality(S), S)
    BY <1>7 DEF Injection, IsInjective
  <2>2. Cardinality(1 .. Cardinality(S)) = Cardinality(S)
    BY <1>6, FS_Interval
  <2>3. p \in Surjection(1 .. Cardinality(S), S)
    BY <1>6, <2>1, <2>2, FS_Injection
  <2>. QED BY <1>3, <1>7, <1>8, <2>3 DEF Surjection
<1>9. CASE n \notin S
  <2>1. more'[q] = "more"
    BY <1>3, <1>9
  <2>2. \A i \in DOMAIN p : p[i] \in S
    BY <1>7
  <2>. QED BY <1>1, <1>3, <1>9, <2>1, <2>2
<1>. QED BY <1>8, <1>9

\* What was listed stays so, and a page that is fetched is listed.
LEMMA StaysListed ==
  ASSUME TypeInv, NEW q \in Runs, FetchPage(q)
  PROVE  /\ \A n : Listed(q, n) => Listed(q, n)'
         /\ \A n : (\E i \in DOMAIN page'[q] : page'[q][i] = n) => Listed(q, n)'
         /\ \A i \in DOMAIN listing'[q] :
              \/ i \in DOMAIN listing[q] /\ listing'[q][i] = listing[q][i]
              \/ \E j \in DOMAIN page'[q] : listing'[q][i] = page'[q][j]
<1>. DEFINE l == listing[q]
            p == page'[q]
            m == listing'[q]
<1>1. p \in Seq(Name) /\ l \in Seq(Name) /\ m = l \o p
  BY PageType DEF TypeInv, TypeOK
<1>. HIDE DEF l, p, m
<1>2. \A i \in DOMAIN l : i \in DOMAIN m /\ m[i] = l[i]
  BY <1>1
<1>3. \A i \in DOMAIN p : Len(l) + i \in DOMAIN m /\ m[Len(l) + i] = p[i]
  BY <1>1
<1>4. ASSUME NEW i \in DOMAIN m, i \notin DOMAIN l PROVE \E j \in DOMAIN p : m[i] = p[j]
  <2>1. i - Len(l) \in DOMAIN p /\ Len(l) + (i - Len(l)) = i
    BY <1>1, <1>4
  <2>. QED BY <1>3, <2>1
<1>5. \A n : Listed(q, n) => Listed(q, n)'
  BY <1>2 DEF Listed, l, m
<1>6. \A n : (\E i \in DOMAIN p : p[i] = n) => Listed(q, n)'
  BY <1>3 DEF Listed, m
<1>7. \A i \in DOMAIN m : (i \in DOMAIN l /\ m[i] = l[i]) \/ \E j \in DOMAIN p : m[i] = p[j]
  BY <1>2, <1>4
<1>. QED BY <1>5, <1>6, <1>7 DEF l, p, m

\* Once an untroubled build has started, all that it needs is in the bucket.
LEMMA NeededStored ==
  ASSUME TypeInv, PoolsInv, NEW q \in Runs \ troubled, pc[q] \notin {"idle", "extract"},
         NEW f \in taken[q], NEW i \in DOMAIN Segments[f]
  PROVE  Segments[f][i] \in bucket
<1>1. f \in Files /\ <<q, f>> \in Calls
  BY DEF TypeInv, TypeOK, Calls
<1>2. task[<<q, f>>] = "ended"
  BY DEF PoolsInv, PoolInv, PoolOver
<1>3. pos[<<q, f>>] = Len(Segments[f])
  BY <1>1, <1>2 DEF PoolsInv, JobInv
<1>4. i <= Len(Segments[f])
  BY <1>1, WorkflowAssumption
<1>. QED BY <1>1, <1>3, <1>4 DEF PoolsInv, JobInv

\* A fetch drops nothing that is needed.
LEMMA SeenPage ==
  ASSUME TypeInv, PoolsInv, NEW q \in Runs, SeenInv(q), FetchPage(q)
  PROVE  SeenInv(q)'
<1>1. /\ pc[q] = "build" /\ more'[q] # "first" /\ more[q] # "none"
      /\ UNCHANGED <<pc, taken, troubled, aborted>>
  BY VisitSteps DEF FetchPage, poolVars, historyVars
<1>2. SUFFICES ASSUME q \notin troubled \cup aborted, NEW f \in taken[q], NEW i \in DOMAIN Segments[f]
               PROVE  Listed(q, Segments[f][i])' \/ ToCome(q, Segments[f][i])'
  BY <1>1 DEF SeenInv
<1>3. PICK n \in bucket : n = Segments[f][i]
  BY <1>1, <1>2, NeededStored
<1>4. Listed(q, n) \/ ToCome(q, n)
  BY <1>1, <1>2, <1>3 DEF SeenInv
<1>5. CASE Listed(q, n)
  BY <1>3, <1>5, StaysListed
<1>6. CASE ToCome(q, n)
  <2>1. \A j \in DOMAIN listing[q] : Before(listing[q][j], n)
    BY <1>6 DEF ToCome, SeenInv
  <2>2. n \in Left(q)
    BY <1>3, <2>1 DEF Left
  <2>3. CASE \E j \in DOMAIN page'[q] : page'[q][j] = n
    BY <1>3, <2>3, StaysListed
  <2>4. CASE more'[q] = "more" /\ \A j \in DOMAIN page'[q] : Before(page'[q][j], n)
    <3>1. \A j \in DOMAIN listing'[q] : Before(listing'[q][j], n)
      BY <2>1, <2>4, StaysListed
    <3>2. ToCome(q, n)'
      BY <2>4, <3>1 DEF ToCome
    <3>. QED BY <1>3, <3>2 DEF ToCome
  <2>. QED BY <2>2, <2>3, <2>4, PageWhole
<1>. QED BY <1>4, <1>5, <1>6

\* The files of a run are taken once, and no trouble is forgotten.
LEMMA TakenStep ==
  ASSUME TypeInv, [Next]_vars, NEW q \in Runs
  PROVE  /\ taken'[q] = taken[q] \/ pc'[q] = "extract"
         /\ troubled \subseteq troubled' /\ aborted \subseteq aborted'
<1>1. ASSUME NEW r \in Runs, Submit(r)
      PROVE  /\ taken'[q] = taken[q] \/ pc'[q] = "extract"
             /\ UNCHANGED <<troubled, aborted>>
  <2>1. Goes(r, "idle", "extract") /\ UNCHANGED <<troubled, aborted>>
    BY <1>1 DEF Submit, Begins, historyVars
  <2>2. PICK S : taken' = [taken EXCEPT ![r] = S]
    BY <1>1 DEF Submit
  <2>. QED BY <2>1, <2>2, GoesMoves DEF TypeInv, TypeOK
<1>2. ASSUME NEW r \in Runs, Crash(r) PROVE taken' = taken /\ troubled \subseteq troubled' /\ aborted' = aborted
  BY <1>2 DEF Crash
<1>3. CASE Quiet
  BY <1>3 DEF Quiet, poolVars
<1>. QED BY <1>1, <1>2, <1>3, PoolSteps, CallStep

LEMMA SeenStep ==
  ASSUME TypeInv, Fresh, PoolsInv, NEW q \in Runs, SeenInv(q), [Next]_vars
  PROVE  SeenInv(q)'
<1>1. ASSUME UNCHANGED <<listing, more>>, pc'[q] = pc[q]
      PROVE  SeenInv(q)'
  BY <1>1, TakenStep DEF SeenInv, Listed, ToCome, Fresh
<1>2. CASE FetchPage(q)
  BY <1>2, SeenPage
<1>3. CASE VisitSame(q) \/ VisitOther(q)
  BY <1>1, <1>3, VisitSteps
<1>4. CASE LastFlow(q)
  <2>1. pc[q] = "build" /\ pc'[q] = "ladder" /\ more[q] = "none" /\ UNCHANGED <<listing, more>>
    BY <1>4, VisitSteps
  <2>. QED BY <2>1, TakenStep DEF SeenInv, Listed, ToCome
<1>5. CASE Kept(q) /\ Moves(q)
  <2>1. listing'[q] = listing[q] /\ more'[q] = more[q]
    BY <1>5 DEF Kept
  <2>2. \A n : Listed(q, n)' = Listed(q, n) /\ ToCome(q, n)' = ToCome(q, n)
    BY <2>1 DEF Listed, ToCome
  <2>3. SUFFICES ASSUME q \notin troubled' \cup aborted', NEW f \in taken'[q], NEW i \in DOMAIN Segments[f]
                 PROVE  /\ pc'[q] = "build" => Listed(q, Segments[f][i]) \/ ToCome(q, Segments[f][i])
                        /\ pc'[q] \in {"ladder", "histo", "drain", "done"} => Listed(q, Segments[f][i])
    BY <2>1, <2>2 DEF SeenInv
  <2>4. q \notin troubled \cup aborted
    BY <2>3, TakenStep
  <2>5. CASE pc'[q] = "extract"
    BY <2>5
  <2>6. CASE pc[q] = "extract" /\ pc'[q] = "build"
    BY <2>6 DEF Fresh, ToCome
  <2>7. CASE pc'[q] # "extract" /\ ~(pc[q] = "extract" /\ pc'[q] = "build")
    <3>1. f \in taken[q]
      BY <2>3, <2>7, TakenStep
    <3>2. \/ pc'[q] = pc[q]
          \/ pc[q] \in {"ladder", "histo", "drain"}
          \/ pc'[q] = "stopped"
      BY <1>5, <2>3, <2>7 DEF Moves
    <3>. QED BY <2>4, <3>1, <3>2 DEF SeenInv
  <2>. QED BY <2>5, <2>6, <2>7
<1>. QED BY <1>2, <1>3, <1>4, <1>5, RunSteps

\* The inductive invariant of a complete build: an untroubled pool has ended every call,
\* an ended call has stored every file, and what is stored is listed or to come.
THEOREM CompleteInvariant == Spec => [](TypeInv /\ CompleteInv)
<1>1. Init => TypeInv /\ CompleteInv
  <2>1. SUFFICES ASSUME Init PROVE CompleteInv
    BY TypeInit
  <2>2. \A r \in Runs : pc[r] = "idle" /\ taken[r] = {} /\ more[r] = "first" /\ listing[r] = <<>>
    BY <2>1 DEF Init
  <2>3. \A r \in Runs, f \in Files :
          task[<<r, f>>] = "none" /\ job[<<r, f>>] = "none" /\ pos[<<r, f>>] = 0
    BY <2>1 DEF Init, Calls
  <2>4. NotYet /\ \A q \in Runs : PoolInv(q)
    BY <2>2, <2>3 DEF NotYet, PoolInv
  <2>5. \A f \in Files : \A i \in DOMAIN Segments[f] : ~(i <= 0)
    BY WorkflowAssumption
  <2>6. JobInv
    BY <2>3, <2>5 DEF JobInv
  <2>7. StatusDrained /\ \A q \in Runs : SeenInv(q)
    BY <2>2 DEF StatusDrained, SeenInv
  <2>8. Fresh
    BY <2>1 DEF Init, Fresh
  <2>. QED BY <2>4, <2>6, <2>7, <2>8 DEF CompleteInv, PoolsInv
<1>2. TypeInv /\ CompleteInv /\ [Next]_vars => (TypeInv /\ CompleteInv)'
  BY TypeStep, FreshStep, PoolsInvStep, SeenStep DEF CompleteInv
<1>. QED BY <1>1, <1>2, PTL DEF Spec

\* Stage 2 sees every .corr file of every file taken, for any number of submits, whatever
\* state the ones before left and while they go on
\* (WorkflowRunner.buildDataFlowIndexForCorrelations).
THEOREM BuildsAreComplete == Spec => []BuildComplete
<1>1. ASSUME TypeInv, CompleteInv PROVE BuildComplete
  <2>1. SUFFICES ASSUME NEW r \in Runs \ (troubled \cup aborted),
                        pc[r] \in {"ladder", "histo", "drain", "done"},
                        NEW f \in taken[r], NEW i \in DOMAIN Segments[f]
                 PROVE  Segments[f][i] \in Range(listing[r])
    BY DEF BuildComplete
  <2>2. Listed(r, Segments[f][i])
    BY <1>1, <2>1 DEF CompleteInv, SeenInv
  <2>. QED BY <2>2 DEF Listed, Range
<1>. QED BY <1>1, CompleteInvariant, PTL

\* A run whose tasks have ended leaves no message in its queue
\* (WorkflowRunner.drainStatusQueue).
THEOREM QueueIsDrained == Spec => []StatusDrained
<1>1. CompleteInv => StatusDrained
  BY DEF CompleteInv, PoolsInv
<1>. QED BY <1>1, CompleteInvariant, PTL

=============================================================================
