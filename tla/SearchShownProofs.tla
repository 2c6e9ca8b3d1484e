------------------------- MODULE SearchShownProofs -------------------------
(***************************************************************************)
(* Theorems about SearchSession, for any listing, size of a batch and      *)
(* throttle, and any number of searches: what the page shows of a search   *)
(* that no other one overlaps is what its batches have staged.             *)
(***************************************************************************)
EXTENDS SearchSessionProofs

-----------------------------------------------------------------------------
(* The staging directory of a search that no other one overlaps *)

\* The searches that have staged anything, or searched a file.
Used == {n[1] : n \in searched \cup DOMAIN events \cup DOMAIN histos} \cup {n[2] : n \in stored}

\* The files of the search that were searched to the end, those with an event file, and
\* the batches with a histogram.
Whole == {f \in Range(metas) : <<search, f>> \in searched}
Put == StoredOf("events", Range(metas))
BatchesPut == {b \in Range(Batches(metas)) : <<"histo", search, b[1]>> \in stored}

\* A batch that was not served has searched nothing yet, and its counts are of the files
\* it has searched to the end.
BatchesStaged ==
  /\ IsInjective(metas)
  /\ \A c \in OfKind("batch") :
       /\ c.files \in Range(Batches(metas))
       /\ c.at # "answered" => Range(c.files) \cap Whole = {}
       /\ c.counts # <<>> => \A i \in DOMAIN c.files : c.counts[i] = 1 <=> c.files[i] \in Whole

\* As long as no result is missing, the results are those of the files that are not
\* pending.
ResultsStaged == Len(results) + Cardinality(Pending) = Len(metas) => SumOf(results) = Cardinality(Whole \ Pending)

\* Under a name of the search is a file, or a batch, of that name that was put there, and
\* there is one under every name something was put under.
NamesStaged ==
  /\ \A n \in DOMAIN events : n[1] = search => n[2] = Path[events[n]] /\ events[n] \in Put
  /\ \A f \in Put : <<search, Path[f]>> \in DOMAIN events
  /\ \A n \in DOMAIN histos : n[1] = search => n[2] = Path[histos[n][1]] /\ histos[n] \in BatchesPut
  /\ \A b \in BatchesPut : <<search, Path[b[1]]>> \in DOMAIN histos

\* What the answers to the final calls and the page have is what is staged.
AnswersStaged ==
  /\ \A c \in OfKind("events") : c.at = "answered" => MergedEvents(c.merged)
  /\ \A c \in OfKind("histo") : c.at = "answered" => MergedHistos(c.merged)

ViewStaged ==
  search # 0 /\ view.uid = search =>
    /\ \E files : view.files = files /\ MergedEvents(files)
    /\ view.total = Cardinality(Whole)

\* A chart is of a search all the results of which are there: no more is staged then.
ChartStaged ==
  search # 0 /\ chart.uid = search =>
    /\ \E files : chart.files = files /\ MergedHistos(files)
    /\ Len(results) = Len(metas) /\ metas # <<>>

EndStaged == AnswersStaged /\ ViewStaged /\ ChartStaged

StagedInv ==
  /\ chart.uid <= search
  /\ \A u \in Used : u <= search
  /\ search \notin mixed /\ listed # search => chart.uid # search /\ search \notin Used
  /\ search \notin mixed /\ listed = search => BatchesStaged /\ ResultsStaged /\ NamesStaged /\ EndStaged

ShownInv == SearchInv /\ StagedInv
-----------------------------------------------------------------------------
(* Facts of a search alone *)

LEMMA BatchPending ==
  ASSUME SearchInv, NEW c \in calls, c.kind = "batch", search \notin mixed
  PROVE  /\ c.uid = search /\ listed = search /\ search # 0 /\ view.uid # search
         /\ Len(results) < Len(metas)
         /\ OfKind("events") = {} /\ OfKind("histo") = {}
         /\ Range(c.files) \subseteq Pending /\ IsInjective(c.files)
         /\ c.files \in Seq(Files) /\ Len(c.files) > 0
<1>1. LoneCalls /\ LoneBatches /\ LoneEnd
  BY DEF SearchInv, LoneInv
<1>2. c \in OfKind("batch") /\ c.uid = search /\ listed = search /\ search # 0
  BY <1>1, Searching DEF LoneCalls, OfKind
<1>3. /\ c.files \in Seq(Files) /\ Len(c.files) > 0 /\ Range(c.files) \subseteq Pending /\ IsInjective(c.files)
      /\ Len(results) \in Nat /\ Len(metas) \in Nat
  BY <1>1, <1>2 DEF SearchInv, TypeInv, TypeOK, Call, CallInv, Pending, LoneBatches
<1>4. IsFiniteSet(Pending) /\ Cardinality(Pending) \in Nat /\ c.files[1] \in Pending
  BY <1>3, PendingFinite DEF SearchInv, Range
<1>5. Cardinality(Pending) # 0
  BY <1>4, FS_EmptySet
<1>6. Len(results) < Len(metas)
  BY <1>1, <1>2, <1>3, <1>4, <1>5 DEF LoneBatches
<1>7. Final = {} /\ view.uid # search
  BY <1>1, <1>2, <1>3, <1>6 DEF LoneEnd
<1>. QED
  BY <1>2, <1>3, <1>6, <1>7 DEF Final

\* Once every result is there no batch is left.
LEMMA NoneLeft ==
  ASSUME SearchInv, search \notin mixed, Len(results) = Len(metas)
  PROVE  OfKind("batch") = {} /\ Pending = {}
<1>1. \A c \in OfKind("batch") : FALSE
  <2>1. \A c \in OfKind("batch") : c \in calls /\ c.kind = "batch"
    BY DEF OfKind
  <2>2. Len(results) \in Nat /\ Len(metas) \in Nat
    BY DEF SearchInv, TypeInv, TypeOK
  <2>. QED
    BY <2>1, <2>2, BatchPending
<1>2. OfKind("batch") = {}
  BY <1>1
<1>. QED
  BY <1>2 DEF Pending

LEMMA StagedFinite ==
  ASSUME TypeInv
  PROVE  IsFiniteSet(Whole) /\ Cardinality(Whole) \in Nat
<1>1. metas \in Seq(Files) /\ Range(metas) \subseteq Files /\ IsFiniteSet(Range(metas))
  BY RangeCounted DEF TypeInv, TypeOK
<1>2. Whole \in SUBSET Range(metas)
  BY DEF Whole
<1>3. IsFiniteSet(Whole)
  BY <1>1, <1>2, FS_Subset
<1>. QED
  BY <1>3, FS_CardinalityType

\* What was merged stays so while more is left out.
LEMMA MergedKept ==
  ASSUME search' = search, metas' = metas, stored' = stored, left \subseteq left', NEW files
  PROVE  (MergedEvents(files) => MergedEvents(files)') /\ (MergedHistos(files) => MergedHistos(files)')
  BY DEF MergedEvents, MergedHistos, StoredOf, LeftOut

\* The counts of a batch add up to the files of it that were searched to the end.
LEMMA SumSearched ==
  ASSUME NEW files \in Seq(Files), IsInjective(files), NEW counts \in Seq({0, 1}), Len(counts) = Len(files),
         NEW W, \A i \in DOMAIN files : counts[i] = 1 <=> files[i] \in W
  PROVE  SumOf(counts) = Cardinality(W \cap Range(files))
<1>. DEFINE S == {i \in DOMAIN counts : counts[i] = 1}
            T == W \cap Range(files)
            f == [i \in S |-> files[i]]
<1>1. DOMAIN counts = 1 .. Len(counts) /\ DOMAIN files = 1 .. Len(files)
  OBVIOUS
<1>2. f \in [S -> T]
  BY <1>1 DEF Range
<1>3. \A t \in T : \E i \in S : f[i] = t
  BY <1>1 DEF Range
<1>4. f \in Surjection(S, T)
  BY <1>2, <1>3 DEF Surjection
<1>5. f \in Injection(S, T)
  BY <1>1, <1>2 DEF Injection, IsInjective
<1>6. IsFiniteSet(S)
  BY SumIs
<1>. HIDE DEF S, T, f
<1>7. Cardinality(T) = Cardinality(S)
  BY <1>4, <1>5, <1>6, FS_Surjection
<1>. QED
  BY <1>7 DEF SumOf, S, T

\* Results that are appended are added.
LEMMA SumAdds ==
  ASSUME NEW rs \in Seq({0, 1}), NEW ts \in Seq({0, 1})
  PROVE  SumOf(rs \o ts) = SumOf(rs) + SumOf(ts)
<1>. DEFINE all == rs \o ts
            ones == {i \in DOMAIN all : all[i] = 1}
            old == {i \in DOMAIN rs : rs[i] = 1}
            late == {i \in DOMAIN ts : ts[i] = 1}
            new == {i \in DOMAIN all : i > Len(rs) /\ all[i] = 1}
            f == [i \in late |-> Len(rs) + i]
<1>1. /\ Len(rs) \in Nat /\ Len(ts) \in Nat /\ DOMAIN rs = 1 .. Len(rs) /\ DOMAIN ts = 1 .. Len(ts)
      /\ DOMAIN all = 1 .. Len(rs) + Len(ts)
      /\ \A i \in 1 .. Len(rs) : all[i] = rs[i]
      /\ \A i \in 1 .. Len(ts) : all[Len(rs) + i] = ts[i]
  OBVIOUS
<1>2. ones = old \cup new /\ old \cap new = {}
  BY <1>1
<1>3. f \in [late -> new] /\ \A i, j \in late : f[i] = f[j] => i = j
  <2>1. \A i \in late : i \in 1 .. Len(ts) /\ ts[i] = 1
    BY <1>1
  <2>2. ASSUME NEW i \in late PROVE Len(rs) + i \in new
    <3>1. /\ i \in Nat /\ i > 0 /\ i <= Len(ts) /\ Len(rs) + i \in 1 .. Len(rs) + Len(ts) /\ Len(rs) + i > Len(rs)
          /\ all[Len(rs) + i] = ts[i] /\ ts[i] = 1
      BY <1>1, <2>1
    <3>. HIDE DEF all, late
    <3>. QED
      BY <1>1, <3>1
  <2>3. \A i \in late : i \in Nat
    BY <2>1
  <2>. HIDE DEF new, late
  <2>. QED
    BY <1>1, <2>2, <2>3
<1>4. \A k \in new : \E i \in late : f[i] = k
  <2>. SUFFICES ASSUME NEW k \in new PROVE \E i \in late : f[i] = k
    OBVIOUS
  <2>1. k \in Nat /\ k > Len(rs) /\ k <= Len(rs) + Len(ts) /\ all[k] = 1
    BY <1>1
  <2>2. PICK i \in 1 .. Len(ts) : k = Len(rs) + i
    <3>1. k - Len(rs) \in 1 .. Len(ts) /\ k = Len(rs) + (k - Len(rs))
      BY <1>1, <2>1
    <3>. QED
      BY <3>1
  <2>3. ts[i] = 1
    BY <1>1, <2>1, <2>2
  <2>. QED
    BY <1>1, <2>2, <2>3
<1>5. f \in Surjection(late, new) /\ f \in Injection(late, new)
  BY <1>3, <1>4 DEF Surjection, Injection, IsInjective
<1>6. IsFiniteSet(late) /\ IsFiniteSet(old)
  BY SumIs
<1>. HIDE DEF f, new, old, late, ones
<1>7. IsFiniteSet(new) /\ Cardinality(new) = Cardinality(late)
  BY <1>5, <1>6, FS_Surjection
<1>8. Cardinality(old \cup new) = Cardinality(old) + Cardinality(new) - Cardinality(old \cap new)
  BY <1>6, <1>7, FS_Union
<1>9. Cardinality(old \cap new) = 0 /\ Cardinality(old) \in Nat /\ Cardinality(new) \in Nat
  BY <1>2, <1>6, <1>7, FS_EmptySet, FS_CardinalityType
<1>10. Cardinality(ones) = Cardinality(old) + Cardinality(late)
  BY <1>2, <1>7, <1>8, <1>9
<1>. QED
  BY <1>10 DEF SumOf, ones, old, late

-----------------------------------------------------------------------------
(* The steps *)

LEMMA StagedInit == Init => StagedInv
<1>. SUFFICES ASSUME Init PROVE StagedInv
  OBVIOUS
<1>1. SearchInv /\ OfKind("batch") = {} /\ OfKind("events") = {} /\ OfKind("histo") = {}
  BY SearchInit DEF Init, OfKind
<1>2. /\ Used = {} /\ chart.uid = 0 /\ search = 0 /\ listed = 0 /\ view.uid = 0 /\ metas = <<>> /\ results = <<>>
      /\ events = <<>> /\ histos = <<>> /\ searched = {} /\ stored = {}
  BY DEF Init, Used, Empty
<1>3. Whole = {} /\ Put = {} /\ BatchesPut = {} /\ Range(metas) = {}
  BY <1>2 DEF Whole, Put, BatchesPut, StoredOf, Range
<1>4. BatchesStaged /\ AnswersStaged
  BY <1>1, <1>2 DEF BatchesStaged, AnswersStaged, IsInjective
<1>5. ResultsStaged
  <2>1. SumOf(<<>>) = 0
    <3>1. {i \in DOMAIN <<>> : <<>>[i] = 1} = {}
      OBVIOUS
    <3>. QED
      BY <3>1, FS_EmptySet DEF SumOf
  <2>2. Whole \ Pending = {}
    BY <1>3
  <2>. QED
    BY <1>2, <2>1, <2>2, FS_EmptySet DEF ResultsStaged
<1>6. NamesStaged /\ ViewStaged /\ ChartStaged
  BY <1>2, <1>3 DEF NamesStaged, ViewStaged, ChartStaged
<1>. QED
  BY <1>2, <1>4, <1>5, <1>6 DEF StagedInv, EndStaged

LEMMA StagedSubmit ==
  ASSUME ShownInv, SearchInv', Submit
  PROVE  StagedInv'
<1>1. /\ search' = search + 1 /\ search \in Nat /\ chart' = Empty /\ chart'.uid = 0
      /\ events' = events /\ histos' = histos /\ listed' = listed /\ listed <= search
      /\ Used' = Used /\ listed \in Nat
  BY SearchAssumption DEF Submit, stagingVars, stagedVars, ShownInv, SearchInv, TypeInv, TypeOK, MixedInv, Empty, Used
<1>2. \A u \in Used : u \in Nat /\ u <= search
  <2>1. \A u \in Used : u \in Uids
    BY DEF ShownInv, SearchInv, TypeInv, TypeOK, Used
  <2>. QED
    BY <2>1 DEF ShownInv, StagedInv, Uids
<1>3. listed' # search' /\ \A u \in Used' : u <= search' /\ u # search'
  BY <1>1, <1>2
<1>. QED
  BY <1>1, <1>3 DEF StagedInv

\* A search whose list comes has nothing staged.
LEMMA StagedFiles ==
  ASSUME ShownInv, SearchInv', NEW c \in calls, ReceiveFiles(c)
  PROVE  StagedInv'
<1>. DEFINE bs == Batches(c.files)
            At(i) == IF count + i > ThrottleAt THEN "waiting" ELSE "sent"
            New == {NewCall("batch", search, c.uid, bs[i], At(i)) : i \in DOMAIN bs}
<1>1. c.kind = "submit" /\ IsInjective(c.files)
  BY DEF ReceiveFiles, Received, ShownInv, SearchInv, TypeInv, CallInv
<1>2. /\ calls' = (calls \ {c}) \cup New /\ search' = search /\ listed' = search
      /\ metas' = c.files /\ results' = <<>> /\ view' = view /\ chart' = chart /\ mixed' = mixed
      /\ events' = events /\ histos' = histos /\ searched' = searched /\ stored' = stored /\ left' = left
      /\ Used' = Used
  BY DEF ReceiveFiles, FirstResults, stagingVars, stagedVars, Used
<1>3. \A d \in New : d.kind = "batch" /\ d.files \in Range(bs) /\ d.counts = <<>>
  BY DEF NewCall, Range
<1>. HIDE DEF New, bs
<1>4. CASE search \in mixed
  BY <1>2, <1>4 DEF ShownInv, StagedInv
<1>5. CASE search \notin mixed
  <2>1. LoneCalls /\ LoneEnd
    BY <1>5 DEF ShownInv, SearchInv, LoneInv
  <2>2. calls = {c} /\ listed # search /\ view.uid # search /\ calls' = New
    BY <1>1, <1>2, <2>1 DEF LoneCalls, LoneEnd
  <2>3. chart.uid # search /\ search \notin Used
    BY <1>5, <2>2 DEF ShownInv, StagedInv
  <2>4. /\ \A n \in DOMAIN events \cup DOMAIN histos : n[1] # search
        /\ \A f : <<search, f>> \notin searched
        /\ \A f : <<"events", search, f>> \notin stored /\ <<"histo", search, f>> \notin stored
    <3>1. ASSUME NEW f PROVE <<search, f>>[1] = search /\ <<"events", search, f>>[2] = search /\ <<"histo", search, f>>[2] = search
      OBVIOUS
    <3>2. /\ \A n \in DOMAIN events \cup DOMAIN histos \cup searched : n[1] # search
          /\ \A n \in stored : n[2] # search
      BY <2>3 DEF Used
    <3>. QED
      BY <3>1, <3>2
  <2>5. Whole' = {} /\ Put' = {} /\ BatchesPut' = {}
    BY <1>2, <2>4 DEF Whole, Put, BatchesPut, StoredOf
  <2>6. OfKind("events")' = {} /\ OfKind("histo")' = {} /\ OfKind("batch")' = New
    BY <1>3, <2>2 DEF OfKind
  <2>7. BatchesStaged'
    BY <1>1, <1>2, <1>3, <2>5, <2>6 DEF BatchesStaged, bs
  <2>8. ResultsStaged'
    <3>1. SumOf(<<>>) = 0
      <4>1. {i \in DOMAIN <<>> : <<>>[i] = 1} = {}
        OBVIOUS
      <4>. QED
        BY <4>1, FS_EmptySet DEF SumOf
    <3>2. SumOf(results)' = SumOf(results')
      BY DEF SumOf
    <3>3. (Whole \ Pending)' = {}
      BY <2>5
    <3>. QED
      BY <1>2, <3>1, <3>2, <3>3, FS_EmptySet DEF ResultsStaged
  <2>9. NamesStaged'
    BY <1>2, <2>4, <2>5 DEF NamesStaged
  <2>10. AnswersStaged' /\ ViewStaged' /\ ChartStaged'
    BY <1>2, <2>2, <2>3, <2>6 DEF AnswersStaged, ViewStaged, ChartStaged
  <2>. QED
    BY <1>2, <2>7, <2>8, <2>9, <2>10 DEF StagedInv, EndStaged, ShownInv
<1>. QED
  BY <1>4, <1>5

\* A file of a batch is not in another one, and a batch is named by its first file.
LEMMA BatchNamed ==
  ASSUME NEW files \in Seq(Files), IsInjective(files),
         NEW a \in Range(Batches(files)), NEW b \in Range(Batches(files)), a[1] = b[1]
  PROVE  a = b
<1>. DEFINE bs == Batches(files)
<1>1. PICK i \in DOMAIN bs : a = bs[i]
  BY DEF Range
<1>2. PICK j \in DOMAIN bs : b = bs[j]
  BY DEF Range
<1>3. /\ bs[i] \in Seq(Files) /\ Len(bs[i]) \in 1 .. FileBatch + 1
      /\ bs[j] \in Seq(Files) /\ Len(bs[j]) \in 1 .. FileBatch + 1
  BY BatchesAre
<1>4. bs[i][1] \in Range(bs[i]) /\ bs[j][1] \in Range(bs[j])
  BY <1>3, SearchAssumption DEF Range
<1>5. i # j => Range(bs[i]) \cap Range(bs[j]) = {}
  BY BatchesApart
<1>. HIDE DEF bs
<1>. QED
  BY <1>1, <1>2, <1>4, <1>5

\* A batch is of files that were found.
LEMMA BatchFound ==
  ASSUME NEW files \in Seq(Files), IsInjective(files), NEW b \in Range(Batches(files))
  PROVE  Range(b) \subseteq Range(files)
<1>1. PICK i \in DOMAIN Batches(files) : b = Batches(files)[i]
  BY DEF Range
<1>. QED
  BY <1>1, BatchesApart

\* A batch that is served stages the event files of its own files, and one histogram.
LEMMA StagedBatch ==
  ASSUME ShownInv, SearchInv', NEW c \in calls, ServeBatch(c)
  PROVE  StagedInv'
<1>1. PICK whole \in SUBSET Range(c.files), put \in SUBSET Range(c.files), histo \in SUBSET {c.files[1]} :
        /\ events' = Write(events, EventsPut(c, put))
        /\ histos' = Write(histos, [n \in {HistoName(c) : f \in histo} |-> c.files])
        /\ Answers(c, [c EXCEPT !.counts = CountsOf(c.files, whole)])
        /\ searched' = searched \cup {<<c.uid, f>> : f \in whole}
        /\ stored' = stored \cup {<<"events", c.uid, f>> : f \in put}
                              \cup {<<"histo", c.uid, f>> : f \in histo}
  BY DEF ServeBatch
<1>. DEFINE new == EventsPut(c, put)
            one == [n \in {HistoName(c) : f \in histo} |-> c.files]
            answer == [[c EXCEPT !.counts = CountsOf(c.files, whole)] EXCEPT !.at = "answered"]
<1>2. /\ c.kind = "batch" /\ c.at = "sent" /\ c \in OfKind("batch") /\ c \in Call /\ c.files \in Seq(Files)
      /\ search' = search /\ metas' = metas /\ results' = results /\ total' = total /\ view' = view /\ chart' = chart
      /\ listed' = listed /\ mixed' = mixed /\ left' = left
  BY DEF ServeBatch, Sent, OfKind, pageVars, historyVars, ShownInv, SearchInv, TypeInv, TypeOK, Call
<1>3. /\ answer.kind = "batch" /\ answer.uid = c.uid /\ answer.files = c.files /\ answer.at = "answered"
      /\ answer.counts = CountsOf(c.files, whole) /\ calls' = (calls \ {c}) \cup {answer}
  BY <1>1, <1>2 DEF Answers, Call
<1>4. /\ DOMAIN events' = DOMAIN events \cup DOMAIN new /\ DOMAIN new = {<<c.uid, Path[f]>> : f \in put}
      /\ \A n \in DOMAIN new : events'[n] \in put /\ <<c.uid, Path[events'[n]]>> = n
      /\ \A n \in DOMAIN events \ DOMAIN new : events'[n] = events[n]
  <2>1. /\ DOMAIN new = {<<c.uid, Path[f]>> : f \in put}
        /\ \A n \in DOMAIN new : new[n] \in put /\ <<c.uid, Path[new[n]]>> = n
    BY <1>2, EventsPutIs DEF EventsName
  <2>2. events' = Write(events, new)
    BY <1>1
  <2>. HIDE DEF new
  <2>3. /\ DOMAIN events' = DOMAIN events \cup DOMAIN new
        /\ \A n \in DOMAIN new : events'[n] = new[n]
        /\ \A n \in DOMAIN events \ DOMAIN new : events'[n] = events[n]
    BY <2>2 DEF Write
  <2>. QED
    BY <2>1, <2>3
<1>5. /\ DOMAIN histos' = DOMAIN histos \cup DOMAIN one
      /\ \A n \in DOMAIN one : histos'[n] = c.files /\ n = <<c.uid, Path[c.files[1]]>>
      /\ \A n \in DOMAIN histos \ DOMAIN one : histos'[n] = histos[n]
      /\ histo # {} => <<c.uid, Path[c.files[1]]>> \in DOMAIN one
      /\ histo = {} => DOMAIN one = {}
  <2>1. /\ \A n \in DOMAIN one : one[n] = c.files /\ n = <<c.uid, Path[c.files[1]]>>
        /\ histo # {} => <<c.uid, Path[c.files[1]]>> \in DOMAIN one
        /\ histo = {} => DOMAIN one = {}
    BY DEF HistoName
  <2>2. histos' = Write(histos, one)
    BY <1>1
  <2>. HIDE DEF one
  <2>3. /\ DOMAIN histos' = DOMAIN histos \cup DOMAIN one
        /\ \A n \in DOMAIN one : histos'[n] = one[n]
        /\ \A n \in DOMAIN histos \ DOMAIN one : histos'[n] = histos[n]
    BY <2>2 DEF Write
  <2>. QED
    BY <2>1, <2>3
<1>. HIDE DEF new, one, answer
<1>6. \A u \in Used' : u \in Used \/ u = c.uid
  <2>1. \A n \in DOMAIN events' \cup DOMAIN histos' \cup searched' :
          n \in DOMAIN events \cup DOMAIN histos \cup searched \/ n[1] = c.uid
    <3>1. \A n \in DOMAIN new \cup DOMAIN one \cup {<<c.uid, f>> : f \in whole} : n[1] = c.uid
      BY <1>4, <1>5
    <3>. QED
      BY <1>1, <1>4, <1>5, <3>1
  <2>2. \A n \in stored' : n \in stored \/ n[2] = c.uid
    BY <1>1
  <2>. QED
    BY <2>1, <2>2 DEF Used
<1>7. c.uid <= search
  BY DEF ShownInv, SearchInv, TypeInv, CallInv
<1>8. chart'.uid <= search' /\ \A u \in Used' : u <= search'
  BY <1>2, <1>6, <1>7 DEF ShownInv, StagedInv
<1>9. CASE search \in mixed
  BY <1>2, <1>8, <1>9 DEF StagedInv
<1>10. CASE search \notin mixed
  <2>1. /\ c.uid = search /\ listed = search /\ search # 0 /\ view.uid # search
        /\ Len(results) < Len(metas)
        /\ OfKind("events") = {} /\ OfKind("histo") = {}
        /\ Range(c.files) \subseteq Pending /\ IsInjective(c.files)
        /\ c.files \in Seq(Files) /\ Len(c.files) > 0
    BY <1>2, <1>10, BatchPending DEF ShownInv
  <2>2. BatchesStaged /\ ResultsStaged /\ NamesStaged /\ ChartStaged /\ LoneBatches
    BY <1>10, <2>1 DEF ShownInv, StagedInv, SearchInv, LoneInv, EndStaged
  <2>3. /\ metas \in Seq(Files) /\ IsInjective(metas) /\ c.files \in Range(Batches(metas))
        /\ Range(c.files) \subseteq Range(metas) /\ Range(c.files) \cap Whole = {}
    <3>1. metas \in Seq(Files) /\ IsInjective(metas) /\ c.files \in Range(Batches(metas))
      BY <1>2, <2>2 DEF BatchesStaged, ShownInv, SearchInv, TypeInv, TypeOK
    <3>. QED
      BY <1>2, <2>2, <3>1, BatchFound DEF BatchesStaged
  <2>4. OfKind("batch")' = (OfKind("batch") \ {c}) \cup {answer} /\ OfKind("events")' = {} /\ OfKind("histo")' = {}
    BY <1>2, <1>3, <2>1 DEF OfKind
  <2>5. Pending' = Pending
    BY <1>2, <1>3, <2>4 DEF Pending
  <2>6. Put' = Put \cup put
    <3>1. \A f : <<"events", search, f>> \in stored' <=> <<"events", search, f>> \in stored \/ f \in put
      BY <1>1, <2>1
    <3>. QED
      BY <1>1, <1>2, <2>3, <3>1 DEF Put, StoredOf
  <2>7. Whole' = Whole \cup whole
    <3>1. \A f : <<search, f>> \in searched' <=> <<search, f>> \in searched \/ f \in whole
      BY <1>1, <2>1
    <3>. QED
      BY <1>1, <1>2, <2>3, <3>1 DEF Whole
  <2>8. BatchesPut' = IF histo = {} THEN BatchesPut ELSE BatchesPut \cup {c.files}
    <3>1. \A f : <<"histo", search, f>> \in stored' <=> <<"histo", search, f>> \in stored \/ f \in histo
      BY <1>1, <2>1
    <3>2. histo = {} \/ histo = {c.files[1]}
      BY <1>1
    <3>3. \A b \in Range(Batches(metas)) : b[1] = c.files[1] <=> b = c.files
      BY <2>3, BatchNamed
    <3>. QED
      BY <1>2, <2>3, <3>1, <3>2, <3>3 DEF BatchesPut
  <2>9. BatchesStaged'
    <3>1. ASSUME NEW d \in OfKind("batch") \ {c}
          PROVE  /\ d.files \in Range(Batches(metas))
                 /\ d.at # "answered" => Range(d.files) \cap Whole' = {}
                 /\ d.counts # <<>> => \A i \in DOMAIN d.files : d.counts[i] = 1 <=> d.files[i] \in Whole'
      <4>1. Range(d.files) \cap Range(c.files) = {}
        BY <1>2, <2>1, <2>2, <3>1 DEF LoneBatches
      <4>2. \A i \in DOMAIN d.files : d.files[i] \notin whole
        BY <1>1, <4>1 DEF Range
      <4>3. /\ d.files \in Range(Batches(metas))
            /\ d.at # "answered" => Range(d.files) \cap Whole = {}
            /\ d.counts # <<>> => \A i \in DOMAIN d.files : d.counts[i] = 1 <=> d.files[i] \in Whole
        BY <2>2, <3>1 DEF BatchesStaged
      <4>. QED
        BY <1>1, <2>7, <4>1, <4>2, <4>3
    <3>2. \A i \in DOMAIN c.files : answer.counts[i] = 1 <=> c.files[i] \in Whole'
      <4>. SUFFICES ASSUME NEW i \in DOMAIN c.files PROVE answer.counts[i] = 1 <=> c.files[i] \in Whole'
        OBVIOUS
      <4>1. answer.counts[i] = 1 <=> c.files[i] \in whole
        BY <1>3 DEF CountsOf
      <4>2. c.files[i] \in Range(c.files) /\ c.files[i] \notin Whole
        BY <2>3 DEF Range
      <4>. QED
        BY <2>7, <4>1, <4>2
    <3>. QED
      BY <1>2, <1>3, <2>3, <2>4, <3>1, <3>2 DEF BatchesStaged
  <2>10. ResultsStaged'
    <3>1. Whole' \ Pending = Whole \ Pending
      BY <1>1, <2>1, <2>7
    <3>2. SumOf(results)' = SumOf(results)
      BY <1>2 DEF SumOf
    <3>. QED
      BY <1>2, <2>2, <2>5, <3>1, <3>2 DEF ResultsStaged
  <2>11. NamesStaged'
    <3>1. ASSUME NEW n \in DOMAIN events', n[1] = search
          PROVE  n[2] = Path[events'[n]] /\ events'[n] \in Put'
      <4>1. CASE n \in DOMAIN new
        <5>1. events'[n] \in put /\ <<c.uid, Path[events'[n]]>> = n
          BY <1>4, <4>1
        <5>2. <<c.uid, Path[events'[n]]>>[2] = Path[events'[n]]
          OBVIOUS
        <5>. QED
          BY <2>6, <5>1, <5>2
      <4>2. CASE n \notin DOMAIN new
        BY <1>4, <2>2, <2>6, <3>1, <4>2 DEF NamesStaged
      <4>. QED
        BY <4>1, <4>2
    <3>2. ASSUME NEW f \in Put' PROVE <<search, Path[f]>> \in DOMAIN events'
      BY <1>4, <2>1, <2>2, <2>6 DEF NamesStaged
    <3>3. ASSUME NEW n \in DOMAIN histos', n[1] = search
          PROVE  n[2] = Path[histos'[n][1]] /\ histos'[n] \in BatchesPut'
      <4>1. CASE n \in DOMAIN one
        <5>1. histos'[n] = c.files /\ n[2] = Path[c.files[1]] /\ histo # {}
          BY <1>5, <4>1
        <5>. QED
          BY <2>8, <5>1
      <4>2. CASE n \notin DOMAIN one
        BY <1>5, <2>2, <2>8, <3>3, <4>2 DEF NamesStaged
      <4>. QED
        BY <4>1, <4>2
    <3>4. ASSUME NEW b \in BatchesPut' PROVE <<search, Path[b[1]]>> \in DOMAIN histos'
      <4>1. CASE b \in BatchesPut
        BY <1>5, <2>2, <4>1 DEF NamesStaged
      <4>2. CASE b \notin BatchesPut
        <5>1. b = c.files /\ histo # {}
          BY <2>8, <4>2
        <5>. QED
          BY <1>5, <2>1, <5>1
      <4>. QED
        BY <4>1, <4>2
    <3>. QED
      BY <1>2, <3>1, <3>2, <3>3, <3>4 DEF NamesStaged
  <2>12. EndStaged'
    <3>1. chart.uid # search
      BY <2>1, <2>2, <1>2 DEF ChartStaged, ShownInv, SearchInv, TypeInv, TypeOK
    <3>. QED
      BY <1>2, <2>1, <2>4, <3>1 DEF EndStaged, AnswersStaged, ViewStaged, ChartStaged
  <2>. QED
    BY <1>2, <1>8, <2>1, <2>9, <2>10, <2>11, <2>12 DEF StagedInv
<1>. QED
  BY <1>9, <1>10

\* The results of a batch are those of its files, which are no longer pending.
LEMMA StagedResults ==
  ASSUME ShownInv, SearchInv', NEW c \in calls, ReceiveResults(c)
  PROVE  StagedInv'
<1>1. /\ c.kind = "batch" /\ c \in OfKind("batch") /\ c \in Call
      /\ search' = search /\ metas' = metas /\ results' = results \o c.counts /\ view' = view /\ chart' = chart
      /\ listed' = listed /\ mixed' = mixed /\ events' = events /\ histos' = histos /\ Used' = Used
      /\ Whole' = Whole /\ Put' = Put /\ BatchesPut' = BatchesPut
  BY DEF ReceiveResults, Received, OfKind, stagingVars, historyVars, stagedVars, Used, Whole, Put, BatchesPut, StoredOf,
         ShownInv, SearchInv, TypeInv, TypeOK
<1>2. CASE search \in mixed
  BY <1>1, <1>2 DEF ShownInv, StagedInv
<1>3. CASE search \notin mixed
  <2>1. /\ c.uid = search /\ listed = search /\ search # 0 /\ view.uid # search
        /\ Len(results) < Len(metas)
        /\ OfKind("events") = {} /\ OfKind("histo") = {}
        /\ Range(c.files) \subseteq Pending /\ IsInjective(c.files)
        /\ c.files \in Seq(Files) /\ Len(c.files) > 0
    BY <1>1, <1>3, BatchPending DEF ShownInv
  <2>2. BatchesStaged /\ ResultsStaged /\ NamesStaged /\ ChartStaged /\ LoneBatches
    BY <1>3, <2>1 DEF ShownInv, StagedInv, SearchInv, LoneInv, EndStaged
  <2>3. PICK New : /\ calls' = (calls \ {c}) \cup New
                   /\ \A d \in New : d.kind \in {"events", "histo"} /\ d.at = "sent"
    <3>. DEFINE Ends == {NewCall(k, search, c.list, <<>>, "sent") : k \in {"events", "histo"}}
                None == {}
    <3>1. \A d \in Ends : d.kind \in {"events", "histo"} /\ d.at = "sent"
      BY DEF NewCall
    <3>2. \A d \in None : d.kind \in {"events", "histo"} /\ d.at = "sent"
      OBVIOUS
    <3>3. calls' = (calls \ {c}) \cup Ends \/ calls' = (calls \ {c}) \cup None
      BY DEF ReceiveResults
    <3>. HIDE DEF Ends, None
    <3>. QED
      BY <3>1, <3>2, <3>3
  <2>4. /\ OfKind("batch")' = OfKind("batch") \ {c}
        /\ \A d \in OfKind("events")' \cup OfKind("histo")' : d.at = "sent"
    BY <1>1, <2>1, <2>3 DEF OfKind
  <2>5. Pending' = Pending \ Range(c.files)
    <3>1. \A d \in OfKind("batch") \ {c} : Range(d.files) \cap Range(c.files) = {}
      BY <1>1, <2>1, <2>2 DEF LoneBatches
    <3>2. \A f : f \in Pending' <=> \E d \in OfKind("batch") \ {c} : f \in Range(d.files)
      BY <2>4 DEF Pending
    <3>3. \A f : f \in Pending <=> \E d \in OfKind("batch") : f \in Range(d.files)
      BY DEF Pending
    <3>4. \A f : f \in Pending' <=> f \in Pending /\ f \notin Range(c.files)
      BY <1>1, <3>1, <3>2, <3>3
    <3>. QED
      BY <3>4
  <2>6. IsFiniteSet(Pending) /\ Cardinality(Pending) \in Nat /\ IsFiniteSet(Range(c.files)) /\ Cardinality(Range(c.files)) = Len(c.files)
    BY <2>1, PendingFinite, RangeCounted DEF ShownInv, SearchInv
  <2>7. Cardinality(Pending') = Cardinality(Pending) - Len(c.files)
    <3>1. Pending \cap Range(c.files) = Range(c.files)
      BY <2>1
    <3>2. Cardinality(Pending \ Range(c.files)) = Cardinality(Pending) - Cardinality(Pending \cap Range(c.files))
      BY <2>6, FS_Difference
    <3>. QED
      BY <2>5, <2>6, <3>1, <3>2
  <2>8. BatchesStaged'
    BY <1>1, <2>2, <2>4 DEF BatchesStaged
  <2>9. ResultsStaged'
    <3>1. /\ c.counts \in Seq({0, 1}) /\ Len(c.counts) \in {0, Len(c.files)} /\ results \in Seq({0, 1})
          /\ Len(metas) \in Nat /\ Len(results) \in Nat /\ Len(c.files) \in Nat
          /\ Len(results') = Len(results) + Len(c.counts)
      BY <1>1, <2>1 DEF ShownInv, SearchInv, TypeInv, TypeOK, Call, CallInv
    <3>2. Cardinality(Pending) + Len(results) <= Len(metas)
      BY <2>1, <2>2 DEF LoneBatches
    <3>. SUFFICES ASSUME Len(results') + Cardinality(Pending') = Len(metas)
                  PROVE  SumOf(results') = Cardinality(Whole \ Pending')
      BY <1>1 DEF ResultsStaged, SumOf
    <3>3. Len(c.counts) = Len(c.files) /\ Len(results) + Cardinality(Pending) = Len(metas)
      <4>1. Len(results) + Len(c.counts) + (Cardinality(Pending) - Len(c.files)) = Len(metas)
        BY <2>7, <3>1
      <4>2. Len(c.counts) = 0 \/ Len(c.counts) = Len(c.files)
        BY <3>1
      <4>3. \A r, k, p, n, m \in Nat :
              n > 0 /\ p + r <= m /\ r + k + (p - n) = m /\ (k = 0 \/ k = n) => k = n /\ r + p = m
        OBVIOUS
      <4>. QED
        BY <2>1, <2>6, <3>1, <3>2, <4>1, <4>2, <4>3
    <3>4. SumOf(results) = Cardinality(Whole \ Pending)
      BY <2>2, <3>3 DEF ResultsStaged
    <3>5. SumOf(c.counts) = Cardinality(Whole \cap Range(c.files))
      <4>1. c.counts # <<>>
        <5>1. Len(<<>>) = 0
          OBVIOUS
        <5>. QED
          BY <2>1, <3>3, <5>1
      <4>2. \A i \in DOMAIN c.files : c.counts[i] = 1 <=> c.files[i] \in Whole
        BY <1>1, <2>2, <4>1 DEF BatchesStaged
      <4>. QED
        BY <2>1, <3>1, <3>3, <4>2, SumSearched
    <3>6. SumOf(results') = SumOf(results) + SumOf(c.counts)
      BY <1>1, <3>1, SumAdds
    <3>7. Cardinality(Whole \ Pending') = Cardinality(Whole \ Pending) + Cardinality(Whole \cap Range(c.files))
      <4>. DEFINE done == Whole \ Pending
                  new == Whole \cap Range(c.files)
      <4>1. IsFiniteSet(Whole)
        BY StagedFinite DEF ShownInv, SearchInv
      <4>2. Whole \ Pending' = done \cup new /\ done \cap new = {}
        BY <2>1, <2>5
      <4>3. done \in SUBSET Whole /\ new \in SUBSET Whole
        OBVIOUS
      <4>4. IsFiniteSet(done) /\ IsFiniteSet(new)
        BY <4>1, <4>3, FS_Subset
      <4>. HIDE DEF done, new
      <4>5. Cardinality(done \cup new) = Cardinality(done) + Cardinality(new) - Cardinality(done \cap new)
        BY <4>4, FS_Union
      <4>6. Cardinality(done \cap new) = 0 /\ Cardinality(done) \in Nat /\ Cardinality(new) \in Nat
        BY <4>2, <4>4, FS_EmptySet, FS_CardinalityType
      <4>7. Cardinality(done \cup new) = Cardinality(done) + Cardinality(new)
        BY <4>5, <4>6
      <4>. QED
        BY <4>2, <4>7 DEF done, new
    <3>. QED
      BY <3>4, <3>5, <3>6, <3>7
  <2>10. NamesStaged'
    BY <1>1, <2>2 DEF NamesStaged
  <2>11. EndStaged'
    <3>1. chart.uid # search
      BY <2>1, <2>2, <1>1 DEF ChartStaged, ShownInv, SearchInv, TypeInv, TypeOK
    <3>2. AnswersStaged'
      BY <2>4 DEF AnswersStaged
    <3>. QED
      BY <1>1, <2>1, <3>1, <3>2 DEF EndStaged, ViewStaged, ChartStaged
  <2>. QED
    BY <1>1, <2>1, <2>8, <2>9, <2>10, <2>11 DEF StagedInv, ShownInv
<1>. QED
  BY <1>2, <1>3

\* Nothing is staged or listed, and a call moves on or is dropped.  What it then has of
\* the staging directory, and what the page has, is what there is.
LEMMA StagedKept ==
  ASSUME ShownInv, NEW c \in calls, NEW New, calls' = (calls \ {c}) \cup New,
         New # {} => \E d \in New : New = {d},
         \A d \in New :
           /\ d.kind = c.kind /\ d.counts = c.counts
           /\ d.kind = "batch" => d.files = c.files
           /\ d.at # "answered" => c.at # "answered",
         search \notin mixed /\ listed = search =>
           /\ \A d \in New : d.kind = "events" /\ d.at = "answered" => MergedEvents(d.merged)'
           /\ \A d \in New : d.kind = "histo" /\ d.at = "answered" => MergedHistos(d.merged)'
           /\ ViewStaged' /\ ChartStaged',
         chart'.uid <= search, search \notin mixed /\ listed # search => chart'.uid # search,
         search' = search, metas' = metas, results' = results,
         listed' = listed, mixed' = mixed, events' = events, histos' = histos,
         searched' = searched, stored' = stored, left \subseteq left'
  PROVE  StagedInv'
<1>1. Used' = Used /\ Whole' = Whole /\ Put' = Put /\ BatchesPut' = BatchesPut
  BY DEF Used, Whole, Put, BatchesPut, StoredOf
<1>2. CASE search \in mixed \/ listed # search
  BY <1>1, <1>2 DEF ShownInv, StagedInv
<1>3. CASE search \notin mixed /\ listed = search
  <2>1. BatchesStaged /\ ResultsStaged /\ NamesStaged /\ AnswersStaged /\ LoneBatches
    BY <1>3 DEF ShownInv, StagedInv, EndStaged, SearchInv, LoneInv
  <2>2. BatchesStaged'
    <3>1. \A d \in OfKind("batch")' : \E e \in OfKind("batch") :
            d.files = e.files /\ d.counts = e.counts /\ (d.at # "answered" => e.at # "answered")
      BY DEF OfKind
    <3>. QED
      BY <1>1, <2>1, <3>1 DEF BatchesStaged
  <2>3. ResultsStaged'
    <3>1. CASE c.kind # "batch" \/ New # {}
      <4>1. \A f : (\E d \in OfKind("batch")' : f \in Range(d.files)) <=> (\E d \in OfKind("batch") : f \in Range(d.files))
        BY <3>1 DEF OfKind
      <4>2. Pending' = Pending
        BY <4>1 DEF Pending
      <4>. QED
        BY <1>1, <2>1, <4>2 DEF ResultsStaged, SumOf
    <3>2. CASE c.kind = "batch" /\ New = {}
      <4>1. /\ c \in OfKind("batch") /\ OfKind("batch")' = OfKind("batch") \ {c}
            /\ Range(c.files) \subseteq Pending /\ c.files \in Seq(Files) /\ Len(c.files) > 0
        BY <1>3, <3>2, BatchPending DEF OfKind, ShownInv
      <4>2. c.files[1] \in Pending /\ c.files[1] \notin Pending'
        <5>1. c.files[1] \in Range(c.files)
          BY <4>1 DEF Range
        <5>2. \A d \in OfKind("batch")' : c.files[1] \notin Range(d.files)
          BY <1>3, <2>1, <4>1, <5>1 DEF LoneBatches
        <5>. QED
          BY <4>1, <5>1, <5>2 DEF Pending
      <4>3. Pending' \subseteq Pending
        BY <4>1 DEF Pending
      <4>4. IsFiniteSet(Pending) /\ Cardinality(Pending) \in Nat
        BY PendingFinite DEF ShownInv, SearchInv
      <4>5. Pending' \in SUBSET (Pending \ {c.files[1]})
        <5>1. \A S, T, x : T \subseteq S /\ x \notin T => T \in SUBSET (S \ {x})
          OBVIOUS
        <5>. QED
          BY <4>2, <4>3, <5>1, Zenon
      <4>6. IsFiniteSet(Pending \ {c.files[1]}) /\ Cardinality(Pending \ {c.files[1]}) = Cardinality(Pending) - 1
        <5>1. \A S, x : IsFiniteSet(S) /\ x \in S =>
                IsFiniteSet(S \ {x}) /\ Cardinality(S \ {x}) = Cardinality(S) - 1
          BY FS_RemoveElement
        <5>. QED
          BY <4>2, <4>4, <5>1, Zenon
      <4>7. Cardinality(Pending') <= Cardinality(Pending) - 1 /\ Cardinality(Pending') \in Nat
        BY <4>5, <4>6, FS_Subset, FS_CardinalityType
      <4>8. Len(results) \in Nat /\ Len(metas) \in Nat
        BY DEF ShownInv, SearchInv, TypeInv, TypeOK
      <4>9. Cardinality(Pending) + Len(results) <= Len(metas)
        BY <1>3, <2>1 DEF LoneBatches
      <4>. QED
        BY <4>4, <4>7, <4>8, <4>9 DEF ResultsStaged
    <3>. QED
      BY <3>1, <3>2
  <2>4. NamesStaged'
    BY <1>1, <2>1 DEF NamesStaged
  <2>5. AnswersStaged'
    <3>1. \A files : (MergedEvents(files) => MergedEvents(files)') /\ (MergedHistos(files) => MergedHistos(files)')
      BY MergedKept
    <3>2. \A d \in OfKind("events")' : d.at = "answered" => MergedEvents(d.merged)'
      BY <1>3, <2>1, <3>1 DEF AnswersStaged, OfKind
    <3>3. \A d \in OfKind("histo")' : d.at = "answered" => MergedHistos(d.merged)'
      BY <1>3, <2>1, <3>1 DEF AnswersStaged, OfKind
    <3>. QED
      BY <3>2, <3>3 DEF AnswersStaged
  <2>. QED
    BY <1>1, <1>3, <2>2, <2>3, <2>4, <2>5 DEF StagedInv, EndStaged, ShownInv
<1>. QED
  BY <1>2, <1>3

\* The page does not change.
LEMMA StagedQuiet ==
  ASSUME ShownInv, NEW c \in calls, NEW New, calls' = (calls \ {c}) \cup New,
         New # {} => \E d \in New : New = {d},
         \A d \in New :
           /\ d.kind = c.kind /\ d.counts = c.counts
           /\ d.kind = "batch" => d.files = c.files
           /\ d.at # "answered" => c.at # "answered",
         search \notin mixed /\ listed = search =>
           /\ \A d \in New : d.kind = "events" /\ d.at = "answered" => MergedEvents(d.merged)'
           /\ \A d \in New : d.kind = "histo" /\ d.at = "answered" => MergedHistos(d.merged)',
         UNCHANGED <<pageVars, stagingVars, listed, mixed, searched, stored>>, left \subseteq left'
  PROVE  StagedInv'
<1>1. /\ search' = search /\ metas' = metas /\ results' = results /\ view' = view /\ chart' = chart
      /\ listed' = listed /\ mixed' = mixed /\ events' = events /\ histos' = histos
      /\ searched' = searched /\ stored' = stored
  BY DEF pageVars, stagingVars
<1>2. chart'.uid <= search /\ (search \notin mixed /\ listed # search => chart'.uid # search)
  BY <1>1 DEF ShownInv, StagedInv
<1>3. Whole' = Whole
  BY <1>1 DEF Whole
<1>4. search \notin mixed /\ listed = search => ViewStaged' /\ ChartStaged'
  <2>1. search \notin mixed /\ listed = search => ViewStaged /\ ChartStaged
    BY DEF ShownInv, StagedInv, EndStaged
  <2>2. \A files : (MergedEvents(files) => MergedEvents(files)') /\ (MergedHistos(files) => MergedHistos(files)')
    BY <1>1, MergedKept
  <2>. QED
    BY <1>1, <1>3, <2>1, <2>2 DEF ViewStaged, ChartStaged
<1>. QED
  BY <1>1, <1>2, <1>4, StagedKept

LEMMA StagedOne ==
  ASSUME ShownInv, NEW c \in calls, NEW d, calls' = (calls \ {c}) \cup {d},
         d.kind = c.kind, d.counts = c.counts, d.kind = "batch" => d.files = c.files,
         d.at # "answered" => c.at # "answered",
         search \notin mixed /\ listed = search /\ d.at = "answered" =>
           /\ d.kind = "events" => MergedEvents(d.merged)'
           /\ d.kind = "histo" => MergedHistos(d.merged)',
         UNCHANGED <<pageVars, stagingVars, listed, mixed, searched, stored>>, left \subseteq left'
  PROVE  StagedInv'
<1>. DEFINE New == {d}
<1>1. /\ calls' = (calls \ {c}) \cup New /\ (New # {} => \E e \in New : New = {e})
      /\ \A e \in New :
           /\ e.kind = c.kind /\ e.counts = c.counts
           /\ e.kind = "batch" => e.files = c.files
           /\ e.at # "answered" => c.at # "answered"
      /\ search \notin mixed /\ listed = search =>
           /\ \A e \in New : e.kind = "events" /\ e.at = "answered" => MergedEvents(e.merged)'
           /\ \A e \in New : e.kind = "histo" /\ e.at = "answered" => MergedHistos(e.merged)'
  OBVIOUS
<1>. HIDE DEF New
<1>. QED
  BY <1>1, StagedQuiet

LEMMA StagedDrop ==
  ASSUME ShownInv, NEW c \in calls, calls' = calls \ {c},
         UNCHANGED <<pageVars, stagingVars, listed, mixed, stagedVars>>
  PROVE  StagedInv'
<1>. DEFINE New == {}
<1>1. /\ calls' = (calls \ {c}) \cup New /\ (New # {} => \E e \in New : New = {e})
      /\ \A e \in New :
           /\ e.kind = c.kind /\ e.counts = c.counts
           /\ e.kind = "batch" => e.files = c.files
           /\ e.at # "answered" => c.at # "answered"
      /\ search \notin mixed /\ listed = search =>
           /\ \A e \in New : e.kind = "events" /\ e.at = "answered" => MergedEvents(e.merged)'
           /\ \A e \in New : e.kind = "histo" /\ e.at = "answered" => MergedHistos(e.merged)'
  OBVIOUS
<1>2. UNCHANGED <<pageVars, stagingVars, listed, mixed, searched, stored>> /\ left \subseteq left'
  BY DEF stagedVars
<1>. HIDE DEF New
<1>. QED
  BY <1>1, <1>2, StagedQuiet

\* The merge of a search alone has, of what is staged, all that it does not leave out.
LEMMA MergesStaged ==
  ASSUME ShownInv, search \notin mixed, listed = search, NEW c \in calls, c.uid = search,
         UNCHANGED <<pageVars, stagingVars, searched, stored>>
  PROVE  /\ \A found : \A some \in SUBSET StagedBy(c, events) :
              /\ found = {events[n] : n \in some}
              /\ left' = left \cup {<<"events", c.uid, events[n]>> : n \in StagedBy(c, events) \ some}
              => MergedEvents(found)'
         /\ \A found : \A some \in SUBSET StagedBy(c, histos) :
              /\ found = UNION {Range(histos[n]) : n \in some}
              /\ left' = left \cup {<<"histo", c.uid, histos[n][1]>> : n \in StagedBy(c, histos) \ some}
              => MergedHistos(found)'
<1>1. NamesStaged
  BY DEF ShownInv, StagedInv
<1>2. /\ search' = search /\ metas' = metas /\ events' = events /\ histos' = histos /\ stored' = stored
      /\ Put' = Put /\ BatchesPut' = BatchesPut
  BY DEF pageVars, stagingVars, Put, BatchesPut, StoredOf
<1>3. ASSUME NEW some \in SUBSET StagedBy(c, events), NEW found, found = {events[n] : n \in some},
             left' = left \cup {<<"events", c.uid, events[n]>> : n \in StagedBy(c, events) \ some}
      PROVE  MergedEvents(found)'
  <2>1. \A n \in StagedBy(c, events) : n = <<search, Path[events[n]]>> /\ events[n] \in Put
    <3>1. \A n \in DOMAIN events : n = <<n[1], n[2]>>
      BY DEF ShownInv, SearchInv, TypeInv, TypeOK
    <3>. QED
      BY <1>1, <3>1 DEF StagedBy, NamesStaged
  <2>2. \A f \in found : \E n \in some : f = events[n]
    BY <1>3
  <2>3. found \subseteq Put /\ \A f, g \in found : Path[f] = Path[g] => f = g
    BY <2>1, <2>2
  <2>4. ASSUME NEW f \in Put
        PROVE  \E g \in Put : Path[g] = Path[f] /\ (g \in found \/ <<"events", search, g>> \in left')
    <3>. DEFINE n == <<search, Path[f]>>
    <3>1. n \in DOMAIN events /\ n[1] = search /\ n[2] = Path[f]
      BY <1>1 DEF NamesStaged
    <3>. HIDE DEF n
    <3>2. n \in StagedBy(c, events)
      BY <3>1 DEF StagedBy
    <3>3. events[n] \in Put /\ Path[events[n]] = Path[f]
      BY <1>1, <3>1 DEF NamesStaged
    <3>4. n \in some => events[n] \in found
      BY <1>3
    <3>5. n \notin some => <<"events", search, events[n]>> \in left'
      BY <1>3, <3>2
    <3>. QED
      BY <3>3, <3>4, <3>5
  <2>5. Put' = StoredOf("events", Range(metas))'
    BY DEF Put
  <2>. QED
    BY <1>2, <2>3, <2>4, <2>5 DEF MergedEvents, LeftOut
<1>4. ASSUME NEW some \in SUBSET StagedBy(c, histos), NEW found, found = UNION {Range(histos[n]) : n \in some},
             left' = left \cup {<<"histo", c.uid, histos[n][1]>> : n \in StagedBy(c, histos) \ some}
      PROVE  MergedHistos(found)'
  <2>1. ASSUME NEW b \in BatchesPut
        PROVE  \E d \in BatchesPut : Path[d[1]] = Path[b[1]] /\ (Range(d) \subseteq found \/ <<"histo", search, d[1]>> \in left')
    <3>. DEFINE n == <<search, Path[b[1]]>>
    <3>1. n \in DOMAIN histos /\ n[1] = search /\ n[2] = Path[b[1]]
      BY <1>1 DEF NamesStaged
    <3>. HIDE DEF n
    <3>2. n \in StagedBy(c, histos)
      BY <3>1 DEF StagedBy
    <3>3. histos[n] \in BatchesPut /\ Path[histos[n][1]] = Path[b[1]]
      BY <1>1, <3>1 DEF NamesStaged
    <3>4. n \in some => Range(histos[n]) \subseteq found
      BY <1>4
    <3>5. n \notin some => <<"histo", search, histos[n][1]>> \in left'
      BY <1>4, <3>2
    <3>. QED
      BY <3>3, <3>4, <3>5
  <2>2. BatchesPut' = {b \in Range(Batches(metas)) : <<"histo", search, b[1]>> \in stored}'
    BY DEF BatchesPut
  <2>. QED
    BY <1>2, <2>1, <2>2 DEF MergedHistos, LeftOut
<1>. QED
  BY <1>3, <1>4

\* A call that is answered has what there is of the staging directory of a search alone.
LEMMA StagedServed ==
  ASSUME ShownInv, NEW c \in calls, Wake(c) \/ ServeSubmit(c) \/ ServeNothing(c) \/ ServeEvents(c) \/ ServeHisto(c)
  PROVE  StagedInv'
<1>1. c \in Call
  BY DEF ShownInv, SearchInv, TypeInv, TypeOK
<1>2. CASE Wake(c)
  <2>. DEFINE d == [c EXCEPT !.at = "sent"]
  <2>1. /\ calls' = (calls \ {c}) \cup {d} /\ d.kind = c.kind /\ d.counts = c.counts /\ d.files = c.files
        /\ c.at # "answered" /\ d.at = "sent"
        /\ UNCHANGED <<pageVars, stagingVars, listed, mixed, searched, stored>> /\ left' = left
    BY <1>1, <1>2 DEF Wake, Call, historyVars, stagedVars
  <2>. HIDE DEF d
  <2>. QED
    BY <2>1, StagedOne
<1>3. CASE ServeSubmit(c)
  <2>1. PICK n, files : Answers(c, [c EXCEPT !.files = files])
    BY <1>3 DEF ServeSubmit
  <2>. DEFINE d == [[c EXCEPT !.files = files] EXCEPT !.at = "answered"]
  <2>2. /\ calls' = (calls \ {c}) \cup {d} /\ d.kind = c.kind /\ d.counts = c.counts /\ d.at = "answered"
        /\ d.kind = "submit"
        /\ UNCHANGED <<pageVars, stagingVars, listed, mixed, searched, stored>> /\ left' = left
    BY <1>1, <1>3, <2>1 DEF ServeSubmit, Sent, Answers, Call, historyVars, stagedVars
  <2>. HIDE DEF d
  <2>. QED
    BY <2>2, StagedOne
<1>4. CASE ServeNothing(c)
  <2>. DEFINE d == [c EXCEPT !.at = "answered"]
  <2>1. /\ calls' = (calls \ {c}) \cup {d} /\ d.kind = c.kind /\ d.counts = c.counts /\ d.files = c.files
        /\ d.at = "answered" /\ d.kind = "batch"
        /\ UNCHANGED <<pageVars, stagingVars, listed, mixed, searched, stored>> /\ left' = left
    BY <1>1, <1>4 DEF ServeNothing, Sent, Answers, Call, stagedVars
  <2>. HIDE DEF d
  <2>. QED
    BY <2>1, StagedOne
<1>5. ASSUME NEW found, Answers(c, [c EXCEPT !.merged = found]), c.kind \in {"events", "histo"},
             UNCHANGED <<pageVars, stagingVars, listed, mixed, searched, stored>>, left \subseteq left',
             search \notin mixed /\ listed = search =>
               /\ c.kind = "events" => MergedEvents(found)'
               /\ c.kind = "histo" => MergedHistos(found)'
      PROVE  StagedInv'
  <2>. DEFINE d == [[c EXCEPT !.merged = found] EXCEPT !.at = "answered"]
  <2>1. /\ calls' = (calls \ {c}) \cup {d} /\ d.kind = c.kind /\ d.counts = c.counts /\ d.at = "answered"
        /\ d.merged = found /\ d.kind # "batch"
    BY <1>1, <1>5 DEF Answers, Call
  <2>. HIDE DEF d
  <2>. QED
    BY <1>5, <2>1, StagedOne
<1>6. search \notin mixed => c.uid = search
  BY DEF ShownInv, SearchInv, LoneInv, LoneCalls
<1>7. CASE ServeEvents(c)
  <2>1. PICK some \in SUBSET StagedBy(c, events) :
          /\ Answers(c, [c EXCEPT !.merged = {events[n] : n \in some}])
          /\ left' = left \cup {<<"events", c.uid, events[n]>> : n \in StagedBy(c, events) \ some}
    BY <1>7 DEF ServeEvents
  <2>2. c.kind = "events" /\ UNCHANGED <<pageVars, stagingVars, listed, mixed, searched, stored>> /\ left \subseteq left'
    BY <1>7, <2>1 DEF ServeEvents, Sent, historyVars
  <2>3. PICK found : found = {events[n] : n \in some}
    OBVIOUS
  <2>4. search \notin mixed /\ listed = search => MergedEvents(found)'
    BY <1>6, <2>1, <2>2, <2>3, MergesStaged
  <2>. QED
    BY <1>5, <2>1, <2>2, <2>3, <2>4
<1>8. CASE ServeHisto(c)
  <2>1. PICK some \in SUBSET StagedBy(c, histos) :
          /\ Answers(c, [c EXCEPT !.merged = UNION {Range(histos[n]) : n \in some}])
          /\ left' = left \cup {<<"histo", c.uid, histos[n][1]>> : n \in StagedBy(c, histos) \ some}
    BY <1>8 DEF ServeHisto
  <2>2. c.kind = "histo" /\ UNCHANGED <<pageVars, stagingVars, listed, mixed, searched, stored>> /\ left \subseteq left'
    BY <1>8, <2>1 DEF ServeHisto, Sent, historyVars
  <2>3. PICK found : found = UNION {Range(histos[n]) : n \in some}
    OBVIOUS
  <2>4. search \notin mixed /\ listed = search => MergedHistos(found)'
    BY <1>6, <2>1, <2>2, <2>3, MergesStaged
  <2>. QED
    BY <1>5, <2>1, <2>2, <2>3, <2>4
<1>. QED
  BY <1>2, <1>3, <1>4, <1>7, <1>8

\* The end of a search that no other one overlaps is there when its answers come.
LEMMA StagedShown ==
  ASSUME ShownInv, NEW c \in calls, ReceiveEvents(c) \/ ReceiveHisto(c)
  PROVE  StagedInv'
<1>. DEFINE New == {}
<1>1. /\ calls' = (calls \ {c}) \cup New /\ search' = search /\ metas' = metas /\ results' = results
      /\ listed' = listed /\ mixed' = mixed /\ events' = events /\ histos' = histos /\ total' = total
      /\ searched' = searched /\ stored' = stored /\ left' = left /\ Whole' = Whole
  BY DEF ReceiveEvents, ReceiveHisto, stagingVars, historyVars, stagedVars, Whole
<1>2. /\ (New # {} => \E e \in New : New = {e})
      /\ \A e \in New :
           /\ e.kind = c.kind /\ e.counts = c.counts
           /\ e.kind = "batch" => e.files = c.files
           /\ e.at # "answered" => c.at # "answered"
      /\ \A e \in New : e.kind = "events" /\ e.at = "answered" => MergedEvents(e.merged)'
      /\ \A e \in New : e.kind = "histo" /\ e.at = "answered" => MergedHistos(e.merged)'
  OBVIOUS
<1>. HIDE DEF New
<1>3. /\ c.at = "answered"
      /\ view' = view \/ (c.kind = "events" /\ view'.files = c.merged /\ view'.total = total)
      /\ chart' = chart \/ (c.kind = "histo" /\ chart'.uid = c.uid /\ chart'.files = c.merged)
  BY DEF ReceiveEvents, ReceiveHisto, Received
<1>4. c.kind \in {"events", "histo"} /\ c.uid <= search
  BY DEF ReceiveEvents, ReceiveHisto, Received, ShownInv, SearchInv, TypeInv, CallInv
<1>5. search \notin mixed =>
        /\ c.uid = search /\ listed = search /\ Len(results) = Len(metas) /\ metas # <<>>
        /\ total = Cardinality(Whole)
  <2>. SUFFICES ASSUME search \notin mixed
                PROVE  /\ c.uid = search /\ listed = search /\ Len(results) = Len(metas) /\ metas # <<>>
                       /\ total = Cardinality(Whole)
    OBVIOUS
  <2>1. LoneCalls /\ LoneBatches /\ LoneEnd
    BY DEF ShownInv, SearchInv, LoneInv
  <2>2. c.uid = search /\ listed = search /\ Len(results) = Len(metas) /\ metas # <<>> /\ total = SumOf(results)
    BY <1>4, <2>1 DEF LoneCalls, LoneBatches, LoneEnd, Final, OfKind
  <2>3. Pending = {} /\ Whole \ Pending = Whole /\ Len(results) \in Nat
    BY <2>2, NoneLeft DEF ShownInv, SearchInv, TypeInv, TypeOK
  <2>4. Cardinality(Pending) = 0
    BY <2>3, FS_EmptySet
  <2>5. ResultsStaged
    BY <2>2 DEF ShownInv, StagedInv
  <2>6. SumOf(results) = Cardinality(Whole)
    BY <2>2, <2>3, <2>4, <2>5 DEF ResultsStaged
  <2>. QED
    BY <2>2, <2>6
<1>6. chart'.uid <= search /\ (search \notin mixed /\ listed # search => chart'.uid # search)
  BY <1>3, <1>4, <1>5 DEF ShownInv, StagedInv
<1>7. search \notin mixed /\ listed = search => ViewStaged' /\ ChartStaged'
  <2>. SUFFICES ASSUME search \notin mixed, listed = search PROVE ViewStaged' /\ ChartStaged'
    OBVIOUS
  <2>1. /\ AnswersStaged /\ ViewStaged /\ ChartStaged
        /\ c.kind = "events" => MergedEvents(c.merged)
        /\ c.kind = "histo" => MergedHistos(c.merged)
    BY <1>3 DEF ShownInv, StagedInv, EndStaged, AnswersStaged, OfKind
  <2>2. \A files : (MergedEvents(files) => MergedEvents(files)') /\ (MergedHistos(files) => MergedHistos(files)')
    BY <1>1, MergedKept
  <2>3. ViewStaged'
    BY <1>1, <1>3, <1>5, <2>1, <2>2 DEF ViewStaged
  <2>4. ChartStaged'
    BY <1>1, <1>3, <1>5, <2>1, <2>2 DEF ChartStaged
  <2>. QED
    BY <2>3, <2>4
<1>. QED
  BY <1>1, <1>2, <1>6, <1>7, StagedKept

LEMMA StagedStep ==
  ASSUME ShownInv, SearchInv', [Next]_vars
  PROVE  StagedInv'
<1>1. ASSUME NEW c \in calls, Fail(c) PROVE StagedInv'
  BY <1>1, StagedDrop DEF Fail
<1>2. CASE UNCHANGED vars
  <2>1. /\ Used' = Used /\ Whole' = Whole /\ Put' = Put /\ BatchesPut' = BatchesPut /\ Pending' = Pending
        /\ OfKind("batch")' = OfKind("batch") /\ OfKind("events")' = OfKind("events") /\ OfKind("histo")' = OfKind("histo")
        /\ SumOf(results)' = SumOf(results)
    BY <1>2 DEF vars, pageVars, stagingVars, historyVars, stagedVars, Used, Whole, Put, BatchesPut, StoredOf,
                Pending, OfKind, SumOf
  <2>2. UNCHANGED <<search, metas, results, view, chart, listed, mixed, events, histos, stored, left>>
    BY <1>2 DEF vars, pageVars, stagingVars, historyVars, stagedVars
  <2>3. \A files : (MergedEvents(files) => MergedEvents(files)') /\ (MergedHistos(files) => MergedHistos(files)')
    BY <2>2, MergedKept
  <2>4. EndStaged => EndStaged'
    BY <2>1, <2>2, <2>3 DEF EndStaged, AnswersStaged, ViewStaged, ChartStaged
  <2>. QED
    BY <2>1, <2>2, <2>4 DEF ShownInv, StagedInv, BatchesStaged, ResultsStaged, NamesStaged
<1>. QED
  BY <1>1, <1>2, StagedSubmit, StagedFiles, StagedResults, StagedShown, StagedServed, StagedBatch
  DEF Next, Advance, Receive, Serve

LEMMA ShownInductive == Spec => []ShownInv
<1>1. Init => ShownInv
  BY SearchInit, StagedInit DEF ShownInv
<1>2. ShownInv /\ [Next]_vars => ShownInv'
  BY TypeStep, CallStep, SearchStep, StagedStep DEF ShownInv, SearchInv, TypeInv
<1>. QED
  BY <1>1, <1>2, PTL DEF Spec

\* What the page shows of a search that no other one overlaps has an event file of every
\* path one was stored for, but for those that could not be read when they were merged,
\* and its total is the number of the files that were searched to the end, whatever order
\* the batches are served and answered in and whichever files of theirs fail or are lost.
THEOREM ShownIsWhole == Spec => []ShownWhole
<1>1. ShownInv => ShownWhole
  <2>. SUFFICES ASSUME ShownInv, Alone(view.uid)
                PROVE  MergedEvents(view.files) /\ view.total = Cardinality(Whole)
    BY DEF ShownWhole, Whole
  <2>1. view.uid = search /\ search \notin mixed /\ search # 0
    BY DEF Alone, Uids
  <2>2. listed = search
    BY <2>1 DEF ShownInv, SearchInv, LoneInv, LoneEnd
  <2>. QED
    BY <2>1, <2>2 DEF ShownInv, StagedInv, EndStaged, ViewStaged
<1>. QED
  BY <1>1, ShownInductive, PTL

\* The histograms of a search's batches replace each other only if their first files have
\* one path, and none is stored after they were merged: the chart has a batch for every
\* name one was stored under, but for those that could not be read.
THEOREM ChartIsWhole == Spec => []ChartWhole
<1>1. ShownInv => ChartWhole
  <2>. SUFFICES ASSUME ShownInv, Alone(chart.uid) PROVE MergedHistos(chart.files)
    BY DEF ChartWhole
  <2>1. chart.uid = search /\ search \notin mixed /\ search # 0
    BY DEF Alone, Uids
  <2>. QED
    BY <2>1 DEF ShownInv, StagedInv, EndStaged, ChartStaged
<1>. QED
  BY <1>1, ShownInductive, PTL

=============================================================================
