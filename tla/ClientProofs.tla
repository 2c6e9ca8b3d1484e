---------------------------- MODULE ClientProofs ----------------------------
(***************************************************************************)
(* Proofs about Client: its types, and its three safety properties for any *)
(* files, models, queries and number of actions.                           *)
(***************************************************************************)
EXTENDS Client, TLAPS

-----------------------------------------------------------------------------
(* Queries *)

LEMMA QueriesAre == NoQuery \notin Queries /\ \A q \in Queries : \A i \in Inputs : q[i] \in Pieces
  BY DEF NoQuery, Queries, Texts, Inputs

LEMMA AnyQueryIs == AnyQuery \in Queries
  BY ModelsAssumption DEF AnyQuery, Queries, Texts

\* The inputs of a query are its first four pieces.
LEMMA SplitIs ==
  ASSUME NEW q \in Queries
  PROVE  Split(q) \in [Inputs -> Texts] /\ \A i \in Inputs : Split(q)[i] = <<q[i]>>
<1>1. \A i \in Inputs : <<q[i]>> \in Texts
  BY QueriesAre DEF Texts
<1>. QED
  BY <1>1 DEF Split

\* Inputs with a tag each are a query.
LEMMA JoinIs ==
  ASSUME NEW texts \in [Inputs -> Texts], \A i \in Inputs : texts[i] # NoTag
  PROVE  Join(texts) \in Queries
<1>1. \A i \in Inputs : texts[i] \in Seq(Pieces) /\ Len(texts[i]) \in Nat \ {0}
  BY DEF NoTag, Texts
<1>2. PICK a, b, c, d : a = texts[1] /\ b = texts[2] /\ c = texts[3] /\ d = texts[4]
  OBVIOUS
<1>3. /\ a \in Seq(Pieces) /\ b \in Seq(Pieces) /\ c \in Seq(Pieces) /\ d \in Seq(Pieces)
      /\ Len(a) \in Nat \ {0} /\ Len(b) \in Nat \ {0} /\ Len(c) \in Nat \ {0} /\ Len(d) \in Nat \ {0}
  BY <1>1, <1>2 DEF Inputs
<1>4. a \o b \o c \o d \in Seq(Pieces) /\ Len(a \o b \o c \o d) = Len(a) + Len(b) + Len(c) + Len(d)
  BY <1>3
<1>5. Len(a) + Len(b) + Len(c) + Len(d) >= 4
  BY <1>3
<1>6. Join(texts) = a \o b \o c \o d
  BY <1>2, Zenon DEF Join
<1>7. PICK q : q = a \o b \o c \o d
  OBVIOUS
<1>8. q \in Seq(Pieces) /\ Len(q) >= 4
  BY <1>4, <1>5, <1>7, Zenon
<1>. QED
  BY <1>6, <1>7, <1>8 DEF Queries, Texts

\* t is the first n pieces of q.
FirstOf(t, n, q) == t \in Texts /\ Len(t) = n /\ \A i \in 1 .. n : t[i] = q[i]

LEMMA OneMore ==
  ASSUME NEW q, NEW n \in Nat, NEW t, FirstOf(t, n, q), NEW x \in Pieces, x = q[n + 1]
  PROVE  FirstOf(t \o <<x>>, n + 1, q)
<1>1. PICK u : u = t \o <<x>>
  OBVIOUS
<1>2. t \in Seq(Pieces) /\ \A i \in 1 .. Len(t) : t[i] = q[i]
  BY DEF FirstOf, Texts
<1>3. /\ u \in Seq(Pieces) /\ Len(u) = Len(t) + 1 /\ u[Len(t) + 1] = x
      /\ \A i \in 1 .. Len(t) : u[i] = t[i]
  BY ONLY <1>1, <1>2, x \in Pieces
<1>4. \A i \in 1 .. n + 1 : i \in 1 .. n \/ i = n + 1
  OBVIOUS
<1>5. Len(t) = n
  BY DEF FirstOf
<1>6. \A i \in 1 .. n + 1 : u[i] = q[i]
  BY <1>2, <1>3, <1>4, <1>5
<1>. QED
  BY <1>1, <1>3, <1>5, <1>6 DEF FirstOf, Texts

\* What was split is joined to its first four pieces.
LEMMA JoinOfSplit ==
  ASSUME NEW q \in Queries
  PROVE  Split(Join(Split(q))) = Split(q) /\ (Len(q) = 4 => Join(Split(q)) = q)
<1>1. PICK s : s = Split(q) /\ \A i \in Inputs : s[i] = <<q[i]>> /\ q[i] \in Pieces
  BY SplitIs, QueriesAre
<1>2. /\ s[1] = <<q[1]>> /\ s[2] = <<q[2]>> /\ s[3] = <<q[3]>> /\ s[4] = <<q[4]>>
      /\ q[1] \in Pieces /\ q[2] \in Pieces /\ q[3] \in Pieces /\ q[4] \in Pieces
  BY <1>1 DEF Inputs
<1>3. FirstOf(<<q[1]>>, 1, q)
  BY <1>2 DEF FirstOf, Texts
<1>4. FirstOf(<<q[1]>> \o <<q[2]>>, 2, q)
  <2>1. FirstOf(<<q[1]>> \o <<q[2]>>, 1 + 1, q)
    BY <1>2, <1>3, OneMore
  <2>. QED
    BY <2>1
<1>5. FirstOf(<<q[1]>> \o <<q[2]>> \o <<q[3]>>, 3, q)
  <2>1. FirstOf(<<q[1]>> \o <<q[2]>> \o <<q[3]>>, 2 + 1, q)
    BY <1>2, <1>4, OneMore
  <2>. QED
    BY <2>1
<1>6. FirstOf(<<q[1]>> \o <<q[2]>> \o <<q[3]>> \o <<q[4]>>, 4, q)
  <2>1. FirstOf(<<q[1]>> \o <<q[2]>> \o <<q[3]>> \o <<q[4]>>, 3 + 1, q)
    BY <1>2, <1>5, OneMore
  <2>. QED
    BY <2>1
<1>7. PICK w : w = Join(s)
  OBVIOUS
<1>8. FirstOf(w, 4, q)
  BY <1>2, <1>6, <1>7, Zenon DEF Join
<1>9. w \in Texts /\ Len(w) = 4 /\ \A i \in Inputs : w[i] = q[i]
  BY <1>8 DEF FirstOf, Inputs
<1>10. Split(w) = Split(q)
  BY <1>9 DEF Split
<1>11. Len(q) = 4 => w = q
  BY <1>9 DEF Queries, Texts, Inputs
<1>. QED
  BY <1>1, <1>7, <1>10, <1>11

-----------------------------------------------------------------------------
(* Types *)

\* Numbers of actions, and the calls and panels of the page.
LEMMA Numbers == 0 \in Actions /\ 1 \in Actions /\ (action < MaxActions /\ action \in Actions => action + 1 \in Actions)
  BY PageAssumption, SMT DEF Actions

LEMMA KindsOfPanels == Panels \subseteq Kinds /\ {"import", "remove", "submit"} \subseteq Kinds
  BY DEF Kinds

\* The operators of Page keep its types.
LEMMA ActTypes == ASSUME PageTypeOK, Act PROVE action' \in Actions /\ action + 1 \in Actions
  BY Numbers DEF PageTypeOK, Act

LEMMA CallTypes == ASSUME NEW n \in Actions, NEW k \in Kinds PROVE Call(n, k) \in Calls
  BY DEF Call, Calls

LEMMA TypeInit == Init => TypeOK
<1>. SUFFICES ASSUME Init PROVE TypeOK
  OBVIOUS
<1>1. PageTypeOK
  <2>1. "files" \in Kinds /\ "files" \in Panels /\ calls = {Call(1, "files")}
    BY KindsOfPanels DEF Init, PageInit, Panels
  <2>2. calls \subseteq Calls
    BY <2>1, Numbers, CallTypes
  <2>3. shown \in [Panels -> Actions] /\ asked \in [Panels -> Actions]
    BY Numbers DEF Init, PageInit
  <2>. QED
    BY <2>2, <2>3, Numbers DEF Init, PageInit, PageTypeOK
<1>2. ExplorerTypeOK
  BY DEF Init, ExplorerInit, ExplorerTypeOK
<1>3. RefineryTypeOK
  BY ModelsAssumption, AnyQueryIs, SplitIs DEF Init, RefineryInit, RefineryTypeOK
<1>4. DataflowTypeOK
  BY DEF Init, DataflowInit, DataflowTypeOK
<1>. QED
  BY <1>1, <1>2, <1>3, <1>4 DEF TypeOK

LEMMA AskTypes == ASSUME PageTypeOK, NEW P \in SUBSET Panels, Ask(P) PROVE PageTypeOK'
<1>1. action' \in Actions /\ action + 1 \in Actions
  BY ActTypes DEF Ask
<1>2. calls' \subseteq Calls
  BY <1>1, CallTypes, KindsOfPanels DEF Ask, CallsAre, PageTypeOK
<1>. QED
  BY <1>1, <1>2 DEF Ask, CallsAre, PageTypeOK, Asked, Show

LEMMA SendTypes == ASSUME PageTypeOK, NEW k \in Kinds, Send(k) PROVE PageTypeOK'
<1>1. action' \in Actions /\ action + 1 \in Actions
  BY ActTypes DEF Send
<1>2. calls' \subseteq Calls
  BY <1>1, CallTypes DEF Send, CallsAre, PageTypeOK
<1>. QED
  BY <1>1, <1>2 DEF Send, CallsAre, PageTypeOK, Show

LEMMA EndTypes ==
  ASSUME PageTypeOK, NEW c \in Calls, End(c), Draw(c) \/ Fail(c)
  PROVE  PageTypeOK'
<1>1. shown' \in [Panels -> Actions] /\ unsure' \subseteq Panels
  <2>1. CASE Draw(c)
    BY <2>1 DEF PageTypeOK, Draw, Calls
  <2>2. CASE Fail(c)
    BY <2>2 DEF PageTypeOK, Fail
  <2>. QED
    BY <2>1, <2>2
<1>2. calls' \subseteq Calls /\ crowded' \in BOOLEAN
  BY DEF PageTypeOK, End, CallsAre
<1>. QED
  BY <1>1, <1>2 DEF PageTypeOK, End, Hide

LEMMA GiveUpTypes == ASSUME PageTypeOK, NEW c \in Calls, GiveUp(c) PROVE PageTypeOK'
  BY DEF PageTypeOK, GiveUp, Fail, Leave, CallsAre, Calls

\* A view that moves or leaves, and its call, keep their types.
LEMMA ViewTypes ==
  ASSUME ExplorerTypeOK, NEW v \in views
  PROVE  /\ Editor(v) \in Calls
         /\ Leaves(v) => ExplorerTypeOK'
         /\ \A step \in Steps : Moves(v, step) => ExplorerTypeOK'
  BY CallTypes DEF ExplorerTypeOK, Views, Editor, Leaves, Moves, Kinds, Panels

\* "editor" can be given the message of no file.
LEMMA MessageTypes == ASSUME PageTypeOK, Message PROVE shown' \in [Panels -> Actions]
  BY Numbers DEF PageTypeOK, Message

\* A view that goes on.
LEMMA ViewGoesOnTypes ==
  ASSUME PageTypeOK, ExplorerTypeOK, NEW v \in views, ViewGoesOn(v)
  PROVE  PageTypeOK' /\ ExplorerTypeOK'
<1>1. CASE TextUrl(v)
  BY <1>1, ViewTypes DEF TextUrl, Waits, PageTypeOK, Steps
<1>2. CASE ArchiveUrl(v)
  BY <1>2, ViewTypes DEF ArchiveUrl, Hide, Waits, PageTypeOK, Steps
<1>3. CASE NoUrl(v)
  BY <1>3, ViewTypes, GiveUpTypes DEF NoUrl
<1>4. CASE TextContent(v)
  BY <1>4, ViewTypes, EndTypes DEF TextContent, Content
<1>5. CASE FallBack(v)
  BY <1>5, ViewTypes, MessageTypes DEF FallBack, HideAndShow, Waits, PageTypeOK, Steps
<1>6. CASE NoContent(v)
  <2>1. calls' \subseteq Calls /\ crowded' \in BOOLEAN
    BY <1>6 DEF NoContent, CallsAre, PageTypeOK
  <2>. QED
    BY <1>6, <2>1, ViewTypes, MessageTypes DEF NoContent, Leave, PageTypeOK, Panels
<1>7. CASE Loaded(v)
  BY <1>7, ViewTypes, MessageTypes DEF Loaded, Waits, PageTypeOK, Steps
<1>8. CASE Again(v)
  BY <1>8, ViewTypes DEF Again, HideAndShow, Waits, PageTypeOK, Steps
<1>9. CASE Expanded(v)
  BY <1>9, ViewTypes, EndTypes DEF Expanded, Content
<1>10. CASE Broken(v)
  BY <1>10, ViewTypes, GiveUpTypes DEF Broken
<1>. QED
  BY <1>1, <1>2, <1>3, <1>4, <1>5, <1>6, <1>7, <1>8, <1>9, <1>10 DEF ViewGoesOn

\* The explorer.
LEMMA ExplorerTypes ==
  ASSUME PageTypeOK, ExplorerTypeOK, ExplorerActs \/ ExplorerAnswers
  PROVE  PageTypeOK' /\ ExplorerTypeOK'
<1>1. CASE RefreshFiles
  BY <1>1, AskTypes DEF RefreshFiles, Panels, ExplorerTypeOK
<1>2. CASE Import
  BY <1>2, SendTypes, KindsOfPanels DEF Import, ExplorerTypeOK
<1>3. ASSUME NEW f \in Files, Open(f) PROVE PageTypeOK' /\ ExplorerTypeOK'
  <2>1. action' \in Actions /\ action + 1 \in Actions
    BY <1>3, ActTypes DEF Open
  <2>2. calls' \subseteq Calls /\ crowded' \in BOOLEAN
    BY <1>3, <2>1, CallTypes DEF Open, CallsAre, PageTypeOK, Kinds, Panels
  <2>3. asked' \in [Panels -> Actions] /\ unsure' \subseteq Panels
    BY <1>3, <2>1 DEF Open, Asked, PageTypeOK, Panels
  <2>4. ExplorerTypeOK'
    BY <1>3, <2>1 DEF Open, ExplorerTypeOK, Views, Steps
  <2>. QED
    BY <1>3, <2>1, <2>2, <2>3, <2>4, MessageTypes DEF Open, Show, PageTypeOK
<1>4. CASE FilesListed
  BY <1>4, EndTypes DEF FilesListed, Answer, Refuse, PageTypeOK, ExplorerTypeOK
<1>5. CASE Imported
  BY <1>5, EndTypes DEF Imported, Refuse, PageTypeOK, ExplorerTypeOK
<1>6. CASE \E v \in views : ViewGoesOn(v)
  BY <1>6, ViewGoesOnTypes
<1>. QED
  BY <1>1, <1>2, <1>3, <1>4, <1>5, <1>6 DEF ExplorerActs, ExplorerAnswers

\* What a load can answer.
LEMMA QueryTypes == ASSUME RefineryTypeOK, NEW m \in Models PROVE QueryOf(m) \in Queries
  BY AnyQueryIs DEF RefineryTypeOK, QueryOf

\* The call that a callback of the refinery makes.
LEMMA AskModelsTypes ==
  ASSUME PageTypeOK, NEW n \in Actions, NEW S \in SUBSET Calls, AskModels(n, S)
  PROVE  /\ calls' \subseteq Calls /\ crowded' \in BOOLEAN
         /\ asked' \in [Panels -> Actions] /\ unsure' \subseteq Panels
         /\ action' \in Actions
<1>1. calls' \subseteq Calls /\ crowded' \in BOOLEAN
  BY CallTypes DEF AskModels, CallsAre, Kinds, Panels
<1>. QED
  BY <1>1 DEF AskModels, Asked, PageTypeOK, Panels

LEMMA ClearModelsTypes == ASSUME PageTypeOK, ClearModels PROVE shown' \in [Panels -> Actions]
  BY Numbers DEF PageTypeOK, ClearModels

\* The refinery.
LEMMA RefineryTypes ==
  ASSUME PageTypeOK, RefineryTypeOK, RefineryActs \/ RefineryAnswers \/ OthersSave
  PROVE  PageTypeOK' /\ RefineryTypeOK'
<1>. USE DEF refineryVars, nameVars, fetchVars, inputVars
<1>1. ASSUME NEW m \in Models, TypeName(m) PROVE PageTypeOK' /\ RefineryTypeOK'
  BY <1>1 DEF TypeName, pageVars, PageTypeOK, RefineryTypeOK
<1>2. ASSUME NEW m \in Models, PickModel(m) PROVE PageTypeOK' /\ RefineryTypeOK'
  <2>1. action' \in Actions /\ action + 1 \in Actions
    BY <1>2, ActTypes DEF PickModel
  <2>2. PageTypeOK'
    BY <1>2, <2>1 DEF PickModel, OnlyActs, PageTypeOK
  <2>3. loads' \subseteq Load
    <3>. DEFINE new == [n |-> action + 1, model |-> m, got |-> NoQuery, read |-> FALSE]
    <3>1. new \in Load
      BY <2>1 DEF Load
    <3>2. loads' = loads \cup {new}
      BY <1>2 DEF PickModel
    <3>. QED
      BY <3>1, <3>2 DEF RefineryTypeOK
  <2>4. raced' \subseteq Models
    BY <1>2 DEF PickModel, RefineryTypeOK
  <2>. QED
    BY <1>2, <2>2, <2>3, <2>4 DEF PickModel, RefineryTypeOK
<1>3. ASSUME NEW i \in Inputs, NEW text \in Texts, TypeQuery(i, text) PROVE PageTypeOK' /\ RefineryTypeOK'
  BY <1>3 DEF TypeQuery, pageVars, PageTypeOK, RefineryTypeOK
<1>4. CASE SaveModel
  <2>1. action' \in Actions /\ action + 1 \in Actions
    BY <1>4, ActTypes DEF SaveModel
  <2>2. PageTypeOK'
    BY <1>4, <2>1 DEF SaveModel, OnlyActs, PageTypeOK
  <2>3. saves' \subseteq Save /\ raced' \subseteq Models
    <3>1. Join(inputs) \in Queries
      BY <1>4, JoinIs DEF SaveModel, RefineryTypeOK
    <3>. QED
      BY <1>4, <2>1, <3>1 DEF SaveModel, RefineryTypeOK, Save
  <2>. QED
    BY <1>4, <2>2, <2>3 DEF SaveModel, RefineryTypeOK
<1>5. CASE RefreshModels
  <2>1. action' \in Actions /\ action + 1 \in Actions
    BY <1>5, ActTypes DEF RefreshModels
  <2>2. calls' \subseteq Calls /\ crowded' \in BOOLEAN
    BY <1>5, <2>1, CallTypes DEF RefreshModels, CallsAre, PageTypeOK, Kinds, Panels
  <2>3. asked' \in [Panels -> Actions] /\ unsure' \subseteq Panels
    BY <1>5, <2>1 DEF RefreshModels, Asked, PageTypeOK, Panels
  <2>. QED
    BY <1>5, <2>1, <2>2, <2>3, ClearModelsTypes DEF RefreshModels, Show, PageTypeOK, RefineryTypeOK
<1>6. CASE SubmitModel
  BY <1>6, SendTypes, KindsOfPanels DEF SubmitModel, RefineryTypeOK
<1>7. CASE ModelsListed
  BY <1>7, EndTypes DEF ModelsListed, Answer, Refuse, PageTypeOK, RefineryTypeOK
<1>8. ASSUME NEW l \in loads, ServeLoad(l) PROVE PageTypeOK' /\ RefineryTypeOK'
  <2>1. l \in Load /\ AnyQuery \in Queries /\ QueryOf(l.model) \in Queries
    BY QueryTypes, AnyQueryIs DEF RefineryTypeOK, Load
  <2>2. loads' \subseteq Load
    BY <1>8, <2>1 DEF ServeLoad, RefineryTypeOK, Load
  <2>. QED
    BY <1>8, <2>2 DEF ServeLoad, pageVars, PageTypeOK, RefineryTypeOK
<1>9. ASSUME NEW l \in loads, FillInputs(l) PROVE PageTypeOK' /\ RefineryTypeOK'
  <2>1. l.n \in Actions /\ l.model \in Models /\ l.got \in Queries
    BY <1>9 DEF FillInputs, RefineryTypeOK, Load
  <2>2. Split(l.got) \in [Inputs -> Texts]
    BY <2>1, SplitIs
  <2>. QED
    BY <1>9, <2>1, <2>2, AskModelsTypes DEF FillInputs, Show, PageTypeOK, RefineryTypeOK
<1>10. ASSUME NEW l \in loads, LoseLoad(l) PROVE PageTypeOK' /\ RefineryTypeOK'
  BY <1>10 DEF LoseLoad, pageVars, PageTypeOK, RefineryTypeOK
<1>11. ASSUME NEW t \in saves, ServeSave(t) PROVE PageTypeOK' /\ RefineryTypeOK'
  BY <1>11 DEF ServeSave, pageVars, PageTypeOK, RefineryTypeOK, Save
<1>12. ASSUME NEW t \in saves, LoseSave(t) PROVE PageTypeOK' /\ RefineryTypeOK'
  BY <1>12 DEF LoseSave, pageVars, PageTypeOK, RefineryTypeOK
<1>13. ASSUME NEW c \in calls, ModelBuilt(c) PROVE PageTypeOK' /\ RefineryTypeOK'
  <2>1. c.n \in Actions /\ calls \ {c} \in SUBSET Calls
    BY DEF PageTypeOK, Calls
  <2>. QED
    BY <1>13, <2>1, AskModelsTypes, ClearModelsTypes DEF ModelBuilt, HideAndShow, PageTypeOK, RefineryTypeOK
<1>14. ASSUME NEW c \in calls, BuildLost(c) PROVE PageTypeOK' /\ RefineryTypeOK'
  BY <1>14, GiveUpTypes DEF BuildLost, PageTypeOK, RefineryTypeOK
<1>15. ASSUME NEW m \in Models, NEW q \in Queries, OtherSaves(m, q) PROVE PageTypeOK' /\ RefineryTypeOK'
  BY <1>15 DEF OtherSaves, pageVars, PageTypeOK, RefineryTypeOK
<1>16. CASE \E e \in Edits : TypeQuery(e[1], e[2])
  BY <1>3, <1>16, ModelsAssumption
<1>17. CASE OthersSave
  BY <1>15, <1>17, ModelsAssumption DEF OthersSave
<1>. QED
  BY <1>1, <1>2, <1>4, <1>5, <1>6, <1>7, <1>8, <1>9, <1>10, <1>11, <1>12, <1>13, <1>14, <1>16, <1>17
  DEF RefineryActs, RefineryAnswers

\* The views of a dataflow.
LEMMA DataflowTypes ==
  ASSUME PageTypeOK, DataflowTypeOK, DataflowActs \/ DataflowAnswers
  PROVE  PageTypeOK' /\ DataflowTypeOK'
<1>1. CASE DataflowActs
  BY <1>1, AskTypes DEF DataflowActs, ExecuteDataflow, ClickHistogram, ClickHeatmap, Drilldown, Panels, DataflowTypeOK
<1>2. CASE FlowsDrawn
  BY <1>2, EndTypes DEF FlowsDrawn, Answer, Refuse, PageTypeOK, DataflowTypeOK
<1>3. ASSUME NEW p \in Bars, ChartLoaded(p) PROVE PageTypeOK' /\ DataflowTypeOK'
  BY <1>3, Numbers DEF ChartLoaded, PageTypeOK, DataflowTypeOK
<1>. QED
  BY <1>1, <1>2, <1>3 DEF DataflowAnswers

LEMMA ReloadTypes == ASSUME TypeOK, Reload PROVE TypeOK'
<1>1. action' \in Actions /\ action + 1 \in Actions
  BY ActTypes DEF Reload, TypeOK
<1>2. calls' \subseteq Calls
  BY <1>1, CallTypes DEF Reload, Kinds, Panels
<1>3. PageTypeOK'
  BY <1>1, <1>2, Numbers DEF Reload, PageTypeOK
<1>4. RefineryTypeOK'
  BY ModelsAssumption, AnyQueryIs, SplitIs DEF Reload, RefineryTypeOK, TypeOK
<1>. QED
  BY <1>3, <1>4 DEF Reload, TypeOK, ExplorerTypeOK, DataflowTypeOK

LEMMA TypeStep == TypeOK /\ [Next]_vars => TypeOK'
<1>. SUFFICES ASSUME TypeOK, [Next]_vars PROVE TypeOK'
  OBVIOUS
<1>1. CASE (ExplorerActs \/ ExplorerAnswers) /\ OthersOfExplorer
  BY <1>1, ExplorerTypes DEF TypeOK, OthersOfExplorer, refineryVars, nameVars, fetchVars, inputVars, RefineryTypeOK, DataflowTypeOK
<1>2. CASE (RefineryActs \/ RefineryAnswers \/ OthersSave) /\ OthersOfRefinery
  BY <1>2, RefineryTypes DEF TypeOK, OthersOfRefinery, ExplorerTypeOK, DataflowTypeOK
<1>3. CASE (DataflowActs \/ DataflowAnswers) /\ OthersOfDataflow
  BY <1>3, DataflowTypes DEF TypeOK, OthersOfDataflow, refineryVars, nameVars, fetchVars, inputVars, ExplorerTypeOK, RefineryTypeOK
<1>4. CASE Reload
  BY <1>4, ReloadTypes
<1>5. CASE UNCHANGED vars
  BY <1>5 DEF vars, pageVars, refineryVars, nameVars, fetchVars, inputVars, TypeOK, PageTypeOK, ExplorerTypeOK, RefineryTypeOK, DataflowTypeOK
<1>. QED
  BY <1>1, <1>2, <1>3, <1>4, <1>5 DEF Next, Acts, Answers

\* Every variable keeps its type.
THEOREM TypeCorrect == Spec => []TypeOK
  BY TypeInit, TypeStep, PTL DEF Spec

-----------------------------------------------------------------------------
(* Models *)

\* A save under way of the model in the inputs saves these inputs; a load that no save
\* of its model is beside has none, and what it was answered is still stored.
LoadInv ==
  /\ inputsOf # NoModel => inputs = Split(QueryOf(inputsOf))
  /\ \A t \in saves : t.model = inputsOf => inputs = Split(t.query)
  /\ \A l \in loads : l.model \notin raced =>
       /\ ~Saving(l.model)
       /\ l.got # NoQuery /\ l.read => l.got = QueryOf(l.model)

LEMMA LoadInit == Init => LoadInv
  BY DEF Init, RefineryInit, LoadInv

\* The variables of LoadInv are the refinery's.
LEMMA LoadUnchanged == ASSUME LoadInv, UNCHANGED refineryVars PROVE LoadInv'
  BY DEF LoadInv, QueryOf, Saving, refineryVars, nameVars, fetchVars, inputVars

\* A fetch that is answered, or lost, leaves the rest as it was.
LEMMA FetchLost ==
  ASSUME LoadInv, loads' \subseteq loads, saves' \subseteq saves, UNCHANGED <<stored, inputs, inputsOf, raced>>
  PROVE  LoadInv'
  BY DEF LoadInv, QueryOf, Saving

LEMMA LoadStep == ASSUME TypeOK, LoadInv, [Next]_vars PROVE LoadInv'
<1>. USE DEF refineryVars, nameVars, fetchVars, inputVars
<1>1. ASSUME NEW m \in Models, TypeName(m) PROVE LoadInv'
  BY <1>1, FetchLost DEF TypeName
<1>2. ASSUME NEW i, NEW text, TypeQuery(i, text) PROVE LoadInv'
  BY <1>2, ModelsAssumption DEF TypeQuery, LoadInv, QueryOf, Saving, TypeOK, RefineryTypeOK, Save
<1>3. ASSUME NEW m \in Models, PickModel(m) PROVE LoadInv'
  <2>1. (inputsOf' # NoModel => inputs' = Split(QueryOf(inputsOf)'))
        /\ \A t \in saves' : t.model = inputsOf' => inputs' = Split(t.query)
    BY <1>3 DEF PickModel, LoadInv, QueryOf
  <2>2. ASSUME NEW l \in loads', l.model \notin raced'
        PROVE  ~Saving(l.model)' /\ (l.got # NoQuery /\ l.read => l.got = QueryOf(l.model)')
    <3>1. CASE l \in loads
      BY <1>3, <2>2, <3>1 DEF PickModel, LoadInv, QueryOf, Saving, Loading
    <3>2. CASE l \notin loads
      BY <1>3, <2>2, <3>2 DEF PickModel, QueryOf, Saving
    <3>. QED
      BY <3>1, <3>2
  <2>. QED
    BY <2>1, <2>2 DEF LoadInv, Saving, QueryOf
<1>4. CASE SaveModel
  <2>1. (inputsOf' # NoModel => inputs' = Split(QueryOf(inputsOf)'))
        /\ \A t \in saves' : t.model = inputsOf' => inputs' = Split(t.query)
    <3>1. inputsOf # NoModel => Split(Join(inputs)) = inputs
      <4>1. inputsOf # NoModel => inputsOf \in Models
        BY DEF TypeOK, RefineryTypeOK
      <4>. QED
        BY <4>1, QueryTypes, SplitIs, JoinOfSplit DEF LoadInv, TypeOK
    <3>2. \A t \in saves' : (t.model = modelName /\ t.query = Join(inputs)) \/ t \in saves
      BY <1>4 DEF SaveModel
    <3>3. modelName # NoModel /\ UNCHANGED <<stored, inputs, inputsOf>>
      BY <1>4, ModelsAssumption DEF SaveModel, TypeOK, RefineryTypeOK
    <3>. QED
      BY <3>1, <3>2, <3>3 DEF LoadInv, QueryOf
  <2>2. ASSUME NEW l \in loads', l.model \notin raced'
        PROVE  ~Saving(l.model)' /\ (l.got # NoQuery /\ l.read => l.got = QueryOf(l.model)')
    BY <1>4, <2>2 DEF SaveModel, LoadInv, QueryOf, Saving, Loading
  <2>. QED
    BY <2>1, <2>2 DEF LoadInv, Saving, QueryOf
<1>5. ASSUME NEW l \in loads, ServeLoad(l) PROVE LoadInv'
  <2>1. PICK read \in BOOLEAN :
          loads' = (loads \ {l}) \cup
            {[l EXCEPT !.got = IF read THEN QueryOf(l.model) ELSE AnyQuery, !.read = read]}
    BY <1>5 DEF ServeLoad
  <2>. DEFINE answered == [l EXCEPT !.got = IF read THEN QueryOf(l.model) ELSE AnyQuery, !.read = read]
  <2>2. /\ answered.model = l.model /\ answered.read = read
        /\ read => answered.got = QueryOf(l.model)
    BY DEF TypeOK, RefineryTypeOK, Load
  <2>3. UNCHANGED <<stored, saves, inputs, inputsOf, raced>>
    BY <1>5 DEF ServeLoad
  <2>4. \A k \in loads' : k = answered \/ k \in loads
    BY <2>1
  <2>5. \A k \in loads' : k.model \notin raced' =>
          ~Saving(k.model)' /\ (k.got # NoQuery /\ k.read => k.got = QueryOf(k.model)')
    BY <2>2, <2>3, <2>4 DEF LoadInv, Saving, QueryOf
  <2>. QED
    BY <2>3, <2>5 DEF LoadInv, Saving, QueryOf
<1>6. ASSUME NEW l \in loads, FillInputs(l) PROVE LoadInv'
  <2>1. /\ loads' \subseteq loads /\ inputs' = Split(l.got) /\ l.got # NoQuery
        /\ UNCHANGED <<stored, saves, raced>>
        /\ inputsOf' = IF l.model \in raced \/ ~l.read THEN NoModel ELSE l.model
    BY <1>6 DEF FillInputs
  <2>2. \A t \in saves : t.model # NoModel
    BY ModelsAssumption DEF TypeOK, RefineryTypeOK, Save
  <2>3. CASE l.model \in raced \/ ~l.read
    BY <2>1, <2>2, <2>3 DEF LoadInv, QueryOf, Saving
  <2>4. CASE l.model \notin raced /\ l.read
    BY <2>1, <2>4 DEF LoadInv, QueryOf, Saving
  <2>. QED
    BY <2>3, <2>4
<1>7. ASSUME NEW l \in loads, LoseLoad(l) PROVE LoadInv'
  BY <1>7, FetchLost DEF LoseLoad
<1>8. ASSUME NEW t \in saves, ServeSave(t) PROVE LoadInv'
  <2>1. /\ t.model \in Models /\ t.query # NoQuery
        /\ stored' = [stored EXCEPT ![t.model] = t.query] /\ DOMAIN stored = Models
    BY <1>8, ModelsAssumption, QueriesAre DEF ServeSave, TypeOK, RefineryTypeOK, Save
  <2>2. \A m \in Models : QueryOf(m)' = IF m = t.model THEN t.query ELSE QueryOf(m)
    BY <2>1 DEF QueryOf
  <2>3. \A l \in loads : l.model \in Models
    BY DEF TypeOK, RefineryTypeOK, Load
  <2>4. inputsOf # NoModel => inputsOf \in Models
    BY DEF TypeOK, RefineryTypeOK
  <2>. QED
    BY <1>8, <2>2, <2>3, <2>4 DEF ServeSave, LoadInv, Saving
<1>9. ASSUME NEW t \in saves, LoseSave(t) PROVE LoadInv'
  BY <1>9, FetchLost DEF LoseSave
<1>10. CASE RefreshModels \/ SubmitModel \/ ModelsListed \/ \E c \in calls : ModelBuilt(c) \/ BuildLost(c)
  BY <1>10, LoadUnchanged DEF RefreshModels, SubmitModel, ModelsListed, ModelBuilt, BuildLost
<1>11. CASE OthersOfExplorer \/ OthersOfDataflow \/ UNCHANGED vars
  BY <1>11, LoadUnchanged DEF OthersOfExplorer, OthersOfDataflow, vars
<1>12. CASE Reload
  BY <1>12, ModelsAssumption DEF Reload, LoadInv, TypeOK, RefineryTypeOK, Save
<1>13. ASSUME NEW m \in Models, NEW q \in Queries, OtherSaves(m, q) PROVE LoadInv'
  <2>1. /\ stored' = [stored EXCEPT ![m] = q] /\ UNCHANGED <<inputs, loads, saves>>
        /\ inputsOf' = (IF inputsOf = m THEN NoModel ELSE inputsOf)
        /\ raced' = (IF Loading(m) THEN raced \cup {m} ELSE raced)
    BY <1>13 DEF OtherSaves
  <2>2. \A k \in Models : k # m => QueryOf(k)' = QueryOf(k)
    BY <2>1 DEF QueryOf, TypeOK, RefineryTypeOK
  <2>3. /\ \A t \in saves : t.model \in Models /\ t.model # NoModel
        /\ \A l \in loads : l.model \in Models
        /\ inputsOf # NoModel => inputsOf \in Models
    BY ModelsAssumption DEF TypeOK, RefineryTypeOK, Save, Load
  <2>4. \A l \in loads : l.model \notin raced' => l.model # m /\ l.model \notin raced
    BY <2>1 DEF Loading
  <2>. QED
    BY <2>1, <2>2, <2>3, <2>4 DEF LoadInv, Saving
<1>14. CASE OthersSave
  BY <1>13, <1>14, ModelsAssumption DEF OthersSave
<1>15. CASE \E e \in Edits : TypeQuery(e[1], e[2])
  BY <1>2, <1>15
<1>. QED
  BY <1>1, <1>3, <1>4, <1>5, <1>6, <1>7, <1>8, <1>9, <1>10, <1>11, <1>12, <1>14, <1>15
  DEF Next, Acts, Answers, RefineryActs, RefineryAnswers

\* Whatever texts the inputs can have, with bars in them or not, and whatever other users
\* save: a model that was loaded, and neither edited nor saved by another user since, is in
\* the inputs as it is stored, up to its fourth piece, and one of four is saved as it is.
THEOREM LoadedIsStored == Spec => []LoadedQueryKept
<1>1. TypeOK /\ LoadInv /\ [Next]_vars => LoadInv'
  BY LoadStep
<1>2. TypeOK /\ LoadInv => LoadedQueryKept
  <2>. SUFFICES ASSUME TypeOK, LoadInv, inputsOf # NoModel PROVE LoadedQueryKept
    BY DEF LoadedQueryKept
  <2>1. QueryOf(inputsOf) \in Queries /\ inputs = Split(QueryOf(inputsOf))
    BY QueryTypes DEF TypeOK, RefineryTypeOK, LoadInv
  <2>. QED
    BY <2>1, JoinOfSplit DEF LoadedQueryKept
<1>. QED
  BY LoadInit, TypeCorrect, <1>1, <1>2, PTL DEF Spec

-----------------------------------------------------------------------------
(* Panels *)

\* A view that has not ended has its call, and no other view has it.
ViewInv ==
  /\ \A v \in views : Editor(v) \in calls /\ v.n <= action
  /\ \A v, w \in views : v.n = w.n => v = w

\* A call under way for a panel is the last that was asked for, unless the panel is
\* unsure, and nothing has been drawn where nothing can be drawn yet.
PanelInv ==
  /\ LatestShown
  /\ \A c \in calls : c.k \in Panels => c.k \in unsure \/ c.n = asked[c.k]
  /\ \A p \in Undrawn : Under(p) \/ p \in unsure \/ asked[p] = 0

LEMMA ViewInit == Init => ViewInv
  BY DEF Init, ExplorerInit, ViewInv

\* The steps that are not of a view take no call for the editor away.
LEMMA ViewsKept ==
  ASSUME TypeOK, ViewInv, UNCHANGED views, action' \in {action, action + 1},
         \A c \in calls : c.k = "editor" => c \in calls'
  PROVE  ViewInv'
<1>1. \A v \in views : v.n \in Nat /\ action \in Nat
  BY DEF TypeOK, PageTypeOK, ExplorerTypeOK, Views, Actions
<1>. QED
  BY <1>1 DEF ViewInv, Editor, Call

\* A view that moves keeps its call; one that leaves takes its own only.
LEMMA ViewMoves ==
  ASSUME TypeOK, ViewInv, NEW v \in views, NEW step, Moves(v, step), UNCHANGED <<action, calls>>
  PROVE  ViewInv'
<1>. DEFINE moved == [v EXCEPT !.step = step]
<1>1. moved.n = v.n /\ Editor(moved) = Editor(v)
  BY DEF TypeOK, ExplorerTypeOK, Views, Editor
<1>2. \A w \in views' : w = moved \/ (w \in views /\ w # v)
  BY DEF Moves
<1>. QED
  BY <1>1, <1>2 DEF ViewInv, Editor

LEMMA ViewLeaves ==
  ASSUME TypeOK, ViewInv, NEW v \in views, Leaves(v), UNCHANGED action, calls' = calls \ {Editor(v)}
  PROVE  ViewInv'
  BY DEF Leaves, ViewInv, Editor, Call

LEMMA ViewStep == ASSUME TypeOK, ViewInv, [Next]_vars PROVE ViewInv'
<1>1. ASSUME NEW f \in Files, Open(f) PROVE ViewInv'
  <2>1. action \in Nat /\ \A v \in views : v.n \in Nat
    BY DEF TypeOK, PageTypeOK, ExplorerTypeOK, Views, Actions
  <2>2. \A v \in views' : v \in views \/ v = [n |-> action + 1, file |-> f, step |-> "url"]
    BY <1>1 DEF Open
  <2>3. action' = action + 1 /\ calls' = calls \cup {Call(action + 1, "editor")}
    BY <1>1 DEF Open, Act, CallsAre
  <2>. QED
    BY <2>1, <2>2, <2>3 DEF ViewInv, Editor
<1>2. ASSUME NEW v \in views, ViewGoesOn(v) PROVE ViewInv'
  <2>1. CASE TextUrl(v) \/ ArchiveUrl(v) \/ FallBack(v) \/ Loaded(v) \/ Again(v)
    BY <2>1, ViewMoves DEF TextUrl, ArchiveUrl, FallBack, Loaded, Again, Waits
  <2>2. CASE NoUrl(v) \/ TextContent(v) \/ NoContent(v) \/ Expanded(v) \/ Broken(v)
    BY <2>2, ViewLeaves DEF NoUrl, TextContent, NoContent, Expanded, Broken, Content, End, GiveUp, CallsAre
  <2>. QED
    BY <1>2, <2>1, <2>2 DEF ViewGoesOn
<1>3. CASE RefreshFiles \/ Import
  BY <1>3, ViewsKept DEF RefreshFiles, Import, Ask, Send, Act, CallsAre
<1>4. CASE FilesListed \/ Imported
  BY <1>4, ViewsKept DEF FilesListed, Imported, Answer, Refuse, End, CallsAre
<1>5. CASE RefineryActs /\ UNCHANGED views
  BY <1>5, ViewsKept DEF RefineryActs, TypeName, PickModel, TypeQuery, SaveModel, RefreshModels, SubmitModel,
       Send, Act, OnlyActs, CallsAre, pageVars
<1>6. CASE RefineryAnswers /\ UNCHANGED views
  BY <1>6, ViewsKept DEF RefineryAnswers, ModelsListed, Answer, Refuse, End, CallsAre, ServeLoad, FillInputs,
       LoseLoad, ServeSave, LoseSave, ModelBuilt, BuildLost, AskModels, GiveUp, pageVars
<1>7. CASE (DataflowActs \/ DataflowAnswers) /\ UNCHANGED views
  BY <1>7, ViewsKept DEF DataflowActs, ExecuteDataflow, ClickHistogram, ClickHeatmap, Drilldown, Ask, Act, CallsAre,
       DataflowAnswers, FlowsDrawn, ChartLoaded, Answer, Refuse, End, FlowPanels, Bars
<1>8. CASE Reload
  BY <1>8 DEF Reload, ViewInv
<1>9. CASE UNCHANGED vars
  BY <1>9, ViewsKept DEF vars, pageVars
<1>10. CASE OthersSave /\ UNCHANGED views
  BY <1>10, ViewsKept DEF OthersSave, OtherSaves, pageVars
<1>. QED
  BY <1>1, <1>2, <1>3, <1>4, <1>5, <1>6, <1>7, <1>8, <1>9, <1>10
  DEF Next, Acts, Answers, ExplorerActs, ExplorerAnswers, OthersOfRefinery, OthersOfDataflow

LEMMA PanelInit == Init => PanelInv
  BY DEF Init, PageInit, DataflowInit, PanelInv, LatestShown, Under, Undrawn, Bars, Panels, Call

\* Calls are sent: for the panels of P, while every call for a panel goes on.
LEMMA PanelsAsked ==
  ASSUME TypeOK, PanelInv, NEW P \in SUBSET Panels, NEW n, NEW S \in SUBSET calls,
         \A c \in calls : c.k \in Panels => c \in S,
         calls' = S \cup {Call(n, p) : p \in P}, Asked(P, n),
         \A p \in Panels \ P : shown'[p] = shown[p], UNCHANGED charted
  PROVE  PanelInv'
<1>1. \A p \in Panels : asked'[p] = IF p \in P THEN n ELSE asked[p]
  BY DEF Asked
<1>2. ASSUME NEW p \in Panels, p \in P \/ Under(p) PROVE \E c \in calls' : c.k = p
  <2>1. CASE p \in P
    <3>1. Call(n, p) \in calls' /\ Call(n, p).k = p
      BY <2>1 DEF Call
    <3>. QED
      BY <3>1
  <2>2. CASE Under(p)
    BY <2>2 DEF Under
  <2>. QED
    BY <1>2, <2>1, <2>2
<1>3. \A p \in Panels : /\ p \in P /\ Under(p) => p \in unsure'
                       /\ p \notin P => (p \in unsure' <=> p \in unsure)
  BY DEF Asked
<1>4. LatestShown'
  <2>. SUFFICES ASSUME NEW p \in Panels
                PROVE  (\E c \in calls' : c.k = p) \/ p \in unsure' \/ shown'[p] = asked'[p]
    BY DEF LatestShown, Under
  <2>1. CASE p \in P
    BY <1>2, <2>1
  <2>2. CASE p \notin P
    BY <1>1, <1>2, <1>3, <2>2 DEF PanelInv, LatestShown
  <2>. QED
    BY <2>1, <2>2
<1>5. ASSUME NEW c \in calls', c.k \in Panels PROVE c.k \in unsure' \/ c.n = asked'[c.k]
  <2>1. CASE c \in S
    <3>1. c \in calls /\ Under(c.k)
      BY <2>1 DEF Under
    <3>2. c.k \in unsure \/ c.n = asked[c.k]
      BY <1>5, <3>1 DEF PanelInv
    <3>3. CASE c.k \in P
      BY <1>5, <3>1, <3>3 DEF Asked
    <3>4. CASE c.k \notin P
      BY <1>1, <1>3, <1>5, <3>2, <3>4
    <3>. QED
      BY <3>3, <3>4
  <2>2. CASE c \notin S
    BY <1>1, <1>5, <2>2 DEF Call
  <2>. QED
    BY <2>1, <2>2
<1>6. ASSUME NEW p \in Undrawn' PROVE Under(p)' \/ p \in unsure' \/ asked'[p] = 0
  <2>1. p \in Undrawn /\ p \in Panels
    BY DEF Undrawn, Bars, Panels
  <2>2. CASE p \in P
    BY <1>2, <2>1, <2>2 DEF Under
  <2>3. CASE p \notin P
    BY <1>1, <1>2, <1>3, <2>1, <2>3 DEF PanelInv, Under
  <2>. QED
    BY <2>2, <2>3
<1>. QED
  BY <1>4, <1>5, <1>6 DEF PanelInv

\* A call ends and is drawn.
LEMMA PanelDrawn ==
  ASSUME TypeOK, PanelInv, NEW c \in calls, c.k \in Panels \ Undrawn, calls' = calls \ {c}, Draw(c),
         UNCHANGED <<asked, charted>>
  PROVE  PanelInv'
<1>1. \A p \in Panels : shown'[p] = IF p = c.k THEN c.n ELSE shown[p]
  BY DEF Draw, TypeOK, PageTypeOK
<1>2. \A p \in Panels : p # c.k /\ Under(p) => Under(p)'
  BY DEF Under
<1>3. LatestShown'
  BY <1>1, <1>2 DEF PanelInv, LatestShown, Draw
<1>4. \A p \in Undrawn' : Under(p)' \/ p \in unsure' \/ asked'[p] = 0
  BY <1>2 DEF PanelInv, Undrawn, Bars, Panels, Draw
<1>. QED
  BY <1>3, <1>4 DEF PanelInv, Draw

\* A call ends, and its panel is unsure.
LEMMA PanelFailed ==
  ASSUME TypeOK, PanelInv, NEW c \in calls, calls' = calls \ {c},
         unsure' = IF c.k \in Panels THEN unsure \cup {c.k} ELSE unsure,
         \A p \in Panels : p # c.k => shown'[p] = shown[p],
         UNCHANGED <<asked, charted>>
  PROVE  PanelInv'
<1>1. \A p \in Panels : p # c.k /\ Under(p) => Under(p)'
  BY DEF Under
<1>2. LatestShown'
  BY <1>1 DEF PanelInv, LatestShown
<1>3. \A p \in Undrawn' : Under(p)' \/ p \in unsure' \/ asked'[p] = 0
  BY <1>1 DEF PanelInv, Undrawn, Bars, Panels
<1>. QED
  BY <1>2, <1>3 DEF PanelInv

LEMMA PanelRefused ==
  ASSUME TypeOK, PanelInv, NEW c \in calls, calls' = calls \ {c}, Fail(c), UNCHANGED <<asked, charted>>
  PROVE  PanelInv'
  BY PanelFailed DEF Fail

\* A panel that a call is under way for is written to.
LEMMA PanelKept ==
  ASSUME PanelInv, UNCHANGED <<calls, asked, unsure, charted>>,
         \A p \in Panels : Under(p) \/ shown'[p] = shown[p]
  PROVE  PanelInv'
  BY DEF PanelInv, LatestShown, Under, Undrawn

LEMMA ViewPanels ==
  ASSUME TypeOK, ViewInv, PanelInv, NEW v \in views, ViewGoesOn(v), UNCHANGED charted
  PROVE  PanelInv'
<1>1. Editor(v) \in calls /\ Editor(v).k = "editor" /\ "editor" \in Panels \ Undrawn
  BY DEF ViewInv, Editor, Call, Panels, Undrawn, Bars
<1>2. Under("editor")
  BY <1>1 DEF Under
<1>3. Message => \A p \in Panels : p # "editor" => shown'[p] = shown[p]
  BY DEF Message
<1>4. CASE TextUrl(v) \/ ArchiveUrl(v) \/ Again(v)
  BY <1>4, PanelKept DEF TextUrl, ArchiveUrl, Again, Waits
<1>5. CASE FallBack(v) \/ Loaded(v)
  BY <1>2, <1>3, <1>5, PanelKept DEF FallBack, Loaded, Waits
<1>6. CASE NoUrl(v) \/ Broken(v)
  BY <1>1, <1>6, PanelRefused DEF NoUrl, Broken, GiveUp, CallsAre
<1>7. CASE TextContent(v) \/ Expanded(v)
  BY <1>1, <1>7, PanelDrawn DEF TextContent, Expanded, Content, End, CallsAre
<1>8. CASE NoContent(v)
  BY <1>1, <1>3, <1>8, PanelFailed DEF NoContent, CallsAre
<1>. QED
  BY <1>4, <1>5, <1>6, <1>7, <1>8 DEF ViewGoesOn

\* Ask is the sending of calls that PanelsAsked speaks of.
LEMMA AskPanels == ASSUME TypeOK, PanelInv, NEW P \in SUBSET Panels, Ask(P), UNCHANGED charted PROVE PanelInv'
  BY PanelsAsked DEF Ask, CallsAre

\* A call of a kind that has no panel.
LEMMA SendPanels == ASSUME PanelInv, NEW k, k \notin Panels, Send(k), UNCHANGED charted PROVE PanelInv'
  BY DEF Send, CallsAre, Call, PanelInv, LatestShown, Under, Undrawn, Bars, Panels

\* A callback asks for the models again.
LEMMA ModelsPanels ==
  ASSUME TypeOK, PanelInv, NEW n, NEW S \in SUBSET calls, \A c \in calls : c.k \in Panels => c \in S,
         AskModels(n, S), shown' = shown \/ ClearModels, UNCHANGED charted
  PROVE  PanelInv'
<1>1. {"models"} \in SUBSET Panels /\ {Call(n, p) : p \in {"models"}} = {Call(n, "models")}
  BY DEF Panels
<1>2. \A p \in Panels \ {"models"} : shown'[p] = shown[p]
  BY DEF ClearModels, TypeOK, PageTypeOK
<1>3. calls' = S \cup {Call(n, p) : p \in {"models"}} /\ Asked({"models"}, n)
  BY <1>1 DEF AskModels, CallsAre
<1>. QED
  BY <1>1, <1>2, <1>3, PanelsAsked

LEMMA PanelStep == ASSUME TypeOK, ViewInv, PanelInv, [Next]_vars PROVE PanelInv'
<1>1. ASSUME NEW f \in Files, Open(f), OthersOfExplorer PROVE PanelInv'
  <2>1. {"editor"} \in SUBSET Panels /\ {Call(action + 1, p) : p \in {"editor"}} = {Call(action + 1, "editor")}
    BY DEF Panels
  <2>2. \A p \in Panels \ {"editor"} : shown'[p] = shown[p]
    BY <1>1 DEF Open, Message
  <2>3. /\ calls' = calls \cup {Call(action + 1, p) : p \in {"editor"}}
        /\ Asked({"editor"}, action + 1) /\ UNCHANGED charted
    BY <1>1, <2>1 DEF Open, CallsAre, OthersOfExplorer
  <2>. QED
    BY <2>1, <2>2, <2>3, PanelsAsked
<1>2. CASE (RefreshFiles \/ Import) /\ OthersOfExplorer
  BY <1>2, AskPanels, SendPanels DEF RefreshFiles, Import, OthersOfExplorer, Panels
<1>3. CASE FilesListed /\ OthersOfExplorer
  BY <1>3, PanelDrawn, PanelRefused DEF FilesListed, Answer, Refuse, End, CallsAre, OthersOfExplorer, Panels, Undrawn, Bars
<1>4. CASE Imported /\ OthersOfExplorer
  BY <1>4, PanelRefused DEF Imported, Refuse, End, CallsAre, OthersOfExplorer
<1>5. CASE (\E v \in views : ViewGoesOn(v)) /\ OthersOfExplorer
  BY <1>5, ViewPanels DEF OthersOfExplorer
<1>6. CASE RefineryActs /\ OthersOfRefinery
  <2>1. CASE RefreshModels
    <3>2. {"models"} \in SUBSET Panels /\ {Call(action + 1, p) : p \in {"models"}} = {Call(action + 1, "models")}
      BY DEF Panels
    <3>3. \A p \in Panels \ {"models"} : shown'[p] = shown[p]
      BY <2>1 DEF RefreshModels, ClearModels
    <3>4. /\ calls' = calls \cup {Call(action + 1, p) : p \in {"models"}}
          /\ Asked({"models"}, action + 1) /\ UNCHANGED charted
      BY <1>6, <2>1, <3>2 DEF RefreshModels, CallsAre, OthersOfRefinery
    <3>. QED
      BY <3>2, <3>3, <3>4, PanelsAsked
  <2>2. CASE SubmitModel
    BY <1>6, <2>2, SendPanels DEF SubmitModel, OthersOfRefinery, Panels
  <2>3. CASE UNCHANGED <<calls, shown, asked, unsure>>
    BY <1>6, <2>3, PanelKept DEF OthersOfRefinery
  <2>. QED
    BY <1>6, <2>1, <2>2, <2>3 DEF RefineryActs, TypeName, PickModel, TypeQuery, SaveModel, OnlyActs, pageVars
<1>7. CASE RefineryAnswers /\ OthersOfRefinery
  <2>1. CASE ModelsListed
    BY <1>7, <2>1, PanelDrawn, PanelRefused DEF ModelsListed, Answer, Refuse, End, CallsAre, OthersOfRefinery, Panels, Undrawn, Bars
  <2>2. ASSUME NEW l \in loads, FillInputs(l) PROVE PanelInv'
    BY <1>7, <2>2, ModelsPanels DEF FillInputs, OthersOfRefinery
  <2>3. ASSUME NEW c \in calls, ModelBuilt(c) PROVE PanelInv'
    <3>1. \A d \in calls : d.k \in Panels => d \in calls \ {c}
      BY <2>3 DEF ModelBuilt, Panels
    <3>. QED
      BY <1>7, <2>3, <3>1, ModelsPanels DEF ModelBuilt, OthersOfRefinery
  <2>4. ASSUME NEW c \in calls, BuildLost(c) PROVE PanelInv'
    BY <1>7, <2>4, PanelRefused DEF BuildLost, GiveUp, CallsAre, OthersOfRefinery
  <2>5. CASE UNCHANGED <<calls, shown, asked, unsure>>
    BY <1>7, <2>5, PanelKept DEF OthersOfRefinery
  <2>. QED
    BY <1>7, <2>1, <2>2, <2>3, <2>4, <2>5 DEF RefineryAnswers, ServeLoad, LoseLoad, ServeSave, LoseSave, pageVars
<1>8. CASE DataflowActs
  BY <1>8, AskPanels DEF DataflowActs, ExecuteDataflow, ClickHistogram, ClickHeatmap, Drilldown, Panels
<1>9. CASE FlowsDrawn
  BY <1>9, PanelDrawn, PanelRefused DEF FlowsDrawn, Answer, Refuse, End, CallsAre, FlowPanels, Bars, Panels
<1>10. ASSUME NEW p \in Bars, ChartLoaded(p) PROVE PanelInv'
  <2>1. \A q \in Panels : shown'[q] = IF q = p THEN 0 ELSE shown[q]
    BY <1>10 DEF ChartLoaded, TypeOK, PageTypeOK
  <2>2. LatestShown'
    BY <1>10, <2>1 DEF ChartLoaded, PanelInv, LatestShown, Under
  <2>. QED
    BY <1>10, <2>2 DEF ChartLoaded, PanelInv, Under, Undrawn
<1>11. CASE Reload
  BY <1>11 DEF Reload, PanelInv, LatestShown, Under, Undrawn, Bars, Panels, Call
<1>12. CASE UNCHANGED vars
  BY <1>12, PanelKept DEF vars, pageVars
<1>13. CASE OthersSave /\ OthersOfRefinery
  BY <1>13, PanelKept DEF OthersSave, OtherSaves, OthersOfRefinery, pageVars
<1>. QED
  BY <1>1, <1>2, <1>3, <1>4, <1>5, <1>6, <1>7, <1>8, <1>9, <1>10, <1>11, <1>12, <1>13
  DEF Next, Acts, Answers, ExplorerActs, ExplorerAnswers, DataflowAnswers

\* A panel shows what was asked of it last.
THEOREM LatestIsShown == Spec => []LatestShown
<1>1. TypeOK /\ ViewInv /\ [Next]_vars => ViewInv'
  BY ViewStep
<1>2. TypeOK /\ ViewInv /\ PanelInv /\ [Next]_vars => PanelInv'
  BY PanelStep
<1>3. PanelInv => LatestShown
  BY DEF PanelInv
<1>. QED
  BY ViewInit, PanelInit, TypeCorrect, <1>1, <1>2, <1>3, PTL DEF Spec

-----------------------------------------------------------------------------
(* The spinner *)

\* Two calls are crowded.
SpinnerInv ==
  /\ SpinnerTellsTruth
  /\ TwoOf(calls) => crowded

LEMMA SpinnerInit == Init => SpinnerInv
  BY DEF Init, PageInit, SpinnerInv, SpinnerTellsTruth, TwoOf, Call

\* The calls of a step are crowded as CallsAre says.
LEMMA CallsCrowd == ASSUME NEW S, CallsAre(S) PROVE (TwoOf(calls) => crowded)'
  BY DEF CallsAre, TwoOf

\* A step shows the spinner, or hides it and shows it again, and a call is under way.
LEMMA SpinnerShown ==
  ASSUME SpinnerInv, spinner' = TRUE, calls' # {}, (\E S : CallsAre(S)) \/ UNCHANGED <<calls, crowded>>
  PROVE  SpinnerInv'
  BY CallsCrowd DEF SpinnerInv, SpinnerTellsTruth, TwoOf

\* When a call ends, no other is left, or they are crowded.
LEMMA CallEnds ==
  ASSUME SpinnerInv, NEW c \in calls, CallsAre(calls \ {c})
  PROVE  (calls' = {} \/ crowded') /\ (TwoOf(calls) => crowded)'
<1>1. (TwoOf(calls) => crowded)'
  BY CallsCrowd
<1>2. calls' = {} \/ crowded'
  <2>1. CASE crowded
    BY <2>1 DEF CallsAre
  <2>2. CASE ~crowded
    BY <2>2 DEF CallsAre, SpinnerInv, TwoOf
  <2>. QED
    BY <2>1, <2>2
<1>. QED
  BY <1>1, <1>2

LEMMA SpinnerHidden == ASSUME SpinnerInv, NEW c \in calls, End(c) PROVE SpinnerInv'
<1>1. CallsAre(calls \ {c}) /\ spinner' = FALSE
  BY DEF End, Hide
<1>. QED
  BY <1>1, CallEnds DEF SpinnerInv, SpinnerTellsTruth

LEMMA SpinnerLeft == ASSUME SpinnerInv, NEW c \in calls, Leave, CallsAre(calls \ {c}) PROVE SpinnerInv'
  BY CallEnds DEF Leave, SpinnerInv, SpinnerTellsTruth

\* A step that has nothing to do with it.
LEMMA SpinnerKept ==
  ASSUME SpinnerInv, UNCHANGED <<spinner, lost, calls, crowded, views>>
  PROVE  SpinnerInv'
  BY DEF SpinnerInv, SpinnerTellsTruth, Quiet, ViewOf, TwoOf

\* The only call under way is that of a view that moves; it was quiet if the spinner was
\* hidden.
LEMMA SpinnerMoves ==
  ASSUME TypeOK, ViewInv, SpinnerInv, NEW v \in views, NEW step, Moves(v, step),
         UNCHANGED <<calls, crowded>>,
         \/ spinner' = FALSE /\ step = "archive"
         \/ UNCHANGED <<spinner, lost>> /\ (v.step \in {"archive", "reader"} => step \in {"archive", "reader"})
  PROVE  SpinnerInv'
<1>. DEFINE moved == [v EXCEPT !.step = step]
<1>1. moved \in views' /\ Editor(moved) = Editor(v) /\ moved.step = step
  BY DEF Moves, TypeOK, ExplorerTypeOK, Views, Editor
<1>2. Editor(v) \in calls
  BY DEF ViewInv
<1>3. (TwoOf(calls) => crowded)'
  BY DEF SpinnerInv, TwoOf
<1>4. spinner' => lost' \/ calls' # {}
  BY <1>2
<1>5. ASSUME ~spinner', ~crowded', NEW c \in calls' PROVE Quiet(c)'
  <2>1. c = Editor(v)
    BY <1>2, <1>5 DEF SpinnerInv, TwoOf
  <2>2. step \in {"archive", "reader"}
    <3>1. CASE UNCHANGED <<spinner, lost>> /\ (v.step \in {"archive", "reader"} => step \in {"archive", "reader"})
      <4>1. Quiet(Editor(v))
        BY <1>2, <1>5, <3>1 DEF SpinnerInv, SpinnerTellsTruth
      <4>2. PICK w \in views : Editor(w) = Editor(v) /\ w.step \in {"archive", "reader"}
        BY <4>1 DEF Quiet, ViewOf
      <4>3. w = v
        BY <4>2 DEF ViewInv, Editor, Call
      <4>. QED
        BY <3>1, <4>2, <4>3
    <3>. QED
      BY <3>1
  <2>. QED
    BY <1>1, <2>1, <2>2 DEF Quiet, ViewOf, Editor
<1>. QED
  BY <1>3, <1>4, <1>5 DEF SpinnerInv, SpinnerTellsTruth

LEMMA ViewSpinner ==
  ASSUME TypeOK, ViewInv, SpinnerInv, NEW v \in views, ViewGoesOn(v)
  PROVE  SpinnerInv'
<1>1. Editor(v) \in calls
  BY DEF ViewInv
<1>2. CASE TextUrl(v)
  BY <1>2, SpinnerMoves DEF TextUrl, At, Waits
<1>3. CASE ArchiveUrl(v)
  BY <1>3, SpinnerMoves DEF ArchiveUrl, Hide, Waits
<1>4. CASE Loaded(v)
  BY <1>4, SpinnerMoves DEF Loaded, At, Waits
<1>5. CASE FallBack(v) \/ Again(v)
  BY <1>1, <1>5, SpinnerShown DEF FallBack, Again, HideAndShow, Waits
<1>6. CASE NoUrl(v) \/ Broken(v)
  BY <1>1, <1>6, SpinnerLeft DEF NoUrl, Broken, GiveUp
<1>7. CASE TextContent(v) \/ Expanded(v)
  BY <1>1, <1>7, SpinnerHidden DEF TextContent, Expanded, Content
<1>8. CASE NoContent(v)
  BY <1>1, <1>8, SpinnerLeft DEF NoContent
<1>. QED
  BY <1>2, <1>3, <1>4, <1>5, <1>6, <1>7, <1>8 DEF ViewGoesOn

\* Calls are sent with the spinner.
LEMMA AskSpinner == ASSUME SpinnerInv, NEW P, P # {}, Ask(P) PROVE SpinnerInv'
<1>1. calls' # {} /\ spinner' = TRUE /\ \E S : CallsAre(S)
  BY DEF Ask, Show, CallsAre
<1>. QED
  BY <1>1, SpinnerShown

LEMMA SendSpinner == ASSUME SpinnerInv, NEW k, Send(k) PROVE SpinnerInv'
<1>1. calls' # {} /\ spinner' = TRUE /\ \E S : CallsAre(S)
  BY DEF Send, Show, CallsAre
<1>. QED
  BY <1>1, SpinnerShown

LEMMA ModelsSpinner ==
  ASSUME SpinnerInv, NEW n, NEW S, AskModels(n, S), spinner' = TRUE
  PROVE  SpinnerInv'
<1>1. calls' # {} /\ \E T : CallsAre(T)
  BY DEF AskModels, CallsAre
<1>. QED
  BY <1>1, SpinnerShown

LEMMA SpinnerStep == ASSUME TypeOK, ViewInv, SpinnerInv, [Next]_vars PROVE SpinnerInv'
<1>1. ASSUME NEW f \in Files, Open(f) PROVE SpinnerInv'
  <2>1. calls' # {} /\ spinner' = TRUE /\ \E S : CallsAre(S)
    BY <1>1 DEF Open, Show, CallsAre
  <2>. QED
    BY <2>1, SpinnerShown
<1>2. CASE RefreshFiles \/ Import
  BY <1>2, AskSpinner, SendSpinner DEF RefreshFiles, Import
<1>3. CASE FilesListed \/ Imported \/ ModelsListed \/ FlowsDrawn
  BY <1>3, SpinnerHidden DEF FilesListed, Imported, ModelsListed, FlowsDrawn, Answer, Refuse
<1>4. ASSUME NEW v \in views, ViewGoesOn(v) PROVE SpinnerInv'
  BY <1>4, ViewSpinner
<1>5. CASE RefineryActs /\ OthersOfRefinery
  <2>1. CASE RefreshModels
    <3>1. calls' # {} /\ spinner' = TRUE /\ \E S : CallsAre(S)
      BY <2>1 DEF RefreshModels, Show, CallsAre
    <3>. QED
      BY <3>1, SpinnerShown
  <2>2. CASE SubmitModel
    BY <2>2, SendSpinner DEF SubmitModel
  <2>3. CASE UNCHANGED <<spinner, lost, calls, crowded>>
    BY <1>5, <2>3, SpinnerKept DEF OthersOfRefinery
  <2>. QED
    BY <1>5, <2>1, <2>2, <2>3 DEF RefineryActs, TypeName, PickModel, TypeQuery, SaveModel, OnlyActs, pageVars
<1>6. CASE (\E l \in loads : FillInputs(l)) \/ \E c \in calls : ModelBuilt(c)
  BY <1>6, ModelsSpinner DEF FillInputs, ModelBuilt, Show, HideAndShow
<1>7. ASSUME NEW c \in calls, BuildLost(c) PROVE SpinnerInv'
  BY <1>7, SpinnerLeft DEF BuildLost, GiveUp
<1>8. CASE UNCHANGED pageVars /\ OthersOfRefinery
  BY <1>8, SpinnerKept DEF pageVars, OthersOfRefinery
<1>9. CASE DataflowActs
  BY <1>9, AskSpinner DEF DataflowActs, ExecuteDataflow, ClickHistogram, ClickHeatmap, Drilldown
<1>10. ASSUME NEW p \in Bars, ChartLoaded(p), OthersOfDataflow PROVE SpinnerInv'
  BY <1>10, SpinnerKept DEF ChartLoaded, OthersOfDataflow
<1>11. CASE Reload
  BY <1>11 DEF Reload, SpinnerInv, SpinnerTellsTruth, TwoOf
<1>12. CASE UNCHANGED vars
  BY <1>12, SpinnerKept DEF vars, pageVars
<1>. QED
  BY <1>1, <1>2, <1>3, <1>4, <1>5, <1>6, <1>7, <1>8, <1>9, <1>10, <1>11, <1>12
  DEF Next, Acts, Answers, ExplorerActs, ExplorerAnswers, RefineryAnswers, DataflowAnswers, OthersSave, OtherSaves,
      ServeLoad, LoseLoad, ServeSave, LoseSave

\* The spinner is left on by a call that was given up, and is shown while the page waits
\* for its only call.
THEOREM SpinnerIsTrue == Spec => []SpinnerTellsTruth
<1>1. TypeOK /\ ViewInv /\ [Next]_vars => ViewInv'
  BY ViewStep
<1>2. TypeOK /\ ViewInv /\ SpinnerInv /\ [Next]_vars => SpinnerInv'
  BY SpinnerStep
<1>3. SpinnerInv => SpinnerTellsTruth
  BY DEF SpinnerInv
<1>. QED
  BY ViewInit, SpinnerInit, TypeCorrect, <1>1, <1>2, <1>3, PTL DEF Spec
=============================================================================
