------------------------------ MODULE Refinery ------------------------------
(***************************************************************************)
(* The refinery of the web page (refinery.js, RefineryRest of              *)
(* refinery/backend.js, refinery/vue.js) and the models it loads from and  *)
(* saves to the service (loadModel and saveModel of DataflowResource).     *)
(*                                                                         *)
(* A model is saved under the name in the name input with the query in the *)
(* query inputs.  The two are set by different events: the name by the     *)
(* user, the query by the user or by the answer to a load.                 *)
(*                                                                         *)
(* A text is the sequence of its pieces, what is between the bars in it.   *)
(* An input is the text of its first tag, the only one that is read.       *)
(***************************************************************************)
EXTENDS Page, Sequences

CONSTANTS
  Models,    \* names of models
  NoName,    \* the empty name, one of them
  NoModel,   \* no model
  Pieces,    \* what can be between two bars
  AnyPiece,  \* "*", one of them
  Edits,     \* what the user can do to an input: which one, and its text
  Others,    \* what other users save: a model and its query
  Saved      \* the models that are stored when the page is loaded

Inputs == 1 .. 4  \* bucket, filename, filter, field
NoTag == <<>>     \* the user has removed the tags of an input
Texts == Seq(Pieces)
Queries == {q \in Texts : Len(q) >= 4}
NoQuery == <<>>   \* nothing is stored
AnyQuery == <<AnyPiece, AnyPiece, AnyPiece, AnyPiece>>

ASSUME ModelsAssumption ==
  /\ NoName \in Models /\ NoModel \notin Models
  /\ AnyPiece \in Pieces
  /\ Edits \subseteq Inputs \X Texts
  /\ Others \subseteq Models \X Queries
  /\ Saved \in [Models -> Queries \cup {NoQuery}]

VARIABLES
  modelName,  \* modelNameInput.name
  inputs,     \* the query inputs
  stored,     \* the model.json of each model
  loads,      \* fetches of loadModel, with the query the service has answered
  saves,      \* fetches of saveModel that the service has not executed
  inputsOf,   \* history: the model whose query the inputs are to be
  raced       \* history: the models a save of which was under way while they were loaded

nameVars == <<modelName, stored>>
fetchVars == <<loads, saves>>
inputVars == <<inputs, inputsOf>>
refineryVars == <<nameVars, fetchVars, inputVars, raced>>

Load == [n : Actions, model : Models, got : Queries \cup {NoQuery}, read : BOOLEAN]
Save == [n : Actions, model : Models, query : Queries]

\* What saveModel stores of the inputs.
Join(texts) == texts[1] \o texts[2] \o texts[3] \o texts[4]

\* Mutant: loadModel makes an input of every piece.
SplitAll(query) == [i \in DOMAIN query |-> <<query[i]>>]

\* What loadModel makes of a query: it is cut at its bars, and no more is used than there
\* are inputs.
Split(query) == [i \in Inputs |-> <<query[i]>>]

RefineryTypeOK ==
  /\ modelName \in Models /\ inputs \in [Inputs -> Texts]
  /\ stored \in [Models -> Queries \cup {NoQuery}]
  /\ loads \subseteq Load /\ saves \subseteq Save
  /\ inputsOf \in Models \cup {NoModel} /\ raced \subseteq Models

RefineryInit ==
  /\ modelName = NoName /\ inputs = Split(AnyQuery)
  /\ stored = Saved
  /\ loads = {} /\ saves = {}
  /\ inputsOf = NoModel /\ raced = {}

\* What the service answers to a load of m.
QueryOf(m) == IF stored[m] = NoQuery THEN AnyQuery ELSE stored[m]

-----------------------------------------------------------------------------

TypeName(m) ==
  /\ modelName' = m
  /\ UNCHANGED <<stored, fetchVars, inputVars, raced, pageVars>>

TypeQuery(i, text) ==
  /\ inputs' = [inputs EXCEPT ![i] = text] /\ inputsOf' = NoModel
  /\ UNCHANGED <<nameVars, fetchVars, raced, pageVars>>

Saving(m) == \E s \in saves : s.model = m
Loading(m) == \E l \in loads : l.model = m

\* The user picks a name: loadModel, without the spinner.
PickModel(m) ==
  /\ Act /\ OnlyActs
  /\ modelName' = m
  /\ loads' = loads \cup {[n |-> action + 1, model |-> m, got |-> NoQuery, read |-> FALSE]}
  /\ raced' = IF Saving(m) THEN raced \cup {m} ELSE IF Loading(m) THEN raced ELSE raced \ {m}
  /\ UNCHANGED <<stored, saves, inputVars>>

\* DataflowResource.loadModel.  A storage that cannot be read is taken for a model that
\* is not there.
ServeLoad(l) ==
  /\ l.got = NoQuery
  /\ \E read \in BOOLEAN :
       loads' = (loads \ {l}) \cup
         {[l EXCEPT !.got = IF read THEN QueryOf(l.model) ELSE AnyQuery, !.read = read]}
  /\ UNCHANGED <<nameVars, saves, inputVars, raced, pageVars>>

\* The calls of a callback that was not the user's action, for the name of now.
AskModels(n, others) ==
  /\ CallsAre(others \cup {Call(n, "models")})
  /\ Asked({"models"}, n)
  /\ UNCHANGED action

\* The answer fills the inputs, whatever name the user has picked or typed since.
FillInputs(l) ==
  /\ l.got # NoQuery
  /\ loads' = loads \ {l}
  /\ inputs' = Split(l.got)
  /\ inputsOf' = IF l.model \in raced \/ ~l.read THEN NoModel ELSE l.model
  /\ Show /\ AskModels(l.n, calls) /\ UNCHANGED shown
  /\ UNCHANGED <<nameVars, saves, raced>>

\* A fetch has no catch().
LoseLoad(l) ==
  /\ loads' = loads \ {l}
  /\ UNCHANGED <<nameVars, saves, inputVars, raced, pageVars>>

\* saveModel.  Without a tag in every input it throws before the call.
SaveModel ==
  /\ Act /\ OnlyActs
  /\ \A i \in Inputs : inputs[i] # NoTag
  /\ saves' = saves \cup {[n |-> action + 1, model |-> modelName, query |-> Join(inputs)]}
  /\ raced' = IF Loading(modelName) THEN raced \cup {modelName} ELSE raced
  /\ UNCHANGED <<nameVars, loads, inputVars>>

\* Mutant: the model is saved under the name of now.
ServeSaveLate(s) ==
  /\ saves' = saves \ {s}
  /\ stored' = [stored EXCEPT ![modelName] = s.query]
  /\ UNCHANGED <<modelName, loads, inputVars, raced, pageVars>>

\* DataflowResource.saveModel; the answer is an alert.
ServeSave(s) ==
  /\ saves' = saves \ {s}
  /\ stored' = [stored EXCEPT ![s.model] = s.query]
  /\ UNCHANGED <<modelName, loads, inputVars, raced, pageVars>>

\* The call or the write fails.
LoseSave(s) ==
  /\ saves' = saves \ {s}
  /\ UNCHANGED <<nameVars, loads, inputVars, raced, pageVars>>

\* Another user saves a model; from then on the inputs are those of an older one.
OtherSaves(m, q) ==
  /\ stored' = [stored EXCEPT ![m] = q]
  /\ inputsOf' = IF inputsOf = m THEN NoModel ELSE inputsOf
  /\ raced' = IF Loading(m) THEN raced \cup {m} ELSE raced
  /\ UNCHANGED <<modelName, inputs, fetchVars, pageVars>>

ClearModels == shown' = [shown EXCEPT !["models"] = 0]

\* refreshModel: the table is emptied and asked for again.
RefreshModels ==
  /\ Act /\ Show /\ ClearModels
  /\ CallsAre(calls \cup {Call(action + 1, "models")})
  /\ Asked({"models"}, action + 1)
  /\ UNCHANGED refineryVars

\* modelReply, or an alert.
ModelsListed ==
  /\ \E c \in calls : c.k = "models" /\ (Answer(c) \/ Refuse(c))
  /\ UNCHANGED refineryVars

\* The build of a model is submitted; the service's part of it is WorkflowRunner's.
SubmitModel == Send("submit") /\ UNCHANGED refineryVars

\* submitReply: the spinner is hidden, and refreshModel shows it again.
ModelBuilt(c) ==
  /\ c.k = "submit"
  /\ HideAndShow /\ ClearModels
  /\ AskModels(c.n, calls \ {c})
  /\ UNCHANGED refineryVars

\* jQuery.ajax has no option "fail".
BuildLost(c) == c.k = "submit" /\ GiveUp(c) /\ UNCHANGED refineryVars

RefineryActs ==
  \/ \E m \in Models : TypeName(m) \/ PickModel(m)
  \/ \E e \in Edits : TypeQuery(e[1], e[2])
  \/ SaveModel \/ RefreshModels \/ SubmitModel

RefineryAnswers ==
  \/ ModelsListed
  \/ \E l \in loads : ServeLoad(l) \/ FillInputs(l) \/ LoseLoad(l)
  \/ \E s \in saves : ServeSave(s) \/ LoseSave(s)
  \/ \E c \in calls : ModelBuilt(c) \/ BuildLost(c)

OthersSave == \E s \in Others : OtherSaves(s[1], s[2])

-----------------------------------------------------------------------------
(* Properties *)

\* A model that has been loaded, and neither edited nor saved by another user since, is
\* in the inputs as it is stored now, whatever else was loaded or saved meanwhile: they
\* have the first four pieces of its query, and a query of four is saved as it is.  What
\* follows the fourth bar is lost when the model is saved again.  This is so when no save
\* of the model was under way while it was loaded, and the service could read it.
LoadedQueryKept ==
  inputsOf # NoModel =>
    /\ inputs = Split(QueryOf(inputsOf))
    /\ Len(QueryOf(inputsOf)) = 4 => Join(inputs) = QueryOf(inputsOf)
=============================================================================
