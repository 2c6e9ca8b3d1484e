------------------------------- MODULE Client -------------------------------
(***************************************************************************)
(* The web page without its search (SearchSession): the explorer, the      *)
(* refinery and the views of a dataflow, side by side on one page with one *)
(* spinner.  A callback, with all that it publishes, is one step.          *)
(***************************************************************************)
EXTENDS Explorer, Refinery, DataflowViews

vars == <<pageVars, views, refineryVars, charted>>

Init == PageInit /\ ExplorerInit /\ RefineryInit /\ DataflowInit

\* The page is loaded again, or left by signing out and in: no callback survives.  A
\* save that was sent may still be executed.
Reload ==
  /\ Act
  /\ spinner' = TRUE
  /\ calls' = {Call(action + 1, "files")}
  /\ shown' = [p \in Panels |-> 0]
  /\ asked' = [[p \in Panels |-> 0] EXCEPT !["files"] = action + 1]
  /\ unsure' = {} /\ lost' = FALSE /\ crowded' = FALSE
  /\ views' = {}
  /\ modelName' = NoName /\ inputs' = Split(AnyQuery)
  /\ loads' = {} /\ inputsOf' = NoModel /\ raced' = {}
  /\ charted' = {}
  /\ UNCHANGED <<stored, saves>>

OthersOfExplorer == UNCHANGED <<refineryVars, charted>>
OthersOfRefinery == UNCHANGED <<views, charted>>
OthersOfDataflow == UNCHANGED <<views, refineryVars>>

Acts ==
  \/ ExplorerActs /\ OthersOfExplorer
  \/ RefineryActs /\ OthersOfRefinery
  \/ DataflowActs /\ OthersOfDataflow
  \/ Reload

Answers ==
  \/ ExplorerAnswers /\ OthersOfExplorer
  \/ RefineryAnswers /\ OthersOfRefinery
  \/ DataflowAnswers /\ OthersOfDataflow

Next == Acts \/ Answers \/ (OthersSave /\ OthersOfRefinery)

\* The calls end, answered or failed, and the browser runs their callbacks.
Endings ==
  \/ (FilesListed \/ Imported \/ \E v \in views : v.step # "again" /\ ViewGoesOn(v)) /\ OthersOfExplorer
  \/ RefineryAnswers /\ OthersOfRefinery
  \/ FlowsDrawn /\ OthersOfDataflow

\* Nothing is assumed of the user and of other users, of Google's library, or of a
\* download that is tried again: it may fail for ever.
Spec == Init /\ [][Next]_vars /\ WF_vars(Endings)

-----------------------------------------------------------------------------
(* Properties *)

\* Every variable of the four parts has its type.
TypeOK == PageTypeOK /\ ExplorerTypeOK /\ RefineryTypeOK /\ DataflowTypeOK

ViewOf(c) == {v \in views : Editor(v) = c}

\* The page does not wait for a download: the spinner was hidden when it was sent.
Quiet(c) == \E v \in ViewOf(c) : v.step \in {"archive", "reader"}

\* The spinner is left on a page nothing is loaded for only by a call that was given up
\* after the last one that ended; and it is shown while the page waits for a call,
\* unless another one was under way beside it.
SpinnerTellsTruth ==
  /\ spinner => lost \/ calls # {}
  /\ ~spinner => crowded \/ \A c \in calls : Quiet(c)

\* The page comes to rest: every call and every fetch ends, but for an archive whose
\* download is tried again for ever.
PageSettles ==
  <>[](/\ loads = {} /\ saves = {}
       /\ \A c \in calls : \E v \in ViewOf(c) : v.step = "again")
=============================================================================
