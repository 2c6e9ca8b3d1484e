-------------------------------- MODULE Page --------------------------------
(***************************************************************************)
(* What the parts of the web page share: the one spinner they all show and *)
(* hide over $.Topic (backend.js), and panels that are filled by the       *)
(* answers to asynchronous calls.                                          *)
(*                                                                         *)
(* A panel has the data of one user action: "editor" is the file editor,   *)
(* "files" the table of files, "models" the table of a model's data, the   *)
(* others are the views of a dataflow.  Data is identified by the number   *)
(* of the user action that asked for it; 0 is what a panel has when the    *)
(* page is loaded.                                                         *)
(***************************************************************************)
EXTENDS Naturals

CONSTANT MaxActions   \* bound: actions of the user that send a call

ASSUME PageAssumption == MaxActions \in Nat \ {0}

VARIABLES
  spinner,  \* is it shown
  action,   \* the number of user actions that send a call, the loading of the page being the first
  calls,    \* the calls with the spinner: of the action n, of the kind k
  shown,    \* the action whose answer each panel has
  asked,    \* history: the last action that asked for each panel's data
  unsure,   \* history: the panels whose last call failed, or was not alone
  lost,     \* history: a call ended without hiding the spinner after the last that did
  crowded   \* history: two calls were under way since there was none

pageVars == <<spinner, action, calls, shown, asked, unsure, lost, crowded>>

Panels == {"files", "editor", "models", "histogram", "heatmap", "flows", "correlation", "records"}
Kinds == Panels \cup {"import", "remove", "submit"}
Actions == 0 .. MaxActions
Calls == [n : Actions, k : Kinds]

Call(n, k) == [n |-> n, k |-> k]

PageInit ==
  /\ spinner = TRUE /\ action = 1
  /\ calls = {Call(1, "files")}
  /\ shown = [p \in Panels |-> 0]
  /\ asked = [[p \in Panels |-> 0] EXCEPT !["files"] = 1]
  /\ unsure = {} /\ lost = FALSE /\ crowded = FALSE

-----------------------------------------------------------------------------

\* The user does something: the next action.
Act == action < MaxActions /\ action' = action + 1

\* It makes no call with the spinner.
OnlyActs == UNCHANGED <<spinner, calls, shown, asked, unsure, lost, crowded>>

Under(p) == \E c \in calls : c.k = p

TwoOf(S) == \E c, d \in S : c # d

CallsAre(S) == calls' = S /\ crowded' = (S # {} /\ (crowded \/ TwoOf(S)))

\* $(".spinner").show() and hide(): calls are not counted.
Show == spinner' = TRUE /\ UNCHANGED lost
Hide == spinner' = FALSE /\ lost' = FALSE
HideAndShow == spinner' = TRUE /\ lost' = FALSE
Leave == UNCHANGED spinner /\ lost' = TRUE

\* The panels of P are asked for by action n: history.
Asked(P, n) ==
  /\ asked' = [p \in Panels |-> IF p \in P THEN n ELSE asked[p]]
  /\ unsure' = (unsure \ P) \cup {p \in P : Under(p)}

\* Calls for the panels of P are sent with the spinner.
Ask(P) ==
  /\ Act /\ Show
  /\ CallsAre(calls \cup {Call(action + 1, p) : p \in P})
  /\ Asked(P, action + 1)
  /\ UNCHANGED shown

\* A call that fills no panel.
Send(k) ==
  /\ Act /\ Show
  /\ CallsAre(calls \cup {Call(action + 1, k)})
  /\ UNCHANGED <<shown, asked, unsure>>

\* The answer of c is shown in its panel.
Draw(c) == shown' = [shown EXCEPT ![c.k] = c.n] /\ UNCHANGED unsure

\* It is not.
Fail(c) ==
  /\ unsure' = IF c.k \in Panels THEN unsure \cup {c.k} ELSE unsure
  /\ UNCHANGED shown

\* Mutant: the callback forgets the spinner.
EndOnly(c) == UNCHANGED <<spinner, lost>> /\ CallsAre(calls \ {c}) /\ UNCHANGED <<action, asked>>

\* The callback of a call that ends: it hides the spinner, or it does not.
End(c) == Hide /\ CallsAre(calls \ {c}) /\ UNCHANGED <<action, asked>>
GiveUp(c) == Leave /\ Fail(c) /\ CallsAre(calls \ {c}) /\ UNCHANGED <<action, asked>>

Answer(c) == c \in calls /\ End(c) /\ Draw(c)
Refuse(c) == c \in calls /\ End(c) /\ Fail(c)

-----------------------------------------------------------------------------
(* Properties *)

PageTypeOK ==
  /\ spinner \in BOOLEAN /\ action \in Actions /\ calls \subseteq Calls
  /\ shown \in [Panels -> Actions] /\ asked \in [Panels -> Actions]
  /\ unsure \subseteq Panels /\ lost \in BOOLEAN /\ crowded \in BOOLEAN

\* A panel shows what the user last asked of it, unless that call is still under way,
\* failed, or was sent when another one for the panel was: nothing else brings old
\* data back, and no answer ends in the wrong panel.
LatestShown == \A p \in Panels : Under(p) \/ p \in unsure \/ shown[p] = asked[p]
=============================================================================
