--------------------------- MODULE SearchPromise ---------------------------
(***************************************************************************)
(* What the page promises of a search, whatever the calls behind it do: it *)
(* learns which files the search matches, counts an answer for each of     *)
(* them down to none, and shows the events once, with a total of what the  *)
(* answers counted, and only when no answer is left to come.  A search may *)
(* stop anywhere.  Nothing is promised of one that another one overlaps.   *)
(***************************************************************************)
EXTENDS Naturals

CONSTANT MaxFiles   \* the most files a search matches

VARIABLES
  phase,    \* where the last search is
  left,     \* the files without an answer
  whole,    \* the files that were answered as searched to the end
  reported  \* the total on the page

vars == <<phase, left, whole, reported>>

Phases == {"idle", "overlapped", "asked", "searching", "complete", "shown"}

Init == phase = "idle" /\ left = 0 /\ whole = 0 /\ reported = 0

\* The user submits a search.
Ask ==
  /\ phase' \in {"asked", "overlapped"}
  /\ left' = 0 /\ whole' = 0 /\ reported' = 0

\* Its files are known.  One that matches none stays here.
Find ==
  /\ phase = "asked" /\ phase' = "searching"
  /\ left' \in 0 .. MaxFiles
  /\ UNCHANGED <<whole, reported>>

\* Some of the files are answered.
Answer ==
  /\ phase = "searching"
  /\ left' \in 0 .. left - 1
  /\ whole' \in whole .. whole + (left - left')
  /\ phase' = IF left' = 0 THEN "complete" ELSE "searching"
  /\ UNCHANGED reported

\* The events are shown.
Show ==
  /\ phase = "complete" /\ phase' = "shown"
  /\ reported' = whole
  /\ UNCHANGED <<left, whole>>

Next == Ask \/ Find \/ Answer \/ Show

Spec == Init /\ [][Next]_vars
=============================================================================
