------------------------------ MODULE Explorer ------------------------------
(***************************************************************************)
(* The explorer of the web page (explorer.js, RestVersion of backend.js)   *)
(* and the forms of its import tab (import.js): the table of files, the    *)
(* editor that shows one of them, imports and removals.                    *)
(*                                                                         *)
(* The content of a file is fetched in up to five calls: the service signs *)
(* a URL, the content is got from there and, if that fails, from the       *)
(* service itself; a .gz is downloaded as a blob and then read.  Nothing   *)
(* keeps the user from opening the next file meanwhile, and a callback     *)
(* that comes late writes to the same editor.                              *)
(***************************************************************************)
EXTENDS Page

CONSTANTS
  Files,     \* the names that can be opened
  Archives,  \* those that end with .gz
  Listed     \* those the query service knows: the others are storage:// names

ASSUME FilesAssumption == Archives \subseteq Files /\ Listed \subseteq Files

VARIABLE views   \* where the views of files are that have not ended

Steps == {"url", "direct", "service", "archive", "reader", "again", "refused"}
Views == [n : Actions, file : Files, step : Steps]

ExplorerTypeOK == views \subseteq Views

ExplorerInit == views = {}

\* setFileContent with a message: the editor has no file's content.
Message == shown' = [shown EXCEPT !["editor"] = 0]

Editor(v) == Call(v.n, "editor")

\* v is at another step now; it has ended.
Moves(v, step) == views' = (views \ {v}) \cup {[v EXCEPT !.step = step]}
Leaves(v) == views' = views \ {v}

At(v, step) == v \in views /\ v.step = step

\* The callbacks of a view that goes on.
Waits == UNCHANGED <<action, calls, asked, unsure, crowded>>

-----------------------------------------------------------------------------

\* A row of the table, or setExplorerToOpen from a search or a model's data:
\* fileContentsByURL.
Open(f) ==
  /\ Act /\ Show /\ Message
  /\ CallsAre(calls \cup {Call(action + 1, "editor")})
  /\ Asked({"editor"}, action + 1)
  /\ views' = views \cup {[n |-> action + 1, file |-> f, step |-> "url"]}

\* The URL of a text is got; so is what the service answers for a file it does not know.
TextUrl(v) ==
  /\ At(v, "url") /\ v.file \notin Archives
  /\ Moves(v, "direct")
  /\ UNCHANGED <<spinner, lost, shown>> /\ Waits

\* downloadBinaryDataFromURL, which shows the spinner, and the hiding of it after.
ArchiveUrl(v) ==
  /\ At(v, "url") /\ v.file \in Archives
  /\ Moves(v, "archive")
  /\ Hide
  /\ UNCHANGED shown /\ Waits

\* That call has no fail(): the editor stays as it is, with "loading...".
NoUrl(v) == At(v, "url") /\ Leaves(v) /\ GiveUp(Editor(v))

\* The content is in the editor.
Content(v) == End(Editor(v)) /\ Draw(Editor(v))

\* A signed URL answers with the content, unless it is not one.
TextContent(v) ==
  /\ \/ At(v, "direct") /\ v.file \in Listed
     \/ At(v, "service")
  /\ Leaves(v) /\ Content(v)

\* "falling back": fileContents.
FallBack(v) ==
  /\ At(v, "direct")
  /\ Moves(v, "service")
  /\ HideAndShow /\ Message /\ Waits

\* Mutant: the last call for a text is tried again from the first.
NoContentRetried(v) ==
  /\ At(v, "service") /\ Moves(v, "direct")
  /\ UNCHANGED <<spinner, lost, shown>> /\ Waits

\* The last call for a text fails: an alert, and the spinner is not hidden.
NoContent(v) ==
  /\ At(v, "service") /\ Leaves(v)
  /\ Leave /\ Message
  /\ unsure' = unsure \cup {"editor"}
  /\ CallsAre(calls \ {Editor(v)})
  /\ UNCHANGED <<action, asked>>

\* onload of the download, whatever its status: "expanding gz...".
Loaded(v) ==
  /\ \/ At(v, "archive") /\ v.file \in Listed /\ Moves(v, "reader")
     \/ At(v, "again") /\ Moves(v, "refused")
  /\ Message
  /\ UNCHANGED <<spinner, lost>> /\ Waits

\* onerror: the download is tried again, from /query/get/<tenant>/<file>.
Again(v) ==
  /\ At(v, "archive") \/ At(v, "again")
  /\ Moves(v, "again")
  /\ HideAndShow
  /\ UNCHANGED shown /\ Waits

\* The blob has been read and inflated.
Expanded(v) == At(v, "reader") /\ Leaves(v) /\ Content(v)

\* It is not an archive: pako.inflate throws.  The service has no path without an
\* offset: what it answers to the second download never is one.
Broken(v) ==
  /\ At(v, "reader") \/ At(v, "refused")
  /\ Leaves(v) /\ GiveUp(Editor(v))

\* getListFiles and its answer.
RefreshFiles == Ask({"files"}) /\ UNCHANGED views
FilesListed == \E c \in calls : c.k = "files" /\ (Answer(c) \/ Refuse(c)) /\ UNCHANGED views

\* The forms of the import tab; the answer and the failure are an alert.
Import == (Send("import") \/ Send("remove")) /\ UNCHANGED views
Imported == \E c \in calls : c.k \in {"import", "remove"} /\ Refuse(c) /\ UNCHANGED views

ExplorerActs == RefreshFiles \/ Import \/ \E f \in Files : Open(f)

ViewGoesOn(v) ==
  \/ TextUrl(v) \/ ArchiveUrl(v) \/ NoUrl(v)
  \/ TextContent(v) \/ FallBack(v) \/ NoContent(v)
  \/ Loaded(v) \/ Again(v) \/ Expanded(v) \/ Broken(v)

ExplorerAnswers ==
  \/ FilesListed
  \/ Imported
  \/ \E v \in views : ViewGoesOn(v)
=============================================================================
