-------------------------- MODULE MCSearchResults --------------------------
(***************************************************************************)
(* Instances of SearchResults for TLC.                                     *)
(***************************************************************************)
EXTENDS SearchResults, TLC

CONSTANTS f1, f2, f3, red, blue, size

\* A batch of two files with different tags, and one of one.
MCBatches == <<<<f1, f2>>, <<f3>>>>
MCTags == {red, blue}
MCTag == (f1 :> red) @@ (f2 :> blue) @@ (f3 :> blue)
MCMaxLines == (f1 :> 2) @@ (f2 :> 1) @@ (f3 :> 1)

\* Times at both ends of the range, which are not of it, and in its two buckets, one at
\* the start of the last, which the range ends in; a line that does not match, and one without a field.
MCLines ==
  {[time |-> t, match |-> TRUE, field |-> size] : t \in {1, 3, 4, 7}}
    \cup {[time |-> 3, match |-> FALSE, field |-> size],
          [time |-> 6, match |-> TRUE, field |-> NoField]}

\* States that differ in the lines of files that have been searched are one: no step reads
\* these again, and no property but their type.
MCView ==
  LET ahead == UNION {{Batches[b][n] : n \in done[b] + 1 .. Len(Batches[b])} : b \in BatchIds}
  IN <<[f \in ahead |-> lines[f]], done, staged, counted, histo, stored, merged, chart>>
=============================================================================
