------------------------ MODULE MCDataflowExtractor ------------------------
(* Small instances of DataflowExtractor. *)
EXTENDS DataflowExtractor, TLC

\* Times more than a millisecond apart, so that the end of a name can be a line's
\* time, the start nudged by one or the start nudged by ten; and one time only.
TwoTimes == {0, 5}
OneTime == {0}

\* Lines that all name an operation, and lines of both sorts.
With == {TRUE}
WithAndWithout == BOOLEAN

\* The source files of the pair are alike.
FileSymmetry == Permutations(Files)

=============================================================================
