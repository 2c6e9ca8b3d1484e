-------------------------- MODULE MCWorkflowRunner --------------------------
(* Small instances of WorkflowRunner. *)
EXTENDS WorkflowRunner, TLC

CONSTANTS f1, f2, ka, kA, kb, kn, kx, a, A, b, w42, x

MCKeyRank == kn :> 0 @@ kA :> 1 @@ ka :> 2 @@ kb :> 3 @@ kx :> 4

\* kn is an id like 42_42, kx one like x_x; a and A differ in case only.
MCParts == ka :> <<a>> @@ kA :> <<A>> @@ kb :> <<b>> @@ kn :> <<w42, w42>> @@ kx :> <<x, x>>
MCLower == a :> a @@ A :> a @@ b :> b @@ w42 :> w42 @@ x :> x
MCNumber == a :> NaN @@ A :> NaN @@ b :> NaN @@ w42 :> 4 @@ x :> NaN

\* Two correlations that overlap, so that the listing has a, b, a and b of them, the
\* second a in the other case; and an id with the delimiter.
MCSegments == f1 :> <<<<1, 1, 3, ka>>, <<1, 2, 3, kb>>>> @@ f2 :> <<<<1, 4, 5, kA>>, <<1, 6, 8, kn>>>>

\* The directory before begins like the model and has a file of the first correlation,
\* which comes right before it in the bucket; the one behind does not, and of its id no
\* flow can be made.
MCForeign == {<<0, 3, 4, kA>>, <<3, 1, 2, kx>>}

\* One file with two runs of lines of one correlation.
MCOneSegments == f1 :> <<<<1, 1, 9, ka>>, <<1, 2, 4, ka>>>>

\* The hours of a search, and of two of one hour.
MCSlices == <<<<1, 2>>>>
MCTwoRuns == <<<<1>>, <<1>>>>

\* Without the variables that no guard of another one looks at and no property of the
\* run is about.
MCView == <<pc, taken, task, job, pos, bucket, listing, page, more, group, slice, troubled, aborted>>

=============================================================================
