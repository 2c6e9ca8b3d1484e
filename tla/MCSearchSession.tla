-------------------------- MODULE MCSearchSession --------------------------
(***************************************************************************)
(* Instances of SearchSession for TLC.                                     *)
(***************************************************************************)
EXTENDS SearchSession

CONSTANTS f1, f2, f3, f4, p, q

\* Two full batches, and from a shorter list one that is not full.
MCListing == <<f1, f2, f3, f4>>

\* Every case of a path that is in two buckets: in one batch, in two batches, and the
\* first file of two batches.
MCPath == f1 :> p @@ f2 :> q @@ f3 :> q @@ f4 :> p

\* One file: what two searches do to each other does not need a second.
MCOneFile == <<f1>>

MCOnePath == f1 :> p
=============================================================================
