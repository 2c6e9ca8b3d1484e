-------------------------- MODULE MCFileCatalogue --------------------------
(***************************************************************************)
(* Instances of FileCatalogue for TLC.                                     *)
(***************************************************************************)
EXTENDS FileCatalogue, TLC

CONSTANTS t1, t2, r1, b1, c1, c2

MCCalls == {c1, c2}
MCNames == 1 .. 3

\* The order of the names is not that of the times, two of which are equal.
MCBucket == b1 :> (1 :> 2 @@ 2 :> 4 @@ 3 :> 4)

MCTask(op, tenant, resource, names, prefix, content) ==
  [op |-> op, tenant |-> tenant, resource |-> resource, names |-> names, prefix |-> prefix,
   content |-> content]

MCTasks ==
  {MCTask("upload", t1, r1, {2}, {}, content) : content \in Content}
  \cup {MCTask("import", t1, b1, names, prefix, "text") : names \in {{1, 3}, {1, 2, 3}}, prefix \in {{1, 2}, {1, 2, 3}}}
  \cup {MCTask("remove", t1, r1, names, {}, "text") : names \in {{1, 2}, {1, 2, 3}}}
  \cup {MCTask("delete", t1, r1, {2}, {}, "text"), MCTask("put", t2, r1, {2}, {}, "text")}

\* What was there before: files of both tenants, one of them known under both.
MCLoaded ==
  {[tenant |-> t1, name |-> n, resource |-> b1, by |-> Before] : n \in MCNames}
  \cup {[tenant |-> t2, name |-> 1, resource |-> b1, by |-> Before]}
=============================================================================
