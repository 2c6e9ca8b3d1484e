--------------------------- MODULE FileCatalogue ---------------------------
(***************************************************************************)
(* The catalogue of the files that can be searched, in the deployment on   *)
(* AWS: the REST calls of StorageResource and QueryResource, the table of  *)
(* AwsQueryService (DynamoDB) and the buckets of AwsS3StorageService.      *)
(*                                                                         *)
(* A call is a sequence of requests to the two services, and calls run     *)
(* side by side.  A request may be refused, may fail after it was done,    *)
(* and a batch may be done in part: the service then returns the rest as   *)
(* unprocessed, which the code does not look at.  Nothing is undone.       *)
(*                                                                         *)
(* Names are numbers, in the order in which both services list them.  A    *)
(* mask and a prefix are the names they match; a mask stands for the tags  *)
(* and the age of a file too.                                              *)
(***************************************************************************)
EXTENDS Naturals, FiniteSets

CONSTANTS
  Names,      \* the files' names
  Tenants,
  Resources,  \* what an upload or a record of a client names as its resource
  Bucket,     \* for each bucket one can import from, when its objects were modified
  Calls,      \* the REST calls
  Tasks,      \* what a call may ask for
  Loaded,     \* the records the catalogue may hold at first
  PageSize,   \* keys in a page of a listing
  BatchLimit, \* BATCH_LIMIT: a batch is sent when it has more items than this
  MaxItems    \* items beyond which DynamoDB refuses a batch

Content == {"text", "blank", "empty"}

\* A record of the table.  by is history: the call that put it.
Record(callers) ==
  [tenant : Tenants, name : Names, resource : Resources \cup DOMAIN Bucket, by : callers]

Before == "before"
AnyRecord == Record(Calls \cup {Before})

Task ==
  [op : {"upload", "import", "remove", "delete", "put"}, tenant : Tenants,
   resource : Resources \cup DOMAIN Bucket, names : SUBSET Names, prefix : SUBSET Names,
   content : Content]

ASSUME CatalogueAssumption ==
  /\ Names \subseteq Nat /\ IsFiniteSet(Names)
  /\ \A b \in DOMAIN Bucket : Bucket[b] \in [DOMAIN Bucket[b] -> Nat] /\ DOMAIN Bucket[b] \subseteq Names
  /\ Resources \cap DOMAIN Bucket = {}
  /\ Before \notin Calls
  /\ Tasks \subseteq Task
  /\ \A t \in Tasks : /\ t.op = "import" <=> t.resource \in DOMAIN Bucket
                      /\ t.op \in {"upload", "delete", "put"} => \E n \in Names : t.names = {n}
  /\ Loaded \subseteq Record({Before}) /\ IsFiniteSet(Loaded)
  /\ \A r, q \in Loaded : r.tenant = q.tenant /\ r.name = q.name => r = q
  /\ PageSize \in Nat \ {0}
  /\ BatchLimit \in Nat
  /\ MaxItems \in Nat

VARIABLES
  task,      \* what each call asks for
  table,     \* whether the table has been created
  catalogue, \* the records of the table
  objects,   \* the tenant, resource and name of each object an upload has written
  pc,        \* where each call is
  listed,    \* the keys the call's listing has returned: the next page begins after them
  found,     \* results of an import, query of a removal
  todo,      \* those no batch has had yet
  batch,     \* the items kept from a batch that failed
  answer,    \* what the caller has been told: a status, or the count of an import
  missed,    \* history: the items of its batches that were not done and are not tried again
  unwritten  \* history: uploads that wrote no object

serviceVars == <<table, catalogue, objects>>
callVars == <<pc, listed, found, todo, batch, answer>>
vars == <<task, serviceVars, callVars, missed, unwritten>>

Init ==
  /\ task \in [Calls -> Tasks]
  /\ table \in BOOLEAN
  /\ catalogue \in IF table THEN {{}, Loaded} ELSE {{}}
  /\ objects = {}
  /\ pc = [c \in Calls |-> "start"]
  /\ listed = [c \in Calls |-> {}]
  /\ found = [c \in Calls |-> {}] /\ todo = [c \in Calls |-> {}] /\ batch = [c \in Calls |-> {}]
  /\ answer = [c \in Calls |-> "none"]
  /\ missed = [c \in Calls |-> {}] /\ unwritten = {}

-----------------------------------------------------------------------------
(* The table *)

At(c, op, place) == pc[c] = place /\ task[c].op = op

\* The partition and the sort key.
SameKey(r, q) == r.tenant = q.tenant /\ r.name = q.name

\* FileMeta.equals
SameFile(r, q) == SameKey(r, q) /\ r.resource = q.resource

\* Mutant: the resource is part of the key.
PutBeside(items) == {r \in catalogue : \A q \in items : ~SameFile(r, q)} \cup items

Put(items) == {r \in catalogue : \A q \in items : ~SameKey(r, q)} \cup items

Delete(items) == {r \in catalogue : \A q \in items : ~SameKey(r, q)}

RecordOf(c, name) ==
  [tenant |-> task[c].tenant, name |-> name, resource |-> task[c].resource, by |-> c]

\* The record that a call about a single file puts.
OwnRecord(c) == RecordOf(c, CHOOSE n \in task[c].names : TRUE)

\* What a write of items can come to: those that are done, and whether the request
\* fails.  Without the table, or with too many items, it is refused.
Outcome(items, done, thrown) ==
  /\ done \subseteq items
  /\ (~table \/ Cardinality(items) > MaxItems) => thrown /\ done = {}

\* A single item is done unless the request fails.
OutcomeOfOne(done, thrown) ==
  /\ thrown \/ done
  /\ ~table => thrown /\ ~done

Answer(c, text) ==
  /\ pc' = [pc EXCEPT ![c] = "done"]
  /\ answer' = [answer EXCEPT ![c] = text]
  /\ UNCHANGED <<listed, found>>

Goto(c, place) == pc' = [pc EXCEPT ![c] = place] /\ UNCHANGED answer

\* A call that meets an exception outside of its batches.
Fails(c, text) ==
  /\ Answer(c, text)
  /\ UNCHANGED <<task, serviceVars, todo, batch, missed, unwritten>>

-----------------------------------------------------------------------------
(* Calls about one file *)

\* storage.upload: a temporary file, then the object.  Failures of S3 are logged and the
\* url is returned all the same; an empty file is not written and has no real url.
StoreUpload(c) ==
  /\ At(c, "upload", "start")
  /\ \/ /\ task[c].content # "empty"
        /\ objects' = objects \cup {<<task[c].tenant, task[c].resource, task[c].names>>}
        /\ UNCHANGED unwritten
     \/ /\ unwritten' = unwritten \cup {c}
        /\ UNCHANGED objects
  /\ Goto(c, "index")
  /\ UNCHANGED <<task, table, catalogue, listed, found, todo, batch, missed>>

\* There is no room for the temporary file.
StoreFails(c) == At(c, "upload", "start") /\ Fails(c, "error")

\* Mutant: a failing write of the record is only logged, as RocksDBQueryService does.
OneAnswerLogged(thrown) == "ok"

\* query.put throws: the caller is told so.
OneAnswer(thrown) == IF thrown THEN "error" ELSE "ok"

\* indexer.index and query.put.  The indexer divides by the mean length of the lines,
\* which is rounded down to 0 when most are blank: the object is there by then.
PutUpload(c) ==
  /\ At(c, "upload", "index")
  /\ \/ /\ task[c].content = "blank"
        /\ Answer(c, "error")
        /\ UNCHANGED catalogue
     \/ /\ task[c].content # "blank"
        /\ \E done, thrown \in BOOLEAN :
             /\ OutcomeOfOne(done, thrown)
             /\ catalogue' = IF done THEN Put({OwnRecord(c)}) ELSE catalogue
             /\ Answer(c, OneAnswer(thrown))
  /\ UNCHANGED <<task, table, objects, todo, batch, missed, unwritten>>

\* QueryResource.put
PutMeta(c) ==
  /\ At(c, "put", "start")
  /\ \E done, thrown \in BOOLEAN :
       /\ OutcomeOfOne(done, thrown)
       /\ catalogue' = IF done THEN Put({OwnRecord(c)}) ELSE catalogue
       /\ Answer(c, OneAnswer(thrown))
  /\ UNCHANGED <<task, table, objects, todo, batch, missed, unwritten>>

\* QueryResource.delete: the object stays.
DeleteMeta(c) ==
  /\ At(c, "delete", "start")
  /\ \E done, thrown \in BOOLEAN :
       /\ OutcomeOfOne(done, thrown)
       /\ catalogue' = IF done THEN Delete({OwnRecord(c)}) ELSE catalogue
       /\ Answer(c, OneAnswer(thrown))
  /\ UNCHANGED <<task, table, objects, todo, batch, missed, unwritten>>

\* QueryResource.list is the one operation that creates the table.
CreateTable ==
  /\ ~table
  /\ table' = TRUE
  /\ UNCHANGED <<task, catalogue, objects, callVars, missed, unwritten>>

-----------------------------------------------------------------------------
(* Batches *)

\* Those of items that fewer than n others come before.
FirstOf(items, n, Precedes(_, _)) ==
  {r \in items : Cardinality({q \in items : Precedes(q, r)}) < n}

ByKey(m, n) == m < n
ByName(r, q) == r.name < q.name

\* Mutant: the sort is forgotten.
Unsorted(r, q) == ByName(r, q)

\* FileMeta.toTime of an import's results.
Time(r) == Bucket[r.resource][r.name]

\* Newest first; the sort is stable.
NewestFirst(r, q) == Time(r) > Time(q) \/ (Time(r) = Time(q) /\ ByName(r, q))

\* A batch takes items until it has more than BatchLimit.  One that was kept after it
\* failed has enough as it is, and is tried again with each further item.
Room(c) ==
  LET kept == Cardinality(batch[c]) IN IF kept > BatchLimit THEN 1 ELSE BatchLimit + 1 - kept

\* What the next request holds, and whether the list ends before the batch is full.
NextBatch(c, Precedes(_, _)) == batch[c] \cup FirstOf(todo[c], Room(c), Precedes)
IsLast(c) == Cardinality(todo[c]) < Room(c)

-----------------------------------------------------------------------------
(* Import *)

\* Mutant: the first page only.
OnePage(page, rest) == TRUE

AllListed(page, rest) == rest = page

\* A page of the bucket's keys.  The first request has the prefix, the ones that
\* continue it have not.  The limits of 200000 results and 10000 pages are out of
\* the reach of the instances.
ListPage(c) ==
  /\ At(c, "import", "start") \/ At(c, "import", "page")
  /\ LET scope == IF pc[c] = "start" THEN task[c].prefix ELSE Names
         rest == {n \in scope \cap DOMAIN Bucket[task[c].resource] : \A m \in listed[c] : m < n}
         page == FirstOf(rest, PageSize, ByKey)
         results == found[c] \cup {RecordOf(c, n) : n \in page \cap task[c].names}
     IN /\ listed' = [listed EXCEPT ![c] = @ \cup page]
        /\ found' = [found EXCEPT ![c] = results]
        /\ \/ /\ AllListed(page, rest)
              /\ todo' = [todo EXCEPT ![c] = results]
              /\ Goto(c, "put")
           \/ /\ ~AllListed(page, rest)
              /\ Goto(c, "page")
              /\ UNCHANGED todo
  /\ UNCHANGED <<task, serviceVars, batch, missed, unwritten>>

\* Nothing is put, and the answer is that nothing was imported.
ListFails(c) == (At(c, "import", "start") \/ At(c, "import", "page")) /\ Fails(c, "zero")

\* A full batch.  If it fails, that is logged, and the batch is cleared as if it had not.
PutBatch(c) ==
  /\ At(c, "import", "put")
  /\ ~IsLast(c)
  /\ LET items == NextBatch(c, NewestFirst)
     IN \E done \in SUBSET items, thrown \in BOOLEAN :
          /\ Outcome(items, done, thrown)
          /\ catalogue' = Put(done)
          /\ todo' = [todo EXCEPT ![c] = @ \ items]
          /\ missed' = [missed EXCEPT ![c] = @ \cup (items \ done)]
  /\ UNCHANGED <<task, table, objects, pc, listed, found, batch, answer, unwritten>>

\* What the last batch sends.
Rest(c) == batch[c] \cup todo[c]

\* The count is that of the results, whatever became of the batches.
CountOf(c) == IF found[c] = {} THEN "zero" ELSE "ok"

\* What is left.  This one's failure reaches the caller, as a count of 0.
PutLast(c) ==
  /\ At(c, "import", "put")
  /\ IsLast(c)
  /\ \E done \in SUBSET Rest(c), thrown \in BOOLEAN :
       /\ IF Rest(c) = {} THEN ~thrown ELSE Outcome(Rest(c), done, thrown)
       /\ catalogue' = Put(done)
       /\ missed' = [missed EXCEPT ![c] = @ \cup (Rest(c) \ done)]
       /\ Answer(c, IF thrown THEN "zero" ELSE CountOf(c))
  /\ todo' = [todo EXCEPT ![c] = {}]
  /\ UNCHANGED <<task, table, objects, batch, unwritten>>

-----------------------------------------------------------------------------
(* Removal *)

\* StorageResource.removeByStorageId asks for the tenant's files that match the mask:
\* the bucket, the prefix and the age it is given are not looked at.
QueryFiles(c) ==
  /\ At(c, "remove", "start")
  /\ table
  /\ found' = [found EXCEPT ![c] =
                 {r \in catalogue : r.tenant = task[c].tenant /\ r.name \in task[c].names}]
  /\ Goto(c, "scan")
  /\ UNCHANGED <<task, serviceVars, listed, todo, batch, missed, unwritten>>

\* Mutant: all of the table.
AnyFile(c) == catalogue

\* The records of the table that the list contains.
FoundFiles(c) == {r \in catalogue : \E q \in found[c] : SameFile(r, q)}

\* deleteList reads all of the table, to delete what is there.
ScanTable(c) ==
  /\ At(c, "remove", "scan")
  /\ todo' = [todo EXCEPT ![c] = FoundFiles(c)]
  /\ Goto(c, "delete")
  /\ UNCHANGED <<task, serviceVars, listed, found, batch, missed, unwritten>>

ReadFails(c) == (At(c, "remove", "start") \/ At(c, "remove", "scan")) /\ Fails(c, "error")

\* Mutant: a batch that failed is cleared, as that of an import is.
ClearedBatch(items) == {}

\* A batch that failed is kept.
KeptBatch(items) == items

\* A full batch.
DeleteBatch(c) ==
  /\ At(c, "remove", "delete")
  /\ ~IsLast(c)
  /\ LET items == NextBatch(c, ByName)
     IN \E done \in SUBSET items, thrown \in BOOLEAN :
          /\ Outcome(items, done, thrown)
          /\ catalogue' = Delete(done)
          /\ todo' = [todo EXCEPT ![c] = @ \ items]
          /\ batch' = [batch EXCEPT ![c] = IF thrown THEN KeptBatch(items) ELSE {}]
          /\ missed' = [missed EXCEPT ![c] = IF thrown THEN @ ELSE @ \cup (items \ done)]
  /\ UNCHANGED <<task, table, objects, pc, listed, found, answer, unwritten>>

\* What is left, with the batch that was kept.  Its failure reaches the caller.
DeleteLast(c) ==
  /\ At(c, "remove", "delete")
  /\ IsLast(c)
  /\ \E done \in SUBSET Rest(c), thrown \in BOOLEAN :
       /\ IF Rest(c) = {} THEN ~thrown ELSE Outcome(Rest(c), done, thrown)
       /\ catalogue' = Delete(done)
       /\ missed' = [missed EXCEPT ![c] = @ \cup (Rest(c) \ done)]
       /\ Answer(c, OneAnswer(thrown))
  /\ todo' = [todo EXCEPT ![c] = {}] /\ batch' = [batch EXCEPT ![c] = {}]
  /\ UNCHANGED <<task, table, objects, unwritten>>

-----------------------------------------------------------------------------
(* Behaviours *)

\* The server stops: its calls are not answered, and what they have done stays.
Crash ==
  /\ \E c \in Calls : pc[c] \notin {"start", "done"}
  /\ pc' = [c \in Calls |-> IF pc[c] = "start" THEN "start" ELSE "done"]
  /\ UNCHANGED <<task, serviceVars, listed, found, todo, batch, answer, missed, unwritten>>

Step(c) ==
  \/ StoreUpload(c) \/ StoreFails(c) \/ PutUpload(c)
  \/ PutMeta(c) \/ DeleteMeta(c)
  \/ ListPage(c) \/ ListFails(c) \/ PutBatch(c) \/ PutLast(c)
  \/ QueryFiles(c) \/ ScanTable(c) \/ ReadFails(c) \/ DeleteBatch(c) \/ DeleteLast(c)

Next == CreateTable \/ Crash \/ \E c \in Calls : Step(c)

Spec == Init /\ [][Next]_vars

-----------------------------------------------------------------------------
(* Properties *)

\* Every variable has its type, and the table never holds two records of one key.
TypeOK ==
  /\ task \in [Calls -> Tasks]
  /\ table \in BOOLEAN
  /\ catalogue \subseteq AnyRecord
  /\ \A r, q \in catalogue : SameKey(r, q) => r = q
  /\ objects \subseteq Tenants \X Resources \X SUBSET Names
  /\ pc \in [Calls -> {"start", "index", "page", "put", "scan", "delete", "done"}]
  /\ listed \in [Calls -> SUBSET Names]
  /\ found \in [Calls -> SUBSET AnyRecord] /\ todo \in [Calls -> SUBSET AnyRecord]
  /\ batch \in [Calls -> SUBSET AnyRecord] /\ missed \in [Calls -> SUBSET AnyRecord]
  /\ answer \in [Calls -> {"none", "ok", "zero", "error"}]
  /\ unwritten \subseteq Calls

\* Calls that may have taken a record with r's key out of the table: a delete of that
\* file, or a removal that found one.
Removed(r) ==
  \E d \in Calls :
    \/ task[d].op = "delete" /\ pc[d] = "done" /\ SameKey(OwnRecord(d), r)
    \/ task[d].op = "remove" /\ \E q \in found[d] : SameKey(q, r)

Listed(r) == \E q \in catalogue : SameKey(q, r)

\* A call about one file that was answered "Uploaded and Indexed" has a record of its key
\* in the table until another call takes it out, and a record that an upload put
\* describes an object that was there first, unless S3 did not take it.
UploadedIsListed ==
  /\ \A c \in Calls : task[c].op \in {"upload", "put"} /\ answer[c] = "ok" =>
       Listed(OwnRecord(c)) \/ Removed(OwnRecord(c))
  /\ \A r \in catalogue : r.by \in Calls /\ task[r.by].op = "upload" =>
       r.by \in unwritten \/ <<r.tenant, r.resource, {r.name}>> \in objects

\* What an import should have put: the objects of the bucket under its prefix that match.
Wanted(c) ==
  {RecordOf(c, n) : n \in task[c].prefix \cap DOMAIN Bucket[task[c].resource] \cap task[c].names}

\* An import that answers a count has put every matching object under its prefix in the
\* table, but for the items of batches that failed or were not done in whole.
ImportComplete ==
  \A c \in Calls : task[c].op = "import" /\ answer[c] = "ok" =>
    \A r \in Wanted(c) : Listed(r) \/ Removed(r) \/ r \in missed[c]

\* At any moment what an import has put is newer than what it has yet to put: one that is
\* cut short has put the newest files ("newest first", StorageResource.java:103).
NewestPutFirst ==
  \A c \in Calls : task[c].op = "import" /\ pc[c] = "put" =>
    \A r \in catalogue, q \in todo[c] : r.by = c => Time(r) >= Time(q)

\* A removal that is answered has deleted every record it found, unless the service left
\* an item undone or the record was put again since.  Unlike an import's, a batch that
\* failed is never forgotten.
RemoveComplete ==
  \A c \in Calls : task[c].op = "remove" /\ answer[c] = "ok" =>
    found[c] \cap catalogue \subseteq missed[c]

\* A record's key only leaves the table by a delete of that file, or by a removal of the
\* same tenant that found it and whose mask it matches.
OnlyFoundIsRemoved ==
  [][\A r \in catalogue : (~ \E q \in catalogue' : SameKey(q, r)) =>
       \E d \in Calls :
         /\ pc[d] # "done"
         /\ task[d].tenant = r.tenant /\ r.name \in task[d].names
         /\ \/ task[d].op = "delete"
            \/ task[d].op = "remove" /\ \E q \in found[d] : SameKey(q, r)]_vars

\* "break into chunks of 25" (AwsQueryService.java:142): no removal gathers a batch the
\* service refuses for its size.
BatchWithinLimit == \A c \in Calls : Cardinality(batch[c]) <= MaxItems
=============================================================================
