------------------------ MODULE FileCatalogueProofs ------------------------
(***************************************************************************)
(* Proofs about FileCatalogue.                                             *)
(***************************************************************************)
EXTENDS FileCatalogue, FiniteSetTheorems, TLAPS

-----------------------------------------------------------------------------
(* The invariant that all the proofs rest on *)

\* The results of an import are records of its own, of keys its listing has returned, and
\* no batch of an import is kept.
ImportShape ==
  \A c \in Calls : task[c].op = "import" =>
    /\ batch[c] = {}
    /\ todo[c] \subseteq found[c]
    /\ \A r \in found[c] :
         \E n \in listed[c] \cap task[c].names \cap DOMAIN Bucket[task[c].resource] : r = RecordOf(c, n)

\* What a removal found is its tenant's and matches its mask, and what it deletes has a
\* key that it found.
RemoveShape ==
  \A c \in Calls : task[c].op = "remove" =>
    /\ \A r \in found[c] : r.tenant = task[c].tenant /\ r.name \in task[c].names
    /\ \A r \in todo[c] \cup batch[c] : \E q \in found[c] : SameKey(q, r)

\* A call that has not begun has nothing in hand.
StartShape ==
  \A c \in Calls : pc[c] = "start" =>
    found[c] = {} /\ todo[c] = {} /\ batch[c] = {} /\ listed[c] = {} /\ answer[c] = "none"

IInv == TypeOK /\ ImportShape /\ RemoveShape /\ StartShape

\* The record of a call about one file has a type, and is of that file.
LEMMA OwnRecordType ==
  ASSUME task \in [Calls -> Tasks], NEW c \in Calls, task[c].op \in {"upload", "delete", "put"}
  PROVE  /\ OwnRecord(c) \in AnyRecord
         /\ OwnRecord(c).by = c
         /\ OwnRecord(c).tenant = task[c].tenant
         /\ OwnRecord(c).resource = task[c].resource
         /\ task[c].names = {OwnRecord(c).name}
<1>1. task[c] \in Task /\ task[c] \in Tasks
  BY CatalogueAssumption DEF CatalogueAssumption
<1>2. PICK n \in Names : task[c].names = {n}
  BY <1>1, CatalogueAssumption DEF CatalogueAssumption
<1>3. OwnRecord(c) = [tenant |-> task[c].tenant, name |-> n, resource |-> task[c].resource, by |-> c]
  <2>1. (CHOOSE m \in task[c].names : TRUE) = n
    BY <1>2
  <2> QED BY <2>1 DEF OwnRecord, RecordOf
<1> QED BY <1>1, <1>2, <1>3 DEF Task, AnyRecord, Record

\* A record of an import has a type.
LEMMA RecordOfType ==
  ASSUME task \in [Calls -> Tasks], NEW c \in Calls, NEW n \in Names
  PROVE  /\ RecordOf(c, n) \in AnyRecord
         /\ RecordOf(c, n).by = c
         /\ RecordOf(c, n).name = n
         /\ RecordOf(c, n).tenant = task[c].tenant
         /\ RecordOf(c, n).resource = task[c].resource
<1>1. task[c] \in Task
  BY CatalogueAssumption DEF CatalogueAssumption
<1> QED BY <1>1 DEF Task, AnyRecord, Record, RecordOf

\* Putting items of different keys keeps the keys of the table different.
LEMMA PutType ==
  ASSUME catalogue \subseteq AnyRecord,
         \A r, q \in catalogue : SameKey(r, q) => r = q,
         NEW items \in SUBSET AnyRecord,
         \A r, q \in items : SameKey(r, q) => r = q
  PROVE  /\ Put(items) \subseteq AnyRecord
         /\ \A r, q \in Put(items) : SameKey(r, q) => r = q
BY DEF Put, SameKey

LEMMA DeleteType ==
  ASSUME catalogue \subseteq AnyRecord,
         \A r, q \in catalogue : SameKey(r, q) => r = q,
         NEW items
  PROVE  /\ Delete(items) \subseteq AnyRecord
         /\ \A r, q \in Delete(items) : SameKey(r, q) => r = q
BY DEF Delete

\* The results of an import have different keys.
LEMMA ImportKeys ==
  ASSUME IInv, NEW c \in Calls, task[c].op = "import"
  PROVE  /\ found[c] \subseteq AnyRecord /\ todo[c] \subseteq found[c]
         /\ \A r, q \in found[c] : SameKey(r, q) => r = q
         /\ \A r \in found[c] : r.by = c
<1>1. task \in [Calls -> Tasks] /\ listed[c] \subseteq Names
  BY DEF IInv, TypeOK
<1>2. \A n \in listed[c] : RecordOf(c, n).name = n /\ RecordOf(c, n).by = c
  BY <1>1, RecordOfType
<1> QED BY <1>1, <1>2 DEF IInv, TypeOK, ImportShape, SameKey


LEMMA InitShape == Init => IInv
<1> SUFFICES ASSUME Init PROVE IInv
  OBVIOUS
<1>1. catalogue \in {{}, Loaded}
  BY DEF Init
<1>2. catalogue \subseteq AnyRecord /\ \A r, q \in catalogue : SameKey(r, q) => r = q
  BY <1>1, CatalogueAssumption DEF CatalogueAssumption, AnyRecord, Record, SameKey
<1>3. TypeOK
  BY <1>2 DEF Init, TypeOK
<1>4. ImportShape /\ RemoveShape /\ StartShape
  BY DEF Init, ImportShape, RemoveShape, StartShape
<1> QED BY <1>3, <1>4 DEF IInv

\* The steps of uploads and of calls about one record keep the invariant.
LEMMA OneFileSteps ==
  ASSUME IInv, NEW c \in Calls,
         StoreUpload(c) \/ StoreFails(c) \/ PutUpload(c) \/ PutMeta(c) \/ DeleteMeta(c)
  PROVE  IInv'
<1>0. TypeOK /\ task \in [Calls -> Tasks]
  BY DEF IInv, TypeOK
<1>1. task[c].op \in {"upload", "delete", "put"}
  BY DEF StoreUpload, StoreFails, PutUpload, PutMeta, DeleteMeta, At
<1>2. /\ UNCHANGED <<task, table, listed, found, todo, batch, missed>>
      /\ pc' \in [Calls -> {"start", "index", "page", "put", "scan", "delete", "done"}]
      /\ answer' \in [Calls -> {"none", "ok", "zero", "error"}]
      /\ \A d \in Calls : pc'[d] = "start" => pc[d] = "start" /\ answer'[d] = answer[d]
  BY <1>0 DEF TypeOK, StoreUpload, StoreFails, PutUpload, PutMeta, DeleteMeta, Fails, Answer, Goto,
              OneAnswer, serviceVars
<1>3. /\ catalogue' \subseteq AnyRecord
      /\ \A r, q \in catalogue' : SameKey(r, q) => r = q
  <2>1. catalogue' = catalogue \/ catalogue' = Put({OwnRecord(c)}) \/ catalogue' = Delete({OwnRecord(c)})
    BY DEF StoreUpload, StoreFails, PutUpload, PutMeta, DeleteMeta, Fails, serviceVars
  <2>2. OwnRecord(c) \in AnyRecord
    BY <1>0, <1>1, OwnRecordType
  <2>3. catalogue \subseteq AnyRecord /\ \A r, q \in catalogue : SameKey(r, q) => r = q
    BY <1>0 DEF TypeOK
  <2>4. /\ Put({OwnRecord(c)}) \subseteq AnyRecord
        /\ \A r, q \in Put({OwnRecord(c)}) : SameKey(r, q) => r = q
    BY <2>2, <2>3, PutType
  <2>5. /\ Delete({OwnRecord(c)}) \subseteq AnyRecord
        /\ \A r, q \in Delete({OwnRecord(c)}) : SameKey(r, q) => r = q
    BY <2>3, DeleteType
  <2> QED BY <2>1, <2>3, <2>4, <2>5
<1>4. objects' \subseteq Tenants \X Resources \X SUBSET Names /\ unwritten' \subseteq Calls
  <2>1. task[c] \in Task /\ (task[c].op = "upload" => task[c].resource \in Resources)
    BY <1>0, CatalogueAssumption DEF CatalogueAssumption, Task
  <2>2. CASE StoreUpload(c)
    <3>1. task[c].op = "upload"
      BY <2>2 DEF StoreUpload, At
    <3>2. <<task[c].tenant, task[c].resource, task[c].names>> \in Tenants \X Resources \X SUBSET Names
      BY <2>1, <3>1 DEF Task
    <3> QED BY <1>0, <2>2, <3>2 DEF TypeOK, StoreUpload
  <2>3. CASE ~StoreUpload(c)
    BY <1>0, <2>3 DEF TypeOK, StoreFails, PutUpload, PutMeta, DeleteMeta, Fails, serviceVars
  <2> QED BY <2>2, <2>3
<1>5. TypeOK'
  BY <1>0, <1>2, <1>3, <1>4 DEF TypeOK
<1>6. ImportShape' /\ RemoveShape' /\ StartShape'
  BY <1>2 DEF IInv, ImportShape, RemoveShape, StartShape, RecordOf, SameKey
<1> QED BY <1>5, <1>6 DEF IInv

\* A page of a listing: what it adds to the results.
LEMMA PageShape ==
  ASSUME IInv, NEW c \in Calls, ListPage(c)
  PROVE  /\ UNCHANGED <<task, table, catalogue, objects, answer, batch, missed, unwritten>>
         /\ task[c].op = "import" /\ pc[c] \in {"start", "page"}
         /\ \E page \in SUBSET (Names \cap DOMAIN Bucket[task[c].resource]) :
              /\ listed' = [listed EXCEPT ![c] = @ \cup page]
              /\ found' = [found EXCEPT ![c] =
                             found[c] \cup {RecordOf(c, n) : n \in page \cap task[c].names}]
              /\ \/ pc' = [pc EXCEPT ![c] = "put"] /\ todo' = [todo EXCEPT ![c] = found'[c]]
                 \/ pc' = [pc EXCEPT ![c] = "page"] /\ todo' = todo
<1> DEFINE scope == IF pc[c] = "start" THEN task[c].prefix ELSE Names
           rest == {n \in scope \cap DOMAIN Bucket[task[c].resource] : \A m \in listed[c] : m < n}
           page == FirstOf(rest, PageSize, ByKey)
<1>1. task[c].op = "import" /\ task[c] \in Task /\ task[c] \in Tasks
  BY CatalogueAssumption DEF CatalogueAssumption, IInv, TypeOK, ListPage, At
<1>2. task[c].resource \in DOMAIN Bucket
  BY <1>1, CatalogueAssumption DEF CatalogueAssumption
<1>3. page \subseteq rest
  BY DEF FirstOf
<1>4. page \in SUBSET (Names \cap DOMAIN Bucket[task[c].resource])
  BY <1>2, <1>3, CatalogueAssumption DEF CatalogueAssumption
<1> HIDE DEF page
<1>5. /\ listed' = [listed EXCEPT ![c] = @ \cup page]
      /\ found' = [found EXCEPT ![c] = found[c] \cup {RecordOf(c, n) : n \in page \cap task[c].names}]
      /\ \/ pc' = [pc EXCEPT ![c] = "put"]
            /\ todo' = [todo EXCEPT ![c] = found[c] \cup {RecordOf(c, n) : n \in page \cap task[c].names}]
         \/ pc' = [pc EXCEPT ![c] = "page"] /\ todo' = todo
  BY DEF ListPage, Goto, page
<1>6. found'[c] = found[c] \cup {RecordOf(c, n) : n \in page \cap task[c].names}
  BY <1>5 DEF IInv, TypeOK
<1>7. UNCHANGED <<task, table, catalogue, objects, answer, batch, missed, unwritten>> /\ pc[c] \in {"start", "page"}
  BY DEF ListPage, Goto, serviceVars, At
<1> QED BY <1>1, <1>4, <1>5, <1>6, <1>7

LEMMA ListStep ==
  ASSUME IInv, NEW c \in Calls, ListPage(c)
  PROVE  IInv'
<1>1. PICK page \in SUBSET (Names \cap DOMAIN Bucket[task[c].resource]) :
        /\ listed' = [listed EXCEPT ![c] = @ \cup page]
        /\ found' = [found EXCEPT ![c] = found[c] \cup {RecordOf(c, n) : n \in page \cap task[c].names}]
        /\ \/ pc' = [pc EXCEPT ![c] = "put"] /\ todo' = [todo EXCEPT ![c] = found'[c]]
           \/ pc' = [pc EXCEPT ![c] = "page"] /\ todo' = todo
  BY PageShape
<1>2. /\ UNCHANGED <<task, table, catalogue, objects, answer, batch, missed, unwritten>>
      /\ task[c].op = "import" /\ TypeOK /\ pc[c] \in {"start", "page"}
  BY PageShape DEF IInv
<1> DEFINE more == {RecordOf(c, n) : n \in page \cap task[c].names}
<1>3. more \subseteq AnyRecord
  BY <1>2, RecordOfType DEF TypeOK
<1>4. found'[c] = found[c] \cup more /\ listed'[c] = listed[c] \cup page
  BY <1>1, <1>2 DEF TypeOK
<1>5. /\ \A d \in Calls : d # c => found'[d] = found[d] /\ todo'[d] = todo[d] /\ listed'[d] = listed[d] /\ pc'[d] = pc[d]
      /\ todo'[c] = found'[c] \/ todo'[c] = todo[c]
      /\ pc'[c] \in {"put", "page"}
  BY <1>1, <1>2 DEF TypeOK
<1>6. TypeOK'
  <2>1. found' \in [Calls -> SUBSET AnyRecord] /\ todo' \in [Calls -> SUBSET AnyRecord]
    <3>1. found[c] \cup more \subseteq AnyRecord
      BY <1>2, <1>3 DEF TypeOK
    <3>2. found' \in [Calls -> SUBSET AnyRecord]
      BY <1>1, <1>2, <3>1 DEF TypeOK
    <3> QED BY <1>1, <1>2, <3>1, <3>2, <1>4 DEF TypeOK
  <2>2. listed' \in [Calls -> SUBSET Names]
    <3>1. page \subseteq Names /\ listed[c] \subseteq Names
      BY <1>2 DEF TypeOK
    <3> QED BY <1>1, <1>2, <3>1 DEF TypeOK
  <2>3. pc' \in [Calls -> {"start", "index", "page", "put", "scan", "delete", "done"}]
    BY <1>1, <1>2 DEF TypeOK
  <2> QED BY <1>2, <2>1, <2>2, <2>3 DEF TypeOK
<1>7. ImportShape'
  <2> SUFFICES ASSUME NEW d \in Calls, task[d].op = "import"
               PROVE  /\ batch'[d] = {}
                      /\ todo'[d] \subseteq found'[d]
                      /\ \A r \in found'[d] :
                           \E n \in listed'[d] \cap task[d].names \cap DOMAIN Bucket[task[d].resource] :
                             r = RecordOf(d, n)
    BY <1>2 DEF ImportShape, RecordOf
  <2>1. /\ batch[d] = {} /\ todo[d] \subseteq found[d]
        /\ \A r \in found[d] :
             \E n \in listed[d] \cap task[d].names \cap DOMAIN Bucket[task[d].resource] : r = RecordOf(d, n)
    BY DEF IInv, ImportShape
  <2> QED BY <1>2, <1>4, <1>5, <2>1
<1>8. RemoveShape'
  BY <1>2, <1>5 DEF IInv, RemoveShape, SameKey
<1>9. StartShape'
  BY <1>2, <1>5 DEF IInv, StartShape
<1> QED BY <1>6, <1>7, <1>8, <1>9 DEF IInv

\* A batch of an import: what is sent, and what of it is done.
PutSent(c, items, done) ==
  /\ done \subseteq items
  /\ catalogue' = Put(done)
  /\ todo' = [todo EXCEPT ![c] = @ \ items]
  /\ missed' = [missed EXCEPT ![c] = @ \cup (items \ done)]
  /\ \/ pc' = pc /\ answer' = answer
     \/ /\ pc' = [pc EXCEPT ![c] = "done"]
        /\ items = todo[c]
        /\ \E text \in {"ok", "zero"} : answer' = [answer EXCEPT ![c] = text]

LEMMA PutShape ==
  ASSUME IInv, NEW c \in Calls, PutBatch(c) \/ PutLast(c)
  PROVE  /\ UNCHANGED <<task, table, objects, listed, found, batch, unwritten>>
         /\ task[c].op = "import" /\ pc[c] = "put"
         /\ \E items, done \in SUBSET todo[c] : PutSent(c, items, done)
<1>1. task[c].op = "import" /\ pc[c] = "put" /\ batch[c] = {} /\ TypeOK
  BY DEF IInv, ImportShape, PutBatch, PutLast, At
<1>2. CASE PutBatch(c)
  <2> DEFINE items == NextBatch(c, NewestFirst)
  <2>1. items \subseteq todo[c]
    BY <1>1 DEF NextBatch, FirstOf
  <2> HIDE DEF items
  <2>2. PICK done \in SUBSET items :
          /\ catalogue' = Put(done)
          /\ todo' = [todo EXCEPT ![c] = @ \ items]
          /\ missed' = [missed EXCEPT ![c] = @ \cup (items \ done)]
    BY <1>2 DEF PutBatch, items
  <2>3. UNCHANGED <<task, table, objects, pc, listed, found, batch, answer, unwritten>>
    BY <1>2 DEF PutBatch
  <2>4. PutSent(c, items, done)
    BY <2>2, <2>3 DEF PutSent
  <2> QED BY <1>1, <2>1, <2>3, <2>4
<1>3. CASE PutLast(c)
  <2>1. Rest(c) = todo[c]
    BY <1>1 DEF Rest
  <2>2. PICK done \in SUBSET todo[c], thrown \in BOOLEAN :
          /\ catalogue' = Put(done)
          /\ missed' = [missed EXCEPT ![c] = @ \cup (todo[c] \ done)]
          /\ Answer(c, IF thrown THEN "zero" ELSE CountOf(c))
    BY <1>3, <2>1 DEF PutLast
  <2>3. todo' = [todo EXCEPT ![c] = @ \ todo[c]]
    BY <1>1, <1>3 DEF PutLast, TypeOK
  <2>4. /\ pc' = [pc EXCEPT ![c] = "done"]
        /\ \E text \in {"ok", "zero"} : answer' = [answer EXCEPT ![c] = text]
        /\ UNCHANGED <<listed, found>>
    BY <2>2 DEF Answer, CountOf
  <2>5. UNCHANGED <<task, table, objects, batch, unwritten>>
    BY <1>3 DEF PutLast
  <2>6. PutSent(c, todo[c], done)
    BY <2>2, <2>3, <2>4 DEF PutSent
  <2> QED BY <1>1, <2>4, <2>5, <2>6
<1> QED BY <1>2, <1>3

LEMMA PutStep ==
  ASSUME IInv, NEW c \in Calls, PutBatch(c) \/ PutLast(c)
  PROVE  IInv'
<1>1. /\ UNCHANGED <<task, table, objects, listed, found, batch, unwritten>>
      /\ task[c].op = "import" /\ pc[c] = "put" /\ TypeOK
  BY PutShape DEF IInv
<1>2. PICK items, done \in SUBSET todo[c] : PutSent(c, items, done)
  BY PutShape
<1>3. done \subseteq AnyRecord /\ items \subseteq AnyRecord /\ \A r, q \in done : SameKey(r, q) => r = q
  BY <1>1, ImportKeys
<1>4. /\ catalogue' \subseteq AnyRecord
      /\ \A r, q \in catalogue' : SameKey(r, q) => r = q
  BY <1>1, <1>2, <1>3, PutType DEF TypeOK, PutSent
<1>5. /\ pc' \in [Calls -> {"start", "index", "page", "put", "scan", "delete", "done"}]
      /\ answer' \in [Calls -> {"none", "ok", "zero", "error"}]
      /\ \A d \in Calls : pc'[d] = "start" => pc[d] = "start" /\ d # c /\ answer'[d] = answer[d]
  BY <1>1, <1>2 DEF TypeOK, PutSent
<1>6. /\ todo' \in [Calls -> SUBSET AnyRecord] /\ missed' \in [Calls -> SUBSET AnyRecord]
      /\ \A d \in Calls : todo'[d] \subseteq todo[d]
  <2>1. todo[c] \ items \subseteq AnyRecord /\ missed[c] \cup (items \ done) \subseteq AnyRecord
    BY <1>1, <1>3 DEF TypeOK
  <2> QED BY <1>1, <1>2, <2>1 DEF TypeOK, PutSent
<1>7. TypeOK'
  BY <1>1, <1>4, <1>5, <1>6 DEF TypeOK
<1>8. ImportShape' /\ RemoveShape'
  BY <1>1, <1>6 DEF IInv, ImportShape, RemoveShape, RecordOf, SameKey
<1>9. StartShape'
  BY <1>1, <1>5, <1>6 DEF IInv, StartShape
<1> QED BY <1>7, <1>8, <1>9 DEF IInv

\* A batch of a removal: what is sent, what of it is done, and what is kept.
DeleteSent(c, items, done, kept, left) ==
  /\ done \subseteq items /\ kept \subseteq items
  /\ Rest(c) = items \cup left
  /\ catalogue' = Delete(done)
  /\ todo' = [todo EXCEPT ![c] = left]
  /\ batch' = [batch EXCEPT ![c] = kept]
  /\ \/ /\ pc' = pc /\ answer' = answer
        /\ items \ kept \subseteq done \cup missed'[c]
        /\ missed' = [missed EXCEPT ![c] = missed'[c]] /\ missed[c] \subseteq missed'[c]
        /\ missed'[c] \subseteq missed[c] \cup items
     \/ /\ pc' = [pc EXCEPT ![c] = "done"]
        /\ left = {}
        /\ missed' = [missed EXCEPT ![c] = @ \cup (items \ done)]
        /\ \E text \in {"ok", "error"} : answer' = [answer EXCEPT ![c] = text]

LEMMA DeleteShape ==
  ASSUME IInv, NEW c \in Calls, DeleteBatch(c) \/ DeleteLast(c)
  PROVE  /\ UNCHANGED <<task, table, objects, listed, found, unwritten>>
         /\ task[c].op = "remove" /\ pc[c] = "delete"
         /\ \E items, done, kept \in SUBSET Rest(c), left \in SUBSET todo[c] :
              DeleteSent(c, items, done, kept, left)
<1>1. task[c].op = "remove" /\ pc[c] = "delete" /\ TypeOK
  BY DEF IInv, DeleteBatch, DeleteLast, At
<1>2. CASE DeleteBatch(c)
  <2> DEFINE items == NextBatch(c, ByName)
  <2>1. items \subseteq Rest(c) /\ Rest(c) = items \cup (todo[c] \ items)
    BY <1>1 DEF NextBatch, FirstOf, Rest
  <2> HIDE DEF items
  <2>2. PICK done \in SUBSET items, thrown \in BOOLEAN :
          /\ catalogue' = Delete(done)
          /\ todo' = [todo EXCEPT ![c] = @ \ items]
          /\ batch' = [batch EXCEPT ![c] = IF thrown THEN KeptBatch(items) ELSE {}]
          /\ missed' = [missed EXCEPT ![c] = IF thrown THEN @ ELSE @ \cup (items \ done)]
    BY <1>2 DEF DeleteBatch, items
  <2>3. UNCHANGED <<task, table, objects, pc, listed, found, answer, unwritten>>
    BY <1>2 DEF DeleteBatch
  <2> DEFINE kept == IF thrown THEN items ELSE {}
  <2>4. /\ todo' = [todo EXCEPT ![c] = todo[c] \ items]
        /\ batch' = [batch EXCEPT ![c] = kept]
    BY <1>1, <2>2 DEF TypeOK, KeptBatch
  <2>5. missed'[c] = IF thrown THEN missed[c] ELSE missed[c] \cup (items \ done)
    BY <1>1, <2>2 DEF TypeOK
  <2>6. missed' = [missed EXCEPT ![c] = missed'[c]]
    BY <1>1, <2>2 DEF TypeOK
  <2>7. /\ items \ kept \subseteq done \cup missed'[c] /\ missed[c] \subseteq missed'[c]
        /\ missed'[c] \subseteq missed[c] \cup items
        /\ kept \subseteq items
    BY <2>5
  <2> HIDE DEF kept
  <2>8. DeleteSent(c, items, done, kept, todo[c] \ items)
    BY <2>1, <2>2, <2>3, <2>4, <2>6, <2>7 DEF DeleteSent
  <2>9. items \in SUBSET Rest(c) /\ done \in SUBSET Rest(c) /\ kept \in SUBSET Rest(c)
    BY <2>1, <2>2, <2>7
  <2> QED BY <1>1, <2>3, <2>8, <2>9
<1>3. CASE DeleteLast(c)
  <2>1. PICK done \in SUBSET Rest(c), thrown \in BOOLEAN :
          /\ catalogue' = Delete(done)
          /\ missed' = [missed EXCEPT ![c] = @ \cup (Rest(c) \ done)]
          /\ Answer(c, OneAnswer(thrown))
    BY <1>3 DEF DeleteLast
  <2>2. todo' = [todo EXCEPT ![c] = {}] /\ batch' = [batch EXCEPT ![c] = {}]
    BY <1>3 DEF DeleteLast
  <2>3. /\ pc' = [pc EXCEPT ![c] = "done"]
        /\ \E text \in {"ok", "error"} : answer' = [answer EXCEPT ![c] = text]
        /\ UNCHANGED <<listed, found>>
    BY <2>1 DEF Answer, OneAnswer
  <2>4. UNCHANGED <<task, table, objects, unwritten>>
    BY <1>3 DEF DeleteLast
  <2>5. DeleteSent(c, Rest(c), done, {}, {})
    BY <2>1, <2>2, <2>3 DEF DeleteSent
  <2> QED BY <1>1, <2>3, <2>4, <2>5
<1> QED BY <1>2, <1>3

LEMMA DeleteStep ==
  ASSUME IInv, NEW c \in Calls, DeleteBatch(c) \/ DeleteLast(c)
  PROVE  IInv'
<1>1. /\ UNCHANGED <<task, table, objects, listed, found, unwritten>>
      /\ task[c].op = "remove" /\ pc[c] = "delete" /\ TypeOK
  BY DeleteShape DEF IInv
<1>2. PICK items, done, kept \in SUBSET Rest(c), left \in SUBSET todo[c] :
        DeleteSent(c, items, done, kept, left)
  BY DeleteShape
<1>3. Rest(c) \subseteq AnyRecord /\ Rest(c) = todo[c] \cup batch[c]
  BY <1>1 DEF Rest, TypeOK
<1>4. /\ catalogue' \subseteq AnyRecord
      /\ \A r, q \in catalogue' : SameKey(r, q) => r = q
  BY <1>1, <1>2, DeleteType DEF TypeOK, DeleteSent
<1>5. /\ pc' \in [Calls -> {"start", "index", "page", "put", "scan", "delete", "done"}]
      /\ answer' \in [Calls -> {"none", "ok", "zero", "error"}]
      /\ \A d \in Calls : pc'[d] = "start" => pc[d] = "start" /\ d # c /\ answer'[d] = answer[d]
  BY <1>1, <1>2 DEF TypeOK, DeleteSent
<1>6. /\ todo' \in [Calls -> SUBSET AnyRecord] /\ batch' \in [Calls -> SUBSET AnyRecord]
      /\ \A d \in Calls : d # c => todo'[d] = todo[d] /\ batch'[d] = batch[d]
      /\ todo'[c] \cup batch'[c] \subseteq todo[c] \cup batch[c]
  <2>1. left \subseteq AnyRecord /\ kept \subseteq AnyRecord
    BY <1>2, <1>3
  <2> QED BY <1>1, <1>2, <1>3, <2>1 DEF TypeOK, DeleteSent
<1>7. missed' \in [Calls -> SUBSET AnyRecord]
  <2>1. missed[c] \cup items \subseteq AnyRecord /\ missed[c] \cup (items \ done) \subseteq AnyRecord
    BY <1>1, <1>3 DEF TypeOK
  <2> QED BY <1>1, <1>2, <2>1 DEF TypeOK, DeleteSent
<1>8. TypeOK'
  BY <1>1, <1>4, <1>5, <1>6, <1>7 DEF TypeOK
<1>9. ImportShape'
  BY <1>1, <1>6 DEF IInv, ImportShape, RecordOf
<1>10. RemoveShape'
  BY <1>1, <1>6 DEF IInv, RemoveShape, SameKey
<1>11. StartShape'
  BY <1>1, <1>5, <1>6 DEF IInv, StartShape
<1> QED BY <1>8, <1>9, <1>10, <1>11 DEF IInv

LEMMA ReadStep ==
  ASSUME IInv, NEW c \in Calls, QueryFiles(c) \/ ScanTable(c)
  PROVE  IInv'
<1>1. /\ UNCHANGED <<task, table, catalogue, objects, listed, batch, answer, missed, unwritten>>
      /\ task[c].op = "remove" /\ TypeOK
      /\ pc' \in [Calls -> {"start", "index", "page", "put", "scan", "delete", "done"}]
      /\ pc'[c] # "start"
      /\ \A d \in Calls : d # c => pc'[d] = pc[d]
  BY DEF IInv, TypeOK, QueryFiles, ScanTable, At, Goto, serviceVars
<1>2. CASE QueryFiles(c)
  <2> DEFINE files == {r \in catalogue : r.tenant = task[c].tenant /\ r.name \in task[c].names}
  <2>1. found' = [found EXCEPT ![c] = files] /\ todo' = todo /\ pc[c] = "start"
    BY <1>2 DEF QueryFiles, At
  <2>2. todo[c] = {} /\ batch[c] = {}
    BY <2>1 DEF IInv, StartShape
  <2>3. files \subseteq AnyRecord
    BY <1>1 DEF TypeOK
  <2>4. TypeOK'
    BY <1>1, <2>1, <2>3 DEF TypeOK
  <2>5. found'[c] = files /\ \A d \in Calls : d # c => found'[d] = found[d]
    BY <1>1, <2>1 DEF TypeOK
  <2>6. ImportShape' /\ StartShape'
    BY <1>1, <2>1, <2>5 DEF IInv, ImportShape, StartShape, RecordOf
  <2>7. RemoveShape'
    BY <1>1, <2>1, <2>2, <2>5 DEF IInv, RemoveShape, SameKey
  <2> QED BY <2>4, <2>6, <2>7 DEF IInv
<1>3. CASE ScanTable(c)
  <2>1. todo' = [todo EXCEPT ![c] = FoundFiles(c)] /\ found' = found
    BY <1>3 DEF ScanTable
  <2>2. FoundFiles(c) \subseteq AnyRecord /\ \A r \in FoundFiles(c) : \E q \in found[c] : SameKey(q, r)
    BY <1>1 DEF TypeOK, FoundFiles, SameFile, SameKey
  <2>3. TypeOK'
    BY <1>1, <2>1, <2>2 DEF TypeOK
  <2>4. todo'[c] = FoundFiles(c) /\ \A d \in Calls : d # c => todo'[d] = todo[d]
    BY <1>1, <2>1 DEF TypeOK
  <2>5. ImportShape' /\ StartShape'
    BY <1>1, <2>1, <2>4 DEF IInv, ImportShape, StartShape, RecordOf
  <2>6. RemoveShape'
    BY <1>1, <2>1, <2>2, <2>4 DEF IInv, RemoveShape, SameKey
  <2> QED BY <2>3, <2>5, <2>6 DEF IInv
<1> QED BY <1>2, <1>3

\* Failing calls, the creation of the table, a crash, and a step of something else.
LEMMA OtherSteps ==
  ASSUME IInv,
         CreateTable \/ Crash \/ (\E c \in Calls : ListFails(c) \/ ReadFails(c)) \/ UNCHANGED vars
  PROVE  /\ IInv'
         /\ UNCHANGED <<task, catalogue, objects, listed, found, todo, batch, missed, unwritten>>
         /\ \A d \in Calls : \/ pc'[d] = pc[d] /\ answer'[d] = answer[d]
                             \/ pc'[d] = "done" /\ answer'[d] \in {answer[d], "zero", "error"}
<1>0. TypeOK
  BY DEF IInv
<1>1. /\ UNCHANGED <<task, catalogue, objects, listed, found, todo, batch, missed, unwritten>>
      /\ table' \in BOOLEAN
      /\ pc' \in [Calls -> {"start", "index", "page", "put", "scan", "delete", "done"}]
      /\ answer' \in [Calls -> {"none", "ok", "zero", "error"}]
      /\ \A d \in Calls : \/ pc'[d] = pc[d] /\ answer'[d] = answer[d]
                          \/ pc'[d] = "done" /\ answer'[d] \in {answer[d], "zero", "error"}
  <2>1. CASE CreateTable \/ UNCHANGED vars
    BY <1>0, <2>1 DEF TypeOK, CreateTable, vars, callVars, serviceVars
  <2>2. CASE Crash
    BY <1>0, <2>2 DEF TypeOK, Crash, serviceVars
  <2>3. CASE \E c \in Calls : ListFails(c) \/ ReadFails(c)
    BY <1>0, <2>3 DEF TypeOK, ListFails, ReadFails, Fails, Answer, serviceVars
  <2> QED BY <2>1, <2>2, <2>3
<1>2. TypeOK'
  BY <1>0, <1>1 DEF TypeOK
<1>3. ImportShape' /\ RemoveShape' /\ StartShape'
  BY <1>1 DEF IInv, ImportShape, RemoveShape, StartShape, RecordOf, SameKey
<1> QED BY <1>1, <1>2, <1>3 DEF IInv

\* The steps of the specification, in the groups the proofs treat together.
LEMMA StepGroups ==
  ASSUME [Next]_vars
  PROVE  \/ \E c \in Calls : StoreUpload(c) \/ StoreFails(c) \/ PutUpload(c) \/ PutMeta(c) \/ DeleteMeta(c)
         \/ \E c \in Calls : ListPage(c)
         \/ \E c \in Calls : PutBatch(c) \/ PutLast(c)
         \/ \E c \in Calls : QueryFiles(c) \/ ScanTable(c)
         \/ \E c \in Calls : DeleteBatch(c) \/ DeleteLast(c)
         \/ CreateTable \/ Crash \/ (\E c \in Calls : ListFails(c) \/ ReadFails(c)) \/ UNCHANGED vars
BY DEF Next, Step

LEMMA NextShape == IInv /\ [Next]_vars => IInv'
<1> SUFFICES ASSUME IInv, [Next]_vars PROVE IInv'
  OBVIOUS
<1>1. CASE \E c \in Calls : StoreUpload(c) \/ StoreFails(c) \/ PutUpload(c) \/ PutMeta(c) \/ DeleteMeta(c)
  BY <1>1, OneFileSteps
<1>2. CASE \E c \in Calls : ListPage(c)
  BY <1>2, ListStep
<1>3. CASE \E c \in Calls : PutBatch(c) \/ PutLast(c)
  BY <1>3, PutStep
<1>4. CASE \E c \in Calls : QueryFiles(c) \/ ScanTable(c)
  BY <1>4, ReadStep
<1>5. CASE \E c \in Calls : DeleteBatch(c) \/ DeleteLast(c)
  BY <1>5, DeleteStep
<1>6. CASE CreateTable \/ Crash \/ (\E c \in Calls : ListFails(c) \/ ReadFails(c)) \/ UNCHANGED vars
  BY <1>6, OtherSteps
<1> QED BY <1>1, <1>2, <1>3, <1>4, <1>5, <1>6, StepGroups

\* For all calls, tasks and buckets: every variable keeps its type and the table never
\* holds two records of one key (the table of AwsQueryService, Model.getKey).
THEOREM TypeCorrect == Spec => []TypeOK
<1>1. IInv => TypeOK
  BY DEF IInv
<1> QED BY <1>1, InitShape, NextShape, PTL DEF Spec

-----------------------------------------------------------------------------
(* What leaves the table *)

\* What a step does to the table: it puts records of one call, or deletes records whose
\* keys a removal at work has found, or the one of a delete at work.
TableChange ==
  \/ catalogue' = catalogue
  \/ \E c \in Calls, items \in SUBSET AnyRecord : catalogue' = Put(items) /\ \A r \in items : r.by = c
  \/ \E c \in Calls :
       /\ task[c].op = "delete" /\ pc[c] # "done" /\ pc'[c] = "done"
       /\ catalogue' = Delete({OwnRecord(c)})
  \/ \E c \in Calls : \E items \in SUBSET (todo[c] \cup batch[c]) :
       /\ task[c].op = "remove" /\ pc[c] # "done"
       /\ catalogue' = Delete(items)

LEMMA TableSteps ==
  ASSUME IInv, [Next]_vars
  PROVE  TableChange
<1>1. CASE \E c \in Calls : StoreUpload(c) \/ StoreFails(c) \/ PutUpload(c) \/ PutMeta(c) \/ DeleteMeta(c)
  <2>1. PICK c \in Calls : StoreUpload(c) \/ StoreFails(c) \/ PutUpload(c) \/ PutMeta(c) \/ DeleteMeta(c)
    BY <1>1
  <2>2. OwnRecord(c) \in AnyRecord /\ OwnRecord(c).by = c /\ pc[c] # "done"
    <3>1. task[c].op \in {"upload", "delete", "put"}
      BY <2>1 DEF StoreUpload, StoreFails, PutUpload, PutMeta, DeleteMeta, At
    <3>2. pc[c] # "done"
      BY <2>1 DEF StoreUpload, StoreFails, PutUpload, PutMeta, DeleteMeta, At
    <3> QED BY <3>1, <3>2, OwnRecordType DEF IInv, TypeOK
  <2>3. \/ catalogue' = catalogue
        \/ catalogue' = Put({OwnRecord(c)})
        \/ catalogue' = Delete({OwnRecord(c)}) /\ task[c].op = "delete" /\ pc'[c] = "done"
    BY <2>1 DEF StoreUpload, StoreFails, PutUpload, PutMeta, DeleteMeta, Fails, serviceVars, At,
                Answer, IInv, TypeOK
  <2>4. ASSUME catalogue' = Put({OwnRecord(c)}) PROVE TableChange
    <3>1. {OwnRecord(c)} \in SUBSET AnyRecord /\ \A r \in {OwnRecord(c)} : r.by = c
      BY <2>2
    <3> QED BY <2>4, <3>1 DEF TableChange
  <2> QED BY <2>2, <2>3, <2>4 DEF TableChange
<1>2. CASE \E c \in Calls : ListPage(c)
  BY <1>2, PageShape DEF TableChange
<1>3. CASE \E c \in Calls : PutBatch(c) \/ PutLast(c)
  <2>1. PICK c \in Calls : PutBatch(c) \/ PutLast(c)
    BY <1>3
  <2>2. PICK items, done \in SUBSET todo[c] : PutSent(c, items, done)
    BY <2>1, PutShape
  <2>3. task[c].op = "import"
    BY <2>1, PutShape
  <2>4. done \in SUBSET AnyRecord /\ \A r \in done : r.by = c
    BY <2>3, ImportKeys
  <2> QED BY <2>2, <2>4 DEF PutSent, TableChange
<1>4. CASE \E c \in Calls : QueryFiles(c) \/ ScanTable(c)
  BY <1>4 DEF QueryFiles, ScanTable, serviceVars, TableChange
<1>5. CASE \E c \in Calls : DeleteBatch(c) \/ DeleteLast(c)
  <2>1. PICK c \in Calls : DeleteBatch(c) \/ DeleteLast(c)
    BY <1>5
  <2>2. task[c].op = "remove" /\ pc[c] = "delete"
    BY <2>1, DeleteShape
  <2>3. PICK items, done, kept \in SUBSET Rest(c), left \in SUBSET todo[c] :
          DeleteSent(c, items, done, kept, left)
    BY <2>1, DeleteShape
  <2>4. catalogue' = Delete(done) /\ done \in SUBSET (todo[c] \cup batch[c])
    BY <2>3 DEF DeleteSent, Rest
  <2> QED BY <2>2, <2>4 DEF TableChange
<1>6. CASE CreateTable \/ Crash \/ (\E c \in Calls : ListFails(c) \/ ReadFails(c)) \/ UNCHANGED vars
  BY <1>6, OtherSteps DEF TableChange
<1> QED BY <1>1, <1>2, <1>3, <1>4, <1>5, <1>6, StepGroups

\* For all calls and tables: a key only leaves the table by a delete of that file, or by a
\* removal of the same tenant that found it and whose mask it matches (removeByStorageId
\* and deleteList, which reads the table of all tenants).
THEOREM RemovesOnlyFound == Spec => OnlyFoundIsRemoved
<1> DEFINE A == \A r \in catalogue : (~ \E q \in catalogue' : SameKey(q, r)) =>
       \E d \in Calls :
         /\ pc[d] # "done"
         /\ task[d].tenant = r.tenant /\ r.name \in task[d].names
         /\ \/ task[d].op = "delete"
            \/ task[d].op = "remove" /\ \E q \in found[d] : SameKey(q, r)
<1>1. IInv /\ [Next]_vars => [A]_vars
  <2> SUFFICES ASSUME IInv, [Next]_vars, NEW r \in catalogue, ~ \E q \in catalogue' : SameKey(q, r)
               PROVE  \E d \in Calls :
                        /\ pc[d] # "done"
                        /\ task[d].tenant = r.tenant /\ r.name \in task[d].names
                        /\ \/ task[d].op = "delete"
                           \/ task[d].op = "remove" /\ \E q \in found[d] : SameKey(q, r)
    OBVIOUS
  <2>0. catalogue' # catalogue
    BY DEF SameKey
  <2>1. ASSUME NEW items, catalogue' = Put(items) PROVE FALSE
    BY <2>1 DEF Put, SameKey
  <2>2. ASSUME NEW c \in Calls, task[c].op = "delete", pc[c] # "done", catalogue' = Delete({OwnRecord(c)})
        PROVE  task[c].tenant = r.tenant /\ r.name \in task[c].names
    <3>1. SameKey(r, OwnRecord(c))
      BY <2>2 DEF Delete, SameKey
    <3> QED BY <2>2, <3>1, OwnRecordType DEF SameKey, IInv, TypeOK
  <2>3. ASSUME NEW c \in Calls, NEW items \in SUBSET (todo[c] \cup batch[c]), task[c].op = "remove",
               catalogue' = Delete(items)
        PROVE  /\ task[c].tenant = r.tenant /\ r.name \in task[c].names
               /\ \E q \in found[c] : SameKey(q, r)
    <3>1. PICK q \in items : SameKey(r, q)
      BY <2>3 DEF Delete, SameKey
    <3>2. PICK p \in found[c] : SameKey(p, q)
      BY <2>3 DEF IInv, RemoveShape
    <3> QED BY <2>3, <3>1, <3>2 DEF SameKey, IInv, RemoveShape
  <2> QED BY <2>0, <2>1, <2>2, <2>3, TableSteps DEF TableChange
<1>2. Init => IInv
  BY InitShape
<1>3. IInv /\ [Next]_vars => IInv'
  BY NextShape
<1> QED BY <1>1, <1>2, <1>3, PTL DEF Spec, OnlyFoundIsRemoved

-----------------------------------------------------------------------------
(* Uploads *)

\* What a step leaves as it is: a task, a call that is done, and what a removal found.
LEMMA Lasting ==
  ASSUME IInv, [Next]_vars
  PROVE  /\ task' = task
         /\ \A d \in Calls : pc[d] = "done" => pc'[d] = "done"
         /\ \A d \in Calls : task[d].op = "remove" => found[d] \subseteq found'[d]
<1>0. TypeOK
  BY DEF IInv
<1>1. CASE \E c \in Calls : StoreUpload(c) \/ StoreFails(c) \/ PutUpload(c) \/ PutMeta(c) \/ DeleteMeta(c)
  BY <1>0, <1>1 DEF StoreUpload, StoreFails, PutUpload, PutMeta, DeleteMeta, Fails, Answer, Goto,
                    serviceVars, At, TypeOK
<1>2. CASE \E c \in Calls : ListPage(c)
  BY <1>0, <1>2, PageShape DEF TypeOK
<1>3. CASE \E c \in Calls : PutBatch(c) \/ PutLast(c)
  BY <1>0, <1>3, PutShape DEF TypeOK, PutSent
<1>4. CASE \E c \in Calls : QueryFiles(c) \/ ScanTable(c)
  BY <1>0, <1>4 DEF QueryFiles, ScanTable, serviceVars, At, Goto, TypeOK, IInv, StartShape
<1>5. CASE \E c \in Calls : DeleteBatch(c) \/ DeleteLast(c)
  BY <1>0, <1>5, DeleteShape DEF TypeOK, DeleteSent
<1>6. CASE CreateTable \/ Crash \/ (\E c \in Calls : ListFails(c) \/ ReadFails(c)) \/ UNCHANGED vars
  BY <1>6, OtherSteps
<1> QED BY <1>1, <1>2, <1>3, <1>4, <1>5, <1>6, StepGroups

\* Once a key is in the table it is there until a delete or a removal takes it.
LEMMA KeyStays ==
  ASSUME IInv, [Next]_vars, NEW r, Listed(r) \/ Removed(r)
  PROVE  Listed(r)' \/ Removed(r)'
<1>1. CASE Removed(r)
  <2>1. PICK d \in Calls :
          \/ task[d].op = "delete" /\ pc[d] = "done" /\ SameKey(OwnRecord(d), r)
          \/ task[d].op = "remove" /\ \E q \in found[d] : SameKey(q, r)
    BY <1>1 DEF Removed
  <2>2. /\ task' = task /\ (pc[d] = "done" => pc'[d] = "done")
        /\ task[d].op = "remove" => found[d] \subseteq found'[d]
    BY Lasting
  <2> QED BY <2>1, <2>2 DEF Removed, OwnRecord, RecordOf, SameKey
<1>2. CASE Listed(r)
  <2>1. PICK q \in catalogue : SameKey(q, r)
    BY <1>2 DEF Listed
  <2>2. CASE catalogue' = catalogue
    BY <2>1, <2>2 DEF Listed, SameKey
  <2>3. ASSUME NEW items, catalogue' = Put(items) PROVE Listed(r)'
    BY <2>1, <2>3 DEF Listed, SameKey, Put
  <2>4. ASSUME NEW c \in Calls, task[c].op = "delete", pc'[c] = "done", catalogue' = Delete({OwnRecord(c)})
        PROVE  Listed(r)' \/ Removed(r)'
    <3>1. CASE q \in catalogue'
      BY <2>1, <3>1 DEF Listed, SameKey
    <3>2. CASE q \notin catalogue'
      <4>1. SameKey(OwnRecord(c), r)
        BY <2>1, <2>4, <3>2 DEF Delete, SameKey
      <4>2. task' = task
        BY Lasting
      <4> QED BY <2>4, <4>1, <4>2 DEF Removed, OwnRecord, RecordOf, SameKey
    <3> QED BY <3>1, <3>2
  <2>5. ASSUME NEW c \in Calls, NEW items \in SUBSET (todo[c] \cup batch[c]), task[c].op = "remove",
               catalogue' = Delete(items)
        PROVE  Listed(r)' \/ Removed(r)'
    <3>1. CASE q \in catalogue'
      BY <2>1, <3>1 DEF Listed, SameKey
    <3>2. CASE q \notin catalogue'
      <4>1. PICK p \in items : SameKey(q, p)
        BY <2>1, <2>5, <3>2 DEF Delete
      <4>2. PICK f \in found[c] : SameKey(f, p)
        BY <2>5 DEF IInv, RemoveShape
      <4>3. SameKey(f, r)
        BY <2>1, <4>1, <4>2 DEF SameKey
      <4>4. task' = task /\ found[c] \subseteq found'[c]
        BY <2>5, Lasting
      <4> QED BY <2>5, <4>2, <4>3, <4>4 DEF Removed, SameKey
    <3> QED BY <3>1, <3>2
  <2> QED BY <2>2, <2>3, <2>4, <2>5, TableSteps DEF TableChange
<1> QED BY <1>1, <1>2

\* The object of an upload is there before its record is put, unless S3 did not take it.
ObjectFirst ==
  \A c \in Calls : task[c].op = "upload" /\ pc[c] = "index" =>
    c \in unwritten \/ <<task[c].tenant, task[c].resource, task[c].names>> \in objects

UploadInv == UploadedIsListed /\ ObjectFirst

UploadChange ==
  /\ ObjectFirst'
  /\ \A r \in catalogue' : r.by \in Calls /\ task'[r.by].op = "upload" =>
       r.by \in unwritten' \/ <<r.tenant, r.resource, {r.name}>> \in objects'
  /\ \A d \in Calls : answer'[d] = "ok" /\ task[d].op \in {"upload", "put"} =>
       answer[d] = "ok" \/ OwnRecord(d) \in catalogue'

LEMMA UploadSteps ==
  ASSUME IInv, UploadInv, NEW c \in Calls,
         StoreUpload(c) \/ StoreFails(c) \/ PutUpload(c) \/ PutMeta(c) \/ DeleteMeta(c)
  PROVE  UploadChange
<1>0. TypeOK /\ task' = task
  BY DEF IInv, StoreUpload, StoreFails, PutUpload, PutMeta, DeleteMeta, Fails
<1>1. unwritten \subseteq unwritten' /\ objects \subseteq objects'
  BY DEF StoreUpload, StoreFails, PutUpload, PutMeta, DeleteMeta, Fails, serviceVars
<1>2. ObjectFirst'
  <2> SUFFICES ASSUME NEW d \in Calls, task[d].op = "upload", pc'[d] = "index"
               PROVE  d \in unwritten' \/ <<task[d].tenant, task[d].resource, task[d].names>> \in objects'
    BY <1>0 DEF ObjectFirst
  <2>1. CASE pc[d] = "index"
    BY <1>1, <2>1 DEF UploadInv, ObjectFirst
  <2>2. CASE pc[d] # "index"
    <3>1. StoreUpload(c) /\ d = c
      BY <1>0, <2>2 DEF TypeOK, StoreUpload, StoreFails, PutUpload, PutMeta, DeleteMeta, Fails, Answer, Goto
    <3> QED BY <3>1 DEF StoreUpload
  <2> QED BY <2>1, <2>2
<1>3. \A r \in catalogue' : r \in catalogue \/ (r = OwnRecord(c) /\ (PutUpload(c) \/ PutMeta(c)))
  BY DEF StoreUpload, StoreFails, PutUpload, PutMeta, DeleteMeta, Fails, serviceVars, Put, Delete
<1>4. ASSUME NEW r \in catalogue', r.by \in Calls, task[r.by].op = "upload"
      PROVE  r.by \in unwritten' \/ <<r.tenant, r.resource, {r.name}>> \in objects'
  <2>1. CASE r \in catalogue
    BY <1>1, <1>4, <2>1 DEF UploadInv, UploadedIsListed
  <2>2. CASE r = OwnRecord(c) /\ (PutUpload(c) \/ PutMeta(c))
    <3>1. task[c].op \in {"upload", "put"}
      BY <2>2 DEF PutUpload, PutMeta, At
    <3>2. /\ r.by = c /\ r.tenant = task[c].tenant /\ r.resource = task[c].resource
          /\ task[c].names = {r.name}
      BY <1>0, <2>2, <3>1, OwnRecordType DEF TypeOK
    <3>3. pc[c] = "index"
      BY <1>4, <2>2, <3>2 DEF PutUpload, PutMeta, At
    <3> QED BY <1>1, <1>4, <3>2, <3>3 DEF UploadInv, ObjectFirst
  <2> QED BY <1>3, <2>1, <2>2
<1>5. ASSUME NEW d \in Calls, answer'[d] = "ok", task[d].op \in {"upload", "put"}, answer[d] # "ok"
      PROVE  OwnRecord(d) \in catalogue'
  <2>1. d = c /\ (PutUpload(c) \/ PutMeta(c))
    BY <1>0, <1>5 DEF TypeOK, StoreUpload, StoreFails, PutUpload, PutMeta, DeleteMeta, Fails, Answer, Goto,
                      At, OneAnswer
  <2>2. catalogue' = Put({OwnRecord(c)})
    BY <1>0, <1>5, <2>1 DEF TypeOK, PutUpload, PutMeta, Answer, OneAnswer, OutcomeOfOne
  <2> QED BY <2>1, <2>2 DEF Put
<1> QED BY <1>0, <1>2, <1>4, <1>5 DEF UploadChange

LEMMA UploadChanges ==
  ASSUME IInv, UploadInv, [Next]_vars
  PROVE  UploadChange
<1>0. TypeOK /\ task' = task
  BY Lasting DEF IInv
<1>1. CASE \E c \in Calls : StoreUpload(c) \/ StoreFails(c) \/ PutUpload(c) \/ PutMeta(c) \/ DeleteMeta(c)
  BY <1>1, UploadSteps
<1>2. ASSUME objects' = objects, unwritten' = unwritten,
             \A r \in catalogue' : r \in catalogue \/ (r.by \in Calls /\ task[r.by].op # "upload"),
             \A d \in Calls : task[d].op = "upload" /\ pc'[d] = "index" => pc[d] = "index",
             \A d \in Calls : answer'[d] = "ok" /\ task[d].op \in {"upload", "put"} => answer[d] = "ok"
      PROVE  UploadChange
  BY <1>0, <1>2 DEF UploadChange, UploadInv, UploadedIsListed, ObjectFirst
<1>3. CASE \E c \in Calls : ListPage(c)
  <2>1. PICK c \in Calls : ListPage(c)
    BY <1>3
  <2> QED BY <1>0, <1>2, <2>1, PageShape DEF TypeOK
<1>4. CASE \E c \in Calls : PutBatch(c) \/ PutLast(c)
  <2>1. PICK c \in Calls : PutBatch(c) \/ PutLast(c)
    BY <1>4
  <2>2. PICK items, done \in SUBSET todo[c] : PutSent(c, items, done)
    BY <2>1, PutShape
  <2>3. task[c].op = "import" /\ objects' = objects /\ unwritten' = unwritten
    BY <2>1, PutShape
  <2>4. \A r \in done : r.by = c
    BY <2>3, ImportKeys
  <2>5. \A r \in catalogue' : r \in catalogue \/ (r.by \in Calls /\ task[r.by].op # "upload")
    BY <2>2, <2>3, <2>4 DEF PutSent, Put
  <2>6. \A d \in Calls : /\ task[d].op = "upload" /\ pc'[d] = "index" => pc[d] = "index"
                         /\ answer'[d] = "ok" /\ task[d].op \in {"upload", "put"} => answer[d] = "ok"
    BY <1>0, <2>2, <2>3 DEF PutSent, TypeOK
  <2> QED BY <1>2, <2>3, <2>5, <2>6
<1>5. CASE \E c \in Calls : QueryFiles(c) \/ ScanTable(c)
  <2>1. PICK c \in Calls : QueryFiles(c) \/ ScanTable(c)
    BY <1>5
  <2>2. /\ UNCHANGED <<catalogue, objects, unwritten, answer>>
        /\ \A d \in Calls : pc'[d] = "index" => pc[d] = "index"
    BY <1>0, <2>1 DEF QueryFiles, ScanTable, Goto, serviceVars, TypeOK
  <2> QED BY <1>2, <2>2
<1>6. CASE \E c \in Calls : DeleteBatch(c) \/ DeleteLast(c)
  <2>1. PICK c \in Calls : DeleteBatch(c) \/ DeleteLast(c)
    BY <1>6
  <2>2. PICK items, done, kept \in SUBSET Rest(c), left \in SUBSET todo[c] :
          DeleteSent(c, items, done, kept, left)
    BY <2>1, DeleteShape
  <2>3. task[c].op = "remove" /\ objects' = objects /\ unwritten' = unwritten
    BY <2>1, DeleteShape
  <2>4. catalogue' \subseteq catalogue
    BY <2>2 DEF DeleteSent, Delete
  <2>5. \A d \in Calls : /\ task[d].op = "upload" /\ pc'[d] = "index" => pc[d] = "index"
                         /\ answer'[d] = "ok" /\ task[d].op \in {"upload", "put"} => answer[d] = "ok"
    BY <1>0, <2>2, <2>3 DEF DeleteSent, TypeOK
  <2> QED BY <1>2, <2>3, <2>4, <2>5
<1>7. CASE CreateTable \/ Crash \/ (\E c \in Calls : ListFails(c) \/ ReadFails(c)) \/ UNCHANGED vars
  <2>1. UNCHANGED <<catalogue, objects, unwritten>>
    BY <1>7, OtherSteps
  <2>2. \A d \in Calls : /\ pc'[d] = "index" => pc[d] = "index"
                         /\ answer'[d] = "ok" => answer[d] = "ok"
    BY <1>7, OtherSteps
  <2> QED BY <1>2, <2>1, <2>2
<1> QED BY <1>1, <1>3, <1>4, <1>5, <1>6, <1>7, StepGroups

LEMMA UploadNext == IInv /\ UploadInv /\ [Next]_vars => UploadInv'
<1> SUFFICES ASSUME IInv, UploadInv, [Next]_vars PROVE UploadInv'
  OBVIOUS
<1>0. task' = task
  BY Lasting
<1>1. UploadChange
  BY UploadChanges
<1>2. ASSUME NEW d \in Calls, task[d].op \in {"upload", "put"}, answer'[d] = "ok"
      PROVE  Listed(OwnRecord(d))' \/ Removed(OwnRecord(d))'
  <2>1. OwnRecord(d)' = OwnRecord(d)
    BY <1>0 DEF OwnRecord, RecordOf
  <2>2. CASE answer[d] = "ok"
    <3>1. Listed(OwnRecord(d)) \/ Removed(OwnRecord(d))
      BY <1>2, <2>2 DEF UploadInv, UploadedIsListed
    <3> DEFINE r == OwnRecord(d)
    <3> HIDE DEF r
    <3> QED BY <2>1, <3>1, KeyStays DEF r, Listed, Removed
  <2>3. CASE OwnRecord(d) \in catalogue'
    BY <2>1, <2>3 DEF Listed, SameKey
  <2> QED BY <1>1, <1>2, <2>2, <2>3 DEF UploadChange
<1> QED BY <1>0, <1>1, <1>2 DEF UploadInv, UploadedIsListed, UploadChange

\* For all calls and tasks: a call about one file that was answered "Uploaded and Indexed"
\* has a record of its key in the table until another call takes it out, and a record that
\* an upload put was put after its object (uploadFile of StorageResource).
THEOREM UploadsListed == Spec => []UploadedIsListed
<1>1. Init => UploadInv
  BY CatalogueAssumption DEF Init, UploadInv, UploadedIsListed, ObjectFirst, CatalogueAssumption, Record
<1>2. UploadInv => UploadedIsListed
  BY DEF UploadInv
<1> QED BY <1>1, <1>2, InitShape, NextShape, UploadNext, PTL DEF Spec

-----------------------------------------------------------------------------
(* Removals *)

\* A record that its call has put and will not put again.
Spent(r) ==
  r.by \in Calls =>
    \/ pc[r.by] = "done"
    \/ task[r.by].op = "import" /\ pc[r.by] = "put" /\ r \notin todo[r.by]

\* What is in the table or was found there is spent: a record that comes into the table
\* later is not one that a removal has found.
AllSpent ==
  /\ \A r \in catalogue : Spent(r)
  /\ \A c \in Calls : task[c].op = "remove" => \A r \in found[c] : Spent(r)

\* What a removal at work has found and is still in the table is in hand or missed.
InHand ==
  \A c \in Calls : task[c].op = "remove" /\ pc[c] = "delete" =>
    found[c] \cap catalogue \subseteq todo[c] \cup batch[c] \cup missed[c]

RemoveInv == AllSpent /\ InHand /\ RemoveComplete /\ (\A c \in Calls : answer[c] = "ok" => pc[c] = "done")

\* Only new records come into the table, and each is spent when it does.
LEMMA NewRecords ==
  ASSUME IInv, [Next]_vars
  PROVE  /\ \A r \in catalogue' \ catalogue : ~Spent(r) /\ Spent(r)'
         /\ \A r \in AnyRecord : Spent(r) => Spent(r)'
<1>0. TypeOK /\ task' = task
  BY Lasting DEF IInv
<1>1. CASE \E c \in Calls : StoreUpload(c) \/ StoreFails(c) \/ PutUpload(c) \/ PutMeta(c) \/ DeleteMeta(c)
  <2>1. PICK c \in Calls : StoreUpload(c) \/ StoreFails(c) \/ PutUpload(c) \/ PutMeta(c) \/ DeleteMeta(c)
    BY <1>1
  <2>2. /\ task[c].op \in {"upload", "put", "delete"} /\ pc[c] # "done" /\ todo' = todo
        /\ \A d \in Calls : d # c => pc'[d] = pc[d]
        /\ \A r \in catalogue' \ catalogue : r = OwnRecord(c) /\ pc'[c] = "done"
    BY <1>0, <2>1 DEF StoreUpload, StoreFails, PutUpload, PutMeta, DeleteMeta, Fails, serviceVars, Put, Delete,
                      At, Answer, Goto, TypeOK
  <2>3. OwnRecord(c).by = c
    BY <1>0, <2>2, OwnRecordType DEF TypeOK
  <2> QED BY <1>0, <2>2, <2>3 DEF Spent
<1>2. CASE \E c \in Calls : ListPage(c)
  <2>1. PICK c \in Calls : ListPage(c)
    BY <1>2
  <2>2. /\ catalogue' = catalogue /\ pc[c] \in {"start", "page"}
        /\ \A d \in Calls : d # c => pc'[d] = pc[d] /\ todo'[d] = todo[d]
    BY <1>0, <2>1, PageShape DEF TypeOK
  <2> QED BY <1>0, <2>2 DEF Spent
<1>3. CASE \E c \in Calls : PutBatch(c) \/ PutLast(c)
  <2>1. PICK c \in Calls : PutBatch(c) \/ PutLast(c)
    BY <1>3
  <2>2. PICK items, done \in SUBSET todo[c] : PutSent(c, items, done)
    BY <2>1, PutShape
  <2>3. task[c].op = "import" /\ pc[c] = "put"
    BY <2>1, PutShape
  <2>4. \A r \in done : r.by = c
    BY <2>3, ImportKeys
  <2>5. /\ \A r \in catalogue' \ catalogue : r \in done
        /\ done \subseteq items
        /\ todo'[c] = todo[c] \ items
        /\ pc'[c] \in {"put", "done"}
        /\ \A d \in Calls : d # c => pc'[d] = pc[d] /\ todo'[d] = todo[d]
    BY <1>0, <2>2, <2>3 DEF PutSent, Put, TypeOK
  <2> QED BY <1>0, <2>3, <2>4, <2>5 DEF Spent
<1>4. CASE \E c \in Calls : QueryFiles(c) \/ ScanTable(c)
  <2>1. PICK c \in Calls : QueryFiles(c) \/ ScanTable(c)
    BY <1>4
  <2>2. /\ catalogue' = catalogue /\ pc[c] \in {"start", "scan"}
        /\ \A d \in Calls : d # c => pc'[d] = pc[d] /\ todo'[d] = todo[d]
    BY <1>0, <2>1 DEF QueryFiles, ScanTable, Goto, serviceVars, At, TypeOK
  <2> QED BY <1>0, <2>2 DEF Spent
<1>5. CASE \E c \in Calls : DeleteBatch(c) \/ DeleteLast(c)
  <2>1. PICK c \in Calls : DeleteBatch(c) \/ DeleteLast(c)
    BY <1>5
  <2>2. PICK items, done, kept \in SUBSET Rest(c), left \in SUBSET todo[c] :
          DeleteSent(c, items, done, kept, left)
    BY <2>1, DeleteShape
  <2>3. task[c].op = "remove" /\ pc[c] = "delete"
    BY <2>1, DeleteShape
  <2>4. /\ catalogue' \subseteq catalogue
        /\ \A d \in Calls : d # c => pc'[d] = pc[d] /\ todo'[d] = todo[d]
    BY <1>0, <2>2 DEF DeleteSent, Delete, TypeOK
  <2> QED BY <1>0, <2>3, <2>4 DEF Spent
<1>6. CASE CreateTable \/ Crash \/ (\E c \in Calls : ListFails(c) \/ ReadFails(c)) \/ UNCHANGED vars
  BY <1>0, <1>6, OtherSteps DEF Spent
<1> QED BY <1>1, <1>2, <1>3, <1>4, <1>5, <1>6, StepGroups

\* What a step of something else leaves of a removal: what it found stays found, and
\* nothing that it found comes back.
LEMMA FoundStays ==
  ASSUME IInv, AllSpent, [Next]_vars, NEW c \in Calls, task[c].op = "remove", found'[c] = found[c]
  PROVE  found'[c] \cap catalogue' \subseteq found[c] \cap catalogue
BY NewRecords DEF AllSpent

\* Who is answered is done.
LEMMA AnswerStays ==
  ASSUME IInv, [Next]_vars, \A c \in Calls : answer[c] = "ok" => pc[c] = "done"
  PROVE  \A c \in Calls : answer'[c] = "ok" => pc'[c] = "done"
<1>0. TypeOK
  BY DEF IInv
<1>1. CASE \E c \in Calls : StoreUpload(c) \/ StoreFails(c) \/ PutUpload(c) \/ PutMeta(c) \/ DeleteMeta(c)
  BY <1>0, <1>1 DEF StoreUpload, StoreFails, PutUpload, PutMeta, DeleteMeta, Fails, Answer, Goto, At, TypeOK
<1>2. CASE \E c \in Calls : ListPage(c)
  BY <1>0, <1>2, PageShape DEF TypeOK
<1>3. CASE \E c \in Calls : PutBatch(c) \/ PutLast(c)
  BY <1>0, <1>3, PutShape DEF TypeOK, PutSent
<1>4. CASE \E c \in Calls : QueryFiles(c) \/ ScanTable(c)
  BY <1>0, <1>4 DEF QueryFiles, ScanTable, Goto, At, TypeOK
<1>5. CASE \E c \in Calls : DeleteBatch(c) \/ DeleteLast(c)
  BY <1>0, <1>5, DeleteShape DEF TypeOK, DeleteSent
<1>6. CASE CreateTable \/ Crash \/ (\E c \in Calls : ListFails(c) \/ ReadFails(c)) \/ UNCHANGED vars
  BY <1>6, OtherSteps
<1> QED BY <1>1, <1>2, <1>3, <1>4, <1>5, <1>6, StepGroups

LEMMA RemoveNext == IInv /\ RemoveInv /\ [Next]_vars => RemoveInv'
<1> SUFFICES ASSUME IInv, RemoveInv, [Next]_vars PROVE RemoveInv'
  OBVIOUS
<1>0. TypeOK /\ task' = task /\ IInv'
  BY Lasting, NextShape DEF IInv
<1>1. AllSpent'
  <2>1. \A r \in catalogue' : Spent(r)'
    BY <1>0, NewRecords DEF RemoveInv, AllSpent, TypeOK
  <2>2. ASSUME NEW c \in Calls, task[c].op = "remove" PROVE \A r \in found'[c] : Spent(r)'
    <3>1. found'[c] \subseteq found[c] \cup catalogue
      <4>1. CASE \E d \in Calls : StoreUpload(d) \/ StoreFails(d) \/ PutUpload(d) \/ PutMeta(d) \/ DeleteMeta(d)
        BY <4>1 DEF StoreUpload, StoreFails, PutUpload, PutMeta, DeleteMeta, Fails, Answer
      <4>2. CASE \E d \in Calls : ListPage(d)
        BY <1>0, <2>2, <4>2, PageShape DEF TypeOK
      <4>3. CASE \E d \in Calls : PutBatch(d) \/ PutLast(d)
        BY <4>3, PutShape
      <4>4. CASE \E d \in Calls : QueryFiles(d) \/ ScanTable(d)
        BY <1>0, <4>4 DEF QueryFiles, ScanTable, TypeOK
      <4>5. CASE \E d \in Calls : DeleteBatch(d) \/ DeleteLast(d)
        BY <4>5, DeleteShape
      <4>6. CASE CreateTable \/ Crash \/ (\E d \in Calls : ListFails(d) \/ ReadFails(d)) \/ UNCHANGED vars
        BY <4>6, OtherSteps
      <4> QED BY <4>1, <4>2, <4>3, <4>4, <4>5, <4>6, StepGroups
    <3>2. \A r \in found[c] \cup catalogue : Spent(r) /\ r \in AnyRecord
      BY <1>0, <2>2 DEF RemoveInv, AllSpent, TypeOK
    <3> QED BY <3>1, <3>2, NewRecords
  <2> QED BY <1>0, <2>1, <2>2 DEF AllSpent
<1> DEFINE Kept(c) ==
      /\ pc'[c] = "delete" => found'[c] \cap catalogue' \subseteq todo'[c] \cup batch'[c] \cup missed'[c]
      /\ answer'[c] = "ok" => pc'[c] = "done" /\ found'[c] \cap catalogue' \subseteq missed'[c]
\* A step that is not one of the removal's own.
<1>2. ASSUME NEW c \in Calls, task[c].op = "remove",
             found'[c] = found[c], todo'[c] = todo[c], batch'[c] = batch[c], missed'[c] = missed[c],
             pc'[c] = "delete" => pc[c] = "delete",
             pc[c] = "done" => pc'[c] = "done",
             answer'[c] = "ok" => answer[c] = "ok"
      PROVE  Kept(c)
  <2>1. found'[c] \cap catalogue' \subseteq found[c] \cap catalogue
    BY <1>2, FoundStays DEF RemoveInv
  <2> QED BY <1>2, <2>1 DEF RemoveInv, InHand, RemoveComplete
<1>3. ASSUME NEW c \in Calls, task[c].op = "remove" PROVE Kept(c)
  <2>1. CASE \E d \in Calls : StoreUpload(d) \/ StoreFails(d) \/ PutUpload(d) \/ PutMeta(d) \/ DeleteMeta(d)
    <3>1. PICK d \in Calls : StoreUpload(d) \/ StoreFails(d) \/ PutUpload(d) \/ PutMeta(d) \/ DeleteMeta(d)
      BY <2>1
    <3>2. d # c
      BY <1>3, <3>1 DEF StoreUpload, StoreFails, PutUpload, PutMeta, DeleteMeta, At
    <3>3. /\ UNCHANGED <<found, todo, batch, missed>>
          /\ pc'[c] = pc[c] /\ answer'[c] = answer[c]
      BY <1>0, <3>1, <3>2 DEF StoreUpload, StoreFails, PutUpload, PutMeta, DeleteMeta, Fails, Answer, Goto, TypeOK
    <3> QED BY <1>2, <1>3, <3>3
  <2>2. CASE \E d \in Calls : ListPage(d)
    <3>1. PICK d \in Calls : ListPage(d)
      BY <2>2
    <3>2. d # c /\ UNCHANGED <<batch, missed, answer>>
      BY <1>3, <3>1, PageShape
    <3>3. found'[c] = found[c] /\ todo'[c] = todo[c] /\ pc'[c] = pc[c]
      BY <1>0, <3>1, <3>2, PageShape DEF TypeOK
    <3> QED BY <1>2, <1>3, <3>2, <3>3
  <2>3. CASE \E d \in Calls : PutBatch(d) \/ PutLast(d)
    <3>1. PICK d \in Calls : PutBatch(d) \/ PutLast(d)
      BY <2>3
    <3>2. d # c /\ UNCHANGED <<batch, found>>
      BY <1>3, <3>1, PutShape
    <3>3. PICK items, done \in SUBSET todo[d] : PutSent(d, items, done)
      BY <3>1, PutShape
    <3>4. missed'[c] = missed[c] /\ todo'[c] = todo[c] /\ pc'[c] = pc[c] /\ answer'[c] = answer[c]
      BY <1>0, <3>2, <3>3 DEF TypeOK, PutSent
    <3> QED BY <1>2, <1>3, <3>2, <3>4
  <2>4. CASE \E d \in Calls : QueryFiles(d) \/ ScanTable(d)
    <3>1. PICK d \in Calls : QueryFiles(d) \/ ScanTable(d)
      BY <2>4
    <3>2. UNCHANGED <<batch, missed, answer, catalogue>>
      BY <3>1 DEF QueryFiles, ScanTable, Goto, serviceVars
    <3>3. CASE d # c
      <4>1. found'[c] = found[c] /\ todo'[c] = todo[c] /\ pc'[c] = pc[c]
        BY <1>0, <3>1, <3>3 DEF TypeOK, QueryFiles, ScanTable, Goto
      <4> QED BY <1>2, <1>3, <3>2, <4>1
    <3>4. CASE d = c
      <4>1. pc[c] # "done" /\ answer[c] # "ok"
        BY <3>1, <3>4 DEF QueryFiles, ScanTable, At, RemoveInv
      <4>2. CASE QueryFiles(c)
        BY <1>0, <3>2, <4>1, <4>2 DEF QueryFiles, Goto, TypeOK
      <4>3. CASE ScanTable(c)
        <5>1. todo'[c] = FoundFiles(c) /\ found' = found
          BY <1>0, <4>3 DEF ScanTable, TypeOK
        <5>2. found[c] \cap catalogue \subseteq FoundFiles(c)
          BY DEF FoundFiles, SameFile, SameKey
        <5> QED BY <3>2, <4>1, <5>1, <5>2
      <4> QED BY <3>1, <3>4, <4>2, <4>3
    <3> QED BY <3>3, <3>4
  <2>5. CASE \E d \in Calls : DeleteBatch(d) \/ DeleteLast(d)
    <3>1. PICK d \in Calls : DeleteBatch(d) \/ DeleteLast(d)
      BY <2>5
    <3>2. PICK items, done, kept \in SUBSET Rest(d), left \in SUBSET todo[d] :
            DeleteSent(d, items, done, kept, left)
      BY <3>1, DeleteShape
    <3>3. pc[d] = "delete" /\ found' = found
      BY <3>1, DeleteShape
    <3>4. CASE d # c
      <4>1. /\ batch'[c] = batch[c] /\ missed'[c] = missed[c] /\ todo'[c] = todo[c]
            /\ pc'[c] = pc[c] /\ answer'[c] = answer[c]
        BY <1>0, <3>2, <3>4 DEF TypeOK, DeleteSent
      <4> QED BY <1>2, <1>3, <3>3, <4>1
    <3>5. CASE d = c
      <4>1. found[c] \cap catalogue \subseteq items \cup left \cup missed[c]
        BY <1>3, <3>2, <3>3, <3>5 DEF RemoveInv, InHand, DeleteSent, Rest
      <4>2. found'[c] \cap catalogue' \subseteq (items \ done) \cup left \cup missed[c]
        BY <3>2, <3>3, <3>5, <4>1 DEF DeleteSent, Delete, SameKey
      <4>3. answer[c] # "ok" /\ todo'[c] = left /\ batch'[c] = kept
        BY <1>0, <3>2, <3>3, <3>5 DEF RemoveInv, DeleteSent, TypeOK
      <4>4. \/ /\ pc'[c] = "delete" /\ answer'[c] = answer[c]
               /\ items \ kept \subseteq done \cup missed'[c] /\ missed[c] \subseteq missed'[c]
            \/ pc'[c] = "done" /\ left = {} /\ missed'[c] = missed[c] \cup (items \ done)
        BY <1>0, <3>2, <3>3, <3>5 DEF DeleteSent, TypeOK
      <4> QED BY <4>2, <4>3, <4>4
    <3> QED BY <3>4, <3>5
  <2>6. CASE CreateTable \/ Crash \/ (\E d \in Calls : ListFails(d) \/ ReadFails(d)) \/ UNCHANGED vars
    BY <1>2, <1>3, <2>6, OtherSteps
  <2> QED BY <2>1, <2>2, <2>3, <2>4, <2>5, <2>6, StepGroups
<1>4. ASSUME NEW c \in Calls, answer'[c] = "ok" PROVE pc'[c] = "done"
  BY <1>4, AnswerStays DEF RemoveInv
<1> HIDE DEF Kept
<1>5. InHand' /\ RemoveComplete'
  BY <1>0, <1>3 DEF InHand, RemoveComplete, Kept
<1> QED BY <1>1, <1>4, <1>5 DEF RemoveInv

\* For all calls, tables and batch sizes: a removal that was answered has deleted what it
\* found, but for what the service left undone or what was put again since (deleteList,
\* which keeps a batch that failed).
THEOREM RemovalsComplete == Spec => []RemoveComplete
<1>1. Init => RemoveInv
  BY CatalogueAssumption DEF Init, RemoveInv, AllSpent, Spent, InHand, RemoveComplete, CatalogueAssumption, Record
<1>2. RemoveInv => RemoveComplete
  BY DEF RemoveInv
<1> QED BY <1>1, <1>2, InitShape, NextShape, RemoveNext, PTL DEF Spec

-----------------------------------------------------------------------------
(* Imports *)

Under(c) == task[c].prefix \cap DOMAIN Bucket[task[c].resource]

\* A listing has returned all keys under its prefix before the ones it has yet to return,
\* and the results are those of them that match.
ListingInOrder ==
  \A c \in Calls : task[c].op = "import" =>
    /\ pc[c] = "page" => \A n \in Under(c) \ listed[c] : \A m \in listed[c] : m < n
    /\ \A n \in listed[c] \cap task[c].names : RecordOf(c, n) \in found[c]

\* An import that puts its results has put each of them, or will, or has missed it.
ResultsKept ==
  \A c \in Calls : task[c].op = "import" =>
    /\ pc[c] = "put" => \A r \in Wanted(c) : Listed(r) \/ Removed(r) \/ r \in missed[c] \/ r \in todo[c]
    /\ answer[c] = "ok" => \A r \in Wanted(c) : Listed(r) \/ Removed(r) \/ r \in missed[c]

ImportInv == ListingInOrder /\ ResultsKept

\* The first n of a set of numbers come before the others.
LEMMA FirstKeys ==
  ASSUME NEW rest \in SUBSET Names, NEW n \in Nat,
         NEW k \in FirstOf(rest, n, ByKey), NEW m \in rest \ FirstOf(rest, n, ByKey)
  PROVE  k < m
<1> DEFINE Lower(x) == {q \in rest : q < x}
<1>1. IsFiniteSet(rest)
  BY CatalogueAssumption, FS_Subset DEF CatalogueAssumption
<1>2. k \in Nat /\ m \in Nat
  BY CatalogueAssumption DEF CatalogueAssumption, FirstOf
<1>3. Cardinality(Lower(k)) < n /\ ~(Cardinality(Lower(m)) < n)
  BY DEF FirstOf, ByKey
<1>4. ASSUME m <= k PROVE FALSE
  <2>1. Lower(m) \subseteq Lower(k)
    <3>1. rest \subseteq Nat
      BY CatalogueAssumption DEF CatalogueAssumption
    <3>2. ASSUME NEW q \in rest, q < m PROVE q < k
      <4>1. q \in Nat
        BY <3>1
      <4> QED BY <1>2, <1>4, <3>2, <4>1
    <3> QED BY <3>2
  <2>2. IsFiniteSet(Lower(k))
    BY <1>1, FS_Subset
  <2>3. Cardinality(Lower(m)) <= Cardinality(Lower(k)) /\ IsFiniteSet(Lower(m))
    BY <2>1, <2>2, FS_Subset
  <2>4. Cardinality(Lower(m)) \in Nat /\ Cardinality(Lower(k)) \in Nat
    BY <2>2, <2>3, FS_CardinalityType
  <2> QED BY <1>3, <2>3, <2>4
<1> QED BY <1>2, <1>4

\* A page continues the listing in order, and the last one ends it.
LEMMA PageOrder ==
  ASSUME IInv, ImportInv, NEW c \in Calls, ListPage(c)
  PROVE  /\ \A n \in listed'[c] \cap task[c].names : RecordOf(c, n) \in found'[c]
         /\ pc'[c] = "page" => \A n \in Under(c) \ listed'[c] : \A m \in listed'[c] : m < n
         /\ pc'[c] = "put" => todo'[c] = found'[c] /\ Under(c) \subseteq listed'[c]
<1> DEFINE keys == DOMAIN Bucket[task[c].resource]
           scope == IF pc[c] = "start" THEN task[c].prefix ELSE Names
           rest == {n \in scope \cap keys : \A m \in listed[c] : m < n}
           page == FirstOf(rest, PageSize, ByKey)
<1>1. task[c].op = "import" /\ pc[c] \in {"start", "page"} /\ TypeOK
  BY PageShape DEF IInv
<1>2. task[c].prefix \subseteq Names /\ keys \subseteq Names /\ listed[c] \subseteq Names
  <2>1. task[c] \in Tasks /\ task[c] \in Task
    BY <1>1, CatalogueAssumption DEF CatalogueAssumption, TypeOK
  <2>2. task[c].resource \in DOMAIN Bucket
    BY <1>1, <2>1, CatalogueAssumption DEF CatalogueAssumption
  <2> QED BY <1>1, <2>1, <2>2, CatalogueAssumption DEF CatalogueAssumption, Task, TypeOK
<1>3. \A n \in Under(c) \ listed[c] : n \in rest
  <2>1. CASE pc[c] = "start"
    BY <1>1, <2>1 DEF IInv, StartShape, Under
  <2>2. CASE pc[c] = "page"
    BY <1>1, <1>2, <2>2 DEF ImportInv, ListingInOrder, Under
  <2> QED BY <1>1, <2>1, <2>2
<1>4. /\ listed' = [listed EXCEPT ![c] = @ \cup page]
      /\ found' = [found EXCEPT ![c] = found[c] \cup {RecordOf(c, n) : n \in page \cap task[c].names}]
      /\ \/ /\ rest = page /\ pc' = [pc EXCEPT ![c] = "put"]
            /\ todo' = [todo EXCEPT ![c] = found[c] \cup {RecordOf(c, n) : n \in page \cap task[c].names}]
         \/ pc' = [pc EXCEPT ![c] = "page"]
  BY DEF ListPage, Goto, AllListed
<1>5. /\ listed'[c] = listed[c] \cup page
      /\ found'[c] = found[c] \cup {RecordOf(c, n) : n \in page \cap task[c].names}
      /\ \/ rest = page /\ pc'[c] = "put" /\ todo'[c] = found'[c]
         \/ pc'[c] = "page"
  BY <1>1, <1>4 DEF TypeOK
<1>6. \A n \in rest \ page : \A m \in listed[c] \cup page : m < n
  <2>1. rest \in SUBSET Names /\ PageSize \in Nat
    BY <1>2, CatalogueAssumption DEF CatalogueAssumption
  <2> QED BY <2>1, FirstKeys
<1>7. page \subseteq rest
  BY DEF FirstOf
<1>8. \A n \in listed[c] \cap task[c].names : RecordOf(c, n) \in found[c]
  BY <1>1 DEF ImportInv, ListingInOrder
<1> HIDE DEF page, rest
<1>9. \A n \in listed'[c] \cap task[c].names : RecordOf(c, n) \in found'[c]
  BY <1>5, <1>8
<1>10. \A n \in Under(c) \ listed'[c] : n \in rest \ page
  BY <1>3, <1>5
<1> QED BY <1>5, <1>6, <1>9, <1>10

\* A step of another call, or one that neither lists nor puts, keeps what an import has.
LEMMA ImportKept ==
  ASSUME IInv, ImportInv, [Next]_vars, NEW c \in Calls, task[c].op = "import",
         listed'[c] = listed[c], found'[c] = found[c], todo'[c] = todo[c], missed'[c] = missed[c],
         pc'[c] \in {pc[c], "done"}, answer'[c] = "ok" => answer[c] = "ok"
  PROVE  /\ pc'[c] = "page" => \A n \in Under(c) \ listed'[c] : \A m \in listed'[c] : m < n
         /\ \A n \in listed'[c] \cap task[c].names : RecordOf(c, n) \in found'[c]
         /\ pc'[c] = "put" => \A r \in Wanted(c) : Listed(r)' \/ Removed(r)' \/ r \in missed'[c] \/ r \in todo'[c]
         /\ answer'[c] = "ok" => \A r \in Wanted(c) : Listed(r)' \/ Removed(r)' \/ r \in missed'[c]
<1>1. \A r : Listed(r) \/ Removed(r) => Listed(r)' \/ Removed(r)'
  BY KeyStays DEF Listed, Removed
<1> QED BY <1>1 DEF ImportInv, ListingInOrder, ResultsKept

\* What holds of one import after a step.
ImportAfter(c) ==
  /\ pc'[c] = "page" => \A n \in Under(c) \ listed'[c] : \A m \in listed'[c] : m < n
  /\ \A n \in listed'[c] \cap task[c].names : RecordOf(c, n) \in found'[c]
  /\ pc'[c] = "put" => \A r \in Wanted(c) : Listed(r)' \/ Removed(r)' \/ r \in missed'[c] \/ r \in todo'[c]
  /\ answer'[c] = "ok" => \A r \in Wanted(c) : Listed(r)' \/ Removed(r)' \/ r \in missed'[c]

LEMMA ImportStep ==
  ASSUME IInv, ImportInv, [Next]_vars, \A d \in Calls : answer[d] = "ok" => pc[d] = "done",
         NEW c \in Calls, task[c].op = "import"
  PROVE  ImportAfter(c)
<1>0. TypeOK /\ task' = task
  BY Lasting DEF IInv
<1>1. ASSUME listed'[c] = listed[c], found'[c] = found[c], todo'[c] = todo[c], missed'[c] = missed[c],
             pc'[c] \in {pc[c], "done"}, answer'[c] = "ok" => answer[c] = "ok"
      PROVE  ImportAfter(c)
  BY <1>1, ImportKept DEF ImportAfter
<1>2. CASE \E d \in Calls : StoreUpload(d) \/ StoreFails(d) \/ PutUpload(d) \/ PutMeta(d) \/ DeleteMeta(d)
  <2>1. PICK d \in Calls : StoreUpload(d) \/ StoreFails(d) \/ PutUpload(d) \/ PutMeta(d) \/ DeleteMeta(d)
    BY <1>2
  <2>2. d # c
    BY <2>1 DEF StoreUpload, StoreFails, PutUpload, PutMeta, DeleteMeta, At
  <2>3. /\ UNCHANGED <<listed, found, todo, missed>>
        /\ pc'[c] = pc[c] /\ answer'[c] = answer[c]
    BY <1>0, <2>1, <2>2 DEF StoreUpload, StoreFails, PutUpload, PutMeta, DeleteMeta, Fails, Answer, Goto, TypeOK
  <2> QED BY <1>1, <2>3
<1>3. CASE \E d \in Calls : ListPage(d)
  <2>1. PICK d \in Calls : ListPage(d)
    BY <1>3
  <2>2. CASE d # c
    <3>1. UNCHANGED <<missed, answer>>
      BY <2>1, PageShape
    <3>2. found'[c] = found[c] /\ todo'[c] = todo[c] /\ pc'[c] = pc[c] /\ listed'[c] = listed[c]
      BY <1>0, <2>1, <2>2, PageShape DEF TypeOK
    <3> QED BY <1>1, <3>1, <3>2
  <2>3. CASE d = c
    <3>1. /\ \A n \in listed'[c] \cap task[c].names : RecordOf(c, n) \in found'[c]
          /\ pc'[c] = "page" => \A n \in Under(c) \ listed'[c] : \A m \in listed'[c] : m < n
          /\ pc'[c] = "put" => todo'[c] = found'[c] /\ Under(c) \subseteq listed'[c]
      BY <2>1, <2>3, PageOrder
    <3>2. answer'[c] # "ok"
      BY <2>1, <2>3, PageShape
    <3>3. pc'[c] = "put" => \A r \in Wanted(c) : r \in todo'[c]
      BY <3>1 DEF Wanted, Under
    <3> QED BY <3>1, <3>2, <3>3 DEF ImportAfter
  <2> QED BY <2>2, <2>3
<1>4. CASE \E d \in Calls : PutBatch(d) \/ PutLast(d)
  <2>1. PICK d \in Calls : PutBatch(d) \/ PutLast(d)
    BY <1>4
  <2>2. UNCHANGED <<listed, found>> /\ pc[d] = "put"
    BY <2>1, PutShape
  <2>3. PICK items, done \in SUBSET todo[d] : PutSent(d, items, done)
    BY <2>1, PutShape
  <2>4. CASE d # c
    <3>1. missed'[c] = missed[c] /\ todo'[c] = todo[c] /\ pc'[c] = pc[c] /\ answer'[c] = answer[c]
      BY <1>0, <2>3, <2>4 DEF TypeOK, PutSent
    <3> QED BY <1>1, <2>2, <3>1
  <2>5. CASE d = c
    <3>1. /\ catalogue' = Put(done) /\ done \subseteq items
          /\ todo'[c] = todo[c] \ items
          /\ missed'[c] = missed[c] \cup (items \ done)
          /\ \/ pc'[c] = "put" /\ answer'[c] = answer[c]
             \/ pc'[c] = "done" /\ items = todo[c]
      BY <1>0, <2>2, <2>3, <2>5 DEF TypeOK, PutSent
    <3>2. \A r \in done : Listed(r)'
      BY <3>1 DEF Put, Listed, SameKey
    <3>3. \A r : Listed(r) \/ Removed(r) => Listed(r)' \/ Removed(r)'
      BY KeyStays DEF Listed, Removed
    <3>4. \A r \in Wanted(c) : Listed(r) \/ Removed(r) \/ r \in missed[c] \/ r \in todo[c]
      BY <2>2, <2>5 DEF ImportInv, ResultsKept
    <3>5. \A r \in Wanted(c) : Listed(r)' \/ Removed(r)' \/ r \in missed'[c] \/ r \in todo[c] \ items
      BY <3>1, <3>2, <3>3, <3>4
    <3>6. \A n \in listed'[c] \cap task[c].names : RecordOf(c, n) \in found'[c]
      BY <2>2 DEF ImportInv, ListingInOrder
    <3>7. pc[c] # "done" /\ answer[c] # "ok"
      BY <2>2, <2>5
    <3> QED BY <3>1, <3>5, <3>6, <3>7 DEF ImportAfter
  <2> QED BY <2>4, <2>5
<1>5. CASE \E d \in Calls : QueryFiles(d) \/ ScanTable(d)
  <2>1. PICK d \in Calls : QueryFiles(d) \/ ScanTable(d)
    BY <1>5
  <2>2. d # c /\ UNCHANGED <<listed, missed, answer>>
    BY <2>1 DEF QueryFiles, ScanTable, At, Goto
  <2>3. found'[c] = found[c] /\ todo'[c] = todo[c] /\ pc'[c] = pc[c]
    BY <1>0, <2>1, <2>2 DEF TypeOK, QueryFiles, ScanTable, Goto
  <2> QED BY <1>1, <2>2, <2>3
<1>6. CASE \E d \in Calls : DeleteBatch(d) \/ DeleteLast(d)
  <2>1. PICK d \in Calls : DeleteBatch(d) \/ DeleteLast(d)
    BY <1>6
  <2>2. d # c /\ UNCHANGED <<listed, found>>
    BY <2>1, DeleteShape
  <2>3. PICK items, done, kept \in SUBSET Rest(d), left \in SUBSET todo[d] :
          DeleteSent(d, items, done, kept, left)
    BY <2>1, DeleteShape
  <2>4. missed'[c] = missed[c] /\ todo'[c] = todo[c] /\ pc'[c] = pc[c] /\ answer'[c] = answer[c]
    BY <1>0, <2>2, <2>3 DEF TypeOK, DeleteSent
  <2> QED BY <1>1, <2>2, <2>4
<1>7. CASE CreateTable \/ Crash \/ (\E d \in Calls : ListFails(d) \/ ReadFails(d)) \/ UNCHANGED vars
  BY <1>1, <1>7, OtherSteps
<1> QED BY <1>2, <1>3, <1>4, <1>5, <1>6, <1>7, StepGroups

LEMMA ImportNext ==
  /\ IInv /\ ImportInv /\ (\A d \in Calls : answer[d] = "ok" => pc[d] = "done") /\ [Next]_vars
  => ImportInv' /\ (\A d \in Calls : answer'[d] = "ok" => pc'[d] = "done")
<1> SUFFICES ASSUME IInv, ImportInv, \A d \in Calls : answer[d] = "ok" => pc[d] = "done", [Next]_vars
             PROVE  ImportInv' /\ (\A d \in Calls : answer'[d] = "ok" => pc'[d] = "done")
  OBVIOUS
<1>1. task' = task
  BY Lasting
<1>2. \A c \in Calls : task[c].op = "import" => ImportAfter(c)
  BY ImportStep
<1>3. \A c \in Calls : /\ Under(c)' = Under(c) /\ Wanted(c)' = Wanted(c)
                       /\ \A n : RecordOf(c, n)' = RecordOf(c, n)
  BY <1>1 DEF Under, Wanted, RecordOf
<1>4. ListingInOrder'
  BY <1>1, <1>2, <1>3 DEF ListingInOrder, ImportAfter, Under, RecordOf
<1>5. ResultsKept'
  BY <1>1, <1>2, <1>3 DEF ResultsKept, ImportAfter, Wanted, RecordOf, Listed, Removed
<1>6. \A d \in Calls : answer'[d] = "ok" => pc'[d] = "done"
  BY AnswerStays
<1> QED BY <1>4, <1>5, <1>6 DEF ImportInv

\* For all buckets, pages and batch sizes: an import that answers a count has put every
\* matching object under its prefix in the table, but for the items of batches that failed
\* or were done in part (importFromStorage and putList).
THEOREM ImportsComplete == Spec => []ImportComplete
<1> DEFINE J == ImportInv /\ (\A d \in Calls : answer[d] = "ok" => pc[d] = "done")
<1>1. Init => J
  BY DEF Init, ImportInv, ListingInOrder, ResultsKept
<1>2. J => ImportComplete
  BY DEF ImportInv, ResultsKept, ImportComplete
<1>3. IInv /\ J /\ [Next]_vars => J'
  BY ImportNext
<1> QED BY <1>1, <1>2, <1>3, InitShape, NextShape, PTL DEF Spec

-----------------------------------------------------------------------------
(* The order of an import *)

\* The first n of an import's records are newer than the others.
LEMMA FirstNewest ==
  ASSUME NEW items, IsFiniteSet(items),
         \A r \in items : Time(r) \in Nat /\ r.name \in Nat,
         NEW n \in Nat,
         NEW k \in FirstOf(items, n, NewestFirst), NEW m \in items \ FirstOf(items, n, NewestFirst)
  PROVE  Time(k) >= Time(m)
<1> DEFINE Newer(x) == {q \in items : NewestFirst(q, x)}
<1>1. k \in items /\ Cardinality(Newer(k)) < n /\ ~(Cardinality(Newer(m)) < n)
  BY DEF FirstOf
<1>2. ASSUME Time(k) < Time(m) PROVE FALSE
  <2>1. Newer(m) \subseteq Newer(k)
    <3>1. ASSUME NEW q \in items, NewestFirst(q, m) PROVE NewestFirst(q, k)
      <4>1. Time(q) \in Nat /\ Time(m) \in Nat /\ Time(k) \in Nat
        BY <1>1
      <4>2. Time(q) > Time(m) \/ Time(q) = Time(m)
        BY <3>1, Zenon DEF NewestFirst
      <4>3. Time(q) > Time(k)
        BY <1>2, <4>1, <4>2
      <4> QED BY <4>3 DEF NewestFirst
    <3> QED BY <3>1
  <2>2. IsFiniteSet(Newer(k))
    BY FS_Subset
  <2>3. Cardinality(Newer(m)) <= Cardinality(Newer(k)) /\ IsFiniteSet(Newer(m))
    BY <2>1, <2>2, FS_Subset
  <2>4. Cardinality(Newer(m)) \in Nat /\ Cardinality(Newer(k)) \in Nat
    BY <2>2, <2>3, FS_CardinalityType
  <2> QED BY <1>1, <2>3, <2>4
<1> QED BY <1>1, <1>2


\* What an import puts is finite, and has times and names to be sorted by.
LEMMA ImportSortable ==
  ASSUME IInv, NEW c \in Calls, task[c].op = "import"
  PROVE  /\ IsFiniteSet(todo[c])
         /\ \A r \in todo[c] : Time(r) \in Nat /\ r.name \in Nat
<1> DEFINE all == [n \in Names |-> RecordOf(c, n)]
           T == {all[n] : n \in Names}
<1>1. /\ task[c].resource \in DOMAIN Bucket /\ IsFiniteSet(Names) /\ Names \subseteq Nat
      /\ listed[c] \subseteq Names /\ todo[c] \subseteq found[c]
  BY CatalogueAssumption DEF CatalogueAssumption, IInv, TypeOK, ImportShape
<1>2. \A r \in found[c] :
        \E n \in listed[c] \cap DOMAIN Bucket[task[c].resource] : r = RecordOf(c, n)
  BY DEF IInv, ImportShape
<1>3. IsFiniteSet(todo[c])
  <2>1. all \in Surjection(Names, T)
    BY DEF Surjection
  <2>2. IsFiniteSet(T)
    BY <1>1, <2>1, FS_Surjection
  <2>3. todo[c] \subseteq T
    BY <1>1, <1>2
  <2> QED BY <2>2, <2>3, FS_Subset
<1>4. ASSUME NEW r \in todo[c] PROVE Time(r) \in Nat /\ r.name \in Nat
  <2>1. PICK n \in listed[c] \cap DOMAIN Bucket[task[c].resource] : r = RecordOf(c, n)
    BY <1>1, <1>2
  <2>2. r.resource = task[c].resource /\ r.name = n
    BY <2>1 DEF RecordOf
  <2>3. Bucket[task[c].resource] \in [DOMAIN Bucket[task[c].resource] -> Nat]
    BY <1>1, CatalogueAssumption DEF CatalogueAssumption
  <2> QED BY <1>1, <2>1, <2>2, <2>3 DEF Time
<1> QED BY <1>3, <1>4

\* A full batch of an import leaves none that is newer than what it sends.
LEMMA BatchNewest ==
  ASSUME IInv, NEW c \in Calls, PutBatch(c)
  PROVE  \E items, done \in SUBSET todo[c] :
           /\ done \subseteq items
           /\ catalogue' = Put(done)
           /\ todo'[c] = todo[c] \ items
           /\ \A r \in done, q \in todo'[c] : Time(r) >= Time(q)
<1> DEFINE items == FirstOf(todo[c], Room(c), NewestFirst)
<1>1. task[c].op = "import" /\ batch[c] = {} /\ TypeOK
  BY DEF IInv, ImportShape, PutBatch, At
<1>2. Room(c) \in Nat
  <2>1. Cardinality(batch[c]) = 0
    BY <1>1, FS_EmptySet
  <2> QED BY <2>1, CatalogueAssumption DEF Room, CatalogueAssumption
<1>3. NextBatch(c, NewestFirst) = items
  BY <1>1 DEF NextBatch
<1>4. items \subseteq todo[c]
  BY DEF FirstOf
<1>5. \A k \in items, m \in todo[c] \ items : Time(k) >= Time(m)
  BY <1>1, <1>2, ImportSortable, FirstNewest
<1> HIDE DEF items
<1>6. PICK done \in SUBSET items :
        catalogue' = Put(done) /\ todo' = [todo EXCEPT ![c] = @ \ items]
  BY <1>3 DEF PutBatch
<1> QED BY <1>1, <1>4, <1>5, <1>6 DEF TypeOK

\* What an import has to put changes when it lists or puts, and at no other step.
LEMMA TodoStays ==
  ASSUME IInv, [Next]_vars, NEW c \in Calls, task[c].op = "import", pc'[c] = "put"
  PROVE  ListPage(c) \/ PutBatch(c) \/ (pc[c] = "put" /\ todo'[c] = todo[c])
<1>0. TypeOK
  BY DEF IInv
<1>1. CASE \E d \in Calls : StoreUpload(d) \/ StoreFails(d) \/ PutUpload(d) \/ PutMeta(d) \/ DeleteMeta(d)
  BY <1>0, <1>1 DEF StoreUpload, StoreFails, PutUpload, PutMeta, DeleteMeta, Fails, Answer, Goto, At, TypeOK
<1>2. CASE \E d \in Calls : ListPage(d)
  BY <1>0, <1>2, PageShape DEF TypeOK
<1>3. CASE \E d \in Calls : PutBatch(d) \/ PutLast(d)
  <2>1. PICK d \in Calls : PutBatch(d) \/ PutLast(d)
    BY <1>3
  <2>2. CASE d # c
    BY <1>0, <2>1, <2>2, PutShape DEF PutSent, TypeOK
  <2>3. CASE d = c
    BY <1>0, <2>1, <2>3 DEF PutLast, Answer, TypeOK
  <2> QED BY <2>2, <2>3
<1>4. CASE \E d \in Calls : QueryFiles(d) \/ ScanTable(d)
  BY <1>0, <1>4 DEF QueryFiles, ScanTable, Goto, At, TypeOK
<1>5. CASE \E d \in Calls : DeleteBatch(d) \/ DeleteLast(d)
  BY <1>0, <1>5, DeleteShape DEF TypeOK, DeleteSent
<1>6. CASE CreateTable \/ Crash \/ (\E d \in Calls : ListFails(d) \/ ReadFails(d)) \/ UNCHANGED vars
  BY <1>0, <1>6, OtherSteps
<1> QED BY <1>1, <1>2, <1>3, <1>4, <1>5, <1>6, StepGroups

LEMMA NewestNext == IInv /\ AllSpent /\ NewestPutFirst /\ [Next]_vars => NewestPutFirst'
<1> SUFFICES ASSUME IInv, AllSpent, NewestPutFirst, [Next]_vars,
                    NEW c \in Calls, task[c].op = "import", pc'[c] = "put",
                    NEW r \in catalogue', NEW q \in todo'[c], r.by = c
             PROVE  Time(r) >= Time(q)
  BY Lasting DEF NewestPutFirst, Time
<1>0. TypeOK /\ task' = task
  BY Lasting DEF IInv
<1>1. CASE ListPage(c)
  <2>1. catalogue' = catalogue /\ pc[c] \in {"start", "page"}
    BY <1>1, PageShape
  <2> QED BY <2>1 DEF AllSpent, Spent
<1>2. CASE PutBatch(c)
  <2>1. PICK items, done \in SUBSET todo[c] :
          /\ done \subseteq items
          /\ catalogue' = Put(done)
          /\ todo'[c] = todo[c] \ items
          /\ \A k \in done, m \in todo'[c] : Time(k) >= Time(m)
    BY <1>2, BatchNewest
  <2>2. r \in catalogue \/ r \in done
    BY <2>1 DEF Put
  <2>3. pc[c] = "put" /\ q \in todo[c]
    BY <1>2, <2>1 DEF PutBatch, At
  <2> QED BY <2>1, <2>2, <2>3 DEF NewestPutFirst
<1>3. CASE pc[c] = "put" /\ todo'[c] = todo[c]
  <2>1. r \in catalogue
    <3>1. ASSUME r \notin catalogue PROVE FALSE
      <4>1. ~Spent(r) /\ Spent(r)'
        BY <3>1, NewRecords
      <4> QED BY <1>0, <1>3, <4>1 DEF Spent
    <3> QED BY <3>1
  <2> QED BY <1>3, <2>1 DEF NewestPutFirst
<1> QED BY <1>1, <1>2, <1>3, TodoStays

\* For all buckets and batch sizes: what an import has put is never older than what it has
\* yet to put (putList over the sorted results of importFromStorage).
THEOREM ImportsNewestFirst == Spec => []NewestPutFirst
<1>1. Init => RemoveInv /\ NewestPutFirst
  BY CatalogueAssumption
     DEF Init, RemoveInv, AllSpent, Spent, InHand, RemoveComplete, NewestPutFirst, CatalogueAssumption, Record
<1>2. RemoveInv => AllSpent
  BY DEF RemoveInv
<1> QED BY <1>1, <1>2, InitShape, NextShape, RemoveNext, NewestNext, PTL DEF Spec
=============================================================================
