---------------------------- MODULE RecordCaches ----------------------------
(***************************************************************************)
(* Records are kept twice: as models in the RecordCache of a collection    *)
(* (src/src/Collection/RecordCache.js) and as rows of an adapter, which    *)
(* remembers in cachedRecords the ids of the rows it has sent, and sends   *)
(* only the id of such a row (src/src/adapters).                           *)
(*                                                                         *)
(* Calls of the adapter and its answers are each first in, first out. The  *)
(* application's code goes on with a query when the answer arrives, and    *)
(* with a batch, a reset or a pull being applied only in a microtask after *)
(* it, for it awaits a promise. An adapter on a thread of its own answers  *)
(* in later tasks, after all microtasks; a synchronous one answers inside  *)
(* the call, and a batch's microtask may then run after other calls.       *)
(*                                                                         *)
(* A definition named Fault... is a wrong version of the one that follows  *)
(* it, for checking that the properties would notice.                      *)
(***************************************************************************)
EXTENDS Naturals, Sequences, FiniteSets

CONSTANTS
  Ids,             \* record ids, of one table
  Synchronous,     \* the adapter answers inside the call
  NoModel,         \* "this record is not in the RecordCache"
  MaxCalls,        \* bound on the calls of the adapter that are under way
  MaxRevision,     \* bound on how often a record is updated
  MaxFailures      \* bound on the calls that fail

ASSUME RecordCachesAssumption ==
  /\ Synchronous \in BOOLEAN
  /\ MaxCalls \in Nat /\ MaxRevision \in Nat /\ MaxFailures \in Nat

\* What a record holds is told apart by how often it has been updated.
Raw == [revision : Nat, deleted : BOOLEAN]

ASSUME NoModelAssumption == NoModel \notin Raw

VARIABLES
  rows,           \* the adapter's table, by id
  cachedRecords,  \* the ids that the adapter believes to be in the RecordCache
  calls,          \* calls that the adapter has not handled
  answers,        \* answers that have not arrived
  microtasks,     \* answers that arrived, whose callers have not gone on
  map,            \* the RecordCache: a model's raw, or NoModel
  adapter,        \* database.adapter: "working", or the "error" adapter
  failures        \* how many calls failed

vars == <<rows, cachedRecords, calls, answers, microtasks, map, adapter, failures>>

InTable == DOMAIN rows
Live    == {id \in InTable : ~rows[id].deleted}
InCache == {id \in Ids : map[id] # NoModel}

Only(f, S)    == [x \in DOMAIN f \cap S |-> f[x]]
Without(f, S) == [x \in DOMAIN f \ S |-> f[x]]

Init ==
  /\ \E known \in SUBSET Ids : rows = [id \in known |-> [revision |-> 0, deleted |-> FALSE]]
  /\ cachedRecords = {} /\ map = [id \in Ids |-> NoModel]
  /\ calls = <<>> /\ answers = <<>> /\ microtasks = <<>>
  /\ adapter = "working" /\ failures = 0

-----------------------------------------------------------------------------
(***************************************************************************)
(* The application's calls. With a synchronous adapter a call is over, and *)
(* its callback was called, before the next one is made.                   *)
(***************************************************************************)
UnderWay == Len(calls) + Len(answers) + Len(microtasks)

Call(call) ==
  /\ adapter = "working" /\ UnderWay < MaxCalls
  /\ Synchronous => calls = <<>> /\ answers = <<>>
  /\ calls' = Append(calls, call)

\* Query.fetch(), and the query by which a pull reads raws.
Fetch(op) ==
  /\ op \in {"query", "raws"} /\ Call([op |-> op])
  /\ UNCHANGED <<rows, cachedRecords, answers, microtasks, map, adapter, failures>>

\* Collection.find() of a record that is not in the RecordCache.
Find(id) ==
  /\ map[id] = NoModel /\ Call([op |-> "find", id |-> id])
  /\ UNCHANGED <<rows, cachedRecords, answers, microtasks, map, adapter, failures>>

Writes(seq) == UNION {seq[i].writes : i \in {j \in DOMAIN seq : seq[j].op = "batch"}}

\* The records that a batch under way creates or destroys.
Unsettled ==
  {w.id : w \in {v \in Writes(calls) \union Writes(answers) \union Writes(microtasks) :
                   v.type # "update"}}

\* A record is created under an id that is not in use, and changed through
\* its model, which holds the change before the adapter does. Batches may
\* overlap, but what becomes of a record is awaited before it is used again.
Writable(w) ==
  /\ w.id \notin Unsettled
  /\ IF w.type = "create" THEN w.id \notin InTable ELSE w.id \in InCache
  /\ w.type \in {"update", "markAsDeleted"} => ~map[w.id].deleted

FaultRawBefore(w) == IF w.type = "create" THEN 0 ELSE map[w.id].revision

\* The raw that a batch hands to the adapter.
revisionOf(w) == CASE w.type = "create" -> 0
                   [] w.type = "update" -> map[w.id].revision + 1
                   [] OTHER             -> map[w.id].revision

Write(ws) ==
  /\ \A w \in ws : Writable(w) /\ revisionOf(w) <= MaxRevision
  /\ Call([op |-> "batch",
           writes |-> {[type |-> w.type, id |-> w.id, revision |-> revisionOf(w)] : w \in ws}])
  /\ map' = [id \in Ids |->
       IF \E w \in ws : w.id = id /\ w.type = "update"
       THEN [map[id] EXCEPT !.revision = @ + 1]
       ELSE IF \E w \in ws : w.id = id /\ w.type \in {"markAsDeleted", "destroyPermanently"}
       THEN [map[id] EXCEPT !.deleted = TRUE] ELSE map[id]]
  /\ UNCHANGED <<rows, cachedRecords, answers, microtasks, adapter, failures>>

\* synchronize() destroys rows that are marked as deleted.
DestroyDeleted(id) ==
  /\ id \in InTable \ Live /\ Call([op |-> "destroyDeleted", id |-> id])
  /\ UNCHANGED <<rows, cachedRecords, answers, microtasks, map, adapter, failures>>

\* unsafeResetDatabase() lets nothing call the adapter until it is done.
Reset ==
  /\ Call([op |-> "reset"]) /\ adapter' = "error"
  /\ UNCHANGED <<rows, cachedRecords, answers, microtasks, map, failures>>

-----------------------------------------------------------------------------
(***************************************************************************)
(* The adapter, DatabaseDriver.                                            *)
(***************************************************************************)
Handled(op, answer) ==
  /\ calls # <<>> /\ Head(calls).op = op /\ calls' = Tail(calls)
  /\ answers' = Append(answers, answer)
  /\ UNCHANGED <<microtasks, map, adapter>>

\* An answer holds the ids of rows that are cached, and the other rows.
Answer(op, found) == [op |-> op, ids |-> found \cap cachedRecords,
                      raws |-> Only(rows, found \ cachedRecords)]

HandleQuery(op) ==
  /\ op \in {"query", "raws"} /\ Handled(op, Answer(op, Live))
  /\ cachedRecords' = cachedRecords \union Live
  /\ UNCHANGED <<rows, failures>>

\* A record that is cached is not looked up.
findResult(id) == {id} \cap (InTable \union cachedRecords)

HandleFind ==
  LET found == findResult(Head(calls).id)
  IN /\ Handled("find", Answer("find", found))
     /\ cachedRecords' = cachedRecords \union found
     /\ UNCHANGED <<rows, failures>>

IdsOf(ws, types) == {w.id : w \in {v \in ws : v.type \in types}}

Created(ws)   == IdsOf(ws, {"create"})
Destroyed(ws) == IdsOf(ws, {"markAsDeleted", "destroyPermanently"})

FaultNoneAdded(ws)     == {}
FaultWholeArgs(ws)     == {w \in ws : w.type = "create"}
FaultOnlyDestroyed(ws) == IdsOf(ws, {"destroyPermanently"})

\* What a batch puts into cachedRecords, and what it takes out.
newIds(ws)     == Created(ws)
removedIds(ws) == Destroyed(ws)

\* The table after a batch; a row that is not there is not updated.
Applied(ws) ==
  LET kept == InTable \ IdsOf(ws, {"destroyPermanently"})
  IN [id \in kept \union Created(ws) |->
        CASE \E w \in ws : w.id = id /\ w.type = "create" -> [revision |-> 0, deleted |-> FALSE]
          [] \E w \in ws : w.id = id /\ w.type = "update" ->
               [rows[id] EXCEPT !.revision = (CHOOSE w \in ws : w.id = id).revision]
          [] \E w \in ws : w.id = id /\ w.type = "markAsDeleted" -> [rows[id] EXCEPT !.deleted = TRUE]
          [] OTHER -> rows[id]]

BatchAnswer(ok) == [op |-> "batch", writes |-> Head(calls).writes, ok |-> ok]

HandleBatch ==
  LET ws == Head(calls).writes
  IN /\ Handled("batch", BatchAnswer(TRUE))
     /\ rows' = Applied(ws)
     /\ cachedRecords' = (cachedRecords \union newIds(ws)) \ removedIds(ws)
     /\ UNCHANGED failures

\* SQLite rolls a batch back, and its ids are noted only after the commit.
BatchFails ==
  /\ failures < MaxFailures /\ failures' = failures + 1
  /\ Handled("batch", BatchAnswer(FALSE))
  /\ UNCHANGED <<rows, cachedRecords>>

HandleDestroyDeleted ==
  /\ Handled("destroyDeleted", [op |-> "destroyDeleted"])
  /\ rows' = Without(rows, {Head(calls).id})
  /\ UNCHANGED <<cachedRecords, failures>>

HandleReset ==
  /\ Handled("reset", [op |-> "reset", ok |-> TRUE])
  /\ rows' = <<>> /\ cachedRecords' = {}
  /\ UNCHANGED failures

\* It may fail before it emptied the database or after it.
ResetFails ==
  /\ failures < MaxFailures /\ failures' = failures + 1
  /\ Handled("reset", [op |-> "reset", ok |-> FALSE])
  /\ \/ UNCHANGED <<rows, cachedRecords>>
     \/ rows' = <<>> /\ cachedRecords' = {}

-----------------------------------------------------------------------------
(***************************************************************************)
(* The answers, in the application's process.                              *)
(***************************************************************************)
MayArrive == answers # <<>> /\ (Synchronous \/ microtasks = <<>>)

\* The RecordCache returns the model of an id, and makes one from a raw. At
\* the first id without a model it throws, and makes no more models.
FromQueryResult(answer) ==
  \E made \in SUBSET DOMAIN answer.raws :
    /\ answer.ids \subseteq InCache => made = DOMAIN answer.raws
    /\ map' = [id \in Ids |-> IF id \in made \ InCache THEN answer.raws[id] ELSE map[id]]

AnswerArrives ==
  LET answer == Head(answers)
  IN /\ MayArrive /\ answers' = Tail(answers)
     /\ \/ /\ answer.op \in {"query", "find"} /\ FromQueryResult(answer)
           /\ UNCHANGED microtasks
        \/ /\ answer.op \in {"raws", "batch", "reset"} /\ microtasks' = Append(microtasks, answer)
           /\ UNCHANGED map
        \/ answer.op = "destroyDeleted" /\ UNCHANGED <<map, microtasks>>
     /\ UNCHANGED <<rows, cachedRecords, calls, adapter, failures>>

Continue(op) == microtasks # <<>> /\ Head(microtasks).op = op /\ microtasks' = Tail(microtasks)

\* unsafeFetchAsRaws(), which makes models of the raws after all.
RawsContinue ==
  /\ Continue("raws") /\ FromQueryResult(Head(microtasks))
  /\ UNCHANGED <<rows, cachedRecords, calls, answers, adapter, failures>>

FaultNotAdded(ws) == [id \in Ids |-> IF id \in Destroyed(ws) THEN NoModel ELSE map[id]]

\* _applyChangesToCache()
applyChangesToCache(ws) ==
  [id \in Ids |-> CASE id \in Created(ws)   -> [revision |-> 0, deleted |-> FALSE]
                    [] id \in Destroyed(ws) -> NoModel
                    [] OTHER -> map[id]]

BatchContinues ==
  /\ Continue("batch")
  /\ map' = IF Head(microtasks).ok THEN applyChangesToCache(Head(microtasks).writes) ELSE map
  /\ UNCHANGED <<rows, cachedRecords, calls, answers, adapter, failures>>

\* After a failed reset the error adapter stays.
ResetContinues ==
  /\ Continue("reset")
  /\ IF Head(microtasks).ok
     THEN map' = [id \in Ids |-> NoModel] /\ adapter' = "working"
     ELSE UNCHANGED <<map, adapter>>
  /\ UNCHANGED <<rows, cachedRecords, calls, answers, failures>>

-----------------------------------------------------------------------------
WriteTypes == {"create", "update", "markAsDeleted", "destroyPermanently"}

\* Batches of one write or two, of different records.
Batches ==
  {ws \in SUBSET [type : WriteTypes, id : Ids] :
     Cardinality(ws) \in 1 .. 2 /\ \A v, w \in ws : v.id = w.id => v = w}

AppStep ==
  \/ \E op \in {"query", "raws"} : Fetch(op)
  \/ \E id \in Ids : Find(id) \/ DestroyDeleted(id)
  \/ \E ws \in Batches : Write(ws)
  \/ Reset

AdapterStep ==
  \/ \E op \in {"query", "raws"} : HandleQuery(op)
  \/ HandleFind \/ HandleBatch \/ BatchFails \/ HandleDestroyDeleted
  \/ HandleReset \/ ResetFails

Next ==
  \/ AppStep \/ AdapterStep
  \/ AnswerArrives \/ RawsContinue \/ BatchContinues \/ ResetContinues

Spec == Init /\ [][Next]_vars

-----------------------------------------------------------------------------
TypeOK ==
  /\ InTable \subseteq Ids /\ \A id \in InTable : rows[id] \in Raw
  /\ cachedRecords \subseteq Ids /\ map \in [Ids -> Raw \union {NoModel}]
  /\ adapter \in {"working", "error"} /\ failures \in Nat
  /\ UnderWay <= MaxCalls

\* The result that the RecordCache works on next, if any.
Results ==
  {a \in (IF answers # <<>> /\ MayArrive THEN {Head(answers)} ELSE {}) : a.op \in {"query", "find"}}
    \union {a \in (IF microtasks # <<>> THEN {Head(microtasks)} ELSE {}) : a.op = "raws"}

\* An id is sent only for a record that has a model when the id is used:
\* RecordCache.js:78 calls anything else a bug of an adapter.
NoDanglingId == \A a \in Results : a.ids \subseteq InCache

\* A row is sent in full only for a record that has no model, so that none
\* is read without being used (RecordCache.js:108-120 warns of it).
NoRowSentTwice == \A a \in Results : DOMAIN a.raws \cap InCache = {}

Quiet == calls = <<>> /\ answers = <<>> /\ microtasks = <<>>

\* When nothing is under way both sides agree on what is in the RecordCache;
\* a reset that failed has cut them off from each other.
CachesAgree == Quiet /\ adapter = "working" => cachedRecords = InCache

\* And, while no batch was rejected, the model of a record is its row.
ModelIsRow ==
  Quiet /\ failures = 0 => \A id \in Live \cap InCache : map[id] = rows[id]
=============================================================================
