-------------------------------- MODULE Sync --------------------------------
(***************************************************************************)
(* synchronize(): src/src/sync/impl.  A client keeps a table of records    *)
(* with two marks of its own in every row, _status and _changed, pulls     *)
(* what changed on a server, merges it, and pushes what changed locally.   *)
(*                                                                         *)
(* Blocks passed to database.write() run one after the other and alone     *)
(* (module WorkQueue), so a block of synchronize() is cut only where the   *)
(* process can stop or a call of the adapter can fail: between two calls   *)
(* of the adapter. Between two blocks everything may happen: other blocks  *)
(* of the application, a reset of the database, another synchronize(),     *)
(* the end of the process, requests that the server handles late or never. *)
(*                                                                         *)
(* The rows the adapter keeps (store) and the raws of the models in memory *)
(* (mem) are two things: a model is changed when a change is prepared, a   *)
(* row when the batch has been committed.                                  *)
(*                                                                         *)
(* The server is the application's. It is modelled from what synchronize() *)
(* asks of it: a pull returns what changed since a timestamp and the time  *)
(* of the answer, a push carries the time of the pull it rests on, so that *)
(* the server can refuse to overwrite what changed after it.               *)
(*                                                                         *)
(* A definition named Fault... is a wrong version of the one that follows  *)
(* it, for checking that the properties would notice.                      *)
(***************************************************************************)
EXTENDS Naturals, Sequences

CONSTANTS
  Ids,                   \* record ids, of one collection
  Columns, Values,       \* a record's columns and what they hold
  Sessions,              \* calls of synchronize() that may run at one time
  NoRow,                 \* "there is no such row"
  Nobody, Resetter,      \* who holds the work queue, besides sessions
  Strategies,            \* experimentalStrategy: "incremental", "replacement"
  ServerReportsCreated,  \* FALSE: the server sends all records as updated
  Disturbed,             \* the kinds of disturbance to consider
  MaxDisturbances        \* bound on what the users and the world do

Disturbances ==
  {"create", "edit", "delete", "remote", "reset", "crash", "pullFails", "pushFails",
   "editFails", "applyFails", "markFails"}  \* the last three: batch() rejects

ASSUME SyncAssumption ==
  /\ Values # {}
  /\ Nobody # Resetter /\ {Nobody, Resetter} \cap Sessions = {}
  /\ Strategies \subseteq {"incremental", "replacement"} /\ Strategies # {}
  /\ ServerReportsCreated \in BOOLEAN
  /\ Disturbed \subseteq Disturbances /\ MaxDisturbances \in Nat

Contents == [Columns -> Values]
Row == [status : {"synced", "created", "updated", "deleted"},
        changed : SUBSET Columns, vals : Contents]

\* A server row: what it holds, and when it was created and last changed.
ServerRow == [alive : BOOLEAN, vals : Contents, born : Nat, mod : Nat]

ASSUME NoRowAssumption == NoRow \notin Row /\ NoRow \notin ServerRow

VARIABLES
  store,         \* the adapter's rows
  mem,           \* the raws of the models in memory
  lastPulledAt,  \* __watermelon_last_pulled_at, 0 when there is none
  resetCount,    \* database._resetCount
  writer,        \* the block that runs, alone
  queue,         \* whose blocks of synchronize() wait in the work queue
  sync,          \* the calls of synchronize()
  wire,          \* push requests on their way to the server
  server,        \* the server's rows
  clock,         \* the server's time
  used,          \* the ids ever given to a record
  edits,         \* what the user wrote and the server has not accepted
  deletions,     \* what the user deleted and the server has not accepted
  disturbances   \* how many disturbances there have been

db     == <<store, mem, lastPulledAt>>
remote == <<server, clock>>
ghosts == <<used, edits, deletions>>
vars   == <<db, resetCount, writer, queue, sync, wire, remote, ghosts, disturbances>>

IsLive(row) == row # NoRow /\ row.status # "deleted"

\* The ids whose rows are live, and adapter.getDeletedRecords().
Live           == {id \in Ids : IsLive(store[id])}
LocallyDeleted == {id \in Ids : store[id] # NoRow /\ ~IsLive(store[id])}

Only(f, S) == [x \in DOMAIN f \cap S |-> f[x]]

Disturb(kind) ==
  /\ kind \in Disturbed /\ disturbances < MaxDisturbances
  /\ disturbances' = disturbances + 1

-----------------------------------------------------------------------------
(***************************************************************************)
(* A call of synchronize(), with its variables: the reset count and the    *)
(* time of the last pull it started from, what it pulled, the changes of   *)
(* the batch it is about to commit, and the local changes it pushed.       *)
(***************************************************************************)
Phases == {"idle", "pulling", "pulled", "applyQueued", "applying", "stamping",
           "fetchQueued", "pushing", "answered", "markQueued", "marking", "destroying"}

Idle == [phase |-> "idle", resets |-> 0, since |-> 0,
         pull |-> [rows |-> <<>>, created |-> {}, deleted |-> {},
                   timestamp |-> 0, strategy |-> "incremental"],
         insert |-> {}, update |-> {}, destroy |-> {},
         copies |-> <<>>, pushedDeleted |-> {}, rejected |-> {}]

Become(s, state) == sync' = [sync EXCEPT ![s] = state]

\* Blocks of synchronize() run in the order they were queued in.
HasItsTurn(s) == writer = Nobody /\ queue # <<>> /\ Head(queue) = s /\ queue' = Tail(queue)

\* A model that leaves memory never again equals the copy that was pushed.
Forget(ids) == [s \in Sessions |-> [sync[s] EXCEPT !.copies = Only(@, Ids \ ids)]]

Exists(id) == server[id] # NoRow /\ server[id].alive

Init ==
  /\ \E known \in SUBSET Ids : \E vals \in [known -> Contents] :
       /\ server = [id \in Ids |-> IF id \in known
                      THEN [alive |-> TRUE, vals |-> vals[id], born |-> 1, mod |-> 1]
                      ELSE NoRow]
       /\ used = known
  /\ clock = 1
  /\ store = [id \in Ids |-> NoRow] /\ mem = store /\ lastPulledAt = 0
  /\ resetCount = 0 /\ writer = Nobody /\ queue = <<>>
  /\ sync = [s \in Sessions |-> Idle] /\ wire = {}
  /\ edits = [id \in Ids |-> <<>>] /\ deletions = {}
  /\ disturbances = 0

-----------------------------------------------------------------------------
(***************************************************************************)
(* The user's blocks. Each one changes a model, hands it to batch() and is *)
(* over when the adapter has answered.                                     *)
(***************************************************************************)
FaultLeavesSynced(row, c, v) == [row EXCEPT !.vals[c] = v, !.changed = @ \union {c}]

setRawColumnChange(row, c, v) ==
  [row EXCEPT !.vals[c] = v, !.changed = @ \union {c},
              !.status = IF @ = "created" THEN @ ELSE "updated"]

\* The server has what the user wrote, or gets it with a push under way.
Covered(id, c, v) ==
  \E s \in Sessions : /\ sync[s].phase \in {"answered", "markQueued"}
                      /\ id \in DOMAIN sync[s].copies \ sync[s].rejected
                      /\ sync[s].copies[id].vals[c] = v

Wrote(id, c, v) ==
  edits' = [edits EXCEPT ![id] = [x \in (DOMAIN @ \union {c}) \
                (IF Covered(id, c, v) THEN {c} ELSE {}) |-> IF x = c THEN v ELSE @[x]]]

UserCreates(id, vals) ==
  LET row == [status |-> "created", changed |-> {}, vals |-> vals]
  IN /\ Disturb("create")
     /\ writer = Nobody /\ id \notin used
     /\ store' = [store EXCEPT ![id] = row] /\ mem' = [mem EXCEPT ![id] = row]
     /\ used' = used \union {id} /\ edits' = [edits EXCEPT ![id] = vals]
     /\ UNCHANGED <<lastPulledAt, resetCount, writer, queue, sync, wire, remote, deletions>>

UserEdits(id, c, v) ==
  /\ Disturb("edit")
  /\ writer = Nobody /\ id \in Live
  /\ mem[id].status # "deleted" /\ mem[id].vals[c] # v
  /\ mem' = [mem EXCEPT ![id] = setRawColumnChange(@, c, v)]
  /\ \/ store' = [store EXCEPT ![id] = mem'[id]] /\ Wrote(id, c, v)
     \/ "editFails" \in Disturbed /\ UNCHANGED <<store, edits>>
  /\ UNCHANGED <<lastPulledAt, resetCount, writer, queue, sync, wire, remote, used, deletions>>

UserDeletes(id) ==
  /\ Disturb("delete")
  /\ writer = Nobody /\ id \in Live /\ mem[id].status # "deleted"
  /\ \/ /\ store' = [store EXCEPT ![id].status = "deleted"]
        /\ mem' = [mem EXCEPT ![id] = NoRow]
        /\ sync' = Forget({id})
        /\ edits' = [edits EXCEPT ![id] = <<>>]
        /\ deletions' = deletions \union {id}
     \/ /\ "editFails" \in Disturbed
        /\ mem' = [mem EXCEPT ![id].status = "deleted"]
        /\ UNCHANGED <<store, sync, edits, deletions>>
  /\ UNCHANGED <<lastPulledAt, resetCount, writer, queue, wire, remote, used>>

-----------------------------------------------------------------------------
(***************************************************************************)
(* synchronize(), the pull: what it starts from, the server's answer, and  *)
(* the block that applies the answer with three kinds of calls of the      *)
(* adapter: destroyDeletedRecords, then batch, then setLocal.              *)
(***************************************************************************)
Start(s) ==
  /\ sync[s].phase = "idle" /\ writer # Resetter
  /\ Become(s, [Idle EXCEPT !.phase = "pulling", !.resets = resetCount,
                            !.since = lastPulledAt])
  /\ UNCHANGED <<db, resetCount, writer, queue, wire, remote, ghosts, disturbances>>

ServerAnswersPull(s, strategy) ==
  LET since   == IF strategy = "replacement" THEN 0 ELSE sync[s].since
      changed == {id \in Ids : server[id] # NoRow /\ server[id].mod > since}
      alive   == {id \in changed : Exists(id)}
  IN /\ sync[s].phase = "pulling"
     /\ Become(s, [sync[s] EXCEPT !.phase = "pulled",
          !.pull = [rows      |-> [id \in alive |-> server[id].vals],
                    created   |-> {id \in alive : /\ ServerReportsCreated
                                                  /\ server[id].born > sync[s].since},
                    deleted   |-> IF strategy = "replacement" THEN {} ELSE changed \ alive,
                    timestamp |-> clock,
                    strategy  |-> strategy]])
     /\ UNCHANGED <<db, resetCount, writer, queue, wire, remote, ghosts, disturbances>>

\* Answers to several calls may arrive in any order.
PullArrives(s) ==
  /\ sync[s].phase = "pulled"
  /\ Become(s, [sync[s] EXCEPT !.phase = "applyQueued"]) /\ queue' = Append(queue, s)
  /\ UNCHANGED <<db, resetCount, writer, wire, remote, ghosts, disturbances>>

\* _changed is split into columns: an empty one gives a column called "".
FaultStrayColumn(local, vals) ==
  [local EXCEPT !.vals = [c \in Columns \union (IF local.changed = {} THEN {""} ELSE {}) |->
     IF c \in local.changed \union {""} THEN local.vals[CHOOSE d \in Columns : TRUE] ELSE vals[c]]]

\* Columns changed locally win over the remote version.
resolveConflict(local, vals) ==
  IF local.status = "deleted" THEN local
  ELSE [local EXCEPT !.vals = [c \in Columns |->
          IF c \in local.changed THEN local.vals[c] ELSE vals[c]]]

requiresUpdate(local, vals) ==
  local # [status |-> "synced", changed |-> {}, vals |-> vals]

\* A record the server sends only as updated stays deleted.
recreated(pull) == pull.created \cap LocallyDeleted

FaultUnsentAreGone(pull) ==
  IF pull.strategy = "replacement" THEN Ids \ DOMAIN pull.rows ELSE pull.deleted

\* What the server no longer has, among records not created here.
gone(pull) ==
  IF pull.strategy = "replacement"
  THEN {id \in Ids \ DOMAIN pull.rows : ~(IsLive(store[id]) /\ mem[id].status = "created")}
  ELSE pull.deleted

toInsert(pull) == {id \in DOMAIN pull.rows : store[id] = NoRow} \union recreated(pull)
toUpdate(pull) == {id \in DOMAIN pull.rows \cap Live : requiresUpdate(mem[id], pull.rows[id])}

FaultPullTimeOnly(s) == sync[s].since = lastPulledAt

FaultResetCountOnly(s) == sync[s].resets = resetCount

\* ensureSameDatabase() and the check for concurrent synchronization.
mayApply(s) == sync[s].resets = resetCount /\ sync[s].since = lastPulledAt

ApplyRemoteChanges(s) ==
  LET pull == sync[s].pull
  IN /\ sync[s].phase = "applyQueued" /\ HasItsTurn(s)
     /\ IF mayApply(s)
        THEN /\ writer' = s
             /\ Become(s, [sync[s] EXCEPT !.phase = "applying",
                  !.insert  = toInsert(pull),
                  !.update  = toUpdate(pull),
                  !.destroy = gone(pull) \cap Live])
             /\ store' = [id \in Ids |->
                  IF id \in (gone(pull) \cap LocallyDeleted) \union recreated(pull)
                  THEN NoRow ELSE store[id]]
             /\ mem' = [id \in Ids |->
                  CASE id \in toUpdate(pull) -> resolveConflict(mem[id], pull.rows[id])
                    [] id \in gone(pull) \cap Live -> [mem[id] EXCEPT !.status = "deleted"]
                    [] OTHER -> mem[id]]
        ELSE Become(s, Idle) /\ UNCHANGED <<store, mem, writer>>
     /\ UNCHANGED <<lastPulledAt, resetCount, wire, remote, ghosts, disturbances>>

Pulled(vals) == [status |-> "synced", changed |-> {}, vals |-> vals]

FaultOnlyAdded(rec) ==
  [id \in Ids |-> IF id \in rec.insert THEN Pulled(rec.pull.rows[id]) ELSE mem[id]]

\* _applyChangesToCache(), when the batch is committed.
cacheAfter(rec) == [id \in Ids |-> CASE id \in rec.insert  -> Pulled(rec.pull.rows[id])
                                     [] id \in rec.destroy -> NoRow
                                     [] OTHER              -> mem[id]]

ApplyBatch(s) ==
  LET rec == sync[s]
  IN /\ rec.phase = "applying"
     /\ store' = [id \in Ids |-> CASE id \in rec.insert  -> Pulled(rec.pull.rows[id])
                                   [] id \in rec.update  -> mem[id]
                                   [] id \in rec.destroy -> NoRow
                                   [] OTHER              -> store[id]]
     /\ mem' = cacheAfter(rec)
     /\ sync' = [Forget(rec.destroy) EXCEPT ![s] =
          [@ EXCEPT !.phase = "stamping", !.insert = {}, !.update = {}, !.destroy = {}]]
     /\ UNCHANGED <<lastPulledAt, resetCount, writer, queue, wire, remote, ghosts, disturbances>>

ApplyBatchFails(s) ==
  /\ Disturb("applyFails") /\ sync[s].phase = "applying"
  /\ Become(s, Idle) /\ writer' = Nobody
  /\ UNCHANGED <<db, resetCount, queue, wire, remote, ghosts>>

FaultStampOfNow(s) == clock

pulledAt(s) == sync[s].pull.timestamp

SetLastPulledAt(s) ==
  /\ sync[s].phase = "stamping"
  /\ lastPulledAt' = pulledAt(s)
  /\ writer' = Nobody /\ queue' = Append(queue, s)
  /\ Become(s, [sync[s] EXCEPT !.phase = "fetchQueued"])
  /\ UNCHANGED <<store, mem, resetCount, wire, remote, ghosts, disturbances>>

-----------------------------------------------------------------------------
(***************************************************************************)
(* synchronize(), the push: a block that copies the local changes, the     *)
(* request and its answer, and a block that marks as synced what has not   *)
(* changed since it was copied, with two kinds of calls of the adapter:    *)
(* batch and destroyDeletedRecords.                                        *)
(***************************************************************************)
unsynced == {id \in Ids : store[id] # NoRow /\ store[id].status \in {"created", "updated"}}

Request(s) == [from |-> s, awaited |-> TRUE, since |-> sync[s].pull.timestamp,
               rows |-> [id \in unsynced |-> mem[id].vals], deleted |-> LocallyDeleted]

FetchLocalChanges(s) ==
  /\ sync[s].phase = "fetchQueued" /\ HasItsTurn(s)
  /\ IF sync[s].resets = resetCount /\ unsynced \union LocallyDeleted # {}
     THEN /\ Become(s, [sync[s] EXCEPT !.phase = "pushing",
                          !.copies = Only(mem, unsynced), !.pushedDeleted = LocallyDeleted])
          /\ wire' = wire \union {Request(s)}
     ELSE Become(s, Idle) /\ UNCHANGED wire
  /\ UNCHANGED <<db, resetCount, writer, remote, ghosts, disturbances>>

\* The server takes the rows of a push, all but the refused ones.
Accept(request, refused) ==
  LET rows    == DOMAIN request.rows \ refused
      deleted == {id \in request.deleted \ refused : Exists(id)}
  IN /\ server' = [id \in Ids |->
          CASE id \in rows -> [alive |-> TRUE, vals |-> request.rows[id], mod |-> clock + 1,
                               born |-> IF Exists(id) THEN server[id].born ELSE clock + 1]
            [] id \in deleted -> [server[id] EXCEPT !.alive = FALSE, !.mod = clock + 1]
            [] OTHER -> server[id]]
     /\ clock' = clock + 1
     /\ edits' = [id \in Ids |-> IF id \notin rows THEN edits[id]
          ELSE Only(edits[id], {c \in Columns : c \in DOMAIN edits[id]
                                  /\ edits[id][c] # request.rows[id][c]})]
     /\ deletions' = deletions \ (request.deleted \ refused)

Conflicts(request) ==
  {id \in DOMAIN request.rows \union request.deleted :
     server[id] # NoRow /\ server[id].mod > request.since}

\* With conflicts the server refuses the whole push or the rows concerned.
ServerHandlesPush(request) ==
  /\ request \in wire /\ wire' = wire \ {request}
  /\ \/ /\ Accept(request, Conflicts(request))
        /\ sync' = IF request.awaited
                   THEN [sync EXCEPT ![request.from] =
                          [@ EXCEPT !.phase = "answered", !.rejected = Conflicts(request)]]
                   ELSE sync
     \/ /\ Conflicts(request) # {}
        /\ sync' = IF request.awaited THEN [sync EXCEPT ![request.from] = Idle] ELSE sync
        /\ UNCHANGED <<remote, edits, deletions>>
  /\ UNCHANGED <<db, resetCount, writer, queue, used, disturbances>>

\* pushChanges() resolves: the database is checked and the block queued.
PushAnswered(s) ==
  /\ sync[s].phase = "answered"
  /\ IF sync[s].resets = resetCount
     THEN Become(s, [sync[s] EXCEPT !.phase = "markQueued"]) /\ queue' = Append(queue, s)
     ELSE Become(s, Idle) /\ UNCHANGED queue
  /\ UNCHANGED <<db, resetCount, writer, wire, remote, ghosts, disturbances>>

FaultRejectedToo(s) == {id \in DOMAIN sync[s].copies : mem[id] = sync[s].copies[id]}

\* The models of a database that was reset are as they were at its end.
recordsToMarkAsSynced(s) ==
  {id \in DOMAIN sync[s].copies \ sync[s].rejected :
     sync[s].resets # resetCount \/ mem[id] = sync[s].copies[id]}

Marked(row) == [row EXCEPT !.status = "synced", !.changed = {}]

MarkLocalChangesAsSynced(s) ==
  LET marks == recordsToMarkAsSynced(s)
  IN /\ sync[s].phase = "markQueued" /\ HasItsTurn(s)
     /\ writer' = s
     /\ Become(s, [sync[s] EXCEPT !.phase = "marking", !.update = marks])
     /\ mem' = [id \in Ids |-> IF id \in marks /\ mem[id] # NoRow THEN Marked(mem[id]) ELSE mem[id]]
     /\ UNCHANGED <<store, lastPulledAt, resetCount, wire, remote, ghosts, disturbances>>

\* An update of a row that does not exist changes nothing.
MarkBatch(s) ==
  /\ sync[s].phase = "marking"
  /\ store' = [id \in Ids |-> IF id \in sync[s].update /\ store[id] # NoRow
                              THEN Marked(sync[s].copies[id]) ELSE store[id]]
  /\ Become(s, [sync[s] EXCEPT !.phase = "destroying", !.update = {}])
  /\ UNCHANGED <<mem, lastPulledAt, resetCount, writer, queue, wire, remote, ghosts, disturbances>>

\* The calls that destroy were made beside the batch and are not undone.
MarkBatchFails(s) ==
  /\ Disturb("markFails") /\ sync[s].phase = "marking"
  /\ Become(s, [sync[s] EXCEPT !.phase = "destroying", !.update = {}])
  /\ UNCHANGED <<db, resetCount, writer, queue, wire, remote, ghosts>>

FaultDestroyAll(s) == sync[s].pushedDeleted

toDestroy(s) == sync[s].pushedDeleted \ sync[s].rejected

MarkDestroys(s) ==
  /\ sync[s].phase = "destroying"
  /\ store' = [id \in Ids |-> IF id \in toDestroy(s) THEN NoRow ELSE store[id]]
  /\ writer' = Nobody /\ Become(s, Idle)
  /\ UNCHANGED <<mem, lastPulledAt, resetCount, queue, wire, remote, ghosts, disturbances>>

-----------------------------------------------------------------------------
(***************************************************************************)
(* A reset of the database, in a block of its own, and what the world      *)
(* does: other clients write to the server, requests fail (a push perhaps  *)
(* only seems to), the process ends and is started again.                  *)
(***************************************************************************)
\* _abortPendingWork() rejects the blocks that wait in the queue.
queueAborted == [s \in Sessions |->
  IF sync[s].phase \in {"applyQueued", "fetchQueued", "markQueued"} THEN Idle ELSE sync[s]]

ResetBegins ==
  /\ Disturb("reset") /\ writer = Nobody
  /\ writer' = Resetter /\ sync' = queueAborted /\ queue' = <<>>
  /\ UNCHANGED <<db, resetCount, wire, remote, ghosts>>

\* Of the pushed models those stay as they are which are as they were pushed.
ResetEnds ==
  /\ writer = Resetter /\ writer' = Nobody
  /\ store' = [id \in Ids |-> NoRow] /\ mem' = store' /\ lastPulledAt' = 0
  /\ resetCount' = resetCount + 1
  /\ sync' = [s \in Sessions |-> [sync[s] EXCEPT !.copies =
                Only(@, {id \in Ids : id \in DOMAIN @ /\ mem[id] = @[id]})]]
  /\ edits' = [id \in Ids |-> <<>>] /\ deletions' = {}
  /\ UNCHANGED <<queue, wire, remote, used, disturbances>>

NotAwaited(s) == {[request EXCEPT !.awaited = @ /\ request.from # s] : request \in wire}

PullFails(s) ==
  /\ Disturb("pullFails") /\ sync[s].phase \in {"pulling", "pulled"}
  /\ Become(s, Idle)
  /\ UNCHANGED <<db, resetCount, writer, queue, wire, remote, ghosts>>

PushFails(s) ==
  /\ Disturb("pushFails") /\ sync[s].phase \in {"pushing", "answered"}
  /\ Become(s, Idle) /\ wire' = NotAwaited(s)
  /\ UNCHANGED <<db, resetCount, writer, queue, remote, ghosts>>

RequestIsLost(request) ==
  /\ request \in wire /\ ~request.awaited /\ wire' = wire \ {request}
  /\ UNCHANGED <<db, resetCount, writer, queue, sync, remote, ghosts, disturbances>>

\* Memory starts out as the live rows, which are read when first asked for.
Crash ==
  /\ Disturb("crash")
  /\ sync' = [s \in Sessions |-> Idle]
  /\ wire' = {[request EXCEPT !.awaited = FALSE] : request \in wire}
  /\ mem' = [id \in Ids |-> IF IsLive(store[id]) THEN store[id] ELSE NoRow]
  /\ writer' = Nobody /\ queue' = <<>> /\ resetCount' = 0
  /\ UNCHANGED <<store, lastPulledAt, remote, ghosts>>

RemoteWrites(id, vals) ==
  /\ Disturb("remote")
  /\ \/ Exists(id) /\ server[id].vals # vals
     \/ id \notin used
  /\ server' = [server EXCEPT ![id] = [alive |-> TRUE, vals |-> vals, mod |-> clock + 1,
                  born |-> IF Exists(id) THEN server[id].born ELSE clock + 1]]
  /\ clock' = clock + 1 /\ used' = used \union {id}
  /\ UNCHANGED <<db, resetCount, writer, queue, sync, wire, edits, deletions>>

RemoteDeletes(id) ==
  /\ Disturb("remote") /\ Exists(id)
  /\ server' = [server EXCEPT ![id] = [@ EXCEPT !.alive = FALSE, !.mod = clock + 1]]
  /\ clock' = clock + 1
  /\ UNCHANGED <<db, resetCount, writer, queue, sync, wire, ghosts>>

-----------------------------------------------------------------------------
SessionStep(s) ==
  \/ \E strategy \in Strategies : ServerAnswersPull(s, strategy)
  \/ PullArrives(s) \/ ApplyRemoteChanges(s) \/ ApplyBatch(s) \/ SetLastPulledAt(s)
  \/ FetchLocalChanges(s) \/ PushAnswered(s)
  \/ MarkLocalChangesAsSynced(s) \/ MarkBatch(s) \/ MarkDestroys(s)

UserStep ==
  \E id \in Ids : \/ \E vals \in Contents : UserCreates(id, vals)
                  \/ \E c \in Columns, v \in Values : UserEdits(id, c, v)
                  \/ UserDeletes(id)

WorldStep ==
  \/ \E id \in Ids : RemoteDeletes(id) \/ \E vals \in Contents : RemoteWrites(id, vals)
  \/ \E s \in Sessions : PullFails(s) \/ PushFails(s)
                         \/ ApplyBatchFails(s) \/ MarkBatchFails(s)
  \/ \E request \in wire : RequestIsLost(request)
  \/ Crash \/ ResetBegins

Next ==
  \/ \E s \in Sessions : Start(s) \/ SessionStep(s)
  \/ \E request \in wire : ServerHandlesPush(request)
  \/ ResetEnds
  \/ UserStep \/ WorldStep

\* The application calls synchronize() again and again, requests are
\* answered or fail, and blocks that wait in the queue are run.
Fairness ==
  /\ \A s \in Sessions : WF_vars(Start(s)) /\ WF_vars(SessionStep(s))
  /\ WF_vars(\E request \in wire : ServerHandlesPush(request))
  /\ WF_vars(ResetEnds)

Spec == Init /\ [][Next]_vars
FairSpec == Spec /\ Fairness

-----------------------------------------------------------------------------
(* Type correctness of what synchronize() and the adapter keep.            *)
Snapshots(T) == UNION {[S -> T] : S \in SUBSET Ids}

Pull == [rows : Snapshots(Contents), created : SUBSET Ids, deleted : SUBSET Ids,
         timestamp : Nat, strategy : {"incremental", "replacement"}]

Call == [phase : Phases, resets : Nat, since : Nat, pull : Pull,
         insert : SUBSET Ids, update : SUBSET Ids, destroy : SUBSET Ids,
         copies : Snapshots(Row), pushedDeleted : SUBSET Ids, rejected : SUBSET Ids]

PushRequest == [from : Sessions, awaited : BOOLEAN, since : Nat,
                rows : Snapshots(Contents), deleted : SUBSET Ids]

TypeOK ==
  /\ store \in [Ids -> Row \union {NoRow}] /\ mem \in [Ids -> Row \union {NoRow}]
  /\ lastPulledAt \in Nat /\ resetCount \in Nat /\ clock \in Nat
  /\ writer \in Sessions \union {Nobody, Resetter} /\ queue \in Seq(Sessions)
  /\ sync \in [Sessions -> Call] /\ wire \subseteq PushRequest
  /\ server \in [Ids -> ServerRow \union {NoRow}]

\* A record that is synced, or absent, is what the server has, or the next
\* pull will bring the difference: lastPulledAt, stored apart from the rows
\* (synchronize.js), never passes a change that the rows do not have.
InStep(id) ==
  \/ ~Exists(id) /\ store[id] = NoRow
  \/ Exists(id) /\ store[id] # NoRow /\ store[id].vals = server[id].vals
  \/ server[id] # NoRow /\ server[id].mod > lastPulledAt

NoChangeIsSkipped ==
  \A id \in Ids : store[id] = NoRow \/ store[id].status = "synced" => InStep(id)

\* What the user wrote stays in the row, and marked for the next push, until
\* the server has accepted it (or deleted the record): no merge, mark, crash
\* or late request undoes it (helpers.js, markAsSynced.js).
LocalEditsSurvive ==
  \A id \in Ids : \A c \in DOMAIN edits[id] :
    Exists(id) \/ server[id] = NoRow =>
      /\ IsLive(store[id]) /\ store[id].vals[c] = edits[id][c]
      /\ store[id].status = "created" \/ (store[id].status = "updated" /\ c \in store[id].changed)

\* A record the user deleted stays deleted, and marked for the next push,
\* until the server has accepted the deletion (applyRemote.js).
LocalDeletionsSurvive ==
  \A id \in deletions : Exists(id) => id \in LocallyDeleted

\* While no block runs, the models in memory are the rows of the adapter.
MemoryIsTheStore ==
  writer = Nobody => \A id \in Ids : mem[id] = IF IsLive(store[id]) THEN store[id] ELSE NoRow

\* A call of synchronize() from before a reset changes no row after it. Its
\* blocks may run: the last check of the reset count (synchronize.js:138) is
\* made before the block is queued, but in front of every newer block.
ResetEndsOldCalls ==
  [][\A s \in Sessions : writer = s /\ sync[s].resets # resetCount =>
       UNCHANGED <<store, lastPulledAt>>]_vars

\* What is pulled is applied to the database it was pulled for: the time of
\* the last pull never goes back, except to none when the database is reset.
PulledAtOnlyAdvances ==
  [][lastPulledAt' >= lastPulledAt \/ (writer = Resetter /\ lastPulledAt' = 0)]_vars

\* Every record is synced and is what the server has.
Converged ==
  /\ wire = {}
  /\ \A id \in Ids : IF Exists(id)
       THEN store[id] = Pulled(server[id].vals)
       ELSE store[id] = NoRow

\* The disturbances are bounded, so in the end there are none, and then
\* client and server come to agree and stay so.
EventuallyConverged == <>[]Converged
=============================================================================
