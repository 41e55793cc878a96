--------------------------- MODULE NativeDatabase ---------------------------
(***************************************************************************)
(* The SQLite driver of native apps: the C++ class Database of             *)
(* src/native/shared, one object per adapter, and what the platform        *)
(* (src/native/android-jsi) adds. JavaScript calls it synchronously        *)
(* through JSI, so one thread runs JavaScript and the driver. Other        *)
(* threads: the bridge that is torn down destroys all Databases it knows,  *)
(* and after a reload a second bridge may have a Database on the same file *)
(* before the first is gone (the comment at DatabaseBridge.cpp:66).        *)
(*                                                                         *)
(* A call that writes is cut where it can fail or the process can end.     *)
(* Nothing else sees the inside of a call that reads: it is one step, with *)
(* its failures. An assert that fails ends the process, or in builds       *)
(* without assertions does not exist, so initialized_, which nothing but   *)
(* assertions reads, is left out. isDestroyed_ is read without having been *)
(* initialized: it may begin as TRUE.                                      *)
(*                                                                         *)
(* The JavaScript around it is there as far as it decides which calls are  *)
(* made: the adapter's set-up, the ids of the models in the RecordCache,   *)
(* and synchronize() in turbo mode. The driver answers inside the call. A  *)
(* query makes its models there and then; what is done behind an await     *)
(* (Database.batch(), unsafeResetDatabase(), a pull's rows) is a microtask *)
(* and comes one promise tick later, in the order of the calls. Whatever   *)
(* else JavaScript does may come in between.                               *)
(*                                                                         *)
(* A definition named Fault... is a wrong version of the one that follows  *)
(* it, for checking that the properties would notice.                      *)
(***************************************************************************)
EXTENDS SqlStatements, Sequences, Functions

CONSTANTS
  Databases,      \* Database objects
  NoTransaction,  \* "no transaction is open"
  Migratable,     \* the app has migrations for what it finds
  Plain,          \* bound: the Databases that are only opened, set up, reset and destroyed
  MaxMicrotasks   \* bound: on what one Database's JavaScript has still to go on with

ASSUME NativeAssumption ==
  /\ Migratable \in BOOLEAN /\ NoTransaction \notin Contents
  /\ Plain \subseteq Databases /\ MaxMicrotasks \in Nat

VARIABLES
  disk,           \* the file, as of the last commit
  tx,             \* a connection's open transaction: the file as it sees it
  object,         \* the Database objects
  call,           \* the writing calls under way, one per object
  mutex,          \* the Databases whose mutex_ is held
  cachedRecords,  \* ids whose rows were sent: only the id is sent again
  known,          \* ids of the models in JavaScript's RecordCache
  lost,           \* of cachedRecords: sent with an answer that failed
  microtasks,     \* what JavaScript does behind the awaits of calls that returned
  syncJson,       \* the Databases whose sync has a JSON in providedSyncJsons
  turbo           \* how far a synchronize() in turbo mode is

caches == <<cachedRecords, known, lost, microtasks>>
sync   == <<syncJson, turbo>>
vars   == <<disk, tx, object, call, mutex, caches, sync>>

Absent == [stage |-> "absent", open |-> FALSE, isDestroyed |-> FALSE]
Idle   == [op |-> "none", at |-> "idle", all |-> Nothing, left |-> Nothing]

Ops    == {"none", "setUp", "migrate", "batch", "load", "setPulled", "reset"}
Erases == {"setUp", "reset"}     \* unsafeResetDatabase() does both

Busy(d)   == \E e \in Databases \ {d} : tx[e] # NoTransaction
\* A batch adds and removes models, a reset removes all, and a pull adds those
\* of the rows it got, next to ids (bare) of models that it expects to be there.
Microtasks == [of : {"batch", "reset", "pull"}, bare : SUBSET Ids,
               add : SUBSET Ids, remove : SUBSET Ids]

\* While a reset is not through, the adapter is one that throws.
Resetting(d) == \E task \in Range(microtasks[d]) : task.of = "reset"

\* The ids of models that tasks will add, and of those that batches will remove.
Adding(tasks)   == UNION {task.add : task \in Range(tasks)}
Removing(tasks) == UNION {task.remove : task \in {t \in Range(tasks) : t.of = "batch"}}

Room(d)   == Len(microtasks[d]) < MaxMicrotasks
Usable(d) == object[d].stage = "usable" /\ call[d] = Idle /\ ~Resetting(d)
MayRead(d) == d \notin Plain /\ Usable(d) /\ d \notin mutex /\ object[d].open /\ disk.tables > 0

Init ==
  /\ disk \in FoundContents
  /\ tx = [d \in Databases |-> NoTransaction]
  /\ object = [d \in Databases |-> Absent]
  /\ call = [d \in Databases |-> Idle] /\ mutex = {}
  /\ cachedRecords = [d \in Databases |-> {}]
  /\ known = [d \in Databases |-> {}]
  /\ lost = [d \in Databases |-> {}] /\ microtasks = [d \in Databases |-> <<>>]
  /\ syncJson = {} /\ turbo = [d \in Databases |-> "none"]

-----------------------------------------------------------------------------
(* An adapter's life.                                                      *)

\* nativeWatermelonCreateAdapter(); the file opens, or there is no object.
Open(d) ==
  /\ object[d].stage = "absent"
  /\ \E garbage \in IF d \in Plain THEN {FALSE} ELSE BOOLEAN :
       object' = [object EXCEPT ![d] = [stage |-> "opened", open |-> TRUE, isDestroyed |-> garbage]]
  /\ UNCHANGED <<disk, tx, call, mutex, caches, sync>>

\* What the adapter does with the version that initialize() finds.
setUpFor(version) ==
  IF version = Version THEN "none"
  ELSE IF version \in 1 .. Version - 1 /\ Migratable THEN "migrate" ELSE "setUp"

Doing(d, op, step, s) == [call EXCEPT ![d] = [op |-> op, at |-> step, all |-> s, left |-> s]]
Starting(d, op) == Doing(d, op, "start", Nothing)

\* initialize(), without the mutex, and the set-up it calls for.
Initialize(d) ==
  /\ object[d].stage = "opened"
  /\ object' = [object EXCEPT ![d].stage = "usable"]
  /\ LET op == setUpFor(disk.version) IN
       call' = IF object[d].open /\ op # "none" THEN Starting(d, op) ELSE call
  /\ UNCHANGED <<disk, tx, mutex, caches, sync>>

\* Database::destroy(). Closing the connection drops its transaction.
Destroyed(o) == IF o.isDestroyed THEN o ELSE [o EXCEPT !.isDestroyed = TRUE, !.open = FALSE]

Destroy(d) ==
  /\ d \notin mutex
  /\ object' = [object EXCEPT ![d] = Destroyed(@)]
  /\ tx' = IF object[d].isDestroyed THEN tx ELSE [tx EXCEPT ![d] = NoTransaction]

\* unsafeClose(), from JavaScript.
Close(d) ==
  /\ d \notin Plain /\ Usable(d) /\ Destroy(d)
  /\ UNCHANGED <<disk, call, mutex, caches, sync>>

\* A bridge is torn down, this Database's own or an earlier one, whose
\* invalidation comes late: platform::destroy() calls every listener it finds.
TearDown(d) ==
  /\ object[d].stage # "absent" /\ Destroy(d)
  /\ UNCHANGED <<disk, call, mutex, caches, sync>>

\* The JavaScript runtime of a bridge is gone, and with it ~Database(). Its
\* listener holds a weak pointer only.
Delete(d) ==
  /\ object[d].stage # "absent" /\ call[d] = Idle /\ d \notin mutex
  /\ object' = [object EXCEPT ![d] = Absent]
  /\ tx' = [tx EXCEPT ![d] = NoTransaction]
  /\ cachedRecords' = [cachedRecords EXCEPT ![d] = {}]
  /\ known' = [known EXCEPT ![d] = {}] /\ lost' = [lost EXCEPT ![d] = {}]
  /\ microtasks' = [microtasks EXCEPT ![d] = <<>>]
  /\ turbo' = [turbo EXCEPT ![d] = "none"]
  /\ UNCHANGED <<disk, call, mutex, syncJson>>

Gone ==
  /\ tx' = [d \in Databases |-> NoTransaction]
  /\ object' = [d \in Databases |-> Absent]
  /\ call' = [d \in Databases |-> Idle] /\ mutex' = {}
  /\ cachedRecords' = [d \in Databases |-> {}]
  /\ known' = [d \in Databases |-> {}] /\ lost' = [d \in Databases |-> {}]
  /\ microtasks' = [d \in Databases |-> <<>>]
  /\ syncJson' = {} /\ turbo' = [d \in Databases |-> "none"]
  /\ UNCHANGED disk

\* The process is killed or crashes, or an assert fails.
ProcessEnds == Gone

-----------------------------------------------------------------------------
(* Calls that write.                                                       *)

Start(d, op) ==
  /\ Usable(d) /\ call' = Starting(d, op)
  /\ UNCHANGED <<disk, tx, object, mutex, caches, sync>>

StartBatch(d) == d \notin Plain /\ turbo[d] = "none" /\ Room(d) /\ Start(d, "batch")
StartReset(d) == turbo[d] = "none" /\ Room(d) /\ Start(d, "reset")

At(d, step) == [call EXCEPT ![d].at = step]

Lock(d) ==
  /\ call[d].at = "start" /\ d \notin mutex
  /\ mutex' = mutex \cup {d}
  /\ call' = At(d, IF call[d].op \in Erases THEN "erase" ELSE "begin")
  /\ UNCHANGED <<disk, tx, object, caches, sync>>

\* SQLITE_DBCONFIG_RESET_DATABASE and "vacuum", which no transaction can hold.
Vacuum(d) ==
  /\ call[d].at = "erase"
  /\ object[d].open /\ tx[d] = NoTransaction /\ ~Busy(d)
  /\ disk' = Erased /\ call' = At(d, "begin")
  /\ UNCHANGED <<tx, object, mutex, caches, sync>>

\* "begin exclusive transaction".
FaultMayBegin(d) == object[d].open /\ tx[d] = NoTransaction
MayBegin(d) == object[d].open /\ tx[d] = NoTransaction /\ ~Busy(d)

\* What unsafeResetDatabase() does to the ids once its transaction has begun.
FaultClearedFor(op, ids) == ids
ClearedFor(op, ids) == IF op \in Erases THEN {} ELSE ids

\* No row is made again while JavaScript has still to hear that it was destroyed:
\* ids are not used twice, and a load's block waits for those before it.
Creatable(s) == \A d \in Databases : s.create \cap Removing(microtasks[d]) = {}

\* What a call is asked to run. JavaScript creates records with ids of its own
\* and destroys those it has models of.
AskedOf(d) ==
  CASE call[d].op \in Erases -> {SetUp}
    [] call[d].op = "migrate" -> {Migration}
    [] call[d].op = "setPulled" -> {SetPulled}
    [] call[d].op = "load" -> {s \in Loads : Creatable(s)}
    [] OTHER -> {s \in Batches :
                   /\ Creatable(s) /\ s.create \cap (known[d] \cup Adding(microtasks[d])) = {}
                   /\ s.destroy \subseteq known[d]}

Begin(d) ==
  /\ call[d].at = "begin" /\ MayBegin(d)
  /\ tx' = [tx EXCEPT ![d] = disk]
  /\ \E s \in AskedOf(d) : call' = Doing(d, call[d].op, "work", s)
  /\ cachedRecords' = [cachedRecords EXCEPT ![d] = ClearedFor(call[d].op, @)]
  /\ lost' = [lost EXCEPT ![d] = ClearedFor(call[d].op, @)]
  /\ UNCHANGED <<disk, object, mutex, known, microtasks, sync>>

Execute(d) ==
  /\ call[d].at = "work"
  /\ \E one \in Singles(call[d].left) :
       /\ Runs(one, tx[d])
       /\ tx' = [tx EXCEPT ![d] = Effect(one, @)]
       /\ call' = [call EXCEPT ![d].left = Without(@, one)]
  /\ UNCHANGED <<disk, object, mutex, caches, sync>>

\* What the call holds is released when it returns, and when it throws.
FaultReleasedAfter(d, thrown) == IF thrown THEN mutex ELSE mutex \ {d}
ReleasedAfter(d, thrown) == mutex \ {d}

\* JavaScript goes on with a load that returned; otherwise turbo mode ends.
FaultTurboAfter(d, thrown) == IF call[d].op = "load" /\ ~thrown THEN "loaded" ELSE call[d].op
TurboAfter(d, thrown) == IF call[d].op = "load" /\ ~thrown THEN "loaded" ELSE "none"

Ends(d, thrown) ==
  /\ call' = [call EXCEPT ![d] = Idle]
  /\ mutex' = ReleasedAfter(d, thrown)
  /\ turbo' = [turbo EXCEPT ![d] = TurboAfter(d, thrown)]

\* A load that got into its try block deletes its JSON, come what may. (The
\* catch block's own deletion could throw, if the thread were not attached.)
FaultJsonAfter(d, thrown) == IF call[d].op = "load" /\ ~thrown THEN syncJson \ {d} ELSE syncJson
JsonAfter(d, thrown) == IF call[d].op = "load" THEN syncJson \ {d} ELSE syncJson

\* A batch that is committed marks what it added and unmarks what it removed.
CachedAfter(d) ==
  IF call[d].op = "batch" THEN (cachedRecords[d] \cup call[d].all.create) \ call[d].all.destroy
  ELSE cachedRecords[d]

\* What JavaScript does when the call has returned. (destroyDeletedRecords() is
\* a batch of the adapter's that only purges.)
GoingOn(d) ==
  CASE call[d].op = "batch" /\ call[d].all.create \cup call[d].all.destroy # {} ->
         <<[of |-> "batch", bare |-> {}, add |-> call[d].all.create, remove |-> call[d].all.destroy]>>
    [] call[d].op = "reset" -> <<[of |-> "reset", bare |-> {}, add |-> {}, remove |-> Ids]>>
    [] OTHER -> <<>>

Commit(d) ==
  /\ call[d].at = "work" /\ call[d].left = Nothing
  /\ disk' = tx[d] /\ tx' = [tx EXCEPT ![d] = NoTransaction]
  /\ cachedRecords' = [cachedRecords EXCEPT ![d] = CachedAfter(d)]
  /\ microtasks' = [microtasks EXCEPT ![d] = @ \o GoingOn(d)]
  /\ syncJson' = JsonAfter(d, FALSE) /\ Ends(d, FALSE)
  /\ UNCHANGED <<object, known, lost>>

\* "begin" throws ahead of the try block: no catch, nothing to undo.
BeginFails(d) ==
  /\ call[d].at = "begin" /\ call[d].op \notin Erases
  /\ Ends(d, TRUE)
  /\ UNCHANGED <<disk, tx, object, caches, syncJson>>

\* A statement or the commit fails. SQLite may have rolled back by itself.
StatementFails(d) ==
  /\ call[d].at = "work"
  /\ \E after \in {tx[d], NoTransaction} : tx' = [tx EXCEPT ![d] = after]
  /\ call' = Doing(d, call[d].op, "failed", Nothing)
  /\ UNCHANGED <<disk, object, mutex, caches, sync>>

\* The catch block: rollback(), whose own failure is swallowed, and rethrow.
FaultRolledBack(d) == tx
RolledBack(d) == [tx EXCEPT ![d] = NoTransaction]

RollBack(d) ==
  /\ call[d].at = "failed" /\ tx' = RolledBack(d)
  /\ call[d].op \notin Erases
  /\ syncJson' = JsonAfter(d, TRUE) /\ Ends(d, TRUE)
  /\ UNCHANGED <<disk, object, caches>>

\* A set-up with the schema, or a reset, that throws: std::abort().
Abort(d) == call[d].at \in {"erase", "begin", "failed"} /\ call[d].op \in Erases /\ Gone

-----------------------------------------------------------------------------
(* Calls that read.                                                        *)

\* A row that is marked already is sent as its id. JavaScript throws at an id
\* it has no model for, and does not take what comes after it in the answer.
Received(d, asked, read) ==
  LET fresh == asked \ cachedRecords[d] IN
    IF asked \cap cachedRecords[d] \subseteq known[d] THEN read = fresh ELSE read \subseteq fresh

\* query(), queryAsArray(): every row is marked when it is read. A fetch makes
\* its models inside the call.
Query(d) ==
  /\ MayRead(d)
  /\ \E asked \in SUBSET disk.rows : \E read \in SUBSET asked :
       /\ Received(d, asked, read)
       /\ cachedRecords' = [cachedRecords EXCEPT ![d] = @ \cup asked]
       /\ known' = [known EXCEPT ![d] = @ \cup read]
       /\ lost' = [lost EXCEPT ![d] = @ \cup ((asked \ cachedRecords[d]) \ read)]
  /\ UNCHANGED <<disk, tx, object, call, mutex, microtasks, sync>>

\* A pull's query, in a block of the work queue: unsafeFetchAsRaws() awaits the
\* rows.
QueryRaws(d) ==
  /\ MayRead(d) /\ turbo[d] = "none" /\ Room(d)
  /\ \E asked \in SUBSET disk.rows \ {{}} :
       /\ cachedRecords' = [cachedRecords EXCEPT ![d] = @ \cup asked]
       /\ microtasks' = [microtasks EXCEPT ![d] = Append(@,
            [of |-> "pull", bare |-> asked \cap cachedRecords[d],
             add |-> asked \ cachedRecords[d], remove |-> {}])]
  /\ UNCHANGED <<disk, tx, object, call, mutex, known, lost, sync>>

\* ... and stays marked when a later row, or the row's own values, fail.
QueryFails(d) ==
  /\ MayRead(d)
  /\ \E asked \in SUBSET disk.rows :
       /\ cachedRecords' = [cachedRecords EXCEPT ![d] = @ \cup asked]
       /\ lost' = [lost EXCEPT ![d] = @ \cup (asked \ cachedRecords[d])]
  /\ UNCHANGED <<disk, tx, object, call, mutex, known, microtasks, sync>>

\* find() of a row that is not marked; otherwise it changes nothing.
Find(d) ==
  /\ MayRead(d)
  /\ \E id \in disk.rows \ cachedRecords[d] :
       /\ cachedRecords' = [cachedRecords EXCEPT ![d] = @ \cup {id}]
       /\ known' = [known EXCEPT ![d] = @ \cup {id}]
  /\ UNCHANGED <<disk, tx, object, call, mutex, lost, microtasks, sync>>

\* unsafeExecuteMultiple(), without the mutex: the app's SQL, here deletions.
\* Each statement is committed by itself, so that a call that stops half way is
\* one or more of these steps.
ExecuteMultiple(d) ==
  /\ d \notin Plain /\ Usable(d) /\ object[d].open /\ ~Busy(d)
  /\ \E s \in Batches : /\ s.create = {} /\ s.destroy = {} /\ Runs(s, disk)
                        /\ disk' = Effect(s, disk)
  /\ UNCHANGED <<tx, object, call, mutex, caches, sync>>

-----------------------------------------------------------------------------
(* JavaScript goes on behind an await.                                     *)

\* At an id without a model a pull throws, ahead of making the first model.
TakenIn(d, task) == IF task.bare \subseteq known[d] THEN task.add ELSE {}

KnownAfter(d, task) == (known[d] \cup TakenIn(d, task)) \ task.remove
LostAfter(d, task)  == (lost[d] \cup task.add) \ (task.remove \cup KnownAfter(d, task))

Continue(d) ==
  /\ call[d] = Idle /\ microtasks[d] # <<>>
  /\ LET task == Head(microtasks[d]) IN
       /\ known' = [known EXCEPT ![d] = KnownAfter(d, task)]
       /\ lost' = [lost EXCEPT ![d] = LostAfter(d, task)]
  /\ microtasks' = [microtasks EXCEPT ![d] = Tail(@)]
  /\ UNCHANGED <<disk, tx, object, call, mutex, cachedRecords, sync>>

-----------------------------------------------------------------------------
(* synchronize() in turbo mode, a block in the work queue.                 *)

\* There is no last pulled at, and the blocks before have awaited their calls.
\* The JSON's id is native code's (syncJsonId); one that is there already is
\* refused.
ProvideJson(d) ==
  /\ d \notin Plain /\ Usable(d) /\ turbo[d] = "none" /\ ~disk.pulled
  /\ microtasks[d] = <<>>
  /\ d \notin syncJson /\ syncJson' = syncJson \cup {d}
  /\ turbo' = [turbo EXCEPT ![d] = "provided"]
  /\ UNCHANGED <<disk, tx, object, call, mutex, caches>>

StartLoad(d)      == turbo[d] = "provided" /\ Start(d, "load")
StartSetPulled(d) == turbo[d] = "loaded" /\ Start(d, "setPulled")

\* The JSON has no proper timestamp.
TurboThrows(d) ==
  /\ Usable(d) /\ turbo[d] = "loaded"
  /\ turbo' = [turbo EXCEPT ![d] = "none"]
  /\ UNCHANGED <<disk, tx, object, call, mutex, caches, syncJson>>

-----------------------------------------------------------------------------
Proceed(d) ==
  Lock(d) \/ Vacuum(d) \/ Begin(d) \/ Execute(d) \/ Commit(d)
    \/ BeginFails(d) \/ StatementFails(d) \/ RollBack(d) \/ Abort(d)

Next ==
  \/ ProcessEnds
  \/ \E d \in Databases :
       \/ Proceed(d)
       \/ Open(d) \/ Initialize(d) \/ Close(d) \/ TearDown(d) \/ Delete(d)
       \/ StartBatch(d) \/ StartReset(d)
       \/ Query(d) \/ QueryRaws(d) \/ QueryFails(d) \/ Find(d) \/ ExecuteMultiple(d)
       \/ Continue(d)
       \/ ProvideJson(d) \/ StartLoad(d) \/ StartSetPulled(d) \/ TurboThrows(d)

Spec == Init /\ [][Next]_vars

\* The thread that runs JavaScript and the driver is scheduled.
FairSpec == Spec /\ \A d \in Databases : WF_vars(Proceed(d))

-----------------------------------------------------------------------------
Object == [stage : {"absent", "opened", "usable"}, open : BOOLEAN, isDestroyed : BOOLEAN]
Call == [op : Ops, at : {"idle", "start", "erase", "begin", "work", "failed"},
         all : Statements, left : Statements]

\* Types, of the file, the connections, the objects and the two record caches.
TypeOK ==
  /\ disk \in Contents
  /\ tx \in [Databases -> Contents \cup {NoTransaction}]
  /\ object \in [Databases -> Object]
  /\ call \in [Databases -> Call] /\ mutex \subseteq Databases
  /\ cachedRecords \in [Databases -> SUBSET Ids]
  /\ known \in [Databases -> SUBSET Ids] /\ lost \in [Databases -> SUBSET Ids]
  /\ microtasks \in [Databases -> Seq(Microtasks)]
  /\ syncJson \subseteq Databases
  /\ turbo \in [Databases -> {"none", "provided", "loaded"}]

\* Whatever fails, and whenever the process ends or another Database works on
\* the same file, the file is changed by whole calls (begin, commit, rollback).
Durable == INSTANCE DurableStore WITH store <- disk
WholeCalls == Durable!Spec

\* The version in the file is the version of its tables, so that the next
\* start finds out which set-up is needed, even after one that was cut short.
VersionIsOfTables == disk.version = disk.tables

\* No transaction and no lock outlives the call that opened it: the next
\* "begin" is not inside a transaction, and no other connection waits for it.
NothingOutlivesItsCall ==
  \A d \in Databases :
    /\ tx[d] # NoTransaction => call[d].at \in {"work", "failed"}
    /\ d \in mutex <=> call[d].at \notin {"idle", "start"}

\* Once JavaScript has gone on behind every call that returned, the driver has
\* marked what JavaScript has models of, and else only rows of answers that
\* failed (lost), whatever came in between. A row that is marked is sent as an
\* id, and a fetch throws if there is no model of it (RecordCache.js:78).
CachesAgree ==
  \A d \in Databases : call[d] = Idle /\ microtasks[d] = <<>> =>
    cachedRecords[d] = known[d] \cup lost[d] /\ known[d] \cap lost[d] = {}

\* A load that began its transaction leaves no JSON behind, also when it fails.
LoadConsumesItsJson ==
  [][\A d \in Databases :
       call[d].op = "load" /\ call[d].at \in {"work", "failed"} /\ call'[d] = Idle
         => d \notin syncJson']_vars

\* Every call returns, throws or ends the process: mutex_ is not recursive,
\* and is released however a call ends.
EveryCallEnds == \A d \in Databases : call[d] # Idle ~> call[d] = Idle
=============================================================================
