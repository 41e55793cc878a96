# HyperTillDB in TLA+

HyperTillDB is an offline-first reactive database for JavaScript applications, a
fork of WatermelonDB. It keeps models of records in memory, rows in SQLite or
LokiJS behind an adapter, runs readers and writers one after the other, tells
observers what changed, and synchronizes with a server or with a peer.

This directory holds TLA+ models of the parts whose correctness depends on the
order of events, TLC configurations that check them on small instances, and
TLAPS proofs of what matters most for every instance. Paths below are relative
to `src/src/`. `PROJECT.json` lists the runs, the theorems, the lines that each
definition models, the mutants that every property is tested against, and the
hazards that the properties are for.

## 1. Inventory

| Component | State | Operations | Talks to |
|---|---|---|---|
| Work queue `Database/WorkQueue.js` | `_queue`, `_subActionIncoming`, one `setTimeout` | `enqueue`, `subAction`, `_executeNext`, `_abortPendingWork` | called by `database.read/write`, the decorators, a reset |
| Database `Database/index.js` | `adapter`, `_resetCount`, `_isBeingReset`, subscribers, batched notifications | `batch`, `unsafeResetDatabase`, `_notify`, `experimentalSubscribe` | work queue, adapter, collections |
| Collection, RecordCache `Collection/` | `map` id -> model, subscribers | `find`, `_fetchQuery`, `_applyChangesToCache`, `_notify` | adapter (answers come by callback), observers |
| Model `Model/` | `_raw` with `_status`, `_changed`; `_preparedState`, `_isEditing` | create, prepare and commit updates and deletions | Database.batch, collection |
| Adapters `adapters/` | rows, `cachedRecords`, a queue of actions, connection state | find, query, batch, deleted records, local storage, reset, migrate | drivers, in the call, in a worker or in native code |
| Native driver `../native/shared/*.cpp` | one `Database` object per adapter: connection, `mutex_`, `cachedRecords_`, `isDestroyed_`; the file and its `user_version`; JSONs provided for turbo sync | open, initialize, set up, migrate, batch, load, query, find, reset, destroy | the SQLite adapter (synchronously, through JSI), the platform, SQLite |
| Sync `sync/impl/` | `__watermelon_last_pulled_at`, local variables of `synchronize()` | pull, apply, push, mark as synced | server (pullChanges, pushChanges), blocks in the work queue |
| Peer sync `sync/peer/` | pending requests with timers, `closed`; the server's handler runs | pullChanges, pushChanges, close; answer, stop | codec, transport |
| Observation `observation/`, `utils/subscriptions` | last emission, subscribers, fetches under way | subscribe, reload, emit, unsubscribe | collections, database, Query |
| Query, matcher `Query/`, `QueryDescription/`, `observation/encodeMatcher` | cached subscribables | build, match, fetch | collection |
| Schema, migrations `Schema/`, generator `generator/` | none | steps of a migration, changes since one, diff and plan of schemas | adapters, sync |
| The rest (decorators, reactive client, type-first API, React bindings, diagnostics, Java, Objective-C and Windows modules) | little or a copy of the above | delegate | the above |

What is hard here:

- **Control changes hands at every `await`.** Blocks of `database.write()` are
  serialized, but `synchronize()` is three such blocks with network calls in
  between, a work item is shifted off the queue in one step and the next one
  started by a timer in a later one, and a batch is committed by the adapter
  before the models are in the cache.
- **Memory and store are two things.** A model changes when a change is
  prepared, its row when the adapter has committed the batch. They part when a
  batch is rejected, and the process may stop between any two adapter calls.
- **State on both sides of a bridge.** Adapters remember which records have
  models, and send only their ids.
- **Functions that call each other.** A loop over subscribers calls an observer,
  which calls the application, which subscribes and unsubscribes, in that loop.
- **Two connections to one file.** After a reload of JavaScript the old bridge
  may still be there; its tear-down destroys the new bridge's databases as well.
- **Remote parties.** Requests may be lost, late or carried out although the
  caller saw them fail; peers may never answer.
- **Applications may misuse it**: awaiting a writer from a writer, leaving
  sub-actions un-awaited, keeping an interface for later, calling
  `synchronize()` twice.

What makes each component correct, in short: the queue runs one item at a time,
in order, each once, and wedges only if a block awaits what is behind it; sync
never skips a remote change and never undoes a local one; each peer call ends
once with a result of its own; both sides of the cache protocol agree whenever
it shows; the native driver changes its file by whole calls and keeps no lock;
observers end up with the latest result and never hear after they unsubscribed.

## 2. Modules

| Module | Models | Kind |
|---|---|---|
| `WorkQueue` | `Database/WorkQueue.js` and what a reset does to it | component |
| `SerialExecutor` | what the work queue promises | abstract specification |
| `WorkQueue_proofs` | | proofs |
| `Sync` | `sync/impl/*`, with the model operations that set sync marks, `batch`, `unsafeResetDatabase`, and an external server | component, composed with the queue's promise |
| `PeerRpc` | `sync/peer/index.js`, both sides, and an external transport | component |
| `PeerCall` | what a caller of the peer client may rely on | abstract specification |
| `PeerRpc_proofs` | | proofs |
| `RecordCaches` | `Collection/RecordCache.js`, `Database.batch` and reset, and the drivers' `cachedRecords` | component |
| `RecordCaches_proofs` | | proofs |
| `Sync_proofs`, `SyncEdits_proofs` | | proofs |
| `SqlStatements` | what the native driver's calls do to a file, as sets of statements | vocabulary of the next three |
| `DurableStore` | what the native driver promises of the file | abstract specification |
| `NativeDatabase` | `../native/shared` (C++), with the JavaScript that chooses its calls | component |
| `NativeDatabase_proofs` | | proofs |
| `Subscriptions` | `observation/`, `utils/subscriptions/SharedSubscribable`, the notifications of Database and Collection | component |
| `Subscriptions_proofs`, `UpToDate_proofs` | | proofs |
| `MC...` | symmetry sets for TLC | model checking |

A definition whose name starts with `Fault` is a plausible wrong version of the
definition that follows it. Nothing uses it in the specification: it is put in
the other's place to see that a property notices.

### WorkQueue

| State | Code |
|---|---|
| `queue` | `_queue`; an item is named by its block of work |
| `subActionIncoming` | `_subActionIncoming` |
| `stack` | callers of `subAction()` whose callback has not returned |
| `timers` | pending `setTimeout(() => this._executeNext(), 0)` |
| `phase`, `item`, `awaits` | how far a block is, on behalf of which item it runs, which promises it awaits |

A step is a piece of JavaScript without an await. `Enqueue` and `SkipLine` are
`enqueue()` with the flag down and up; `SubAction` and `SubActionReturns` are
the two halves of `subAction()` around its callback; `ExecuteNext` and
`ExecuteNextResumes` are `_executeNext()` before and after its await;
`AbortPendingWork` is what a reset does. `Settle` is the application's code
ending. The constant `Habits` says which misuses the application allows itself.

### Sync

`store` are the adapter's rows, `mem` the raws of the models. Each call of
`synchronize()` is a record in `sync` whose `phase` says where it is:

`idle -> pulling -> pulled -> applyQueued -> applying -> stamping -> fetchQueued
-> pushing -> answered -> markQueued -> marking -> destroying -> idle`

The queued phases wait for a `database.write()` (`queue`), the three pairs with
`writer = s` are inside one. That blocks are alone and in order is what
`WorkQueue` establishes, so here a block is cut only between two adapter calls,
where the process can stop or a call can fail. The user creates, edits and
deletes between blocks; other clients write on the server; a push request is a
message on `wire` that the server handles late, or never once nobody waits for
it. The server is modelled from what `synchronize()` asks of it: a pull returns
what changed after `since`; a push is refused if it would overwrite something
newer than the pull it rests on. `edits`, `deletions` and `used` are ghosts:
what the user did that the server has not accepted, and the ids ever used.

`Crash` forgets memory and all calls; `ResetBegins`/`ResetEnds` are the two
halves of `unsafeResetDatabase()`, which leaves the waiting calls rejected.

### PeerRpc

The client's side: the stage of each call (`encoding`, `sending`, `awaiting`),
its promise, the pending requests, timers, `closed`, and messages being
decoded. The server's side: one job per delivery, which is authorized, run and
answered, or dropped when the server stopped. `wire` is a set that messages are
never taken out of: any may be delivered again, later or never, which is all
that can happen to them. A call's payload is its identity, a result is the
number of the run that gave it.

### RecordCaches

`rows` and `cachedRecords` are the adapter's, `map` is the RecordCache, `calls`
and `answers` the two directions between them, `microtasks` the code that
awaits a promise that has been resolved. With `Synchronous = FALSE` an answer
arrives only after all microtasks, as from a worker or a native thread; with
`TRUE` the adapter answers inside the call and microtasks lag behind, as with
SQLite in Node, JSI, or Loki without a worker. What a record holds is the number
of its updates.

### NativeDatabase

| State | Code |
|---|---|
| `disk`, `tx` | the file as of the last commit; what a connection's open transaction sees |
| `object` | a `Database`: absent, opened or usable; its connection; `isDestroyed_`, which is read without having been initialized and so may begin as true |
| `call` | the writing call under way: which one, how far, its statements and those left |
| `mutex`, `cachedRecords` | `mutex_`, `cachedRecords_` |
| `known`, `microtasks` | ids of JavaScript's models; what JavaScript will do behind the awaits of calls that have returned |
| `lost` | of `cachedRecords`: ids whose rows were in an answer that failed |
| `syncJson`, `turbo` | the provided JSONs, how far `synchronize()` in turbo mode is |

A call that writes is cut where it can fail or where the process can end:
`Start...`, `Lock`, `Vacuum` (a reset, before its transaction), `Begin`,
`Execute` (one statement), `Commit`, and `BeginFails`, `StatementFails`,
`RollBack`, `Abort` (a failed reset ends the process). Calls that read are one
step with its failures (`Find`, `Query`, `QueryFails`), as nothing sees their
inside. A query of the application makes its models in the call; what a batch,
a reset or a pull's query (`QueryRaws`) does to the RecordCache it does behind an
`await`, one promise tick later (`Continue`), with anything in between: a fetch
that meets a bare id then throws, and what was after it in the answer is `lost`.
While a reset has not gone on, the adapter is one that throws (`Resetting`).
`TearDown` is the destructor of a bridge, which destroys every Database
it finds in the list, `ProcessEnds` may happen at any time. A file's contents
are its rows, the version its tables are of, and the version written in it;
what a call does to it is a set of statements (`SqlStatements`).

### Subscriptions

JavaScript's call stack is a variable: `stack` holds frames, and a step runs the
top one up to its next call. `database` and `collection` are the two arrays of
subscribers, looped over by frames that hold an index, as `forEach` does;
`source` are the closures of the observers made, one record each; `shared` is
the query's `SharedSubscribable`; `calls` are fetches and batches that the
adapter has not answered, `unnotified` and `held` changes on their way to
observers. Whether the query can be matched in memory (simple observers) and
whether the adapter answers inside the call is chosen at the start. A batch
changes the models at once (`memory`); then it is committed and notified of, or
rejected: the models stay as they are and nobody is told (`BatchIsRejected`, or
the second branch of `Write` when the answer comes inside the call). `rejected`
names the records whose last batch was. A fetch may fail for any reason, among
them that it is sent the id of a created row whose model is not in the RecordCache
yet (`AnswerIsError`). Inside any
callback the application may subscribe and unsubscribe; it writes in turns of its
own. The ghosts name the cases in which a subscriber is not up to date, or a
source not the only one, through what the code does: `missed` (subscribers that a
loop of the `SharedSubscribable` passed over, because one before them left the
array, or called for a source that had ended meanwhile), `early` (observers of
columns whose subscriber was called ahead of a notice, see section 5), `lost` (observers that the collection's loop passed over so), `stale`
(observers passed over by the database's loop, or whose last fetch failed, until
the next one) and `overtaken` (see section 5). `news` says whether anything has
changed since an observer last emitted.

## 3. Runs

All bounds are constants; what exceeds them is a guard, so no state is cut off
by a constraint. Deadlock is not checked: every one of these systems may come to
rest (all blocks over, no disturbance left, all calls settled, the adapter in
its error state).

| Run | Checks | Instance | Distinct states |
|---|---|---|---|
| `wq_any_use` | types, timer, head and flag discipline, stalls, refinement of `SerialExecutor` | 3 writers, 1 reader, all misuses, sub-actions nested to depth 2 | 156,150 |
| `wq_disciplined` | isolation, every block ends | the same blocks, no misuse, depth 1 | 5,672 |
| `sync_one_record` | no change skipped, local edits survive, memory is the store | 1 record, 2 columns, both strategies, 4 disturbances of 8 kinds | 1,321,322 |
| `sync_two_records` | edits and deletions survive, convergence | 2 records, pushes accepted in part, 3 disturbances of 9 kinds | 368,716 |
| `sync_two_calls` | the time of the last pull only advances, a reset ends old calls | 2 calls at a time, 2 disturbances of 10 kinds | 655,879 |
| `peer_calls` | pending = open, closing settles all, refinement of `PeerCall`, every call ends | 2 calls, 2 deliveries to the server in all | 81,264 |
| `caches_threaded` | no dangling id, no row sent twice, both sides agree, models are rows | 2 records, 3 adapter calls under way, 1 failure | 256,186 |
| `native_driver` | whole calls, no lock outlives its call, version of the tables, caches agree, every call ends, refinement of `DurableStore` | 2 Databases on one file, 2 ids, schema version 2, any number of calls | 508,781 |
| `subscriptions` | observers are up to date at rest, one source, nobody is called after leaving, nothing stays subscribed, one emission per change | 2 callers of `observe()`, 1 of `observeWithColumns()`, 1 record, 2 batches, each committed or rejected | 3,539,627 |
| `sync_concurrent`, `sync_failed_apply`, `caches_synchronous` | each shows a disagreement, see section 5 | the smallest that shows it | |

Why these bounds suffice for what is asked:

- *Work queue.* The interesting windows hold one item that runs, one shifted to
  the front and one enqueued behind it, while a sub-action is open; that takes
  three writers. The reader takes the same path and differs in one branch. Depth
  2 lets a sub-action call another.
- *Sync.* Merging is per record and per column. One record with two columns has
  both a column changed locally and one changed remotely; four disturbances
  allow, for example, edit, crash, remote write, lost answer. Two records are
  needed only for partly accepted pushes and two calls only for stale pulls.
  The number of rounds of `synchronize()` is not bounded.
- *Peer.* Two calls are enough for an answer to go to the wrong one, two
  deliveries for a request to be run twice. The theorems cover the rest.
- *Caches.* Three calls under way put a read on either side of a write or a
  reset; two records let one answer hold an id and a row. A batch writes one or
  two records.
- *Native driver.* One Database makes every call; the other one (`Plain`) is only
  opened, set up, reset and destroyed, which is what the Database of a bridge
  does that is being set up while the old one is at work. Two ids let a batch
  stop between two rows and a query return an id and a row. JavaScript has at most
  one `await` to go on behind per Database: enough for a read to come between
  the driver's answer and the models. The proofs cover any number of each.
- *Subscriptions.* Two callers share a source and let one of them leave inside
  the other's callback; the third has a source of its own in the same arrays.
  Each caller subscribes once, so a second source comes only from one that
  leaves and one that joins. Two batches let a change arrive while the answer
  about the first is under way. Which records change together does not matter
  to any branch, so there is one.

### Properties worth explaining

- `NoChangeIsSkipped`: rows and `lastPulledAt` are stored by different calls of
  the adapter. A row that is marked as synced equals the server's, or the server
  changed it after `lastPulledAt`, so that a later pull brings it.
- `LocalEditsSurvive`, `LocalDeletionsSurvive`: until the server accepted it,
  what the user did stays in the row *and* stays marked for the next push. A
  column set back and forth while its push is under way counts as accepted with
  the value that the server has. With a server that reports a client's own
  records as created, or with replacement pulls and late pushes, deletions may
  be lost (section 5), so `LocalDeletionsSurvive` is checked without these.
- `ResetEndsOldCalls`: the reset count is compared before the mark block is
  queued, not in it; the property says that this suffices, because the reset
  itself rejects what is queued.
- `StallIsSelfInflicted`: if nothing can go on while blocks wait, then a block
  of the first item awaits a waiting block.
- `CachesAgree`: when nothing is under way the adapter's `cachedRecords` are
  exactly the ids in the RecordCache, whatever reads, batches, failures and
  resets overlapped. Batches may overlap, but the application awaits the batch
  that creates or destroys a record before it uses that record again. In
  `NativeDatabase` the driver answers inside the call, and before JavaScript has
  gone on behind its `await` the two sides differ (section 5, `caches_synchronous`).
  Claimed is that whatever reads, failures and tear-downs come in that window, once
  JavaScript has gone on behind every call the driver has marked the ids of models
  and, beyond them, only rows of answers that failed. Such ids stay
  marked (`lost` names them): the property does not say that there are none.
- `WholeCalls`: the file goes from one call's end to another's, or is erased, as
  `DurableStore` says, whatever fails, ends or overlaps. `VersionIsOfTables` is
  what the next start relies on when the last one was cut short.
- `UpToDateAtRest`: when nothing is under way, every subscriber was last called
  with the list, and with the columns if it observes them, as they are now, but
  for the cases that the ghosts name: who was passed over or called too early, and
  records whose last batch was rejected: whether a simple observer has one of
  these in its list, and which columns of it a subscriber was shown, may be either
  (section 5). The list of a reloading observer is right all the same.
- `OneEmissionPerChange`: with an adapter that answers later. With one that
  answers inside the call, a with-columns observer of a query that cannot be
  matched in memory may emit twice (section 5).
- `ModelIsRow` and `MemoryIsTheStore`: as long as no batch was rejected.

### Fairness

- `wq_disciplined`: weak fairness of a callback's return and strong fairness of
  timers, of promises that can settle and of code after an await. The event loop
  runs whatever is ready; application code in between always returns control,
  but may do so infinitely often, hence strong. Submitting work is never
  required.
- `sync_two_records`: weak fairness of starting `synchronize()`, of its steps, of
  the server handling a request that is on the wire, and of the end of a reset.
  An application that never synchronizes again does not converge; requests that
  fail are disturbances, of which there are finitely many. `EventuallyConverged`
  says that once they are over both sides agree for good.
- `peer_calls`: timers go off, and the codec and `send()` settle. Neither peer
  nor network owes anything. Without the second half a call may hang (section 5).
- `native_driver`: the thread that runs JavaScript and the driver is scheduled,
  so a call under way goes on. Nothing makes anybody start a call. SQLite's
  "busy" is an answer, not a wait, so no second connection is waited for.

## 4. Proofs

TLAPS checks the following for all values of the constants that satisfy the
assumptions named `...Assumption` in the modules (blocks, code outside of blocks
and "no item" are different things; bounds are natural numbers).

`WorkQueue_proofs`. None of the invariants is inductive alone: that only the
head runs depends on a timer never finding an item that was started. The
inductive invariant `IInv` adds `QueueShape` (no block twice in the queue,
everything behind the head untouched, a started head is an item of its own) and
`IdleHasNoItem`. Three lemmas take each action through types, flag and the rest.
From it follow `TypeCorrect`, `HeadOnly`, `TimerDiscipline`, `FlagConfined`, the
action property `HeadStays`, and `Refinement`: under the mapping at the end of
`WorkQueue`, every step is a step of `SerialExecutor` or a stutter.

Two theorems are about what blocks await. `StallExplained` needs to know that
awaits form no circle among the blocks of one item: a block awaits blocks that
were called after it, so from the first item one can follow them to a block
that awaits none of them, and if that one cannot go on it awaits something that
waits in the queue. `IsolationUnderDiscipline` assumes `Disciplined`: no
application that leaves a sub-action detached, calls one from outside, or keeps
an interface for later. Then every sub-action under way is awaited by one that
is, up to the item's own block, so when the item ends all its blocks have ended.

`PeerRpc_proofs`. `IInv` adds to the checked invariants `StageFitsPromise`
(stages and promises match) and `AnswersAreCredible` (every job and message is
about a call that was made, and an `ok` in it names a run that took place). The
second is what makes a call's result its own. From it follow `TypeCorrect`,
`PendingIsOpenAlways`, `ClosedIsSettledAlways` and `Refinement` of `PeerCall`,
for any number of calls and deliveries.

`RecordCaches_proofs`, for adapters on a thread of their own. Neither side knows
the other's state: the adapter's `cachedRecords` are not what the RecordCache
holds, but what it will hold once the answers under way have been worked off in
order. That is the invariant (`Foreseen`, with `After` computing the cache after
`k` answers), together with: every answer is right about the cache it will meet
(`AllRight`), and nothing follows a reset (`ResetIsLast`). From it follow
`TypeCorrect`, `IdsCorrect`, `RowsCorrect` and `CachesCorrect`. For an adapter
that answers inside the call they are false (section 5). `ModelsCorrect`, that at
rest a model is its row, rests on `Current`, inductive together with these while
no batch was rejected. Of the batches under way about a record none comes after
one that creates or destroys it (`Alone`: the application awaits it). So a model
is ahead of its row by the updates that the adapter has not handled and nothing
else (`UpToDate`), unless such a batch is about to replace it (`Model`); and a row
on its way is up to date, unless something behind it replaces it (`Sent`). That
an update finds its row cached, so that no older copy is sent after it, is where
`Foreseen` comes in (`FitsTable`).

`NativeDatabase_proofs`. `IInv` adds `Locks` (one transaction at a time, the
mutex held exactly while a call works), `Working` and `Caches`. `Working` says
that what is left of a call's statements, run on the file as its transaction
sees it, comes to the same as all of them on the file as it is. It holds because
the connection cannot be closed under a call (the mutex) and no other connection
writes while a transaction is open. From it follows `Refinement`: a commit is
one step of `DurableStore`. `Caches` looks ahead from what the driver has marked:
it is what JavaScript has models of (or lost), with what its microtasks will add
and without what they will remove (`Settling`). Reads in between change nothing
of that: a row that is to be added is marked already, so no read brings it, and
what is to be removed is no longer in the file (`Unmade`), nor made again before
JavaScript has heard of its destruction. From the transaction of a reset until
JavaScript has gone on behind it nothing is marked. The other theorems are `TypeCorrect`,
`VersionCorrect`, `LocksEnd`, `CachesCorrect` and `JsonConsumed`.

`Sync_proofs`, for any number of overlapping calls. `IInv` says where each
call's block is in the queue and that a call from before a reset stands in front
of every newer one (`Queue`), that an awaited request is the only one of a
call (`Wired`), how pulls, stamps and reset counts are ordered (`Times`), that
no mark block of an old call is left while a pull is applied (`Alone`), that ids
are not used twice (`UsedIds`), and that what a call is about to change fits
what is there (`Rows`). From it follow `TypeCorrect`, `PulledAtAdvances` and
`OldCallsEnd`: the check of the reset count that is missing in the mark block is
not needed. With one call at a time and no rejected batch, `Memory` is inductive
as well: it names the difference between models and rows inside each block,
hence `MemoryCorrect`.

`Sync_proofs`, under the same two conditions, also proves `NoChangeSkipped`,
the main promise of `synchronize()`: whatever crashes, resets, lost answers and
late pushes come between, for both strategies, and for servers that report
created records or do not, a row that is synced is what the server has, or the
server changed it after `lastPulledAt`. The invariant `Caught` follows one call:
from the answer on, whatever a pull does not tell has changed on the server
after it; in the apply block, rows that are not in the batch are up to date with
the pull; from the answer to a push on, what was accepted has changed on the
server after `lastPulledAt`. Both conditions are needed: the runs
`sync_concurrent` and `sync_failed_apply` show what happens without them.

`SyncEdits_proofs`, still under these two conditions, proves that nothing the
user did is undone before the server has accepted it. The invariant has three
layers, each inductive together with those before it:

- `Deaths`: a row may be destroyed with what the user wrote in it when the
  server has deleted the record, so that must be for good. A push that the
  server handles late could bring the record back, unless the server finds a
  conflict in it; `DeadForGood` says that it will in all that are under way.
  That every record a pull buries is dead for good (`Buried`) follows from the
  times of requests (`Timed`) and from whom a row came from: a row that is not
  the client's own creation is of a record that the server has, or has changed
  since (`Upright`).
- `Edited`: what the user wrote is in the row and marked, or lost with a record
  that is dead for good (`Held`); the columns of a record created here are not
  marked one by one, which is right as long as the server has not got the record
  (`Fresh`); a merge keeps the marked columns (`Merged`); and what will be marked
  as synced has nothing that the server has not (`Copied`). `LocalEditsKept`
  follows, for both strategies and whatever the server reports as created.
- `Mourned`: the row of a deleted record is there and marked, or gone with a
  record that is dead for good (`Departed`); a pull brings none of these rows
  back, and what a push is about to destroy has been accepted (`Mourns`).
  `LocalDeletionsKept` follows for a server that sends what changed, all as
  updated (`SentAsUpdated`): with others deletions may be lost (section 5).

The run `sync_two_records` checks both with batches that are rejected when
changes are marked as synced, which the theorems leave out: then the models in
memory are no longer the rows, on which the proofs rest.

`Subscriptions_proofs`, for any number of callers, records, batches and fetches,
whatever is subscribed and unsubscribed inside whichever callback. `IInv` adds
to types and `NothingStaysSubscribed`:

- `Frames`: what each frame of the call stack may be and refer to; only the top
  one answers, emits or calls a subscriber.
- `Owners`, `Sharers`, `SharedSource`: a live observer is the source of the
  shared subscribable or of one caller of `observeWithColumns()`; a caller is in
  the array of the shared subscribable exactly if it joined and has not left.
- `Arrays`: an observer is at most once in the database's and in the
  collection's array, so that the removal of one entry leaves none.
- `OneAnswer`: the first answer to a simple observer is under way at one place
  only (a call, an answer, a frame), or its entry in the collection's array is
  there. Frames are counted from the bottom of the stack, which a step that works
  on the top leaves as it is.
- `Observing`, `Called`: who observes without an entry is waiting for its
  answer; who is about to be called has not left.

From it follow `TypeCorrect`, `NothingLeft`, `LeaversNotCalled` and
`SourceIsOne`. All hold although arrays change under the loops that run over
them: what a loop may do is pass somebody over, not call somebody who left.

`EmitsOncePerChange` rests on a second invariant, `IEmissions`, about an adapter
that answers later. `Turned` says how the stack is built: an answer has a turn
for itself, and the database's loop, which only issues fetches, is followed by
the collection's before anything else is called. With simple observers, those
that a loop has not come to still have news (`Unvisited`), and so have those
whose first answer is under way (`FirstAnswer`); the one that emits will not be
come to again (`Emitting`). With reloading observers, one without news has the
list that the adapter has (`Told`), so that an answer it has had already makes it
emit nothing; and while the collection's loop runs all are fetching
(`AllFetching`), so that a changed column waits for the answer. Most steps only
call the application or return from it: `Calm` is what they leave of the stack,
`Undisturbed` what they do to the observers, and one lemma, `UndisturbedKept`,
serves them all.

`UpToDate_proofs`, for any number of records, subscribers, batches, held
notifications and nested callbacks: `UpToDate`, with the invariant `IUp` beside
`IInv`. `UpToDateAtRest` speaks of states in which nothing is under way and says
nothing of those before, so the invariant has to say where that which a
subscriber does not know yet is on its way to it:

- `Upcoming`: of each record the last batch under way that writes it has what is
  in memory; with none, what is committed has, unless the last one was rejected.
- `NoticeComes`: a record that an observer does not have as it is in memory is
  awaited: in a batch, in a notice that is due or held, or in a loop over the
  collection's array that has still to come to the observer's entry
  (`HasEntries` says that there is one).
- `FetchComes`: an observer with no list, or with an old one if it reloads, has
  a fetch under way or to come.
- `EmissionComes`: what a with-columns observer put off it will emit: a simple
  one because its first look comes before its source's in every loop, a reloading
  one because it is fetching.
- `Shown`: what an observer compares with is what its subscriber was given, or
  is about to be called with.
- `Sharing`: the same for who shares a source: the last list emitted is that of
  the source, and who does not have it will be called by the loop that runs
  (`SharedLoops`, `LastEmitted`, `WillHave`).
- `Ordered`, `Joining`: which loops and callbacks may be nested in which.

When nothing is under way each of these loses all its alternatives but the one
that the subscriber is up to date (`ToldAtRest`). Most of the work is in what one
`splice()` does to loops that run over the array: they come to whom they would
have come to, but for the one after the entry removed (`LeftReaches`), which the
ghosts name. A source that emits to nobody throws (`EmitThrows`, only when
overtaken) and ends whatever was running; then everybody is in `missed`, and
`IUp` says no more. The proof was what found the cases of `early` and of a call for
an ended source: both need more subscribers, records or writes than the run has.

Only model-checked: the liveness properties, which need fairness and ENABLED,
which TLAPS does not handle here. Every invariant of a passing run is proved,
under the conditions named above. No proof is by induction over data; where a
loop matters (the answers of `RecordCaches`, the queue of `Sync`, the loops of
`Subscriptions`) the invariant quantifies over positions instead.
`HeadStaysUntilSettled` is proved and not checked by a run, as `SerialSpec`
contains it.

## 5. Where code and words disagree

The first three are runs whose property TLC violates; the trace is the
shortest. The others were met while modelling, and the models keep what the
code does.

- `sync_concurrent`: a `synchronize()` that starts while another one pushes is
  not aborted, although `sync/impl/synchronize.js:67` says so. It merges a
  remote change under the record being pushed; the first call then marks the
  record as synced and the change is never seen again.
- `sync_failed_apply`: after a rejected batch the models hold what was pulled and
  the rows do not; the next pull finds nothing to update and moves on.
- The same in the observers: after a rejected batch nobody is notified of what the
  models hold (`Database/index.js:146`, "TODO: What if this fails?"). A
  subscriber of columns was last called with another value than its model has,
  and a simple observer, which matches models and not rows, may list the record
  or not, until it is written again. `rejected` marks these records.
- `caches_synchronous`: with an adapter that answers inside the call, ids are
  marked as cached before the code that awaits the call has made models of
  them, and a read in between throws the error that `RecordCache.js:78` calls
  impossible.
- With a server that reports a client's own pushes as created, a record that was
  created, pushed and deleted before the next pull comes back. The code takes
  the branch whose message suspects a partial failure
  (`sync/impl/applyRemote.js:298`); there was none. `LocalDeletionsSurvive` is
  therefore checked without such a server.
- The timer of a peer request rejects a promise that the caller gets only after
  `send()` has settled (`sync/peer/index.js:226`): with a transport that stalls
  the call hangs past its time-out.
- `SharedSubscribable.subscribe` calls a new subscriber with the last value
  before it looks whether it is the only one
  (`utils/subscriptions/SharedSubscribable/index.js:34`). If that callback ends
  the other subscription, a second source is subscribed, the first is never
  unsubscribed, and when it emits to nobody the class's own invariant throws; the
  class comment says "Multiple subscribers only cause a single subscription of
  the source". `overtaken` marks these states.
- `forEach` over the arrays of subscribers passes over one when another leaves
  the array before it (`Collection/index.js:276` says "Notifies subscriber on
  every change"; also `SharedSubscribable` and `Database._notify`). `missed`, `lost`
  and `stale` mark who was passed over.
- A subscriber of `observeWithColumns()` reads the columns from memory. If it is
  called for a change of the list while the notice of a change of a column is
  still to come, it sees that column ahead of the notice; if the column is written
  back before the notice comes, the observer finds nothing changed and the
  subscriber is left with the value that was undone
  (`observation/subscribeToQueryWithColumns/index.js:36` says that it emits when
  "any of the records in the list has any of the given fields changed"). It takes
  two records and three overlapping batches. `early` marks these observers.
- The loop of `SharedSubscribable._notify` goes on when a callback has ended its
  source, if others subscribed meanwhile, and calls them with the list of the
  ended source. With notices that are held, and an adapter that answers inside
  the call, they may keep it: four callers of `observe()`, two records, two
  writes. They are in `missed`.
- With an adapter that answers inside the call and a query that cannot be matched
  in memory, an observer of columns that is told of a change both by the
  collection and by its own fetch emits twice.
- A simple observer whose first fetch fails never observes the collection: its
  subscribers, and later ones that share it, get no list
  (`observation/subscribeToSimpleQuery/index.js:22`). It stays `stale`.

## 6. Not modelled

- Native code other than `../native/shared`: the Java, Objective-C and Windows
  modules dispatch the same calls. Most of the lines of the C family in the
  repository are vendored (Pods, FMDB, simdjson, SQLite); the project's own C++
  is about 1,500 lines, of which `NativeDatabase` models the database object,
  the bridge's installation and tear-down, and the statements; conversion of
  arguments, SQL, and cached prepared statements are abstracted.
- In the native driver: exclusive locking mode, in which a second connection
  fails to open. A migration is assumed to alter a table, so that it changes the
  tables and the version together or neither. A call on a closed handle fails or
  ends the process. `unsafeExecuteMultiple()` commits each of its statements by
  itself: a call with several is several steps, of which a failure leaves the
  first ones. `deleteSyncJson()` in the catch block of a load is taken not to throw
  (`DatabasePlatformAndroid.cpp:189`: only from a thread that is not Java's).
- In sync: turbo mode beyond what `NativeDatabase` has of it, the conflict resolver (an application's hook), migration
  information, `_unsafeBatchPerCollection` (batches of one pull are then
  committed one by one, `applyRemote.js:396`), more than one table, failure of one
  kind of destruction and not another within a block, the log.
- In the caches: Loki's batch that fails half way, `clearCachedRecords`, and
  reads that touch no cache (`queryIds`, `count`, raw queries).
- In the observers: a source that throws when a `SharedSubscribable` subscribes it
  (`SharedSubscribable/index.js:39`), `findAndObserve()` (`Collection/index.js:102`), observers of
  one record, throttled counts, Observables and the order of a list.
- The waiting queue of the SQLite connection in Node
  (`adapters/sqlite/sqlite-node/DatabaseBridge.js:200`), and the Loki driver's
  queue of actions, set-up and broken state.
- A reset whose adapter call fails leaves the error adapter in place
  (`Database/index.js:377`): `RecordCaches` stops there, as the program does.
- Pure functions (`stepsForMigration`, `getSyncChanges`, `encodeMatcher`, the
  generator's `diff` and planner, sanitizing raws): no state and no order of
  events; tables of unit tests in the repository reach their cases.
- Formatting: SQL text, emitted files, logs. The React bindings follow React.
- `PROJECT.json` gives the reason for every part that is left out.

## 7. Plan

Done: `WorkQueue` with `SerialExecutor`, `Sync`, `PeerRpc` with `PeerCall`,
`RecordCaches`, `NativeDatabase` with `DurableStore`, `Subscriptions`; proofs
for all of them. Left, in the order of their worth:

1. `Adapters`: the connection states and waiting queue of SQLite in Node, the
   action queue, asynchronous set-up and broken state of the Loki worker, against
   an abstract executor of calls in order.
2. Proofs: `LocalEditsSurvive` when batches that mark are rejected.
3. Pure algorithms as operators checked against reference definitions over all
   small inputs.
