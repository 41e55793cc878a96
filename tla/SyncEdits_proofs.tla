--------------------------- MODULE SyncEdits_proofs ---------------------------
(***************************************************************************)
(* That synchronize() undoes nothing the user did before the server has    *)
(* accepted it: what the user wrote stays in the row and stays marked for  *)
(* the next push (LocalEditsSurvive), what the user deleted stays deleted  *)
(* (LocalDeletionsSurvive). For any set of records and columns, when calls *)
(* do not overlap and no batch is rejected.                                *)
(*                                                                         *)
(* A row may be destroyed with what the user wrote in it when the server   *)
(* has deleted the record. That must be for good: a request that the       *)
(* server handles late could bring the record back without it. Deaths says *)
(* which requests could: none about a record whose row is not the client's *)
(* own creation. Its parts follow the times of requests (Timed), the rows  *)
(* whose record the server must have had (Upright), and what a pull says   *)
(* is gone (Buried).                                                       *)
(*                                                                         *)
(* Edited then follows what the user wrote: it is in the row, or lost with *)
(* a record that is dead for good (Held); a row created here is marked     *)
(* column by column once the server may have it (Fresh); what is about to  *)
(* be marked as synced holds nothing that the server has not (Copied); and *)
(* a merge keeps the columns that are marked (Merged).                     *)
(*                                                                         *)
(* Mourned follows what the user deleted: the row is there, marked, or gone*)
(* with a record that is dead for good (Departed); a pull brings none of   *)
(* these rows back, and what a push is about to destroy has been accepted  *)
(* (Mourns). This needs a server that sends what changed, all as updated   *)
(* (SentAsUpdated).                                                        *)
(***************************************************************************)
EXTENDS Sync_proofs

Dead(theirs) == theirs # NoRow /\ ~theirs.alive

(* No request that is under way can bring the record back: the server finds*)
(* a conflict.                                                             *)
DeadForGood(id, theirs, requests) ==
  /\ Dead(theirs)
  /\ \A request \in requests : id \in DOMAIN request.rows => request.since < theirs.mod

(* Whom a row came from: a row that is not the client's own creation is of *)
(* a record that the server has, or has changed after t.                   *)
Known(row) == row # NoRow /\ row.status \in {"synced", "updated"}
Stands(theirs, ours, t) == Known(ours) => Alive(theirs) \/ Changed(theirs, t)

Upright(remotes, rows, requests, t) ==
  /\ \A id \in Ids : Stands(remotes[id], rows[id], t)
  /\ \A request \in requests : \A id \in DOMAIN request.rows :
       Dead(remotes[id]) /\ remotes[id].mod <= request.since =>
         rows[id] = NoRow \/ (~Known(rows[id]) /\ request.since <= t)

(* The times that a call knows, and those of the requests under way.       *)
Timed(call, remotes, requests, t) ==
  /\ call.phase \in {"pulling", "pulled", "applyQueued"} => t <= call.since
  /\ call.phase = "fetchQueued" => call.pull.timestamp = t
  /\ call.phase \in Answered => \A request \in requests : request.since <= call.pull.timestamp
  /\ call.phase \in {"answered"} \cup Marks =>
       \A request \in requests, id \in DOMAIN call.copies \ call.rejected :
         Changed(remotes[id], request.since)

(* Rows while a pull is applied, before its time is stored.                *)
Outlast(call, remotes, rows) ==
  /\ call.phase = "applying" => \A id \in Ids \ (call.insert \cup call.destroy) :
       Stands(remotes[id], rows[id], call.pull.timestamp)
  /\ call.phase = "stamping" => \A id \in Ids : Stands(remotes[id], rows[id], call.pull.timestamp)

(* What a pull says is gone, and the client has, is dead for good.         *)
Buried(call, remotes, rows, requests) ==
  /\ call.phase \in {"pulled", "applyQueued"} => \A id \in Ids :
       /\ id \in call.pull.deleted => remotes[id] # NoRow
       /\ id \in call.pull.deleted /\ rows[id] # NoRow => DeadForGood(id, remotes[id], requests)
       /\ call.pull.strategy = "replacement" /\ id \notin DOMAIN call.pull.rows /\ Known(rows[id]) =>
            DeadForGood(id, remotes[id], requests)
  /\ call.phase = "applying" => \A id \in call.destroy : DeadForGood(id, remotes[id], requests)

Foretold(call, remotes, rows, requests, t) ==
  /\ Timed(call, remotes, requests, t)
  /\ Outlast(call, remotes, rows)
  /\ Buried(call, remotes, rows, requests)

(* Inductive together with IInv, Memory and Caught.                        *)
Deaths ==
  /\ \A request \in wire : request.since <= clock
  /\ Upright(server, store, wire, lastPulledAt)
  /\ \A s \in Sessions : Foretold(sync[s], server, store, wire, lastPulledAt)
-----------------------------------------------------------------------------
(* Requests that say the same as others.                                   *)
Echoes(requests, others) ==
  \A r \in requests : \E q \in others : r.since = q.since /\ r.rows = q.rows

LEMMA EchoedDead ==
  ASSUME NEW requests, NEW others, Echoes(requests, others), NEW id, NEW theirs,
         DeadForGood(id, theirs, others)
  PROVE  DeadForGood(id, theirs, requests)
BY DEF DeadForGood, Echoes

LEMMA EchoedBuried ==
  ASSUME NEW requests, NEW others, Echoes(requests, others), NEW call, NEW remotes, NEW rows,
         Buried(call, remotes, rows, others)
  PROVE  Buried(call, remotes, rows, requests)
BY EchoedDead DEF Buried

LEMMA EchoedTimed ==
  ASSUME NEW requests, NEW others, Echoes(requests, others), NEW call, NEW remotes, NEW t,
         Timed(call, remotes, others, t)
  PROVE  Timed(call, remotes, requests, t)
BY DEF Timed, Echoes

LEMMA EchoedUpright ==
  ASSUME NEW requests, NEW others, Echoes(requests, others), NEW remotes, NEW rows, NEW t,
         Upright(remotes, rows, others, t)
  PROVE  Upright(remotes, rows, requests, t)
BY DEF Upright, Echoes

(* Requests that are no longer awaited, or of which there are fewer.       *)
LEMMA FewerEcho ==
  ASSUME NEW requests, NEW others, requests \subseteq others
  PROVE  Echoes(requests, others)
BY DEF Echoes

LEMMA UnawaitedEcho ==
  ASSUME IInv, \A r \in wire' : \E q \in wire, b \in BOOLEAN : r = [q EXCEPT !.awaited = b]
  PROVE  Echoes(wire', wire)
<1>1. \A q \in PushRequest, b \in BOOLEAN :
        [q EXCEPT !.awaited = b].since = q.since /\ [q EXCEPT !.awaited = b].rows = q.rows
  BY DEF PushRequest
<1>2. wire \subseteq PushRequest
  BY DEF IInv, TypeOK
<1>3. ASSUME NEW r \in wire'
      PROVE  \E q \in wire : r.since = q.since /\ r.rows = q.rows
  <2>1. PICK q \in wire, b \in BOOLEAN : r = [q EXCEPT !.awaited = b]
    OBVIOUS
  <2>2. r.since = q.since /\ r.rows = q.rows
    BY <1>1, <1>2, <2>1
  <2> QED BY <2>2
<1> QED BY <1>3 DEF Echoes

LEMMA RequestIds ==
  ASSUME IInv, NEW request \in wire
  PROVE  /\ DOMAIN request.rows \subseteq Ids \cap used /\ request.rows \in Snapshots(Contents)
         /\ request.since \in Nat /\ request.from \in Sessions /\ request.deleted \subseteq Ids
         /\ request \in PushRequest
<1>1. request \in PushRequest
  BY DEF IInv, TypeOK
<1>2. request.rows \in Snapshots(Contents)
  BY <1>1 DEF PushRequest
<1> QED BY <1>1, <1>2, SnapshotElim DEF PushRequest, IInv, UsedIds

LEMMA TimesOf ==
  ASSUME IInv, NEW s \in Sessions
  PROVE  /\ clock \in Nat /\ lastPulledAt \in Nat /\ lastPulledAt <= clock
         /\ sync[s] \in Call /\ sync[s].since \in Nat /\ sync[s].pull.timestamp \in Nat
         /\ sync[s].pull \in Pull /\ sync[s].pull.timestamp <= clock
         /\ \A id \in Ids : server[id] # NoRow => server[id] \in ServerRow /\ server[id].mod \in Nat
BY DEF IInv, TypeOK, Times, Timely, Call, Pull, ServerRow

(* Rows that go, are deleted, or stay what they were; or that are new.     *)
Alike(old, new) == new = NoRow \/ (old # NoRow /\ (Known(new) => Known(old)))

Quiet(rows) ==
  \A id \in Ids : Alike(store[id], rows[id]) \/ (id \notin used /\ ~Known(rows[id]))

LEMMA QuietUpright ==
  ASSUME IInv, NEW t, Upright(server, store, wire, t), NEW rows, Quiet(rows)
  PROVE  Upright(server, rows, wire, t)
<1>1. \A id \in Ids : Stands(server[id], rows[id], t)
  BY DEF Upright, Quiet, Alike, Stands, Known
<1>2. ASSUME NEW request \in wire, NEW id \in DOMAIN request.rows,
             Dead(server[id]), server[id].mod <= request.since
      PROVE  rows[id] = NoRow \/ (~Known(rows[id]) /\ request.since <= t)
  <2>1. id \in Ids /\ id \in used
    BY RequestIds
  <2>2. store[id] = NoRow \/ (~Known(store[id]) /\ request.since <= t)
    BY <1>2 DEF Upright
  <2> QED BY <2>1, <2>2 DEF Quiet, Alike
<1> QED BY <1>1, <1>2 DEF Upright

(* A call outside of its blocks does not mind what the user does, or a     *)
(* reset.                                                                  *)
SameCourse(call, before) ==
  /\ call.phase = before.phase /\ call.pull = before.pull /\ call.since = before.since
  /\ DOMAIN call.copies \subseteq DOMAIN before.copies /\ call.rejected = before.rejected

LEMMA QuietForetold ==
  ASSUME IInv, Deaths, NEW s \in Sessions, sync[s].phase \notin Inside, NEW call,
         SameCourse(call, sync[s]), NEW rows, Quiet(rows), NEW t, t = lastPulledAt \/ t = 0,
         call.phase = "fetchQueued" => t = lastPulledAt
  PROVE  Foretold(call, server, rows, wire, t)
<1> USE DEF SameCourse
<1>1. Timed(sync[s], server, wire, lastPulledAt) /\ Buried(sync[s], server, store, wire)
  BY DEF Deaths, Foretold
<1>2. Timed(call, server, wire, t)
  BY <1>1, TimesOf DEF Timed
<1>3. Outlast(call, server, rows)
  BY DEF Outlast, Inside
<1>4. Buried(call, server, rows, wire)
  <2>1. call.phase # "applying"
    BY DEF Inside
  <2>2. ASSUME call.phase \in {"pulled", "applyQueued"}, NEW id \in Ids
        PROVE  /\ id \in call.pull.deleted => server[id] # NoRow
               /\ id \in call.pull.deleted /\ rows[id] # NoRow => DeadForGood(id, server[id], wire)
               /\ call.pull.strategy = "replacement" /\ id \notin DOMAIN call.pull.rows /\ Known(rows[id]) =>
                    DeadForGood(id, server[id], wire)
    <3>1. /\ id \in call.pull.deleted => server[id] # NoRow
          /\ id \in call.pull.deleted /\ store[id] # NoRow => DeadForGood(id, server[id], wire)
          /\ call.pull.strategy = "replacement" /\ id \notin DOMAIN call.pull.rows /\ Known(store[id]) =>
               DeadForGood(id, server[id], wire)
      BY <1>1, <2>2 DEF Buried
    <3>2. id \in call.pull.deleted => id \in used
      BY <3>1 DEF IInv, UsedIds
    <3> QED BY <3>1, <3>2 DEF Quiet, Alike, Known
  <2> QED BY <2>1, <2>2 DEF Buried
<1> QED BY <1>2, <1>3, <1>4 DEF Foretold

LEMMA IdleForetold ==
  \A remotes, rows, requests, t : Foretold(Idle, remotes, rows, requests, t)
<1> SUFFICES ASSUME NEW remotes, NEW rows, NEW requests, NEW t
             PROVE  Foretold(Idle, remotes, rows, requests, t)
  OBVIOUS
<1>1. Idle.phase = "idle"
  BY DEF Idle
<1> QED BY <1>1 DEF Foretold, Timed, Outlast, Buried, Answered, Marks

-----------------------------------------------------------------------------
(* Steps that leave the server and lastPulledAt as they are.               *)
LEMMA QuietDeaths ==
  ASSUME IInv, Deaths, UNCHANGED <<server, clock, lastPulledAt>>, Echoes(wire', wire), Quiet(store'),
         \A s \in Sessions : Foretold(sync'[s], server, store', wire, lastPulledAt)
  PROVE  Deaths'
<1>1. \A request \in wire' : request.since <= clock
  BY DEF Deaths, Echoes
<1>2. Upright(server, store', wire', lastPulledAt)
  BY QuietUpright, EchoedUpright DEF Deaths
<1>3. \A s \in Sessions : Foretold(sync'[s], server, store', wire', lastPulledAt)
  BY EchoedTimed, EchoedBuried DEF Foretold
<1> QED BY <1>1, <1>2, <1>3 DEF Deaths

LEMMA SameRowsQuiet == Quiet(store)
BY DEF Quiet, Alike

LEMMA CallDeaths ==
  ASSUME IInv, OneCall, Deaths, NEW s \in Sessions, NEW state, Become(s, state),
         UNCHANGED <<server, clock, lastPulledAt>>, Echoes(wire', wire), Quiet(store'),
         Foretold(state, server, store', wire, lastPulledAt)
  PROVE  Deaths'
<1>1. \A t \in Sessions : sync'[t] = state
  BY BecomeKeeps DEF OneCall
<1> QED BY <1>1, QuietDeaths

LEMMA GivesUpDeaths ==
  ASSUME IInv, OneCall, Deaths, NEW s \in Sessions, Become(s, Idle),
         UNCHANGED <<server, clock, lastPulledAt, store>>, Echoes(wire', wire)
  PROVE  Deaths'
BY CallDeaths, IdleForetold, SameRowsQuiet

LEMMA StartDeaths ==
  ASSUME IInv, OneCall, Deaths, NEW s \in Sessions, Start(s)
  PROVE  Deaths'
<1> DEFINE state == [Idle EXCEPT !.phase = "pulling", !.resets = resetCount, !.since = lastPulledAt]
<1>1. Become(s, state) /\ UNCHANGED <<store, lastPulledAt, server, clock, wire>>
  BY DEF Start, db, remote
<1>2. state.phase = "pulling" /\ state.since = lastPulledAt
  BY IdleIsACall DEF Call
<1> HIDE DEF state
<1>3. Foretold(state, server, store, wire, lastPulledAt)
  BY <1>2, TimesOf DEF Foretold, Timed, Outlast, Buried, Answered, Marks
<1>4. Echoes(wire', wire)
  BY <1>1, FewerEcho
<1> QED BY <1>1, <1>3, <1>4, CallDeaths, SameRowsQuiet

(* A record that the server has deleted since the client last pulled, or   *)
(* that it must have had: no request under way can bring it back.          *)
LEMMA GoneIsDead ==
  ASSUME IInv, Deaths, NEW id \in Ids, Dead(server[id]),
         Known(store[id]) \/ (store[id] # NoRow /\ lastPulledAt < server[id].mod)
  PROVE  DeadForGood(id, server[id], wire)
<1> SUFFICES ASSUME NEW request \in wire, id \in DOMAIN request.rows, ~(request.since < server[id].mod)
             PROVE  FALSE
  BY DEF DeadForGood
<1>1. request.since \in Nat /\ server[id].mod \in Nat /\ lastPulledAt \in Nat
  BY RequestIds DEF Dead, IInv, TypeOK, ServerRow
<1>2. store[id] = NoRow \/ (~Known(store[id]) /\ request.since <= lastPulledAt)
  BY <1>1 DEF Deaths, Upright
<1> QED BY <1>1, <1>2 DEF Known

LEMMA ServerAnswersPullDeaths ==
  ASSUME IInv, OneCall, Caught, Deaths, NEW s \in Sessions, NEW strategy \in Strategies,
         ServerAnswersPull(s, strategy)
  PROVE  Deaths'
<1> DEFINE since   == IF strategy = "replacement" THEN 0 ELSE sync[s].since
           changed == {id \in Ids : server[id] # NoRow /\ server[id].mod > since}
           alive   == {id \in changed : Exists(id)}
           pull == [rows      |-> [id \in alive |-> server[id].vals],
                    created   |-> {id \in alive : /\ ServerReportsCreated
                                                  /\ server[id].born > sync[s].since},
                    deleted   |-> IF strategy = "replacement" THEN {} ELSE changed \ alive,
                    timestamp |-> clock,
                    strategy  |-> strategy]
           state == [sync[s] EXCEPT !.phase = "pulled", !.pull = pull]
<1>1. /\ Become(s, state) /\ sync[s].phase = "pulling"
      /\ UNCHANGED <<store, lastPulledAt, server, clock, wire>>
  BY DEF ServerAnswersPull, db, remote
<1>2. /\ DOMAIN pull.rows = alive /\ pull.timestamp = clock /\ pull.strategy = strategy
      /\ pull.deleted = (IF strategy = "replacement" THEN {} ELSE changed \ alive)
  OBVIOUS
<1> HIDE DEF pull
<1>3. state.phase = "pulled" /\ state.pull = pull /\ state.since = sync[s].since
  BY TimesOf DEF Call
<1> HIDE DEF state
<1>4. lastPulledAt <= sync[s].since
  BY <1>1 DEF Deaths, Foretold, Timed
<1>5. Timed(state, server, wire, lastPulledAt)
  BY <1>2, <1>3, <1>4 DEF Timed, Deaths, Marks
<1>6. ASSUME NEW id \in Ids, id \in pull.deleted
      PROVE  /\ server[id] # NoRow
             /\ store[id] # NoRow => DeadForGood(id, server[id], wire)
  <2>1. Dead(server[id]) /\ server[id].mod > sync[s].since
    BY <1>2, <1>6 DEF Dead, Exists
  <2>2. lastPulledAt < server[id].mod
    BY <1>4, <2>1, TimesOf DEF Dead
  <2> QED BY <2>1, <2>2, GoneIsDead DEF Dead
<1>7. ASSUME NEW id \in Ids, pull.strategy = "replacement", id \notin DOMAIN pull.rows, Known(store[id])
      PROVE  DeadForGood(id, server[id], wire)
  <2>1. server[id] # NoRow
    BY <1>7 DEF Deaths, Upright, Stands, Alive, Changed
  <2>2. Dead(server[id])
    BY <1>2, <1>7, <2>1, TimesOf DEF Caught, Exists, Dead
  <2> QED BY <1>7, <2>2, GoneIsDead
<1>8. Outlast(state, server, store) /\ Buried(state, server, store, wire)
  BY <1>3, <1>6, <1>7 DEF Outlast, Buried
<1>9. Echoes(wire', wire)
  BY <1>1, FewerEcho
<1> QED BY <1>1, <1>5, <1>8, <1>9, CallDeaths, SameRowsQuiet DEF Foretold

LEMMA PullArrivesDeaths ==
  ASSUME IInv, OneCall, Deaths, NEW s \in Sessions, PullArrives(s)
  PROVE  Deaths'
<1> DEFINE state == [sync[s] EXCEPT !.phase = "applyQueued"]
<1>1. Become(s, state) /\ sync[s].phase = "pulled" /\ UNCHANGED <<store, lastPulledAt, server, clock, wire>>
  BY DEF PullArrives, db, remote
<1>2. state.phase = "applyQueued" /\ state.pull = sync[s].pull /\ state.since = sync[s].since
  BY TimesOf DEF Call
<1> HIDE DEF state
<1>3. Foretold(sync[s], server, store, wire, lastPulledAt)
  BY DEF Deaths
<1>4. Foretold(state, server, store, wire, lastPulledAt)
  BY <1>1, <1>2, <1>3 DEF Foretold, Timed, Outlast, Buried, Answered, Marks
<1>5. Echoes(wire', wire)
  BY <1>1, FewerEcho
<1> QED BY <1>1, <1>4, <1>5, CallDeaths, SameRowsQuiet

LEMMA FailsDeaths ==
  ASSUME IInv, OneCall, Deaths, NEW s \in Sessions, PullFails(s) \/ PushFails(s)
  PROVE  Deaths'
<1>1. Become(s, Idle) /\ UNCHANGED <<server, clock, lastPulledAt, store>>
  BY DEF PullFails, PushFails, db, remote
<1>2. CASE PullFails(s)
  BY <1>1, <1>2, FewerEcho, GivesUpDeaths DEF PullFails
<1>3. CASE PushFails(s)
  <2>1. \A request \in wire : (request.awaited /\ request.from # s) \in BOOLEAN
    OBVIOUS
  <2>2. \A r \in wire' : \E q \in wire, b \in BOOLEAN : r = [q EXCEPT !.awaited = b]
    BY <1>3, <2>1 DEF PushFails, NotAwaited
  <2> QED BY <1>1, <2>2, UnawaitedEcho, GivesUpDeaths
<1> QED BY <1>2, <1>3

LEMMA PushAnsweredDeaths ==
  ASSUME IInv, OneCall, Deaths, NEW s \in Sessions, PushAnswered(s)
  PROVE  Deaths'
<1> DEFINE state == [sync[s] EXCEPT !.phase = "markQueued"]
<1>1. /\ sync[s].phase = "answered" /\ UNCHANGED <<store, lastPulledAt, server, clock, wire>>
      /\ Become(s, state) \/ Become(s, Idle)
  BY DEF PushAnswered, db, remote
<1>2. /\ state.phase = "markQueued" /\ state.copies = sync[s].copies /\ state.rejected = sync[s].rejected
  BY TimesOf DEF Call
<1> HIDE DEF state
<1>3. Foretold(sync[s], server, store, wire, lastPulledAt)
  BY DEF Deaths
<1>4. Foretold(state, server, store, wire, lastPulledAt)
  BY <1>1, <1>2, <1>3 DEF Foretold, Timed, Outlast, Buried, Answered, Marks
<1>5. Echoes(wire', wire)
  BY <1>1, FewerEcho
<1> QED BY <1>1, <1>4, <1>5, CallDeaths, SameRowsQuiet, GivesUpDeaths

LEMMA MarkLocalChangesAsSyncedDeaths ==
  ASSUME IInv, OneCall, Deaths, NEW s \in Sessions, MarkLocalChangesAsSynced(s)
  PROVE  Deaths'
<1> DEFINE marks == recordsToMarkAsSynced(s)
           state == [sync[s] EXCEPT !.phase = "marking", !.update = marks]
<1>1. /\ sync[s].phase = "markQueued" /\ UNCHANGED <<store, lastPulledAt, server, clock, wire>>
      /\ Become(s, state)
  BY DEF MarkLocalChangesAsSynced, remote
<1> HIDE DEF marks
<1>2. /\ state.phase = "marking" /\ state.copies = sync[s].copies /\ state.rejected = sync[s].rejected
  BY TimesOf DEF Call
<1> HIDE DEF state
<1>3. Foretold(sync[s], server, store, wire, lastPulledAt)
  BY DEF Deaths
<1>4. Foretold(state, server, store, wire, lastPulledAt)
  BY <1>1, <1>2, <1>3 DEF Foretold, Timed, Outlast, Buried, Answered, Marks
<1>5. Echoes(wire', wire)
  BY <1>1, FewerEcho
<1> QED BY <1>1, <1>4, <1>5, CallDeaths, SameRowsQuiet

LEMMA MarkDestroysDeaths ==
  ASSUME IInv, OneCall, Deaths, NEW s \in Sessions, MarkDestroys(s)
  PROVE  Deaths'
<1>1. /\ UNCHANGED <<lastPulledAt, server, clock, wire>> /\ Become(s, Idle)
      /\ store' = [id \in Ids |-> IF id \in toDestroy(s) THEN NoRow ELSE store[id]]
  BY DEF MarkDestroys, remote
<1>2. Quiet(store')
  BY <1>1 DEF Quiet, Alike
<1>3. Echoes(wire', wire)
  BY <1>1, FewerEcho
<1> QED BY <1>1, <1>2, <1>3, CallDeaths, IdleForetold

(* What is marked as synced has been changed on the server after the       *)
(* client sent any request that is under way.                              *)
LEMMA MarkBatchDeaths ==
  ASSUME IInv, OneCall, Caught, Deaths, NEW s \in Sessions, MarkBatch(s)
  PROVE  Deaths'
<1> DEFINE state == [sync[s] EXCEPT !.phase = "destroying", !.update = {}]
<1>1. /\ sync[s].phase = "marking" /\ Become(s, state)
      /\ store' = [id \in Ids |-> IF id \in sync[s].update /\ store[id] # NoRow
                                  THEN Marked(sync[s].copies[id]) ELSE store[id]]
      /\ UNCHANGED <<lastPulledAt, server, clock, wire>>
  BY DEF MarkBatch, remote
<1>2. /\ state.phase = "destroying" /\ state.copies = sync[s].copies /\ state.rejected = sync[s].rejected
  BY TimesOf DEF Call
<1> HIDE DEF state
<1>3. /\ Told(sync[s], server, store, mem, lastPulledAt) /\ Foretold(sync[s], server, store, wire, lastPulledAt)
      /\ sync[s].update \subseteq DOMAIN sync[s].copies
  BY <1>1 DEF Caught, Deaths, IInv, Rows, Fits, FitsIn
<1>4. \A id \in Ids : id \in sync[s].update =>
        /\ Changed(server[id], lastPulledAt)
        /\ \A request \in wire : Changed(server[id], request.since)
  BY <1>1, <1>3 DEF Told, Foretold, Timed, Marks
<1>5. \A id \in Ids : Stands(server[id], store'[id], lastPulledAt)
  BY <1>1, <1>4 DEF Deaths, Upright, Stands
<1>6. ASSUME NEW request \in wire, NEW id \in DOMAIN request.rows,
             Dead(server[id]), server[id].mod <= request.since
      PROVE  store'[id] = NoRow \/ (~Known(store'[id]) /\ request.since <= lastPulledAt)
  <2>1. id \in Ids /\ request.since \in Nat
    BY RequestIds
  <2>2. server[id].mod \in Nat
    BY <1>6, <2>1, TimesOf DEF Dead
  <2>3. id \notin sync[s].update
    BY <1>4, <1>6, <2>1, <2>2 DEF Changed
  <2>4. store'[id] = store[id]
    BY <1>1, <2>1, <2>3
  <2> QED BY <1>6, <2>4 DEF Deaths, Upright
<1>7. Foretold(state, server, store', wire, lastPulledAt)
  BY <1>1, <1>2, <1>3 DEF Foretold, Timed, Outlast, Buried, Answered, Marks
<1>8. \A t \in Sessions : sync'[t] = state
  BY <1>1, BecomeKeeps DEF OneCall
<1> QED BY <1>1, <1>5, <1>6, <1>7, <1>8 DEF Deaths, Upright

LEMMA FetchLocalChangesDeaths ==
  ASSUME IInv, OneCall, Deaths, NEW s \in Sessions, FetchLocalChanges(s)
  PROVE  Deaths'
<1> DEFINE state == [sync[s] EXCEPT !.phase = "pushing", !.copies = Only(mem, unsynced),
                                    !.pushedDeleted = LocallyDeleted]
<1>1. /\ sync[s].phase = "fetchQueued" /\ UNCHANGED <<store, lastPulledAt, server, clock>>
      /\ \/ Become(s, state) /\ wire' = wire \cup {Request(s)}
         \/ Become(s, Idle) /\ UNCHANGED wire
  BY DEF FetchLocalChanges, db, remote
<1>2. CASE Become(s, state) /\ wire' = wire \cup {Request(s)}
  <2>1. state.phase = "pushing"
    BY TimesOf DEF Call
  <2> HIDE DEF state
  <2>2. /\ sync[s].pull.timestamp = lastPulledAt /\ Request(s).since = sync[s].pull.timestamp
        /\ DOMAIN Request(s).rows = unsynced
    BY <1>1 DEF Deaths, Foretold, Timed, Request
  <2>3. \A request \in wire' : request.since <= clock
    BY <1>2, <2>2, TimesOf DEF Deaths
  <2>4. ASSUME NEW id \in unsynced, Dead(server[id]), server[id].mod <= lastPulledAt
        PROVE  ~Known(store[id])
    <3>1. id \in Ids /\ Stands(server[id], store[id], lastPulledAt)
      BY DEF unsynced, Deaths, Upright
    <3> QED BY <2>4, <3>1, TimesOf DEF Stands, Alive, Dead, Changed
  <2>5. Upright(server, store, wire', lastPulledAt)
    BY <1>2, <2>2, <2>4, TimesOf DEF Deaths, Upright
  <2>6. Foretold(state, server, store, wire', lastPulledAt)
    BY <2>1 DEF Foretold, Timed, Outlast, Buried, Answered, Marks
  <2>7. \A t \in Sessions : sync'[t] = state
    BY <1>2, BecomeKeeps DEF OneCall
  <2> QED BY <1>1, <2>3, <2>5, <2>6, <2>7 DEF Deaths
<1>3. CASE Become(s, Idle) /\ UNCHANGED wire
  BY <1>1, <1>3, FewerEcho, GivesUpDeaths
<1> QED BY <1>1, <1>2, <1>3

LEMMA SetLastPulledAtDeaths ==
  ASSUME IInv, OneCall, Deaths, NEW s \in Sessions, SetLastPulledAt(s)
  PROVE  Deaths'
<1> DEFINE state == [sync[s] EXCEPT !.phase = "fetchQueued"]
<1>1. /\ sync[s].phase = "stamping" /\ Become(s, state) /\ UNCHANGED <<store, server, clock, wire>>
      /\ lastPulledAt' = sync[s].pull.timestamp
  BY DEF SetLastPulledAt, pulledAt, remote
<1>2. state.phase = "fetchQueued" /\ state.pull = sync[s].pull
  BY TimesOf DEF Call
<1> HIDE DEF state
<1>3. \A id \in Ids : Stands(server[id], store[id], sync[s].pull.timestamp)
  BY <1>1 DEF Deaths, Foretold, Outlast
<1>4. lastPulledAt <= sync[s].pull.timestamp
  BY <1>1, TimesOf DEF IInv, Times, Timely, Answered
<1>5. ASSUME NEW request \in wire, NEW id \in DOMAIN request.rows,
             Dead(server[id]), server[id].mod <= request.since
      PROVE  store[id] = NoRow \/ (~Known(store[id]) /\ request.since <= sync[s].pull.timestamp)
  <2>1. request.since \in Nat
    BY RequestIds
  <2> QED BY <1>4, <1>5, <2>1, TimesOf DEF Deaths, Upright
<1>6. Upright(server, store, wire, sync[s].pull.timestamp)
  BY <1>3, <1>5 DEF Upright
<1>7. Foretold(state, server, store, wire, sync[s].pull.timestamp)
  BY <1>2 DEF Foretold, Timed, Outlast, Buried, Answered, Marks
<1>8. \A t \in Sessions : sync'[t] = state
  BY <1>1, BecomeKeeps DEF OneCall
<1> QED BY <1>1, <1>6, <1>7, <1>8 DEF Deaths

(* What is pulled, and what is destroyed because the pull says it is gone. *)
LEMMA ApplyRemoteChangesDeaths ==
  ASSUME IInv, Memory, OneCall, Caught, Deaths, NEW s \in Sessions, ApplyRemoteChanges(s)
  PROVE  Deaths'
<1> DEFINE pull  == sync[s].pull
           state == [sync[s] EXCEPT !.phase = "applying", !.insert = toInsert(pull),
                       !.update = toUpdate(pull), !.destroy = gone(pull) \cap Live]
<1>1. /\ sync[s].phase = "applyQueued" /\ UNCHANGED <<lastPulledAt, server, clock, wire>> /\ sync[s] \in Call
  BY DEF ApplyRemoteChanges, IInv, TypeOK, remote
<1>2. Echoes(wire', wire)
  BY <1>1, FewerEcho
<1>3. CASE ~mayApply(s)
  BY <1>1, <1>2, <1>3, GivesUpDeaths DEF ApplyRemoteChanges
<1>4. CASE mayApply(s)
  <2>1. /\ Become(s, state) /\ sync[s].since = lastPulledAt
        /\ store' = [id \in Ids |->
             IF id \in (gone(pull) \cap LocallyDeleted) \union recreated(pull)
             THEN NoRow ELSE store[id]]
    BY <1>4 DEF ApplyRemoteChanges, mayApply
  <2>2. /\ state.phase = "applying" /\ state.insert = toInsert(pull)
        /\ state.destroy = gone(pull) \cap Live /\ state.pull = pull
    BY ONLY <1>1 DEF Call, Phases
  <2>3. \A id \in Ids : Tells(pull, sync[s].since, id, server[id])
    BY <1>1 DEF Caught, Told, Answered
  <2>4. Foretold(sync[s], server, store, wire, lastPulledAt)
    BY DEF Deaths
  <2>5. \A id \in Ids : /\ Agrees(store[id], mem[id])
                        /\ store[id] \in Row \cup {NoRow}
    BY <1>1, OutsideAgree DEF Agree, Inside, IInv, TypeOK
  <2> HIDE DEF state
  <2>6. Quiet(store')
    BY <2>1 DEF Quiet, Alike
  <2>7. Timed(state, server, wire, lastPulledAt)
    BY <1>1, <2>2, <2>4 DEF Foretold, Timed, Answered, Marks
  <2>8. ASSUME NEW id \in Ids, id \notin gone(pull) \cap Live
        PROVE  Stands(server[id], store'[id], pull.timestamp)
    <3> SUFFICES ASSUME Known(store'[id]), ~Changed(server[id], pull.timestamp)
                 PROVE  Alive(server[id])
      BY DEF Stands
    <3>1. store'[id] = store[id] /\ Known(store[id]) /\ id \in Live
      BY <2>1 DEF Known, Live, IsLive
    <3>2. mem[id].status # "created"
      BY <2>5, <3>1 DEF Agrees, Live, Known
    <3>3. id \notin gone(pull)
      BY <2>8, <3>1
    <3>4. CASE id \in DOMAIN pull.rows
      BY <2>3, <3>4 DEF Tells
    <3>5. CASE id \notin DOMAIN pull.rows
      <4>1. id \notin pull.deleted /\ pull.strategy # "replacement"
        <5>1. IF pull.strategy = "replacement" THEN FALSE ELSE id \notin pull.deleted
          BY <3>2, <3>3, <3>5 DEF gone
        <5>2. pull \in Pull
          BY TimesOf
        <5>3. pull.strategy # "replacement"
          BY <5>1
        <5> QED BY <5>1, <5>3
      <4>2. ~Changed(server[id], lastPulledAt)
        BY <2>1, <2>3, <3>5, <4>1 DEF Tells
      <4> QED BY <3>1, <4>2 DEF Deaths, Upright, Stands
    <3> QED BY <3>4, <3>5
  <2>9. ASSUME NEW id \in gone(pull) \cap Live
        PROVE  DeadForGood(id, server[id], wire)
    <3>1. id \in Ids /\ store[id] # NoRow /\ IsLive(store[id]) /\ store[id] = mem[id]
      BY <2>5 DEF Live, IsLive, Agrees
    <3>2. CASE pull.strategy = "replacement"
      <4>1. id \notin DOMAIN pull.rows /\ store[id].status # "created"
        BY <3>1, <3>2 DEF gone
      <4>2. Known(store[id])
        BY <2>5, <3>1, <4>1 DEF Known, IsLive, Row
      <4> QED BY <1>1, <2>4, <3>1, <3>2, <4>1, <4>2 DEF Foretold, Buried
    <3>3. CASE pull.strategy # "replacement"
      <4>1. id \in pull.deleted
        BY <3>3 DEF gone
      <4> QED BY <1>1, <2>4, <3>1, <4>1 DEF Foretold, Buried
    <3> QED BY <3>2, <3>3
  <2>10. Outlast(state, server, store')
    BY <2>2, <2>8 DEF Outlast
  <2>11. Buried(state, server, store', wire)
    BY <2>2, <2>9 DEF Buried
  <2> QED BY <1>1, <1>2, <2>1, <2>6, <2>7, <2>10, <2>11, CallDeaths DEF Foretold
<1> QED BY <1>3, <1>4

(* After the batch a call goes on with the pull that it applied.           *)
LEMMA Stamps ==
  ASSUME IInv, NEW s \in Sessions, ApplyBatch(s)
  PROVE  sync'[s].phase = "stamping" /\ sync'[s].pull = sync[s].pull
<1> DEFINE left  == Forget(sync[s].destroy)
           after == [left[s] EXCEPT !.phase = "stamping", !.insert = {}, !.update = {}, !.destroy = {}]
<1>1. /\ left \in [Sessions -> Call]
      /\ \A t \in Sessions : left[t] = [sync[t] EXCEPT !.copies = left[t].copies]
  BY ONLY IInv, Forgotten, ZenonT(30) DEF Forget
<1>2. sync' = [left EXCEPT ![s] = after]
  BY DEF ApplyBatch
<1> HIDE DEF left
<1>3. sync'[s] = after /\ left[s] \in Call /\ left[s] = [sync[s] EXCEPT !.copies = left[s].copies]
  BY ONLY <1>1, <1>2, s \in Sessions
<1>4. left[s].pull = sync[s].pull
  <2>1. sync[s] \in Call
    BY TimesOf
  <2> QED BY ONLY <1>3, <2>1 DEF Call
<1>5. after.phase = "stamping" /\ after.pull = left[s].pull
  BY ONLY <1>3 DEF Call
<1> QED BY ONLY <1>3, <1>4, <1>5

LEMMA ApplyBatchDeaths ==
  ASSUME IInv, OneCall, Caught, Deaths, NEW s \in Sessions, ApplyBatch(s)
  PROVE  Deaths'
<1> DEFINE rec   == sync[s]
           state == sync'[s]
           at    == rec.pull.timestamp
<1>1. /\ rec.phase = "applying"
      /\ store' = [id \in Ids |-> CASE id \in rec.insert  -> Pulled(rec.pull.rows[id])
                                    [] id \in rec.update  -> mem[id]
                                    [] id \in rec.destroy -> NoRow
                                    [] OTHER              -> store[id]]
      /\ UNCHANGED <<lastPulledAt, server, clock, wire>>
  BY DEF ApplyBatch, remote
<1>2. sync'[s] = state /\ state.phase = "stamping" /\ state.pull = rec.pull
  BY Stamps
<1> HIDE DEF state
<1>3. /\ rec.insert \cup rec.update \subseteq DOMAIN rec.pull.rows
      /\ at \in Nat /\ lastPulledAt \in Nat /\ lastPulledAt <= at
  <2>1. Fits(rec) /\ Timely(rec) /\ rec \in Call
    BY DEF IInv, TypeOK, Rows, Times
  <2> QED BY <1>1, <2>1, TimesOf DEF Fits, FitsIn, Timely, Answered
<1>4. Foretold(rec, server, store, wire, lastPulledAt)
  BY DEF Deaths
<1>5. ASSUME NEW id \in Ids
      PROVE  \/ Alive(server[id]) \/ Changed(server[id], at)
             \/ /\ id \notin DOMAIN rec.pull.rows
                /\ store'[id] = NoRow \/ (store'[id] = store[id] /\ Stands(server[id], store[id], at))
  <2>1. Tells(rec.pull, rec.since, id, server[id])
    BY <1>1 DEF Caught, Told, Answered
  <2>2. CASE id \in DOMAIN rec.pull.rows
    BY <2>1, <2>2 DEF Tells
  <2>3. CASE id \notin DOMAIN rec.pull.rows
    <3>1. id \notin rec.insert /\ id \notin rec.update
      BY <1>3, <2>3
    <3>2. store'[id] = IF id \in rec.destroy THEN NoRow ELSE store[id]
      BY <1>1, <3>1
    <3>3. id \notin rec.destroy => Stands(server[id], store[id], at)
      BY <1>1, <1>4, <3>1 DEF Foretold, Outlast
    <3> QED BY <2>3, <3>2, <3>3
  <2> QED BY <2>2, <2>3
<1>6. \A id \in Ids : Stands(server[id], store'[id], at)
  BY <1>5 DEF Stands, Known
<1>7. \A id \in Ids : Stands(server[id], store'[id], lastPulledAt)
  <2>1. \A id \in Ids : Changed(server[id], at) => Changed(server[id], lastPulledAt)
    BY <1>3, TimesOf DEF Changed
  <2> QED BY <1>6, <2>1 DEF Stands
<1>8. ASSUME NEW request \in wire, NEW id \in DOMAIN request.rows,
             Dead(server[id]), server[id].mod <= request.since
      PROVE  store'[id] = NoRow \/ (~Known(store'[id]) /\ request.since <= lastPulledAt)
  <2>1. id \in Ids /\ request.since \in Nat /\ request.since <= at /\ server[id].mod \in Nat
    BY <1>1, <1>4, <1>8, RequestIds, TimesOf DEF Foretold, Timed, Answered, Dead
  <2>2. ~Alive(server[id]) /\ ~Changed(server[id], at)
    BY <1>3, <1>8, <2>1 DEF Alive, Dead, Changed
  <2>3. store'[id] = NoRow \/ store'[id] = store[id]
    BY <1>5, <2>1, <2>2
  <2> QED BY <1>8, <2>3 DEF Deaths, Upright
<1>9. Foretold(state, server, store', wire, lastPulledAt)
  BY <1>1, <1>2, <1>4, <1>6 DEF Foretold, Timed, Outlast, Buried, Answered, Marks
<1>10. \A t \in Sessions : sync'[t] = state
  BY <1>2 DEF OneCall
<1> QED BY <1>1, <1>7, <1>8, <1>9, <1>10 DEF Deaths, Upright

-----------------------------------------------------------------------------
(* What the server changes, it changes after every request under way.      *)
LEMMA ServerForetold ==
  ASSUME IInv, Deaths, NEW call \in Call, Timely(call), NEW sv,
         \A id \in Ids : Moved(server[id], sv[id], clock),
         \A id \in Ids : DeadForGood(id, server[id], wire) => sv[id] = server[id],
         Foretold(call, server, store, wire, lastPulledAt)
  PROVE  Foretold(call, sv, store, wire, lastPulledAt) /\ Upright(sv, store, wire, lastPulledAt)
<1>1. /\ clock \in Nat /\ lastPulledAt \in Nat /\ call.pull.timestamp \in Nat
      /\ lastPulledAt <= clock /\ call.pull.timestamp <= clock
  BY DEF IInv, TypeOK, Times, Timely, Call, Pull
<1>2. \A id \in Ids, t \in Nat : t <= clock => sv[id] = server[id] \/ Changed(sv[id], t)
  BY <1>1 DEF Moved, Changed
<1>3. \A id \in Ids : /\ sv[id] = server[id] \/ Changed(sv[id], lastPulledAt)
                      /\ sv[id] = server[id] \/ Changed(sv[id], call.pull.timestamp)
  BY ONLY <1>1, <1>2
<1>4. \A request \in wire : request.since \in Nat /\ request.since <= clock
  BY RequestIds DEF Deaths
<1>5. \A request \in wire, id \in Ids : sv[id] = server[id] \/ Changed(sv[id], request.since)
  BY ONLY <1>2, <1>4
<1>6. Timed(call, sv, wire, lastPulledAt)
  <2>1. DOMAIN call.copies \subseteq Ids
    <3>1. call.copies \in Snapshots(Row)
      BY DEF Call
    <3> QED BY <3>1, SnapshotElim
  <2>2. ASSUME call.phase \in {"answered"} \cup Marks, NEW request \in wire,
               NEW id \in DOMAIN call.copies \ call.rejected
        PROVE  Changed(sv[id], request.since)
    <3>1. Changed(server[id], request.since) /\ id \in Ids
      BY <2>1, <2>2 DEF Foretold, Timed
    <3>2. sv[id] = server[id] \/ Changed(sv[id], request.since)
      BY <1>5, <3>1
    <3> QED BY ONLY <3>1, <3>2
  <2> QED BY <2>2 DEF Foretold, Timed
<1>7. Outlast(call, sv, store)
  BY <1>3 DEF Foretold, Outlast, Stands
<1>8. ASSUME NEW id \in Ids
      PROVE  /\ DeadForGood(id, server[id], wire) => DeadForGood(id, sv[id], wire)
             /\ server[id] # NoRow => sv[id] # NoRow
  BY DEF Moved
<1>9. call.destroy \subseteq Ids
  BY DEF Call
<1>10. Buried(call, sv, store, wire)
  BY <1>8, <1>9 DEF Foretold, Buried
<1>11. \A id \in Ids : Stands(sv[id], store[id], lastPulledAt)
  BY <1>3 DEF Deaths, Upright, Stands
<1>12. ASSUME NEW request \in wire, NEW id \in DOMAIN request.rows, Dead(sv[id]), sv[id].mod <= request.since
       PROVE  store[id] = NoRow \/ (~Known(store[id]) /\ request.since <= lastPulledAt)
  <2>1. id \in Ids
    BY RequestIds
  <2>2. sv[id] = server[id]
    BY <1>1, <1>4, <1>12, <2>1 DEF Moved
  <2> QED BY <1>12, <2>2 DEF Deaths, Upright
<1> QED BY <1>6, <1>7, <1>10, <1>11, <1>12 DEF Foretold, Upright

LEMMA ServerDeaths ==
  ASSUME IInv, Deaths, UNCHANGED <<store, lastPulledAt>>, clock' = clock + 1, wire' \subseteq wire,
         \A id \in Ids : Moved(server[id], server'[id], clock),
         \A id \in Ids : DeadForGood(id, server[id], wire) => server'[id] = server[id],
         \A s \in Sessions : \/ sync'[s] = sync[s]
                             \/ Foretold(sync'[s], server', store, wire, lastPulledAt)
  PROVE  Deaths'
<1>1. Echoes(wire', wire)
  BY FewerEcho
<1>2. clock \in Nat /\ \A request \in wire : request.since \in Nat
  BY RequestIds DEF IInv, TypeOK
<1>3. \A request \in wire' : request.since <= clock'
  BY <1>2 DEF Deaths
<1>4. \A s \in Sessions : sync[s] \in Call /\ Timely(sync[s]) /\ Foretold(sync[s], server, store, wire, lastPulledAt)
  BY DEF IInv, TypeOK, Times, Deaths
<1>5. \A s \in Sessions : Foretold(sync'[s], server', store, wire, lastPulledAt)
  BY <1>4, ServerForetold
<1>6. \A s \in Sessions : Foretold(sync'[s], server', store, wire', lastPulledAt)
  BY <1>1, <1>5, EchoedTimed, EchoedBuried DEF Foretold
<1>7. Upright(server', store, wire, lastPulledAt)
  <2>1. Idle \in Call /\ Timely(Idle) /\ Foretold(Idle, server, store, wire, lastPulledAt)
    BY IdleIsACall, IdleFits, IdleForetold
  <2> QED BY <2>1, ServerForetold
<1>8. Upright(server', store, wire', lastPulledAt)
  BY <1>1, <1>7, EchoedUpright
<1> QED BY <1>3, <1>6, <1>8 DEF Deaths

LEMMA RemoteWritesDeaths ==
  ASSUME IInv, Deaths, NEW id \in Ids, NEW vals \in Contents, RemoteWrites(id, vals)
  PROVE  Deaths'
<1> DEFINE row == [alive |-> TRUE, vals |-> vals, mod |-> clock + 1,
                   born |-> IF Exists(id) THEN server[id].born ELSE clock + 1]
<1>1. /\ server' = [server EXCEPT ![id] = row] /\ clock' = clock + 1
      /\ UNCHANGED <<store, lastPulledAt, sync, wire>> /\ (Exists(id) \/ id \notin used)
  BY DEF RemoteWrites, db
<1>2. clock \in Nat /\ (Exists(id) => server[id] \in ServerRow)
  BY DEF Exists, IInv, TypeOK
<1>3. row \in ServerRow /\ row.mod = clock + 1
  BY <1>2 DEF ServerRow
<1> HIDE DEF row
<1>4. \A x \in Ids : server'[x] = IF x = id THEN row ELSE server[x]
  BY <1>1 DEF IInv, TypeOK
<1>5. \A x \in Ids : Moved(server[x], server'[x], clock)
  BY <1>3, <1>4, NoRowAssumption DEF Moved
<1>6. ~Dead(server[id])
  BY <1>1 DEF Dead, Exists, IInv, UsedIds
<1>7. \A x \in Ids : DeadForGood(x, server[x], wire) => server'[x] = server[x]
  BY <1>4, <1>6 DEF DeadForGood
<1> QED BY <1>1, <1>5, <1>7, ServerDeaths

LEMMA RemoteDeletesDeaths ==
  ASSUME IInv, Deaths, NEW id \in Ids, RemoteDeletes(id)
  PROVE  Deaths'
<1> DEFINE row == [server[id] EXCEPT !.alive = FALSE, !.mod = clock + 1]
<1>1. /\ server' = [server EXCEPT ![id] = row] /\ clock' = clock + 1 /\ Exists(id)
      /\ UNCHANGED <<store, lastPulledAt, sync, wire>>
  BY DEF RemoteDeletes, db
<1>2. server[id] \in ServerRow /\ clock + 1 \in Nat
  BY <1>1 DEF Exists, IInv, TypeOK
<1>3. row \in ServerRow /\ row.mod = clock + 1
  BY ONLY <1>2, RemovedAt
<1> HIDE DEF row
<1>4. \A x \in Ids : server'[x] = IF x = id THEN row ELSE server[x]
  BY <1>1 DEF IInv, TypeOK
<1>5. \A x \in Ids : Moved(server[x], server'[x], clock)
  BY <1>3, <1>4, NoRowAssumption DEF Moved
<1>6. \A x \in Ids : DeadForGood(x, server[x], wire) => server'[x] = server[x]
  BY <1>1, <1>4 DEF DeadForGood, Dead, Exists
<1> QED BY <1>1, <1>5, <1>6, ServerDeaths

(* A request that could bring a record back is refused.                    *)
LEMMA AcceptStays ==
  ASSUME IInv, NEW request \in wire, Accept(request, Conflicts(request)), NEW id \in Ids,
         DeadForGood(id, server[id], wire)
  PROVE  server'[id] = server[id]
<1>1. id \notin DOMAIN request.rows \ Conflicts(request)
  <2>1. id \in DOMAIN request.rows => request.since < server[id].mod
    BY DEF DeadForGood
  <2>2. server[id] # NoRow /\ request.since \in Nat /\ server[id].mod \in Nat
    BY RequestIds DEF DeadForGood, Dead, IInv, TypeOK, ServerRow
  <2> QED BY <2>1, <2>2 DEF Conflicts
<1>2. ~Exists(id)
  BY DEF DeadForGood, Dead, Exists
<1> QED BY <1>1, <1>2 DEF Accept

LEMMA ServerHandlesPushDeaths ==
  ASSUME IInv, OneCall, Caught, Deaths, NEW request \in wire, ServerHandlesPush(request)
  PROVE  Deaths'
<1> DEFINE s       == request.from
           refused == Conflicts(request)
           state   == [sync[s] EXCEPT !.phase = "answered", !.rejected = refused]
<1>1. wire' = wire \ {request} /\ wire' \subseteq wire /\ UNCHANGED <<store, lastPulledAt>>
  BY DEF ServerHandlesPush, db
<1>2. s \in Sessions /\ Echoes(wire', wire)
  BY <1>1, RequestIds, FewerEcho
<1>3. ASSUME Accept(request, refused), request.awaited, sync' = [sync EXCEPT ![s] = state]
      PROVE  Deaths'
  <2>1. /\ sync[s] \in Call /\ Asked(sync[s], request)
    BY <1>2, <1>3 DEF IInv, TypeOK, Caught
  <2>2. refused \in SUBSET Ids
    BY RequestIds DEF Conflicts
  <2>3. /\ state.phase = "answered" /\ state.rejected = refused /\ state.copies = sync[s].copies
    BY ONLY <2>1, <2>2 DEF Call
  <2>4. \A t \in Sessions : sync'[t] = state
    BY <1>2, <1>3 DEF OneCall, IInv, TypeOK
  <2> HIDE DEF state
  <2>5. /\ clock' = clock + 1
        /\ \A id \in Ids : /\ Moved(server[id], server'[id], clock)
                           /\ id \in DOMAIN request.rows \ refused =>
                                server'[id] # NoRow /\ server'[id].mod = clock + 1
    BY <1>3, AcceptMoves
  <2>6. ASSUME NEW other \in wire, NEW id \in DOMAIN state.copies \ state.rejected
        PROVE  Changed(server'[id], other.since)
    <3>1. id \in DOMAIN request.rows \ refused /\ id \in Ids
      BY <2>1, <2>3, RequestIds DEF Asked
    <3>2. other.since \in Nat /\ other.since <= clock /\ clock \in Nat
      BY RequestIds DEF Deaths, IInv, TypeOK
    <3> QED BY <2>5, <3>1, <3>2 DEF Changed
  <2>7. Foretold(state, server', store, wire, lastPulledAt)
    BY <2>3, <2>6 DEF Foretold, Timed, Outlast, Buried, Answered, Marks
  <2>8. \A id \in Ids : DeadForGood(id, server[id], wire) => server'[id] = server[id]
    BY <1>3, AcceptStays
  <2> QED BY <1>1, <2>4, <2>5, <2>7, <2>8, ServerDeaths
<1>4. ASSUME Accept(request, refused), sync' = sync
      PROVE  Deaths'
  BY <1>1, <1>4, AcceptMoves, AcceptStays, ServerDeaths
<1>5. ASSUME UNCHANGED remote, Become(s, Idle)
      PROVE  Deaths'
  BY <1>1, <1>2, <1>5, GivesUpDeaths DEF remote
<1>6. ASSUME UNCHANGED remote, sync' = sync
      PROVE  Deaths'
  BY <1>1, <1>2, <1>6, QuietDeaths, SameRowsQuiet DEF remote, Deaths
<1> QED BY <1>3, <1>4, <1>5, <1>6 DEF ServerHandlesPush, Become

-----------------------------------------------------------------------------
(* Resets, the end of the process and the user. A reset rejects the blocks *)
(* that wait, and no call comes to wait for its local changes until it ends*)
Unfetched == writer = Resetter => \A s \in Sessions : sync[s].phase # "fetchQueued"

LEMMA UnfetchedStep ==
  ASSUME IInv, Unfetched, [Next]_vars
  PROVE  Unfetched'
<1> SUFFICES ASSUME writer' = Resetter, NEW t \in Sessions, sync'[t].phase = "fetchQueued"
             PROVE  FALSE
  BY DEF Unfetched
<1> USE NoCallHas
<1>1. sync \in [Sessions -> Call] /\ sync[t] \in Call
  BY DEF IInv, TypeOK
<1>2. Idle \in Call /\ Idle.phase = "idle"
  BY IdleIsACall DEF Idle
<1>3. ASSUME NEW s \in Sessions, NEW state, Become(s, state), state.phase # "fetchQueued", UNCHANGED writer
      PROVE  FALSE
  BY <1>1, <1>3 DEF Become, Unfetched
<1>4. ASSUME NEW s \in Sessions, Start(s) \/ PullArrives(s) \/ PushAnswered(s) \/ PullFails(s) \/ PushFails(s)
      PROVE  FALSE
  <2>1. PICK state : /\ Become(s, state) /\ UNCHANGED writer
                     /\ \/ state = [Idle EXCEPT !.phase = "pulling", !.resets = resetCount, !.since = lastPulledAt]
                        \/ state = [sync[s] EXCEPT !.phase = "applyQueued"]
                        \/ state = [sync[s] EXCEPT !.phase = "markQueued"]
                        \/ state = Idle
    BY <1>4 DEF Start, PullArrives, PushAnswered, PullFails, PushFails
  <2>2. state.phase # "fetchQueued"
    <3>1. sync[s] \in Call
      BY <1>1
    <3> QED BY <1>2, <2>1, <3>1 DEF Call
  <2> QED BY <1>3, <2>1, <2>2
<1>5. ASSUME NEW s \in Sessions, NEW strategy \in Strategies, ServerAnswersPull(s, strategy)
      PROVE  FALSE
  <2>1. \E pull : Become(s, [sync[s] EXCEPT !.phase = "pulled", !.pull = pull]) /\ UNCHANGED writer
    BY <1>5 DEF ServerAnswersPull
  <2>2. PICK pull : Become(s, [sync[s] EXCEPT !.phase = "pulled", !.pull = pull])
    BY <2>1
  <2>3. [sync[s] EXCEPT !.phase = "pulled", !.pull = pull].phase # "fetchQueued"
    BY <1>1 DEF Call
  <2> QED BY <1>3, <2>1, <2>2, <2>3
<1>6. ASSUME NEW s \in Sessions
      PROVE  ~ApplyRemoteChanges(s) /\ ~FetchLocalChanges(s) /\ ~MarkLocalChangesAsSynced(s)
  <2>1. HasItsTurn(s) /\ (UNCHANGED writer \/ writer' = s) => FALSE
    BY DEF HasItsTurn
  <2>2. ApplyRemoteChanges(s) \/ FetchLocalChanges(s) \/ MarkLocalChangesAsSynced(s) =>
          HasItsTurn(s) /\ (UNCHANGED writer \/ writer' = s)
    BY DEF ApplyRemoteChanges, FetchLocalChanges, MarkLocalChangesAsSynced
  <2> QED BY <2>1, <2>2
<1>7. ASSUME NEW s \in Sessions
      PROVE  /\ ~ApplyBatch(s) /\ ~ApplyBatchFails(s) /\ ~MarkBatch(s) /\ ~MarkBatchFails(s)
             /\ ~SetLastPulledAt(s) /\ ~MarkDestroys(s)
  <2>1. sync[s].phase \in Inside => writer = s
    BY DEF IInv, Queue
  <2> QED BY <2>1 DEF Inside, ApplyBatch, ApplyBatchFails, MarkBatch, MarkBatchFails, SetLastPulledAt, MarkDestroys
<1>8. ASSUME NEW request \in wire, ServerHandlesPush(request)
      PROVE  FALSE
  <2> DEFINE s     == request.from
             state == [sync[s] EXCEPT !.phase = "answered", !.rejected = Conflicts(request)]
  <2>1. /\ UNCHANGED writer /\ s \in Sessions
        /\ sync' = sync \/ Become(s, Idle) \/ Become(s, state)
    BY <1>8, RequestIds DEF ServerHandlesPush, Become
  <2>2. state.phase # "fetchQueued"
    BY <1>1, <2>1 DEF Call
  <2> HIDE DEF state
  <2> QED BY <1>2, <1>3, <2>1, <2>2 DEF Unfetched
<1>9. ASSUME \/ UserStep \/ UNCHANGED vars \/ (\E request \in wire : RequestIsLost(request))
              \/ \E id \in Ids : RemoteDeletes(id) \/ \E vals \in Contents : RemoteWrites(id, vals)
       PROVE  FALSE
  <2>1. UserStep => writer = Nobody /\ UNCHANGED writer
    BY DEF UserStep, UserCreates, UserEdits, UserDeletes
  <2>2. ~UserStep => UNCHANGED <<sync, writer>>
    BY <1>9 DEF vars, RequestIsLost, RemoteDeletes, RemoteWrites
  <2> QED BY <2>1, <2>2 DEF Unfetched
<1>10. ~Crash /\ ~ResetEnds
  BY DEF Crash, ResetEnds
<1>11. CASE ResetBegins
  <2>1. sync'[t] = IF sync[t].phase \in {"applyQueued", "fetchQueued", "markQueued"} THEN Idle ELSE sync[t]
    BY <1>11 DEF ResetBegins, queueAborted
  <2> QED BY <1>2, <2>1
<1> QED BY ONLY [Next]_vars, <1>4, <1>5, <1>6, <1>7, <1>8, <1>9, <1>10, <1>11 DEF Next, SessionStep, WorldStep

LEMMA ResetBeginsDeaths ==
  ASSUME IInv, Deaths, ResetBegins
  PROVE  Deaths'
<1>1. sync' = queueAborted /\ UNCHANGED <<store, lastPulledAt, server, clock, wire>>
  BY DEF ResetBegins, db, remote
<1>2. \A t \in Sessions : Foretold(sync'[t], server, store, wire, lastPulledAt)
  BY <1>1, IdleForetold DEF queueAborted, Deaths
<1> QED BY <1>1, <1>2, FewerEcho, QuietDeaths, SameRowsQuiet

LEMMA ResetEndsDeaths ==
  ASSUME IInv, Unfetched, Deaths, ResetEnds
  PROVE  Deaths'
<1>1. /\ writer = Resetter /\ lastPulledAt' = 0 /\ UNCHANGED <<server, clock, wire>>
      /\ store' = [id \in Ids |-> NoRow]
  BY DEF ResetEnds, remote
<1>2. Quiet(store')
  BY <1>1 DEF Quiet, Alike
<1>3. ASSUME NEW t \in Sessions
      PROVE  Foretold(sync'[t], server, store', wire, 0)
  <2> DEFINE copies == Only(sync[t].copies, {id \in Ids : id \in DOMAIN sync[t].copies
                                                          /\ mem[id] = sync[t].copies[id]})
  <2>1. sync[t] \in Call /\ sync'[t] = [sync[t] EXCEPT !.copies = copies]
    BY DEF ResetEnds, IInv, TypeOK
  <2>2. DOMAIN copies \subseteq DOMAIN sync[t].copies
    BY DEF Only
  <2> HIDE DEF copies
  <2>3. SameCourse(sync'[t], sync[t])
    BY <2>1, <2>2 DEF Call, SameCourse
  <2>4. sync[t].phase \notin Inside /\ sync'[t].phase # "fetchQueued"
    BY <1>1, <2>3, NoCallHas DEF IInv, Queue, Unfetched, SameCourse
  <2> QED BY <1>2, <2>3, <2>4, QuietForetold
<1>4. Upright(server, store', wire, 0)
  BY <1>1, RequestIds DEF Upright, Stands, Known
<1> QED BY <1>1, <1>3, <1>4 DEF Deaths

LEMMA CrashDeaths ==
  ASSUME IInv, Deaths, Crash
  PROVE  Deaths'
<1>1. /\ sync' = [s \in Sessions |-> Idle]
      /\ wire' = {[request EXCEPT !.awaited = FALSE] : request \in wire}
      /\ UNCHANGED <<store, lastPulledAt, server, clock>>
  BY DEF Crash, remote
<1>2. Echoes(wire', wire)
  BY <1>1, UnawaitedEcho
<1> QED BY <1>1, <1>2, IdleForetold, SameRowsQuiet, QuietDeaths

(* What the user does is about rows that are, or are not yet, the client's.*)
LEMMA UserDeaths ==
  ASSUME IInv, Deaths, writer = Nobody, UNCHANGED <<server, clock, lastPulledAt, wire>>, Quiet(store'),
         \A t \in Sessions : SameCourse(sync'[t], sync[t])
  PROVE  Deaths'
<1>1. \A t \in Sessions : sync[t].phase \notin Inside
  BY NoCallHas DEF IInv, Queue
<1>2. \A t \in Sessions : Foretold(sync'[t], server, store', wire, lastPulledAt)
  BY <1>1, QuietForetold
<1> QED BY <1>2, FewerEcho, QuietDeaths

LEMMA UserStepDeaths ==
  ASSUME IInv, Memory, Deaths, NothingFails, UserStep
  PROVE  Deaths'
<1>1. PICK id \in Ids : \/ \E vals \in Contents : UserCreates(id, vals)
                        \/ \E c \in Columns, v \in Values : UserEdits(id, c, v)
                        \/ UserDeletes(id)
  BY DEF UserStep
<1>2. store \in [Ids -> Row \cup {NoRow}] /\ mem \in [Ids -> Row \cup {NoRow}]
  BY DEF IInv, TypeOK
<1>3. "editFails" \notin Disturbed
  BY DEF NothingFails
<1>4. ASSUME writer = Nobody, id \in Live
      PROVE  mem[id] = store[id] /\ store[id] \in Row /\ store[id] # NoRow
  BY <1>2, <1>4, NoCallHas DEF Memory, Agree, Agrees, Live, IsLive, IInv, Queue
<1>5. ASSUME NEW vals \in Contents, UserCreates(id, vals)
      PROVE  Deaths'
  <2> DEFINE row == [status |-> "created", changed |-> {}, vals |-> vals]
  <2>1. /\ writer = Nobody /\ UNCHANGED <<lastPulledAt, wire, server, clock, sync>>
        /\ store' = [store EXCEPT ![id] = row] /\ id \notin used
    BY <1>5 DEF UserCreates, remote
  <2>2. ~Known(row)
    BY DEF Known
  <2>3. Quiet(store')
    BY <1>2, <2>1, <2>2 DEF Quiet, Alike
  <2> QED BY <2>1, <2>3, UserDeaths DEF SameCourse
<1>6. ASSUME NEW c \in Columns, NEW v \in Values, UserEdits(id, c, v)
      PROVE  Deaths'
  <2> DEFINE row == setRawColumnChange(mem[id], c, v)
  <2>1. /\ writer = Nobody /\ id \in Live /\ UNCHANGED <<lastPulledAt, wire, server, clock, sync>>
        /\ store' = [store EXCEPT ![id] = mem'[id]] /\ mem'[id] = row
    BY <1>2, <1>3, <1>6 DEF UserEdits, remote
  <2>2. mem[id] = store[id] /\ store[id] \in Row /\ store[id] # NoRow /\ store[id].status # "deleted"
    BY <1>4, <2>1 DEF Live, IsLive
  <2>3. Known(row) => Known(store[id])
    BY <2>2 DEF setRawColumnChange, Known, Row
  <2> HIDE DEF row
  <2>4. Quiet(store')
    BY <1>2, <2>1, <2>2, <2>3 DEF Quiet, Alike
  <2> QED BY <2>1, <2>4, UserDeaths DEF SameCourse
<1>7. CASE UserDeletes(id)
  <2>1. /\ writer = Nobody /\ id \in Live /\ UNCHANGED <<lastPulledAt, wire, server, clock>>
        /\ store' = [store EXCEPT ![id].status = "deleted"] /\ sync' = Forget({id})
    BY <1>3, <1>7 DEF UserDeletes, remote
  <2>2. store[id] \in Row /\ store[id] # NoRow
    BY <1>4, <2>1
  <2>3. ~Known([store[id] EXCEPT !.status = "deleted"])
    BY <2>2 DEF Known, Row
  <2>4. Quiet(store')
    BY <1>2, <2>1, <2>2, <2>3 DEF Quiet, Alike
  <2>5. ASSUME NEW t \in Sessions
        PROVE  SameCourse(sync'[t], sync[t])
    <3> DEFINE copies == Only(sync[t].copies, Ids \ {id})
    <3>1. sync[t] \in Call /\ sync'[t] = [sync[t] EXCEPT !.copies = copies]
      BY <2>1 DEF Forget, IInv, TypeOK
    <3>2. DOMAIN copies \subseteq DOMAIN sync[t].copies
      BY DEF Only
    <3> HIDE DEF copies
    <3> QED BY ONLY <3>1, <3>2 DEF Call, SameCourse
  <2> QED BY <2>1, <2>4, <2>5, UserDeaths
<1> QED BY <1>1, <1>5, <1>6, <1>7

-----------------------------------------------------------------------------
LEMMA DeathsStep ==
  ASSUME IInv, Memory, OneCall, NothingFails, Caught, Unfetched, Deaths, [Next]_vars
  PROVE  Deaths'
<1>1. ASSUME NEW s \in Sessions, Start(s) \/ SessionStep(s) \/ PullFails(s) \/ PushFails(s)
      PROVE  Deaths'
  BY ONLY IInv, Memory, OneCall, Caught, Deaths, <1>1, StartDeaths, ServerAnswersPullDeaths,
     PullArrivesDeaths, ApplyRemoteChangesDeaths, ApplyBatchDeaths, SetLastPulledAtDeaths,
     FetchLocalChangesDeaths, PushAnsweredDeaths, MarkLocalChangesAsSyncedDeaths, MarkBatchDeaths,
     MarkDestroysDeaths, FailsDeaths DEF SessionStep
<1>2. ASSUME NEW s \in Sessions
      PROVE  ~ApplyBatchFails(s) /\ ~MarkBatchFails(s)
  BY DEF ApplyBatchFails, MarkBatchFails, Disturb, NothingFails
<1>3. ASSUME NEW request \in wire, ServerHandlesPush(request)
      PROVE  Deaths'
  BY ONLY IInv, OneCall, Caught, Deaths, <1>3, ServerHandlesPushDeaths
<1>4. ASSUME (\E request \in wire : RequestIsLost(request)) \/ UNCHANGED vars
      PROVE  Deaths'
  <2>1. UNCHANGED <<store, lastPulledAt, sync, server, clock>> /\ wire' \subseteq wire
    BY <1>4 DEF RequestIsLost, db, remote, vars
  <2> QED BY <2>1, FewerEcho, QuietDeaths, SameRowsQuiet DEF Deaths
<1>5. ASSUME NEW id \in Ids, RemoteDeletes(id) \/ \E vals \in Contents : RemoteWrites(id, vals)
      PROVE  Deaths'
  BY ONLY IInv, Deaths, <1>5, RemoteDeletesDeaths, RemoteWritesDeaths
<1>6. ASSUME Crash \/ ResetBegins \/ ResetEnds \/ UserStep
      PROVE  Deaths'
  BY ONLY IInv, Memory, NothingFails, Unfetched, Deaths, <1>6, CrashDeaths, ResetBeginsDeaths,
     ResetEndsDeaths, UserStepDeaths
<1> QED BY ONLY [Next]_vars, <1>1, <1>2, <1>3, <1>4, <1>5, <1>6 DEF Next, WorldStep

LEMMA DeathsInit ==
  ASSUME Init
  PROVE  Unfetched /\ Deaths
<1>1. /\ \A id \in Ids : store[id] = NoRow
      /\ \A s \in Sessions : sync[s] = Idle
      /\ wire = {} /\ writer = Nobody
  BY DEF Init
<1>2. Unfetched
  BY <1>1, NoCallHas DEF Unfetched
<1>3. Deaths
  BY <1>1, IdleForetold DEF Deaths, Upright, Stands, Known
<1> QED BY <1>2, <1>3

-----------------------------------------------------------------------------
(* What the user wrote and the server has not accepted: it is in the row,  *)
(* and marked, or it is lost with a record that is dead for good.          *)
Written == UNION {[S -> Values] : S \in SUBSET Columns}

Kept(row, wrote) ==
  \A c \in DOMAIN wrote :
    /\ IsLive(row) /\ row.vals[c] = wrote[c]
    /\ row.status = "created" \/ (row.status = "updated" /\ c \in row.changed)

Held(remotes, rows, requests, wrote) ==
  \A id \in Ids : \/ Kept(rows[id], wrote[id])
                  \/ rows[id] = NoRow /\ DeadForGood(id, remotes[id], requests)

(* A column that was never changed after the record was created here is not*)
(* known to the server, and every request that has it has it as it is.     *)
Fresh(remotes, rows, requests, wrote) ==
  \A id \in Ids : \A c \in DOMAIN wrote[id] :
    rows[id] # NoRow /\ rows[id].status = "created" /\ c \notin rows[id].changed =>
      /\ remotes[id] = NoRow
      /\ \A request \in requests : id \in DOMAIN request.rows => request.rows[id][c] = wrote[id][c]

(* What a pull brings is about records that are not lost; what may be      *)
(* marked as synced has nothing that the server has not.                   *)
Copied(call, rows, wrote) ==
  /\ call.phase \in Answered => \A id \in DOMAIN call.pull.rows : Kept(rows[id], wrote[id])
  /\ call.phase \in {"answered", "markQueued"} =>
       \A id \in DOMAIN call.copies \ call.rejected : \A c \in DOMAIN wrote[id] :
         wrote[id][c] # call.copies[id].vals[c]
  /\ call.phase = "marking" => \A id \in call.update : rows[id] # NoRow => DOMAIN wrote[id] = {}

(* A batch inserts where nothing is, and updates only what is not marked.  *)
Merged(call, rows, models) ==
  call.phase = "applying" =>
    /\ \A id \in call.insert : rows[id] = NoRow
    /\ \A id \in call.update :
         /\ rows[id] # NoRow /\ models[id] # NoRow
         /\ models[id].status = rows[id].status /\ models[id].changed = rows[id].changed
         /\ \A c \in rows[id].changed : models[id].vals[c] = rows[id].vals[c]

Repeats(call, request) ==
  \A id \in DOMAIN call.copies : request.rows[id] = call.copies[id].vals

(* Inductive together with IInv, Memory, Caught and Deaths.                *)
Edited ==
  /\ edits \in [Ids -> Written]
  /\ Held(server, store, wire, edits)
  /\ Fresh(server, store, wire, edits)
  /\ \A s \in Sessions : Copied(sync[s], store, edits) /\ Merged(sync[s], store, mem)
  /\ \A request \in wire : request.awaited => Repeats(sync[request.from], request)
-----------------------------------------------------------------------------
LEMMA WrittenElim ==
  ASSUME NEW f \in Written
  PROVE  DOMAIN f \subseteq Columns /\ f \in [DOMAIN f -> Values]
BY DEF Written

LEMMA WrittenIntro ==
  ASSUME NEW S \in SUBSET Columns, NEW f \in [S -> Values]
  PROVE  f \in Written
BY DEF Written

LEMMA NothingWritten == <<>> \in Written /\ \A row : Kept(row, <<>>)
<1>1. <<>> \in [{} -> Values] /\ DOMAIN <<>> = {}
  OBVIOUS
<1>2. <<>> \in Written
  BY <1>1, WrittenIntro
<1>3. \A row : Kept(row, <<>>)
  BY <1>1 DEF Kept
<1> QED BY <1>2, <1>3

LEMMA EchoedHeld ==
  ASSUME NEW requests, NEW others, Echoes(requests, others), NEW remotes, NEW rows, NEW wrote,
         Held(remotes, rows, others, wrote)
  PROVE  Held(remotes, rows, requests, wrote)
BY EchoedDead DEF Held

LEMMA EchoedFresh ==
  ASSUME NEW requests, NEW others, Echoes(requests, others), NEW remotes, NEW rows, NEW wrote,
         Fresh(remotes, rows, others, wrote)
  PROVE  Fresh(remotes, rows, requests, wrote)
BY DEF Fresh, Echoes

LEMMA IdleEdited == \A rows, models, wrote : Copied(Idle, rows, wrote) /\ Merged(Idle, rows, models)
BY DEF Copied, Merged, Idle, Answered

(* The one call that there is becomes another, while the server and what   *)
(* the user wrote stay as they are.                                        *)
LEMMA StateEdited ==
  ASSUME IInv, Edited, NEW state, \A t \in Sessions : sync'[t] = state,
         UNCHANGED <<server, edits>>, Echoes(wire', wire),
         Held(server, store', wire, edits), Fresh(server, store', wire, edits),
         Copied(state, store', edits), Merged(state, store', mem'),
         \A request \in wire' : request.awaited => request.from \in Sessions /\ Repeats(state, request)
  PROVE  Edited'
<1>1. Held(server, store', wire', edits) /\ Fresh(server, store', wire', edits)
  BY EchoedHeld, EchoedFresh
<1> QED BY <1>1 DEF Edited

LEMMA NoneAwaited ==
  ASSUME IInv, OneCall, NEW s \in Sessions, sync[s].phase # "pushing", NEW request \in wire
  PROVE  ~request.awaited
BY DEF OneCall, IInv, TypeOK, PushRequest, Wired

(* ... and the rows as well.                                               *)
LEMMA OnlyCallEdited ==
  ASSUME IInv, OneCall, Edited, NEW s \in Sessions, NEW state, Become(s, state), sync[s].phase # "pushing",
         UNCHANGED <<server, edits, wire, store>>,
         Copied(state, store, edits), Merged(state, store, mem')
  PROVE  Edited'
<1>1. \A t \in Sessions : sync'[t] = state
  BY BecomeKeeps DEF OneCall
<1>2. Echoes(wire', wire) /\ \A request \in wire' : ~request.awaited
  BY FewerEcho, NoneAwaited
<1> QED BY <1>1, <1>2, StateEdited DEF Edited

LEMMA GivesUpEdited ==
  ASSUME IInv, OneCall, Edited, NEW s \in Sessions, Become(s, Idle), sync[s].phase # "pushing",
         UNCHANGED <<server, edits, wire, store>>
  PROVE  Edited'
BY IdleEdited, OnlyCallEdited

LEMMA StartEdited ==
  ASSUME IInv, OneCall, Edited, NEW s \in Sessions, Start(s)
  PROVE  Edited'
<1> DEFINE state == [Idle EXCEPT !.phase = "pulling", !.resets = resetCount, !.since = lastPulledAt]
<1>1. /\ Become(s, state) /\ sync[s].phase = "idle" /\ UNCHANGED <<store, server, wire, edits>>
  BY DEF Start, db, remote, ghosts
<1>2. state.phase = "pulling"
  BY IdleIsACall DEF Call
<1> HIDE DEF state
<1>3. Copied(state, store, edits) /\ Merged(state, store, mem')
  BY <1>2 DEF Copied, Merged, Answered
<1> QED BY <1>1, <1>3, OnlyCallEdited

(* The server answers with records that it has: they are not lost.         *)
LEMMA ServerAnswersPullEdited ==
  ASSUME IInv, OneCall, Edited, NEW s \in Sessions, NEW strategy \in Strategies,
         ServerAnswersPull(s, strategy)
  PROVE  Edited'
<1> DEFINE since   == IF strategy = "replacement" THEN 0 ELSE sync[s].since
           changed == {id \in Ids : server[id] # NoRow /\ server[id].mod > since}
           alive   == {id \in changed : Exists(id)}
           pull == [rows      |-> [id \in alive |-> server[id].vals],
                    created   |-> {id \in alive : /\ ServerReportsCreated
                                                  /\ server[id].born > sync[s].since},
                    deleted   |-> IF strategy = "replacement" THEN {} ELSE changed \ alive,
                    timestamp |-> clock,
                    strategy  |-> strategy]
           state == [sync[s] EXCEPT !.phase = "pulled", !.pull = pull]
<1>1. /\ Become(s, state) /\ sync[s].phase = "pulling" /\ UNCHANGED <<store, server, wire, edits>>
  BY DEF ServerAnswersPull, db, remote, ghosts
<1>2. DOMAIN pull.rows = alive
  OBVIOUS
<1> HIDE DEF pull
<1>3. state.phase = "pulled" /\ state.pull = pull
  BY TimesOf DEF Call
<1> HIDE DEF state
<1>4. \A id \in alive : Kept(store[id], edits[id])
  BY DEF Exists, Edited, Held, DeadForGood, Dead
<1>5. Copied(state, store, edits) /\ Merged(state, store, mem')
  BY <1>2, <1>3, <1>4 DEF Copied, Merged
<1> QED BY <1>1, <1>5, OnlyCallEdited

LEMMA PullArrivesEdited ==
  ASSUME IInv, OneCall, Edited, NEW s \in Sessions, PullArrives(s)
  PROVE  Edited'
<1> DEFINE state == [sync[s] EXCEPT !.phase = "applyQueued"]
<1>1. Become(s, state) /\ sync[s].phase = "pulled" /\ UNCHANGED <<store, server, wire, edits>>
  BY DEF PullArrives, db, remote, ghosts
<1>2. state.phase = "applyQueued" /\ state.pull = sync[s].pull
  BY TimesOf DEF Call
<1> HIDE DEF state
<1>3. Copied(sync[s], store, edits)
  BY DEF Edited
<1>4. Copied(state, store, edits) /\ Merged(state, store, mem')
  BY <1>1, <1>2, <1>3 DEF Copied, Merged, Answered
<1> QED BY <1>1, <1>4, OnlyCallEdited

LEMMA SetLastPulledAtEdited ==
  ASSUME IInv, OneCall, Edited, NEW s \in Sessions, SetLastPulledAt(s)
  PROVE  Edited'
<1> DEFINE state == [sync[s] EXCEPT !.phase = "fetchQueued"]
<1>1. Become(s, state) /\ sync[s].phase = "stamping" /\ UNCHANGED <<store, server, wire, edits>>
  BY DEF SetLastPulledAt, remote, ghosts
<1>2. state.phase = "fetchQueued"
  BY TimesOf DEF Call
<1> HIDE DEF state
<1>3. Copied(state, store, edits) /\ Merged(state, store, mem')
  BY <1>1, <1>2 DEF Copied, Merged, Answered
<1> QED BY <1>1, <1>3, OnlyCallEdited

LEMMA PushAnsweredEdited ==
  ASSUME IInv, OneCall, Edited, NEW s \in Sessions, PushAnswered(s)
  PROVE  Edited'
<1> DEFINE state == [sync[s] EXCEPT !.phase = "markQueued"]
<1>1. /\ sync[s].phase = "answered" /\ UNCHANGED <<store, server, wire, edits>>
      /\ Become(s, state) \/ Become(s, Idle)
  BY DEF PushAnswered, db, remote, ghosts
<1>2. /\ state.phase = "markQueued" /\ state.copies = sync[s].copies /\ state.rejected = sync[s].rejected
  BY TimesOf DEF Call
<1> HIDE DEF state
<1>3. Copied(sync[s], store, edits)
  BY DEF Edited
<1>4. Copied(state, store, edits) /\ Merged(state, store, mem')
  BY <1>1, <1>2, <1>3 DEF Copied, Merged, Answered
<1> QED BY <1>1, <1>4, OnlyCallEdited, GivesUpEdited

LEMMA FailsEdited ==
  ASSUME IInv, OneCall, Edited, NEW s \in Sessions, PullFails(s) \/ PushFails(s)
  PROVE  Edited'
<1>1. Become(s, Idle) /\ UNCHANGED <<server, edits, store>>
  BY DEF PullFails, PushFails, db, remote, ghosts
<1>2. CASE PullFails(s)
  BY <1>1, <1>2, GivesUpEdited DEF PullFails
<1>3. CASE PushFails(s)
  <2>1. \A request \in wire : (request.awaited /\ request.from # s) \in BOOLEAN
    OBVIOUS
  <2>2. \A r \in wire' : \E q \in wire, b \in BOOLEAN : r = [q EXCEPT !.awaited = b]
    BY <1>3, <2>1 DEF PushFails, NotAwaited
  <2>3. \A request \in wire : request \in PushRequest /\ request.from = s
    BY DEF OneCall, IInv, TypeOK, PushRequest
  <2>4. \A request \in wire' : ~request.awaited
    BY <1>3, <2>3 DEF PushFails, NotAwaited, PushRequest
  <2>5. \A t \in Sessions : sync'[t] = Idle
    BY <1>1, BecomeKeeps DEF OneCall
  <2>6. Echoes(wire', wire)
    BY <2>2, UnawaitedEcho
  <2> QED BY <1>1, <2>4, <2>5, <2>6, IdleEdited, StateEdited DEF Edited
<1> QED BY <1>2, <1>3

(* A request says what the user wrote, as the models have it.              *)
LEMMA FetchLocalChangesEdited ==
  ASSUME IInv, Memory, OneCall, Edited, NEW s \in Sessions, FetchLocalChanges(s)
  PROVE  Edited'
<1> DEFINE state == [sync[s] EXCEPT !.phase = "pushing", !.copies = Only(mem, unsynced),
                                    !.pushedDeleted = LocallyDeleted]
<1>1. /\ sync[s].phase = "fetchQueued" /\ UNCHANGED <<store, server, edits>>
      /\ \/ Become(s, state) /\ wire' = wire \cup {Request(s)}
         \/ Become(s, Idle) /\ UNCHANGED wire
  BY DEF FetchLocalChanges, db, remote, ghosts
<1>2. CASE Become(s, state) /\ wire' = wire \cup {Request(s)}
  <2>1. state.phase = "pushing" /\ state.copies = Only(mem, unsynced)
    BY TimesOf DEF Call
  <2> HIDE DEF state
  <2>2. /\ DOMAIN Request(s).rows = unsynced /\ unsynced \subseteq Ids
        /\ \A id \in unsynced : Request(s).rows[id] = mem[id].vals
    BY DEF Request, unsynced
  <2>3. ASSUME NEW id \in unsynced
        PROVE  mem[id] = store[id] /\ store[id] # NoRow
    <3>1. Agrees(store[id], mem[id])
      BY <1>1, <2>2, OutsideAgree DEF Agree, Inside
    <3> QED BY <3>1 DEF Agrees, unsynced, IsLive
  <2>4. ASSUME NEW id \in Ids
        PROVE  \/ Kept(store[id], edits[id])
               \/ store[id] = NoRow /\ DeadForGood(id, server[id], wire')
    <3>1. CASE Kept(store[id], edits[id])
      BY <3>1
    <3>2. CASE store[id] = NoRow /\ DeadForGood(id, server[id], wire)
      BY <1>2, <2>2, <3>2 DEF DeadForGood, unsynced
    <3> QED BY <3>1, <3>2 DEF Edited, Held
  <2>5. ASSUME NEW id \in Ids, NEW c \in DOMAIN edits[id], store[id] # NoRow
        PROVE  id \in unsynced => Request(s).rows[id][c] = edits[id][c]
    BY <2>2, <2>3, <2>5 DEF Edited, Held, Kept
  <2>6. Fresh(server, store, wire', edits)
    BY <1>2, <2>2, <2>5 DEF Edited, Fresh
  <2>7. Copied(state, store, edits) /\ Merged(state, store, mem')
    BY <2>1 DEF Copied, Merged, Answered
  <2>8. Repeats(state, Request(s))
    <3>1. DOMAIN state.copies \subseteq unsynced
      BY <2>1 DEF Only
    <3>2. \A id \in DOMAIN state.copies : state.copies[id] = mem[id]
      BY <2>1 DEF Only
    <3> QED BY <2>2, <3>1, <3>2 DEF Repeats
  <2>9. \A t \in Sessions : sync'[t] = state
    BY <1>2, BecomeKeeps DEF OneCall
  <2>10. \A request \in wire' : request.awaited => request = Request(s) /\ request.from = s
    <3>1. Request(s).from = s
      BY DEF Request
    <3> QED BY <1>1, <1>2, <3>1, NoneAwaited
  <2> QED BY <1>1, <2>4, <2>6, <2>7, <2>8, <2>9, <2>10 DEF Edited, Held
<1>3. CASE Become(s, Idle) /\ UNCHANGED wire
  BY <1>1, <1>3, GivesUpEdited
<1> QED BY <1>1, <1>2, <1>3

(* What has not changed since it was pushed has nothing left to push.      *)
LEMMA MarkLocalChangesAsSyncedEdited ==
  ASSUME IInv, Memory, OneCall, Edited, NEW s \in Sessions, MarkLocalChangesAsSynced(s)
  PROVE  Edited'
<1> DEFINE marks == recordsToMarkAsSynced(s)
           state == [sync[s] EXCEPT !.phase = "marking", !.update = marks]
<1>1. /\ sync[s].phase = "markQueued" /\ UNCHANGED <<store, server, wire, edits>>
      /\ Become(s, state)
  BY DEF MarkLocalChangesAsSynced, remote, ghosts
<1>2. /\ sync[s].copies \in Snapshots(Row)
  BY TimesOf DEF Call
<1>3. \A id \in DOMAIN sync[s].copies : id \in Ids /\ sync[s].copies[id] \in Row
  BY <1>2, SnapshotElim
<1>4. ASSUME NEW id \in marks, store[id] # NoRow
      PROVE  DOMAIN edits[id] = {}
  <2>1. id \in DOMAIN sync[s].copies \ sync[s].rejected /\ id \in Ids
    BY <1>3 DEF recordsToMarkAsSynced
  <2>2. ~Old(sync[s])
    BY <1>1, <1>4, <2>1 DEF IInv, Rows, Fits, FitsIn, Marks
  <2>3. mem[id] = sync[s].copies[id] /\ mem[id] # NoRow
    BY <1>3, <2>1, <2>2, NoRowAssumption DEF recordsToMarkAsSynced, Old
  <2>4. Agrees(store[id], mem[id])
    BY <1>1, <2>1, OutsideAgree DEF Agree, Inside
  <2>5. store[id] = sync[s].copies[id]
    BY <2>3, <2>4 DEF Agrees
  <2>6. Kept(store[id], edits[id])
    BY <1>4, <2>1 DEF Edited, Held
  <2>7. \A c \in DOMAIN edits[id] : edits[id][c] # sync[s].copies[id].vals[c]
    BY <1>1, <2>1 DEF Edited, Copied
  <2> QED BY <2>5, <2>6, <2>7 DEF Kept
<1> HIDE DEF marks
<1>5. state.phase = "marking" /\ state.update = marks
  BY TimesOf DEF Call
<1> HIDE DEF state
<1>6. Copied(state, store, edits) /\ Merged(state, store, mem')
  BY <1>4, <1>5 DEF Copied, Merged, Answered
<1> QED BY <1>1, <1>6, OnlyCallEdited

(* A row that is replaced by one without marks, or that goes.              *)
LEMMA DroppedHeld ==
  ASSUME Edited, NEW rows,
         \A id \in Ids : rows[id] = store[id] \/ DOMAIN edits[id] = {}
                         \/ (store[id] = NoRow /\ rows[id] = NoRow),
         \A id \in Ids : rows[id] = store[id] \/ rows[id] = NoRow \/ rows[id].status = "synced"
  PROVE  Held(server, rows, wire, edits) /\ Fresh(server, rows, wire, edits)
<1>1. Held(server, rows, wire, edits)
  BY DEF Edited, Held, Kept
<1>2. Fresh(server, rows, wire, edits)
  BY DEF Edited, Fresh
<1> QED BY <1>1, <1>2

LEMMA MarkBatchEdited ==
  ASSUME IInv, OneCall, Edited, NEW s \in Sessions, MarkBatch(s)
  PROVE  Edited'
<1> DEFINE state == [sync[s] EXCEPT !.phase = "destroying", !.update = {}]
<1>1. /\ sync[s].phase = "marking" /\ Become(s, state)
      /\ store' = [id \in Ids |-> IF id \in sync[s].update /\ store[id] # NoRow
                                  THEN Marked(sync[s].copies[id]) ELSE store[id]]
      /\ UNCHANGED <<server, wire, edits>>
  BY DEF MarkBatch, remote, ghosts
<1>2. state.phase = "destroying"
  BY TimesOf DEF Call
<1> HIDE DEF state
<1>3. \A id \in sync[s].update : store[id] # NoRow => DOMAIN edits[id] = {}
  BY <1>1 DEF Edited, Copied
<1>4. \A id \in sync[s].update : sync[s].copies[id] \in Row
  <2>1. sync[s].copies \in Snapshots(Row) /\ sync[s].update \subseteq DOMAIN sync[s].copies
    BY <1>1, TimesOf DEF Call, IInv, Rows, Fits, FitsIn
  <2> QED BY <2>1, SnapshotElim
<1>5. \A row \in Row : Marked(row).status = "synced"
  BY DEF Marked, Row
<1>6. Held(server, store', wire, edits) /\ Fresh(server, store', wire, edits)
  BY <1>1, <1>3, <1>4, <1>5, DroppedHeld
<1>7. Copied(state, store', edits) /\ Merged(state, store', mem')
  BY <1>2 DEF Copied, Merged, Answered
<1>8. \A t \in Sessions : sync'[t] = state
  BY <1>1, BecomeKeeps DEF OneCall
<1>9. Echoes(wire', wire) /\ \A request \in wire' : ~request.awaited
  BY <1>1, FewerEcho, NoneAwaited
<1> QED BY <1>1, <1>6, <1>7, <1>8, <1>9, StateEdited

LEMMA MarkDestroysEdited ==
  ASSUME IInv, Memory, OneCall, Edited, NEW s \in Sessions, MarkDestroys(s)
  PROVE  Edited'
<1>1. /\ sync[s].phase = "destroying" /\ Become(s, Idle)
      /\ store' = [id \in Ids |-> IF id \in toDestroy(s) THEN NoRow ELSE store[id]]
      /\ UNCHANGED <<server, wire, edits>>
  BY DEF MarkDestroys, remote, ghosts
<1>2. ASSUME NEW id \in Ids, id \in toDestroy(s), store[id] # NoRow
      PROVE  DOMAIN edits[id] = {}
  <2>1. id \in sync[s].pushedDeleted
    BY <1>2 DEF toDestroy
  <2>2. ~Old(sync[s])
    BY <1>1, <1>2, <2>1 DEF IInv, Rows, Fits, FitsIn, Marks
  <2>3. ~IsLive(store[id])
    BY <1>1, <2>1, <2>2 DEF Memory, Apart, Pushing, Marks
  <2> QED BY <1>2, <2>3 DEF Edited, Held, Kept
<1>3. Held(server, store', wire, edits) /\ Fresh(server, store', wire, edits)
  BY <1>1, <1>2, DroppedHeld
<1>4. \A t \in Sessions : sync'[t] = Idle
  BY <1>1, BecomeKeeps DEF OneCall
<1>5. Echoes(wire', wire) /\ \A request \in wire' : ~request.awaited
  BY <1>1, FewerEcho, NoneAwaited
<1> QED BY <1>1, <1>3, <1>4, <1>5, IdleEdited, StateEdited

(* A merge keeps the columns that are marked; what goes was deleted.       *)
LEMMA ApplyRemoteChangesEdited ==
  ASSUME IInv, Memory, OneCall, Edited, NEW s \in Sessions, ApplyRemoteChanges(s)
  PROVE  Edited'
<1> DEFINE pull  == sync[s].pull
           state == [sync[s] EXCEPT !.phase = "applying", !.insert = toInsert(pull),
                       !.update = toUpdate(pull), !.destroy = gone(pull) \cap Live]
<1>1. /\ sync[s].phase = "applyQueued" /\ UNCHANGED <<server, wire, edits>> /\ sync[s] \in Call
  BY DEF ApplyRemoteChanges, IInv, TypeOK, remote, ghosts
<1>2. CASE ~mayApply(s)
  BY <1>1, <1>2, GivesUpEdited DEF ApplyRemoteChanges
<1>3. CASE mayApply(s)
  <2>1. /\ Become(s, state)
        /\ store' = [id \in Ids |->
             IF id \in (gone(pull) \cap LocallyDeleted) \union recreated(pull)
             THEN NoRow ELSE store[id]]
        /\ mem' = [id \in Ids |->
             CASE id \in toUpdate(pull) -> resolveConflict(mem[id], pull.rows[id])
               [] id \in gone(pull) \cap Live -> [mem[id] EXCEPT !.status = "deleted"]
               [] OTHER -> mem[id]]
    BY <1>3 DEF ApplyRemoteChanges
  <2>2. /\ state.phase = "applying" /\ state.insert = toInsert(pull) /\ state.update = toUpdate(pull)
        /\ state.pull = pull
    BY ONLY <1>1 DEF Call, Phases
  <2>3. pull.rows \in Snapshots(Contents)
    BY <1>1 DEF Call, Pull
  <2>4. DOMAIN pull.rows \subseteq Ids /\ \A id \in DOMAIN pull.rows : pull.rows[id] \in Contents
    BY <2>3, SnapshotElim
  <2>5. \A id \in DOMAIN pull.rows : Kept(store[id], edits[id])
    BY <1>1 DEF Edited, Copied, Answered
  <2>6. \A id \in Ids : /\ Agrees(store[id], mem[id])
                        /\ store[id] \in Row \cup {NoRow}
    BY <1>1, OutsideAgree DEF Agree, Inside, IInv, TypeOK
  <2> HIDE DEF pull, state
  <2>7. gone(pull) \cap DOMAIN pull.rows = {}
    BY <1>1 DEF gone, pull, IInv, Rows, Fits, FitsIn
  <2>8. ASSUME NEW id \in Ids
        PROVE  store'[id] = store[id] \/ (id \in LocallyDeleted /\ store'[id] = NoRow)
    BY <2>1 DEF recreated
  <2>9. \A id \in LocallyDeleted : Kept(store[id], edits[id]) => DOMAIN edits[id] = {}
    BY DEF LocallyDeleted, Kept
  <2>10. \A id \in LocallyDeleted : DOMAIN edits[id] = {}
    BY <2>9 DEF LocallyDeleted, Edited, Held
  <2>11. Held(server, store', wire, edits) /\ Fresh(server, store', wire, edits)
    BY <2>8, <2>10, DroppedHeld
  <2>12. \A id \in DOMAIN pull.rows : Kept(store'[id], edits[id])
    BY <2>4, <2>5, <2>8, <2>10 DEF Kept
  <2>13. Copied(state, store', edits)
    BY <2>2, <2>12 DEF Copied
  <2>14. ASSUME NEW id \in toInsert(pull)
         PROVE  store'[id] = NoRow
    BY <2>1, <2>4 DEF toInsert, recreated, LocallyDeleted
  <2>15. ASSUME NEW id \in Ids, id \in toUpdate(pull)
         PROVE  /\ store'[id] # NoRow /\ mem'[id] # NoRow
                /\ mem'[id].status = store'[id].status /\ mem'[id].changed = store'[id].changed
                /\ \A c \in store'[id].changed : mem'[id].vals[c] = store'[id].vals[c]
    <3>1. id \in Ids /\ id \in DOMAIN pull.rows /\ id \in Live /\ pull.rows[id] \in Contents
      BY <2>4, <2>15 DEF toUpdate
    <3>2. store[id] = mem[id] /\ mem[id] \in Row /\ mem[id].status # "deleted" /\ store'[id] = store[id]
      BY <2>6, <2>8, <3>1 DEF Agrees, Live, LocallyDeleted, IsLive
    <3>3. mem'[id] = resolveConflict(mem[id], pull.rows[id])
      <4>1. id \notin gone(pull)
        BY <2>7, <3>1
      <4> QED BY <2>1, <2>15, <4>1
    <3>4. LET merged == resolveConflict(mem[id], pull.rows[id])
          IN /\ merged \in Row /\ merged.status = mem[id].status /\ merged.changed = mem[id].changed
             /\ \A c \in mem[id].changed : merged.vals[c] = mem[id].vals[c]
      BY ONLY <3>1, <3>2 DEF resolveConflict, Row, Contents
    <3> QED BY <3>2, <3>3, <3>4, NoRowAssumption
  <2>16. Merged(state, store', mem')
    <3>1. toUpdate(pull) \subseteq Ids
      BY DEF toUpdate, Live
    <3> QED BY <2>2, <2>14, <2>15, <3>1 DEF Merged
  <2>17. \A t \in Sessions : sync'[t] = state
    BY <2>1, BecomeKeeps DEF OneCall
  <2>18. Echoes(wire', wire) /\ \A request \in wire' : ~request.awaited
    BY <1>1, FewerEcho, NoneAwaited
  <2> QED BY <1>1, <2>11, <2>13, <2>16, <2>17, <2>18, StateEdited
<1> QED BY <1>2, <1>3

LEMMA ApplyBatchEdited ==
  ASSUME IInv, Memory, OneCall, Caught, Deaths, Edited, NEW s \in Sessions, ApplyBatch(s)
  PROVE  Edited'
<1> DEFINE rec   == sync[s]
           state == sync'[s]
<1>1. /\ rec.phase = "applying"
      /\ store' = [id \in Ids |-> CASE id \in rec.insert  -> Pulled(rec.pull.rows[id])
                                    [] id \in rec.update  -> mem[id]
                                    [] id \in rec.destroy -> NoRow
                                    [] OTHER              -> store[id]]
      /\ UNCHANGED <<server, wire, edits>>
  BY DEF ApplyBatch, remote, ghosts
<1>2. sync'[s] = state /\ state.phase = "stamping" /\ state.pull = rec.pull
  BY Stamps
<1> HIDE DEF state
<1>3. /\ rec.insert \cup rec.update \subseteq DOMAIN rec.pull.rows
      /\ rec.destroy \cap DOMAIN rec.pull.rows = {} /\ rec.insert \cap rec.update = {}
      /\ rec.pull.rows \in Snapshots(Contents)
  <2>1. Fits(rec) /\ rec \in Call
    BY DEF IInv, TypeOK, Rows
  <2> QED BY <1>1, <2>1 DEF Fits, FitsIn, Memory, Apart, Call, Pull
<1>4. /\ \A id \in DOMAIN rec.pull.rows : Kept(store[id], edits[id])
      /\ Merged(rec, store, mem)
  BY <1>1 DEF Edited, Copied, Answered
<1>5. DOMAIN rec.pull.rows \subseteq Ids /\ \A id \in DOMAIN rec.pull.rows : rec.pull.rows[id] \in Contents
  BY <1>3, SnapshotElim
<1>6. ASSUME NEW id \in Ids, id \in rec.insert
      PROVE  DOMAIN edits[id] = {} /\ store'[id].status = "synced"
  <2>1. id \in DOMAIN rec.pull.rows /\ store[id] = NoRow /\ Kept(store[id], edits[id])
    BY <1>1, <1>3, <1>4, <1>6 DEF Merged
  <2>2. store'[id] = Pulled(rec.pull.rows[id])
    BY <1>1, <1>3, <1>6
  <2> QED BY <2>1, <2>2 DEF Kept, IsLive, Pulled
<1>7. ASSUME NEW id \in Ids, id \in rec.update
      PROVE  /\ Kept(store'[id], edits[id]) /\ store'[id] # NoRow /\ store[id] # NoRow
             /\ store'[id].status = store[id].status /\ store'[id].changed = store[id].changed
  <2>1. id \in DOMAIN rec.pull.rows /\ id \notin rec.insert
    BY <1>3, <1>7
  <2>2. store'[id] = mem[id]
    BY <1>1, <1>3, <1>7, <2>1
  <2>3. /\ store[id] # NoRow /\ mem[id] # NoRow
        /\ mem[id].status = store[id].status /\ mem[id].changed = store[id].changed
        /\ \A c \in store[id].changed : mem[id].vals[c] = store[id].vals[c]
    BY <1>1, <1>4, <1>7 DEF Merged
  <2>4. server[id] # NoRow
    <3>1. Tells(rec.pull, rec.since, id, server[id])
      BY <1>1, <2>1 DEF Caught, Told, Answered
    <3> QED BY <2>1, <3>1 DEF Tells, Changed, Alive
  <2>5. ASSUME NEW c \in DOMAIN edits[id]
        PROVE  c \in store[id].changed /\ IsLive(store[id]) /\ store[id].vals[c] = edits[id][c]
               /\ store[id].status \in {"created", "updated"}
    BY <1>4, <2>1, <2>3, <2>4 DEF Kept, Edited, Fresh
  <2>6. Kept(mem[id], edits[id])
    BY <2>3, <2>5 DEF Kept, IsLive
  <2> QED BY <2>2, <2>3, <2>6
<1>8. ASSUME NEW id \in Ids, id \notin rec.insert \cup rec.update
      PROVE  store'[id] = IF id \in rec.destroy THEN NoRow ELSE store[id]
  BY <1>1, <1>8
<1>9. \A id \in rec.destroy : DeadForGood(id, server[id], wire)
  BY <1>1 DEF Deaths, Foretold, Buried
<1>10. Held(server, store', wire, edits)
  <2> SUFFICES ASSUME NEW id \in Ids
               PROVE  \/ Kept(store'[id], edits[id])
                      \/ store'[id] = NoRow /\ DeadForGood(id, server[id], wire)
    BY DEF Held
  <2>1. CASE id \in rec.insert
    BY <1>6, <2>1 DEF Kept
  <2>2. CASE id \in rec.update
    BY <1>7, <2>2
  <2>3. CASE id \notin rec.insert \cup rec.update
    BY <1>8, <1>9, <2>3 DEF Edited, Held
  <2> QED BY <2>1, <2>2, <2>3
<1>11. Fresh(server, store', wire, edits)
  <2> SUFFICES ASSUME NEW id \in Ids, NEW c \in DOMAIN edits[id], store'[id] # NoRow,
                      store'[id].status = "created", c \notin store'[id].changed
               PROVE  store[id] # NoRow /\ store[id].status = "created" /\ c \notin store[id].changed
    BY DEF Edited, Fresh
  <2>1. CASE id \in rec.insert
    BY <1>6, <2>1
  <2>2. CASE id \in rec.update
    BY <1>7, <2>2
  <2>3. CASE id \notin rec.insert \cup rec.update
    BY <1>8, <2>3
  <2> QED BY <2>1, <2>2, <2>3
<1>12. \A id \in DOMAIN rec.pull.rows : Kept(store'[id], edits[id])
  <2> SUFFICES ASSUME NEW id \in DOMAIN rec.pull.rows
               PROVE  Kept(store'[id], edits[id])
    OBVIOUS
  <2>1. CASE id \in rec.insert
    BY <1>5, <1>6, <2>1 DEF Kept
  <2>2. CASE id \in rec.update
    BY <1>5, <1>7, <2>2
  <2>3. CASE id \notin rec.insert \cup rec.update
    BY <1>3, <1>4, <1>5, <1>8, <2>3
  <2> QED BY <2>1, <2>2, <2>3
<1>13. Copied(state, store', edits) /\ Merged(state, store', mem')
  BY <1>2, <1>12 DEF Copied, Merged
<1>14. \A t \in Sessions : sync'[t] = state
  BY <1>2 DEF OneCall
<1>15. Echoes(wire', wire) /\ \A request \in wire' : ~request.awaited
  BY <1>1, FewerEcho, NoneAwaited
<1> QED BY <1>1, <1>10, <1>11, <1>13, <1>14, <1>15, StateEdited

-----------------------------------------------------------------------------
(* The server changes; of what the user wrote it accepts some.             *)
Fewer(wrote, before) ==
  \A id \in Ids : /\ DOMAIN wrote[id] \subseteq DOMAIN before[id]
                  /\ \A c \in DOMAIN wrote[id] : wrote[id][c] = before[id][c]

LEMMA FewerCopied ==
  ASSUME IInv, Edited, NEW s \in Sessions, NEW wrote, Fewer(wrote, edits)
  PROVE  Copied(sync[s], store, wrote)
<1>1. Copied(sync[s], store, edits)
  BY DEF Edited
<1>2. /\ DOMAIN sync[s].pull.rows \subseteq Ids /\ DOMAIN sync[s].copies \subseteq Ids
      /\ sync[s].update \subseteq Ids
  <2>1. /\ sync[s].pull.rows \in Snapshots(Contents) /\ sync[s].copies \in Snapshots(Row)
        /\ sync[s].update \subseteq Ids
    BY TimesOf DEF Call, Pull
  <2> QED BY <2>1, SnapshotElim
<1>3. sync[s].phase \in Answered => \A id \in DOMAIN sync[s].pull.rows : Kept(store[id], wrote[id])
  BY <1>1, <1>2 DEF Copied, Fewer, Kept
<1>4. sync[s].phase \in {"answered", "markQueued"} =>
        \A id \in DOMAIN sync[s].copies \ sync[s].rejected : \A c \in DOMAIN wrote[id] :
          wrote[id][c] # sync[s].copies[id].vals[c]
  BY <1>1, <1>2 DEF Copied, Fewer
<1>5. sync[s].phase = "marking" => \A id \in sync[s].update : store[id] # NoRow => DOMAIN wrote[id] = {}
  BY <1>1, <1>2 DEF Copied, Fewer
<1> QED BY <1>3, <1>4, <1>5 DEF Copied

LEMMA ServerEdited ==
  ASSUME IInv, Edited, UNCHANGED <<store, mem>>, wire' \subseteq wire,
         edits' \in [Ids -> Written], Fewer(edits', edits),
         \A id \in Ids : DeadForGood(id, server[id], wire) => server'[id] = server[id],
         \A id \in Ids : server[id] = NoRow /\ server'[id] # NoRow
           /\ store[id] # NoRow /\ store[id].status = "created" =>
             DOMAIN edits'[id] \subseteq store[id].changed,
         \A s \in Sessions : \/ sync'[s] = sync[s]
                             \/ Copied(sync'[s], store, edits') /\ Merged(sync'[s], store, mem),
         \A request \in wire' : request.awaited => Repeats(sync'[request.from], request)
  PROVE  Edited'
<1>1. Held(server', store, wire, edits')
  <2> SUFFICES ASSUME NEW id \in Ids
               PROVE  \/ Kept(store[id], edits'[id])
                      \/ store[id] = NoRow /\ DeadForGood(id, server'[id], wire)
    BY DEF Held
  <2>1. CASE Kept(store[id], edits[id])
    BY <2>1 DEF Kept, Fewer
  <2>2. CASE store[id] = NoRow /\ DeadForGood(id, server[id], wire)
    BY <2>2
  <2> QED BY <2>1, <2>2 DEF Edited, Held
<1>2. Fresh(server', store, wire, edits')
  <2> SUFFICES ASSUME NEW id \in Ids, NEW c \in DOMAIN edits'[id], store[id] # NoRow,
                      store[id].status = "created", c \notin store[id].changed
               PROVE  /\ server'[id] = NoRow
                      /\ \A request \in wire : id \in DOMAIN request.rows => request.rows[id][c] = edits'[id][c]
    BY DEF Fresh
  <2>1. c \in DOMAIN edits[id] /\ edits'[id][c] = edits[id][c]
    BY DEF Fewer
  <2>2. /\ server[id] = NoRow
        /\ \A request \in wire : id \in DOMAIN request.rows => request.rows[id][c] = edits[id][c]
    BY <2>1 DEF Edited, Fresh
  <2> QED BY <2>1, <2>2
<1>3. Held(server', store, wire', edits') /\ Fresh(server', store, wire', edits')
  BY <1>1, <1>2, FewerEcho, EchoedHeld, EchoedFresh
<1>4. \A s \in Sessions : Copied(sync'[s], store, edits') /\ Merged(sync'[s], store, mem)
  BY FewerCopied DEF Edited
<1> QED BY <1>3, <1>4 DEF Edited

LEMMA RemoteEdited ==
  ASSUME IInv, Edited, NEW id \in Ids, RemoteDeletes(id) \/ \E vals \in Contents : RemoteWrites(id, vals)
  PROVE  Edited'
<1>1. /\ UNCHANGED <<store, mem, sync, wire, edits>> /\ (Exists(id) \/ id \notin used)
      /\ \A x \in Ids : x # id => server'[x] = server[x]
  BY DEF RemoteDeletes, RemoteWrites, db, ghosts, IInv, TypeOK
<1>2. \A x \in Ids : DeadForGood(x, server[x], wire) => server'[x] = server[x]
  BY <1>1 DEF DeadForGood, Dead, Exists, IInv, UsedIds
<1>3. \A x \in Ids : server[x] = NoRow /\ store[x] # NoRow => server'[x] = server[x]
  BY <1>1 DEF Exists, IInv, UsedIds
<1> QED BY <1>1, <1>2, <1>3, ServerEdited DEF Edited, Fewer

(* What it accepts is no longer to be pushed.                              *)
LEMMA AcceptEdits ==
  ASSUME Edited, NEW request, NEW refused, Accept(request, refused)
  PROVE  /\ edits' \in [Ids -> Written] /\ Fewer(edits', edits)
         /\ \A id \in Ids : id \in DOMAIN request.rows \ refused =>
              \A c \in DOMAIN edits'[id] : edits'[id][c] # request.rows[id][c]
         /\ \A id \in Ids : server[id] = NoRow /\ server'[id] # NoRow => id \in DOMAIN request.rows \ refused
<1> DEFINE rows == DOMAIN request.rows \ refused
           left(id) == Only(edits[id], {c \in Columns : c \in DOMAIN edits[id]
                                          /\ edits[id][c] # request.rows[id][c]})
<1>1. edits' = [id \in Ids |-> IF id \notin rows THEN edits[id] ELSE left(id)]
  BY DEF Accept
<1>2. ASSUME NEW id \in Ids
      PROVE  /\ left(id) \in Written /\ DOMAIN left(id) \subseteq DOMAIN edits[id]
             /\ \A c \in DOMAIN left(id) : left(id)[c] = edits[id][c] /\ edits[id][c] # request.rows[id][c]
  <2>1. edits[id] \in [DOMAIN edits[id] -> Values] /\ DOMAIN edits[id] \subseteq Columns
    BY WrittenElim DEF Edited
  <2>2. /\ DOMAIN left(id) \subseteq DOMAIN edits[id]
        /\ \A c \in DOMAIN left(id) : left(id)[c] = edits[id][c] /\ edits[id][c] # request.rows[id][c]
    BY DEF Only
  <2>3. left(id) \in [DOMAIN left(id) -> Values]
    BY <2>1 DEF Only
  <2> HIDE DEF left
  <2> QED BY <2>1, <2>2, <2>3, WrittenIntro
<1> HIDE DEF left, rows
<1>3. edits' \in [Ids -> Written] /\ Fewer(edits', edits)
  BY <1>1, <1>2 DEF Edited, Fewer
<1>4. \A id \in Ids : id \in rows => \A c \in DOMAIN edits'[id] : edits'[id][c] # request.rows[id][c]
  BY <1>1, <1>2
<1>5. \A id \in Ids : server[id] = NoRow /\ server'[id] # NoRow => id \in rows
  BY DEF Accept, Exists, rows
<1> QED BY <1>3, <1>4, <1>5 DEF rows

LEMMA ServerHandlesPushEdited ==
  ASSUME IInv, OneCall, Caught, Edited, NEW request \in wire, ServerHandlesPush(request)
  PROVE  Edited'
<1> DEFINE s       == request.from
           refused == Conflicts(request)
           state   == [sync[s] EXCEPT !.phase = "answered", !.rejected = refused]
<1>1. wire' = wire \ {request} /\ wire' \subseteq wire /\ UNCHANGED <<store, mem>>
  BY DEF ServerHandlesPush, db
<1>2. s \in Sessions /\ Echoes(wire', wire)
  BY <1>1, RequestIds, FewerEcho
<1>3. request.awaited => \A r \in wire' : ~r.awaited
  <2>1. \A r \in wire : r.awaited => r.from = s
    BY <1>2 DEF OneCall, IInv, TypeOK, PushRequest
  <2> QED BY <1>1, <2>1 DEF IInv, Wired
<1>4. ASSUME Accept(request, refused)
      PROVE  /\ edits' \in [Ids -> Written] /\ Fewer(edits', edits)
             /\ \A id \in Ids : DeadForGood(id, server[id], wire) => server'[id] = server[id]
             /\ \A id \in Ids : server[id] = NoRow /\ server'[id] # NoRow
                  /\ store[id] # NoRow /\ store[id].status = "created" =>
                    DOMAIN edits'[id] \subseteq store[id].changed
  <2>1. ASSUME NEW id \in Ids, server[id] = NoRow, server'[id] # NoRow, store[id] # NoRow,
               store[id].status = "created", NEW c \in DOMAIN edits'[id], c \notin store[id].changed
        PROVE  FALSE
    <3>1. id \in DOMAIN request.rows \ refused
      BY <1>4, <2>1, AcceptEdits
    <3>2. edits'[id][c] # request.rows[id][c] /\ c \in DOMAIN edits[id] /\ edits'[id][c] = edits[id][c]
      BY <1>4, <3>1, AcceptEdits DEF Fewer
    <3>3. request.rows[id][c] = edits[id][c]
      BY <2>1, <3>1, <3>2 DEF Edited, Fresh
    <3> QED BY <3>2, <3>3
  <2> QED BY <1>4, <2>1, AcceptEdits, AcceptStays
<1>5. ASSUME Accept(request, refused), request.awaited, sync' = [sync EXCEPT ![s] = state]
      PROVE  Edited'
  <2>1. sync[s] \in Call /\ Asked(sync[s], request) /\ Repeats(sync[s], request)
    BY <1>2, <1>5 DEF IInv, TypeOK, Caught, Edited
  <2>2. refused \in SUBSET Ids
    BY RequestIds DEF Conflicts
  <2>3. /\ state.phase = "answered" /\ state.rejected = refused /\ state.copies = sync[s].copies
    BY ONLY <2>1, <2>2 DEF Call
  <2>4. \A t \in Sessions : sync'[t] = state
    BY <1>2, <1>5 DEF OneCall, IInv, TypeOK
  <2> HIDE DEF state, refused
  <2>5. ASSUME NEW id \in DOMAIN state.copies \ state.rejected, NEW c \in DOMAIN edits'[id]
        PROVE  edits'[id][c] # state.copies[id].vals[c]
    <3>1. /\ id \in DOMAIN request.rows \ refused /\ id \in Ids
          /\ request.rows[id] = state.copies[id].vals
      BY <2>1, <2>3, RequestIds DEF Asked, Repeats
    <3> QED BY <1>5, <3>1, AcceptEdits
  <2>6. Copied(state, store, edits') /\ Merged(state, store, mem)
    BY <2>3, <2>5 DEF Copied, Merged, Answered
  <2> QED BY <1>1, <1>3, <1>4, <1>5, <2>4, <2>6, ServerEdited
<1>6. ASSUME Accept(request, refused), sync' = sync
      PROVE  Edited'
  BY <1>1, <1>4, <1>6, ServerEdited DEF Edited
<1>7. ASSUME UNCHANGED <<remote, edits>>, Become(s, Idle), request.awaited
      PROVE  Edited'
  <2>1. \A t \in Sessions : sync'[t] = Idle
    BY <1>2, <1>7, BecomeKeeps DEF OneCall
  <2> QED BY <1>1, <1>2, <1>3, <1>7, <2>1, IdleEdited, StateEdited DEF remote, Edited
<1>8. ASSUME UNCHANGED <<remote, edits>>, sync' = sync
      PROVE  Edited'
  BY <1>1, <1>8, ServerEdited DEF remote, Edited, Fewer
<1> QED BY <1>5, <1>6, <1>7, <1>8 DEF ServerHandlesPush, Become

-----------------------------------------------------------------------------
(* Resets, the end of the process and the user.                            *)
LEMMA ResetBeginsEdited ==
  ASSUME IInv, Edited, ResetBegins
  PROVE  Edited'
<1>1. sync' = queueAborted /\ UNCHANGED <<store, mem, server, wire, edits>>
  BY DEF ResetBegins, db, remote, ghosts
<1>2. \A t \in Sessions : Copied(sync'[t], store, edits) /\ Merged(sync'[t], store, mem)
  BY <1>1, IdleEdited DEF queueAborted, Edited
<1>3. \A request \in wire : request.awaited => sync'[request.from] = sync[request.from]
  BY <1>1 DEF IInv, TypeOK, PushRequest, Wired, queueAborted
<1> QED BY <1>1, <1>2, <1>3 DEF Edited

LEMMA CrashEdited ==
  ASSUME IInv, Edited, Crash
  PROVE  Edited'
<1>1. /\ sync' = [s \in Sessions |-> Idle]
      /\ wire' = {[request EXCEPT !.awaited = FALSE] : request \in wire}
      /\ UNCHANGED <<store, server, edits>>
  BY DEF Crash, remote, ghosts
<1>2. Echoes(wire', wire)
  BY <1>1, UnawaitedEcho
<1>3. \A r \in wire' : ~r.awaited
  <2>1. \A request \in PushRequest : ~[request EXCEPT !.awaited = FALSE].awaited
    BY DEF PushRequest
  <2> QED BY <1>1, <2>1 DEF IInv, TypeOK
<1>4. \A t \in Sessions : sync'[t] = Idle
  BY <1>1
<1> QED BY <1>1, <1>2, <1>3, <1>4, IdleEdited, StateEdited DEF Edited

(* A call that remembers less of what it pushed.                           *)
Recalls(call, before) ==
  /\ SameCourse(call, before)
  /\ \A id \in DOMAIN call.copies : call.copies[id] = before.copies[id]

LEMMA Recalled ==
  ASSUME IInv, NEW t \in Sessions, NEW S,
         sync'[t] = [sync[t] EXCEPT !.copies = Only(@, S)]
  PROVE  Recalls(sync'[t], sync[t])
<1> DEFINE copies == Only(sync[t].copies, S)
<1>1. sync[t] \in Call /\ sync'[t] = [sync[t] EXCEPT !.copies = copies]
  BY DEF IInv, TypeOK
<1>2. /\ DOMAIN copies \subseteq DOMAIN sync[t].copies
      /\ \A id \in DOMAIN copies : copies[id] = sync[t].copies[id]
  BY DEF Only
<1> HIDE DEF copies
<1> QED BY ONLY <1>1, <1>2 DEF Call, SameCourse, Recalls

LEMMA RecalledRepeats ==
  ASSUME Edited, IInv, UNCHANGED wire, \A t \in Sessions : Recalls(sync'[t], sync[t])
  PROVE  \A request \in wire' : request.awaited => Repeats(sync'[request.from], request)
BY RequestIds DEF Edited, Repeats, Recalls, SameCourse

LEMMA ResetEndsEdited ==
  ASSUME IInv, Edited, ResetEnds
  PROVE  Edited'
<1>1. /\ writer = Resetter /\ UNCHANGED <<server, wire>> /\ edits' = [id \in Ids |-> <<>>]
  BY DEF ResetEnds, remote
<1>2. /\ edits' \in [Ids -> Written]
      /\ \A id \in Ids : DOMAIN edits'[id] = {} /\ \A row : Kept(row, edits'[id])
  BY <1>1, NothingWritten
<1>3. Held(server', store', wire', edits') /\ Fresh(server', store', wire', edits')
  BY <1>2 DEF Held, Fresh
<1>4. \A t \in Sessions : Recalls(sync'[t], sync[t])
  BY Recalled DEF ResetEnds
<1>5. ASSUME NEW t \in Sessions
      PROVE  Copied(sync'[t], store', edits') /\ Merged(sync'[t], store', mem')
  <2>1. sync'[t].phase \notin Inside
    BY <1>1, <1>4, NoCallHas DEF IInv, Queue, Recalls, SameCourse
  <2>2. DOMAIN sync'[t].pull.rows \subseteq Ids /\ DOMAIN sync'[t].copies \subseteq Ids
    <3>1. sync[t].pull.rows \in Snapshots(Contents) /\ sync[t].copies \in Snapshots(Row)
      BY TimesOf DEF Call, Pull
    <3> QED BY <1>4, <3>1, SnapshotElim DEF Recalls, SameCourse
  <2> QED BY <1>2, <2>1, <2>2 DEF Copied, Merged, Inside
<1> QED BY <1>1, <1>2, <1>3, <1>4, <1>5, RecalledRepeats DEF Edited

(* What the user does is about one record.                                 *)
LEMMA UserEdited ==
  ASSUME IInv, Edited, writer = Nobody, UNCHANGED <<server, wire>>, NEW id \in Ids,
         \A x \in Ids : x # id => store'[x] = store[x] /\ edits'[x] = edits[x],
         edits' \in [Ids -> Written], Kept(store'[id], edits'[id]),
         \A c \in DOMAIN edits'[id] :
           store'[id] # NoRow /\ store'[id].status = "created" /\ c \notin store'[id].changed =>
             /\ server[id] = NoRow
             /\ \A request \in wire : id \in DOMAIN request.rows => request.rows[id][c] = edits'[id][c],
         \A t \in Sessions :
           /\ Recalls(sync'[t], sync[t])
           /\ sync'[t].phase \in {"answered", "markQueued"} /\ id \in DOMAIN sync'[t].copies \ sync'[t].rejected =>
                \A c \in DOMAIN edits'[id] : edits'[id][c] # sync'[t].copies[id].vals[c]
  PROVE  Edited'
<1>1. Held(server, store', wire, edits')
  BY DEF Edited, Held
<1>2. Fresh(server, store', wire, edits')
  <2> SUFFICES ASSUME NEW x \in Ids, NEW c \in DOMAIN edits'[x], store'[x] # NoRow,
                      store'[x].status = "created", c \notin store'[x].changed
               PROVE  /\ server[x] = NoRow
                      /\ \A request \in wire : x \in DOMAIN request.rows => request.rows[x][c] = edits'[x][c]
    BY DEF Fresh
  <2>1. CASE x = id
    BY <2>1
  <2>2. CASE x # id
    BY <2>2 DEF Edited, Fresh
  <2> QED BY <2>1, <2>2
<1>3. ASSUME NEW t \in Sessions
      PROVE  Copied(sync'[t], store', edits') /\ Merged(sync'[t], store', mem')
  <2>1. sync'[t].phase \notin Inside
    BY NoCallHas DEF IInv, Queue, Recalls, SameCourse
  <2>2. /\ DOMAIN sync[t].pull.rows \subseteq Ids /\ DOMAIN sync[t].copies \subseteq Ids
    <3>1. sync[t].pull.rows \in Snapshots(Contents) /\ sync[t].copies \in Snapshots(Row)
      BY TimesOf DEF Call, Pull
    <3> QED BY <3>1, SnapshotElim
  <2>3. Copied(sync[t], store, edits) /\ Recalls(sync'[t], sync[t])
    BY DEF Edited
  <2>4. sync'[t].phase \in Answered => \A x \in DOMAIN sync'[t].pull.rows : Kept(store'[x], edits'[x])
    <3> SUFFICES ASSUME sync'[t].phase \in Answered, NEW x \in DOMAIN sync'[t].pull.rows
                 PROVE  Kept(store'[x], edits'[x])
      OBVIOUS
    <3>1. Kept(store[x], edits[x]) /\ x \in Ids
      BY <2>2, <2>3 DEF Copied, Recalls, SameCourse
    <3> QED BY <3>1
  <2>5. sync'[t].phase \in {"answered", "markQueued"} =>
          \A x \in DOMAIN sync'[t].copies \ sync'[t].rejected : \A c \in DOMAIN edits'[x] :
            edits'[x][c] # sync'[t].copies[x].vals[c]
    <3> SUFFICES ASSUME sync'[t].phase \in {"answered", "markQueued"},
                        NEW x \in DOMAIN sync'[t].copies \ sync'[t].rejected, NEW c \in DOMAIN edits'[x]
                 PROVE  edits'[x][c] # sync'[t].copies[x].vals[c]
      OBVIOUS
    <3>1. CASE x = id
      BY <3>1
    <3>2. CASE x # id
      <4>1. /\ x \in DOMAIN sync[t].copies \ sync[t].rejected /\ x \in Ids
            /\ sync[t].phase \in {"answered", "markQueued"} /\ sync'[t].copies[x] = sync[t].copies[x]
        BY <2>2, <2>3 DEF Recalls, SameCourse
      <4>2. edits'[x] = edits[x]
        BY <3>2, <4>1
      <4> QED BY <2>3, <4>1, <4>2 DEF Copied
    <3> QED BY <3>1, <3>2
  <2> QED BY <2>1, <2>4, <2>5 DEF Copied, Merged, Inside
<1> QED BY <1>1, <1>2, <1>3, RecalledRepeats DEF Edited

LEMMA UserStepEdited ==
  ASSUME IInv, Memory, NothingFails, Edited, UserStep
  PROVE  Edited'
<1>1. PICK id \in Ids : \/ \E vals \in Contents : UserCreates(id, vals)
                        \/ \E c \in Columns, v \in Values : UserEdits(id, c, v)
                        \/ UserDeletes(id)
  BY DEF UserStep
<1>2. /\ store \in [Ids -> Row \cup {NoRow}] /\ mem \in [Ids -> Row \cup {NoRow}]
      /\ edits \in [Ids -> Written]
  BY DEF IInv, TypeOK, Edited
<1>3. "editFails" \notin Disturbed
  BY DEF NothingFails
<1>4. \A t \in Sessions : Recalls(sync[t], sync[t])
  BY DEF Recalls, SameCourse
<1>5. ASSUME NEW vals \in Contents, UserCreates(id, vals)
      PROVE  Edited'
  <2> DEFINE row == [status |-> "created", changed |-> {}, vals |-> vals]
  <2>1. /\ writer = Nobody /\ UNCHANGED <<wire, server, sync>> /\ id \notin used
        /\ store' = [store EXCEPT ![id] = row] /\ edits' = [edits EXCEPT ![id] = vals]
    BY <1>5 DEF UserCreates, remote
  <2>2. vals \in Written /\ DOMAIN vals = Columns
    BY WrittenIntro DEF Contents
  <2>3. edits' \in [Ids -> Written] /\ edits'[id] = vals /\ store'[id] = row
    BY <1>2, <2>1, <2>2
  <2>4. \A x \in Ids : x # id => store'[x] = store[x] /\ edits'[x] = edits[x]
    BY <1>2, <2>1
  <2>5. row # NoRow
    BY NoRowAssumption DEF Row
  <2>6. Kept(row, vals)
    BY <2>5 DEF Kept, IsLive
  <2>7. server[id] = NoRow /\ \A request \in wire : id \notin DOMAIN request.rows
    BY <2>1 DEF IInv, UsedIds
  <2>8. \A t \in Sessions : id \notin DOMAIN sync[t].copies
    BY <2>1 DEF IInv, UsedIds, AllUsed
  <2> HIDE DEF row
  <2> QED BY <1>4, <2>1, <2>3, <2>4, <2>6, <2>7, <2>8, UserEdited
<1>6. ASSUME NEW c \in Columns, NEW v \in Values, UserEdits(id, c, v)
      PROVE  Edited'
  <2> DEFINE row  == setRawColumnChange(mem[id], c, v)
             cols == (DOMAIN edits[id] \union {c}) \ (IF Covered(id, c, v) THEN {c} ELSE {})
             left == [x \in cols |-> IF x = c THEN v ELSE edits[id][x]]
  <2>1. /\ writer = Nobody /\ id \in Live /\ UNCHANGED <<wire, server, sync>>
        /\ mem' = [mem EXCEPT ![id] = row] /\ store' = [store EXCEPT ![id] = mem'[id]]
        /\ edits' = [edits EXCEPT ![id] = left]
    BY <1>3, <1>6 DEF UserEdits, Wrote, remote
  <2>2. edits[id] \in [DOMAIN edits[id] -> Values] /\ DOMAIN edits[id] \subseteq Columns
    BY <1>2, WrittenElim
  <2>3. left \in Written
    <3>1. cols \in SUBSET Columns /\ left \in [cols -> Values]
      BY <2>2
    <3> QED BY ONLY <3>1, WrittenIntro
  <2>4. /\ DOMAIN left = cols /\ cols \subseteq DOMAIN edits[id] \cup {c} /\ cols \subseteq Columns
        /\ \A x \in cols : left[x] = IF x = c THEN v ELSE edits[id][x]
        /\ Covered(id, c, v) => c \notin cols
    BY <2>2
  <2> HIDE DEF left, cols
  <2>5. edits' \in [Ids -> Written] /\ edits'[id] = left /\ store'[id] = row
    BY <1>2, <2>1, <2>3
  <2>6. \A x \in Ids : x # id => store'[x] = store[x] /\ edits'[x] = edits[x]
    BY <1>2, <2>1
  <2>7. store[id] \in Row /\ store[id] # NoRow /\ store[id].status # "deleted" /\ mem[id] = store[id]
    <3>1. Agrees(store[id], mem[id])
      BY <2>1, NoCallHas DEF Memory, Agree, IInv, Queue
    <3> QED BY <1>2, <2>1, <3>1 DEF Agrees, Live, IsLive
  <2>8. /\ row \in Row /\ row.vals[c] = v /\ row.changed = store[id].changed \cup {c}
        /\ \A x \in Columns : x # c => row.vals[x] = store[id].vals[x]
        /\ row.status = IF store[id].status = "created" THEN "created" ELSE "updated"
    BY <2>7 DEF setRawColumnChange, Row, Contents
  <2> HIDE DEF row
  <2>9. row # NoRow
    BY <2>8, NoRowAssumption
  <2>10. Kept(store[id], edits[id])
    BY <2>7 DEF Edited, Held
  <2>11. Kept(row, left)
    <3> SUFFICES ASSUME NEW x \in cols
                 PROVE  /\ IsLive(row) /\ row.vals[x] = left[x]
                        /\ row.status = "created" \/ (row.status = "updated" /\ x \in row.changed)
      BY <2>4 DEF Kept
    <3>1. CASE x = c
      BY <2>4, <2>8, <2>9, <3>1 DEF IsLive
    <3>2. CASE x # c
      <4>1. x \in DOMAIN edits[id] /\ x \in Columns /\ left[x] = edits[id][x]
        BY <2>4, <3>2
      <4>2. /\ store[id].vals[x] = edits[id][x]
            /\ store[id].status = "created" \/ (store[id].status = "updated" /\ x \in store[id].changed)
        BY <2>10, <4>1 DEF Kept
      <4> QED BY <2>8, <2>9, <3>2, <4>1, <4>2 DEF IsLive
    <3> QED BY <3>1, <3>2
  <2>12. ASSUME NEW x \in DOMAIN left, row.status = "created", x \notin row.changed
         PROVE  /\ server[id] = NoRow
                /\ \A request \in wire : id \in DOMAIN request.rows => request.rows[id][x] = left[x]
    <3>1. /\ x # c /\ x \in DOMAIN edits[id] /\ left[x] = edits[id][x]
          /\ x \notin store[id].changed /\ store[id].status = "created"
      BY <2>4, <2>8, <2>12
    <3> QED BY <2>7, <3>1 DEF Edited, Fresh
  <2>13. ASSUME NEW t \in Sessions, sync[t].phase \in {"answered", "markQueued"},
                id \in DOMAIN sync[t].copies \ sync[t].rejected, NEW x \in DOMAIN left
         PROVE  left[x] # sync[t].copies[id].vals[x]
    <3>1. CASE x = c
      <4>1. ~Covered(id, c, v) /\ left[x] = v
        BY <2>4, <3>1
      <4> QED BY <2>13, <3>1, <4>1 DEF Covered
    <3>2. CASE x # c
      <4>1. x \in DOMAIN edits[id] /\ left[x] = edits[id][x]
        BY <2>4, <3>2
      <4> QED BY <2>13, <4>1 DEF Edited, Copied
    <3> QED BY <3>1, <3>2
  <2> QED BY ONLY IInv, Edited, <1>4, <2>1, <2>5, <2>6, <2>11, <2>12, <2>13, UserEdited
<1>7. CASE UserDeletes(id)
  <2>1. /\ writer = Nobody /\ UNCHANGED <<wire, server>>
        /\ store' = [store EXCEPT ![id].status = "deleted"] /\ sync' = Forget({id})
        /\ edits' = [edits EXCEPT ![id] = <<>>]
    BY <1>3, <1>7 DEF UserDeletes, remote
  <2>2. /\ edits' \in [Ids -> Written] /\ edits'[id] = <<>>
        /\ \A x \in Ids : x # id => store'[x] = store[x] /\ edits'[x] = edits[x]
    BY <1>2, <2>1, NothingWritten
  <2>3. Kept(store'[id], edits'[id]) /\ DOMAIN edits'[id] = {}
    BY <2>2, NothingWritten
  <2>4. \A t \in Sessions : Recalls(sync'[t], sync[t])
    BY <2>1, Recalled DEF Forget
  <2> QED BY <2>1, <2>2, <2>3, <2>4, UserEdited
<1> QED BY <1>1, <1>5, <1>6, <1>7

-----------------------------------------------------------------------------
LEMMA EditedStep ==
  ASSUME IInv, Memory, OneCall, NothingFails, Caught, Deaths, Edited, [Next]_vars
  PROVE  Edited'
<1>1. ASSUME NEW s \in Sessions, Start(s) \/ SessionStep(s) \/ PullFails(s) \/ PushFails(s)
      PROVE  Edited'
  BY ONLY IInv, Memory, OneCall, Caught, Deaths, Edited, <1>1, StartEdited, ServerAnswersPullEdited,
     PullArrivesEdited, ApplyRemoteChangesEdited, ApplyBatchEdited, SetLastPulledAtEdited,
     FetchLocalChangesEdited, PushAnsweredEdited, MarkLocalChangesAsSyncedEdited, MarkBatchEdited,
     MarkDestroysEdited, FailsEdited DEF SessionStep
<1>2. ASSUME NEW s \in Sessions
      PROVE  ~ApplyBatchFails(s) /\ ~MarkBatchFails(s)
  BY DEF ApplyBatchFails, MarkBatchFails, Disturb, NothingFails
<1>3. ASSUME NEW request \in wire, ServerHandlesPush(request)
      PROVE  Edited'
  BY ONLY IInv, OneCall, Caught, Edited, <1>3, ServerHandlesPushEdited
<1>4. ASSUME (\E request \in wire : RequestIsLost(request)) \/ UNCHANGED vars
      PROVE  Edited'
  <2>1. UNCHANGED <<store, mem, sync, server, edits>> /\ wire' \subseteq wire
    BY <1>4 DEF RequestIsLost, db, remote, ghosts, vars
  <2>2. Held(server, store, wire', edits) /\ Fresh(server, store, wire', edits)
    BY <2>1, FewerEcho, EchoedHeld, EchoedFresh DEF Edited
  <2> QED BY <2>1, <2>2 DEF Edited
<1>5. ASSUME NEW id \in Ids, RemoteDeletes(id) \/ \E vals \in Contents : RemoteWrites(id, vals)
      PROVE  Edited'
  BY ONLY IInv, Edited, <1>5, RemoteEdited
<1>6. ASSUME Crash \/ ResetBegins \/ ResetEnds \/ UserStep
      PROVE  Edited'
  BY ONLY IInv, Memory, NothingFails, Edited, <1>6, CrashEdited, ResetBeginsEdited, ResetEndsEdited,
     UserStepEdited
<1> QED BY ONLY [Next]_vars, <1>1, <1>2, <1>3, <1>4, <1>5, <1>6 DEF Next, WorldStep

LEMMA EditedInit ==
  ASSUME Init
  PROVE  Edited
<1>1. /\ \A s \in Sessions : sync[s] = Idle
      /\ edits = [id \in Ids |-> <<>>] /\ wire = {}
  BY DEF Init
<1>2. edits \in [Ids -> Written] /\ \A id \in Ids : DOMAIN edits[id] = {}
  BY <1>1, NothingWritten
<1>3. Held(server, store, wire, edits) /\ Fresh(server, store, wire, edits)
  BY <1>2 DEF Held, Fresh, Kept
<1> QED BY <1>1, <1>2, <1>3, IdleEdited DEF Edited

LEMMA EditedSurvive ==
  ASSUME Edited
  PROVE  LocalEditsSurvive
BY DEF Edited, Held, Kept, DeadForGood, Dead, LocalEditsSurvive, Exists

(* With one call at a time and no batch that is rejected, nothing that the *)
(* user wrote is undone before the server has accepted it, unless the      *)
(* server has deleted the record: it is in the row, marked for the next    *)
(* push (helpers.js, markAsSynced.js).                                     *)
THEOREM LocalEditsKept ==
  ASSUME OneCall, NothingFails
  PROVE  Spec => []LocalEditsSurvive
<1> DEFINE Inv == IInv /\ Memory /\ Caught /\ Unfetched /\ Deaths /\ Edited
<1>1. Init => Inv
  BY InitInv, CaughtInit, DeathsInit, EditedInit
<1>2. Inv /\ [Next]_vars => Inv'
  BY StepInv, MemoryStep, CaughtStep, UnfetchedStep, DeathsStep, EditedStep
<1>3. Inv => LocalEditsSurvive
  BY EditedSurvive
<1> QED BY <1>1, <1>2, <1>3, PTL DEF Spec

-----------------------------------------------------------------------------
(* What the user deleted and the server has not: the row is there, marked  *)
(* as deleted, or gone with a record that is dead for good. A server that  *)
(* says a record is new lets it be inserted again, and a replacement drops *)
(* rows marked as deleted of which the server may hear only later: neither *)
(* is done here.                                                           *)
SentAsUpdated == ~ServerReportsCreated /\ Strategies = {"incremental"}

Deleted(row) == row # NoRow /\ row.status = "deleted"

Departed(remotes, rows, requests, mourned) ==
  \A id \in mourned : Deleted(rows[id]) \/ (rows[id] = NoRow /\ DeadForGood(id, remotes[id], requests))

(* A pull brings nothing that is gone, and what a push has deleted on the  *)
(* server is mourned no more.                                              *)
Mourns(call, count, rows, mourned) ==
  /\ call.phase \in Answered =>
       /\ call.pull.created = {} /\ call.pull.strategy = "incremental"
       /\ \A id \in DOMAIN call.pull.rows \cap mourned : Deleted(rows[id])
  /\ call.phase \in {"answered"} \cup Marks /\ call.resets = count =>
       call.pushedDeleted \cap mourned \subseteq call.rejected

(* Inductive together with IInv, Memory, Caught, Deaths and Edited.        *)
Mourned ==
  /\ deletions \subseteq Ids
  /\ Departed(server, store, wire, deletions)
  /\ \A s \in Sessions : Mourns(sync[s], resetCount, store, deletions)

LEMMA EchoedDeparted ==
  ASSUME NEW requests, NEW others, Echoes(requests, others), NEW remotes, NEW rows, NEW mourned,
         Departed(remotes, rows, others, mourned)
  PROVE  Departed(remotes, rows, requests, mourned)
BY EchoedDead DEF Departed

LEMMA IdleMourns == \A count, rows, mourned : Mourns(Idle, count, rows, mourned)
BY DEF Mourns, Idle, Answered, Marks

LEMMA StateMourned ==
  ASSUME IInv, Mourned, NEW state, \A t \in Sessions : sync'[t] = state,
         UNCHANGED <<server, deletions, resetCount>>, Echoes(wire', wire),
         Departed(server, store', wire, deletions), Mourns(state, resetCount, store', deletions)
  PROVE  Mourned'
<1>1. Departed(server, store', wire', deletions)
  BY EchoedDeparted
<1> QED BY <1>1 DEF Mourned

LEMMA OnlyCallMourned ==
  ASSUME IInv, OneCall, Mourned, NEW s \in Sessions, NEW state, Become(s, state),
         UNCHANGED <<server, deletions, resetCount, store>>, Echoes(wire', wire),
         Mourns(state, resetCount, store, deletions)
  PROVE  Mourned'
<1>1. \A t \in Sessions : sync'[t] = state
  BY BecomeKeeps DEF OneCall
<1> QED BY <1>1, StateMourned DEF Mourned

LEMMA StartMourned ==
  ASSUME IInv, OneCall, Mourned, NEW s \in Sessions, Start(s)
  PROVE  Mourned'
<1> DEFINE state == [Idle EXCEPT !.phase = "pulling", !.resets = resetCount, !.since = lastPulledAt]
<1>1. Become(s, state) /\ UNCHANGED <<store, server, wire, deletions, resetCount>>
  BY DEF Start, db, remote, ghosts
<1>2. state.phase = "pulling"
  BY IdleIsACall DEF Call
<1> HIDE DEF state
<1>3. Mourns(state, resetCount, store, deletions)
  BY <1>2 DEF Mourns, Answered, Marks
<1> QED BY <1>1, <1>3, FewerEcho, OnlyCallMourned

LEMMA ServerAnswersPullMourned ==
  ASSUME IInv, OneCall, SentAsUpdated, Mourned, NEW s \in Sessions, NEW strategy \in Strategies,
         ServerAnswersPull(s, strategy)
  PROVE  Mourned'
<1> DEFINE since   == IF strategy = "replacement" THEN 0 ELSE sync[s].since
           changed == {id \in Ids : server[id] # NoRow /\ server[id].mod > since}
           alive   == {id \in changed : Exists(id)}
           pull == [rows      |-> [id \in alive |-> server[id].vals],
                    created   |-> {id \in alive : /\ ServerReportsCreated
                                                  /\ server[id].born > sync[s].since},
                    deleted   |-> IF strategy = "replacement" THEN {} ELSE changed \ alive,
                    timestamp |-> clock,
                    strategy  |-> strategy]
           state == [sync[s] EXCEPT !.phase = "pulled", !.pull = pull]
<1>1. Become(s, state) /\ UNCHANGED <<store, server, wire, deletions, resetCount>>
  BY DEF ServerAnswersPull, db, remote, ghosts
<1>2. DOMAIN pull.rows = alive /\ pull.created = {} /\ pull.strategy = "incremental"
  BY DEF SentAsUpdated
<1> HIDE DEF pull
<1>3. state.phase = "pulled" /\ state.pull = pull
  BY TimesOf DEF Call
<1> HIDE DEF state
<1>4. \A id \in alive \cap deletions : Deleted(store[id])
  BY DEF Exists, Mourned, Departed, DeadForGood, Dead
<1>5. Mourns(state, resetCount, store, deletions)
  BY <1>2, <1>3, <1>4 DEF Mourns, Marks
<1> QED BY <1>1, <1>5, FewerEcho, OnlyCallMourned

(* A call goes on with what it pulled, or with what it pushed.             *)
LEMMA PhaseMourned ==
  ASSUME IInv, OneCall, Mourned, NEW s \in Sessions,
         PullArrives(s) \/ SetLastPulledAt(s) \/ PushAnswered(s) \/ MarkLocalChangesAsSynced(s)
  PROVE  Mourned'
<1>1. PICK phase, S :
        /\ \/ Become(s, [sync[s] EXCEPT !.phase = phase]) \/ Become(s, Idle)
           \/ Become(s, [sync[s] EXCEPT !.phase = phase, !.update = S])
        /\ \/ sync[s].phase = "pulled" /\ phase = "applyQueued"
           \/ sync[s].phase = "stamping" /\ phase = "fetchQueued"
           \/ sync[s].phase = "answered" /\ phase = "markQueued"
           \/ sync[s].phase = "markQueued" /\ phase = "marking"
        /\ UNCHANGED <<store, server, wire, deletions, resetCount>>
  <2> USE DEF db, remote, ghosts
  <2>1. CASE PullArrives(s)
    BY <2>1 DEF PullArrives
  <2>2. CASE SetLastPulledAt(s)
    BY <2>2 DEF SetLastPulledAt
  <2>3. CASE PushAnswered(s)
    BY <2>3 DEF PushAnswered
  <2>4. CASE MarkLocalChangesAsSynced(s)
    BY <2>4 DEF MarkLocalChangesAsSynced
  <2> QED BY <2>1, <2>2, <2>3, <2>4
<1>2. ASSUME NEW state, /\ \/ state = [sync[s] EXCEPT !.phase = phase]
                           \/ state = [sync[s] EXCEPT !.phase = phase, !.update = S]
      PROVE  Mourns(state, resetCount, store, deletions)
  <2>1. sync[s] \in Call
    BY TimesOf
  <2>2. /\ state.phase = phase /\ state.pull = sync[s].pull /\ state.resets = sync[s].resets
        /\ state.pushedDeleted = sync[s].pushedDeleted /\ state.rejected = sync[s].rejected
    BY ONLY <1>2, <2>1 DEF Call
  <2>3. Mourns(sync[s], resetCount, store, deletions)
    BY DEF Mourned
  <2> QED BY <1>1, <2>2, <2>3 DEF Mourns, Answered, Marks
<1>3. Echoes(wire', wire)
  BY <1>1, FewerEcho
<1>4. \E state : Become(s, state) /\ Mourns(state, resetCount, store, deletions)
  BY <1>1, <1>2, IdleMourns
<1> QED BY <1>1, <1>3, <1>4, OnlyCallMourned

LEMMA FailsMourned ==
  ASSUME IInv, OneCall, Mourned, NEW s \in Sessions, PullFails(s) \/ PushFails(s)
  PROVE  Mourned'
<1>1. Become(s, Idle) /\ UNCHANGED <<server, deletions, resetCount, store>>
  BY DEF PullFails, PushFails, db, remote, ghosts
<1>2. \A request \in wire : (request.awaited /\ request.from # s) \in BOOLEAN
  OBVIOUS
<1>3. UNCHANGED wire \/ \A r \in wire' : \E q \in wire, b \in BOOLEAN : r = [q EXCEPT !.awaited = b]
  BY <1>2, ZenonT(30) DEF PullFails, PushFails, NotAwaited
<1>4. Echoes(wire', wire)
  BY <1>3, FewerEcho, UnawaitedEcho
<1> QED BY <1>1, <1>4, IdleMourns, OnlyCallMourned

LEMMA FetchLocalChangesMourned ==
  ASSUME IInv, OneCall, Mourned, NEW s \in Sessions, FetchLocalChanges(s)
  PROVE  Mourned'
<1> DEFINE state == [sync[s] EXCEPT !.phase = "pushing", !.copies = Only(mem, unsynced),
                                    !.pushedDeleted = LocallyDeleted]
<1>1. /\ UNCHANGED <<store, server, deletions, resetCount>>
      /\ \/ Become(s, state) /\ wire' = wire \cup {Request(s)}
         \/ Become(s, Idle) /\ UNCHANGED wire
  BY DEF FetchLocalChanges, db, remote, ghosts
<1>2. state.phase = "pushing"
  BY TimesOf DEF Call
<1> HIDE DEF state
<1>3. Mourns(state, resetCount, store, deletions)
  BY <1>2 DEF Mourns, Answered, Marks
<1>4. DOMAIN Request(s).rows = unsynced
  BY DEF Request
<1>5. ASSUME wire' = wire \cup {Request(s)}
      PROVE  Departed(server, store, wire', deletions)
  BY <1>4, <1>5 DEF Mourned, Departed, DeadForGood, unsynced
<1>6. CASE Become(s, state) /\ wire' = wire \cup {Request(s)}
  <2>1. \A t \in Sessions : sync'[t] = state
    BY <1>6, BecomeKeeps DEF OneCall
  <2> QED BY <1>1, <1>3, <1>5, <1>6, <2>1 DEF Mourned
<1>7. CASE Become(s, Idle) /\ UNCHANGED wire
  BY <1>1, <1>7, IdleMourns, FewerEcho, OnlyCallMourned
<1> QED BY <1>1, <1>6, <1>7

(* A row marked as deleted is dropped by a pull that says that its record  *)
(* is gone, and then it is for good.                                       *)
LEMMA ApplyRemoteChangesMourned ==
  ASSUME IInv, OneCall, Deaths, Mourned, NEW s \in Sessions, ApplyRemoteChanges(s)
  PROVE  Mourned'
<1> DEFINE pull  == sync[s].pull
           state == [sync[s] EXCEPT !.phase = "applying", !.insert = toInsert(pull),
                       !.update = toUpdate(pull), !.destroy = gone(pull) \cap Live]
<1>1. /\ sync[s].phase = "applyQueued" /\ UNCHANGED <<server, wire, deletions, resetCount>>
      /\ sync[s] \in Call
  BY DEF ApplyRemoteChanges, IInv, TypeOK, remote, ghosts
<1>2. CASE ~mayApply(s)
  BY <1>1, <1>2, IdleMourns, FewerEcho, OnlyCallMourned DEF ApplyRemoteChanges
<1>3. CASE mayApply(s)
  <2>1. /\ Become(s, state)
        /\ store' = [id \in Ids |->
             IF id \in (gone(pull) \cap LocallyDeleted) \union recreated(pull)
             THEN NoRow ELSE store[id]]
    BY <1>3 DEF ApplyRemoteChanges
  <2>2. state.phase = "applying" /\ state.pull = pull
    BY ONLY <1>1 DEF Call, Phases
  <2>3. /\ pull.created = {} /\ pull.strategy = "incremental"
        /\ \A id \in DOMAIN pull.rows \cap deletions : Deleted(store[id])
    BY <1>1 DEF Mourned, Mourns, Answered
  <2>4. gone(pull) = pull.deleted /\ recreated(pull) = {}
    BY <2>3 DEF gone, recreated
  <2>5. \A id \in pull.deleted : id \notin DOMAIN pull.rows
    BY DEF IInv, Rows, Fits, FitsIn
  <2>6. \A id \in Ids : id \in pull.deleted /\ store[id] # NoRow => DeadForGood(id, server[id], wire)
    BY <1>1 DEF Deaths, Foretold, Buried
  <2> HIDE DEF pull, state
  <2>7. \A id \in Ids : store'[id] = IF id \in pull.deleted /\ id \in LocallyDeleted THEN NoRow ELSE store[id]
    BY <2>1, <2>4
  <2>8. Departed(server, store', wire, deletions)
    BY <2>6, <2>7 DEF Mourned, Departed, LocallyDeleted
  <2>9. Mourns(state, resetCount, store', deletions)
    BY <2>2, <2>3, <2>5, <2>7 DEF Mourned, Mourns, Marks
  <2>10. \A t \in Sessions : sync'[t] = state
    BY <2>1, BecomeKeeps DEF OneCall
  <2> QED BY <1>1, <2>8, <2>9, <2>10, FewerEcho, StateMourned
<1> QED BY <1>2, <1>3

(* A batch writes no row that the user deleted: it inserts where nothing is*)
(* and updates rows that are live.                                         *)
LEMMA ApplyBatchMourned ==
  ASSUME IInv, Memory, OneCall, Deaths, Edited, Mourned, NEW s \in Sessions, ApplyBatch(s)
  PROVE  Mourned'
<1> DEFINE rec   == sync[s]
           state == sync'[s]
<1>1. /\ rec.phase = "applying"
      /\ store' = [id \in Ids |-> CASE id \in rec.insert  -> Pulled(rec.pull.rows[id])
                                    [] id \in rec.update  -> mem[id]
                                    [] id \in rec.destroy -> NoRow
                                    [] OTHER              -> store[id]]
      /\ UNCHANGED <<server, wire, deletions, resetCount>>
  BY DEF ApplyBatch, remote, ghosts
<1>2. sync'[s] = state /\ state.phase = "stamping" /\ state.pull = rec.pull
  BY Stamps
<1> HIDE DEF state
<1>3. /\ rec.insert \cup rec.update \subseteq DOMAIN rec.pull.rows
      /\ rec.destroy \cap DOMAIN rec.pull.rows = {} /\ rec.insert \cap rec.update = {}
  BY <1>1 DEF IInv, Rows, Fits, FitsIn, Memory, Apart
<1>4. /\ rec.pull.created = {} /\ rec.pull.strategy = "incremental"
      /\ \A id \in DOMAIN rec.pull.rows \cap deletions : Deleted(store[id])
  BY <1>1 DEF Mourned, Mourns, Answered
<1>5. Merged(rec, store, mem)
  BY DEF Edited
<1>6. ASSUME NEW id \in Ids, id \in deletions
      PROVE  id \notin rec.insert \cup rec.update
  <2>1. CASE id \in rec.insert
    BY <1>1, <1>3, <1>4, <1>5, <1>6, <2>1 DEF Merged, Deleted
  <2>2. CASE id \in rec.update
    <3>1. id \notin rec.insert /\ IsLive(mem[id]) /\ mem[id].status = store[id].status
      BY <1>1, <1>3, <1>5, <1>6, <2>2 DEF Merged, Memory, Apart
    <3> QED BY <1>3, <1>4, <1>6, <2>2, <3>1 DEF IsLive, Deleted
  <2> QED BY <2>1, <2>2
<1>7. ASSUME NEW id \in Ids, id \in deletions
      PROVE  store'[id] = IF id \in rec.destroy THEN NoRow ELSE store[id]
  BY <1>1, <1>6, <1>7
<1>8. \A id \in rec.destroy : DeadForGood(id, server[id], wire)
  BY <1>1 DEF Deaths, Foretold, Buried
<1>9. Departed(server, store', wire, deletions)
  BY <1>7, <1>8 DEF Mourned, Departed
<1>10. Mourns(state, resetCount, store', deletions)
  BY <1>2, <1>3, <1>4, <1>7 DEF Mourned, Mourns, Marks
<1>11. \A t \in Sessions : sync'[t] = state
  BY <1>2 DEF OneCall
<1> QED BY <1>1, <1>9, <1>10, <1>11, FewerEcho, StateMourned

LEMMA MarkBatchMourned ==
  ASSUME IInv, Memory, OneCall, Mourned, NEW s \in Sessions, MarkBatch(s)
  PROVE  Mourned'
<1> DEFINE state == [sync[s] EXCEPT !.phase = "destroying", !.update = {}]
<1>1. /\ sync[s].phase = "marking" /\ Become(s, state)
      /\ store' = [id \in Ids |-> IF id \in sync[s].update /\ store[id] # NoRow
                                  THEN Marked(sync[s].copies[id]) ELSE store[id]]
      /\ UNCHANGED <<server, wire, deletions, resetCount>>
  BY DEF MarkBatch, remote, ghosts
<1>2. /\ state.phase = "destroying" /\ state.resets = sync[s].resets
      /\ state.pushedDeleted = sync[s].pushedDeleted /\ state.rejected = sync[s].rejected
  BY TimesOf DEF Call
<1> HIDE DEF state
<1>3. \A id \in Ids : id \in sync[s].update => store[id] = NoRow \/ ~Deleted(store[id])
  BY <1>1 DEF Memory, Apart, IsLive, Deleted
<1>4. \A id \in deletions : id \in Ids /\ store'[id] = store[id]
  BY <1>1, <1>3 DEF Mourned, Departed
<1>5. Departed(server, store', wire, deletions)
  BY <1>4 DEF Mourned, Departed
<1>6. Mourns(state, resetCount, store', deletions)
  BY <1>1, <1>2 DEF Mourned, Mourns, Answered, Marks
<1>7. \A t \in Sessions : sync'[t] = state
  BY <1>1, BecomeKeeps DEF OneCall
<1> QED BY <1>1, <1>5, <1>6, <1>7, FewerEcho, StateMourned

(* What is destroyed has been accepted; of a call from before a reset      *)
(* there is nothing to destroy.                                            *)
LEMMA MarkDestroysMourned ==
  ASSUME IInv, OneCall, Mourned, NEW s \in Sessions, MarkDestroys(s)
  PROVE  Mourned'
<1>1. /\ sync[s].phase = "destroying" /\ Become(s, Idle)
      /\ store' = [id \in Ids |-> IF id \in toDestroy(s) THEN NoRow ELSE store[id]]
      /\ UNCHANGED <<server, wire, deletions, resetCount>>
  BY DEF MarkDestroys, remote, ghosts
<1>2. ASSUME NEW id \in Ids, id \in deletions
      PROVE  store'[id] = store[id]
  <2>1. CASE sync[s].resets = resetCount
    BY <1>1, <1>2, <2>1 DEF Mourned, Mourns, Marks, toDestroy
  <2>2. CASE sync[s].resets # resetCount
    BY <1>1, <1>2, <2>2 DEF IInv, Rows, Fits, FitsIn, Marks, Old, toDestroy
  <2> QED BY <2>1, <2>2
<1>3. Departed(server, store', wire, deletions)
  BY <1>2 DEF Mourned, Departed
<1>4. \A t \in Sessions : sync'[t] = Idle
  BY <1>1, BecomeKeeps DEF OneCall
<1> QED BY <1>1, <1>3, <1>4, IdleMourns, FewerEcho, StateMourned

-----------------------------------------------------------------------------
(* The server changes; of what the user deleted it accepts some.           *)
LEMMA ServerMourned ==
  ASSUME IInv, Mourned, UNCHANGED <<store, resetCount>>, wire' \subseteq wire, deletions' \subseteq deletions,
         \A id \in Ids : DeadForGood(id, server[id], wire) => server'[id] = server[id],
         \A s \in Sessions : sync'[s] = sync[s] \/ Mourns(sync'[s], resetCount, store, deletions')
  PROVE  Mourned'
<1>1. Departed(server', store, wire, deletions')
  BY DEF Mourned, Departed
<1>2. Departed(server', store, wire', deletions')
  BY <1>1, FewerEcho, EchoedDeparted
<1>3. \A s \in Sessions : Mourns(sync'[s], resetCount, store, deletions')
  BY DEF Mourned, Mourns
<1> QED BY <1>2, <1>3 DEF Mourned

LEMMA RemoteMourned ==
  ASSUME IInv, Mourned, NEW id \in Ids, RemoteDeletes(id) \/ \E vals \in Contents : RemoteWrites(id, vals)
  PROVE  Mourned'
<1>1. /\ UNCHANGED <<store, sync, wire, deletions, resetCount>> /\ (Exists(id) \/ id \notin used)
      /\ \A x \in Ids : x # id => server'[x] = server[x]
  BY DEF RemoteDeletes, RemoteWrites, db, ghosts, IInv, TypeOK
<1>2. \A x \in Ids : DeadForGood(x, server[x], wire) => server'[x] = server[x]
  BY <1>1 DEF DeadForGood, Dead, Exists, IInv, UsedIds
<1> QED BY <1>1, <1>2, ServerMourned

LEMMA ServerHandlesPushMourned ==
  ASSUME IInv, OneCall, Caught, Mourned, NEW request \in wire, ServerHandlesPush(request)
  PROVE  Mourned'
<1> DEFINE s       == request.from
           refused == Conflicts(request)
           state   == [sync[s] EXCEPT !.phase = "answered", !.rejected = refused]
<1>1. wire' = wire \ {request} /\ wire' \subseteq wire /\ UNCHANGED <<store, resetCount>>
  BY DEF ServerHandlesPush, db
<1>2. s \in Sessions
  BY RequestIds
<1>3. ASSUME Accept(request, refused)
      PROVE  /\ deletions' = deletions \ (request.deleted \ refused)
             /\ \A id \in Ids : DeadForGood(id, server[id], wire) => server'[id] = server[id]
  BY <1>3, AcceptStays DEF Accept
<1>4. ASSUME Accept(request, refused), request.awaited, sync' = [sync EXCEPT ![s] = state]
      PROVE  Mourned'
  <2>1. sync[s] \in Call /\ sync[s].pushedDeleted \subseteq request.deleted
    BY <1>2, <1>4 DEF IInv, TypeOK, Caught, Asked
  <2>2. refused \in SUBSET Ids
    BY RequestIds DEF Conflicts
  <2>3. /\ state.phase = "answered" /\ state.rejected = refused
        /\ state.pushedDeleted = sync[s].pushedDeleted
    BY ONLY <2>1, <2>2 DEF Call
  <2>4. \A t \in Sessions : sync'[t] = state
    BY <1>2, <1>4 DEF OneCall, IInv, TypeOK
  <2> HIDE DEF state, refused
  <2>5. Mourns(state, resetCount, store, deletions')
    BY <1>3, <1>4, <2>1, <2>3 DEF Mourns, Answered
  <2> QED BY <1>1, <1>3, <1>4, <2>4, <2>5, ServerMourned
<1>5. ASSUME Accept(request, refused), sync' = sync
      PROVE  Mourned'
  BY <1>1, <1>3, <1>5, ServerMourned
<1>6. ASSUME UNCHANGED <<remote, deletions>>, Become(s, Idle)
      PROVE  Mourned'
  <2>1. \A t \in Sessions : sync'[t] = Idle
    BY <1>2, <1>6, BecomeKeeps DEF OneCall
  <2> QED BY <1>1, <1>6, <2>1, IdleMourns, ServerMourned DEF remote
<1>7. ASSUME UNCHANGED <<remote, deletions>>, sync' = sync
      PROVE  Mourned'
  BY <1>1, <1>7, ServerMourned DEF remote
<1> QED BY <1>4, <1>5, <1>6, <1>7 DEF ServerHandlesPush, Become

-----------------------------------------------------------------------------
(* Resets, the end of the process and the user.                            *)
LEMMA ResetBeginsMourned ==
  ASSUME IInv, Mourned, ResetBegins
  PROVE  Mourned'
<1>1. sync' = queueAborted /\ UNCHANGED <<store, server, wire, deletions, resetCount>>
  BY DEF ResetBegins, db, remote, ghosts
<1>2. \A t \in Sessions : Mourns(sync'[t], resetCount, store, deletions)
  BY <1>1, IdleMourns DEF queueAborted, Mourned
<1> QED BY <1>1, <1>2 DEF Mourned

LEMMA CrashMourned ==
  ASSUME IInv, Mourned, Crash
  PROVE  Mourned'
<1>1. /\ sync' = [s \in Sessions |-> Idle]
      /\ wire' = {[request EXCEPT !.awaited = FALSE] : request \in wire}
      /\ UNCHANGED <<store, server, deletions>>
  BY DEF Crash, remote, ghosts
<1>2. Echoes(wire', wire)
  BY <1>1, UnawaitedEcho
<1>3. Departed(server', store', wire', deletions')
  BY <1>1, <1>2, EchoedDeparted DEF Mourned
<1> QED BY <1>1, <1>3, IdleMourns DEF Mourned

(* A call that forgets some of its copies knows the rest as before.        *)
SamePush(call, before) ==
  /\ call.phase = before.phase /\ call.pull = before.pull /\ call.resets = before.resets
  /\ call.pushedDeleted = before.pushedDeleted /\ call.rejected = before.rejected

LEMMA ForgetsCopies ==
  ASSUME IInv, NEW t \in Sessions, NEW S,
         sync'[t] = [sync[t] EXCEPT !.copies = Only(@, S)]
  PROVE  SamePush(sync'[t], sync[t])
<1> DEFINE copies == Only(sync[t].copies, S)
<1>1. sync[t] \in Call /\ sync'[t] = [sync[t] EXCEPT !.copies = copies]
  BY TimesOf
<1> HIDE DEF copies
<1> QED BY ONLY <1>1 DEF Call, SamePush

LEMMA ResetEndsMourned ==
  ASSUME IInv, Mourned, ResetEnds
  PROVE  Mourned'
<1>1. deletions' = {} /\ \A t \in Sessions : SamePush(sync'[t], sync[t])
  BY ForgetsCopies DEF ResetEnds
<1>2. \A t \in Sessions : Mourns(sync'[t], resetCount', store', {})
  BY <1>1 DEF Mourned, Mourns, SamePush
<1> QED BY <1>1, <1>2 DEF Mourned, Departed

(* What the user does is about one record, and it is live.                 *)
LEMMA UserMourned ==
  ASSUME IInv, Mourned, UNCHANGED <<server, wire, resetCount>>, NEW id \in Ids,
         \A x \in Ids : x # id => store'[x] = store[x],
         \/ id \notin deletions /\ deletions' = deletions
         \/ /\ deletions' = deletions \cup {id} /\ Deleted(store'[id])
            /\ \A t \in Sessions :
                 sync[t].phase \in Pushing /\ sync[t].resets = resetCount => id \notin sync[t].pushedDeleted,
         \A t \in Sessions : SamePush(sync'[t], sync[t])
  PROVE  Mourned'
<1>1. Departed(server, store', wire, deletions') /\ deletions' \subseteq Ids
  BY DEF Mourned, Departed
<1>2. ASSUME NEW t \in Sessions
      PROVE  Mourns(sync'[t], resetCount, store', deletions')
  <2>1. Mourns(sync[t], resetCount, store, deletions) /\ SamePush(sync'[t], sync[t])
    BY DEF Mourned
  <2>2. \A x \in deletions' : x \in Ids /\ (x \in deletions \/ x = id)
    BY <1>1
  <2>3. sync'[t].phase \in Answered =>
          /\ sync'[t].pull.created = {} /\ sync'[t].pull.strategy = "incremental"
          /\ \A x \in DOMAIN sync'[t].pull.rows \cap deletions' : Deleted(store'[x])
    BY <2>1, <2>2 DEF Mourns, SamePush
  <2>4. sync'[t].phase \in {"answered"} \cup Marks /\ sync'[t].resets = resetCount =>
          sync'[t].pushedDeleted \cap deletions' \subseteq sync'[t].rejected
    BY <2>1, <2>2 DEF Mourns, SamePush, Pushing
  <2> QED BY <2>3, <2>4 DEF Mourns
<1> QED BY <1>1, <1>2 DEF Mourned

LEMMA UserStepMourned ==
  ASSUME IInv, Memory, NothingFails, Mourned, UserStep
  PROVE  Mourned'
<1>1. PICK id \in Ids : \/ \E vals \in Contents : UserCreates(id, vals)
                        \/ \E c \in Columns, v \in Values : UserEdits(id, c, v)
                        \/ UserDeletes(id)
  BY DEF UserStep
<1>2. store \in [Ids -> Row \cup {NoRow}] /\ "editFails" \notin Disturbed
  BY DEF IInv, TypeOK, NothingFails
<1>3. id \in deletions => id \in used /\ id \notin Live
  BY DEF Mourned, Departed, Deleted, DeadForGood, Dead, Live, IsLive, IInv, UsedIds
<1>4. CASE \/ \E vals \in Contents : UserCreates(id, vals)
           \/ \E c \in Columns, v \in Values : UserEdits(id, c, v)
  <2>1. /\ UNCHANGED <<wire, server, sync, deletions, resetCount>> /\ (id \in Live \/ id \notin used)
        /\ \A x \in Ids : x # id => store'[x] = store[x]
    BY <1>2, <1>4 DEF UserCreates, UserEdits, remote
  <2> QED BY <1>3, <2>1, UserMourned DEF SamePush
<1>5. CASE UserDeletes(id)
  <2>1. /\ id \in Live /\ UNCHANGED <<wire, server, resetCount>>
        /\ store' = [store EXCEPT ![id].status = "deleted"] /\ sync' = Forget({id})
        /\ deletions' = deletions \cup {id}
    BY <1>2, <1>5 DEF UserDeletes, remote
  <2>2. store[id] \in Row /\ store'[id] = [store[id] EXCEPT !.status = "deleted"]
    BY <1>2, <2>1 DEF Live, IsLive
  <2>3. Deleted(store'[id]) /\ \A x \in Ids : x # id => store'[x] = store[x]
    BY <1>2, <2>1, <2>2, NoRowAssumption DEF Deleted, Row
  <2>4. \A t \in Sessions : SamePush(sync'[t], sync[t])
    BY <2>1, ForgetsCopies DEF Forget
  <2>5. \A t \in Sessions :
          sync[t].phase \in Pushing /\ sync[t].resets = resetCount => id \notin sync[t].pushedDeleted
    BY <2>1 DEF Memory, Apart, Old, Live
  <2> QED BY <2>1, <2>3, <2>4, <2>5, UserMourned
<1> QED BY <1>1, <1>4, <1>5

-----------------------------------------------------------------------------
LEMMA MournedStep ==
  ASSUME IInv, Memory, OneCall, NothingFails, SentAsUpdated, Caught, Deaths, Edited, Mourned, [Next]_vars
  PROVE  Mourned'
<1>1. ASSUME NEW s \in Sessions, Start(s) \/ SessionStep(s) \/ PullFails(s) \/ PushFails(s)
      PROVE  Mourned'
  BY ONLY IInv, Memory, OneCall, SentAsUpdated, Deaths, Edited, Mourned, <1>1, StartMourned,
     ServerAnswersPullMourned, PhaseMourned, ApplyRemoteChangesMourned, ApplyBatchMourned,
     FetchLocalChangesMourned, MarkBatchMourned, MarkDestroysMourned, FailsMourned DEF SessionStep
<1>2. ASSUME NEW s \in Sessions
      PROVE  ~ApplyBatchFails(s) /\ ~MarkBatchFails(s)
  BY DEF ApplyBatchFails, MarkBatchFails, Disturb, NothingFails
<1>3. ASSUME NEW request \in wire, ServerHandlesPush(request)
      PROVE  Mourned'
  BY ONLY IInv, OneCall, Caught, Mourned, <1>3, ServerHandlesPushMourned
<1>4. ASSUME (\E request \in wire : RequestIsLost(request)) \/ UNCHANGED vars
      PROVE  Mourned'
  <2>1. UNCHANGED <<store, sync, server, deletions, resetCount>> /\ wire' \subseteq wire
    BY <1>4 DEF RequestIsLost, db, remote, ghosts, vars
  <2> QED BY <2>1, ServerMourned
<1>5. ASSUME NEW id \in Ids, RemoteDeletes(id) \/ \E vals \in Contents : RemoteWrites(id, vals)
      PROVE  Mourned'
  BY ONLY IInv, Mourned, <1>5, RemoteMourned
<1>6. ASSUME Crash \/ ResetBegins \/ ResetEnds \/ UserStep
      PROVE  Mourned'
  BY ONLY IInv, Memory, NothingFails, Mourned, <1>6, CrashMourned, ResetBeginsMourned, ResetEndsMourned,
     UserStepMourned
<1> QED BY ONLY [Next]_vars, <1>1, <1>2, <1>3, <1>4, <1>5, <1>6 DEF Next, WorldStep

LEMMA MournedInit ==
  ASSUME Init
  PROVE  Mourned
<1>1. (\A s \in Sessions : sync[s] = Idle) /\ deletions = {}
  BY DEF Init
<1> QED BY <1>1, IdleMourns DEF Mourned, Departed

LEMMA MournedSurvive ==
  ASSUME Mourned
  PROVE  LocalDeletionsSurvive
BY DEF Mourned, Departed, Deleted, DeadForGood, Dead, LocalDeletionsSurvive, LocallyDeleted, IsLive, Exists

(* With one call at a time, no batch that is rejected, and a server that   *)
(* sends what changed, all of it as updated, a record the user deleted     *)
(* stays deleted, and marked for the next push, until the server has       *)
(* accepted the deletion or deleted it itself (applyRemote.js).            *)
THEOREM LocalDeletionsKept ==
  ASSUME OneCall, NothingFails, SentAsUpdated
  PROVE  Spec => []LocalDeletionsSurvive
<1> DEFINE Inv == IInv /\ Memory /\ Caught /\ Unfetched /\ Deaths /\ Edited /\ Mourned
<1>1. Init => Inv
  BY InitInv, CaughtInit, DeathsInit, EditedInit, MournedInit
<1>2. Inv /\ [Next]_vars => Inv'
  BY StepInv, MemoryStep, CaughtStep, UnfetchedStep, DeathsStep, EditedStep, MournedStep
<1>3. Inv => LocalDeletionsSurvive
  BY MournedSurvive
<1> QED BY <1>1, <1>2, <1>3, PTL DEF Spec
=============================================================================
