----------------------------- MODULE Sync_proofs -----------------------------
(***************************************************************************)
(* Proofs about Sync, for any set of records, any number of calls of       *)
(* synchronize() and any bound on the disturbances. First types, models    *)
(* and rows, and what a reset overtakes; then that no change of the server *)
(* is passed over.                                                         *)
(*                                                                         *)
(* A call goes through the work queue three times, and between two blocks  *)
(* anything may happen to what it remembers. IInv says what it may still   *)
(* rely on. A mark block that a reset has overtaken waits only behind      *)
(* blocks that are as old (Queue): the reset rejects what waits, and a     *)
(* call that then finds the reset count changed queues nothing. So when    *)
(* an old mark block runs, the rows that it copied are gone, none has      *)
(* taken their place, since ids are never used twice (UsedIds, Rows), and  *)
(* no newer pull has begun to be applied (Alone).                          *)
(***************************************************************************)
EXTENDS Sync, SequenceTheorems, TLAPS

Waiting  == {"applyQueued", "fetchQueued", "markQueued"}
Inside   == {"applying", "stamping", "marking", "destroying"}
Answered == {"pulled", "applyQueued", "applying", "stamping"}
Marks    == {"markQueued", "marking", "destroying"}

Old(call)     == call.resets # resetCount
OldMark(call) == call.phase = "markQueued" /\ Old(call)

(* Who is in a block holds the queue; exactly the waiting calls are in it, *)
(* once each, and what is in front of an old mark block is old as well.    *)
Queue ==
  /\ \A s \in Sessions : sync[s].phase \in Inside => writer = s
  /\ \A i \in 1 .. Len(queue) : sync[queue[i]].phase \in Waiting
  /\ \A s \in Sessions : sync[s].phase \in Waiting => \E i \in 1 .. Len(queue) : queue[i] = s
  /\ \A i, j \in 1 .. Len(queue) : queue[i] = queue[j] => i = j
  /\ \A i, j \in 1 .. Len(queue) : i < j /\ OldMark(sync[queue[j]]) => Old(sync[queue[i]])

(* What a call started from is past, and still true while it applies.      *)
Timely(call) ==
  /\ call.resets <= resetCount /\ call.since <= clock /\ call.pull.timestamp <= clock
  /\ call.phase \in Answered => call.since <= call.pull.timestamp
  /\ call.phase \in {"applying", "stamping"} => ~Old(call) /\ call.since = lastPulledAt

Times ==
  /\ lastPulledAt <= clock
  /\ \A s \in Sessions : Timely(sync[s])

(* No old mark block is left when a pull is being applied.                 *)
Alone ==
  (\E s \in Sessions : sync[s].phase = "applying") => \A t \in Sessions : ~OldMark(sync[t])

(* Rows, copies and requests are of ids that have been used.               *)
AllUsed(call) ==
  DOMAIN call.pull.rows \cup DOMAIN call.copies \cup call.pushedDeleted \subseteq used

UsedIds ==
  /\ \A id \in Ids : (store[id] # NoRow \/ server[id] # NoRow) => id \in used
  /\ \A s \in Sessions : AllUsed(sync[s])
  /\ \A request \in wire : DOMAIN request.rows \subseteq used

(* What a call is about to change fits what it pulled and copied, live rows*)
(* have models, and the rows that an old mark block is about are gone.     *)
FitsIn(call, rows, models) ==
  /\ call.pull.created \subseteq DOMAIN call.pull.rows
  /\ call.pull.deleted \cap DOMAIN call.pull.rows = {}
  /\ call.phase = "applying" =>
       /\ call.insert \cup call.update \subseteq DOMAIN call.pull.rows
       /\ call.destroy \cap DOMAIN call.pull.rows = {}
  /\ call.phase = "marking" =>
       /\ call.update \subseteq DOMAIN call.copies
       /\ ~Old(call) => \A id \in call.update : models[id] # NoRow
  /\ call.phase \in Marks /\ Old(call) =>
       \A id \in DOMAIN call.copies \cup call.pushedDeleted : rows[id] = NoRow

Fits(call) == FitsIn(call, store, mem)

Rows ==
  /\ \A id \in Live : mem[id] # NoRow
  /\ \A s \in Sessions : Fits(sync[s])

(* A request that is awaited is the only one of a call that is pushing.    *)
Wired ==
  /\ \A request \in wire : request.awaited => sync[request.from].phase = "pushing"
  /\ \A r1, r2 \in wire : r1.awaited /\ r2.awaited /\ r1.from = r2.from => r1 = r2

(* The inductive invariant.                                                *)
IInv == TypeOK /\ Queue /\ Wired /\ Times /\ Alone /\ UsedIds /\ Rows
-----------------------------------------------------------------------------
(* Functions on some of the ids.                                           *)
LEMMA SnapshotIntro ==
  ASSUME NEW T, NEW S \in SUBSET Ids, NEW f \in [S -> T]
  PROVE  f \in Snapshots(T)
BY DEF Snapshots

LEMMA SnapshotElim ==
  ASSUME NEW T, NEW f \in Snapshots(T)
  PROVE  DOMAIN f \subseteq Ids /\ f \in [DOMAIN f -> T]
BY DEF Snapshots

LEMMA OnlySnapshot ==
  ASSUME NEW f, DOMAIN f \subseteq Ids, NEW S, \A x \in DOMAIN f \cap S : f[x] \in Row
  PROVE  /\ Only(f, S) \in Snapshots(Row) /\ DOMAIN Only(f, S) = DOMAIN f \cap S
         /\ \A x \in DOMAIN f \cap S : Only(f, S)[x] = f[x]
<1>1. Only(f, S) \in [DOMAIN f \cap S -> Row]
  BY DEF Only
<1> QED BY <1>1, SnapshotIntro DEF Only

(* A call that gives up is a call.                                         *)
LEMMA IdleIsACall == Idle \in Call
<1>1. <<>> \in Snapshots(Contents) /\ <<>> \in Snapshots(Row)
  <2>1. \A T : <<>> \in [{} -> T]
    OBVIOUS
  <2> QED BY <2>1, SnapshotIntro
<1> QED BY <1>1 DEF Idle, Call, Pull, Phases

LEMMA EmptyDomain == DOMAIN Idle.pull.rows = {} /\ DOMAIN Idle.copies = {}
BY DEF Idle

(* The invariant holds to begin with.                                      *)
THEOREM InitInv == Init => IInv
<1> SUFFICES ASSUME Init PROVE IInv
  OBVIOUS
<1> USE DEF Init
<1>1. PICK known \in SUBSET Ids : \E vals \in [known -> Contents] :
        /\ server = [id \in Ids |-> IF id \in known
                      THEN [alive |-> TRUE, vals |-> vals[id], born |-> 1, mod |-> 1]
                      ELSE NoRow]
        /\ used = known
  OBVIOUS
<1>2. PICK vals \in [known -> Contents] :
        /\ server = [id \in Ids |-> IF id \in known
                      THEN [alive |-> TRUE, vals |-> vals[id], born |-> 1, mod |-> 1]
                      ELSE NoRow]
        /\ used = known
  BY <1>1
<1>3. server \in [Ids -> ServerRow \union {NoRow}]
  BY <1>2 DEF ServerRow
<1>4. TypeOK
  BY <1>3, IdleIsACall DEF TypeOK
<1>5. \A s \in Sessions : sync[s] = Idle
  OBVIOUS
<1>6. Queue
  BY <1>5 DEF Queue, Idle, Waiting, Inside
<1>7. Times
  BY <1>5 DEF Times, Timely, Idle, Answered
<1>8. UsedIds
  BY <1>2, <1>5, EmptyDomain DEF UsedIds, AllUsed, Idle
<1>9. Rows
  BY <1>5, EmptyDomain DEF Rows, Fits, FitsIn, Idle, Marks, Live, IsLive
<1>10. Alone /\ Wired
  BY <1>5 DEF Alone, Wired, Idle
<1> QED BY <1>4, <1>6, <1>7, <1>8, <1>9, <1>10 DEF IInv

-----------------------------------------------------------------------------
(* The work queue: a block of s leaves it, enters it, or neither.          *)
OthersKeep(s) ==
  \A t \in Sessions : t # s => sync'[t].phase = sync[t].phase /\ sync'[t].resets = sync[t].resets

LEMMA TurnQueue ==
  ASSUME IInv, NEW s \in Sessions, HasItsTurn(s), UNCHANGED resetCount, OthersKeep(s),
         sync'[s].phase \notin Waiting, sync'[s].phase \in Inside => writer' = s
  PROVE  /\ queue' \in Seq(Sessions) /\ Queue'
         /\ ~Old(sync[s]) => \A t \in Sessions : ~OldMark(sync[t])
<1>1. /\ queue \in Seq(Sessions) /\ queue # <<>> /\ Head(queue) = s /\ queue' = Tail(queue)
      /\ writer = Nobody /\ Nobody \notin Sessions
  BY SyncAssumption DEF HasItsTurn, IInv, TypeOK
<1>2. /\ queue' \in Seq(Sessions) /\ Len(queue) \in Nat \ {0} /\ Len(queue') = Len(queue) - 1
      /\ queue[1] = s /\ \A i \in 1 .. Len(queue') : queue'[i] = queue[i + 1]
  BY ONLY <1>1, HeadTailProperties
<1>3. \A i \in 1 .. Len(queue') : i + 1 \in 1 .. Len(queue) /\ queue'[i] # s /\ queue'[i] \in Sessions
  BY <1>2 DEF IInv, Queue
<1>4. \A t \in Sessions : sync[t].phase \in Waiting /\ t # s
        => \E i \in 1 .. Len(queue') : queue'[i] = t
  <2> TAKE t \in Sessions
  <2> HAVE sync[t].phase \in Waiting /\ t # s
  <2>1. PICK i \in 1 .. Len(queue) : queue[i] = t
    BY DEF IInv, Queue
  <2>2. i - 1 \in 1 .. Len(queue') /\ queue'[i - 1] = t
    BY <1>2, <2>1
  <2> QED BY <2>2
<1>5. \A t \in Sessions : sync'[t].phase \in Inside => writer' = t
  BY <1>1 DEF IInv, Queue, OthersKeep
<1>6. \A t \in Sessions : sync'[t].phase \in Waiting => t # s /\ sync[t].phase \in Waiting
  BY DEF OthersKeep
<1>7. \A i \in 1 .. Len(queue') : sync'[queue'[i]].phase \in Waiting
  BY <1>2, <1>3 DEF IInv, Queue, OthersKeep
<1>8. \A i, j \in 1 .. Len(queue') : queue'[i] = queue'[j] => i = j
  BY <1>2, <1>3 DEF IInv, Queue
<1>9. ASSUME NEW i \in 1 .. Len(queue'), NEW j \in 1 .. Len(queue'), i < j,
             OldMark(sync'[queue'[j]])
      PROVE  Old(sync'[queue'[i]])
  <2>1. /\ queue'[i] = queue[i + 1] /\ queue'[j] = queue[j + 1] /\ i + 1 < j + 1
        /\ i + 1 \in 1 .. Len(queue) /\ j + 1 \in 1 .. Len(queue)
        /\ queue'[i] \in Sessions \ {s} /\ queue'[j] \in Sessions \ {s}
    BY <1>2, <1>3, <1>9
  <2>2. OldMark(sync[queue[j + 1]])
    BY <1>9, <2>1 DEF OthersKeep, Old, OldMark
  <2>3. Old(sync[queue[i + 1]])
    BY <2>1, <2>2 DEF IInv, Queue
  <2> QED BY <2>1, <2>3 DEF OthersKeep, Old
<1>10. \A i, j \in 1 .. Len(queue') : i < j /\ OldMark(sync[queue[j]])' => Old(sync[queue[i]])'
  BY <1>9 DEF OldMark, Old
<1>11. ~Old(sync[s]) => \A t \in Sessions : ~OldMark(sync[t])
  <2> SUFFICES ASSUME ~Old(sync[s]), NEW t \in Sessions, OldMark(sync[t]) PROVE FALSE
    OBVIOUS
  <2>1. PICK i \in 1 .. Len(queue) : queue[i] = t
    BY DEF IInv, Queue, OldMark, Waiting
  <2>2. i # 1 /\ 1 \in 1 .. Len(queue)
    BY <1>2, <2>1 DEF OldMark
  <2> QED BY <1>2, <2>1, <2>2 DEF IInv, Queue
<1> QED BY <1>2, <1>4, <1>5, <1>6, <1>7, <1>8, <1>10, <1>11 DEF Queue

LEMMA JoinQueue ==
  ASSUME IInv, NEW s \in Sessions, queue' = Append(queue, s), UNCHANGED resetCount, OthersKeep(s),
         sync[s].phase \notin Waiting, sync'[s].phase \in Waiting, ~OldMark(sync[s])',
         writer' = writer \/ (writer = s /\ writer' = Nobody)
  PROVE  queue' \in Seq(Sessions) /\ Queue'
<1>1. /\ queue \in Seq(Sessions) /\ queue' \in Seq(Sessions) /\ Len(queue) \in Nat
      /\ Len(queue') = Len(queue) + 1 /\ queue'[Len(queue')] = s
      /\ \A i \in 1 .. Len(queue) : queue'[i] = queue[i] /\ i \in 1 .. Len(queue') /\ queue[i] \in Sessions
  BY DEF IInv, TypeOK
<1>2. \A i \in 1 .. Len(queue') : i \in 1 .. Len(queue) \/ (i = Len(queue') /\ queue'[i] = s)
  BY ONLY <1>1
<1>3. \A i \in 1 .. Len(queue) : queue[i] # s
  BY DEF IInv, Queue
<1>4. \A t \in Sessions : sync'[t].phase \in Inside => writer' = t
  BY DEF IInv, Queue, OthersKeep, Inside, Waiting
<1>5. \A i \in 1 .. Len(queue') : sync'[queue'[i]].phase \in Waiting
  BY <1>1, <1>2, <1>3 DEF IInv, Queue, OthersKeep
<1>6. \A t \in Sessions : sync'[t].phase \in Waiting => \E i \in 1 .. Len(queue') : queue'[i] = t
  <2> TAKE t \in Sessions
  <2> HAVE sync'[t].phase \in Waiting
  <2>1. CASE t = s
    <3>1. Len(queue') \in 1 .. Len(queue')
      BY ONLY <1>1
    <3> QED BY <1>1, <2>1, <3>1
  <2>2. CASE t # s
    <3>1. PICK i \in 1 .. Len(queue) : queue[i] = t
      BY <2>2 DEF IInv, Queue, OthersKeep
    <3> QED BY <1>1, <3>1
  <2> QED BY <2>1, <2>2
<1>7. \A i, j \in 1 .. Len(queue') : queue'[i] = queue'[j] => i = j
  BY <1>1, <1>2, <1>3 DEF IInv, Queue
<1>8. ASSUME NEW i \in 1 .. Len(queue'), NEW j \in 1 .. Len(queue'), i < j, OldMark(sync[queue[j]])'
      PROVE  Old(sync[queue[i]])'
  <2>1. j \in 1 .. Len(queue) /\ i \in 1 .. Len(queue)
    <3>1. queue'[j] # s
      BY <1>8 DEF OldMark, Old
    <3>2. j \in 1 .. Len(queue)
      BY <1>2, <3>1
    <3> QED BY ONLY <1>1, <1>8, <3>2
  <2>2. queue'[i] = queue[i] /\ queue'[j] = queue[j] /\ queue[i] \in Sessions \ {s} /\ queue[j] \in Sessions \ {s}
    BY <1>1, <1>3, <2>1
  <2>3. OldMark(sync[queue[j]])
    BY <1>8, <2>2 DEF OthersKeep, Old, OldMark
  <2>4. Old(sync[queue[i]])
    BY <1>8, <2>1, <2>3 DEF IInv, Queue
  <2> QED BY <2>2, <2>4 DEF OthersKeep, Old
<1>9. queue' \in Seq(Sessions)
  BY <1>1
<1> QED BY ONLY <1>4, <1>5, <1>6, <1>7, <1>8, <1>9 DEF Queue

LEMMA SameQueue ==
  ASSUME IInv, NEW s \in Sessions, UNCHANGED <<queue, resetCount>>, OthersKeep(s),
         sync[s].phase \notin Waiting, sync'[s].phase \notin Waiting,
         writer' = writer \/ writer = s, sync'[s].phase \in Inside => writer' = s
  PROVE  queue' \in Seq(Sessions) /\ Queue'
<1>1. \A i \in 1 .. Len(queue) : queue[i] \in Sessions /\ queue[i] # s
  BY DEF IInv, Queue, TypeOK
<1>2. \A t \in Sessions : sync'[t].phase \in Inside => writer' = t
  BY DEF IInv, Queue, OthersKeep
<1>3. \A i \in 1 .. Len(queue) : sync'[queue[i]].phase = sync[queue[i]].phase
                                 /\ sync'[queue[i]].resets = sync[queue[i]].resets
  BY <1>1 DEF OthersKeep
<1>4. \A t \in Sessions : sync'[t].phase \in Waiting => sync[t].phase \in Waiting
  BY DEF OthersKeep
<1>5. \A i \in 1 .. Len(queue') : sync'[queue'[i]].phase \in Waiting
  BY <1>3 DEF IInv, Queue
<1>6. \A t \in Sessions : sync'[t].phase \in Waiting => \E i \in 1 .. Len(queue') : queue'[i] = t
  BY <1>4 DEF IInv, Queue
<1>7. ASSUME NEW i \in 1 .. Len(queue'), NEW j \in 1 .. Len(queue'), i < j, OldMark(sync[queue[j]])'
      PROVE  Old(sync[queue[i]])'
  <2>1. OldMark(sync[queue[j]])
    BY <1>3, <1>7 DEF Old, OldMark
  <2>2. Old(sync[queue[i]])
    BY <1>7, <2>1 DEF IInv, Queue
  <2> QED BY <1>3, <2>2 DEF Old
<1>8. queue' \in Seq(Sessions) /\ \A i, j \in 1 .. Len(queue') : queue'[i] = queue'[j] => i = j
  BY DEF IInv, TypeOK, Queue
<1> QED BY <1>2, <1>5, <1>6, <1>7, <1>8 DEF Queue

-----------------------------------------------------------------------------
(* A step of one call, s, that becomes "state" and leaves the rows alone.  *)
(* What it does to the work queue is the subject of the lemmas above.      *)
LEMMA ServerStep ==
  ASSUME IInv, NEW s \in Sessions, NEW state \in Call, Become(s, state),
         UNCHANGED <<store, mem, resetCount, used>>,
         \/ UNCHANGED lastPulledAt
         \/ /\ sync[s].phase = "stamping" /\ state.phase \notin {"applying", "stamping"}
            /\ lastPulledAt' \in Nat /\ lastPulledAt' <= clock,
         clock' \in Nat, clock <= clock', server' \in [Ids -> ServerRow \cup {NoRow}],
         \A id \in Ids : server'[id] # NoRow => id \in used,
         queue' \in Seq(Sessions), Queue', Wired', writer' \in {writer, s, Nobody},
         wire' \subseteq PushRequest, \A request \in wire' : DOMAIN request.rows \subseteq used,
         Timely(state), AllUsed(state), Fits(state),
         OldMark(state) => OldMark(sync[s]),
         state.phase = "applying" => \A t \in Sessions : ~OldMark(sync[t])
  PROVE  IInv'
<1>1. /\ sync' \in [Sessions -> Call] /\ sync'[s] = state
      /\ \A t \in Sessions : t # s => sync'[t] = sync[t]
  BY DEF Become, IInv, TypeOK
<1>2. TypeOK'
  BY <1>1 DEF IInv, TypeOK
<1>3. \A t \in Sessions : Timely(sync[t])'
  <2> TAKE t \in Sessions
  <2>1. sync'[t] \in Call /\ clock \in Nat /\ (t # s => sync'[t] = sync[t] /\ Timely(sync[t]))
    BY <1>1 DEF IInv, TypeOK, Times
  <2>2. sync'[t].since \in Nat /\ sync'[t].pull.timestamp \in Nat
    BY <2>1 DEF Call, Pull
  <2>3. sync'[t].phase \in {"applying", "stamping"} => lastPulledAt' = lastPulledAt
    BY <1>1 DEF IInv, Queue, Inside
  <2>4. Timely(sync'[t])
    BY <1>1, <2>1
  <2> QED BY <2>1, <2>2, <2>3, <2>4 DEF Timely, Old
<1>4. Times'
  BY <1>3 DEF Times, IInv, TypeOK
<1>5. \A t \in Sessions : OldMark(sync[t])' => OldMark(sync[t])
  BY <1>1 DEF OldMark, Old
<1>6. Alone'
  BY <1>1, <1>5 DEF IInv, Alone
<1>7. \A t \in Sessions : AllUsed(sync[t])' /\ Fits(sync[t])'
  <2> SUFFICES ASSUME NEW t \in Sessions PROVE AllUsed(sync[t])' /\ Fits(sync[t])'
    OBVIOUS
  <2>1. AllUsed(sync'[t]) /\ Fits(sync'[t])
    BY <1>1 DEF IInv, UsedIds, Rows
  <2> QED BY <2>1 DEF AllUsed, Fits, FitsIn, Old
<1>8. UsedIds'
  BY <1>7 DEF IInv, UsedIds
<1>9. Rows'
  BY <1>7 DEF IInv, Rows, Live, IsLive
<1> QED BY <1>2, <1>4, <1>6, <1>8, <1>9 DEF IInv

LEMMA CallStep ==
  ASSUME IInv, NEW s \in Sessions, NEW state \in Call, Become(s, state),
         UNCHANGED <<store, mem, resetCount, server, clock, used>>,
         \/ UNCHANGED lastPulledAt
         \/ /\ sync[s].phase = "stamping" /\ state.phase \notin {"applying", "stamping"}
            /\ lastPulledAt' \in Nat /\ lastPulledAt' <= clock,
         queue' \in Seq(Sessions), Queue', writer' \in {writer, s, Nobody},
         \/ UNCHANGED wire /\ sync[s].phase # "pushing"
         \/ /\ wire' \subseteq PushRequest /\ \A request \in wire' : DOMAIN request.rows \subseteq used
            /\ Wired',
         Timely(state), AllUsed(state), Fits(state),
         OldMark(state) => OldMark(sync[s]),
         state.phase = "applying" => \A t \in Sessions : ~OldMark(sync[t])
  PROVE  IInv'
<1>1. clock' \in Nat /\ clock <= clock' /\ server' \in [Ids -> ServerRow \cup {NoRow}]
  BY DEF IInv, TypeOK
<1>2. \A id \in Ids : server'[id] # NoRow => id \in used
  BY DEF IInv, UsedIds
<1>3. wire' \subseteq PushRequest /\ \A request \in wire' : DOMAIN request.rows \subseteq used
  BY DEF IInv, TypeOK, UsedIds
<1>4. Wired'
  <2>1. CASE UNCHANGED wire /\ sync[s].phase # "pushing"
    <3>1. \A t \in Sessions : t # s => sync'[t] = sync[t]
      BY DEF Become, IInv, TypeOK
    <3>2. \A request \in wire : request.from \in Sessions
      BY DEF IInv, TypeOK, PushRequest
    <3> QED BY <2>1, <3>1, <3>2 DEF IInv, Wired
  <2> QED BY <2>1
<1> QED BY <1>1, <1>2, <1>3, <1>4, ServerStep

-----------------------------------------------------------------------------
(* One lemma for each action of a call.                                    *)
LEMMA BecomeKeeps ==
  ASSUME IInv, NEW s \in Sessions, NEW state, Become(s, state)
  PROVE  sync'[s] = state /\ OthersKeep(s) /\ sync[s] \in Call
BY DEF Become, OthersKeep, IInv, TypeOK

LEMMA NoCallHas ==
  /\ \A s \in Sessions : s # Nobody /\ s # Resetter
  /\ Nobody # Resetter
BY SyncAssumption

LEMMA IdleFits ==
  ASSUME IInv
  PROVE  /\ Timely(Idle) /\ AllUsed(Idle) /\ Fits(Idle) /\ ~OldMark(Idle)
         /\ Idle.phase \notin Waiting \cup Inside
<1>1. Timely(Idle)
  BY DEF Timely, Idle, Answered, IInv, TypeOK
<1> QED BY <1>1, EmptyDomain DEF AllUsed, Fits, FitsIn, OldMark, Idle, Marks, Waiting, Inside

LEMMA StartInv ==
  ASSUME IInv, NEW s \in Sessions, Start(s)
  PROVE  IInv'
<1> DEFINE state == [Idle EXCEPT !.phase = "pulling", !.resets = resetCount, !.since = lastPulledAt]
<1>1. /\ state \in Call /\ state.phase = "pulling" /\ state.resets = resetCount
      /\ state.since = lastPulledAt /\ state.pull = Idle.pull /\ state.copies = Idle.copies
      /\ state.pushedDeleted = Idle.pushedDeleted
  BY IdleIsACall DEF Call, Phases, IInv, TypeOK
<1>2. /\ Become(s, state) /\ sync[s].phase = "idle"
      /\ UNCHANGED <<db, resetCount, writer, queue, wire, remote, ghosts, disturbances>>
  BY DEF Start
<1> HIDE DEF state
<1>3. Timely(state)
  BY <1>1, <1>2 DEF Timely, Idle, Answered, IInv, TypeOK, Times, db, remote
<1>4. AllUsed(state) /\ Fits(state) /\ ~OldMark(state)
  BY <1>1, EmptyDomain DEF AllUsed, Fits, FitsIn, OldMark, Idle, Marks
<1>5. queue' \in Seq(Sessions) /\ Queue'
  BY <1>1, <1>2, BecomeKeeps, SameQueue DEF Waiting, Inside
<1> QED BY <1>1, <1>2, <1>3, <1>4, <1>5, CallStep DEF IInv, TypeOK, UsedIds, db, remote, ghosts

LEMMA ServerAnswersPullInv ==
  ASSUME IInv, NEW s \in Sessions, NEW strategy \in Strategies, ServerAnswersPull(s, strategy)
  PROVE  IInv'
<1> DEFINE since   == IF strategy = "replacement" THEN 0 ELSE sync[s].since
           changed == {id \in Ids : server[id] # NoRow /\ server[id].mod > since}
           alive   == {id \in changed : Exists(id)}
           pull    == [rows      |-> [id \in alive |-> server[id].vals],
                       created   |-> {id \in alive : /\ ServerReportsCreated
                                                     /\ server[id].born > sync[s].since},
                       deleted   |-> IF strategy = "replacement" THEN {} ELSE changed \ alive,
                       timestamp |-> clock,
                       strategy  |-> strategy]
           state   == [sync[s] EXCEPT !.phase = "pulled", !.pull = pull]
<1>1. /\ Become(s, state) /\ sync[s].phase = "pulling"
      /\ UNCHANGED <<db, resetCount, writer, queue, wire, remote, ghosts, disturbances>>
  BY DEF ServerAnswersPull
<1>2. /\ alive \in SUBSET Ids /\ changed \ alive \in SUBSET Ids
      /\ \A id \in alive : server[id] \in ServerRow /\ server[id] # NoRow
  BY DEF IInv, TypeOK
<1>3. pull.rows \in Snapshots(Contents)
  <2>1. pull.rows \in [alive -> Contents]
    BY <1>2 DEF ServerRow
  <2> QED BY ONLY <1>2, <2>1, SnapshotIntro
<1>4. /\ pull \in Pull /\ DOMAIN pull.rows = alive /\ pull.created \subseteq alive
      /\ pull.deleted \cap alive = {} /\ pull.timestamp = clock
  BY <1>2, <1>3, SyncAssumption DEF Pull, IInv, TypeOK
<1> HIDE DEF pull
<1>5. /\ state \in Call /\ state.phase = "pulled" /\ state.pull = pull
      /\ state.resets = sync[s].resets /\ state.since = sync[s].since
      /\ state.copies = sync[s].copies /\ state.pushedDeleted = sync[s].pushedDeleted
  <2>1. sync[s] \in Call /\ pull \in Pull
    BY <1>4 DEF IInv, TypeOK
  <2> QED BY ONLY <2>1 DEF Call, Phases
<1> HIDE DEF state
<1>6. Timely(state)
  BY <1>1, <1>4, <1>5 DEF Timely, Answered, IInv, TypeOK, Times, db, remote
<1>7. AllUsed(state) /\ Fits(state) /\ ~OldMark(state)
  <2>1. alive \subseteq used
    BY <1>2 DEF IInv, UsedIds
  <2> QED BY <1>4, <1>5, <2>1 DEF AllUsed, Fits, FitsIn, OldMark, Marks, IInv, UsedIds
<1>8. queue' \in Seq(Sessions) /\ Queue'
  BY <1>1, <1>5, BecomeKeeps, SameQueue DEF Waiting, Inside
<1> QED BY <1>1, <1>5, <1>6, <1>7, <1>8, CallStep DEF IInv, TypeOK, UsedIds, db, remote, ghosts

LEMMA PullArrivesInv ==
  ASSUME IInv, NEW s \in Sessions, PullArrives(s)
  PROVE  IInv'
<1> DEFINE state == [sync[s] EXCEPT !.phase = "applyQueued"]
<1>1. /\ Become(s, state) /\ sync[s].phase = "pulled" /\ queue' = Append(queue, s)
      /\ UNCHANGED <<db, resetCount, writer, wire, remote, ghosts, disturbances>>
  BY DEF PullArrives
<1>2. /\ state \in Call /\ state.phase = "applyQueued" /\ state.pull = sync[s].pull
      /\ state.resets = sync[s].resets /\ state.since = sync[s].since
      /\ state.copies = sync[s].copies /\ state.pushedDeleted = sync[s].pushedDeleted
  BY DEF Call, Phases, IInv, TypeOK
<1> HIDE DEF state
<1>3. Timely(state)
  BY <1>1, <1>2 DEF Timely, Answered, IInv, TypeOK, Times, db, remote
<1>4. AllUsed(state) /\ Fits(state) /\ ~OldMark(state)
  BY <1>2 DEF AllUsed, Fits, FitsIn, OldMark, Marks, IInv, UsedIds, Rows
<1>5. queue' \in Seq(Sessions) /\ Queue'
  <2>1. ~OldMark(sync[s])'
    BY <1>1, <1>2, BecomeKeeps DEF OldMark
  <2> QED BY <1>1, <1>2, <2>1, BecomeKeeps, JoinQueue DEF Waiting
<1> QED BY <1>1, <1>2, <1>3, <1>4, <1>5, CallStep DEF IInv, TypeOK, UsedIds, db, remote, ghosts

LEMMA PushAnsweredInv ==
  ASSUME IInv, NEW s \in Sessions, PushAnswered(s)
  PROVE  IInv'
<1> DEFINE state == [sync[s] EXCEPT !.phase = "markQueued"]
<1>1. /\ sync[s].phase = "answered"
      /\ UNCHANGED <<db, resetCount, writer, wire, remote, ghosts, disturbances>>
  BY DEF PushAnswered
<1>2. CASE sync[s].resets = resetCount
  <2>1. Become(s, state) /\ queue' = Append(queue, s)
    BY <1>2 DEF PushAnswered
  <2>2. /\ state \in Call /\ state.phase = "markQueued" /\ state.pull = sync[s].pull
        /\ state.resets = sync[s].resets /\ state.since = sync[s].since
        /\ state.copies = sync[s].copies /\ state.pushedDeleted = sync[s].pushedDeleted
    BY DEF Call, Phases, IInv, TypeOK
  <2> HIDE DEF state
  <2>3. Timely(state)
    BY <1>1, <2>2 DEF Timely, Answered, IInv, TypeOK, Times, db, remote
  <2>4. AllUsed(state) /\ Fits(state) /\ ~OldMark(state)
    BY <1>2, <2>2 DEF AllUsed, Fits, FitsIn, OldMark, Old, Marks, IInv, UsedIds, Rows
  <2>5. queue' \in Seq(Sessions) /\ Queue'
    <3>1. ~OldMark(sync[s])'
      BY <1>1, <1>2, <2>1, <2>2, BecomeKeeps DEF OldMark, Old
    <3> QED BY <1>1, <2>1, <2>2, <3>1, BecomeKeeps, JoinQueue DEF Waiting
  <2> QED BY <1>1, <2>1, <2>2, <2>3, <2>4, <2>5, CallStep DEF IInv, TypeOK, UsedIds, db, remote, ghosts
<1>3. CASE sync[s].resets # resetCount
  <2>1. Become(s, Idle) /\ queue' = queue
    BY <1>3 DEF PushAnswered
  <2>2. queue' \in Seq(Sessions) /\ Queue'
    BY <1>1, <2>1, IdleFits, BecomeKeeps, SameQueue DEF Waiting, Inside
  <2> QED BY <1>1, <2>1, <2>2, IdleFits, IdleIsACall, CallStep DEF Inside, Idle, IInv, TypeOK, UsedIds, db, remote, ghosts
<1> QED BY <1>2, <1>3

LEMMA ChangedLocally ==
  ASSUME IInv
  PROVE  /\ unsynced \in SUBSET Ids /\ LocallyDeleted \in SUBSET Ids
         /\ \A id \in unsynced : mem[id] \in Row /\ store[id] # NoRow
         /\ \A id \in LocallyDeleted : store[id] # NoRow
<1>1. \A id \in unsynced : id \in Live
  BY DEF unsynced, Live, IsLive
<1> QED BY <1>1 DEF unsynced, LocallyDeleted, IInv, TypeOK, Rows

LEMMA FetchLocalChangesInv ==
  ASSUME IInv, NEW s \in Sessions, FetchLocalChanges(s)
  PROVE  IInv'
<1> DEFINE copies == Only(mem, unsynced)
           state  == [sync[s] EXCEPT !.phase = "pushing", !.copies = copies,
                                     !.pushedDeleted = LocallyDeleted]
<1>1. /\ sync[s].phase = "fetchQueued" /\ HasItsTurn(s)
      /\ UNCHANGED <<db, resetCount, writer, remote, ghosts, disturbances>>
  BY DEF FetchLocalChanges
<1>2. CASE sync[s].resets = resetCount /\ unsynced \union LocallyDeleted # {}
  <2>1. Become(s, state) /\ wire' = wire \union {Request(s)}
    BY <1>2 DEF FetchLocalChanges
  <2>2. /\ copies \in Snapshots(Row) /\ DOMAIN copies \subseteq unsynced
    <3>1. DOMAIN mem = Ids /\ \A x \in DOMAIN mem \cap unsynced : mem[x] \in Row
      BY ChangedLocally DEF IInv, TypeOK
    <3>2. /\ Only(mem, unsynced) \in Snapshots(Row)
          /\ DOMAIN Only(mem, unsynced) = DOMAIN mem \cap unsynced
      BY ONLY <3>1, OnlySnapshot
    <3> QED BY <3>2
  <2> HIDE DEF copies
  <2>3. /\ state \in Call /\ state.phase = "pushing" /\ state.pull = sync[s].pull
        /\ state.resets = sync[s].resets /\ state.since = sync[s].since
        /\ state.copies = copies /\ state.pushedDeleted = LocallyDeleted
    <3>1. sync[s] \in Call /\ LocallyDeleted \in SUBSET Ids
      BY ChangedLocally DEF IInv, TypeOK
    <3> QED BY ONLY <2>2, <3>1 DEF Call, Phases
  <2> HIDE DEF state
  <2>4. Timely(state) /\ ~OldMark(state)
    BY <2>3 DEF Timely, Answered, OldMark, IInv, TypeOK, Times
  <2>5. unsynced \cup LocallyDeleted \subseteq used
    BY ChangedLocally DEF IInv, UsedIds
  <2>6. AllUsed(state) /\ Fits(state)
    BY <2>2, <2>3, <2>5 DEF AllUsed, Fits, FitsIn, Marks, IInv, UsedIds, Rows
  <2>7. queue' \in Seq(Sessions) /\ Queue'
    BY <1>1, <2>1, <2>3, BecomeKeeps, TurnQueue DEF Waiting, Inside
  <2>8. Request(s) \in PushRequest /\ DOMAIN Request(s).rows = unsynced
    <3>1. [id \in unsynced |-> mem[id].vals] \in [unsynced -> Contents]
      BY ChangedLocally DEF Row
    <3>2. [id \in unsynced |-> mem[id].vals] \in Snapshots(Contents)
      BY ONLY <3>1, ChangedLocally, SnapshotIntro, IInv
    <3>3. sync[s].pull.timestamp \in Nat
      BY DEF IInv, TypeOK, Call, Pull
    <3> QED BY <3>2, <3>3, ChangedLocally DEF Request, PushRequest
  <2>9. /\ wire' \subseteq PushRequest
        /\ \A request \in wire' : DOMAIN request.rows \subseteq used
    BY <2>1, <2>5, <2>8 DEF IInv, TypeOK, UsedIds
  <2>10. Wired'
    <3>1. \A request \in wire : /\ request.from \in Sessions
                                /\ request.awaited => request.from # s
      BY <1>1 DEF IInv, TypeOK, PushRequest, Wired
    <3>2. sync'[s].phase = "pushing" /\ Request(s).from = s
      BY <2>1, <2>3, BecomeKeeps DEF Request
    <3>3. \A t \in Sessions : t # s => sync'[t].phase = sync[t].phase
      BY <2>1, BecomeKeeps DEF OthersKeep
    <3>4. \A r \in wire' : r \in wire \/ r = Request(s)
      BY <2>1
    <3>5. ASSUME NEW r \in wire', r.awaited PROVE sync'[r.from].phase = "pushing"
      <4>1. CASE r = Request(s)
        BY <3>2, <4>1
      <4>2. CASE r \in wire
        <5>1. sync[r.from].phase = "pushing" /\ r.from \in Sessions \ {s}
          BY <3>1, <3>5, <4>2 DEF IInv, Wired
        <5> QED BY <3>3, <5>1
      <4> QED BY <3>4, <4>1, <4>2
    <3>6. \A r1, r2 \in wire' : r1.awaited /\ r2.awaited /\ r1.from = r2.from => r1 = r2
      BY <3>1, <3>2, <3>4 DEF IInv, Wired
    <3> QED BY <3>5, <3>6 DEF Wired
  <2> QED BY <1>1, <2>1, <2>3, <2>4, <2>6, <2>7, <2>9, <2>10, CallStep DEF db, remote, ghosts
<1>3. CASE ~(sync[s].resets = resetCount /\ unsynced \union LocallyDeleted # {})
  <2>1. Become(s, Idle) /\ wire' = wire
    BY <1>3 DEF FetchLocalChanges
  <2>2. queue' \in Seq(Sessions) /\ Queue'
    BY <1>1, <2>1, IdleFits, BecomeKeeps, TurnQueue DEF Waiting, Inside
  <2> QED BY <1>1, <2>1, <2>2, IdleFits, IdleIsACall, CallStep DEF Inside, Idle, IInv, TypeOK, UsedIds, db, remote, ghosts
<1> QED BY <1>2, <1>3

LEMMA SetLastPulledAtInv ==
  ASSUME IInv, NEW s \in Sessions, SetLastPulledAt(s)
  PROVE  IInv'
<1> DEFINE state == [sync[s] EXCEPT !.phase = "fetchQueued"]
<1>1. /\ sync[s].phase = "stamping" /\ lastPulledAt' = sync[s].pull.timestamp
      /\ writer' = Nobody /\ queue' = Append(queue, s) /\ Become(s, state)
      /\ UNCHANGED <<store, mem, resetCount, wire, remote, ghosts, disturbances>>
  BY DEF SetLastPulledAt, pulledAt
<1>2. /\ state \in Call /\ state.phase = "fetchQueued" /\ state.pull = sync[s].pull
      /\ state.resets = sync[s].resets /\ state.since = sync[s].since
      /\ state.copies = sync[s].copies /\ state.pushedDeleted = sync[s].pushedDeleted
  BY DEF Call, Phases, IInv, TypeOK
<1> HIDE DEF state
<1>3. Timely(state) /\ AllUsed(state) /\ Fits(state) /\ ~OldMark(state)
  BY <1>2 DEF Timely, Answered, AllUsed, Fits, FitsIn, OldMark, Marks, IInv, Times, UsedIds, Rows
<1>4. queue' \in Seq(Sessions) /\ Queue'
  <2>1. ~OldMark(sync[s])' /\ writer = s
    BY <1>1, <1>2, BecomeKeeps DEF OldMark, IInv, Queue, Inside
  <2> QED BY <1>1, <1>2, <2>1, BecomeKeeps, JoinQueue DEF Waiting
<1>5. lastPulledAt' \in Nat /\ lastPulledAt' <= clock
  BY <1>1 DEF IInv, TypeOK, Call, Pull, Times, Timely
<1> QED BY <1>1, <1>2, <1>3, <1>4, <1>5, CallStep DEF IInv, TypeOK, UsedIds, remote, ghosts

LEMMA PullFailsInv ==
  ASSUME IInv, NEW s \in Sessions, PullFails(s)
  PROVE  IInv'
<1>1. /\ sync[s].phase \in {"pulling", "pulled"} /\ Become(s, Idle)
      /\ writer' = writer
      /\ UNCHANGED <<db, resetCount, queue, wire, remote, ghosts>>
  BY DEF PullFails
<1>2. queue' \in Seq(Sessions) /\ Queue'
  BY <1>1, IdleFits, BecomeKeeps, SameQueue DEF Waiting, Inside
<1> QED BY <1>1, <1>2, IdleFits, IdleIsACall, CallStep DEF Inside, Idle, IInv, TypeOK, UsedIds, db, remote, ghosts

LEMMA ApplyBatchFailsInv ==
  ASSUME IInv, NEW s \in Sessions, ApplyBatchFails(s)
  PROVE  IInv'
<1>1. /\ sync[s].phase \in {"applying"} /\ Become(s, Idle)
      /\ writer' = Nobody /\ writer = s
      /\ UNCHANGED <<db, resetCount, queue, wire, remote, ghosts>>
  BY DEF ApplyBatchFails, IInv, Queue, Inside
<1>2. queue' \in Seq(Sessions) /\ Queue'
  BY <1>1, IdleFits, BecomeKeeps, SameQueue DEF Waiting, Inside
<1> QED BY <1>1, <1>2, IdleFits, IdleIsACall, CallStep DEF Inside, Idle, IInv, TypeOK, UsedIds, db, remote, ghosts

LEMMA PushFailsInv ==
  ASSUME IInv, NEW s \in Sessions, PushFails(s)
  PROVE  IInv'
<1>1. /\ sync[s].phase \in {"pushing", "answered"} /\ Become(s, Idle) /\ wire' = NotAwaited(s)
      /\ UNCHANGED <<db, resetCount, writer, queue, remote, ghosts>>
  BY DEF PushFails
<1>2. queue' \in Seq(Sessions) /\ Queue'
  BY <1>1, IdleFits, BecomeKeeps, SameQueue DEF Waiting, Inside
<1>3. /\ wire' \subseteq PushRequest /\ \A request \in wire' : DOMAIN request.rows \subseteq used
  <2> SUFFICES ASSUME NEW request \in wire
               PROVE  LET r == [request EXCEPT !.awaited = @ /\ request.from # s]
                      IN r \in PushRequest /\ DOMAIN r.rows \subseteq used
    BY <1>1 DEF NotAwaited
  <2>1. request \in PushRequest /\ DOMAIN request.rows \subseteq used
    BY DEF IInv, TypeOK, UsedIds
  <2> QED BY <2>1 DEF PushRequest
<1>4. Wired'
  <2>1. \A r \in wire' : r.awaited => r \in wire /\ r.from \in Sessions \ {s}
    <3> SUFFICES ASSUME NEW request \in wire
                 PROVE  LET r == [request EXCEPT !.awaited = @ /\ request.from # s]
                        IN r.awaited => r \in wire /\ r.from \in Sessions \ {s}
      BY <1>1 DEF NotAwaited
    <3>1. request \in PushRequest
      BY DEF IInv, TypeOK
    <3>2. CASE request.awaited /\ request.from # s
      <4>1. [request EXCEPT !.awaited = @ /\ request.from # s] = request
        BY <3>1, <3>2 DEF PushRequest
      <4> QED BY <3>1, <3>2, <4>1 DEF PushRequest
    <3>3. CASE ~(request.awaited /\ request.from # s)
      BY <3>1, <3>3 DEF PushRequest
    <3> QED BY <3>2, <3>3
  <2>2. \A t \in Sessions : t # s => sync'[t].phase = sync[t].phase
    BY <1>1, BecomeKeeps DEF OthersKeep
  <2> QED BY <2>1, <2>2 DEF IInv, Wired
<1> QED BY <1>1, <1>2, <1>3, <1>4, IdleFits, IdleIsACall, CallStep DEF Inside, Idle, db, remote, ghosts

LEMMA MarkBatchFailsInv ==
  ASSUME IInv, NEW s \in Sessions, MarkBatchFails(s)
  PROVE  IInv'
<1> DEFINE state == [sync[s] EXCEPT !.phase = "destroying", !.update = {}]
<1>1. /\ sync[s].phase = "marking" /\ Become(s, state)
      /\ UNCHANGED <<db, resetCount, writer, queue, wire, remote, ghosts>>
  BY DEF MarkBatchFails
<1>2. /\ state \in Call /\ state.phase = "destroying" /\ state.pull = sync[s].pull
      /\ state.resets = sync[s].resets /\ state.since = sync[s].since
      /\ state.copies = sync[s].copies /\ state.pushedDeleted = sync[s].pushedDeleted
  BY DEF Call, Phases, IInv, TypeOK
<1> HIDE DEF state
<1>3. Timely(state) /\ AllUsed(state) /\ ~OldMark(state)
  BY <1>2 DEF Timely, Answered, AllUsed, OldMark, IInv, Times, UsedIds
<1>4. Fits(state)
  BY <1>1, <1>2 DEF Fits, FitsIn, Old, Marks, IInv, Rows
<1>5. queue' \in Seq(Sessions) /\ Queue'
  <2>1. writer = s
    BY <1>1 DEF IInv, Queue, Inside
  <2> QED BY <1>1, <1>2, <2>1, BecomeKeeps, SameQueue DEF Waiting, Inside
<1> QED BY <1>1, <1>2, <1>3, <1>4, <1>5, CallStep DEF IInv, TypeOK, UsedIds, db, remote, ghosts

-----------------------------------------------------------------------------
(* A step of a block of s that changes rows or models, but adds no row and *)
(* takes no model away.                                                    *)
LEMMA BlockStep ==
  ASSUME IInv, NEW s \in Sessions, NEW state \in Call, Become(s, state),
         UNCHANGED <<lastPulledAt, resetCount, server, clock, used, wire>>,
         queue' \in Seq(Sessions), Queue', writer' \in {s, Nobody}, sync[s].phase # "pushing",
         store' \in [Ids -> Row \cup {NoRow}], mem' \in [Ids -> Row \cup {NoRow}],
         \A id \in Ids : store[id] = NoRow => store'[id] = NoRow,
         \A id \in Ids : mem[id] # NoRow => mem'[id] # NoRow,
         \A id \in Ids : IsLive(store'[id]) => mem'[id] # NoRow,
         Timely(state), AllUsed(state), FitsIn(state, store', mem'), ~OldMark(state),
         state.phase = "applying" => \A t \in Sessions : ~OldMark(sync[t])
  PROVE  IInv'
<1>1. /\ sync' \in [Sessions -> Call] /\ sync'[s] = state
      /\ \A t \in Sessions : t # s => sync'[t] = sync[t]
  BY DEF Become, IInv, TypeOK
<1>2. TypeOK'
  BY <1>1 DEF IInv, TypeOK
<1>3. \A t \in Sessions : Timely(sync'[t]) /\ AllUsed(sync'[t])
  BY <1>1 DEF IInv, Times, UsedIds
<1>4. Times' /\ UsedIds'
  BY <1>3 DEF IInv, Times, Timely, Old, UsedIds, AllUsed
<1>5. \A t \in Sessions : OldMark(sync[t])' => OldMark(sync[t])
  BY <1>1 DEF OldMark, Old
<1>6. Alone' /\ Wired'
  <2>1. \A request \in wire : request.from \in Sessions
    BY DEF IInv, TypeOK, PushRequest
  <2> QED BY <1>1, <1>5, <2>1 DEF IInv, Alone, Wired
<1>7. \A t \in Sessions : FitsIn(sync'[t], store', mem')
  <2> SUFFICES ASSUME NEW t \in Sessions, t # s PROVE FitsIn(sync'[t], store', mem')
    BY <1>1
  <2>1. Fits(sync[t]) /\ sync'[t] = sync[t]
    BY <1>1 DEF IInv, Rows
  <2>2. /\ sync[t] \in Call /\ sync[t].update \subseteq Ids /\ sync[t].pushedDeleted \subseteq Ids
        /\ DOMAIN sync[t].copies \subseteq Ids
    BY SnapshotElim DEF IInv, TypeOK, Call
  <2> QED BY <2>1, <2>2 DEF Fits, FitsIn, Old
<1>8. Rows'
  BY <1>7 DEF Rows, Fits, FitsIn, Old, Live
<1> QED BY <1>2, <1>4, <1>6, <1>8 DEF IInv

LEMMA MarkDestroysInv ==
  ASSUME IInv, NEW s \in Sessions, MarkDestroys(s)
  PROVE  IInv'
<1>1. /\ sync[s].phase = "destroying" /\ writer' = Nobody /\ Become(s, Idle)
      /\ store' = [id \in Ids |-> IF id \in toDestroy(s) THEN NoRow ELSE store[id]]
      /\ UNCHANGED <<mem, lastPulledAt, resetCount, queue, wire, remote, ghosts, disturbances>>
  BY DEF MarkDestroys
<1>2. queue' \in Seq(Sessions) /\ Queue'
  <2>1. writer = s
    BY <1>1 DEF IInv, Queue, Inside
  <2> QED BY <1>1, <2>1, IdleFits, BecomeKeeps, SameQueue DEF Waiting, Inside
<1>3. /\ store' \in [Ids -> Row \cup {NoRow}] /\ \A id \in Ids : store[id] = NoRow => store'[id] = NoRow
      /\ \A id \in Ids : IsLive(store'[id]) => mem'[id] # NoRow
      /\ mem' \in [Ids -> Row \cup {NoRow}]
  BY <1>1 DEF IInv, TypeOK, Rows, Live, IsLive
<1>4. FitsIn(Idle, store', mem') /\ Idle.phase # "applying"
  BY EmptyDomain DEF FitsIn, Idle, Marks
<1> QED BY <1>1, <1>2, <1>3, <1>4, IdleFits, IdleIsACall, BlockStep DEF remote, ghosts

LEMMA MarkBatchInv ==
  ASSUME IInv, NEW s \in Sessions, MarkBatch(s)
  PROVE  IInv'
<1> DEFINE state == [sync[s] EXCEPT !.phase = "destroying", !.update = {}]
<1>1. /\ sync[s].phase = "marking" /\ Become(s, state)
      /\ store' = [id \in Ids |-> IF id \in sync[s].update /\ store[id] # NoRow
                                  THEN Marked(sync[s].copies[id]) ELSE store[id]]
      /\ UNCHANGED <<mem, lastPulledAt, resetCount, writer, queue, wire, remote, ghosts, disturbances>>
  BY DEF MarkBatch
<1>2. /\ state \in Call /\ state.phase = "destroying" /\ state.pull = sync[s].pull
      /\ state.resets = sync[s].resets /\ state.since = sync[s].since
      /\ state.copies = sync[s].copies /\ state.pushedDeleted = sync[s].pushedDeleted
  BY DEF Call, Phases, IInv, TypeOK
<1> HIDE DEF state
<1>3. Timely(state) /\ AllUsed(state) /\ ~OldMark(state)
  BY <1>2 DEF Timely, Answered, AllUsed, OldMark, IInv, Times, UsedIds
<1>4. writer = s /\ Fits(sync[s])
  BY <1>1 DEF IInv, Queue, Rows, Inside
<1>5. queue' \in Seq(Sessions) /\ Queue'
  BY <1>1, <1>2, <1>4, BecomeKeeps, SameQueue DEF Waiting, Inside
<1>6. \A id \in sync[s].update : id \in Ids /\ Marked(sync[s].copies[id]) \in Row
  <2>1. sync[s].update \subseteq DOMAIN sync[s].copies /\ sync[s].copies \in Snapshots(Row)
    BY <1>1, <1>4 DEF Fits, FitsIn, IInv, TypeOK, Call
  <2>2. \A id \in sync[s].update : id \in Ids /\ sync[s].copies[id] \in Row
    BY <2>1, SnapshotElim
  <2> QED BY <2>2 DEF Marked, Row
<1>7. /\ store' \in [Ids -> Row \cup {NoRow}] /\ \A id \in Ids : store[id] = NoRow => store'[id] = NoRow
      /\ mem' \in [Ids -> Row \cup {NoRow}]
  BY <1>1, <1>6 DEF IInv, TypeOK
<1>8. \A id \in Ids : IsLive(store'[id]) => mem'[id] # NoRow
  <2> SUFFICES ASSUME NEW id \in Ids, IsLive(store'[id]) PROVE mem[id] # NoRow
    BY <1>1
  <2>1. CASE id \in sync[s].update /\ store[id] # NoRow
    BY <1>1, <1>4, <2>1 DEF Fits, FitsIn, Marks
  <2>2. CASE ~(id \in sync[s].update /\ store[id] # NoRow)
    BY <1>1, <2>2 DEF IInv, Rows, Live
  <2> QED BY <2>1, <2>2
<1>9. FitsIn(state, store', mem')
  <2>1. DOMAIN sync[s].copies \subseteq Ids /\ sync[s].pushedDeleted \subseteq Ids
    BY SnapshotElim DEF IInv, TypeOK, Call
  <2> QED BY <1>1, <1>2, <1>4, <1>7, <2>1 DEF Fits, FitsIn, Old, Marks
<1> QED BY <1>1, <1>2, <1>3, <1>4, <1>5, <1>7, <1>8, <1>9, BlockStep DEF remote, ghosts

LEMMA MarkLocalChangesAsSyncedInv ==
  ASSUME IInv, NEW s \in Sessions, MarkLocalChangesAsSynced(s)
  PROVE  IInv'
<1> DEFINE marks == recordsToMarkAsSynced(s)
           state == [sync[s] EXCEPT !.phase = "marking", !.update = marks]
<1>1. /\ sync[s].phase = "markQueued" /\ HasItsTurn(s) /\ writer' = s /\ Become(s, state)
      /\ mem' = [id \in Ids |-> IF id \in marks /\ mem[id] # NoRow THEN Marked(mem[id]) ELSE mem[id]]
      /\ UNCHANGED <<store, lastPulledAt, resetCount, wire, remote, ghosts, disturbances>>
  BY DEF MarkLocalChangesAsSynced
<1>2. /\ marks \subseteq DOMAIN sync[s].copies /\ DOMAIN sync[s].copies \subseteq Ids
      /\ sync[s].copies \in [DOMAIN sync[s].copies -> Row]
      /\ ~Old(sync[s]) => \A id \in marks : mem[id] = sync[s].copies[id]
  <2>1. sync[s].copies \in Snapshots(Row)
    BY DEF IInv, TypeOK, Call
  <2> QED BY <2>1, SnapshotElim DEF recordsToMarkAsSynced, Old
<1> HIDE DEF marks
<1>3. /\ state \in Call /\ state.phase = "marking" /\ state.pull = sync[s].pull
      /\ state.resets = sync[s].resets /\ state.since = sync[s].since /\ state.update = marks
      /\ state.copies = sync[s].copies /\ state.pushedDeleted = sync[s].pushedDeleted
  <2>1. sync[s] \in Call /\ marks \in SUBSET Ids
    BY <1>2 DEF IInv, TypeOK
  <2> QED BY ONLY <2>1 DEF Call, Phases
<1> HIDE DEF state
<1>4. Timely(state) /\ AllUsed(state) /\ ~OldMark(state)
  BY <1>3 DEF Timely, Answered, AllUsed, OldMark, IInv, Times, UsedIds
<1>5. queue' \in Seq(Sessions) /\ Queue'
  BY <1>1, <1>3, BecomeKeeps, TurnQueue DEF Waiting
<1>6. \A id \in Ids : mem[id] # NoRow => Marked(mem[id]) \in Row /\ Marked(mem[id]) # NoRow
  BY NoRowAssumption DEF Marked, Row, IInv, TypeOK
<1>7. /\ mem' \in [Ids -> Row \cup {NoRow}] /\ \A id \in Ids : mem[id] # NoRow => mem'[id] # NoRow
      /\ store' \in [Ids -> Row \cup {NoRow}]
      /\ \A id \in Ids : store[id] = NoRow => store'[id] = NoRow
  BY <1>1, <1>6 DEF IInv, TypeOK
<1>8. \A id \in Ids : IsLive(store'[id]) => mem'[id] # NoRow
  BY <1>1, <1>7 DEF IInv, Rows, Live
<1>9. FitsIn(state, store', mem')
  <2>1. ~Old(sync[s]) => \A id \in marks : mem'[id] # NoRow
    BY <1>2, <1>7, NoRowAssumption
  <2>2. sync[s].phase \in Marks /\ Fits(sync[s]) /\ store' = store
    BY <1>1 DEF Marks, IInv, Rows
  <2> QED BY <1>2, <1>3, <2>1, <2>2 DEF Fits, FitsIn, Old
<1> QED BY <1>1, <1>3, <1>4, <1>5, <1>7, <1>8, <1>9, BlockStep DEF remote, ghosts

LEMMA ApplyRemoteChangesInv ==
  ASSUME IInv, NEW s \in Sessions, ApplyRemoteChanges(s)
  PROVE  IInv'
<1> DEFINE pull  == sync[s].pull
           state == [sync[s] EXCEPT !.phase = "applying", !.insert = toInsert(pull),
                       !.update = toUpdate(pull), !.destroy = gone(pull) \cap Live]
<1>1. /\ sync[s].phase = "applyQueued" /\ HasItsTurn(s)
      /\ UNCHANGED <<lastPulledAt, resetCount, wire, remote, ghosts, disturbances>>
  BY DEF ApplyRemoteChanges
<1>2. CASE ~mayApply(s)
  <2>1. Become(s, Idle) /\ UNCHANGED <<store, mem, writer>>
    BY <1>2 DEF ApplyRemoteChanges
  <2>2. queue' \in Seq(Sessions) /\ Queue'
    BY <1>1, <2>1, IdleFits, BecomeKeeps, TurnQueue DEF Waiting, Inside
  <2> QED BY <1>1, <2>1, <2>2, IdleFits, IdleIsACall, CallStep DEF Inside, Idle, IInv, TypeOK, UsedIds, remote, ghosts
<1>3. CASE mayApply(s)
  <2>1. /\ writer' = s /\ Become(s, state)
        /\ store' = [id \in Ids |->
             IF id \in (gone(pull) \cap LocallyDeleted) \union recreated(pull)
             THEN NoRow ELSE store[id]]
        /\ mem' = [id \in Ids |->
             CASE id \in toUpdate(pull) -> resolveConflict(mem[id], pull.rows[id])
               [] id \in gone(pull) \cap Live -> [mem[id] EXCEPT !.status = "deleted"]
               [] OTHER -> mem[id]]
    BY <1>3 DEF ApplyRemoteChanges
  <2>2. /\ pull \in Pull /\ pull.rows \in [DOMAIN pull.rows -> Contents] /\ DOMAIN pull.rows \subseteq Ids
        /\ pull.created \subseteq DOMAIN pull.rows /\ pull.deleted \subseteq Ids
        /\ pull.deleted \cap DOMAIN pull.rows = {}
    <3>1. pull \in Pull
      BY DEF IInv, TypeOK, Call
    <3>2. pull.rows \in Snapshots(Contents)
      BY <3>1 DEF Pull
    <3> QED BY <3>1, <3>2, SnapshotElim DEF Pull, IInv, Rows, Fits, FitsIn
  <2> HIDE DEF pull
  <2>3. /\ toInsert(pull) \subseteq DOMAIN pull.rows /\ toUpdate(pull) \subseteq DOMAIN pull.rows \cap Live
        /\ gone(pull) \subseteq Ids /\ gone(pull) \cap DOMAIN pull.rows = {}
    BY <2>2 DEF toInsert, toUpdate, gone, recreated
  <2>4. /\ state \in Call /\ state.phase = "applying" /\ state.pull = sync[s].pull
        /\ state.resets = sync[s].resets /\ state.since = sync[s].since
        /\ state.insert = toInsert(pull) /\ state.update = toUpdate(pull)
        /\ state.destroy = gone(pull) \cap Live
        /\ state.copies = sync[s].copies /\ state.pushedDeleted = sync[s].pushedDeleted
    <3>1. /\ sync[s] \in Call /\ toInsert(pull) \in SUBSET Ids /\ toUpdate(pull) \in SUBSET Ids
          /\ gone(pull) \cap Live \in SUBSET Ids
      BY <2>2, <2>3 DEF IInv, TypeOK
    <3> QED BY ONLY <3>1 DEF Call, Phases
  <2> HIDE DEF state
  <2>5. /\ sync[s].resets = resetCount /\ sync[s].since = lastPulledAt
        /\ \A t \in Sessions : ~OldMark(sync[t])
    BY <1>1, <1>3, <2>1, <2>4, BecomeKeeps, TurnQueue DEF mayApply, Old, Waiting
  <2>6. Timely(state) /\ AllUsed(state) /\ ~OldMark(state)
    BY <1>1, <2>4, <2>5 DEF Timely, Answered, AllUsed, OldMark, Old, IInv, Times, UsedIds
  <2>7. queue' \in Seq(Sessions) /\ Queue'
    BY <1>1, <2>1, <2>4, BecomeKeeps, TurnQueue DEF Waiting
  <2>8. \A id \in Ids : id \in Live => mem[id] \in Row /\ mem[id] # NoRow
    BY DEF IInv, TypeOK, Rows
  <2>9. ASSUME NEW id \in Ids
        PROVE  mem'[id] \in Row \cup {NoRow} /\ (mem[id] # NoRow => mem'[id] # NoRow)
    <3>1. CASE id \in toUpdate(pull)
      <4>1. mem'[id] = resolveConflict(mem[id], pull.rows[id])
        <5>1. id \notin gone(pull) \cap Live
          BY <2>3, <3>1
        <5> QED BY <2>1, <3>1, <5>1
      <4>2. mem[id] \in Row /\ pull.rows[id] \in Contents
        BY <2>2, <2>3, <2>8, <3>1
      <4>3. resolveConflict(mem[id], pull.rows[id]) \in Row
        BY ONLY <4>2 DEF resolveConflict, Row, Contents
      <4> QED BY <4>1, <4>3, NoRowAssumption
    <3>2. CASE id \notin toUpdate(pull) /\ id \in gone(pull) \cap Live
      <4>1. mem'[id] = [mem[id] EXCEPT !.status = "deleted"]
        BY <2>1, <3>2
      <4>2. [mem[id] EXCEPT !.status = "deleted"] \in Row
        BY <2>8, <3>2 DEF Row
      <4> QED BY <4>1, <4>2, NoRowAssumption
    <3>3. CASE id \notin toUpdate(pull) /\ id \notin gone(pull) \cap Live
      <4>1. mem'[id] = mem[id]
        BY <2>1, <3>3
      <4> QED BY <4>1 DEF IInv, TypeOK
    <3> QED BY <3>1, <3>2, <3>3
  <2>10. /\ mem' \in [Ids -> Row \cup {NoRow}] /\ \A id \in Ids : mem[id] # NoRow => mem'[id] # NoRow
    <3>1. mem' = [id \in Ids |-> mem'[id]]
      BY <2>1
    <3> QED BY <2>9, <3>1
  <2>11. /\ store' \in [Ids -> Row \cup {NoRow}]
         /\ \A id \in Ids : store'[id] = NoRow \/ store'[id] = store[id]
    BY <2>1 DEF IInv, TypeOK
  <2>12. \A id \in Ids : IsLive(store'[id]) => mem'[id] # NoRow
    BY <2>8, <2>10, <2>11 DEF Live, IsLive
  <2>13. FitsIn(state, store', mem')
    BY <2>2, <2>3, <2>4 DEF FitsIn, Marks, pull
  <2> QED BY <1>1, <2>1, <2>4, <2>5, <2>6, <2>7, <2>10, <2>11, <2>12, <2>13, BlockStep DEF remote, ghosts
<1> QED BY <1>2, <1>3

(* Copies are forgotten.                                                   *)
LEMMA Forgotten ==
  ASSUME IInv, NEW S
  PROVE  LET f == [t \in Sessions |-> [sync[t] EXCEPT !.copies = Only(@, S)]]
         IN /\ f \in [Sessions -> Call]
            /\ \A t \in Sessions :
                 /\ f[t] = [sync[t] EXCEPT !.copies = f[t].copies]
                 /\ DOMAIN f[t].copies \subseteq DOMAIN sync[t].copies
                 /\ DOMAIN f[t].copies = DOMAIN sync[t].copies \cap S
<1>1. ASSUME NEW t \in Sessions
      PROVE  /\ sync[t] \in Call /\ Only(sync[t].copies, S) \in Snapshots(Row)
             /\ DOMAIN Only(sync[t].copies, S) = DOMAIN sync[t].copies \cap S
  <2>1. sync[t] \in Call /\ sync[t].copies \in Snapshots(Row)
    BY DEF IInv, TypeOK, Call
  <2>2. /\ DOMAIN sync[t].copies \subseteq Ids
        /\ \A x \in DOMAIN sync[t].copies \cap S : sync[t].copies[x] \in Row
    BY <2>1, SnapshotElim
  <2> QED BY <2>1, <2>2, OnlySnapshot
<1>2. ASSUME NEW t \in Sessions, NEW c \in Snapshots(Row)
      PROVE  [sync[t] EXCEPT !.copies = c] \in Call
  BY <1>1, <1>2 DEF Call
<1>3. \A t \in Sessions : [sync[t] EXCEPT !.copies = Only(@, S)].copies = Only(sync[t].copies, S)
  BY <1>1 DEF Call
<1> QED BY <1>1, <1>2, <1>3

LEMMA ApplyBatchInv ==
  ASSUME IInv, NEW s \in Sessions, ApplyBatch(s)
  PROVE  IInv'
<1> DEFINE rec == sync[s]
           kept == Forget(rec.destroy)
<1>1. /\ rec.phase = "applying" /\ mem' = cacheAfter(rec)
      /\ store' = [id \in Ids |-> CASE id \in rec.insert  -> Pulled(rec.pull.rows[id])
                                    [] id \in rec.update  -> mem[id]
                                    [] id \in rec.destroy -> NoRow
                                    [] OTHER              -> store[id]]
      /\ sync' = [kept EXCEPT ![s] =
           [@ EXCEPT !.phase = "stamping", !.insert = {}, !.update = {}, !.destroy = {}]]
      /\ UNCHANGED <<lastPulledAt, resetCount, writer, queue, wire, remote, ghosts, disturbances>>
  BY DEF ApplyBatch
<1>2. /\ kept \in [Sessions -> Call]
      /\ \A t \in Sessions : /\ kept[t] = [sync[t] EXCEPT !.copies = kept[t].copies]
                             /\ DOMAIN kept[t].copies \subseteq DOMAIN sync[t].copies
  BY Forgotten DEF Forget
<1> HIDE DEF kept
<1>3. \A t \in Sessions : /\ kept[t].phase = sync[t].phase /\ kept[t].resets = sync[t].resets
                         /\ kept[t].since = sync[t].since /\ kept[t].pull = sync[t].pull
                         /\ kept[t].pushedDeleted = sync[t].pushedDeleted
  <2> TAKE t \in Sessions
  <2>1. sync[t] \in Call /\ kept[t] = [sync[t] EXCEPT !.copies = kept[t].copies]
    BY <1>2 DEF IInv, TypeOK
  <2> QED BY ONLY <2>1 DEF Call
<1>4. /\ sync' \in [Sessions -> Call] /\ \A t \in Sessions : t # s => sync'[t] = kept[t]
      /\ sync'[s].phase = "stamping" /\ sync'[s].resets = rec.resets /\ sync'[s].since = rec.since
      /\ sync'[s].pull = rec.pull /\ sync'[s].pushedDeleted = rec.pushedDeleted
      /\ sync'[s].copies = kept[s].copies
  <2> DEFINE state == [kept[s] EXCEPT !.phase = "stamping", !.insert = {}, !.update = {}, !.destroy = {}]
  <2>1. /\ state \in Call /\ state.phase = "stamping" /\ state.resets = kept[s].resets
        /\ state.since = kept[s].since /\ state.pull = kept[s].pull
        /\ state.pushedDeleted = kept[s].pushedDeleted /\ state.copies = kept[s].copies
    <3>1. kept[s] \in Call
      BY <1>2
    <3> QED BY ONLY <3>1 DEF Call, Phases
  <2>2. sync' = [kept EXCEPT ![s] = state]
    BY ONLY <1>1
  <2> HIDE DEF state
  <2>3. sync'[s] = state /\ (\A t \in Sessions : t # s => sync'[t] = kept[t]) /\ sync' \in [Sessions -> Call]
    BY ONLY <1>2, <2>1, <2>2
  <2> QED BY <1>3, <2>1, <2>3
<1>5. /\ writer = s /\ Fits(rec) /\ AllUsed(rec) /\ Timely(rec)
      /\ \A t \in Sessions : ~OldMark(sync[t]) /\ (t # s => sync[t].phase \notin Inside)
  BY <1>1 DEF IInv, Queue, Rows, UsedIds, Times, Alone, Inside
<1>6. /\ rec.insert \cup rec.update \subseteq DOMAIN rec.pull.rows /\ rec.destroy \cap DOMAIN rec.pull.rows = {}
      /\ rec.pull.rows \in [DOMAIN rec.pull.rows -> Contents] /\ DOMAIN rec.pull.rows \subseteq used
      /\ rec.pull.rows \in Snapshots(Contents)
  <2>1. rec.pull.rows \in Snapshots(Contents)
    BY DEF IInv, TypeOK, Call, Pull
  <2> QED BY <1>1, <1>5, <2>1, SnapshotElim DEF Fits, FitsIn, AllUsed
<1>7. \A id \in rec.insert : Pulled(rec.pull.rows[id]) \in Row /\ Pulled(rec.pull.rows[id]) # NoRow
  BY <1>6, NoRowAssumption DEF Pulled, Row
<1>8. ASSUME NEW id \in Ids
      PROVE  /\ store'[id] \in Row \cup {NoRow} /\ mem'[id] \in Row \cup {NoRow}
             /\ store'[id] # NoRow => id \in used
             /\ IsLive(store'[id]) => mem'[id] # NoRow
  <2>1. CASE id \in rec.insert
    <3>1. id \notin rec.destroy /\ id \in used
      BY <1>6, <2>1
    <3>2. mem'[id] = Pulled(rec.pull.rows[id])
      BY <1>1, <2>1, <3>1 DEF cacheAfter
    <3>3. store'[id] \in {Pulled(rec.pull.rows[id]), mem[id]}
      BY <1>1, <2>1, <3>1
    <3> QED BY <1>7, <2>1, <3>1, <3>2, <3>3 DEF IInv, TypeOK
  <2>2. CASE id \notin rec.insert /\ id \in rec.update
    <3>1. id \notin rec.destroy /\ id \in used
      BY <1>6, <2>2
    <3>2. store'[id] = mem[id] /\ mem'[id] = mem[id]
      BY <1>1, <2>2, <3>1 DEF cacheAfter
    <3> QED BY <3>1, <3>2 DEF IInv, TypeOK, IsLive
  <2>3. CASE id \notin rec.insert \cup rec.update /\ id \in rec.destroy
    <3>1. store'[id] = NoRow /\ mem'[id] = NoRow
      BY <1>1, <2>3 DEF cacheAfter
    <3> QED BY <3>1 DEF IsLive
  <2>4. CASE id \notin rec.insert \cup rec.update \cup rec.destroy
    <3>1. store'[id] = store[id] /\ mem'[id] = mem[id]
      BY <1>1, <2>4 DEF cacheAfter
    <3> QED BY <3>1 DEF IInv, TypeOK, UsedIds, Rows, Live
  <2> QED BY <2>1, <2>2, <2>3, <2>4
<1>9. TypeOK' /\ Queue'
  <2>1. store' \in [Ids -> Row \cup {NoRow}] /\ mem' \in [Ids -> Row \cup {NoRow}]
    <3>1. store' = [id \in Ids |-> store'[id]] /\ mem' = [id \in Ids |-> mem'[id]]
      BY <1>1 DEF cacheAfter
    <3> QED BY <1>8, <3>1
  <2>2. queue' \in Seq(Sessions) /\ Queue'
    <3>1. OthersKeep(s)
      BY <1>3, <1>4 DEF OthersKeep
    <3> QED BY <1>1, <1>4, <1>5, <3>1, SameQueue DEF Waiting, Inside
  <2> QED BY <1>1, <1>4, <2>1, <2>2 DEF IInv, TypeOK, remote
<1>10. Times'
  <2>1. \A t \in Sessions : Timely(sync'[t])
    BY <1>1, <1>3, <1>4, <1>5 DEF IInv, Times, Timely, Old, Answered
  <2> QED BY <1>1, <2>1 DEF IInv, Times, Timely, Old, remote
<1>11. Alone' /\ Wired'
  <2>1. \A request \in wire : request.from \in Sessions
    BY DEF IInv, TypeOK, PushRequest
  <2> QED BY <1>1, <1>3, <1>4, <1>5, <2>1 DEF IInv, Alone, Wired, Inside
<1>12. UsedIds'
  <2>1. \A t \in Sessions : AllUsed(sync'[t])
    BY <1>2, <1>3, <1>4 DEF AllUsed, IInv, UsedIds
  <2> QED BY <1>1, <1>8, <2>1 DEF IInv, UsedIds, AllUsed, remote, ghosts
<1>13. Rows'
  <2>1. \A t \in Sessions : FitsIn(sync'[t], store', mem')
    <3> SUFFICES ASSUME NEW t \in Sessions PROVE FitsIn(sync'[t], store', mem')
      OBVIOUS
    <3>1. Fits(sync[t])
      BY DEF IInv, Rows
    <3>2. sync'[t].phase \notin {"applying", "marking"} /\ (sync'[t].phase \in Marks => ~Old(sync'[t]))
      BY <1>3, <1>4, <1>5 DEF Inside, Marks, OldMark, Old
    <3>3. sync'[t].pull = sync[t].pull
      BY <1>3, <1>4
    <3> QED BY <3>1, <3>2, <3>3 DEF Fits, FitsIn
  <2> QED BY <1>1, <1>8, <2>1 DEF Rows, Fits, FitsIn, Old, Live
<1> QED BY <1>9, <1>10, <1>11, <1>12, <1>13 DEF IInv

-----------------------------------------------------------------------------
(* What the server, other clients and the network do.                      *)
LEMMA OutsideStep ==
  ASSUME IInv, UNCHANGED <<db, resetCount, writer, queue, sync>>,
         clock' \in Nat, clock <= clock', server' \in [Ids -> ServerRow \cup {NoRow}],
         used \subseteq used', \A id \in Ids : server'[id] # NoRow => id \in used',
         wire' \subseteq wire
  PROVE  IInv'
<1>1. TypeOK' /\ Queue' /\ Wired' /\ Alone'
  BY DEF IInv, TypeOK, Queue, Wired, Alone, OldMark, Old, db
<1>2. Times'
  <2>1. \A t \in Sessions : sync[t] \in Call /\ Timely(sync[t])
    BY DEF IInv, TypeOK, Times
  <2>2. \A t \in Sessions : sync[t].since \in Nat /\ sync[t].pull.timestamp \in Nat
    BY <2>1 DEF Call, Pull
  <2>3. \A t \in Sessions : Timely(sync[t])'
    BY <2>1, <2>2 DEF Timely, Old, IInv, TypeOK, db
  <2> QED BY <2>3 DEF Times, IInv, TypeOK, db
<1>3. UsedIds'
  BY DEF IInv, UsedIds, AllUsed, db
<1>4. Rows'
  BY DEF IInv, Rows, Fits, FitsIn, Old, Live, db
<1> QED BY <1>1, <1>2, <1>3, <1>4 DEF IInv

LEMMA RequestIsLostInv ==
  ASSUME IInv, NEW request \in wire, RequestIsLost(request)
  PROVE  IInv'
BY OutsideStep DEF RequestIsLost, IInv, TypeOK, UsedIds, remote, ghosts

LEMMA RemoteWritesInv ==
  ASSUME IInv, NEW id \in Ids, NEW vals \in Contents, RemoteWrites(id, vals)
  PROVE  IInv'
<1> DEFINE row == [alive |-> TRUE, vals |-> vals, mod |-> clock + 1,
                   born |-> IF Exists(id) THEN server[id].born ELSE clock + 1]
<1>1. row \in ServerRow
  <2>1. Exists(id) => server[id] \in ServerRow
    BY DEF Exists, IInv, TypeOK
  <2> QED BY <2>1 DEF ServerRow, IInv, TypeOK
<1>2. /\ server' = [server EXCEPT ![id] = row] /\ clock' = clock + 1 /\ used' = used \union {id}
      /\ UNCHANGED <<db, resetCount, writer, queue, sync, wire>>
  BY DEF RemoteWrites
<1> HIDE DEF row
<1>3. /\ server' \in [Ids -> ServerRow \cup {NoRow}] /\ clock' \in Nat /\ clock <= clock'
      /\ \A x \in Ids : server'[x] # NoRow => x \in used'
  BY <1>1, <1>2 DEF IInv, TypeOK, UsedIds
<1> QED BY <1>2, <1>3, OutsideStep

LEMMA Removed ==
  ASSUME NEW row \in ServerRow, NEW n \in Nat
  PROVE  [row EXCEPT !.alive = FALSE, !.mod = n] \in ServerRow
BY DEF ServerRow

LEMMA RemoteDeletesInv ==
  ASSUME IInv, NEW id \in Ids, RemoteDeletes(id)
  PROVE  IInv'
<1> DEFINE row == [server[id] EXCEPT !.alive = FALSE, !.mod = clock + 1]
<1>1. server[id] \in ServerRow /\ id \in used
  BY DEF RemoteDeletes, Exists, IInv, TypeOK, UsedIds
<1>2. row \in ServerRow
  <2>1. clock + 1 \in Nat
    BY DEF IInv, TypeOK
  <2> QED BY ONLY <1>1, <2>1, Removed
<1>3. /\ server' = [server EXCEPT ![id] = row] /\ clock' = clock + 1
      /\ UNCHANGED <<db, resetCount, writer, queue, sync, wire, used>>
  BY DEF RemoteDeletes, ghosts
<1> HIDE DEF row
<1>4. /\ server' \in [Ids -> ServerRow \cup {NoRow}] /\ clock' \in Nat /\ clock <= clock'
      /\ \A x \in Ids : server'[x] # NoRow => x \in used'
  BY <1>1, <1>2, <1>3 DEF IInv, TypeOK, UsedIds
<1> QED BY <1>3, <1>4, OutsideStep

LEMMA AcceptServer ==
  ASSUME IInv, NEW request \in wire, NEW refused, Accept(request, refused)
  PROVE  /\ clock' \in Nat /\ clock <= clock' /\ server' \in [Ids -> ServerRow \cup {NoRow}]
         /\ \A id \in Ids : server'[id] # NoRow => id \in used
<1> DEFINE rows    == DOMAIN request.rows \ refused
           deleted == {id \in request.deleted \ refused : Exists(id)}
           sent(id) == [alive |-> TRUE, vals |-> request.rows[id], mod |-> clock + 1,
                        born |-> IF Exists(id) THEN server[id].born ELSE clock + 1]
           removed(id) == [server[id] EXCEPT !.alive = FALSE, !.mod = clock + 1]
<1>1. /\ clock' = clock + 1
      /\ server' = [id \in Ids |-> CASE id \in rows -> sent(id)
                                     [] id \in deleted -> removed(id)
                                     [] OTHER -> server[id]]
  BY DEF Accept
<1>2. /\ request.rows \in [DOMAIN request.rows -> Contents] /\ DOMAIN request.rows \subseteq Ids
      /\ DOMAIN request.rows \subseteq used
  <2>1. request.rows \in Snapshots(Contents)
    BY DEF IInv, TypeOK, PushRequest
  <2> QED BY <2>1, SnapshotElim DEF IInv, UsedIds
<1>3. ASSUME NEW id \in Ids PROVE Exists(id) => server[id] \in ServerRow /\ id \in used
  BY DEF Exists, IInv, TypeOK, UsedIds
<1>4. clock \in Nat /\ server \in [Ids -> ServerRow \cup {NoRow}]
  BY DEF IInv, TypeOK
<1>5. ASSUME NEW id \in rows PROVE sent(id) \in ServerRow
  <2>1. request.rows[id] \in Contents /\ id \in Ids
    BY <1>2
  <2> QED BY <1>3, <1>4, <2>1 DEF ServerRow
<1>6. ASSUME NEW id \in Ids, id \in deleted PROVE removed(id) \in ServerRow
  <2>1. clock + 1 \in Nat /\ server[id] \in ServerRow
    BY <1>3, <1>4, <1>6
  <2> QED BY ONLY <2>1, Removed
<1>7. rows \subseteq used /\ \A id \in Ids : id \in deleted => id \in used
  BY <1>2, <1>3
<1> HIDE DEF rows, deleted, sent, removed
<1>8. ASSUME NEW id \in Ids
      PROVE  server'[id] \in ServerRow \cup {NoRow} /\ (server'[id] # NoRow => id \in used)
  <2>1. server'[id] \in {sent(id), removed(id), server[id]}
    BY <1>1
  <2>2. id \notin rows /\ id \notin deleted => server'[id] = server[id]
    BY <1>1
  <2>3. id \in rows /\ id \notin deleted => server'[id] = sent(id)
    BY <1>1
  <2>4. id \notin rows /\ id \in deleted => server'[id] = removed(id)
    BY <1>1
  <2>5. id \in rows /\ id \in deleted => server'[id] \in {sent(id), removed(id)}
    BY <1>1
  <2> QED BY <1>4, <1>5, <1>6, <1>7, <2>2, <2>3, <2>4, <2>5 DEF IInv, UsedIds
<1>9. server' = [id \in Ids |-> server'[id]]
  BY <1>1
<1> QED BY <1>1, <1>4, <1>8, <1>9

LEMMA ServerHandlesPushInv ==
  ASSUME IInv, NEW request \in wire, ServerHandlesPush(request)
  PROVE  IInv'
<1> DEFINE s == request.from
<1>1. /\ wire' = wire \ {request}
      /\ UNCHANGED <<db, resetCount, writer, queue, used>>
  BY DEF ServerHandlesPush
<1>2. /\ clock' \in Nat /\ clock <= clock' /\ server' \in [Ids -> ServerRow \cup {NoRow}]
      /\ \A id \in Ids : server'[id] # NoRow => id \in used
  <2>1. Accept(request, Conflicts(request)) \/ UNCHANGED remote
    BY DEF ServerHandlesPush
  <2>2. CASE UNCHANGED remote
    BY <2>2 DEF remote, IInv, TypeOK, UsedIds
  <2> QED BY <2>1, <2>2, AcceptServer
<1>3. CASE ~request.awaited
  <2>1. sync' = sync
    BY <1>3 DEF ServerHandlesPush
  <2> QED BY <1>1, <1>2, <2>1, OutsideStep
<1>4. CASE request.awaited
  <2> DEFINE answered == [sync[s] EXCEPT !.phase = "answered", !.rejected = Conflicts(request)]
  <2>1. request \in PushRequest /\ s \in Sessions /\ sync[s].phase = "pushing"
    BY <1>4 DEF IInv, TypeOK, Wired, PushRequest
  <2>2. Become(s, Idle) \/ Become(s, answered)
    BY <1>4 DEF ServerHandlesPush, Become
  <2>3. wire' \subseteq PushRequest /\ \A r \in wire' : DOMAIN r.rows \subseteq used
    BY <1>1 DEF IInv, TypeOK, UsedIds
  <2>4. \A r \in wire' : r \in wire /\ r.from \in Sessions /\ (r.awaited => r.from # s)
    BY <1>1, <1>4 DEF IInv, TypeOK, Wired, PushRequest
  <2>5. ASSUME NEW state, Become(s, state) PROVE Wired'
    BY <1>1, <2>1, <2>4, <2>5, BecomeKeeps DEF IInv, Wired, OthersKeep
  <2>6. CASE Become(s, Idle)
    <3>1. queue' \in Seq(Sessions) /\ Queue'
      BY <1>1, <2>1, <2>6, IdleFits, BecomeKeeps, SameQueue DEF Waiting, Inside
    <3>2. Wired'
      BY <2>5, <2>6
    <3>3. Idle.phase # "applying" /\ UNCHANGED <<store, mem, lastPulledAt>>
      BY <1>1 DEF Idle, db
    <3> QED BY <1>1, <1>2, <2>1, <2>3, <2>6, <3>1, <3>2, <3>3, IdleFits, IdleIsACall, ServerStep
  <2>7. CASE Become(s, answered)
    <3>1. /\ answered \in Call /\ answered.phase = "answered" /\ answered.pull = sync[s].pull
          /\ answered.resets = sync[s].resets /\ answered.since = sync[s].since
          /\ answered.copies = sync[s].copies /\ answered.pushedDeleted = sync[s].pushedDeleted
      <4>1. sync[s] \in Call
        BY <2>1 DEF IInv, TypeOK
      <4>2. Conflicts(request) \in SUBSET Ids
        <5>1. request.rows \in Snapshots(Contents) /\ request.deleted \subseteq Ids
          BY <2>1 DEF PushRequest
        <5> QED BY <5>1, SnapshotElim DEF Conflicts
      <4> QED BY ONLY <4>1, <4>2 DEF Call, Phases
    <3> HIDE DEF answered
    <3>2. Timely(answered) /\ AllUsed(answered) /\ Fits(answered) /\ ~OldMark(answered)
      BY <2>1, <3>1 DEF Timely, Answered, AllUsed, Fits, FitsIn, Marks, OldMark, IInv, Times, UsedIds, Rows
    <3>3. queue' \in Seq(Sessions) /\ Queue'
      BY <1>1, <2>1, <2>7, <3>1, BecomeKeeps, SameQueue DEF Waiting, Inside
    <3>4. Wired'
      BY <2>5, <2>7
    <3>5. UNCHANGED <<store, mem, lastPulledAt>>
      BY <1>1 DEF db
    <3> QED BY <1>1, <1>2, <2>1, <2>3, <2>7, <3>1, <3>2, <3>3, <3>4, <3>5, ServerStep
  <2> QED BY <2>2, <2>6, <2>7
<1> QED BY <1>3, <1>4

-----------------------------------------------------------------------------
(* Resets, the end of the process and the user.                            *)
LEMMA ResetBeginsInv ==
  ASSUME IInv, ResetBegins
  PROVE  IInv'
<1>1. /\ writer = Nobody /\ writer' = Resetter /\ sync' = queueAborted /\ queue' = <<>>
      /\ UNCHANGED <<db, resetCount, wire, remote, ghosts>>
  BY DEF ResetBegins
<1>2. \A t \in Sessions : /\ sync[t].phase \notin Inside /\ sync[t] \in Call
                          /\ Timely(sync[t]) /\ AllUsed(sync[t]) /\ Fits(sync[t])
  BY <1>1, NoCallHas DEF IInv, TypeOK, Queue, Times, UsedIds, Rows
<1>3. ASSUME NEW t \in Sessions
      PROVE  /\ sync'[t] \in Call /\ sync'[t].phase \notin Waiting \cup Inside
             /\ Timely(sync'[t]) /\ AllUsed(sync'[t]) /\ Fits(sync'[t])
             /\ (sync[t].phase = "pushing" => sync'[t].phase = "pushing")
  <2>1. CASE sync[t].phase \in Waiting
    <3>1. sync'[t] = Idle
      BY <1>1, <2>1 DEF queueAborted, Waiting
    <3> QED BY <2>1, <3>1, IdleFits, IdleIsACall DEF Waiting
  <2>2. CASE sync[t].phase \notin Waiting
    <3>1. sync'[t] = sync[t]
      BY <1>1, <2>2 DEF queueAborted, Waiting
    <3> QED BY <1>2, <2>2, <3>1
  <2> QED BY <2>1, <2>2
<1>4. TypeOK'
  <2>1. sync' \in [Sessions -> Call]
    BY <1>1, <1>3 DEF queueAborted
  <2> QED BY <1>1, <2>1 DEF IInv, TypeOK, db, remote
<1>5. Queue'
  BY <1>1, <1>3 DEF Queue
<1>6. Times'
  BY <1>1, <1>3 DEF IInv, Times, Timely, Old, db, remote
<1>7. Alone' /\ Wired'
  <2>1. \A request \in wire : request.from \in Sessions
    BY DEF IInv, TypeOK, PushRequest
  <2> QED BY <1>1, <1>3, <2>1 DEF IInv, Alone, Wired, Inside
<1>8. UsedIds'
  BY <1>1, <1>3 DEF IInv, UsedIds, AllUsed, db, remote, ghosts
<1>9. Rows'
  BY <1>1, <1>3 DEF IInv, Rows, Fits, FitsIn, Old, Live, db
<1> QED BY <1>4, <1>5, <1>6, <1>7, <1>8, <1>9 DEF IInv

LEMMA ResetEndsInv ==
  ASSUME IInv, ResetEnds
  PROVE  IInv'
<1>1. /\ writer = Resetter /\ writer' = Nobody /\ resetCount' = resetCount + 1 /\ lastPulledAt' = 0
      /\ store' = [id \in Ids |-> NoRow] /\ mem' = store'
      /\ UNCHANGED <<queue, wire, remote, used, disturbances>>
  BY DEF ResetEnds
<1>0. sync' = [t \in Sessions |-> [sync[t] EXCEPT !.copies =
                    Only(@, {id \in Ids : id \in DOMAIN @ /\ mem[id] = @[id]})]]
  BY DEF ResetEnds
<1>2. ASSUME NEW t \in Sessions
      PROVE  /\ sync[t] \in Call /\ sync'[t] = [sync[t] EXCEPT !.copies = sync'[t].copies]
             /\ sync'[t].copies \in Snapshots(Row)
             /\ DOMAIN sync'[t].copies \subseteq DOMAIN sync[t].copies
             /\ DOMAIN sync[t].copies \subseteq Ids
  <2> DEFINE copies == sync[t].copies
             S      == {id \in Ids : id \in DOMAIN copies /\ mem[id] = copies[id]}
  <2>1. sync[t] \in Call /\ copies \in Snapshots(Row)
    BY DEF IInv, TypeOK, Call
  <2>2. DOMAIN copies \subseteq Ids /\ \A x \in DOMAIN copies \cap S : copies[x] \in Row
    BY <2>1, SnapshotElim
  <2>3. sync'[t] = [sync[t] EXCEPT !.copies = Only(copies, S)]
    BY <1>0
  <2> HIDE DEF S
  <2>4. sync'[t].copies = Only(copies, S)
    BY <2>1, <2>3 DEF Call
  <2>5. Only(copies, S) \in Snapshots(Row) /\ DOMAIN Only(copies, S) = DOMAIN copies \cap S
    BY ONLY <2>2, OnlySnapshot
  <2> QED BY <2>1, <2>2, <2>3, <2>4, <2>5
<1>3. ASSUME NEW t \in Sessions
      PROVE  /\ sync'[t] \in Call /\ sync'[t].phase = sync[t].phase /\ sync'[t].resets = sync[t].resets
             /\ sync'[t].since = sync[t].since /\ sync'[t].pull = sync[t].pull
             /\ sync'[t].pushedDeleted = sync[t].pushedDeleted /\ sync[t].phase \notin Inside
  <2>1. sync[t].phase \notin Inside
    BY <1>1, NoCallHas DEF IInv, Queue
  <2>2. /\ sync[t] \in Call /\ sync'[t] = [sync[t] EXCEPT !.copies = sync'[t].copies]
        /\ sync'[t].copies \in Snapshots(Row)
    BY <1>2
  <2> QED BY ONLY <2>1, <2>2 DEF Call
<1>4. \A t \in Sessions : /\ sync'[t].resets \in Nat /\ sync'[t].resets <= resetCount /\ resetCount \in Nat
                          /\ sync'[t].since \in Nat
  BY <1>3 DEF IInv, TypeOK, Times, Timely, Call
<1>5. TypeOK'
  <2>1. sync' \in [Sessions -> Call]
    BY <1>0, <1>3
  <2>2. store' \in [Ids -> Row \cup {NoRow}] /\ mem' \in [Ids -> Row \cup {NoRow}]
    BY <1>1
  <2>3. resetCount' \in Nat /\ writer' \in Sessions \cup {Nobody, Resetter}
    BY <1>1 DEF IInv, TypeOK
  <2> QED BY <1>1, <2>1, <2>2, <2>3 DEF IInv, TypeOK, remote
<1>6. Queue'
  <2>1. \A i \in 1 .. Len(queue) : queue[i] \in Sessions
    BY DEF IInv, TypeOK
  <2>2. \A t \in Sessions : Old(sync[t])'
    BY <1>1, <1>4 DEF Old
  <2>3. \A t \in Sessions : sync'[t].phase = sync[t].phase /\ sync[t].phase \notin Inside
    BY <1>3
  <2>4. /\ \A s \in Sessions : sync'[s].phase \in Inside => writer' = s
        /\ \A i \in 1 .. Len(queue') : sync'[queue'[i]].phase \in Waiting
        /\ \A s \in Sessions : sync'[s].phase \in Waiting => \E i \in 1 .. Len(queue') : queue'[i] = s
        /\ \A i, j \in 1 .. Len(queue') : queue'[i] = queue'[j] => i = j
    BY <1>1, <2>1, <2>3 DEF IInv, Queue
  <2>5. \A i, j \in 1 .. Len(queue') : i < j /\ OldMark(sync[queue[j]])' => Old(sync[queue[i]])'
    <3>1. queue' = queue
      BY <1>1
    <3> QED BY <2>1, <2>2, <3>1
  <2> QED BY <2>4, <2>5 DEF Queue
<1>7. Times'
  <2>1. \A t \in Sessions : Timely(sync[t])'
    <3> TAKE t \in Sessions
    <3>1. Timely(sync[t]) /\ sync'[t].phase \notin {"applying", "stamping"}
      BY <1>3 DEF IInv, Times, Inside
    <3>2. resetCount' = resetCount + 1 /\ clock' = clock
      BY <1>1 DEF remote
    <3>3. /\ sync'[t].phase = sync[t].phase /\ sync'[t].resets = sync[t].resets
          /\ sync'[t].since = sync[t].since /\ sync'[t].pull = sync[t].pull
      BY <1>3
    <3> QED BY <1>4, <3>1, <3>2, <3>3 DEF Timely
  <2>2. lastPulledAt' <= clock'
    BY <1>1 DEF IInv, TypeOK, remote
  <2> QED BY <2>1, <2>2 DEF Times
<1>8. Alone' /\ Wired'
  <2>1. \A request \in wire : request.from \in Sessions
    BY DEF IInv, TypeOK, PushRequest
  <2> QED BY <1>1, <1>3, <2>1 DEF IInv, Alone, Wired, Inside
<1>9. UsedIds'
  <2>1. \A t \in Sessions : AllUsed(sync'[t])
    BY <1>2, <1>3 DEF AllUsed, IInv, UsedIds
  <2> QED BY <1>1, <2>1 DEF IInv, UsedIds, AllUsed, remote
<1>10. Rows'
  <2>1. \A t \in Sessions : FitsIn(sync[t], store, mem)'
    <3> TAKE t \in Sessions
    <3>1. Fits(sync[t]) /\ sync[t].pushedDeleted \subseteq Ids
      BY <1>2 DEF IInv, Rows, Call
    <3>2. \A id \in DOMAIN sync'[t].copies \cup sync'[t].pushedDeleted : store'[id] = NoRow
      BY <1>1, <1>2, <1>3, <3>1
    <3> QED BY <1>3, <3>1, <3>2 DEF Fits, FitsIn, Inside
  <2> QED BY <1>1, <2>1 DEF Rows, Fits, Live, IsLive
<1> QED BY <1>5, <1>6, <1>7, <1>8, <1>9, <1>10 DEF IInv

LEMMA CrashInv ==
  ASSUME IInv, Crash
  PROVE  IInv'
<1>1. /\ sync' = [s \in Sessions |-> Idle] /\ writer' = Nobody /\ queue' = <<>> /\ resetCount' = 0
      /\ wire' = {[request EXCEPT !.awaited = FALSE] : request \in wire}
      /\ mem' = [id \in Ids |-> IF IsLive(store[id]) THEN store[id] ELSE NoRow]
      /\ UNCHANGED <<store, lastPulledAt, remote, ghosts>>
  BY DEF Crash
<1>2. \A s \in Sessions : sync'[s] = Idle
  BY <1>1
<1>3. \A r \in wire' : r \in PushRequest /\ ~r.awaited /\ DOMAIN r.rows \subseteq used
  <2> SUFFICES ASSUME NEW request \in wire
               PROVE  LET r == [request EXCEPT !.awaited = FALSE]
                      IN r \in PushRequest /\ ~r.awaited /\ DOMAIN r.rows \subseteq used
    BY <1>1
  <2>1. request \in PushRequest /\ DOMAIN request.rows \subseteq used
    BY DEF IInv, TypeOK, UsedIds
  <2> QED BY <2>1 DEF PushRequest
<1>4. TypeOK'
  BY <1>1, <1>3, IdleIsACall DEF IInv, TypeOK, remote
<1>5. Queue' /\ Alone'
  BY <1>1, <1>2 DEF Queue, Alone, Idle, Waiting, Inside
<1>6. Times'
  BY <1>1, <1>2 DEF Times, Timely, Idle, Answered, IInv, TypeOK, remote
<1>7. UsedIds' /\ Wired'
  BY <1>1, <1>2, <1>3, EmptyDomain DEF IInv, UsedIds, AllUsed, Wired, Idle, remote, ghosts
<1>8. Rows'
  <2>1. \A s \in Sessions : Fits(sync[s])'
    BY <1>2, EmptyDomain DEF Fits, FitsIn, Idle, Marks
  <2>2. \A id \in Ids : IsLive(store[id]) => mem'[id] # NoRow
    BY <1>1 DEF IsLive
  <2> QED BY <1>1, <2>1, <2>2 DEF Rows, Live
<1> QED BY <1>4, <1>5, <1>6, <1>7, <1>8 DEF IInv

LEMMA UserStepInv ==
  ASSUME IInv, NEW id \in Ids, writer = Nobody, writer' = writer,
         UNCHANGED <<lastPulledAt, resetCount, queue, wire, remote>>,
         store' \in [Ids -> Row \cup {NoRow}], mem' \in [Ids -> Row \cup {NoRow}],
         \A x \in Ids : x # id => store'[x] = store[x] /\ mem'[x] = mem[x],
         IsLive(store'[id]) => mem'[id] # NoRow,
         used \subseteq used', store'[id] # NoRow => id \in used',
         store[id] # NoRow \/ id \notin used,
         sync' \in [Sessions -> Call],
         \A t \in Sessions : /\ sync'[t] = [sync[t] EXCEPT !.copies = sync'[t].copies]
                             /\ DOMAIN sync'[t].copies \subseteq DOMAIN sync[t].copies
  PROVE  IInv'
<1>1. ASSUME NEW t \in Sessions
      PROVE  /\ sync'[t] \in Call /\ sync'[t].phase = sync[t].phase /\ sync'[t].resets = sync[t].resets
             /\ sync'[t].since = sync[t].since /\ sync'[t].pull = sync[t].pull
             /\ sync'[t].pushedDeleted = sync[t].pushedDeleted /\ sync[t].phase \notin Inside
  <2>1. sync[t].phase \notin Inside
    BY NoCallHas DEF IInv, Queue
  <2>2. /\ sync[t] \in Call /\ sync'[t] = [sync[t] EXCEPT !.copies = sync'[t].copies]
        /\ sync'[t] \in Call
    BY DEF IInv, TypeOK
  <2> QED BY ONLY <2>1, <2>2 DEF Call
<1>2. TypeOK'
  BY DEF IInv, TypeOK, remote
<1>3. Queue'
  <2>1. \A i \in 1 .. Len(queue) : queue[i] \in Sessions
    BY DEF IInv, TypeOK
  <2> QED BY <1>1, <2>1 DEF IInv, Queue, OldMark, Old
<1>4. Times'
  BY <1>1 DEF IInv, Times, Timely, Old, remote
<1>5. Alone' /\ Wired'
  <2>1. \A request \in wire : request.from \in Sessions
    BY DEF IInv, TypeOK, PushRequest
  <2> QED BY <1>1, <2>1 DEF IInv, Alone, Wired, Inside
<1>6. UsedIds'
  <2>1. \A t \in Sessions : AllUsed(sync'[t])
    BY <1>1 DEF AllUsed, IInv, UsedIds
  <2> QED BY <2>1 DEF IInv, UsedIds, AllUsed, remote
<1>7. Rows'
  <2>1. \A t \in Sessions : FitsIn(sync[t], store, mem)'
    <3> TAKE t \in Sessions
    <3>1. Fits(sync[t]) /\ AllUsed(sync[t])
      BY DEF IInv, Rows, UsedIds
    <3>2. DOMAIN sync[t].copies \subseteq Ids /\ sync[t].pushedDeleted \subseteq Ids
      BY <1>1, SnapshotElim DEF IInv, TypeOK, Call
    <3>3. sync'[t].phase \in Marks /\ Old(sync'[t]) =>
            \A x \in DOMAIN sync'[t].copies \cup sync'[t].pushedDeleted : store'[x] = NoRow
      <4> SUFFICES ASSUME sync'[t].phase \in Marks, Old(sync'[t]),
                          NEW x \in DOMAIN sync'[t].copies \cup sync'[t].pushedDeleted
                   PROVE  store'[x] = NoRow
        OBVIOUS
      <4>1. x \in DOMAIN sync[t].copies \cup sync[t].pushedDeleted /\ x \in Ids /\ x \in used
        BY <1>1, <3>1, <3>2 DEF AllUsed
      <4>2. store[x] = NoRow
        BY <1>1, <3>1, <4>1 DEF Fits, FitsIn, Old
      <4> QED BY <4>1, <4>2
    <3> QED BY <1>1, <3>1, <3>3 DEF Fits, FitsIn, Inside, Old
  <2>2. \A x \in Ids : IsLive(store'[x]) => mem'[x] # NoRow
    BY DEF IInv, Rows, Live
  <2> QED BY <2>1, <2>2 DEF Rows, Fits, Live
<1> QED BY <1>2, <1>3, <1>4, <1>5, <1>6, <1>7 DEF IInv

LEMMA CallsStay ==
  ASSUME IInv, sync' = sync
  PROVE  /\ sync' \in [Sessions -> Call]
         /\ \A t \in Sessions : /\ sync'[t] = [sync[t] EXCEPT !.copies = sync'[t].copies]
                                /\ DOMAIN sync'[t].copies \subseteq DOMAIN sync[t].copies
<1>1. \A t \in Sessions : sync[t] \in Call
  BY DEF IInv, TypeOK
<1> QED BY <1>1 DEF Call, IInv, TypeOK

LEMMA UserCreatesInv ==
  ASSUME IInv, NEW id \in Ids, NEW vals \in Contents, UserCreates(id, vals)
  PROVE  IInv'
<1> DEFINE row == [status |-> "created", changed |-> {}, vals |-> vals]
<1>1. row \in Row /\ row # NoRow
  BY NoRowAssumption DEF Row
<1>2. /\ writer = Nobody /\ id \notin used /\ used' = used \union {id}
      /\ store' = [store EXCEPT ![id] = row] /\ mem' = [mem EXCEPT ![id] = row]
      /\ UNCHANGED <<lastPulledAt, resetCount, writer, queue, sync, wire, remote>>
  BY DEF UserCreates
<1> HIDE DEF row
<1>3. /\ store' \in [Ids -> Row \cup {NoRow}] /\ mem' \in [Ids -> Row \cup {NoRow}]
      /\ mem'[id] = row /\ \A x \in Ids : x # id => store'[x] = store[x] /\ mem'[x] = mem[x]
  BY <1>1, <1>2 DEF IInv, TypeOK
<1> QED BY <1>1, <1>2, <1>3, CallsStay, UserStepInv

LEMMA UserEditsInv ==
  ASSUME IInv, NEW id \in Ids, NEW c \in Columns, NEW v \in Values, UserEdits(id, c, v)
  PROVE  IInv'
<1> DEFINE row == setRawColumnChange(mem[id], c, v)
<1>1. id \in Live /\ mem[id] \in Row /\ store[id] # NoRow /\ id \in used
  BY DEF UserEdits, IInv, TypeOK, Rows, Live, IsLive, UsedIds
<1>2. row \in Row /\ row # NoRow
  <2>1. row \in Row
    BY <1>1 DEF setRawColumnChange, Row, Contents
  <2> QED BY <2>1, NoRowAssumption
<1>3. /\ writer = Nobody /\ mem' = [mem EXCEPT ![id] = row]
      /\ store' = [store EXCEPT ![id] = mem'[id]] \/ store' = store
      /\ UNCHANGED <<lastPulledAt, resetCount, writer, queue, sync, wire, remote, used>>
  BY DEF UserEdits
<1> HIDE DEF row
<1>4. /\ store' \in [Ids -> Row \cup {NoRow}] /\ mem' \in [Ids -> Row \cup {NoRow}]
      /\ mem'[id] = row /\ \A x \in Ids : x # id => store'[x] = store[x] /\ mem'[x] = mem[x]
  BY <1>2, <1>3 DEF IInv, TypeOK
<1> QED BY <1>1, <1>2, <1>3, <1>4, CallsStay, UserStepInv

LEMMA UserDeletesInv ==
  ASSUME IInv, NEW id \in Ids, UserDeletes(id)
  PROVE  IInv'
<1>1. /\ id \in Live /\ store[id] \in Row /\ mem[id] \in Row /\ store[id] # NoRow /\ id \in used
      /\ writer = Nobody
      /\ UNCHANGED <<lastPulledAt, resetCount, writer, queue, wire, remote, used>>
  BY DEF UserDeletes, IInv, TypeOK, Rows, Live, IsLive, UsedIds
<1>2. CASE /\ store' = [store EXCEPT ![id].status = "deleted"]
           /\ mem' = [mem EXCEPT ![id] = NoRow] /\ sync' = Forget({id})
  <2>1. [store[id] EXCEPT !.status = "deleted"] \in Row /\ [store[id] EXCEPT !.status = "deleted"].status = "deleted"
    BY <1>1 DEF Row
  <2>2. store'[id] = [store[id] EXCEPT !.status = "deleted"]
    BY <1>2 DEF IInv, TypeOK
  <2>3. /\ store' \in [Ids -> Row \cup {NoRow}] /\ mem' \in [Ids -> Row \cup {NoRow}]
        /\ \A x \in Ids : x # id => store'[x] = store[x] /\ mem'[x] = mem[x]
    BY <1>2, <2>1 DEF IInv, TypeOK
  <2>4. ~IsLive(store'[id])
    BY <2>1, <2>2 DEF IsLive
  <2>5. /\ sync' \in [Sessions -> Call]
        /\ \A t \in Sessions : /\ sync'[t] = [sync[t] EXCEPT !.copies = sync'[t].copies]
                               /\ DOMAIN sync'[t].copies \subseteq DOMAIN sync[t].copies
    BY <1>2, Forgotten DEF Forget
  <2> QED BY <1>1, <2>3, <2>4, <2>5, UserStepInv
<1>3. CASE /\ mem' = [mem EXCEPT ![id].status = "deleted"] /\ UNCHANGED <<store, sync>>
  <2>1. [mem[id] EXCEPT !.status = "deleted"] \in Row
    BY <1>1 DEF Row
  <2>2. /\ store' \in [Ids -> Row \cup {NoRow}] /\ mem' \in [Ids -> Row \cup {NoRow}]
        /\ \A x \in Ids : x # id => store'[x] = store[x] /\ mem'[x] = mem[x]
        /\ mem'[id] # NoRow
    BY <1>3, <2>1, NoRowAssumption DEF IInv, TypeOK
  <2> QED BY <1>1, <1>3, <2>2, CallsStay, UserStepInv
<1> QED BY <1>2, <1>3 DEF UserDeletes

-----------------------------------------------------------------------------
(* Every step of Next keeps the invariant.                                 *)
LEMMA StepInv ==
  ASSUME IInv, [Next]_vars
  PROVE  IInv'
<1>1. ASSUME NEW s \in Sessions, Start(s) \/ SessionStep(s)
      PROVE  IInv'
  BY ONLY IInv, <1>1, StartInv, ServerAnswersPullInv, PullArrivesInv, ApplyRemoteChangesInv, ApplyBatchInv,
     SetLastPulledAtInv, FetchLocalChangesInv, PushAnsweredInv, MarkLocalChangesAsSyncedInv,
     MarkBatchInv, MarkDestroysInv DEF SessionStep
<1>2. ASSUME NEW request \in wire, ServerHandlesPush(request) \/ RequestIsLost(request)
      PROVE  IInv'
  BY ONLY IInv, <1>2, ServerHandlesPushInv, RequestIsLostInv
<1>3. ASSUME UserStep
      PROVE  IInv'
  BY ONLY IInv, <1>3, UserCreatesInv, UserEditsInv, UserDeletesInv DEF UserStep
<1>4. ASSUME NEW s \in Sessions, PullFails(s) \/ PushFails(s) \/ ApplyBatchFails(s) \/ MarkBatchFails(s)
      PROVE  IInv'
  BY ONLY IInv, <1>4, PullFailsInv, PushFailsInv, ApplyBatchFailsInv, MarkBatchFailsInv
<1>5. ASSUME NEW id \in Ids, RemoteDeletes(id) \/ \E vals \in Contents : RemoteWrites(id, vals)
      PROVE  IInv'
  BY ONLY IInv, <1>5, RemoteDeletesInv, RemoteWritesInv
<1>6. ASSUME Crash \/ ResetBegins \/ ResetEnds
      PROVE  IInv'
  BY ONLY IInv, <1>6, CrashInv, ResetBeginsInv, ResetEndsInv
<1>7. ASSUME UNCHANGED vars
      PROVE  IInv'
  <2>1. UNCHANGED <<db, resetCount, writer, queue, sync, wire, server, clock, used>>
    BY <1>7 DEF vars, remote, ghosts
  <2> QED BY <2>1, OutsideStep DEF IInv, TypeOK, UsedIds
<1> QED BY ONLY [Next]_vars, <1>1, <1>2, <1>3, <1>4, <1>5, <1>6, <1>7 DEF Next, WorldStep

(* The invariant holds always.                                             *)
THEOREM Invariant == Spec => []IInv
<1>1. IInv /\ [Next]_vars => IInv'
  BY StepInv
<1> QED BY InitInv, <1>1, PTL DEF Spec

(* The type invariant, for any number of calls, ids and columns.           *)
THEOREM TypeCorrect == Spec => []TypeOK
<1>1. IInv => TypeOK
  BY DEF IInv
<1> QED BY <1>1, Invariant, PTL

-----------------------------------------------------------------------------
(* The steps that change the rows or the time of the last pull.            *)
LEMMA WhoWrites ==
  ASSUME IInv, [Next]_vars
  PROVE  /\ \/ UNCHANGED lastPulledAt \/ ResetEnds
            \/ \E s \in Sessions : SetLastPulledAt(s)
         /\ \/ UNCHANGED store \/ writer = Nobody \/ ResetEnds
            \/ \E s \in Sessions : ApplyBatch(s) \/ MarkBatch(s) \/ MarkDestroys(s)
<1> USE DEF db, HasItsTurn
<1>1. ASSUME NEW s \in Sessions, Start(s)
      PROVE  UNCHANGED <<store, lastPulledAt>>
  BY <1>1 DEF Start
<1>2. ASSUME NEW s \in Sessions, SessionStep(s)
      PROVE  /\ UNCHANGED lastPulledAt \/ SetLastPulledAt(s)
             /\ UNCHANGED store \/ writer = Nobody \/ ApplyBatch(s) \/ MarkBatch(s) \/ MarkDestroys(s)
  <2>1. ASSUME NEW strategy \in Strategies, ServerAnswersPull(s, strategy)
        PROVE  UNCHANGED <<store, lastPulledAt>>
    BY <2>1 DEF ServerAnswersPull
  <2>2. PullArrives(s) \/ FetchLocalChanges(s) \/ PushAnswered(s) => UNCHANGED <<store, lastPulledAt>>
    BY DEF PullArrives, FetchLocalChanges, PushAnswered
  <2>3. ApplyRemoteChanges(s) => writer = Nobody /\ UNCHANGED lastPulledAt
    BY DEF ApplyRemoteChanges
  <2>4. MarkLocalChangesAsSynced(s) => UNCHANGED <<store, lastPulledAt>>
    BY DEF MarkLocalChangesAsSynced
  <2>5. SetLastPulledAt(s) => UNCHANGED store
    BY DEF SetLastPulledAt
  <2>6. ApplyBatch(s) \/ MarkBatch(s) \/ MarkDestroys(s) => UNCHANGED lastPulledAt
    BY DEF ApplyBatch, MarkBatch, MarkDestroys
  <2> QED BY ONLY <1>2, <2>1, <2>2, <2>3, <2>4, <2>5, <2>6 DEF SessionStep
<1>3. ASSUME NEW request \in wire, ServerHandlesPush(request) \/ RequestIsLost(request)
      PROVE  UNCHANGED <<store, lastPulledAt>>
  BY <1>3 DEF ServerHandlesPush, RequestIsLost
<1>4. UserStep => writer = Nobody /\ UNCHANGED lastPulledAt
  BY DEF UserStep, UserCreates, UserEdits, UserDeletes
<1>5. ASSUME NEW s \in Sessions, PullFails(s) \/ PushFails(s) \/ ApplyBatchFails(s) \/ MarkBatchFails(s)
      PROVE  UNCHANGED <<store, lastPulledAt>>
  BY <1>5 DEF PullFails, PushFails, ApplyBatchFails, MarkBatchFails
<1>6. ASSUME NEW id \in Ids, RemoteDeletes(id) \/ \E vals \in Contents : RemoteWrites(id, vals)
      PROVE  UNCHANGED <<store, lastPulledAt>>
  BY <1>6 DEF RemoteDeletes, RemoteWrites
<1>7. Crash \/ ResetBegins => UNCHANGED <<store, lastPulledAt>>
  BY DEF Crash, ResetBegins
<1>8. UNCHANGED vars => UNCHANGED <<store, lastPulledAt>>
  BY DEF vars
<1> QED BY ONLY [Next]_vars, <1>1, <1>2, <1>3, <1>4, <1>5, <1>6, <1>7, <1>8 DEF Next, WorldStep

(* The time of the last pull goes back only when the database is reset,    *)
(* however many calls overlap.                                             *)
THEOREM PulledAtAdvances == Spec => PulledAtOnlyAdvances
<1>1. IInv /\ [Next]_vars => (lastPulledAt' >= lastPulledAt \/ (writer = Resetter /\ lastPulledAt' = 0))
  <2> SUFFICES ASSUME IInv, [Next]_vars
               PROVE  lastPulledAt' >= lastPulledAt \/ (writer = Resetter /\ lastPulledAt' = 0)
    OBVIOUS
  <2>1. CASE UNCHANGED lastPulledAt
    BY <2>1 DEF IInv, TypeOK
  <2>2. CASE ResetEnds
    BY <2>2 DEF ResetEnds
  <2>3. ASSUME NEW s \in Sessions, SetLastPulledAt(s)
        PROVE  lastPulledAt' >= lastPulledAt
    <3>1. sync[s].phase = "stamping" /\ lastPulledAt' = sync[s].pull.timestamp
      BY <2>3 DEF SetLastPulledAt, pulledAt
    <3>2. sync[s].since = lastPulledAt /\ sync[s].since <= sync[s].pull.timestamp
      BY <3>1 DEF IInv, Times, Timely, Answered
    <3> QED BY <3>1, <3>2 DEF IInv, TypeOK
  <2> QED BY <2>1, <2>2, <2>3, WhoWrites
<1>2. [][Next]_vars /\ []IInv
        => [][lastPulledAt' >= lastPulledAt \/ (writer = Resetter /\ lastPulledAt' = 0)]_vars
  BY <1>1, PTL
<1> QED BY <1>2, Invariant, PTL DEF Spec, PulledAtOnlyAdvances

(* A call from before a reset changes nothing in the database after it.    *)
THEOREM OldCallsEnd == Spec => ResetEndsOldCalls
<1> DEFINE Harmless == \A s \in Sessions : writer = s /\ sync[s].resets # resetCount =>
                         UNCHANGED <<store, lastPulledAt>>
<1>1. ASSUME IInv, [Next]_vars, NEW s \in Sessions, writer = s, Old(sync[s])
      PROVE  UNCHANGED <<store, lastPulledAt>>
  <2>1. ~ResetEnds /\ writer # Nobody
    BY <1>1, NoCallHas DEF ResetEnds
  <2>2. sync[s].phase \notin {"applying", "stamping"} /\ Fits(sync[s])
    BY <1>1 DEF IInv, Times, Timely, Rows
  <2>3. \A t \in Sessions : sync[t].phase \in Inside => t = s
    BY <1>1 DEF IInv, Queue
  <2>4. UNCHANGED lastPulledAt
    BY <1>1, <2>1, <2>2, <2>3, WhoWrites DEF SetLastPulledAt, Inside
  <2>5. store = [id \in Ids |-> store[id]]
    BY <1>1 DEF IInv, TypeOK
  <2>6. ASSUME MarkBatch(s) PROVE UNCHANGED store
    <3>1. /\ sync[s].phase = "marking"
          /\ store' = [id \in Ids |-> IF id \in sync[s].update /\ store[id] # NoRow
                                      THEN Marked(sync[s].copies[id]) ELSE store[id]]
      BY <2>6 DEF MarkBatch
    <3>2. \A id \in Ids : id \in sync[s].update => store[id] = NoRow
      BY <1>1, <2>2, <3>1 DEF Fits, FitsIn, Marks
    <3> QED BY <2>5, <3>1, <3>2
  <2>7. ASSUME MarkDestroys(s) PROVE UNCHANGED store
    <3>1. /\ sync[s].phase = "destroying"
          /\ store' = [id \in Ids |-> IF id \in toDestroy(s) THEN NoRow ELSE store[id]]
      BY <2>7 DEF MarkDestroys
    <3>2. \A id \in Ids : id \in toDestroy(s) => store[id] = NoRow
      BY <1>1, <2>2, <3>1 DEF Fits, FitsIn, Marks, toDestroy
    <3> QED BY <2>5, <3>1, <3>2
  <2>8. \A t \in Sessions : ~ApplyBatch(t) /\ (MarkBatch(t) \/ MarkDestroys(t) => t = s)
    BY <2>2, <2>3 DEF ApplyBatch, MarkBatch, MarkDestroys, Inside
  <2>9. UNCHANGED store
    BY <1>1, <2>1, <2>6, <2>7, <2>8, WhoWrites
  <2> QED BY <2>4, <2>9
<1>2. IInv /\ [Next]_vars => Harmless
  BY <1>1 DEF Old
<1>3. [][Next]_vars /\ []IInv => [][Harmless]_vars
  BY <1>2, PTL
<1> QED BY <1>3, Invariant, PTL DEF Spec, ResetEndsOldCalls

-----------------------------------------------------------------------------
(* Memory and store, when calls do not overlap and no batch is rejected.   *)
OneCall      == \A s, t \in Sessions : s = t
NothingFails == {"editFails", "applyFails", "markFails"} \cap Disturbed = {}

Pushing == {"pushing", "answered"} \cup Marks

Agrees(row, model) == model = IF IsLive(row) THEN row ELSE NoRow
Agree == \A id \in Ids : Agrees(store[id], mem[id])

(* How far the two are apart inside of a block, and what is destroyed last.*)
Apart(call, rows, models) ==
  /\ call.phase = "applying" => call.insert \cap call.update = {}
  /\ call.phase = "applying" => \A id \in Ids \ call.insert :
       /\ id \in call.update => models[id] # NoRow /\ IsLive(models[id])
       /\ id \notin call.update \cup call.destroy => Agrees(rows[id], models[id])
  /\ call.phase \in {"stamping", "destroying"} => \A id \in Ids : Agrees(rows[id], models[id])
  /\ call.phase = "marking" => \A id \in Ids :
       IF id \in call.update
       THEN \/ rows[id] = NoRow /\ models[id] = NoRow
            \/ IsLive(rows[id]) /\ models[id] = Marked(call.copies[id])
       ELSE Agrees(rows[id], models[id])
  /\ call.phase \in Pushing => \A id \in call.pushedDeleted : Old(call) \/ ~IsLive(rows[id])

Memory ==
  /\ (\A s \in Sessions : sync[s].phase \notin Inside) => Agree
  /\ \A s \in Sessions : Apart(sync[s], store, mem)

LEMMA NoRowAgrees == Agrees(NoRow, NoRow)
BY DEF Agrees, IsLive

LEMMA MemoryKept ==
  ASSUME IInv, Memory, OneCall, NEW s \in Sessions, NEW state, Become(s, state),
         UNCHANGED <<store, mem, resetCount>>, Agree, state.phase \notin Inside,
         state.phase \in Pushing => \A id \in state.pushedDeleted : Old(state) \/ ~IsLive(store[id])
  PROVE  Memory'
<1>1. \A t \in Sessions : sync'[t] = state
  BY BecomeKeeps DEF OneCall
<1> QED BY <1>1 DEF Memory, Agree, Apart, Inside, Old

LEMMA OutsideAgree ==
  ASSUME IInv, Memory, OneCall, NEW s \in Sessions
  PROVE  sync[s].phase \notin Inside => Agree
BY DEF Memory, OneCall

LEMMA CallMemory ==
  ASSUME IInv, Memory, OneCall, NEW s \in Sessions,
         \/ Start(s) \/ (\E strategy \in Strategies : ServerAnswersPull(s, strategy))
         \/ PullArrives(s) \/ SetLastPulledAt(s) \/ FetchLocalChanges(s) \/ PushAnswered(s)
         \/ PullFails(s) \/ PushFails(s)
  PROVE  Memory'
<1> USE DEF db
<1>1. sync[s] \in Call /\ Idle.phase = "idle"
  BY DEF IInv, TypeOK, Idle
<1>2. ASSUME NEW phase \in {"applyQueued", "fetchQueued"}, Become(s, [sync[s] EXCEPT !.phase = phase]),
             UNCHANGED <<store, mem, resetCount>>, Agree
      PROVE  Memory'
  <2> DEFINE state == [sync[s] EXCEPT !.phase = phase]
  <2>1. state.phase = phase
    BY <1>1 DEF Call
  <2> HIDE DEF state
  <2> QED BY <1>2, <2>1, MemoryKept DEF Inside, Pushing, Marks, state
<1>3. ASSUME Become(s, Idle), UNCHANGED <<store, mem, resetCount>>, sync[s].phase \notin Inside
      PROVE  Memory'
  BY <1>1, <1>3, MemoryKept, OutsideAgree DEF Inside, Pushing, Marks
<1>4. CASE Start(s)
  <2> DEFINE state == [Idle EXCEPT !.phase = "pulling", !.resets = resetCount, !.since = lastPulledAt]
  <2>1. /\ Become(s, state) /\ sync[s].phase = "idle" /\ UNCHANGED <<store, mem, resetCount>>
    BY <1>4 DEF Start
  <2>2. state.phase = "pulling"
    BY IdleIsACall DEF Call
  <2> HIDE DEF state
  <2> QED BY <2>1, <2>2, MemoryKept, OutsideAgree DEF Inside, Pushing, Marks
<1>5. ASSUME NEW strategy \in Strategies, ServerAnswersPull(s, strategy)
      PROVE  Memory'
  <2>1. PICK state : /\ Become(s, state) /\ state.phase = "pulled"
                     /\ sync[s].phase = "pulling" /\ UNCHANGED <<store, mem, resetCount>>
    <3>1. sync[s].phase = "pulling" /\ UNCHANGED <<store, mem, resetCount>>
      BY <1>5 DEF ServerAnswersPull
    <3>2. \E pull : Become(s, [sync[s] EXCEPT !.phase = "pulled", !.pull = pull])
      BY <1>5 DEF ServerAnswersPull
    <3>3. \A pull : [sync[s] EXCEPT !.phase = "pulled", !.pull = pull].phase = "pulled"
      BY <1>1 DEF Call
    <3> QED BY <3>1, <3>2, <3>3
  <2> QED BY <2>1, MemoryKept, OutsideAgree DEF Inside, Pushing, Marks
<1>6. CASE PullArrives(s)
  BY <1>2, <1>6, OutsideAgree DEF PullArrives, Inside
<1>7. CASE SetLastPulledAt(s)
  <2>1. sync[s].phase = "stamping"
    BY <1>7 DEF SetLastPulledAt
  <2>2. Agree
    BY <2>1 DEF Memory, Apart, Agree
  <2> QED BY <1>2, <1>7, <2>2 DEF SetLastPulledAt
<1>8. CASE FetchLocalChanges(s)
  <2> DEFINE state == [sync[s] EXCEPT !.phase = "pushing", !.copies = Only(mem, unsynced),
                                      !.pushedDeleted = LocallyDeleted]
  <2>1. /\ sync[s].phase = "fetchQueued" /\ UNCHANGED <<store, mem, resetCount>>
        /\ Become(s, state) \/ Become(s, Idle)
    BY <1>8 DEF FetchLocalChanges
  <2>2. state.phase = "pushing" /\ state.pushedDeleted = LocallyDeleted
    BY <1>1 DEF Call
  <2> HIDE DEF state
  <2>3. \A id \in LocallyDeleted : ~IsLive(store[id])
    BY DEF LocallyDeleted
  <2>4. CASE Become(s, state)
    BY <2>1, <2>2, <2>3, <2>4, MemoryKept, OutsideAgree DEF Inside
  <2> QED BY <1>3, <2>1, <2>4 DEF Inside
<1>9. CASE PushAnswered(s)
  <2> DEFINE state == [sync[s] EXCEPT !.phase = "markQueued"]
  <2>1. /\ sync[s].phase = "answered" /\ UNCHANGED <<store, mem, resetCount>>
        /\ Become(s, state) \/ Become(s, Idle)
    BY <1>9 DEF PushAnswered
  <2>2. /\ state.phase = "markQueued" /\ state.pushedDeleted = sync[s].pushedDeleted
        /\ state.resets = sync[s].resets
    BY <1>1 DEF Call
  <2> HIDE DEF state
  <2>3. \A id \in sync[s].pushedDeleted : Old(sync[s]) \/ ~IsLive(store[id])
    BY <2>1 DEF Memory, Apart, Pushing
  <2>4. CASE Become(s, state)
    BY <2>1, <2>2, <2>3, <2>4, MemoryKept, OutsideAgree DEF Inside, Old
  <2> QED BY <1>3, <2>1, <2>4 DEF Inside
<1>10. CASE PullFails(s) \/ PushFails(s)
  BY <1>3, <1>10 DEF PullFails, PushFails, Inside
<1> QED BY <1>4, <1>5, <1>6, <1>7, <1>8, <1>9, <1>10

(* A step of the one call that there is.                                   *)
LEMMA BlockMemory ==
  ASSUME IInv, OneCall, NEW s \in Sessions, NEW state, Become(s, state), UNCHANGED resetCount,
         state.phase \notin Inside => \A id \in Ids : Agrees(store'[id], mem'[id]),
         Apart(state, store', mem')
  PROVE  Memory'
<1>1. \A t \in Sessions : sync'[t] = state
  BY BecomeKeeps DEF OneCall
<1> QED BY <1>1 DEF Memory, Agree, Apart, Old

LEMMA ApplyRemoteChangesMemory ==
  ASSUME IInv, Memory, OneCall, NEW s \in Sessions, ApplyRemoteChanges(s)
  PROVE  Memory'
<1> DEFINE pull  == sync[s].pull
           state == [sync[s] EXCEPT !.phase = "applying", !.insert = toInsert(pull),
                       !.update = toUpdate(pull), !.destroy = gone(pull) \cap Live]
<1>1. sync[s].phase = "applyQueued" /\ UNCHANGED resetCount /\ sync[s] \in Call
  BY DEF ApplyRemoteChanges, IInv, TypeOK
<1>2. Agree
  BY <1>1, OutsideAgree DEF Inside
<1>3. CASE ~mayApply(s)
  <2>1. Become(s, Idle) /\ UNCHANGED <<store, mem>>
    BY <1>3 DEF ApplyRemoteChanges
  <2>2. Idle.phase = "idle"
    BY DEF Idle
  <2> QED BY <1>1, <1>2, <2>1, <2>2, MemoryKept DEF Inside, Pushing, Marks
<1>4. CASE mayApply(s)
  <2>1. /\ Become(s, state)
        /\ store' = [id \in Ids |->
             IF id \in (gone(pull) \cap LocallyDeleted) \union recreated(pull)
             THEN NoRow ELSE store[id]]
        /\ mem' = [id \in Ids |->
             CASE id \in toUpdate(pull) -> resolveConflict(mem[id], pull.rows[id])
               [] id \in gone(pull) \cap Live -> [mem[id] EXCEPT !.status = "deleted"]
               [] OTHER -> mem[id]]
    BY <1>4 DEF ApplyRemoteChanges
  <2>2. /\ state.phase = "applying" /\ state.insert = toInsert(pull) /\ state.update = toUpdate(pull)
        /\ state.destroy = gone(pull) \cap Live
    BY ONLY <1>1 DEF Call, Phases
  <2>3. pull.deleted \cap DOMAIN pull.rows = {}
    BY DEF IInv, Rows, Fits, FitsIn
  <2> HIDE DEF pull, state
  <2>4. /\ toUpdate(pull) \subseteq DOMAIN pull.rows \cap Live /\ toInsert(pull) \cap Live = {}
        /\ gone(pull) \cap DOMAIN pull.rows = {}
    BY <2>3 DEF toUpdate, toInsert, recreated, gone, Live, LocallyDeleted, IsLive
  <2>5. ASSUME NEW id \in Ids \ toInsert(pull), id \in toUpdate(pull)
        PROVE  mem'[id] # NoRow /\ IsLive(mem'[id])
    <3>1. id \in Live /\ id \notin gone(pull)
      BY <2>4, <2>5
    <3>2. mem'[id] = resolveConflict(mem[id], pull.rows[id])
      BY <2>1, <2>5, <3>1
    <3>3. mem[id] = store[id] /\ mem[id] \in Row /\ mem[id].status # "deleted"
      BY <1>2, <3>1 DEF Agree, Agrees, Live, IsLive, IInv, TypeOK
    <3>4. resolveConflict(mem[id], pull.rows[id]).status = mem[id].status
      BY ONLY <3>3 DEF resolveConflict, Row
    <3>5. resolveConflict(mem[id], pull.rows[id]) # NoRow
      <4>1. sync[s].pull.rows \in Snapshots(Contents)
        BY <1>1 DEF Call, Pull
      <4>2. pull.rows[id] \in Contents
        BY <2>4, <2>5, <4>1, SnapshotElim DEF pull
      <4>3. resolveConflict(mem[id], pull.rows[id]) \in Row
        BY ONLY <3>3, <4>2 DEF resolveConflict, Row, Contents
      <4> QED BY <4>3, NoRowAssumption
    <3> QED BY <3>2, <3>3, <3>4, <3>5 DEF IsLive
  <2>6. ASSUME NEW id \in Ids \ toInsert(pull), id \notin toUpdate(pull) \cup (gone(pull) \cap Live)
        PROVE  Agrees(store'[id], mem'[id])
    <3>1. mem'[id] = mem[id]
      BY <2>1, <2>6
    <3>2. store'[id] = store[id] \/ (store'[id] = NoRow /\ ~IsLive(store[id]))
      BY <2>1 DEF recreated, LocallyDeleted
    <3> QED BY <1>2, <3>1, <3>2 DEF Agree, Agrees, IsLive
  <2>7. Apart(state, store', mem')
    BY <2>2, <2>4, <2>5, <2>6 DEF Apart, Pushing, Marks
  <2> QED BY <1>1, <2>1, <2>2, <2>7, BlockMemory DEF Inside
<1> QED BY <1>3, <1>4

LEMMA ApplyBatchMemory ==
  ASSUME IInv, Memory, OneCall, NEW s \in Sessions, ApplyBatch(s)
  PROVE  Memory'
<1> DEFINE rec   == sync[s]
           state == [Forget(rec.destroy)[s] EXCEPT !.phase = "stamping",
                       !.insert = {}, !.update = {}, !.destroy = {}]
<1>1. /\ rec.phase = "applying" /\ mem' = cacheAfter(rec) /\ UNCHANGED resetCount
      /\ store' = [id \in Ids |-> CASE id \in rec.insert  -> Pulled(rec.pull.rows[id])
                                    [] id \in rec.update  -> mem[id]
                                    [] id \in rec.destroy -> NoRow
                                    [] OTHER              -> store[id]]
      /\ sync' = [Forget(rec.destroy) EXCEPT ![s] = state]
  BY DEF ApplyBatch
<1>2. sync'[s] = state /\ state.phase = "stamping"
  <2>1. Forget(rec.destroy) \in [Sessions -> Call]
    BY Forgotten DEF Forget
  <2>2. Forget(rec.destroy)[s] \in Call
    BY <2>1
  <2>3. state.phase = "stamping"
    BY ONLY <2>2 DEF Call
  <2> HIDE DEF state
  <2> QED BY <1>1, <2>1, <2>3
<1> HIDE DEF state
<1>3. /\ rec.insert \cap rec.update = {} /\ (rec.insert \cup rec.update) \cap rec.destroy = {}
      /\ \A id \in Ids \ rec.insert :
           /\ id \in rec.update => mem[id] # NoRow /\ IsLive(mem[id])
           /\ id \notin rec.update \cup rec.destroy => Agrees(store[id], mem[id])
  BY <1>1 DEF Memory, Apart, IInv, Rows, Fits, FitsIn
<1>4. ASSUME NEW id \in Ids
      PROVE  Agrees(store'[id], mem'[id])
  <2>1. CASE id \in rec.insert
    <3>1. store'[id] = Pulled(rec.pull.rows[id]) /\ mem'[id] = store'[id]
      BY <1>1, <1>3, <2>1 DEF cacheAfter
    <3>2. rec.pull.rows[id] \in Contents
      <4>1. rec.pull.rows \in Snapshots(Contents) /\ rec.insert \subseteq DOMAIN rec.pull.rows
        BY <1>1 DEF IInv, TypeOK, Call, Pull, Rows, Fits, FitsIn
      <4> QED BY <2>1, <4>1, SnapshotElim
    <3>3. IsLive(Pulled(rec.pull.rows[id]))
      BY <3>2, NoRowAssumption DEF IsLive, Pulled, Row
    <3> QED BY <3>1, <3>3 DEF Agrees
  <2>2. CASE id \in rec.update
    <3>1. store'[id] = mem[id] /\ mem'[id] = mem[id]
      BY <1>1, <1>3, <2>2 DEF cacheAfter
    <3> QED BY <1>3, <2>2, <3>1 DEF Agrees
  <2>3. CASE id \in rec.destroy
    <3>1. store'[id] = NoRow /\ mem'[id] = NoRow
      BY <1>1, <1>3, <2>3 DEF cacheAfter
    <3> QED BY <3>1, NoRowAgrees
  <2>4. CASE id \notin rec.insert \cup rec.update \cup rec.destroy
    <3>1. store'[id] = store[id] /\ mem'[id] = mem[id]
      BY <1>1, <2>4 DEF cacheAfter
    <3> QED BY <1>3, <2>4, <3>1
  <2> QED BY <2>1, <2>2, <2>3, <2>4
<1>5. \A t \in Sessions : sync'[t].phase = "stamping"
  BY <1>2 DEF OneCall
<1> QED BY <1>4, <1>5 DEF Memory, Agree, Apart, Inside, Pushing, Marks

LEMMA MarkLocalChangesAsSyncedMemory ==
  ASSUME IInv, Memory, OneCall, NEW s \in Sessions, MarkLocalChangesAsSynced(s)
  PROVE  Memory'
<1> DEFINE marks == recordsToMarkAsSynced(s)
           state == [sync[s] EXCEPT !.phase = "marking", !.update = marks]
<1>1. /\ sync[s].phase = "markQueued" /\ Become(s, state)
      /\ mem' = [id \in Ids |-> IF id \in marks /\ mem[id] # NoRow THEN Marked(mem[id]) ELSE mem[id]]
      /\ UNCHANGED <<store, resetCount>>
  BY DEF MarkLocalChangesAsSynced
<1>2. /\ marks \subseteq DOMAIN sync[s].copies /\ sync[s].copies \in Snapshots(Row)
      /\ ~Old(sync[s]) => \A id \in marks : mem[id] = sync[s].copies[id]
  BY DEF recordsToMarkAsSynced, Old, IInv, TypeOK, Call
<1> HIDE DEF marks
<1>3. /\ state.phase = "marking" /\ state.update = marks /\ state.copies = sync[s].copies
      /\ state.pushedDeleted = sync[s].pushedDeleted /\ state.resets = sync[s].resets
  <2>1. sync[s] \in Call
    BY DEF IInv, TypeOK
  <2> QED BY ONLY <2>1 DEF Call
<1> HIDE DEF state
<1>4. /\ Agree
      /\ \A id \in sync[s].pushedDeleted : Old(sync[s]) \/ ~IsLive(store[id])
      /\ Old(sync[s]) => \A id \in DOMAIN sync[s].copies : store[id] = NoRow
  BY <1>1, OutsideAgree DEF Memory, Apart, Pushing, Marks, Inside, IInv, Rows, Fits, FitsIn
<1>5. ASSUME NEW id \in Ids, id \in marks
      PROVE  \/ store[id] = NoRow /\ mem'[id] = NoRow
             \/ IsLive(store[id]) /\ mem'[id] = Marked(state.copies[id])
  <2>1. Agrees(store[id], mem[id])
    BY <1>4 DEF Agree
  <2>2. CASE Old(sync[s])
    BY <1>1, <1>2, <1>4, <1>5, <2>1, <2>2 DEF Agrees, IsLive
  <2>3. CASE ~Old(sync[s])
    <3>1. mem[id] = sync[s].copies[id] /\ mem[id] # NoRow
      BY <1>2, <1>5, <2>3, SnapshotElim, NoRowAssumption
    <3> QED BY <1>1, <1>3, <1>5, <2>1, <3>1 DEF Agrees
  <2> QED BY <2>2, <2>3
<1>6. \A id \in Ids \ marks : Agrees(store[id], mem'[id])
  BY <1>1, <1>4 DEF Agree
<1>7. Apart(state, store', mem')
  BY <1>1, <1>3, <1>4, <1>5, <1>6 DEF Apart, Old
<1> QED BY <1>1, <1>3, <1>7, BlockMemory DEF Inside

LEMMA MarkBatchMemory ==
  ASSUME IInv, Memory, OneCall, NEW s \in Sessions, MarkBatch(s)
  PROVE  Memory'
<1> DEFINE state == [sync[s] EXCEPT !.phase = "destroying", !.update = {}]
<1>1. /\ sync[s].phase = "marking" /\ Become(s, state)
      /\ store' = [id \in Ids |-> IF id \in sync[s].update /\ store[id] # NoRow
                                  THEN Marked(sync[s].copies[id]) ELSE store[id]]
      /\ UNCHANGED <<mem, resetCount>>
  BY DEF MarkBatch
<1>2. /\ state.phase = "destroying" /\ state.pushedDeleted = sync[s].pushedDeleted
      /\ state.resets = sync[s].resets
  BY DEF Call, IInv, TypeOK
<1> HIDE DEF state
<1>3. /\ \A id \in Ids :
            IF id \in sync[s].update
            THEN \/ store[id] = NoRow /\ mem[id] = NoRow
                 \/ IsLive(store[id]) /\ mem[id] = Marked(sync[s].copies[id])
            ELSE Agrees(store[id], mem[id])
      /\ \A id \in sync[s].pushedDeleted : Old(sync[s]) \/ ~IsLive(store[id])
  BY <1>1 DEF Memory, Apart, Pushing, Marks
<1>4. \A id \in sync[s].update : IsLive(Marked(sync[s].copies[id]))
  <2>1. sync[s].update \subseteq DOMAIN sync[s].copies /\ sync[s].copies \in Snapshots(Row)
    BY <1>1 DEF IInv, Rows, Fits, FitsIn, TypeOK, Call
  <2>2. \A id \in sync[s].update : sync[s].copies[id] \in Row
    BY <2>1, SnapshotElim
  <2>3. \A row \in Row : Marked(row) \in Row /\ Marked(row).status = "synced"
    BY DEF Marked, Row
  <2> QED BY <2>2, <2>3, NoRowAssumption DEF IsLive
<1>5. \A id \in Ids : Agrees(store'[id], mem'[id])
  BY <1>1, <1>3, <1>4 DEF Agrees, IsLive
<1>6. \A id \in sync[s].pushedDeleted : Old(sync[s]) \/ ~IsLive(store'[id])
  <2>1. sync[s].pushedDeleted \subseteq Ids
    BY DEF IInv, TypeOK, Call
  <2> QED BY <1>1, <1>3, <2>1 DEF IsLive
<1>7. Apart(state, store', mem')
  BY <1>2, <1>5, <1>6 DEF Apart, Old
<1> QED BY <1>1, <1>2, <1>7, BlockMemory DEF Inside

LEMMA MarkDestroysMemory ==
  ASSUME IInv, Memory, OneCall, NEW s \in Sessions, MarkDestroys(s)
  PROVE  Memory'
<1>1. /\ sync[s].phase = "destroying" /\ Become(s, Idle) /\ UNCHANGED <<mem, resetCount>>
      /\ store' = [id \in Ids |-> IF id \in toDestroy(s) THEN NoRow ELSE store[id]]
  BY DEF MarkDestroys
<1>2. /\ \A id \in Ids : Agrees(store[id], mem[id])
      /\ \A id \in sync[s].pushedDeleted : Old(sync[s]) \/ ~IsLive(store[id])
      /\ Old(sync[s]) => \A id \in sync[s].pushedDeleted : store[id] = NoRow
  BY <1>1 DEF Memory, Apart, Pushing, Marks, IInv, Rows, Fits, FitsIn
<1>3. \A id \in Ids : Agrees(store'[id], mem'[id])
  BY <1>1, <1>2 DEF Agrees, IsLive, toDestroy
<1>4. Apart(Idle, store', mem')
  BY DEF Idle, Apart, Pushing, Marks
<1> QED BY <1>1, <1>3, <1>4, BlockMemory

LEMMA ServerHandlesPushMemory ==
  ASSUME IInv, Memory, OneCall, NEW request \in wire, ServerHandlesPush(request)
  PROVE  Memory'
<1> DEFINE s == request.from
           state == [sync[s] EXCEPT !.phase = "answered", !.rejected = Conflicts(request)]
<1>1. s \in Sessions /\ sync[s] \in Call /\ UNCHANGED <<store, mem, resetCount>>
  BY DEF ServerHandlesPush, IInv, TypeOK, PushRequest, db
<1>2. sync' = sync \/ (request.awaited /\ (Become(s, Idle) \/ Become(s, state)))
  BY DEF ServerHandlesPush, Become
<1>3. CASE sync' = sync
  BY <1>1, <1>3 DEF Memory, Agree, Apart, Old
<1>4. CASE request.awaited /\ (Become(s, Idle) \/ Become(s, state))
  <2>1. sync[s].phase = "pushing"
    BY <1>4 DEF IInv, Wired
  <2>2. Agree /\ \A id \in sync[s].pushedDeleted : Old(sync[s]) \/ ~IsLive(store[id])
    BY <1>1, <2>1, OutsideAgree DEF Memory, Apart, Pushing, Inside
  <2>3. /\ state.phase = "answered" /\ state.pushedDeleted = sync[s].pushedDeleted
        /\ state.resets = sync[s].resets
    BY ONLY <1>1 DEF Call
  <2>4. Idle.phase = "idle"
    BY DEF Idle
  <2> HIDE DEF state, s
  <2>5. CASE Become(s, Idle)
    BY <1>1, <2>2, <2>4, <2>5, MemoryKept DEF Inside, Pushing, Marks
  <2>6. CASE Become(s, state)
    BY <1>1, <2>2, <2>3, <2>6, MemoryKept DEF Inside, Old
  <2> QED BY <1>4, <2>5, <2>6
<1> QED BY <1>2, <1>3, <1>4

LEMMA ResetMemory ==
  ASSUME IInv, Memory, ResetBegins \/ ResetEnds
  PROVE  Memory'
<1>1. \A t \in Sessions : sync[t].phase \notin Inside
  BY NoCallHas DEF ResetBegins, ResetEnds, IInv, Queue
<1>2. CASE ResetBegins
  <2>1. UNCHANGED <<store, mem, resetCount>> /\ \A t \in Sessions : sync'[t] \in {Idle, sync[t]}
    BY <1>2 DEF ResetBegins, queueAborted, db
  <2>2. Idle.phase = "idle"
    BY DEF Idle
  <2>3. \A t \in Sessions : Apart(sync'[t], store, mem)
    BY <2>1, <2>2 DEF Memory, Apart, Pushing, Marks
  <2> QED BY <1>1, <2>1, <2>3 DEF Memory, Agree, Apart, Old
<1>3. CASE ResetEnds
  <2>1. \A id \in Ids : store'[id] = NoRow /\ mem'[id] = NoRow
    BY <1>3 DEF ResetEnds
  <2>2. \A t \in Sessions : sync'[t].phase = sync[t].phase /\ sync'[t].pushedDeleted \subseteq Ids
    <3>1. ASSUME NEW t \in Sessions
          PROVE  \E c : sync'[t] = [sync[t] EXCEPT !.copies = c]
      BY <1>3 DEF ResetEnds
    <3>2. \A t \in Sessions : sync[t] \in Call
      BY DEF IInv, TypeOK
    <3> QED BY <3>1, <3>2 DEF Call
  <2> QED BY <1>1, <2>1, <2>2, NoRowAgrees DEF Memory, Agree, Apart, Inside, IsLive
<1> QED BY <1>2, <1>3

LEMMA CrashMemory ==
  ASSUME Crash
  PROVE  Memory'
<1>1. /\ \A s \in Sessions : sync'[s] = Idle
      /\ \A id \in Ids : Agrees(store'[id], mem'[id])
  BY DEF Crash, Agrees
<1>2. Idle.phase = "idle"
  BY DEF Idle
<1> QED BY <1>1, <1>2 DEF Memory, Agree, Apart, Pushing, Marks

(* A block of the user that leaves one row and its model in agreement.     *)
LEMMA UserMemory ==
  ASSUME IInv, Memory, writer = Nobody, NEW id \in Ids, UNCHANGED resetCount,
         \A x \in Ids : x # id => store'[x] = store[x] /\ mem'[x] = mem[x],
         Agrees(store'[id], mem'[id]),
         \A t \in Sessions : /\ sync'[t].phase = sync[t].phase /\ sync'[t].resets = sync[t].resets
                             /\ sync'[t].pushedDeleted = sync[t].pushedDeleted,
         IsLive(store'[id]) => IsLive(store[id]) \/ id \notin used
  PROVE  Memory'
<1>1. \A t \in Sessions : sync[t].phase \notin Inside /\ sync[t].pushedDeleted \subseteq used \cap Ids
  BY NoCallHas DEF IInv, TypeOK, Call, Queue, UsedIds, AllUsed
<1>2. Agree'
  BY <1>1 DEF Memory, Agree
<1>3. ASSUME NEW t \in Sessions, sync'[t].phase \in Pushing, NEW x \in sync'[t].pushedDeleted
      PROVE  Old(sync'[t]) \/ ~IsLive(store'[x])
  BY <1>1, <1>3 DEF Memory, Apart, Old
<1> QED BY <1>1, <1>2, <1>3 DEF Memory, Apart, Inside, Old

LEMMA UserStepMemory ==
  ASSUME IInv, Memory, NothingFails, UserStep
  PROVE  Memory'
<1>1. PICK id \in Ids : \/ \E vals \in Contents : UserCreates(id, vals)
                        \/ \E c \in Columns, v \in Values : UserEdits(id, c, v)
                        \/ UserDeletes(id)
  BY DEF UserStep
<1>2. store \in [Ids -> Row \cup {NoRow}] /\ mem \in [Ids -> Row \cup {NoRow}]
  BY DEF IInv, TypeOK
<1>3. "editFails" \notin Disturbed
  BY DEF NothingFails
<1>4. ASSUME NEW vals \in Contents, UserCreates(id, vals)
      PROVE  Memory'
  <2> DEFINE row == [status |-> "created", changed |-> {}, vals |-> vals]
  <2>1. /\ writer = Nobody /\ id \notin used /\ UNCHANGED <<resetCount, sync>>
        /\ store' = [store EXCEPT ![id] = row] /\ mem' = [mem EXCEPT ![id] = row]
    BY <1>4 DEF UserCreates
  <2>2. IsLive(row)
    BY NoRowAssumption DEF IsLive, Row
  <2> HIDE DEF row
  <2>3. /\ store'[id] = row /\ mem'[id] = row
        /\ \A x \in Ids : x # id => store'[x] = store[x] /\ mem'[x] = mem[x]
    BY <1>2, <2>1
  <2> QED BY <2>1, <2>2, <2>3, UserMemory DEF Agrees
<1>5. ASSUME NEW c \in Columns, NEW v \in Values, UserEdits(id, c, v)
      PROVE  Memory'
  <2> DEFINE row == setRawColumnChange(mem[id], c, v)
  <2>1. /\ writer = Nobody /\ id \in Live /\ UNCHANGED <<resetCount, sync>>
        /\ mem[id].status # "deleted"
        /\ mem' = [mem EXCEPT ![id] = row] /\ store' = [store EXCEPT ![id] = mem'[id]]
    BY <1>3, <1>5 DEF UserEdits
  <2>2. mem[id] \in Row
    BY <1>2, <2>1 DEF IInv, Rows
  <2>3. IsLive(row)
    <3>1. row \in Row /\ row.status # "deleted"
      BY <2>1, <2>2 DEF setRawColumnChange, Row, Contents
    <3> QED BY <3>1, NoRowAssumption DEF IsLive
  <2> HIDE DEF row
  <2>4. /\ store'[id] = row /\ mem'[id] = row
        /\ \A x \in Ids : x # id => store'[x] = store[x] /\ mem'[x] = mem[x]
    BY <1>2, <2>1
  <2> QED BY <2>1, <2>3, <2>4, UserMemory DEF Agrees, Live
<1>6. CASE UserDeletes(id)
  <2>1. /\ writer = Nobody /\ id \in Live /\ UNCHANGED resetCount
        /\ store' = [store EXCEPT ![id].status = "deleted"] /\ mem' = [mem EXCEPT ![id] = NoRow]
        /\ sync' = Forget({id})
    BY <1>3, <1>6 DEF UserDeletes
  <2>2. store[id] \in Row
    BY <1>2, <2>1 DEF Live, IsLive
  <2>3. ~IsLive([store[id] EXCEPT !.status = "deleted"])
    BY <2>2 DEF IsLive, Row
  <2>4. /\ store'[id] = [store[id] EXCEPT !.status = "deleted"] /\ mem'[id] = NoRow
        /\ \A x \in Ids : x # id => store'[x] = store[x] /\ mem'[x] = mem[x]
    BY <1>2, <2>1
  <2>5. ASSUME NEW t \in Sessions
        PROVE  /\ sync'[t].phase = sync[t].phase /\ sync'[t].resets = sync[t].resets
               /\ sync'[t].pushedDeleted = sync[t].pushedDeleted
    <3>1. sync[t] \in Call /\ sync'[t] = [sync[t] EXCEPT !.copies = Only(@, Ids \ {id})]
      BY <2>1 DEF Forget, IInv, TypeOK
    <3> QED BY ONLY <3>1 DEF Call
  <2> QED BY <2>1, <2>3, <2>4, <2>5, UserMemory DEF Agrees
<1> QED BY <1>1, <1>4, <1>5, <1>6

LEMMA MemoryStep ==
  ASSUME IInv, Memory, OneCall, NothingFails, [Next]_vars
  PROVE  Memory'
<1>1. ASSUME NEW s \in Sessions, Start(s) \/ SessionStep(s) \/ PullFails(s) \/ PushFails(s)
      PROVE  Memory'
  BY ONLY IInv, Memory, OneCall, <1>1, CallMemory, ApplyRemoteChangesMemory, ApplyBatchMemory,
     MarkLocalChangesAsSyncedMemory, MarkBatchMemory, MarkDestroysMemory DEF SessionStep
<1>2. ASSUME NEW s \in Sessions
      PROVE  ~ApplyBatchFails(s) /\ ~MarkBatchFails(s)
  BY DEF ApplyBatchFails, MarkBatchFails, Disturb, NothingFails
<1>3. ASSUME NEW request \in wire, ServerHandlesPush(request)
      PROVE  Memory'
  BY ONLY IInv, Memory, OneCall, <1>3, ServerHandlesPushMemory
<1>4. ASSUME \/ \E request \in wire : RequestIsLost(request)
             \/ \E id \in Ids : RemoteDeletes(id) \/ \E vals \in Contents : RemoteWrites(id, vals)
             \/ UNCHANGED vars
      PROVE  Memory'
  <2>1. UNCHANGED <<store, mem, sync, resetCount>>
    BY <1>4 DEF RequestIsLost, RemoteDeletes, RemoteWrites, db, vars
  <2> QED BY <2>1 DEF Memory, Agree, Apart, Old
<1> QED BY ONLY IInv, Memory, NothingFails, [Next]_vars, <1>1, <1>2, <1>3, <1>4, ResetMemory, CrashMemory,
                UserStepMemory DEF Next, WorldStep

(* With one call at a time and no batch that is rejected, the models in    *)
(* memory are the rows of the store whenever no block runs.                *)
THEOREM MemoryCorrect ==
  ASSUME OneCall, NothingFails
  PROVE  Spec => []MemoryIsTheStore
<1>1. ASSUME Init
      PROVE  Memory
  <2>1. \A id \in Ids : store[id] = NoRow /\ mem[id] = NoRow
    BY <1>1 DEF Init
  <2>2. \A s \in Sessions : sync[s].phase = "idle"
    BY <1>1 DEF Init, Idle
  <2> QED BY <2>1, <2>2, NoRowAgrees DEF Memory, Agree, Apart, Pushing, Marks
<1>2. IInv /\ Memory /\ [Next]_vars => Memory'
  BY MemoryStep
<1>3. ASSUME IInv, Memory
      PROVE  MemoryIsTheStore
  <2>1. writer = Nobody => \A s \in Sessions : sync[s].phase \notin Inside
    BY <1>3, NoCallHas DEF IInv, Queue
  <2> QED BY <1>3, <2>1 DEF Memory, Agree, Agrees, MemoryIsTheStore
<1> QED BY <1>1, <1>2, <1>3, Invariant, PTL DEF Spec

-----------------------------------------------------------------------------
(***************************************************************************)
(* That synchronize() passes over no change of the server, for any set of  *)
(* records and columns, both strategies, and requests that are carried out *)
(* late, when calls do not overlap and no batch is rejected.               *)
(*                                                                         *)
(* Rows and lastPulledAt are stored by different calls of the adapter, so  *)
(* the property has to be followed through a call of synchronize(). Caught *)
(* says what a call knows at each place: from the answer on, that what the *)
(* pull does not tell has changed on the server after it; in the block     *)
(* that applies it, that rows not in the batch are up to date with the     *)
(* pull; before lastPulledAt is stored, that all are; and from the answer  *)
(* to a push on, that the server has changed what it accepted after        *)
(* lastPulledAt, so that marking it as synced, or destroying it, is safe.  *)
(* A row that is synced has no changed columns (Clean), so that a merge    *)
(* takes over everything.                                                  *)
(***************************************************************************)

(* A row that may not hold back anything (Behind) is level with the        *)
(* server, or the server has changed it after t.                           *)
Changed(theirs, t) == theirs # NoRow /\ theirs.mod > t
Alive(theirs)      == theirs # NoRow /\ theirs.alive

Behind(ours)       == ours = NoRow \/ ours.status = "synced"
Same(theirs, ours) == IF Alive(theirs) THEN ours # NoRow /\ ours.vals = theirs.vals ELSE ours = NoRow
Level(theirs, ours, t) == Behind(ours) => Same(theirs, ours) \/ Changed(theirs, t)
KeptUp(remotes, rows, t) == \A id \in Ids : Level(remotes[id], rows[id], t)

(* A pull tells what the server has, but for what changed after it.        *)
Tells(pull, since, id, theirs) ==
  \/ Changed(theirs, pull.timestamp)
  \/ IF id \in DOMAIN pull.rows THEN Alive(theirs) /\ theirs.vals = pull.rows[id]
     ELSE IF id \in pull.deleted \/ pull.strategy = "replacement" THEN ~Alive(theirs)
     ELSE ~Changed(theirs, since)

(* What a call may rely on, by where it is.                                *)
Told(call, remotes, rows, models, t) ==
  /\ call.phase \in Answered => \A id \in Ids :
       /\ Tells(call.pull, call.since, id, remotes[id])
       /\ id \in call.pull.created => Changed(remotes[id], call.since)
  /\ call.phase = "applying" => \A id \in Ids :
       /\ id \in call.update /\ models[id].status = "synced" => models[id].vals = call.pull.rows[id]
       /\ id \in call.destroy => id \in call.pull.deleted \/ call.pull.strategy = "replacement"
       /\ id \notin call.insert \cup call.update \cup call.destroy =>
            Level(remotes[id], rows[id], call.pull.timestamp)
  /\ call.phase = "stamping" => KeptUp(remotes, rows, call.pull.timestamp)
  /\ call.phase = "marking" => call.update \cap call.rejected = {}
  /\ call.phase \in {"answered"} \cup Marks => \A id \in Ids \ call.rejected :
       /\ id \in DOMAIN call.copies => Changed(remotes[id], t)
       /\ id \in call.pushedDeleted => ~Alive(remotes[id]) \/ Changed(remotes[id], t)

Clean(row) == row # NoRow /\ row.status = "synced" => row.changed = {}

(* What a call remembers of a push was in the request.                     *)
Asked(call, request) ==
  DOMAIN call.copies \subseteq DOMAIN request.rows /\ call.pushedDeleted \subseteq request.deleted

(* Inductive together with IInv and Memory.                                *)
Caught ==
  /\ KeptUp(server, store, lastPulledAt)
  /\ \A id \in Ids : Clean(store[id]) /\ Clean(mem[id])
  /\ \A id \in Ids : server[id] # NoRow =>
       0 < server[id].mod /\ server[id].born <= server[id].mod /\ server[id].mod <= clock
  /\ \A s \in Sessions : Told(sync[s], server, store, mem, lastPulledAt)
  /\ \A request \in wire : request.awaited => Asked(sync[request.from], request)
-----------------------------------------------------------------------------
(* The one call that there is becomes another, while the server stays as it*)
(* is.                                                                     *)
LEMMA StateCaught ==
  ASSUME Caught, NEW state, \A t \in Sessions : sync'[t] = state, UNCHANGED <<server, clock>>,
         KeptUp(server, store', lastPulledAt'),
         \A id \in Ids : Clean(store'[id]) /\ Clean(mem'[id]),
         Told(state, server, store', mem', lastPulledAt'),
         \A request \in wire' : request.awaited => request.from \in Sessions /\ Asked(state, request)
  PROVE  Caught'
BY DEF Caught

LEMMA CallCaught ==
  ASSUME IInv, OneCall, Caught, NEW s \in Sessions, NEW state, Become(s, state), UNCHANGED <<server, clock>>,
         KeptUp(server, store', lastPulledAt'),
         \A id \in Ids : Clean(store'[id]) /\ Clean(mem'[id]),
         Told(state, server, store', mem', lastPulledAt'),
         \A request \in wire' : request.awaited => request.from \in Sessions /\ Asked(state, request)
  PROVE  Caught'
<1>1. \A t \in Sessions : sync'[t] = state
  BY BecomeKeeps DEF OneCall
<1> QED BY <1>1, StateCaught

(* ... which leaves rows, models and requests alone.                       *)
LEMMA OnlyCallCaught ==
  ASSUME IInv, OneCall, Caught, NEW s \in Sessions, NEW state, Become(s, state),
         UNCHANGED <<store, mem, lastPulledAt, server, clock, wire>>, sync[s].phase # "pushing",
         Told(state, server, store, mem, lastPulledAt)
  PROVE  Caught'
<1>1. \A request \in wire : ~request.awaited
  BY DEF OneCall, IInv, TypeOK, PushRequest, Wired
<1> QED BY <1>1, CallCaught DEF Caught

LEMMA IdleTold == \A remotes, rows, models, t : Told(Idle, remotes, rows, models, t)
BY DEF Told, Idle, Answered, Marks

LEMMA StartCaught ==
  ASSUME IInv, OneCall, Caught, NEW s \in Sessions, Start(s)
  PROVE  Caught'
<1> DEFINE state == [Idle EXCEPT !.phase = "pulling", !.resets = resetCount, !.since = lastPulledAt]
<1>1. /\ Become(s, state) /\ sync[s].phase = "idle"
      /\ UNCHANGED <<store, mem, lastPulledAt, server, clock, wire>>
  BY DEF Start, db, remote
<1>2. state.phase = "pulling"
  BY IdleIsACall DEF Call
<1> HIDE DEF state
<1>3. Told(state, server, store, mem, lastPulledAt)
  BY <1>2 DEF Told, Answered, Marks
<1> QED BY <1>1, <1>3, OnlyCallCaught

(* The answer to a pull tells what the server has at that time.            *)
LEMMA ServerAnswersPullCaught ==
  ASSUME IInv, OneCall, Caught, NEW s \in Sessions, NEW strategy \in Strategies,
         ServerAnswersPull(s, strategy)
  PROVE  Caught'
<1> DEFINE since   == IF strategy = "replacement" THEN 0 ELSE sync[s].since
           changed == {id \in Ids : server[id] # NoRow /\ server[id].mod > since}
           alive   == {id \in changed : Exists(id)}
           created == {id \in alive : /\ ServerReportsCreated
                                      /\ server[id].born > sync[s].since}
           pull == [rows      |-> [id \in alive |-> server[id].vals],
                    created   |-> created,
                    deleted   |-> IF strategy = "replacement" THEN {} ELSE changed \ alive,
                    timestamp |-> clock,
                    strategy  |-> strategy]
           state == [sync[s] EXCEPT !.phase = "pulled", !.pull = pull]
<1>1. /\ Become(s, state) /\ sync[s].phase = "pulling"
      /\ UNCHANGED <<store, mem, lastPulledAt, server, clock, wire>>
  BY DEF ServerAnswersPull, db, remote
<1>2. /\ pull.rows = [id \in alive |-> server[id].vals] /\ pull.created = created
      /\ pull.deleted = (IF strategy = "replacement" THEN {} ELSE changed \ alive)
      /\ pull.strategy = strategy
  OBVIOUS
<1> HIDE DEF pull
<1>3. sync[s] \in Call /\ state.phase = "pulled" /\ state.pull = pull /\ state.since = sync[s].since
  BY DEF IInv, TypeOK, Call
<1> HIDE DEF state
<1>4. \A id \in Ids : Tells(pull, sync[s].since, id, server[id])
  <2> TAKE id \in Ids
  <2>1. /\ DOMAIN pull.rows = alive
        /\ id \in alive => pull.rows[id] = server[id].vals
    BY <1>2
  <2>2. CASE id \in alive
    BY <2>1, <2>2 DEF Tells, Alive, Exists
  <2>3. CASE id \in changed \ alive
    BY <1>2, <2>1, <2>3 DEF Tells, Alive, Exists
  <2>4. CASE id \notin changed /\ strategy = "replacement"
    BY <1>2, <2>1, <2>4 DEF Tells, Alive, Caught
  <2>5. CASE id \notin changed /\ strategy # "replacement"
    BY <1>2, <2>1, <2>5 DEF Tells, Changed
  <2> QED BY <2>2, <2>3, <2>4, <2>5
<1>5. \A id \in Ids : id \in pull.created => Changed(server[id], sync[s].since)
  <2> SUFFICES ASSUME NEW id \in created
               PROVE  Changed(server[id], sync[s].since)
    BY <1>2
  <2>1. server[id] # NoRow /\ server[id] \in ServerRow /\ server[id].born > sync[s].since
    BY DEF Exists, IInv, TypeOK
  <2>2. server[id].born <= server[id].mod /\ server[id].born \in Nat /\ server[id].mod \in Nat
    BY <2>1 DEF Caught, ServerRow
  <2>3. sync[s].since \in Nat
    BY <1>3 DEF Call
  <2> QED BY <2>1, <2>2, <2>3 DEF Changed
<1>6. Told(state, server, store, mem, lastPulledAt)
  BY <1>3, <1>4, <1>5 DEF Told, Answered, Marks
<1> QED BY <1>1, <1>6, OnlyCallCaught

LEMMA PullArrivesCaught ==
  ASSUME IInv, OneCall, Caught, NEW s \in Sessions, PullArrives(s)
  PROVE  Caught'
<1> DEFINE state == [sync[s] EXCEPT !.phase = "applyQueued"]
<1>1. /\ Become(s, state) /\ sync[s].phase = "pulled"
      /\ UNCHANGED <<store, mem, lastPulledAt, server, clock, wire>>
  BY DEF PullArrives, db, remote
<1>2. state.phase = "applyQueued" /\ state.pull = sync[s].pull /\ state.since = sync[s].since
  BY DEF IInv, TypeOK, Call
<1> HIDE DEF state
<1>3. Told(sync[s], server, store, mem, lastPulledAt)
  BY DEF Caught
<1>4. Told(state, server, store, mem, lastPulledAt)
  BY <1>1, <1>2, <1>3 DEF Told, Answered, Marks
<1> QED BY <1>1, <1>4, OnlyCallCaught

LEMMA GivesUpCaught ==
  ASSUME IInv, OneCall, Caught, NEW s \in Sessions, Become(s, Idle),
         UNCHANGED <<store, mem, lastPulledAt, server, clock, wire>>, sync[s].phase # "pushing"
  PROVE  Caught'
BY IdleTold, OnlyCallCaught

LEMMA PullFailsCaught ==
  ASSUME IInv, OneCall, Caught, NEW s \in Sessions, PullFails(s)
  PROVE  Caught'
BY GivesUpCaught DEF PullFails, db, remote

LEMMA PushFailsCaught ==
  ASSUME IInv, OneCall, Caught, NEW s \in Sessions, PushFails(s)
  PROVE  Caught'
<1>1. Become(s, Idle) /\ wire' = NotAwaited(s) /\ UNCHANGED <<store, mem, lastPulledAt, server, clock>>
  BY DEF PushFails, db, remote
<1>2. \A request \in wire : request \in PushRequest /\ request.from = s
  BY DEF OneCall, IInv, TypeOK, PushRequest
<1>3. \A request \in wire' : ~request.awaited
  BY <1>1, <1>2 DEF NotAwaited, PushRequest
<1> QED BY <1>1, <1>3, IdleTold, CallCaught DEF Caught

LEMMA FetchLocalChangesCaught ==
  ASSUME IInv, OneCall, Caught, NEW s \in Sessions, FetchLocalChanges(s)
  PROVE  Caught'
<1> DEFINE state == [sync[s] EXCEPT !.phase = "pushing", !.copies = Only(mem, unsynced),
                                    !.pushedDeleted = LocallyDeleted]
<1>1. /\ sync[s].phase = "fetchQueued" /\ UNCHANGED <<store, mem, lastPulledAt, server, clock>>
      /\ \/ Become(s, state) /\ wire' = wire \cup {Request(s)}
         \/ Become(s, Idle) /\ UNCHANGED wire
  BY DEF FetchLocalChanges, db, remote
<1>2. CASE Become(s, state) /\ wire' = wire \cup {Request(s)}
  <2>1. /\ state.phase = "pushing" /\ state.copies = Only(mem, unsynced)
        /\ state.pushedDeleted = LocallyDeleted
    BY DEF IInv, TypeOK, Call
  <2> HIDE DEF state
  <2>2. DOMAIN state.copies \subseteq unsynced
    BY <2>1 DEF Only
  <2>3. Request(s).from = s /\ DOMAIN Request(s).rows = unsynced /\ Request(s).deleted = LocallyDeleted
    BY DEF Request
  <2>4. Asked(state, Request(s))
    BY <2>1, <2>2, <2>3 DEF Asked
  <2>5. \A request \in wire : ~request.awaited
    BY <1>1 DEF OneCall, IInv, TypeOK, PushRequest, Wired
  <2>6. Told(state, server, store, mem, lastPulledAt)
    BY <2>1 DEF Told, Answered, Marks
  <2>7. \A request \in wire' : request.awaited => request.from \in Sessions /\ Asked(state, request)
    BY <1>2, <2>3, <2>4, <2>5
  <2> QED BY <1>1, <1>2, <2>6, <2>7, CallCaught DEF Caught
<1> QED BY <1>1, <1>2, GivesUpCaught

LEMMA PushAnsweredCaught ==
  ASSUME IInv, OneCall, Caught, NEW s \in Sessions, PushAnswered(s)
  PROVE  Caught'
<1> DEFINE state == [sync[s] EXCEPT !.phase = "markQueued"]
<1>1. /\ sync[s].phase = "answered" /\ UNCHANGED <<store, mem, lastPulledAt, server, clock, wire>>
      /\ Become(s, state) \/ Become(s, Idle)
  BY DEF PushAnswered, db, remote
<1>2. /\ state.phase = "markQueued" /\ state.copies = sync[s].copies
      /\ state.pushedDeleted = sync[s].pushedDeleted /\ state.rejected = sync[s].rejected
  BY DEF IInv, TypeOK, Call
<1> HIDE DEF state
<1>3. Told(sync[s], server, store, mem, lastPulledAt)
  BY DEF Caught
<1>4. Told(state, server, store, mem, lastPulledAt)
  BY <1>1, <1>2, <1>3 DEF Told, Answered, Marks
<1>5. CASE Become(s, state)
  BY <1>1, <1>4, <1>5, OnlyCallCaught
<1> QED BY <1>1, <1>5, GivesUpCaught

(* The time of the pull is stored when its rows are there.                 *)
LEMMA SetLastPulledAtCaught ==
  ASSUME IInv, OneCall, Caught, NEW s \in Sessions, SetLastPulledAt(s)
  PROVE  Caught'
<1> DEFINE state == [sync[s] EXCEPT !.phase = "fetchQueued"]
<1>1. /\ sync[s].phase = "stamping" /\ Become(s, state) /\ UNCHANGED <<store, mem, server, clock, wire>>
      /\ lastPulledAt' = sync[s].pull.timestamp
  BY DEF SetLastPulledAt, pulledAt, remote
<1>2. state.phase = "fetchQueued"
  BY DEF IInv, TypeOK, Call
<1> HIDE DEF state
<1>3. KeptUp(server, store, sync[s].pull.timestamp)
  BY <1>1 DEF Caught, Told
<1>4. Told(state, server, store', mem', lastPulledAt')
  BY <1>2 DEF Told, Answered, Marks
<1>5. \A request \in wire' : ~request.awaited
  BY <1>1 DEF OneCall, IInv, TypeOK, PushRequest, Wired
<1> QED BY <1>1, <1>3, <1>4, <1>5, CallCaught DEF Caught

LEMMA MarkLocalChangesAsSyncedCaught ==
  ASSUME IInv, OneCall, Caught, NEW s \in Sessions, MarkLocalChangesAsSynced(s)
  PROVE  Caught'
<1> DEFINE marks == recordsToMarkAsSynced(s)
           state == [sync[s] EXCEPT !.phase = "marking", !.update = marks]
<1>1. /\ sync[s].phase = "markQueued" /\ Become(s, state)
      /\ mem' = [id \in Ids |-> IF id \in marks /\ mem[id] # NoRow THEN Marked(mem[id]) ELSE mem[id]]
      /\ UNCHANGED <<store, lastPulledAt, server, clock, wire>>
  BY DEF MarkLocalChangesAsSynced, remote
<1>2. marks \cap sync[s].rejected = {}
  BY DEF recordsToMarkAsSynced
<1> HIDE DEF marks
<1>3. /\ state.phase = "marking" /\ state.update = marks /\ state.copies = sync[s].copies
      /\ state.pushedDeleted = sync[s].pushedDeleted /\ state.rejected = sync[s].rejected
  <2>1. sync[s] \in Call
    BY DEF IInv, TypeOK
  <2> QED BY ONLY <2>1 DEF Call
<1> HIDE DEF state
<1>4. Told(sync[s], server, store, mem, lastPulledAt)
  BY DEF Caught
<1>5. Told(state, server, store', mem', lastPulledAt')
  BY <1>1, <1>2, <1>3, <1>4 DEF Told, Answered, Marks
<1>6. \A id \in Ids : Clean(mem'[id])
  <2>1. \A row \in Row : Clean(Marked(row))
    BY DEF Clean, Marked, Row
  <2> QED BY <1>1, <2>1 DEF Caught, IInv, TypeOK
<1>7. \A request \in wire' : ~request.awaited
  BY <1>1 DEF OneCall, IInv, TypeOK, PushRequest, Wired
<1> QED BY <1>1, <1>5, <1>6, <1>7, CallCaught DEF Caught

(* What is marked as synced has been changed on the server after the pull. *)
LEMMA MarkBatchCaught ==
  ASSUME IInv, OneCall, Caught, NEW s \in Sessions, MarkBatch(s)
  PROVE  Caught'
<1> DEFINE state == [sync[s] EXCEPT !.phase = "destroying", !.update = {}]
<1>1. /\ sync[s].phase = "marking" /\ Become(s, state)
      /\ store' = [id \in Ids |-> IF id \in sync[s].update /\ store[id] # NoRow
                                  THEN Marked(sync[s].copies[id]) ELSE store[id]]
      /\ UNCHANGED <<mem, lastPulledAt, server, clock, wire>>
  BY DEF MarkBatch, remote
<1>2. /\ state.phase = "destroying" /\ state.copies = sync[s].copies
      /\ state.pushedDeleted = sync[s].pushedDeleted /\ state.rejected = sync[s].rejected
  BY DEF Call, IInv, TypeOK
<1> HIDE DEF state
<1>3. /\ Told(sync[s], server, store, mem, lastPulledAt)
      /\ sync[s].update \subseteq DOMAIN sync[s].copies
  BY <1>1 DEF Caught, IInv, Rows, Fits, FitsIn
<1>4. \A id \in Ids : id \in sync[s].update => Changed(server[id], lastPulledAt)
  BY <1>1, <1>3 DEF Told, Marks
<1>5. KeptUp(server, store', lastPulledAt)
  BY <1>1, <1>4 DEF Caught, KeptUp, Level
<1>6. \A id \in Ids : Clean(store'[id])
  <2>1. \A id \in sync[s].update : sync[s].copies[id] \in Row
    <3>1. sync[s].copies \in Snapshots(Row)
      BY DEF IInv, TypeOK, Call
    <3> QED BY <1>3, <3>1, SnapshotElim
  <2>2. \A row \in Row : Clean(Marked(row))
    BY DEF Clean, Marked, Row
  <2> QED BY <1>1, <2>1, <2>2 DEF Caught
<1>7. Told(state, server, store', mem', lastPulledAt)
  BY <1>1, <1>2, <1>3 DEF Told, Answered, Marks
<1>8. \A request \in wire' : ~request.awaited
  BY <1>1 DEF OneCall, IInv, TypeOK, PushRequest, Wired
<1> QED BY <1>1, <1>5, <1>6, <1>7, <1>8, CallCaught DEF Caught

LEMMA MarkDestroysCaught ==
  ASSUME IInv, OneCall, Caught, NEW s \in Sessions, MarkDestroys(s)
  PROVE  Caught'
<1>1. /\ sync[s].phase = "destroying" /\ Become(s, Idle)
      /\ UNCHANGED <<mem, lastPulledAt, server, clock, wire>>
      /\ store' = [id \in Ids |-> IF id \in toDestroy(s) THEN NoRow ELSE store[id]]
  BY DEF MarkDestroys, remote
<1>2. \A id \in Ids : id \in toDestroy(s) => ~Alive(server[id]) \/ Changed(server[id], lastPulledAt)
  BY <1>1 DEF Caught, Told, Marks, toDestroy
<1>3. KeptUp(server, store', lastPulledAt) /\ \A id \in Ids : Clean(store'[id])
  BY <1>1, <1>2 DEF Caught, KeptUp, Level, Same, Clean
<1>4. \A request \in wire' : ~request.awaited
  BY <1>1 DEF OneCall, IInv, TypeOK, PushRequest, Wired
<1> QED BY <1>1, <1>3, <1>4, IdleTold, CallCaught DEF Caught

(* What a pull tells, applied to the rows as they are, leaves none behind. *)
LEMMA ApplyRemoteChangesCaught ==
  ASSUME IInv, Memory, OneCall, Caught, NEW s \in Sessions, ApplyRemoteChanges(s)
  PROVE  Caught'
<1> DEFINE pull  == sync[s].pull
           state == [sync[s] EXCEPT !.phase = "applying", !.insert = toInsert(pull),
                       !.update = toUpdate(pull), !.destroy = gone(pull) \cap Live]
<1>1. /\ sync[s].phase = "applyQueued" /\ UNCHANGED <<lastPulledAt, server, clock, wire>> /\ sync[s] \in Call
  BY DEF ApplyRemoteChanges, IInv, TypeOK, remote
<1>2. CASE ~mayApply(s)
  BY <1>1, <1>2, GivesUpCaught DEF ApplyRemoteChanges
<1>3. CASE mayApply(s)
  <2>1. /\ Become(s, state) /\ sync[s].since = lastPulledAt
        /\ store' = [id \in Ids |->
             IF id \in (gone(pull) \cap LocallyDeleted) \union recreated(pull)
             THEN NoRow ELSE store[id]]
        /\ mem' = [id \in Ids |->
             CASE id \in toUpdate(pull) -> resolveConflict(mem[id], pull.rows[id])
               [] id \in gone(pull) \cap Live -> [mem[id] EXCEPT !.status = "deleted"]
               [] OTHER -> mem[id]]
    BY <1>3 DEF ApplyRemoteChanges, mayApply
  <2>2. /\ state.phase = "applying" /\ state.insert = toInsert(pull) /\ state.update = toUpdate(pull)
        /\ state.destroy = gone(pull) \cap Live /\ state.pull = pull /\ state.since = sync[s].since
    BY ONLY <1>1 DEF Call, Phases
  <2>3. /\ pull.created \subseteq DOMAIN pull.rows /\ pull.deleted \cap DOMAIN pull.rows = {}
        /\ pull.rows \in Snapshots(Contents) /\ pull.timestamp \in Nat
        /\ sync[s].since \in Nat /\ sync[s].since <= pull.timestamp
    <3>1. pull \in Pull /\ Fits(sync[s]) /\ Timely(sync[s])
      BY <1>1 DEF IInv, Rows, Times, Call
    <3> QED BY <1>1, <3>1 DEF Fits, FitsIn, Timely, Answered, Pull, Call
  <2>4. \A id \in Ids : /\ Tells(pull, sync[s].since, id, server[id])
                        /\ id \in pull.created => Changed(server[id], sync[s].since)
    BY <1>1 DEF Caught, Told, Answered
  <2> HIDE DEF pull, state
  <2>5. /\ toUpdate(pull) \subseteq DOMAIN pull.rows \cap Live
        /\ gone(pull) \cap DOMAIN pull.rows = {} /\ recreated(pull) \subseteq pull.created
        /\ \A id \in gone(pull) : id \in pull.deleted \/ pull.strategy = "replacement"
    BY <2>3 DEF toUpdate, recreated, gone
  <2>6. /\ \A id \in Ids : Agrees(store[id], mem[id])
        /\ \A id \in Ids : store[id] \in Row \cup {NoRow}
    BY <1>1, OutsideAgree DEF Agree, Inside, IInv, TypeOK
  <2>7. \A id \in toUpdate(pull) : pull.rows[id] \in Contents
    BY <2>3, <2>5, SnapshotElim
  <2>8. ASSUME NEW id \in Ids, id \in toUpdate(pull)
        PROVE  /\ mem'[id].status = "synced" => mem'[id].vals = pull.rows[id]
               /\ Clean(mem'[id])
    <3>1. mem'[id] = resolveConflict(mem[id], pull.rows[id])
      BY <2>1, <2>5, <2>8
    <3>2. mem[id] \in Row /\ mem[id].status # "deleted" /\ Clean(mem[id]) /\ pull.rows[id] \in Contents
      BY <2>5, <2>6, <2>7, <2>8 DEF Agrees, Live, IsLive, Caught
    <3>3. mem[id].status = "synced" => mem[id].changed = {}
      BY <3>2, NoRowAssumption DEF Clean
    <3>4. /\ resolveConflict(mem[id], pull.rows[id]).status = mem[id].status
          /\ resolveConflict(mem[id], pull.rows[id]).changed = mem[id].changed
          /\ mem[id].changed = {} => resolveConflict(mem[id], pull.rows[id]).vals = pull.rows[id]
      BY ONLY <3>2 DEF resolveConflict, Row, Contents
    <3> QED BY <3>1, <3>3, <3>4 DEF Clean
  <2>9. ASSUME NEW id \in Ids, id \notin toUpdate(pull)
        PROVE  Clean(mem'[id])
    <3>1. CASE id \in gone(pull) \cap Live
      <4>1. mem'[id] = [mem[id] EXCEPT !.status = "deleted"] /\ mem[id] \in Row
        BY <2>1, <2>6, <2>9, <3>1 DEF Agrees, Live, IsLive
      <4> QED BY <4>1 DEF Clean, Row
    <3>2. CASE id \notin gone(pull) \cap Live
      BY <2>1, <2>9, <3>2 DEF Caught
    <3> QED BY <3>1, <3>2
  <2>10. ASSUME NEW id \in Ids
         PROVE  Level(server[id], store'[id], lastPulledAt) /\ Clean(store'[id])
    <3>1. Level(server[id], store[id], lastPulledAt) /\ Clean(store[id])
      BY DEF Caught, KeptUp
    <3>2. CASE id \in gone(pull) \cap LocallyDeleted
      <4>1. store'[id] = NoRow /\ id \notin DOMAIN pull.rows
        BY <2>1, <2>5, <3>2
      <4>2. ~Alive(server[id]) \/ Changed(server[id], pull.timestamp)
        BY <2>4, <2>5, <3>2, <4>1 DEF Tells
      <4>3. Changed(server[id], pull.timestamp) => Changed(server[id], lastPulledAt)
        BY <2>1, <2>3 DEF Changed, IInv, TypeOK, ServerRow
      <4> QED BY <4>1, <4>2, <4>3 DEF Level, Same, Clean
    <3>3. CASE id \in recreated(pull)
      BY <2>1, <2>4, <2>5, <3>3 DEF Level, Clean
    <3>4. CASE id \notin (gone(pull) \cap LocallyDeleted) \cup recreated(pull)
      BY <2>1, <3>1, <3>4
    <3> QED BY <3>2, <3>3, <3>4
  <2>11. ASSUME NEW id \in Ids, id \notin toInsert(pull) \cup toUpdate(pull) \cup (gone(pull) \cap Live)
         PROVE  Level(server[id], store'[id], pull.timestamp)
    <3>1. CASE Changed(server[id], pull.timestamp)
      BY <3>1 DEF Level
    <3>2. CASE id \in DOMAIN pull.rows /\ Alive(server[id]) /\ server[id].vals = pull.rows[id]
      <4>1. store'[id] = store[id] /\ store[id] # NoRow
        BY <2>1, <2>5, <2>11, <3>2 DEF toInsert
      <4>2. CASE id \in Live
        <5>1. mem[id] = [status |-> "synced", changed |-> {}, vals |-> pull.rows[id]]
          BY <2>11, <3>2, <4>2 DEF toUpdate, requiresUpdate
        <5>2. store[id] = mem[id]
          BY <2>6, <4>2 DEF Agrees, Live
        <5> QED BY <3>2, <4>1, <5>1, <5>2 DEF Level, Same
      <4>3. CASE id \notin Live
        BY <4>1, <4>3 DEF Live, IsLive, Level, Behind
      <4> QED BY <4>2, <4>3
    <3>3. CASE /\ id \notin DOMAIN pull.rows /\ ~Alive(server[id])
               /\ id \in pull.deleted \/ pull.strategy = "replacement"
      <4>1. CASE id \in Live
        <5>1. mem[id].status = "created" /\ store'[id] = store[id]
          BY <2>1, <2>3, <2>5, <2>11, <3>3, <4>1 DEF gone, LocallyDeleted, Live
        <5>2. store[id] = mem[id] /\ store[id] # NoRow
          BY <2>6, <4>1 DEF Agrees, Live, IsLive
        <5> QED BY <5>1, <5>2 DEF Level, Behind
      <4>2. CASE id \notin Live
        <5>1. store'[id] = NoRow
          <6>1. CASE store[id] = NoRow
            BY <2>1, <6>1
          <6>2. CASE store[id] # NoRow
            <7>1. id \in LocallyDeleted /\ ~IsLive(store[id])
              BY <4>2, <6>2 DEF Live, LocallyDeleted
            <7>2. id \in gone(pull)
              BY <3>3, <7>1 DEF gone
            <7> QED BY <2>1, <7>1, <7>2
          <6> QED BY <6>1, <6>2
        <5> QED BY <3>3, <5>1 DEF Level, Same
      <4> QED BY <4>1, <4>2
    <3>4. CASE id \notin DOMAIN pull.rows /\ id \notin pull.deleted /\ pull.strategy # "replacement"
                 /\ ~Changed(server[id], sync[s].since)
      <4>1. store'[id] = store[id]
        BY <2>1, <2>3, <2>5, <3>4 DEF gone
      <4>2. Level(server[id], store[id], sync[s].since)
        BY <2>1 DEF Caught, KeptUp
      <4> QED BY <3>4, <4>1, <4>2 DEF Level
    <3> QED BY <2>4, <3>1, <3>2, <3>3, <3>4 DEF Tells
  <2>12. Told(state, server, store', mem', lastPulledAt')
    BY <2>2, <2>4, <2>5, <2>8, <2>11 DEF Told, Marks
  <2>13. \A request \in wire' : ~request.awaited
    BY <1>1 DEF OneCall, IInv, TypeOK, PushRequest, Wired
  <2>14. KeptUp(server, store', lastPulledAt') /\ \A id \in Ids : Clean(store'[id]) /\ Clean(mem'[id])
    BY <1>1, <2>8, <2>9, <2>10 DEF KeptUp
  <2> QED BY <1>1, <2>1, <2>12, <2>13, <2>14, CallCaught
<1> QED BY <1>2, <1>3

LEMMA ApplyBatchCaught ==
  ASSUME IInv, Memory, OneCall, Caught, NEW s \in Sessions, ApplyBatch(s)
  PROVE  Caught'
<1> DEFINE rec   == sync[s]
           state == [Forget(rec.destroy)[s] EXCEPT !.phase = "stamping",
                       !.insert = {}, !.update = {}, !.destroy = {}]
           at    == rec.pull.timestamp
<1>1. /\ rec.phase = "applying" /\ mem' = cacheAfter(rec)
      /\ store' = [id \in Ids |-> CASE id \in rec.insert  -> Pulled(rec.pull.rows[id])
                                    [] id \in rec.update  -> mem[id]
                                    [] id \in rec.destroy -> NoRow
                                    [] OTHER              -> store[id]]
      /\ sync' = [Forget(rec.destroy) EXCEPT ![s] = state]
      /\ UNCHANGED <<lastPulledAt, server, clock, wire>>
  BY DEF ApplyBatch, remote
<1>2. /\ sync'[s] = state /\ state.phase = "stamping" /\ state.pull = rec.pull /\ state.since = rec.since
  <2>1. /\ Forget(rec.destroy) \in [Sessions -> Call]
        /\ Forget(rec.destroy)[s] = [sync[s] EXCEPT !.copies = Forget(rec.destroy)[s].copies]
    BY Forgotten DEF Forget
  <2>2. sync[s] \in Call
    BY DEF IInv, TypeOK
  <2>3. Forget(rec.destroy)[s] \in Call
    BY <2>1
  <2>4. Forget(rec.destroy)[s].pull = rec.pull /\ Forget(rec.destroy)[s].since = rec.since
    BY ONLY <2>1, <2>2 DEF Call
  <2>5. /\ state.phase = "stamping" /\ state.pull = Forget(rec.destroy)[s].pull
        /\ state.since = Forget(rec.destroy)[s].since
    BY ONLY <2>3 DEF Call
  <2> HIDE DEF state
  <2> QED BY <1>1, <2>1, <2>4, <2>5
<1> HIDE DEF state
<1>3. /\ rec.insert \cup rec.update \subseteq DOMAIN rec.pull.rows
      /\ rec.destroy \cap DOMAIN rec.pull.rows = {} /\ rec.insert \cap rec.update = {}
      /\ rec.pull.rows \in Snapshots(Contents)
      /\ rec.since = lastPulledAt /\ rec.since \in Nat /\ at \in Nat /\ rec.since <= at
  <2>1. Fits(rec) /\ Timely(rec) /\ rec \in Call
    BY DEF IInv, TypeOK, Rows, Times
  <2> QED BY <1>1, <2>1 DEF Fits, FitsIn, Timely, Answered, Memory, Apart, Call, Pull
<1>4. \A id \in Ids :
        /\ Tells(rec.pull, rec.since, id, server[id])
        /\ id \in rec.pull.created => Changed(server[id], rec.since)
        /\ id \in rec.update /\ mem[id].status = "synced" => mem[id].vals = rec.pull.rows[id]
        /\ id \in rec.destroy => id \in rec.pull.deleted \/ rec.pull.strategy = "replacement"
        /\ id \notin rec.insert \cup rec.update \cup rec.destroy => Level(server[id], store[id], at)
  BY <1>1 DEF Caught, Told, Answered
<1>5. \A id \in Ids : Clean(store[id]) /\ Clean(mem[id])
  BY DEF Caught
<1>6. \A id \in rec.update : id \notin rec.insert /\ mem[id] # NoRow
  BY <1>1, <1>3 DEF Memory, Apart, IInv, TypeOK, Call
<1>7. ASSUME NEW id \in Ids
      PROVE  Level(server[id], store'[id], at) /\ Clean(store'[id]) /\ Clean(mem'[id])
  <2>1. Changed(server[id], at) => Level(server[id], store'[id], at)
    BY DEF Level
  <2>2. CASE id \in rec.insert
    <3>1. /\ store'[id] = Pulled(rec.pull.rows[id]) /\ mem'[id] = Pulled(rec.pull.rows[id])
      BY <1>1, <1>3, <2>2 DEF cacheAfter
    <3>2. rec.pull.rows[id] \in Contents /\ id \in DOMAIN rec.pull.rows
      BY <1>3, <2>2, SnapshotElim
    <3>3. /\ Pulled(rec.pull.rows[id]) # NoRow /\ Pulled(rec.pull.rows[id]).vals = rec.pull.rows[id]
          /\ Clean(Pulled(rec.pull.rows[id]))
      BY <3>2, NoRowAssumption DEF Pulled, Row, Clean
    <3> QED BY <1>4, <2>1, <3>1, <3>2, <3>3 DEF Tells, Level, Same
  <2>3. CASE id \in rec.update
    <3>1. store'[id] = mem[id] /\ mem'[id] = mem[id] /\ mem[id] # NoRow /\ id \in DOMAIN rec.pull.rows
      BY <1>1, <1>3, <1>6, <2>3 DEF cacheAfter
    <3> QED BY <1>4, <1>5, <2>1, <2>3, <3>1 DEF Tells, Level, Same, Behind
  <2>4. CASE id \in rec.destroy
    <3>1. store'[id] = NoRow /\ mem'[id] = NoRow /\ id \notin DOMAIN rec.pull.rows
      BY <1>1, <1>3, <2>4 DEF cacheAfter
    <3> QED BY <1>4, <2>1, <2>4, <3>1 DEF Tells, Level, Same, Clean
  <2>5. CASE id \notin rec.insert \cup rec.update \cup rec.destroy
    <3>1. store'[id] = store[id] /\ mem'[id] = mem[id]
      BY <1>1, <2>5 DEF cacheAfter
    <3> QED BY <1>4, <1>5, <2>5, <3>1
  <2> QED BY <2>2, <2>3, <2>4, <2>5
<1>8. \A id \in Ids : Changed(server[id], at) => Changed(server[id], lastPulledAt)
  BY <1>3 DEF Changed, IInv, TypeOK, ServerRow
<1>9. KeptUp(server, store', lastPulledAt')
  BY <1>1, <1>7, <1>8 DEF KeptUp, Level
<1>10. Told(state, server, store', mem', lastPulledAt')
  BY <1>2, <1>4, <1>7 DEF Told, KeptUp, Marks
<1>11. \A t \in Sessions : sync'[t] = state
  BY <1>2 DEF OneCall
<1>12. \A request \in wire' : ~request.awaited
  BY <1>1 DEF OneCall, IInv, TypeOK, PushRequest, Wired
<1> QED BY <1>1, <1>7, <1>9, <1>10, <1>11, <1>12, StateCaught
-----------------------------------------------------------------------------
(* What changes on the server changes after every pull there has been.     *)
Moved(from, to, now) == to = from \/ (to # NoRow /\ to.mod = now + 1)

LEMMA ServerMoves ==
  ASSUME IInv, Caught, NEW call \in Call, Timely(call), NEW sv,
         \A id \in Ids : Moved(server[id], sv[id], clock),
         Told(call, server, store, mem, lastPulledAt)
  PROVE  Told(call, sv, store, mem, lastPulledAt) /\ KeptUp(sv, store, lastPulledAt)
<1>1. /\ clock \in Nat /\ lastPulledAt \in Nat /\ call.since \in Nat /\ call.pull.timestamp \in Nat
      /\ lastPulledAt <= clock /\ call.since <= clock /\ call.pull.timestamp <= clock
  BY DEF IInv, TypeOK, Times, Timely, Call, Pull
<1>2. ASSUME NEW id \in Ids, NEW t \in Nat, t <= clock
      PROVE  sv[id] = server[id] \/ Changed(sv[id], t)
  BY <1>1, <1>2 DEF Moved, Changed
<1>3. \A id \in Ids : /\ sv[id] = server[id] \/ Changed(sv[id], lastPulledAt)
                      /\ sv[id] = server[id] \/ Changed(sv[id], call.since)
                      /\ sv[id] = server[id] \/ Changed(sv[id], call.pull.timestamp)
  BY ONLY <1>1, <1>2
<1>4. KeptUp(sv, store, lastPulledAt)
  BY <1>3 DEF Caught, KeptUp, Level
<1>5. call.phase = "stamping" => KeptUp(sv, store, call.pull.timestamp)
  BY <1>3 DEF Told, KeptUp, Level
<1>6. call.phase \in Answered => \A id \in Ids :
        /\ Tells(call.pull, call.since, id, sv[id])
        /\ id \in call.pull.created => Changed(sv[id], call.since)
  <2> SUFFICES ASSUME call.phase \in Answered, NEW id \in Ids
               PROVE  /\ Tells(call.pull, call.since, id, sv[id])
                      /\ id \in call.pull.created => Changed(sv[id], call.since)
    OBVIOUS
  <2>1. /\ Tells(call.pull, call.since, id, server[id])
        /\ id \in call.pull.created => Changed(server[id], call.since)
    BY DEF Told
  <2>2. Tells(call.pull, call.since, id, sv[id])
    <3>1. CASE sv[id] = server[id]
      BY <2>1, <3>1
    <3>2. CASE Changed(sv[id], call.pull.timestamp)
      BY <3>2 DEF Tells
    <3> QED BY <1>3, <3>1, <3>2
  <2>3. id \in call.pull.created => Changed(sv[id], call.since)
    <3>1. CASE sv[id] = server[id]
      BY <2>1, <3>1
    <3> QED BY <1>3, <3>1
  <2> QED BY <2>2, <2>3
<1>7. call.phase = "applying" => \A id \in Ids :
        id \notin call.insert \cup call.update \cup call.destroy =>
          Level(sv[id], store[id], call.pull.timestamp)
  BY <1>3 DEF Told, Level
<1>8. call.phase \in {"answered"} \cup Marks => \A id \in Ids \ call.rejected :
        /\ id \in DOMAIN call.copies => Changed(sv[id], lastPulledAt)
        /\ id \in call.pushedDeleted => ~Alive(sv[id]) \/ Changed(sv[id], lastPulledAt)
  <2> SUFFICES ASSUME call.phase \in {"answered"} \cup Marks, NEW id \in Ids \ call.rejected
               PROVE  /\ id \in DOMAIN call.copies => Changed(sv[id], lastPulledAt)
                      /\ id \in call.pushedDeleted => ~Alive(sv[id]) \/ Changed(sv[id], lastPulledAt)
    OBVIOUS
  <2>1. /\ id \in DOMAIN call.copies => Changed(server[id], lastPulledAt)
        /\ id \in call.pushedDeleted => ~Alive(server[id]) \/ Changed(server[id], lastPulledAt)
    BY DEF Told
  <2>2. sv[id] = server[id] \/ Changed(sv[id], lastPulledAt)
    BY <1>3
  <2>3. CASE sv[id] = server[id]
    BY <2>1, <2>3
  <2> QED BY <2>2, <2>3
<1> QED BY <1>4, <1>5, <1>6, <1>7, <1>8 DEF Told

LEMMA ServerCaught ==
  ASSUME IInv, Caught, UNCHANGED <<store, mem, lastPulledAt>>, clock' = clock + 1,
         \A id \in Ids : Moved(server[id], server'[id], clock),
         \A id \in Ids : server'[id] # NoRow => server'[id] = server[id] \/ server'[id].born <= clock + 1,
         \A s \in Sessions : Told(sync'[s], server', store, mem, lastPulledAt),
         \A request \in wire' : request.awaited => Asked(sync'[request.from], request)
  PROVE  Caught'
<1>1. KeptUp(server', store, lastPulledAt)
  <2>1. Idle \in Call /\ Timely(Idle) /\ Told(Idle, server, store, mem, lastPulledAt)
    BY IdleIsACall, IdleFits, IdleTold
  <2> QED BY <2>1, ServerMoves
<1>2. \A id \in Ids : server'[id] # NoRow =>
        0 < server'[id].mod /\ server'[id].born <= server'[id].mod /\ server'[id].mod <= clock'
  <2> TAKE id \in Ids
  <2> HAVE server'[id] # NoRow
  <2>1. clock \in Nat /\ server \in [Ids -> ServerRow \cup {NoRow}]
    BY DEF IInv, TypeOK
  <2>2. CASE server'[id] = server[id]
    <3>1. server[id].mod \in Nat
      BY <2>1, <2>2 DEF ServerRow
    <3> QED BY <2>1, <2>2, <3>1 DEF Caught
  <2>3. CASE server'[id] # server[id]
    BY <2>1, <2>3 DEF Moved
  <2> QED BY <2>2, <2>3
<1> QED BY <1>1, <1>2 DEF Caught

LEMMA ServerChanges ==
  ASSUME IInv, Caught, UNCHANGED <<store, mem, lastPulledAt, sync>>, wire' \subseteq wire,
         clock' = clock + 1,
         \A id \in Ids : Moved(server[id], server'[id], clock),
         \A id \in Ids : server'[id] # NoRow => server'[id] = server[id] \/ server'[id].born <= clock + 1
  PROVE  Caught'
<1>1. \A s \in Sessions : Told(sync'[s], server', store, mem, lastPulledAt)
  <2> TAKE s \in Sessions
  <2>1. sync[s] \in Call /\ Timely(sync[s]) /\ Told(sync[s], server, store, mem, lastPulledAt)
    BY DEF IInv, TypeOK, Times, Caught
  <2> QED BY <2>1, ServerMoves
<1>2. \A request \in wire' : request.awaited => Asked(sync'[request.from], request)
  BY DEF Caught
<1> QED BY <1>1, <1>2, ServerCaught

LEMMA RemoteWritesCaught ==
  ASSUME IInv, Caught, NEW id \in Ids, NEW vals \in Contents, RemoteWrites(id, vals)
  PROVE  Caught'
<1> DEFINE row == [alive |-> TRUE, vals |-> vals, mod |-> clock + 1,
                   born |-> IF Exists(id) THEN server[id].born ELSE clock + 1]
<1>1. /\ server' = [server EXCEPT ![id] = row] /\ clock' = clock + 1
      /\ UNCHANGED <<store, mem, lastPulledAt, sync, wire>>
  BY DEF RemoteWrites, db
<1>2. clock \in Nat /\ (Exists(id) => server[id] \in ServerRow /\ server[id] # NoRow)
  BY DEF Exists, IInv, TypeOK
<1>3. row.mod = clock + 1 /\ row.born <= clock + 1 /\ row # NoRow
  <2>1. row \in ServerRow
    BY <1>2 DEF ServerRow
  <2>2. row.mod = clock + 1 /\ row.born = IF Exists(id) THEN server[id].born ELSE clock + 1
    OBVIOUS
  <2>3. Exists(id) => server[id].born \in Nat /\ server[id].mod \in Nat
    BY <1>2 DEF ServerRow
  <2>4. Exists(id) => server[id].born <= server[id].mod /\ server[id].mod <= clock
    BY <1>2 DEF Caught
  <2> HIDE DEF row
  <2>5. row.born <= clock + 1
    BY <1>2, <2>2, <2>3, <2>4
  <2> QED BY <2>1, <2>2, <2>5, NoRowAssumption
<1> HIDE DEF row
<1>4. \A x \in Ids : server'[x] = IF x = id THEN row ELSE server[x]
  BY <1>1 DEF IInv, TypeOK
<1> QED BY <1>1, <1>3, <1>4, ServerChanges DEF Moved

LEMMA RemovedAt ==
  ASSUME NEW row \in ServerRow, NEW n \in Nat
  PROVE  LET moved == [row EXCEPT !.alive = FALSE, !.mod = n]
         IN moved \in ServerRow /\ moved.mod = n /\ moved.born = row.born /\ ~moved.alive
BY DEF ServerRow

LEMMA RemoteDeletesCaught ==
  ASSUME IInv, Caught, NEW id \in Ids, RemoteDeletes(id)
  PROVE  Caught'
<1> DEFINE row == [server[id] EXCEPT !.alive = FALSE, !.mod = clock + 1]
<1>1. /\ server' = [server EXCEPT ![id] = row] /\ clock' = clock + 1
      /\ UNCHANGED <<store, mem, lastPulledAt, sync, wire>>
  BY DEF RemoteDeletes, db
<1>2. server[id] \in ServerRow /\ server[id] # NoRow /\ clock \in Nat
  BY DEF RemoteDeletes, Exists, IInv, TypeOK
<1>3. row \in ServerRow /\ row.mod = clock + 1 /\ row.born = server[id].born
  <2>1. clock + 1 \in Nat
    BY <1>2
  <2> QED BY ONLY <1>2, <2>1, RemovedAt
<1> HIDE DEF row
<1>4. row # NoRow /\ row.born <= clock + 1
  <2>1. server[id].born \in Nat /\ server[id].mod \in Nat
    BY <1>2 DEF ServerRow
  <2>2. server[id].born <= server[id].mod /\ server[id].mod <= clock
    BY <1>2 DEF Caught
  <2> QED BY <1>2, <1>3, <2>1, <2>2, NoRowAssumption
<1>5. \A x \in Ids : server'[x] = IF x = id THEN row ELSE server[x]
  BY <1>1 DEF IInv, TypeOK
<1> QED BY <1>1, <1>3, <1>4, <1>5, ServerChanges DEF Moved
LEMMA AcceptMoves ==
  ASSUME IInv, Caught, NEW request \in wire, NEW refused, Accept(request, refused)
  PROVE  /\ clock' = clock + 1
         /\ \A id \in Ids :
              /\ Moved(server[id], server'[id], clock)
              /\ server'[id] # NoRow => server'[id] = server[id] \/ server'[id].born <= clock + 1
              /\ id \in DOMAIN request.rows \ refused =>
                   server'[id] # NoRow /\ server'[id].mod = clock + 1
              /\ id \in request.deleted \ refused =>
                   ~Alive(server'[id]) \/ (server'[id] # NoRow /\ server'[id].mod = clock + 1)
<1> DEFINE rows    == DOMAIN request.rows \ refused
           deleted == {id \in request.deleted \ refused : Exists(id)}
           sent(id) == [alive |-> TRUE, vals |-> request.rows[id], mod |-> clock + 1,
                        born |-> IF Exists(id) THEN server[id].born ELSE clock + 1]
           removed(id) == [server[id] EXCEPT !.alive = FALSE, !.mod = clock + 1]
<1>1. /\ clock' = clock + 1
      /\ server' = [id \in Ids |-> CASE id \in rows -> sent(id)
                                     [] id \in deleted -> removed(id)
                                     [] OTHER -> server[id]]
  BY DEF Accept
<1>2. clock \in Nat /\ request.rows \in [DOMAIN request.rows -> Contents]
  <2>1. request.rows \in Snapshots(Contents)
    BY DEF IInv, TypeOK, PushRequest
  <2> QED BY <2>1, SnapshotElim DEF IInv, TypeOK
<1>3. ASSUME NEW id \in Ids, Exists(id)
      PROVE  /\ server[id] \in ServerRow /\ server[id] # NoRow
             /\ server[id].born \in Nat /\ server[id].born <= clock
  <2>1. server[id] \in ServerRow /\ server[id] # NoRow
    BY <1>3 DEF Exists, IInv, TypeOK
  <2>2. server[id].born \in Nat /\ server[id].mod \in Nat
    BY <2>1 DEF ServerRow
  <2> QED BY <1>2, <2>1, <2>2 DEF Caught
<1> DEFINE new(row) == row # NoRow /\ row.mod = clock + 1 /\ row.born <= clock + 1
<1>4. ASSUME NEW id \in Ids, id \in rows PROVE new(sent(id))
  <2>1. sent(id) \in ServerRow
    BY <1>2, <1>3, <1>4 DEF ServerRow
  <2>2. /\ sent(id).mod = clock + 1
        /\ sent(id).born = IF Exists(id) THEN server[id].born ELSE clock + 1
    OBVIOUS
  <2> HIDE DEF sent
  <2> QED BY <1>2, <1>3, <2>1, <2>2, NoRowAssumption
<1>5. ASSUME NEW id \in Ids, id \in deleted PROVE new(removed(id))
  <2>1. clock + 1 \in Nat /\ server[id] \in ServerRow /\ server[id].born <= clock
        /\ server[id].born \in Nat
    BY <1>2, <1>3, <1>5
  <2>2. removed(id) \in ServerRow /\ removed(id).mod = clock + 1 /\ removed(id).born = server[id].born
    BY ONLY <2>1, RemovedAt
  <2> HIDE DEF removed
  <2> QED BY <1>2, <2>1, <2>2, NoRowAssumption
<1> HIDE DEF rows, sent, removed
<1>6. ASSUME NEW id \in Ids
      PROVE  /\ id \in rows \/ id \in deleted => new(server'[id])
             /\ id \notin rows /\ id \notin deleted => server'[id] = server[id]
  <2>1. id \notin rows /\ id \notin deleted => server'[id] = server[id]
    BY <1>1
  <2>2. id \in rows /\ id \notin deleted => server'[id] = sent(id)
    BY <1>1
  <2>3. id \notin rows /\ id \in deleted => server'[id] = removed(id)
    BY <1>1
  <2>4. id \in rows /\ id \in deleted => server'[id] \in {sent(id), removed(id)}
    BY <1>1
  <2> HIDE DEF new
  <2> QED BY <1>4, <1>5, <2>1, <2>2, <2>3, <2>4
<1>7. \A id \in Ids : id \in request.deleted \ refused =>
        id \in deleted \/ ~Alive(server[id])
  BY DEF Alive, Exists
<1> QED BY <1>1, <1>6, <1>7 DEF Moved, rows

(* What the server accepts it changes after every pull.                    *)
LEMMA ServerHandlesPushCaught ==
  ASSUME IInv, OneCall, Caught, NEW request \in wire, ServerHandlesPush(request)
  PROVE  Caught'
<1> DEFINE s       == request.from
           refused == Conflicts(request)
           state   == [sync[s] EXCEPT !.phase = "answered", !.rejected = refused]
<1>1. wire' = wire \ {request} /\ UNCHANGED <<store, mem, lastPulledAt>>
  BY DEF ServerHandlesPush, db
<1>2. request \in PushRequest /\ s \in Sessions /\ clock \in Nat /\ lastPulledAt \in Nat
      /\ lastPulledAt <= clock
  BY DEF IInv, TypeOK, PushRequest, Times
<1>3. request.awaited => \A r \in wire' : ~r.awaited
  <2>1. \A r \in wire : r.awaited => r.from = s
    BY <1>2 DEF OneCall, IInv, TypeOK, PushRequest
  <2> QED BY <1>1, <2>1 DEF IInv, Wired
<1>4. ASSUME Accept(request, refused), request.awaited, sync' = [sync EXCEPT ![s] = state]
      PROVE  Caught'
  <2>1. /\ sync[s] \in Call /\ Asked(sync[s], request) /\ sync[s].phase = "pushing"
    BY <1>2, <1>4 DEF IInv, TypeOK, Caught, Wired
  <2>2. refused \in SUBSET Ids
    <3>1. request.rows \in Snapshots(Contents) /\ request.deleted \subseteq Ids
      BY <1>2 DEF PushRequest
    <3> QED BY <3>1, SnapshotElim DEF Conflicts
  <2>3. /\ state.phase = "answered" /\ state.rejected = refused
        /\ state.copies = sync[s].copies /\ state.pushedDeleted = sync[s].pushedDeleted
    BY ONLY <2>1, <2>2 DEF Call
  <2>4. \A t \in Sessions : sync'[t] = state
    BY <1>2, <1>4 DEF OneCall, IInv, TypeOK
  <2> HIDE DEF state, refused
  <2>5. ASSUME NEW id \in Ids \ refused
        PROVE  /\ id \in DOMAIN state.copies => Changed(server'[id], lastPulledAt)
               /\ id \in state.pushedDeleted => ~Alive(server'[id]) \/ Changed(server'[id], lastPulledAt)
    <3>1. /\ id \in DOMAIN request.rows => server'[id] # NoRow /\ server'[id].mod = clock + 1
          /\ id \in request.deleted =>
               ~Alive(server'[id]) \/ (server'[id] # NoRow /\ server'[id].mod = clock + 1)
      BY <1>4, AcceptMoves
    <3> QED BY <1>2, <2>1, <2>3, <3>1 DEF Changed, Asked
  <2>6. Told(state, server', store, mem, lastPulledAt)
    BY <2>3, <2>5 DEF Told, Answered, Marks
  <2> QED BY <1>1, <1>3, <1>4, <2>4, <2>6, AcceptMoves, ServerCaught
<1>5. ASSUME Accept(request, refused), sync' = sync
      PROVE  Caught'
  BY <1>1, <1>5, AcceptMoves, ServerChanges
<1>6. ASSUME UNCHANGED remote, Become(s, Idle), request.awaited
      PROVE  Caught'
  BY <1>1, <1>2, <1>3, <1>6, IdleTold, CallCaught DEF remote, Caught
<1>7. ASSUME UNCHANGED remote, sync' = sync
      PROVE  Caught'
  BY <1>1, <1>7 DEF remote, Caught
<1> QED BY <1>4, <1>5, <1>6, <1>7 DEF ServerHandlesPush, Become
-----------------------------------------------------------------------------
(* Resets, the end of the process and the user.                            *)
LEMMA ResetBeginsCaught ==
  ASSUME IInv, OneCall, Caught, ResetBegins
  PROVE  Caught'
<1>1. /\ sync' = queueAborted /\ writer = Nobody
      /\ UNCHANGED <<store, mem, lastPulledAt, server, clock, wire>>
  BY DEF ResetBegins, db, remote
<1>2. \A t \in Sessions : Told(sync'[t], server, store, mem, lastPulledAt)
  BY <1>1, IdleTold DEF queueAborted, Caught
<1>3. \A request \in wire : request.awaited => sync'[request.from] = sync[request.from]
  BY <1>1 DEF IInv, TypeOK, PushRequest, Wired, queueAborted
<1> QED BY <1>1, <1>2, <1>3 DEF Caught

LEMMA CrashCaught ==
  ASSUME IInv, OneCall, Caught, Crash
  PROVE  Caught'
<1>1. /\ sync' = [s \in Sessions |-> Idle]
      /\ wire' = {[request EXCEPT !.awaited = FALSE] : request \in wire}
      /\ mem' = [id \in Ids |-> IF IsLive(store[id]) THEN store[id] ELSE NoRow]
      /\ UNCHANGED <<store, lastPulledAt, server, clock>>
  BY DEF Crash, remote
<1>2. \A r \in wire' : ~r.awaited
  <2>1. \A request \in PushRequest : ~[request EXCEPT !.awaited = FALSE].awaited
    BY DEF PushRequest
  <2> QED BY <1>1, <2>1 DEF IInv, TypeOK
<1>3. \A id \in Ids : Clean(mem'[id])
  BY <1>1 DEF Caught, Clean
<1> QED BY <1>1, <1>2, <1>3, IdleTold DEF Caught

(* After a reset everything on the server is new.                          *)
LEMMA ResetEndsCaught ==
  ASSUME IInv, OneCall, Caught, ResetEnds
  PROVE  Caught'
<1>1. /\ writer = Resetter /\ lastPulledAt' = 0
      /\ store' = [id \in Ids |-> NoRow] /\ mem' = store'
      /\ UNCHANGED <<server, clock, wire>>
  BY DEF ResetEnds, remote
<1>2. \A id \in Ids : server[id] # NoRow => Changed(server[id], 0)
  <2> TAKE id \in Ids
  <2> HAVE server[id] # NoRow
  <2>1. server[id].mod \in Nat
    BY DEF IInv, TypeOK, ServerRow
  <2> QED BY <2>1 DEF Caught, Changed
<1>3. KeptUp(server, store', 0) /\ \A id \in Ids : Clean(store'[id]) /\ Clean(mem'[id])
  BY <1>1, <1>2 DEF KeptUp, Level, Same, Alive, Clean
<1>4. ASSUME NEW t \in Sessions
      PROVE  /\ sync[t] \in Call /\ sync[t].phase \notin Inside
             /\ sync'[t].phase = sync[t].phase /\ sync'[t].pull = sync[t].pull
             /\ sync'[t].since = sync[t].since /\ DOMAIN sync'[t].copies \subseteq DOMAIN sync[t].copies
             /\ sync'[t].pushedDeleted = sync[t].pushedDeleted
             /\ sync'[t].rejected = sync[t].rejected
  <2> DEFINE copies == Only(sync[t].copies, {id \in Ids : id \in DOMAIN sync[t].copies
                                                          /\ mem[id] = sync[t].copies[id]})
  <2>1. sync[t] \in Call /\ sync'[t] = [sync[t] EXCEPT !.copies = copies]
    BY DEF ResetEnds, IInv, TypeOK
  <2>2. DOMAIN copies \subseteq DOMAIN sync[t].copies
    BY DEF Only
  <2> HIDE DEF copies
  <2>3. sync[t].phase \notin Inside
    BY <1>1, NoCallHas DEF IInv, Queue
  <2> QED BY <2>1, <2>2, <2>3 DEF Call
<1>5. ASSUME NEW t \in Sessions
      PROVE  Told(sync'[t], server, store', mem', 0)
  <2>1. Told(sync[t], server, store, mem, lastPulledAt)
    BY DEF Caught
  <2>2. sync'[t].phase \in Answered => \A id \in Ids :
          /\ Tells(sync'[t].pull, sync'[t].since, id, server[id])
          /\ id \in sync'[t].pull.created => Changed(server[id], sync'[t].since)
    BY <1>4, <2>1 DEF Told
  <2>3. \A id \in Ids : id \in DOMAIN sync'[t].copies \ sync'[t].rejected
          /\ sync'[t].phase \in {"answered"} \cup Marks => Changed(server[id], 0)
    BY <1>2, <1>4, <2>1 DEF Told, Changed
  <2>4. \A id \in Ids : ~Alive(server[id]) \/ Changed(server[id], 0)
    BY <1>2 DEF Alive
  <2> QED BY <1>4, <2>2, <2>3, <2>4 DEF Told, Inside
<1>6. \A request \in wire' : request.awaited => Asked(sync'[request.from], request)
  BY <1>1, <1>4 DEF Caught, Asked, IInv, TypeOK, PushRequest
<1> QED BY <1>1, <1>3, <1>5, <1>6 DEF Caught
(* What the user writes is not marked as synced.                           *)
LEMMA UserCaught ==
  ASSUME IInv, Caught, writer = Nobody, UNCHANGED <<lastPulledAt, wire, server, clock>>, NEW id \in Ids,
         \A x \in Ids : x # id => store'[x] = store[x] /\ mem'[x] = mem[x],
         ~Behind(store'[id]), Clean(store'[id]), Clean(mem'[id]),
         \A t \in Sessions : /\ sync'[t].phase = sync[t].phase /\ sync'[t].pull = sync[t].pull
                             /\ sync'[t].since = sync[t].since
                             /\ DOMAIN sync'[t].copies \subseteq DOMAIN sync[t].copies
                             /\ sync'[t].pushedDeleted = sync[t].pushedDeleted
                             /\ sync'[t].rejected = sync[t].rejected
  PROVE  Caught'
<1>1. KeptUp(server, store', lastPulledAt) /\ \A x \in Ids : Clean(store'[x]) /\ Clean(mem'[x])
  BY DEF Caught, KeptUp, Level
<1>2. ASSUME NEW t \in Sessions
      PROVE  Told(sync'[t], server, store', mem', lastPulledAt)
  <2>1. Told(sync[t], server, store, mem, lastPulledAt)
    BY DEF Caught
  <2>2. sync[t].phase \notin Inside
    BY NoCallHas DEF IInv, Queue
  <2>3. sync'[t].phase \in Answered => \A x \in Ids :
          /\ Tells(sync'[t].pull, sync'[t].since, x, server[x])
          /\ x \in sync'[t].pull.created => Changed(server[x], sync'[t].since)
    BY <2>1 DEF Told
  <2>4. sync'[t].phase \in {"answered"} \cup Marks => \A x \in Ids \ sync'[t].rejected :
          /\ x \in DOMAIN sync'[t].copies => Changed(server[x], lastPulledAt)
          /\ x \in sync'[t].pushedDeleted => ~Alive(server[x]) \/ Changed(server[x], lastPulledAt)
    BY <2>1 DEF Told
  <2> QED BY <2>2, <2>3, <2>4 DEF Told, Inside
<1>3. \A request \in wire' : request.awaited => Asked(sync'[request.from], request)
  BY DEF Caught, Asked, IInv, TypeOK, PushRequest
<1> QED BY <1>1, <1>2, <1>3 DEF Caught

LEMMA UserStepCaught ==
  ASSUME IInv, Caught, NothingFails, UserStep
  PROVE  Caught'
<1>1. PICK id \in Ids : \/ \E vals \in Contents : UserCreates(id, vals)
                        \/ \E c \in Columns, v \in Values : UserEdits(id, c, v)
                        \/ UserDeletes(id)
  BY DEF UserStep
<1>2. store \in [Ids -> Row \cup {NoRow}] /\ mem \in [Ids -> Row \cup {NoRow}]
  BY DEF IInv, TypeOK
<1>3. "editFails" \notin Disturbed
  BY DEF NothingFails
<1>4. ASSUME NEW vals \in Contents, UserCreates(id, vals)
      PROVE  Caught'
  <2> DEFINE row == [status |-> "created", changed |-> {}, vals |-> vals]
  <2>1. /\ writer = Nobody /\ UNCHANGED <<lastPulledAt, wire, server, clock, sync>>
        /\ store' = [store EXCEPT ![id] = row] /\ mem' = [mem EXCEPT ![id] = row]
    BY <1>4 DEF UserCreates, remote
  <2>2. ~Behind(row) /\ Clean(row)
    BY NoRowAssumption DEF Behind, Clean, Row
  <2> HIDE DEF row
  <2>3. /\ store'[id] = row /\ mem'[id] = row
        /\ \A x \in Ids : x # id => store'[x] = store[x] /\ mem'[x] = mem[x]
    BY <1>2, <2>1
  <2> QED BY <2>1, <2>2, <2>3, UserCaught
<1>5. ASSUME NEW c \in Columns, NEW v \in Values, UserEdits(id, c, v)
      PROVE  Caught'
  <2> DEFINE row == setRawColumnChange(mem[id], c, v)
  <2>1. /\ writer = Nobody /\ id \in Live /\ UNCHANGED <<lastPulledAt, wire, server, clock, sync>>
        /\ mem' = [mem EXCEPT ![id] = row] /\ store' = [store EXCEPT ![id] = mem'[id]]
    BY <1>3, <1>5 DEF UserEdits, remote
  <2>2. mem[id] \in Row
    BY <1>2, <2>1 DEF IInv, Rows
  <2>3. ~Behind(row) /\ Clean(row)
    <3>1. row \in Row /\ row.status # "synced"
      BY <2>2 DEF setRawColumnChange, Row, Contents
    <3> QED BY <3>1, NoRowAssumption DEF Behind, Clean
  <2> HIDE DEF row
  <2>4. /\ store'[id] = row /\ mem'[id] = row
        /\ \A x \in Ids : x # id => store'[x] = store[x] /\ mem'[x] = mem[x]
    BY <1>2, <2>1
  <2> QED BY <2>1, <2>3, <2>4, UserCaught
<1>6. CASE UserDeletes(id)
  <2>1. /\ writer = Nobody /\ id \in Live /\ UNCHANGED <<lastPulledAt, wire, server, clock>>
        /\ store' = [store EXCEPT ![id].status = "deleted"] /\ mem' = [mem EXCEPT ![id] = NoRow]
        /\ sync' = Forget({id})
    BY <1>3, <1>6 DEF UserDeletes, remote
  <2>2. store[id] \in Row
    BY <1>2, <2>1 DEF Live, IsLive
  <2> DEFINE row == [store[id] EXCEPT !.status = "deleted"]
  <2>3. ~Behind(row) /\ Clean(row) /\ Clean(NoRow)
    <3>1. row \in Row /\ row.status = "deleted"
      BY <2>2 DEF Row
    <3> QED BY <3>1, NoRowAssumption DEF Behind, Clean
  <2>4. /\ store'[id] = row /\ mem'[id] = NoRow
        /\ \A x \in Ids : x # id => store'[x] = store[x] /\ mem'[x] = mem[x]
    BY <1>2, <2>1
  <2>5. ASSUME NEW t \in Sessions
        PROVE  /\ sync'[t].phase = sync[t].phase /\ sync'[t].pull = sync[t].pull
               /\ sync'[t].since = sync[t].since
               /\ DOMAIN sync'[t].copies \subseteq DOMAIN sync[t].copies
               /\ sync'[t].pushedDeleted = sync[t].pushedDeleted
               /\ sync'[t].rejected = sync[t].rejected
    <3> DEFINE copies == Only(sync[t].copies, Ids \ {id})
    <3>1. sync[t] \in Call /\ sync'[t] = [sync[t] EXCEPT !.copies = copies]
      BY <2>1 DEF Forget, IInv, TypeOK
    <3>2. DOMAIN copies \subseteq DOMAIN sync[t].copies
      BY DEF Only
    <3> HIDE DEF copies
    <3> QED BY ONLY <3>1, <3>2 DEF Call
  <2> HIDE DEF row
  <2> QED BY <2>1, <2>3, <2>4, <2>5, UserCaught
<1> QED BY <1>1, <1>4, <1>5, <1>6

-----------------------------------------------------------------------------
(* Every step keeps it.                                                    *)
LEMMA CaughtStep ==
  ASSUME IInv, Memory, OneCall, NothingFails, Caught, [Next]_vars
  PROVE  Caught'
<1>1. ASSUME NEW s \in Sessions, Start(s) \/ SessionStep(s) \/ PullFails(s) \/ PushFails(s)
      PROVE  Caught'
  BY ONLY IInv, Memory, OneCall, Caught, <1>1, StartCaught, ServerAnswersPullCaught, PullArrivesCaught,
     ApplyRemoteChangesCaught, ApplyBatchCaught, SetLastPulledAtCaught, FetchLocalChangesCaught,
     PushAnsweredCaught, MarkLocalChangesAsSyncedCaught, MarkBatchCaught, MarkDestroysCaught,
     PullFailsCaught, PushFailsCaught DEF SessionStep
<1>2. ASSUME NEW s \in Sessions
      PROVE  ~ApplyBatchFails(s) /\ ~MarkBatchFails(s)
  BY DEF ApplyBatchFails, MarkBatchFails, Disturb, NothingFails
<1>3. ASSUME NEW request \in wire, ServerHandlesPush(request)
      PROVE  Caught'
  BY ONLY IInv, OneCall, Caught, <1>3, ServerHandlesPushCaught
<1>4. ASSUME (\E request \in wire : RequestIsLost(request)) \/ UNCHANGED vars
      PROVE  Caught'
  <2>1. UNCHANGED <<store, mem, lastPulledAt, sync, server, clock>> /\ wire' \subseteq wire
    BY <1>4 DEF RequestIsLost, db, remote, vars
  <2> QED BY <2>1 DEF Caught
<1>5. ASSUME NEW id \in Ids, RemoteDeletes(id) \/ \E vals \in Contents : RemoteWrites(id, vals)
      PROVE  Caught'
  BY ONLY IInv, Caught, <1>5, RemoteDeletesCaught, RemoteWritesCaught
<1>6. ASSUME Crash \/ ResetBegins \/ ResetEnds \/ UserStep
      PROVE  Caught'
  BY ONLY IInv, OneCall, NothingFails, Caught, <1>6, CrashCaught, ResetBeginsCaught, ResetEndsCaught,
     UserStepCaught
<1> QED BY ONLY [Next]_vars, <1>1, <1>2, <1>3, <1>4, <1>5, <1>6 DEF Next, WorldStep

LEMMA CaughtInit ==
  ASSUME Init
  PROVE  Memory /\ Caught
<1>1. \A id \in Ids : store[id] = NoRow /\ mem[id] = NoRow
  BY DEF Init
<1>2. \A s \in Sessions : sync[s] = Idle /\ sync[s].phase = "idle"
  BY DEF Init, Idle
<1>3. Memory
  BY <1>1, <1>2, NoRowAgrees DEF Memory, Agree, Apart, Pushing, Marks
<1>4. PICK known \in SUBSET Ids : \E vals \in [known -> Contents] :
        server = [id \in Ids |-> IF id \in known
                    THEN [alive |-> TRUE, vals |-> vals[id], born |-> 1, mod |-> 1]
                    ELSE NoRow]
  BY DEF Init
<1>5. PICK vals \in [known -> Contents] :
        server = [id \in Ids |-> IF id \in known
                    THEN [alive |-> TRUE, vals |-> vals[id], born |-> 1, mod |-> 1]
                    ELSE NoRow]
  BY <1>4
<1>6. \A id \in Ids : server[id] = NoRow \/ (server[id].mod = 1 /\ server[id].born = 1)
  BY <1>5
<1>7. clock = 1 /\ lastPulledAt = 0 /\ wire = {}
  BY DEF Init
<1>8. KeptUp(server, store, lastPulledAt)
  BY <1>1, <1>6, <1>7 DEF KeptUp, Level, Same, Alive, Changed
<1>9. \A id \in Ids : Clean(store[id]) /\ Clean(mem[id])
  BY <1>1 DEF Clean
<1>10. \A s \in Sessions : Told(sync[s], server, store, mem, lastPulledAt)
  BY <1>2, IdleTold
<1> QED BY <1>3, <1>6, <1>7, <1>8, <1>9, <1>10 DEF Caught

(* With one call at a time and no batch that is rejected, no change of the *)
(* server is passed over: a row that is synced, or not there, is what the  *)
(* server has, or the server changed it after lastPulledAt.                *)
THEOREM NoChangeSkipped ==
  ASSUME OneCall, NothingFails
  PROVE  Spec => []NoChangeIsSkipped
<1>1. IInv /\ Memory /\ Caught /\ [Next]_vars => Memory' /\ Caught'
  BY MemoryStep, CaughtStep
<1>2. Caught => NoChangeIsSkipped
  BY DEF Caught, KeptUp, Level, Behind, Same, Changed, Alive, NoChangeIsSkipped, InStep, Exists
<1> QED BY <1>1, <1>2, CaughtInit, Invariant, PTL DEF Spec

=============================================================================
