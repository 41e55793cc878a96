------------------------ MODULE NativeDatabase_proofs ------------------------
(***************************************************************************)
(* Proofs about NativeDatabase, for any set of Databases, any set of ids   *)
(* and any schema version.                                                 *)
(*                                                                         *)
(* That the file is changed by whole calls rests on what a call that is    *)
(* under way has still to do: what is left of its statements, run on the   *)
(* file as its transaction sees it, has the effect of all of them on the   *)
(* file as it was (Working). This holds while nothing else changes the     *)
(* file, hence on there being one transaction at a time (OneWriter), and   *)
(* while nothing closes the connection, hence on the mutex being held      *)
(* (NothingOutlivesItsCall).                                               *)
(***************************************************************************)
EXTENDS NativeDatabase, TLAPS

(* Statements. *)

Part(s, t) ==
  /\ s.create \subseteq t.create /\ s.destroy \subseteq t.destroy
  /\ s.purge \subseteq t.purge /\ s.marks \subseteq t.marks

(* What a call may consist of: marks and rows do not mix, and no id is    *)
(* created and deleted by the same call.                                  *)
LEMMA CallsAreStatements ==
  ASSUME NEW s \in Calls
  PROVE  /\ s \in Statements
         /\ s.create \cap Deleted(s) = {}
         /\ s.marks = {} \/ OnRows(s) = {}
         /\ s.marks \in {{}, {"schema", "version"}, {"steps", "version"}, {"pulled"}}
<1>1. CASE s \in Batches
  BY <1>1 DEF Batches
<1>2. CASE s \in {SetUp, Migration, SetPulled}
  BY <1>2 DEF SetUp, Migration, SetPulled, Nothing, Statements, Marks, Deleted, OnRows
<1> QED BY <1>1, <1>2 DEF Calls

(* Running statements makes of a file a file. *)
LEMMA EffectIsContents ==
  ASSUME NEW s \in Statements, NEW c \in Contents
  PROVE  Effect(s, c) \in Contents
BY VersionAssumption DEF Effect, Effects, Contents, Statements, Deleted

(* A single statement is one with one row or one mark. *)
LEMMA SingleIs ==
  ASSUME NEW s \in Statements, NEW one \in Singles(s)
  PROVE  /\ one \in Statements /\ Part(one, s)
         /\ \/ /\ \E id \in s.create : one.create = {id}
               /\ one.destroy = {} /\ one.purge = {} /\ one.marks = {}
            \/ /\ \E id \in s.destroy : one.destroy = {id}
               /\ one.create = {} /\ one.purge = {} /\ one.marks = {}
            \/ /\ \E id \in s.purge : one.purge = {id}
               /\ one.create = {} /\ one.destroy = {} /\ one.marks = {}
            \/ /\ \E m \in s.marks : one.marks = {m}
               /\ one.create = {} /\ one.destroy = {} /\ one.purge = {}
<1>1. CASE \E id \in s.create : one = [Nothing EXCEPT !.create = {id}]
  BY <1>1 DEF Statements, Nothing, Part
<1>2. CASE \E id \in s.destroy : one = [Nothing EXCEPT !.destroy = {id}]
  BY <1>2 DEF Statements, Nothing, Part
<1>3. CASE \E id \in s.purge : one = [Nothing EXCEPT !.purge = {id}]
  BY <1>3 DEF Statements, Nothing, Part
<1>4. CASE \E m \in s.marks : one = [Nothing EXCEPT !.marks = {m}]
  BY <1>4 DEF Statements, Nothing, Part
<1> QED BY <1>1, <1>2, <1>3, <1>4 DEF Singles

LEMMA WithoutIsPart ==
  ASSUME NEW s \in Statements, NEW t \in Statements
  PROVE  Without(s, t) \in Statements /\ Part(Without(s, t), s)
BY DEF Without, Statements, Part

(* One statement first and the others after it is the same as all of them. *)
LEMMA OneByOne ==
  ASSUME NEW all \in Calls, NEW s \in Statements, Part(s, all),
         NEW c \in Contents, NEW one \in Singles(s)
  PROVE  /\ Effect(Without(s, one), Effect(one, c)) = Effect(s, c)
         /\ Runs(one, c) /\ Runs(Without(s, one), Effect(one, c)) => Runs(s, c)
<1> DEFINE rest == Without(s, one)
           d == Effect(one, c)
<1>1. /\ s.create \cap Deleted(s) = {}
      /\ s.marks = {} \/ OnRows(s) = {}
      /\ {"schema", "steps"} \subseteq s.marks => FALSE
  BY CallsAreStatements DEF Part, Deleted, OnRows
<1>2. one \in Statements /\ Part(one, s)
  BY SingleIs
<1>3. rest \in Statements /\ rest = [create |-> s.create \ one.create,
        destroy |-> s.destroy \ one.destroy, purge |-> s.purge \ one.purge,
        marks |-> s.marks \ one.marks]
  BY <1>2, WithoutIsPart DEF Without
<1>4. /\ d.version = IF "version" \in one.marks THEN Version ELSE c.version
      /\ d.tables = IF {"schema", "steps"} \cap one.marks # {} THEN Version ELSE c.tables
      /\ d.rows = (c.rows \cup one.create) \ Deleted(one)
      /\ d.pulled = (c.pulled \/ "pulled" \in one.marks)
  BY DEF Effect, Effects
<1>5. Effect(rest, d).version = Effect(s, c).version
  BY <1>2, <1>3, <1>4 DEF Effect, Effects, Part
<1>6. Effect(rest, d).tables = Effect(s, c).tables
  BY <1>2, <1>3, <1>4 DEF Effect, Effects, Part
<1>7. Effect(rest, d).rows = Effect(s, c).rows
  <2>1. Effect(rest, d).rows = (((c.rows \cup one.create) \ Deleted(one)) \cup rest.create) \ Deleted(rest)
    BY <1>4 DEF Effect, Effects
  <2>2. Effect(s, c).rows = (c.rows \cup s.create) \ Deleted(s)
    BY DEF Effect, Effects
  <2>3. Deleted(one) \cup Deleted(rest) = Deleted(s) /\ one.create \cup rest.create = s.create
    BY <1>2, <1>3 DEF Deleted, Part, Statements
  <2> QED BY <2>1, <2>2, <2>3, <1>1
<1>8. Effect(rest, d).pulled = Effect(s, c).pulled
  <2>1. "pulled" \in s.marks <=> "pulled" \in one.marks \/ "pulled" \in rest.marks
    BY <1>2, <1>3 DEF Part
  <2>2. Effect(rest, d).pulled = (d.pulled \/ "pulled" \in rest.marks)
    BY DEF Effect, Effects
  <2>3. Effect(s, c).pulled = (c.pulled \/ "pulled" \in s.marks)
    BY DEF Effect, Effects
  <2> HIDE DEF d, rest
  <2> QED BY <2>1, <2>2, <2>3, <1>4, Zenon
<1>9. Effect(rest, d) = Effect(s, c)
  BY <1>5, <1>6, <1>7, <1>8 DEF Effect, Effects
<1>10. ASSUME Runs(one, c), Runs(rest, d)
       PROVE  Runs(s, c)
  <2>1. OnRows(s) # {} \/ "pulled" \in s.marks => c.tables > 0
    <3>1. CASE OnRows(one) # {} \/ "pulled" \in one.marks
      BY <3>1, <1>10 DEF Runs
    <3>2. CASE OnRows(one) = {} /\ "pulled" \notin one.marks
      <4>1. HAVE OnRows(s) # {} \/ "pulled" \in s.marks
      <4>2. OnRows(rest) # {} \/ "pulled" \in rest.marks
        BY <4>1, <3>2, <1>3 DEF OnRows, Deleted
      <4>3. {"schema", "steps"} \cap s.marks = {}
        BY <4>1, <1>1, CallsAreStatements DEF Part
      <4>4. d.tables = c.tables
        BY <4>3, <1>2, <1>4 DEF Part
      <4> QED BY <4>2, <4>4, <1>10 DEF Runs
    <3> QED BY <3>1, <3>2
  <2>2. /\ "schema" \in s.marks => c.tables = 0
        /\ "steps" \in s.marks => c.tables \in 1 .. Version - 1
    <3>1. \A m \in {"schema", "steps"} : m \in s.marks => m \in one.marks \/ (m \in rest.marks /\ d.tables = c.tables)
      BY <1>1, <1>2, <1>3, <1>4, CallsAreStatements DEF Part
    <3> QED BY <3>1, <1>10 DEF Runs
  <2>3. s.create \cap c.rows = {}
    <3>1. one.create \cap c.rows = {} /\ rest.create \cap d.rows = {}
      BY <1>10 DEF Runs
    <3>2. one.create \cup rest.create = s.create /\ Deleted(one) \cap s.create = {}
      BY <1>1, <1>2, <1>3 DEF Part, Deleted
    <3> QED BY <3>1, <3>2, <1>4
  <2> QED BY <2>1, <2>2, <2>3 DEF Runs
<1> QED BY <1>9, <1>10

-----------------------------------------------------------------------------
(* Types. *)

LEMMA StatementSets ==
  /\ Nothing \in Statements /\ Calls \subseteq Statements
  /\ \A d : AskedOf(d) \subseteq Calls
<1>1. Nothing \in Statements
  BY DEF Nothing, Statements
<1>2. \A d : AskedOf(d) \subseteq Calls
  BY DEF AskedOf, Calls, Loads
<1> QED BY <1>1, <1>2, CallsAreStatements

LEMMA CallTypes ==
  /\ Idle \in Call /\ Absent \in Object
  /\ Erased \in Contents
BY StatementSets, VersionAssumption DEF Idle, Absent, Call, Object, Ops, Erased, Contents

(* The locks: what a call holds, what it never lets go of before its end,  *)
(* and that no two transactions are open at a time.                        *)

Locks ==
  /\ NothingOutlivesItsCall
  /\ \A d \in Databases :
       /\ call[d].at = "idle" => call[d] = Idle
       /\ call[d].at # "idle" => object[d].stage = "usable"
       /\ call[d].at = "work" => tx[d] # NoTransaction
  /\ \A d, e \in Databases : tx[d] # NoTransaction /\ tx[e] # NoTransaction => d = e

LEMMA TypeGone ==
  ASSUME TypeOK, Gone
  PROVE  TypeOK'
BY CallTypes DEF TypeOK, Gone

(* Starting a call, and moving on in it. *)
LEMMA TypeMoves ==
  ASSUME TypeOK, NEW d \in Databases
  PROVE  /\ \A op \in Ops : Starting(d, op) \in [Databases -> Call]
         /\ \A s \in Statements : /\ Doing(d, call[d].op, "work", s) \in [Databases -> Call]
                                  /\ Doing(d, call[d].op, "failed", s) \in [Databases -> Call]
         /\ \A step \in {"idle", "start", "erase", "begin", "work", "failed"} :
              At(d, step) \in [Databases -> Call]
         /\ [call EXCEPT ![d] = Idle] \in [Databases -> Call]
BY CallTypes, StatementSets DEF TypeOK, Starting, Doing, At, Call

LEMMA TypeEnds ==
  ASSUME TypeOK, NEW d \in Databases, NEW thrown \in BOOLEAN, Ends(d, thrown)
  PROVE  /\ call' \in [Databases -> Call] /\ mutex' \subseteq Databases
         /\ turbo' \in [Databases -> {"none", "provided", "loaded"}]
         /\ JsonAfter(d, thrown) \subseteq Databases
BY TypeMoves DEF TypeOK, Ends, ReleasedAfter, TurboAfter, JsonAfter

(* What JavaScript goes on with is at most one microtask. *)
LEMMA GoesOn ==
  ASSUME TypeOK, NEW d \in Databases, NEW m \in Seq(Microtasks)
  PROVE  /\ GoingOn(d) = <<>> \/ \E task \in Microtasks : GoingOn(d) = <<task>>
         /\ m \o GoingOn(d) \in Seq(Microtasks)
<1>1. call[d].all \in Statements
  BY DEF TypeOK, Call
<1>2. GoingOn(d) = <<>> \/ \E task \in Microtasks : GoingOn(d) = <<task>>
  BY <1>1 DEF GoingOn, Microtasks, Statements
<1>3. CASE GoingOn(d) = <<>>
  BY <1>3
<1>4. ASSUME NEW task \in Microtasks, GoingOn(d) = <<task>>
      PROVE  m \o GoingOn(d) \in Seq(Microtasks)
  <2>1. <<task>> \in Seq(Microtasks)
    OBVIOUS
  <2> QED BY <1>4, <2>1
<1> QED BY <1>2, <1>3, <1>4

LEMMA TasksInTurn ==
  ASSUME NEW m \in Seq(Microtasks), m # <<>>
  PROVE  /\ Head(m) \in Microtasks /\ Tail(m) \in Seq(Microtasks)
         /\ Range(m) = {Head(m)} \cup Range(Tail(m))
<1>1. Head(m) \in Microtasks /\ Tail(m) \in Seq(Microtasks) /\ Len(m) \in Nat \ {0}
      /\ Head(m) = m[1] /\ Len(Tail(m)) = Len(m) - 1
      /\ \A i \in 1 .. Len(m) - 1 : Tail(m)[i] = m[i + 1]
  OBVIOUS
<1>2. ASSUME NEW i \in DOMAIN m
      PROVE  m[i] = Head(m) \/ m[i] \in Range(Tail(m))
  <2>1. i \in 1 .. Len(m)
    OBVIOUS
  <2>2. CASE i = 1
    BY <1>1, <2>2
  <2>3. CASE i # 1
    <3>1. i - 1 \in DOMAIN Tail(m) /\ Tail(m)[i - 1] = m[i]
      BY <1>1, <2>1, <2>3
    <3> QED BY <3>1 DEF Range
  <2> QED BY <2>2, <2>3
<1>3. ASSUME NEW i \in DOMAIN Tail(m)
      PROVE  Tail(m)[i] \in Range(m)
  <2>1. i + 1 \in DOMAIN m /\ m[i + 1] = Tail(m)[i]
    BY <1>1
  <2> QED BY <2>1 DEF Range
<1>4. Head(m) \in Range(m)
  BY <1>1 DEF Range
<1>5. \A t : t \in Range(m) => t = Head(m) \/ t \in Range(Tail(m))
  BY <1>2 DEF Range
<1>6. \A t : t \in Range(Tail(m)) => t \in Range(m)
  BY <1>3 DEF Range
<1> QED BY <1>1, <1>4, <1>5, <1>6

LEMMA OneTaskMore ==
  ASSUME NEW m \in Seq(Microtasks), NEW task \in Microtasks
  PROVE  /\ m \o <<task>> = Append(m, task)
         /\ Range(Append(m, task)) = Range(m) \cup {task}
<1>1. m \o <<task>> = Append(m, task)
  OBVIOUS
<1>2. /\ Len(Append(m, task)) = Len(m) + 1 /\ Append(m, task)[Len(m) + 1] = task
      /\ \A i \in 1 .. Len(m) : Append(m, task)[i] = m[i]
      /\ DOMAIN m = 1 .. Len(m) /\ DOMAIN Append(m, task) = 1 .. Len(m) + 1 /\ Len(m) \in Nat
  OBVIOUS
<1>3. \A t : t \in Range(Append(m, task)) => t \in Range(m) \cup {task}
  <2> SUFFICES ASSUME NEW i \in 1 .. Len(m) + 1 PROVE Append(m, task)[i] \in Range(m) \cup {task}
    BY <1>2 DEF Range
  <2>1. CASE i = Len(m) + 1
    BY <1>2, <2>1
  <2>2. CASE i # Len(m) + 1
    <3>1. i \in DOMAIN m /\ Append(m, task)[i] = m[i]
      BY <1>2, <2>2
    <3> QED BY <3>1 DEF Range
  <2> QED BY <2>1, <2>2
<1>4. \A i \in DOMAIN m : m[i] \in Range(Append(m, task))
  <2> SUFFICES ASSUME NEW i \in DOMAIN m PROVE m[i] \in Range(Append(m, task))
    OBVIOUS
  <2>1. i \in DOMAIN Append(m, task) /\ Append(m, task)[i] = m[i]
    BY <1>2
  <2> QED BY <2>1 DEF Range
<1>5. task \in Range(Append(m, task))
  <2>1. Len(m) + 1 \in DOMAIN Append(m, task)
    BY <1>2
  <2> QED BY <1>2, <2>1 DEF Range
<1>6. \A t : t \in Range(m) => t \in Range(Append(m, task))
  BY <1>4 DEF Range
<1> QED BY <1>1, <1>3, <1>5, <1>6

LEMMA TypeStep ==
  ASSUME TypeOK, Locks, [Next]_vars
  PROVE  TypeOK'
<1>1. CASE UNCHANGED vars
  BY <1>1 DEF TypeOK, vars, caches, sync
<1>2. CASE ProcessEnds
  BY <1>2, TypeGone DEF ProcessEnds
<1>3. ASSUME NEW d \in Databases, Proceed(d)
      PROVE  TypeOK'
  <2>1. CASE Lock(d)
    BY <2>1, TypeMoves DEF TypeOK, Lock, caches, sync
  <2>2. CASE Vacuum(d)
    BY <2>2, TypeMoves, CallTypes DEF TypeOK, Vacuum, caches, sync
  <2>3. CASE Begin(d)
    <3>1. call' \in [Databases -> Call]
      BY <2>3, StatementSets, TypeMoves DEF Begin
    <3> QED BY <2>3, <3>1 DEF TypeOK, Begin, ClearedFor, sync
  <2>4. CASE Execute(d)
    <3>1. PICK one \in Singles(call[d].left) :
            /\ tx' = [tx EXCEPT ![d] = Effect(one, @)]
            /\ call' = [call EXCEPT ![d].left = Without(@, one)]
            /\ Runs(one, tx[d])
      BY <2>4 DEF Execute
    <3>2. call[d].left \in Statements
      BY DEF TypeOK, Call
    <3>3. one \in Statements /\ Without(call[d].left, one) \in Statements
      BY <3>2, SingleIs, WithoutIsPart
    <3>4. tx[d] \in Contents
      BY <2>4 DEF TypeOK, Locks, Execute
    <3>5. Effect(one, tx[d]) \in Contents
      BY <3>3, <3>4, EffectIsContents
    <3>6. call' \in [Databases -> Call]
      BY <3>1, <3>3 DEF TypeOK, Call
    <3> QED BY <2>4, <3>1, <3>5, <3>6 DEF TypeOK, Execute, caches, sync
  <2>5. CASE Commit(d)
    <3>1. tx[d] \in Contents
      BY <2>5 DEF TypeOK, Locks, Commit
    <3>2. call[d].all.create \subseteq Ids
      BY DEF TypeOK, Call, Statements
    <3>3. CachedAfter(d) \in SUBSET Ids
      BY <3>2 DEF TypeOK, CachedAfter
    <3>4. microtasks[d] \o GoingOn(d) \in Seq(Microtasks)
      BY GoesOn DEF TypeOK
    <3>5. /\ disk' \in Contents /\ tx' \in [Databases -> Contents \cup {NoTransaction}]
          /\ cachedRecords' \in [Databases -> SUBSET Ids] /\ microtasks' \in [Databases -> Seq(Microtasks)]
          /\ UNCHANGED <<object, known, lost>>
      BY <2>5, <3>1, <3>3, <3>4 DEF TypeOK, Commit
    <3>6. Ends(d, FALSE) /\ syncJson' = JsonAfter(d, FALSE)
      BY <2>5 DEF Commit
    <3> QED BY <3>5, <3>6, TypeEnds DEF TypeOK
  <2>6. CASE BeginFails(d)
    BY <2>6, TypeEnds DEF TypeOK, BeginFails, caches
  <2>7. CASE StatementFails(d)
    BY <2>7, StatementSets, TypeMoves DEF TypeOK, StatementFails, caches, sync
  <2>8. CASE RollBack(d)
    BY <2>8, TypeEnds DEF TypeOK, RollBack, RolledBack, caches
  <2>9. CASE Abort(d)
    BY <2>9, TypeGone DEF Abort
  <2> QED BY <1>3, <2>1, <2>2, <2>3, <2>4, <2>5, <2>6, <2>7, <2>8, <2>9 DEF Proceed
<1>4. ASSUME NEW d \in Databases,
             Open(d) \/ Initialize(d) \/ Close(d) \/ TearDown(d) \/ Delete(d)
      PROVE  TypeOK'
  <2>1. CASE Open(d)
    <3>1. PICK garbage \in BOOLEAN :
            object' = [object EXCEPT ![d] = [stage |-> "opened", open |-> TRUE, isDestroyed |-> garbage]]
      BY <2>1 DEF Open
    <3>2. object' \in [Databases -> Object]
      BY <3>1 DEF TypeOK, Object
    <3> QED BY <2>1, <3>2 DEF TypeOK, Open, caches, sync
  <2>2. CASE Initialize(d)
    <3>1. setUpFor(disk.version) \in Ops
      BY DEF setUpFor, Ops
    <3>2. object' \in [Databases -> Object]
      BY <2>2 DEF TypeOK, Object, Initialize
    <3>3. call' \in [Databases -> Call]
      BY <2>2, <3>1, TypeMoves DEF TypeOK, Initialize
    <3> QED BY <2>2, <3>2, <3>3 DEF TypeOK, Initialize, caches, sync
  <2>3. CASE Close(d) \/ TearDown(d)
    <3>1. Destroy(d)
      BY <2>3 DEF Close, TearDown
    <3>2. object' \in [Databases -> Object]
      BY <3>1 DEF TypeOK, Object, Destroy, Destroyed
    <3>3. tx' \in [Databases -> Contents \cup {NoTransaction}]
      BY <3>1 DEF TypeOK, Destroy
    <3> QED BY <2>3, <3>2, <3>3 DEF TypeOK, Close, TearDown, caches, sync
  <2>4. CASE Delete(d)
    BY <2>4, CallTypes DEF TypeOK, Delete
  <2> QED BY <1>4, <2>1, <2>2, <2>3, <2>4
<1>5. ASSUME NEW d \in Databases,
             StartBatch(d) \/ StartReset(d) \/ StartLoad(d) \/ StartSetPulled(d)
      PROVE  TypeOK'
  BY <1>5, TypeMoves DEF TypeOK, StartBatch, StartReset, StartLoad, StartSetPulled, Start, Ops, caches, sync
<1>6. ASSUME NEW d \in Databases,
             Query(d) \/ QueryRaws(d) \/ QueryFails(d) \/ Find(d) \/ ExecuteMultiple(d) \/ Continue(d)
      PROVE  TypeOK'
  <2>1. disk.rows \subseteq Ids
    BY DEF TypeOK, Contents
  <2>2. CASE Query(d) \/ QueryFails(d) \/ Find(d)
    <3>4. microtasks' = microtasks
      BY <2>2 DEF Query, QueryFails, Find
    <3>1. PICK asked \in SUBSET disk.rows, read \in SUBSET disk.rows :
            /\ cachedRecords' = [cachedRecords EXCEPT ![d] = @ \cup asked]
            /\ known' = known \/ known' = [known EXCEPT ![d] = @ \cup read]
            /\ lost' = lost \/ lost' = [lost EXCEPT ![d] = @ \cup (asked \ cachedRecords[d])]
                 \/ lost' = [lost EXCEPT ![d] = @ \cup ((asked \ cachedRecords[d]) \ read)]
      <4>1. CASE Query(d) BY <4>1 DEF Query
      <4>2. CASE QueryFails(d) BY <4>2 DEF QueryFails
      <4>3. CASE Find(d) BY <4>3, ZenonT(30) DEF Find
      <4> QED BY <2>2, <4>1, <4>2, <4>3
    <3>2. UNCHANGED <<disk, tx, object, call, mutex, syncJson, turbo>>
      BY <2>2 DEF Query, QueryFails, Find, sync
    <3>3. asked \subseteq Ids /\ read \subseteq Ids
      BY <2>1
    <3> QED BY <3>1, <3>2, <3>3, <3>4, ZenonT(30) DEF TypeOK
  <2>3. CASE ExecuteMultiple(d)
    BY <2>3, EffectIsContents DEF TypeOK, ExecuteMultiple, Batches, caches, sync
  <2>4. CASE QueryRaws(d)
    <3>1. PICK asked, task :
            /\ asked \in SUBSET disk.rows
            /\ task = [of |-> "pull", bare |-> asked \cap cachedRecords[d],
                       add |-> asked \ cachedRecords[d], remove |-> {}]
            /\ cachedRecords' = [cachedRecords EXCEPT ![d] = @ \cup asked]
            /\ microtasks' = [microtasks EXCEPT ![d] = Append(@, task)]
      BY <2>4 DEF QueryRaws
    <3>2. task \in Microtasks
      BY <2>1, <3>1 DEF Microtasks
    <3>3. UNCHANGED <<disk, tx, object, call, mutex, known, lost, syncJson, turbo>>
      BY <2>4 DEF QueryRaws, sync
    <3>4. Append(microtasks[d], task) \in Seq(Microtasks)
      BY <3>2 DEF TypeOK
    <3>5. microtasks' \in [Databases -> Seq(Microtasks)]
      BY <3>1, <3>4 DEF TypeOK
    <3> QED BY <2>1, <3>1, <3>3, <3>5 DEF TypeOK
  <2>5. CASE Continue(d)
    <3>1. PICK task :
            /\ task = Head(microtasks[d]) /\ microtasks[d] # <<>>
            /\ known' = [known EXCEPT ![d] = KnownAfter(d, task)]
            /\ lost' = [lost EXCEPT ![d] = LostAfter(d, task)]
            /\ microtasks' = [microtasks EXCEPT ![d] = Tail(@)]
            /\ UNCHANGED <<disk, tx, object, call, mutex, cachedRecords, syncJson, turbo>>
      BY <2>5 DEF Continue, sync
    <3>2. task \in Microtasks /\ Tail(microtasks[d]) \in Seq(Microtasks)
      BY <3>1, TasksInTurn DEF TypeOK
    <3>3. KnownAfter(d, task) \subseteq Ids /\ LostAfter(d, task) \subseteq Ids
      BY <3>2 DEF TypeOK, KnownAfter, LostAfter, TakenIn, Microtasks
    <3> QED BY <3>1, <3>2, <3>3 DEF TypeOK
  <2> QED BY <1>6, <2>2, <2>3, <2>4, <2>5
<1>7. ASSUME NEW d \in Databases, ProvideJson(d) \/ TurboThrows(d)
      PROVE  TypeOK'
  BY <1>7 DEF TypeOK, ProvideJson, TurboThrows, caches
<1> QED BY ONLY [Next]_vars, <1>1, <1>2, <1>3, <1>4, <1>5, <1>6, <1>7 DEF Next

-----------------------------------------------------------------------------
(* Locks. *)

LEMMA LocksGone ==
  ASSUME Gone
  PROVE  Locks'
BY DEF Gone, Locks, NothingOutlivesItsCall, Idle

(* A call of d moves on from one place to another; what it holds must be   *)
(* what may be held there.                                                 *)
LEMMA LocksMove ==
  ASSUME TypeOK, Locks, NEW d \in Databases,
         call' \in [Databases -> Call],
         \A e \in Databases \ {d} : call'[e] = call[e] /\ tx'[e] = tx[e] /\ object'[e] = object[e],
         \A e \in Databases \ {d} : e \in mutex' <=> e \in mutex,
         call'[d].at = "idle" => call'[d] = Idle,
         call'[d].at # "idle" => object'[d].stage = "usable",
         call'[d].at = "work" => tx'[d] # NoTransaction,
         tx'[d] # NoTransaction => call'[d].at \in {"work", "failed"},
         d \in mutex' <=> call'[d].at \notin {"idle", "start"},
         tx'[d] # NoTransaction => tx[d] # NoTransaction \/ ~Busy(d)
  PROVE  Locks'
<1>1. NothingOutlivesItsCall'
  BY DEF Locks, NothingOutlivesItsCall
<1>2. \A e \in Databases :
        /\ call'[e].at = "idle" => call'[e] = Idle
        /\ call'[e].at # "idle" => object'[e].stage = "usable"
        /\ call'[e].at = "work" => tx'[e] # NoTransaction
  BY DEF Locks
<1>3. \A e, f \in Databases : tx'[e] # NoTransaction /\ tx'[f] # NoTransaction => e = f
  BY DEF Locks, Busy
<1> QED BY <1>1, <1>2, <1>3 DEF Locks

LEMMA LocksStep ==
  ASSUME TypeOK, Locks, [Next]_vars
  PROVE  Locks'
<1> USE DEF Object
<1>1. CASE UNCHANGED <<tx, object, call, mutex>>
  BY <1>1 DEF Locks, NothingOutlivesItsCall
<1>2. CASE ProcessEnds
  BY <1>2, LocksGone DEF ProcessEnds
<1>3. ASSUME NEW d \in Databases, Proceed(d)
      PROVE  Locks'
  <2> call' \in [Databases -> Call]
    BY TypeStep DEF TypeOK
  <2> USE DEF TypeOK, Call
  <2>1. CASE Lock(d)
    <3>1. /\ call'[d].at \in {"erase", "begin"} /\ mutex' = mutex \cup {d}
          /\ UNCHANGED <<tx, object>>
      BY <2>1 DEF Lock, At
    <3>2. \A e \in Databases \ {d} : call'[e] = call[e]
      BY <2>1 DEF Lock, At
    <3>3. call[d].at = "start"
      BY <2>1 DEF Lock
    <3>4. tx[d] = NoTransaction /\ object[d].stage = "usable"
      BY <3>3 DEF Locks, NothingOutlivesItsCall
    <3> QED BY <3>1, <3>2, <3>4, LocksMove
  <2>2. CASE Vacuum(d)
    <3>1. /\ call[d].at = "erase" /\ call'[d].at = "begin" /\ UNCHANGED <<tx, object, mutex>>
          /\ tx[d] = NoTransaction
      BY <2>2 DEF Vacuum, At
    <3>2. \A e \in Databases \ {d} : call'[e] = call[e]
      BY <2>2 DEF Vacuum, At
    <3>3. d \in mutex /\ object[d].stage = "usable"
      BY <3>1 DEF Locks, NothingOutlivesItsCall
    <3> QED BY <3>1, <3>2, <3>3, LocksMove
  <2>3. CASE Begin(d)
    <3>1. /\ call[d].at = "begin" /\ call'[d].at = "work" /\ UNCHANGED <<object, mutex>>
          /\ tx' = [tx EXCEPT ![d] = disk] /\ ~Busy(d)
      BY <2>3 DEF Begin, MayBegin, Doing
    <3>2. \A e \in Databases \ {d} : call'[e] = call[e] /\ tx'[e] = tx[e]
      BY <2>3 DEF Begin, Doing
    <3>3. d \in mutex /\ object[d].stage = "usable"
      BY <3>1 DEF Locks, NothingOutlivesItsCall
    <3>4. tx'[d] = disk /\ disk # NoTransaction
      BY <3>1, NativeAssumption
    <3> QED BY <3>1, <3>2, <3>3, <3>4, LocksMove
  <2>4. CASE Execute(d)
    <3>1. /\ call[d].at = "work" /\ call'[d].at = "work" /\ UNCHANGED <<object, mutex>>
          /\ tx[d] # NoTransaction
      BY <2>4 DEF Execute, Locks
    <3>2. \A e \in Databases \ {d} : call'[e] = call[e] /\ tx'[e] = tx[e]
      BY <2>4 DEF Execute
    <3>3. d \in mutex /\ object[d].stage = "usable"
      BY <3>1 DEF Locks, NothingOutlivesItsCall
    <3>4. tx'[d] # NoTransaction
      <4>1. PICK one \in Singles(call[d].left) : tx' = [tx EXCEPT ![d] = Effect(one, @)]
        BY <2>4 DEF Execute
      <4>2. Effect(one, tx[d]) \in Contents
        BY <3>1, SingleIs, EffectIsContents
      <4> QED BY <4>1, <4>2, NativeAssumption
    <3> QED BY <3>1, <3>2, <3>3, <3>4, LocksMove
  <2>5. CASE Commit(d) \/ BeginFails(d) \/ RollBack(d)
    <3>1. /\ call' = [call EXCEPT ![d] = Idle] /\ mutex' = mutex \ {d} /\ UNCHANGED object
      BY <2>5 DEF Commit, BeginFails, RollBack, Ends, ReleasedAfter
    <3>2. tx'[d] = NoTransaction /\ \A e \in Databases \ {d} : tx'[e] = tx[e]
      BY <2>5, ZenonT(30) DEF Commit, BeginFails, RollBack, RolledBack, Locks, NothingOutlivesItsCall
    <3>3. call'[d] = Idle /\ Idle.at = "idle" /\ \A e \in Databases \ {d} : call'[e] = call[e]
      BY <3>1 DEF Idle
    <3> QED BY <3>1, <3>2, <3>3, LocksMove
  <2>6. CASE StatementFails(d)
    <3>1. /\ call[d].at = "work" /\ call'[d].at = "failed" /\ UNCHANGED <<object, mutex>>
          /\ tx[d] # NoTransaction
      BY <2>6 DEF StatementFails, Locks, Doing
    <3>2. \A e \in Databases \ {d} : call'[e] = call[e] /\ tx'[e] = tx[e]
      BY <2>6 DEF StatementFails, Doing
    <3>3. d \in mutex /\ object[d].stage = "usable"
      BY <3>1 DEF Locks, NothingOutlivesItsCall
    <3> QED BY <3>1, <3>2, <3>3, LocksMove
  <2>7. CASE Abort(d)
    BY <2>7, LocksGone DEF Abort
  <2> QED BY <1>3, <2>1, <2>2, <2>3, <2>4, <2>5, <2>6, <2>7 DEF Proceed
<1>4. ASSUME NEW d \in Databases,
             Open(d) \/ Initialize(d) \/ Close(d) \/ TearDown(d) \/ Delete(d)
      PROVE  Locks'
  <2> call' \in [Databases -> Call]
    BY TypeStep DEF TypeOK
  <2> USE DEF TypeOK, Call
  <2>1. CASE Open(d)
    <3>1. object[d].stage = "absent" /\ UNCHANGED <<tx, call, mutex>>
      BY <2>1 DEF Open
    <3>2. call[d].at = "idle" /\ \A e \in Databases \ {d} : object'[e] = object[e]
      BY <2>1, <3>1 DEF Open, Locks
    <3> QED BY <3>1, <3>2 DEF Locks, NothingOutlivesItsCall
  <2>2. CASE Initialize(d)
    <3>1. object[d].stage = "opened" /\ object'[d].stage = "usable" /\ UNCHANGED <<tx, mutex>>
      BY <2>2 DEF Initialize
    <3>2. call[d].at = "idle" /\ call[d] = Idle /\ tx[d] = NoTransaction /\ d \notin mutex
      BY <3>1 DEF Locks, NothingOutlivesItsCall
    <3>3. call'[d] = call[d] \/ call'[d].at = "start"
      BY <2>2 DEF Initialize, Starting, Doing
    <3>4. \A e \in Databases \ {d} : object'[e] = object[e] /\ call'[e] = call[e]
      BY <2>2 DEF Initialize, Starting, Doing
    <3> QED BY <3>1, <3>2, <3>3, <3>4, LocksMove
  <2>3. CASE Close(d) \/ TearDown(d)
    <3>1. /\ d \notin mutex /\ object' = [object EXCEPT ![d] = Destroyed(object[d])]
          /\ tx' = tx \/ tx' = [tx EXCEPT ![d] = NoTransaction]
          /\ UNCHANGED <<call, mutex>>
      BY <2>3 DEF Close, TearDown, Destroy
    <3>2. Destroyed(object[d]).stage = object[d].stage
      BY DEF Destroyed
    <3>3. \A e \in Databases : object'[e].stage = object[e].stage
      BY <3>1, <3>2
    <3>4. call[d].at \in {"idle", "start"} /\ tx[d] = NoTransaction
      BY <3>1 DEF Locks, NothingOutlivesItsCall
    <3>5. tx' = tx
      BY <3>1, <3>4
    <3> QED BY <3>1, <3>3, <3>5 DEF Locks, NothingOutlivesItsCall
  <2>4. CASE Delete(d)
    <3>1. /\ call[d] = Idle /\ d \notin mutex /\ UNCHANGED <<call, mutex>>
          /\ tx' = [tx EXCEPT ![d] = NoTransaction]
          /\ \A e \in Databases \ {d} : object'[e] = object[e]
      BY <2>4 DEF Delete
    <3>2. call[d].at = "idle" /\ \A e \in Databases \ {d} : tx'[e] = tx[e]
      BY <3>1 DEF Idle
    <3> QED BY <3>1, <3>2, LocksMove
  <2> QED BY <1>4, <2>1, <2>2, <2>3, <2>4
<1>5. ASSUME NEW d \in Databases,
             StartBatch(d) \/ StartReset(d) \/ StartLoad(d) \/ StartSetPulled(d)
      PROVE  Locks'
  <2> call' \in [Databases -> Call]
    BY TypeStep DEF TypeOK
  <2> USE DEF TypeOK, Call
  <2>1. /\ call[d] = Idle /\ object[d].stage = "usable" /\ UNCHANGED <<tx, object, mutex>>
        /\ call'[d].at = "start" /\ \A e \in Databases \ {d} : call'[e] = call[e]
    BY <1>5 DEF StartBatch, StartReset, StartLoad, StartSetPulled, Start, Usable, Starting, Doing
  <2>2. tx[d] = NoTransaction /\ d \notin mutex
    <3>1. call[d].at = "idle"
      BY <2>1 DEF Idle
    <3> QED BY <3>1 DEF Locks, NothingOutlivesItsCall
  <2> QED BY <2>1, <2>2, LocksMove
<1>6. ASSUME NEW d \in Databases,
             \/ Query(d) \/ QueryRaws(d) \/ QueryFails(d) \/ Find(d) \/ ExecuteMultiple(d)
             \/ Continue(d) \/ ProvideJson(d) \/ TurboThrows(d)
      PROVE  UNCHANGED <<tx, object, call, mutex>>
  BY <1>6 DEF Query, QueryRaws, QueryFails, Find, ExecuteMultiple, Continue, ProvideJson, TurboThrows
<1>7. UNCHANGED vars => UNCHANGED <<tx, object, call, mutex>>
  BY DEF vars
<1> QED BY ONLY [Next]_vars, <1>1, <1>2, <1>3, <1>4, <1>5, <1>6, <1>7 DEF Next

-----------------------------------------------------------------------------
(* What is left to do. *)

Working ==
  \A d \in Databases : call[d].at = "work" =>
    /\ call[d].all \in Calls /\ Part(call[d].left, call[d].all)
    /\ Effect(call[d].left, tx[d]) = Effect(call[d].all, disk)
    /\ Runs(call[d].left, tx[d]) => Runs(call[d].all, disk)

(* Steps of which a call that is under way sees nothing. *)
LEMMA WorkingOthers ==
  ASSUME Working, NEW d \in Databases,
         \A e \in Databases \ {d} : call'[e] = call[e] /\ tx'[e] = tx[e],
         call'[d].at # "work",
         disk' = disk \/ \A e \in Databases \ {d} : call[e].at # "work"
  PROVE  Working'
BY DEF Working

LEMMA WorkingStep ==
  ASSUME TypeOK, Locks, Working, [Next]_vars
  PROVE  Working'
<1> USE DEF TypeOK, Call
<1>1. CASE UNCHANGED <<disk, tx, call>>
  BY <1>1 DEF Working
<1>2. ASSUME Gone
      PROVE  Working'
  BY <1>2 DEF Gone, Working, Idle
<1>3. ASSUME NEW d \in Databases, Proceed(d)
      PROVE  Working'
  <2>1. CASE Lock(d)
    <3>1. call'[d].at # "work" /\ UNCHANGED <<tx, disk>>
      BY <2>1 DEF Lock, At
    <3>2. \A e \in Databases \ {d} : call'[e] = call[e]
      BY <2>1 DEF Lock, At
    <3> QED BY <3>1, <3>2, WorkingOthers
  <2>2. CASE Vacuum(d)
    <3>1. call'[d].at # "work" /\ UNCHANGED tx /\ ~Busy(d)
      BY <2>2 DEF Vacuum, At
    <3>2. \A e \in Databases \ {d} : call'[e] = call[e]
      BY <2>2 DEF Vacuum, At
    <3>3. \A e \in Databases \ {d} : call[e].at # "work"
      BY <3>1 DEF Busy, Locks
    <3> QED BY <3>1, <3>2, <3>3, WorkingOthers
  <2>3. CASE Begin(d)
    <3>1. PICK s \in AskedOf(d) : call' = Doing(d, call[d].op, "work", s)
      BY <2>3 DEF Begin
    <3>2. s \in Calls
      BY <3>1, StatementSets
    <3>3. call'[d].all = s /\ call'[d].left = s /\ tx'[d] = disk /\ disk' = disk
      BY <2>3, <3>1 DEF Begin, Doing
    <3>4. \A e \in Databases \ {d} : call'[e] = call[e] /\ tx'[e] = tx[e]
      BY <2>3, <3>1 DEF Begin, Doing
    <3>5. Part(s, s)
      BY DEF Part
    <3> QED BY <3>2, <3>3, <3>4, <3>5 DEF Working
  <2>4. CASE Execute(d)
    <3>1. PICK one \in Singles(call[d].left) :
            /\ Runs(one, tx[d])
            /\ tx' = [tx EXCEPT ![d] = Effect(one, @)]
            /\ call' = [call EXCEPT ![d].left = Without(@, one)]
      BY <2>4 DEF Execute
    <3>2. /\ call[d].at = "work" /\ tx[d] \in Contents /\ call[d].left \in Statements
          /\ disk' = disk
      BY <2>4 DEF Execute, Locks
    <3> DEFINE all == call[d].all
               left == call[d].left
    <3>3. /\ all \in Calls /\ Part(left, all)
          /\ Effect(left, tx[d]) = Effect(all, disk)
          /\ Runs(left, tx[d]) => Runs(all, disk)
      BY <3>2 DEF Working
    <3>4. /\ call'[d].left = Without(left, one) /\ call'[d].all = all
          /\ tx'[d] = Effect(one, tx[d])
      BY <3>1
    <3>5. /\ Effect(Without(left, one), Effect(one, tx[d])) = Effect(left, tx[d])
          /\ Runs(Without(left, one), Effect(one, tx[d])) => Runs(left, tx[d])
      BY <3>1, <3>2, <3>3, OneByOne
    <3>6. Part(Without(left, one), all)
      BY <3>3 DEF Part, Without
    <3>7. \A e \in Databases \ {d} : call'[e] = call[e] /\ tx'[e] = tx[e]
      BY <3>1
    <3> HIDE DEF all, left
    <3>8. /\ call'[d].all \in Calls /\ Part(call'[d].left, call'[d].all)
          /\ Effect(call'[d].left, tx'[d]) = Effect(call'[d].all, disk')
          /\ Runs(call'[d].left, tx'[d]) => Runs(call'[d].all, disk')
      BY <3>2, <3>3, <3>4, <3>5, <3>6
    <3> QED BY <3>2, <3>7, <3>8 DEF Working
  <2>5. CASE Commit(d)
    <3>1. call' = [call EXCEPT ![d] = Idle] /\ call[d].at = "work" /\ tx' = [tx EXCEPT ![d] = NoTransaction]
      BY <2>5 DEF Commit, Ends
    <3>2. \A e \in Databases \ {d} : call[e].at # "work"
      BY <3>1 DEF Locks
    <3> QED BY <3>1, <3>2, WorkingOthers DEF Idle
  <2>6. CASE BeginFails(d) \/ RollBack(d)
    <3>1. call' = [call EXCEPT ![d] = Idle] /\ disk' = disk
      BY <2>6 DEF BeginFails, RollBack, Ends
    <3>2. \A e \in Databases \ {d} : tx'[e] = tx[e]
      BY <2>6 DEF BeginFails, RollBack, RolledBack
    <3> QED BY <3>1, <3>2, WorkingOthers DEF Idle
  <2>7. CASE StatementFails(d)
    <3>1. call'[d].at = "failed" /\ disk' = disk
      BY <2>7 DEF StatementFails, Doing
    <3>2. \A e \in Databases \ {d} : call'[e] = call[e] /\ tx'[e] = tx[e]
      BY <2>7 DEF StatementFails, Doing
    <3> QED BY <3>1, <3>2, WorkingOthers
  <2>8. CASE Abort(d)
    BY <2>8, <1>2 DEF Abort
  <2> QED BY <1>3, <2>1, <2>2, <2>3, <2>4, <2>5, <2>6, <2>7, <2>8 DEF Proceed
<1>4. ASSUME NEW d \in Databases,
             \/ Open(d) \/ Initialize(d) \/ Close(d) \/ TearDown(d) \/ Delete(d)
             \/ StartBatch(d) \/ StartReset(d) \/ StartLoad(d) \/ StartSetPulled(d)
      PROVE  Working'
  <2>1. disk' = disk
    BY <1>4 DEF Open, Initialize, Close, TearDown, Delete, StartBatch, StartReset, StartLoad,
      StartSetPulled, Start
  <2>2. \A e \in Databases \ {d} : call'[e] = call[e] /\ tx'[e] = tx[e]
    BY <1>4 DEF Open, Initialize, Close, TearDown, Destroy, Delete, StartBatch, StartReset,
      StartLoad, StartSetPulled, Start, Starting, Doing
  <2>3. call'[d].at # "work"
    <3>1. CASE Initialize(d)
      <4>1. call[d].at = "idle"
        BY <3>1 DEF Initialize, Locks
      <4> QED BY <3>1, <4>1 DEF Initialize, Starting, Doing
    <3>2. CASE StartBatch(d) \/ StartReset(d) \/ StartLoad(d) \/ StartSetPulled(d)
      BY <3>2 DEF StartBatch, StartReset, StartLoad, StartSetPulled, Start, Starting, Doing
    <3>3. CASE Open(d)
      BY <3>3 DEF Open, Locks
    <3>4. CASE Close(d) \/ TearDown(d) \/ Delete(d)
      BY <3>4 DEF Close, TearDown, Destroy, Delete, Locks, NothingOutlivesItsCall
    <3> QED BY <1>4, <3>1, <3>2, <3>3, <3>4
  <2> QED BY <2>1, <2>2, <2>3, WorkingOthers
<1>5. ASSUME NEW d \in Databases,
             \/ Query(d) \/ QueryRaws(d) \/ QueryFails(d) \/ Find(d) \/ Continue(d)
             \/ ProvideJson(d) \/ TurboThrows(d)
      PROVE  UNCHANGED <<disk, tx, call>>
  BY <1>5 DEF Query, QueryRaws, QueryFails, Find, Continue, ProvideJson, TurboThrows
<1>6. ASSUME NEW d \in Databases, ExecuteMultiple(d)
      PROVE  Working'
  <2>1. call[d] = Idle /\ ~Busy(d) /\ UNCHANGED <<tx, call>>
    BY <1>6 DEF ExecuteMultiple, Usable
  <2>2. \A e \in Databases : call[e].at # "work"
    BY <2>1 DEF Busy, Locks, Idle
  <2> QED BY <2>1, <2>2 DEF Working
<1>7. UNCHANGED vars => UNCHANGED <<disk, tx, call>>
  BY DEF vars
<1> QED BY ONLY [Next]_vars, <1>1, <1>2, <1>3, <1>4, <1>5, <1>6, <1>7 DEF Next, ProcessEnds

-----------------------------------------------------------------------------
(* The file. *)

LEMMA NothingLeft ==
  ASSUME NEW c \in Contents
  PROVE  Effect(Nothing, c) = c /\ Runs(Nothing, c)
BY DEF Effect, Effects, Nothing, Runs, OnRows, Deleted, Contents

(* DurableStore speaks of the same statements.                             *)
LEMMA SameStatements ==
  /\ Durable!Erased = Erased /\ Durable!Calls = Calls
  /\ Durable!FoundContents = FoundContents
  /\ \A s, c : Durable!Effect(s, c) = Effect(s, c)
  /\ \A s, c : Durable!Runs(s, c) <=> Runs(s, c)
<1>1. Durable!Erased = Erased /\ Durable!FoundContents = FoundContents
  BY DEF Durable!Erased, Erased, Durable!FoundContents, FoundContents, Durable!Contents, Contents
<1>2. Durable!Statements = Statements /\ Durable!Nothing = Nothing
  BY DEF Durable!Statements, Statements, Durable!Marks, Marks, Durable!Nothing, Nothing
<1>3. \A s : Durable!Deleted(s) = Deleted(s) /\ Durable!OnRows(s) = OnRows(s)
  BY DEF Durable!Deleted, Deleted, Durable!OnRows, OnRows
<1>4. Durable!Calls = Calls
  BY <1>2, <1>3 DEF Durable!Calls, Calls, Durable!Batches, Batches, Durable!SetUp, SetUp,
    Durable!Migration, Migration, Durable!SetPulled, SetPulled
<1>5. \A s, c : Durable!Effect(s, c) = Effect(s, c)
  BY <1>3 DEF Durable!Effect, Effect, Durable!Effects, Effects
<1>6. \A s, c : Durable!Runs(s, c) <=> Runs(s, c)
  BY <1>3 DEF Durable!Runs, Runs
<1> QED BY <1>1, <1>4, <1>5, <1>6

(* Every step erases the file, runs one whole call on it, or leaves it.    *)
LEMMA WholeCallStep ==
  ASSUME TypeOK, Locks, Working, [Next]_vars
  PROVE  disk' = disk \/ Durable!Next
<1>1. ASSUME NEW d \in Databases, Commit(d)
      PROVE  Durable!Next
  <2>1. /\ call[d].at = "work" /\ call[d].left = Nothing /\ disk' = tx[d]
    BY <1>1 DEF Commit
  <2>2. tx[d] \in Contents
    BY <2>1 DEF TypeOK, Locks
  <2>3. /\ call[d].all \in Calls /\ Effect(call[d].all, disk) = tx[d]
        /\ Runs(call[d].all, disk)
    BY <2>1, <2>2, NothingLeft DEF Working
  <2> QED BY <2>1, <2>3, SameStatements DEF Durable!Next, Durable!Run
<1>2. ASSUME NEW d \in Databases, Vacuum(d)
      PROVE  Durable!Next
  BY <1>2, SameStatements DEF Vacuum, Durable!Next
<1>3. ASSUME NEW d \in Databases, ExecuteMultiple(d)
      PROVE  Durable!Next
  BY <1>3, SameStatements DEF ExecuteMultiple, Durable!Next, Durable!Run, Calls
<1>4. ASSUME NEW d \in Databases,
             \/ Lock(d) \/ Begin(d) \/ Execute(d) \/ BeginFails(d) \/ StatementFails(d)
             \/ RollBack(d) \/ Abort(d)
      PROVE  disk' = disk
  BY <1>4 DEF Lock, Begin, Execute, BeginFails, StatementFails, RollBack, Abort, Gone
<1>5. ASSUME NEW d \in Databases,
             \/ Open(d) \/ Initialize(d) \/ Close(d) \/ TearDown(d) \/ Delete(d)
             \/ StartBatch(d) \/ StartReset(d) \/ StartLoad(d) \/ StartSetPulled(d)
             \/ Query(d) \/ QueryRaws(d) \/ QueryFails(d) \/ Find(d) \/ Continue(d)
             \/ ProvideJson(d) \/ TurboThrows(d)
      PROVE  disk' = disk
  BY <1>5 DEF Open, Initialize, Close, TearDown, Delete, StartBatch, StartReset, StartLoad,
    StartSetPulled, Start, Query, QueryRaws, QueryFails, Find, Continue, ProvideJson, TurboThrows
<1>6. ProcessEnds \/ UNCHANGED vars => disk' = disk
  BY DEF ProcessEnds, Gone, vars
<1> QED BY ONLY [Next]_vars, <1>1, <1>2, <1>3, <1>4, <1>5, <1>6 DEF Next, Proceed

LEMMA VersionStep ==
  ASSUME disk \in Contents, VersionIsOfTables, disk' = disk \/ Durable!Next
  PROVE  VersionIsOfTables'
<1>1. CASE disk' = disk
  BY <1>1 DEF VersionIsOfTables
<1>2. CASE disk' = Erased
  BY <1>2 DEF VersionIsOfTables, Erased
<1>3. ASSUME NEW s \in Calls, disk' = Effect(s, disk)
      PROVE  VersionIsOfTables'
  <2>1. "version" \in s.marks <=> {"schema", "steps"} \cap s.marks # {}
    BY CallsAreStatements
  <2> QED BY <1>3, <2>1 DEF VersionIsOfTables, Effect, Effects
<1> QED BY <1>1, <1>2, <1>3, SameStatements DEF Durable!Next, Durable!Run

-----------------------------------------------------------------------------
(* The caches, also during the calls. Ids that a call has marked and       *)
(* unmarked are known and forgotten by JavaScript when its microtasks have *)
(* run, in any order as far as ids are concerned: what is to be added and  *)
(* what is to be removed are different ids (Settling). A reset empties the *)
(* driver's side when its transaction begins, JavaScript's when it is      *)
(* through, and nothing is asked of the driver in between.                 *)

Erasing(d) == call[d].op \in Erases /\ call[d].at \in {"work", "failed"}

Fresh(d) == known[d] = {} /\ cachedRecords[d] = {} /\ lost[d] = {} /\ microtasks[d] = <<>>

WellMade(tasks) ==
  /\ \A task \in Range(tasks) : /\ task.of = "pull" => task.remove = {}
                                /\ task.of = "reset" => task.remove = Ids
  /\ \A i \in DOMAIN tasks : tasks[i].of = "reset" => i = Len(tasks)
  /\ \A i, j \in DOMAIN tasks : i # j => tasks[i].add \cap tasks[j].add = {}

SettlingTo(c, k, l, adds, removes) ==
  /\ c = (k \cup l \cup adds) \ removes
  /\ k \cap l = {} /\ k \cap adds = {} /\ adds \cap removes = {} /\ l \cap removes = {}

Settling(d) ==
  SettlingTo(cachedRecords[d], known[d], lost[d], Adding(microtasks[d]), Removing(microtasks[d]))

CachesOf(d) ==
  /\ WellMade(microtasks[d])
  /\ call[d] # Idle => ~Resetting(d)
  /\ IF Erasing(d) \/ Resetting(d) THEN cachedRecords[d] = {} ELSE Settling(d)
  /\ object[d].stage # "usable" \/ call[d].op = "setUp" => Fresh(d)

Asked ==
  \A d \in Databases : call[d].at = "work" =>
    /\ \A e \in Databases : call[d].all.create \cap Removing(microtasks[e]) = {}
    /\ call[d].op = "batch" =>
         /\ call[d].all.create \cap (known[d] \cup Adding(microtasks[d])) = {}
         /\ call[d].all.destroy \subseteq known[d] /\ call[d].all.create \cap call[d].all.destroy = {}

Unmade == \A d \in Databases : Removing(microtasks[d]) \cap disk.rows = {}

Caches == Asked /\ Unmade /\ \A d \in Databases : CachesOf(d)

LEMMA NoTasks == Range(<<>>) = {} /\ Adding(<<>>) = {} /\ Removing(<<>>) = {} /\ WellMade(<<>>)
<1>1. Range(<<>>) = {} /\ DOMAIN <<>> = {}
  BY DEF Range
<1> QED BY <1>1 DEF Adding, Removing, WellMade

LEMMA MoreTasks ==
  ASSUME NEW m \in Seq(Microtasks), NEW task \in Microtasks
  PROVE  /\ Adding(Append(m, task)) = Adding(m) \cup task.add
         /\ Removing(Append(m, task)) =
              Removing(m) \cup (IF task.of = "batch" THEN task.remove ELSE {})
<1>1. Range(Append(m, task)) = Range(m) \cup {task}
  BY OneTaskMore
<1>2. Adding(Append(m, task)) = Adding(m) \cup task.add
  BY <1>1 DEF Adding
<1>3. CASE task.of = "batch"
  <2>1. {t \in Range(Append(m, task)) : t.of = "batch"} = {t \in Range(m) : t.of = "batch"} \cup {task}
    BY <1>1, <1>3
  <2> QED BY <1>2, <1>3, <2>1 DEF Removing
<1>4. CASE task.of # "batch"
  <2>1. {t \in Range(Append(m, task)) : t.of = "batch"} = {t \in Range(m) : t.of = "batch"}
    BY <1>1, <1>4
  <2> QED BY <1>2, <1>4, <2>1 DEF Removing
<1> QED BY <1>3, <1>4

LEMMA FewerTasks ==
  ASSUME NEW m \in Seq(Microtasks), m # <<>>
  PROVE  /\ Adding(m) = Head(m).add \cup Adding(Tail(m))
         /\ Removing(m) = (IF Head(m).of = "batch" THEN Head(m).remove ELSE {}) \cup Removing(Tail(m))
<1>1. Range(m) = {Head(m)} \cup Range(Tail(m))
  BY TasksInTurn
<1>2. Adding(m) = Head(m).add \cup Adding(Tail(m))
  BY <1>1 DEF Adding
<1>3. CASE Head(m).of = "batch"
  <2>1. {t \in Range(m) : t.of = "batch"} = {Head(m)} \cup {t \in Range(Tail(m)) : t.of = "batch"}
    BY <1>1, <1>3
  <2> QED BY <1>2, <1>3, <2>1 DEF Removing
<1>4. CASE Head(m).of # "batch"
  <2>1. {t \in Range(m) : t.of = "batch"} = {t \in Range(Tail(m)) : t.of = "batch"}
    BY <1>1, <1>4
  <2> QED BY <1>2, <1>4, <2>1 DEF Removing
<1> QED BY <1>3, <1>4

LEMMA WellMadeMore ==
  ASSUME NEW m \in Seq(Microtasks), NEW task \in Microtasks, WellMade(m),
         task.of = "pull" => task.remove = {}, task.of = "reset" => task.remove = Ids,
         \A t \in Range(m) : t.of # "reset", task.add \cap Adding(m) = {}
  PROVE  WellMade(Append(m, task))
<1> DEFINE more == Append(m, task)
<1>1. /\ Len(more) = Len(m) + 1 /\ more[Len(m) + 1] = task /\ Len(m) \in Nat
      /\ \A i \in DOMAIN m : more[i] = m[i] /\ i \in 1 .. Len(m)
      /\ \A i \in DOMAIN more : i \in DOMAIN m \/ i = Len(m) + 1
  OBVIOUS
<1>2. Range(more) = Range(m) \cup {task}
  BY OneTaskMore
<1>3. \A i \in DOMAIN m : m[i] \in Range(m)
  BY DEF Range
<1> HIDE DEF more
<1>4. \A t \in Range(more) : (t.of = "pull" => t.remove = {}) /\ (t.of = "reset" => t.remove = Ids)
  BY <1>2 DEF WellMade
<1>5. \A i \in DOMAIN more : more[i].of = "reset" => i = Len(more)
  BY <1>1, <1>3
<1>6. ASSUME NEW i \in DOMAIN more, NEW j \in DOMAIN more, i # j
      PROVE  more[i].add \cap more[j].add = {}
  <2>1. \A k \in DOMAIN m : m[k].add \subseteq Adding(m)
    BY <1>3 DEF Adding
  <2>2. CASE i \in DOMAIN m /\ j \in DOMAIN m
    BY <1>1, <1>6, <2>2 DEF WellMade
  <2>3. CASE i = Len(m) + 1 /\ j \in DOMAIN m
    BY <1>1, <2>1, <2>3
  <2>4. CASE j = Len(m) + 1 /\ i \in DOMAIN m
    BY <1>1, <2>1, <2>4
  <2> QED BY <1>1, <1>6, <2>2, <2>3, <2>4
<1> QED BY <1>4, <1>5, <1>6 DEF WellMade, more

LEMMA WellMadeFewer ==
  ASSUME NEW m \in Seq(Microtasks), m # <<>>, WellMade(m)
  PROVE  /\ WellMade(Tail(m)) /\ Head(m).add \cap Adding(Tail(m)) = {}
         /\ Head(m).of = "reset" => Tail(m) = <<>>
         /\ Head(m).of = "pull" => Head(m).remove = {}
         /\ Head(m).of = "reset" => Head(m).remove = Ids
<1> DEFINE rest == Tail(m)
<1>1. /\ Len(m) \in Nat \ {0} /\ Len(rest) = Len(m) - 1 /\ Head(m) = m[1]
      /\ 1 \in DOMAIN m /\ rest \in Seq(Microtasks)
      /\ \A i \in DOMAIN rest : rest[i] = m[i + 1] /\ i + 1 \in DOMAIN m /\ i \in Nat \ {0}
  OBVIOUS
<1>2. Range(m) = {Head(m)} \cup Range(rest)
  BY TasksInTurn
<1>3. Head(m).of = "reset" => rest = <<>>
  BY <1>1 DEF WellMade
<1> HIDE DEF rest
<1>4. /\ \A t \in Range(rest) : (t.of = "pull" => t.remove = {}) /\ (t.of = "reset" => t.remove = Ids)
      /\ Head(m).of = "pull" => Head(m).remove = {}
      /\ Head(m).of = "reset" => Head(m).remove = Ids
  BY <1>2 DEF WellMade
<1>5. \A i \in DOMAIN rest : rest[i].of = "reset" => i = Len(rest)
  BY <1>1 DEF WellMade
<1>6. \A i, j \in DOMAIN rest : i # j => rest[i].add \cap rest[j].add = {}
  BY <1>1 DEF WellMade
<1>7. Head(m).add \cap Adding(rest) = {}
  <2>1. \A i \in DOMAIN rest : Head(m).add \cap rest[i].add = {}
    BY <1>1 DEF WellMade
  <2>2. \A t \in Range(rest) : Head(m).add \cap t.add = {}
    BY <2>1 DEF Range
  <2> QED BY <2>2 DEF Adding
<1> QED BY <1>3, <1>4, <1>5, <1>6, <1>7 DEF WellMade, rest

(* What is asked of a call stays what may be asked. *)
LEMMA AskedOthers ==
  ASSUME Asked, NEW d \in Databases, call'[d].at # "work",
         \A e \in Databases \ {d} :
           call'[e] = call[e] /\ known'[e] = known[e] /\ microtasks'[e] = microtasks[e],
         Removing(microtasks'[d]) \subseteq Removing(microtasks[d])
  PROVE  Asked'
<1>1. \A e \in Databases : Removing(microtasks'[e]) \subseteq Removing(microtasks[e])
  OBVIOUS
<1> QED BY <1>1 DEF Asked

LEMMA AskedStep ==
  ASSUME TypeOK, Locks, Asked, [Next]_vars
  PROVE  Asked'
<1> USE DEF TypeOK, Call
<1>1. UNCHANGED <<call, known, microtasks>> => Asked'
  BY DEF Asked
<1>2. ASSUME Gone
      PROVE  Asked'
  BY <1>2 DEF Gone, Asked, Idle
<1>3. ASSUME NEW d \in Databases, Proceed(d)
      PROVE  Asked'
  <2>1. CASE Lock(d) \/ Vacuum(d) \/ StatementFails(d)
    <3>1. /\ call'[d].at # "work" /\ UNCHANGED <<known, microtasks>>
          /\ \A e \in Databases \ {d} : call'[e] = call[e]
      BY <2>1 DEF Lock, Vacuum, StatementFails, Doing, At, caches
    <3> QED BY <3>1, AskedOthers
  <2>2. CASE Begin(d)
    <3>1. PICK s \in AskedOf(d) : call' = Doing(d, call[d].op, "work", s)
      BY <2>2 DEF Begin
    <3>2. /\ call'[d].all = s /\ call'[d].op = call[d].op /\ UNCHANGED <<known, microtasks>>
          /\ \A e \in Databases \ {d} : call'[e] = call[e]
      BY <2>2, <3>1 DEF Begin, Doing
    <3>3. \A e \in Databases : s.create \cap Removing(microtasks[e]) = {}
      <4>1. s \in {SetUp, Migration, SetPulled} \/ Creatable(s)
        BY <3>1 DEF AskedOf
      <4>2. s \in {SetUp, Migration, SetPulled} => s.create = {}
        BY DEF SetUp, Migration, SetPulled, Nothing
      <4> QED BY <4>1, <4>2 DEF Creatable
    <3>4. call[d].op = "batch" =>
            /\ s.create \cap (known[d] \cup Adding(microtasks[d])) = {}
            /\ s.destroy \subseteq known[d] /\ s.create \cap s.destroy = {}
      BY <3>1 DEF AskedOf, Erases, Batches, Deleted
    <3> QED BY <3>2, <3>3, <3>4 DEF Asked
  <2>3. CASE Execute(d)
    <3>1. /\ call'[d].all = call[d].all /\ call'[d].op = call[d].op /\ call[d].at = "work"
          /\ UNCHANGED <<known, microtasks>> /\ \A e \in Databases \ {d} : call'[e] = call[e]
      BY <2>3 DEF Execute, caches
    <3> QED BY <3>1, ZenonT(30) DEF Asked
  <2>4. CASE Commit(d)
    <3>1. call[d].at = "work" /\ call' = [call EXCEPT ![d] = Idle]
      BY <2>4 DEF Commit, Ends
    <3>2. \A e \in Databases : call'[e].at # "work"
      BY <3>1 DEF Locks, Idle
    <3> QED BY <3>2 DEF Asked
  <2>5. CASE BeginFails(d) \/ RollBack(d)
    <3>1. call' = [call EXCEPT ![d] = Idle] /\ UNCHANGED <<known, microtasks>>
      BY <2>5 DEF BeginFails, RollBack, Ends, caches
    <3>2. call'[d].at # "work" /\ \A e \in Databases \ {d} : call'[e] = call[e]
      BY <3>1 DEF Idle
    <3> QED BY <3>1, <3>2, AskedOthers
  <2>6. CASE Abort(d)
    BY <2>6, <1>2 DEF Abort
  <2> QED BY <1>3, <2>1, <2>2, <2>3, <2>4, <2>5, <2>6 DEF Proceed
<1>4. ASSUME NEW d \in Databases,
             \/ Initialize(d) \/ StartBatch(d) \/ StartReset(d) \/ StartLoad(d) \/ StartSetPulled(d)
      PROVE  Asked'
  <2>1. CASE Initialize(d)
    <3>1. object[d].stage = "opened" /\ UNCHANGED <<known, microtasks>>
          /\ (call'[d] = call[d] \/ call'[d].at = "start")
          /\ \A e \in Databases \ {d} : call'[e] = call[e]
      BY <2>1 DEF Initialize, Starting, Doing, caches
    <3>2. call[d].at = "idle"
      BY <3>1 DEF Locks
    <3> QED BY <3>1, <3>2, AskedOthers
  <2>2. CASE StartBatch(d) \/ StartReset(d) \/ StartLoad(d) \/ StartSetPulled(d)
    <3>1. /\ call'[d].at = "start" /\ UNCHANGED <<known, microtasks>>
          /\ \A e \in Databases \ {d} : call'[e] = call[e]
      BY <2>2 DEF StartBatch, StartReset, StartLoad, StartSetPulled, Start, Starting, Doing, caches
    <3> QED BY <3>1, AskedOthers
  <2> QED BY <1>4, <2>1, <2>2
<1>5. ASSUME NEW d \in Databases,
             \/ Delete(d) \/ Query(d) \/ QueryRaws(d) \/ Find(d) \/ Continue(d)
      PROVE  Asked'
  <2>1. call[d] = Idle /\ call' = call
    BY <1>5 DEF Delete, Query, QueryRaws, Find, Continue, MayRead, Usable
  <2>2. call'[d].at # "work" /\ \A e \in Databases : call'[e] = call[e]
    BY <2>1 DEF Idle
  <2>3. CASE Query(d) \/ Find(d)
    <3>1. microtasks' = microtasks /\ \A e \in Databases \ {d} : known'[e] = known[e]
      BY <2>3 DEF Query, Find
    <3> QED BY <2>2, <3>1, AskedOthers
  <2>4. CASE Delete(d)
    <3>1. /\ microtasks' = [microtasks EXCEPT ![d] = <<>>]
          /\ \A e \in Databases \ {d} : known'[e] = known[e]
      BY <2>4 DEF Delete
    <3> QED BY <2>2, <3>1, AskedOthers, NoTasks
  <2>5. CASE QueryRaws(d)
    <3>1. PICK asked, task :
            /\ asked \in SUBSET disk.rows
            /\ task = [of |-> "pull", bare |-> asked \cap cachedRecords[d],
                       add |-> asked \ cachedRecords[d], remove |-> {}]
            /\ microtasks' = [microtasks EXCEPT ![d] = Append(@, task)] /\ known' = known
      BY <2>5 DEF QueryRaws
    <3>2. task \in Microtasks /\ task.of # "batch"
      BY <3>1 DEF Microtasks, Contents
    <3>3. Removing(Append(microtasks[d], task)) = Removing(microtasks[d])
      BY <3>2, MoreTasks
    <3> QED BY <2>2, <3>1, <3>3, AskedOthers
  <2>6. CASE Continue(d)
    <3>1. /\ microtasks' = [microtasks EXCEPT ![d] = Tail(@)] /\ microtasks[d] # <<>>
          /\ \A e \in Databases \ {d} : known'[e] = known[e]
      BY <2>6 DEF Continue
    <3>2. Removing(Tail(microtasks[d])) \subseteq Removing(microtasks[d])
      BY <3>1, FewerTasks
    <3> QED BY <2>2, <3>1, <3>2, AskedOthers
  <2> QED BY <1>5, <2>3, <2>4, <2>5, <2>6
<1>6. ASSUME NEW d \in Databases,
             \/ Open(d) \/ Close(d) \/ TearDown(d) \/ QueryFails(d) \/ ExecuteMultiple(d)
             \/ ProvideJson(d) \/ TurboThrows(d)
      PROVE  UNCHANGED <<call, known, microtasks>>
  BY <1>6 DEF Open, Close, TearDown, QueryFails, ExecuteMultiple, ProvideJson, TurboThrows, caches
<1>7. UNCHANGED vars => UNCHANGED <<call, known, microtasks>>
  BY DEF vars, caches
<1> QED BY ONLY [Next]_vars, <1>1, <1>2, <1>3, <1>4, <1>5, <1>6, <1>7 DEF Next, ProcessEnds

(* No row is there that JavaScript has still to hear the end of. *)
LEMMA UnmadeStep ==
  ASSUME TypeOK, Locks, Working, Asked, Unmade, [Next]_vars
  PROVE  Unmade'
<1> USE DEF TypeOK, Call
<1>1. ASSUME disk'.rows \subseteq disk.rows,
             \A d \in Databases : Removing(microtasks'[d]) \subseteq Removing(microtasks[d])
      PROVE  Unmade'
  BY <1>1 DEF Unmade
<1>2. ASSUME Gone
      PROVE  Unmade'
  <2>1. \A d \in Databases : microtasks'[d] = <<>>
    BY <1>2 DEF Gone
  <2> QED BY <2>1, NoTasks DEF Unmade
<1>3. ASSUME NEW d \in Databases, Commit(d)
      PROVE  Unmade'
  <2>1. /\ call[d].at = "work" /\ call[d].left = Nothing /\ disk' = tx[d]
        /\ microtasks' = [microtasks EXCEPT ![d] = @ \o GoingOn(d)]
    BY <1>3 DEF Commit
  <2>2. tx[d] \in Contents
    BY <2>1 DEF Locks
  <2>3. Effect(call[d].all, disk) = tx[d]
    BY <2>1, <2>2, NothingLeft DEF Working
  <2>4. disk'.rows = (disk.rows \cup call[d].all.create) \ Deleted(call[d].all)
    BY <2>1, <2>3 DEF Effect, Effects
  <2>5. \A e \in Databases : Removing(microtasks[e]) \cap disk'.rows = {}
    BY <2>1, <2>4 DEF Unmade, Asked
  <2>6. Removing(microtasks[d] \o GoingOn(d)) \subseteq Removing(microtasks[d]) \cup call[d].all.destroy
    <3>1. CASE GoingOn(d) = <<>>
      BY <3>1
    <3>2. ASSUME NEW task \in Microtasks, GoingOn(d) = <<task>>
          PROVE  Removing(microtasks[d] \o GoingOn(d)) \subseteq
                   Removing(microtasks[d]) \cup call[d].all.destroy
      <4>1. task.of = "batch" => task.remove = call[d].all.destroy
        <5>1. GoingOn(d)[1] = task /\ GoingOn(d) # <<>>
          BY <3>2
        <5>2. CASE call[d].op = "batch" /\ call[d].all.create \cup call[d].all.destroy # {}
          BY <5>1, <5>2 DEF GoingOn
        <5>3. CASE call[d].op = "reset"
          BY <5>1, <5>3 DEF GoingOn
        <5> QED BY <5>1, <5>2, <5>3 DEF GoingOn
      <4>2. microtasks[d] \o GoingOn(d) = Append(microtasks[d], task)
        BY <3>2, OneTaskMore
      <4> QED BY <4>1, <4>2, MoreTasks
    <3> QED BY <3>1, <3>2, GoesOn
  <2>7. call[d].all.destroy \cap disk'.rows = {}
    BY <2>4 DEF Deleted
  <2>8. \A e \in Databases :
          Removing(microtasks'[e]) \subseteq Removing(microtasks[e]) \cup call[d].all.destroy
    BY <2>1, <2>6
  <2> QED BY <2>5, <2>7, <2>8 DEF Unmade
<1>4. ASSUME NEW d \in Databases, Vacuum(d) \/ ExecuteMultiple(d)
      PROVE  Unmade'
  <2>1. disk'.rows \subseteq disk.rows
    <3>1. CASE Vacuum(d)
      BY <3>1 DEF Vacuum, Erased
    <3>2. CASE ExecuteMultiple(d)
      BY <3>2 DEF ExecuteMultiple, Effect, Effects
    <3> QED BY <1>4, <3>1, <3>2
  <2>2. microtasks' = microtasks
    BY <1>4 DEF Vacuum, ExecuteMultiple, caches
  <2> QED BY <2>1, <2>2, <1>1
<1>5. ASSUME NEW d \in Databases,
             \/ Lock(d) \/ Begin(d) \/ Execute(d) \/ BeginFails(d) \/ StatementFails(d) \/ RollBack(d)
             \/ Open(d) \/ Initialize(d) \/ Close(d) \/ TearDown(d)
             \/ StartBatch(d) \/ StartReset(d) \/ StartLoad(d) \/ StartSetPulled(d)
             \/ Query(d) \/ QueryFails(d) \/ Find(d) \/ ProvideJson(d) \/ TurboThrows(d)
      PROVE  UNCHANGED <<disk, microtasks>>
  BY <1>5 DEF Lock, Begin, Execute, BeginFails, StatementFails, RollBack, Open, Initialize, Close,
    TearDown, StartBatch, StartReset, StartLoad, StartSetPulled, Start, Query, QueryFails, Find,
    ProvideJson, TurboThrows, caches
<1>6. ASSUME NEW d \in Databases, Delete(d) \/ QueryRaws(d) \/ Continue(d)
      PROVE  Unmade'
  <2>1. disk' = disk
    BY <1>6 DEF Delete, QueryRaws, Continue
  <2>2. CASE Delete(d)
    <3>1. microtasks' = [microtasks EXCEPT ![d] = <<>>]
      BY <2>2 DEF Delete
    <3> QED BY <1>1, <2>1, <3>1, NoTasks
  <2>3. CASE QueryRaws(d)
    <3>1. PICK asked, task :
            /\ asked \in SUBSET disk.rows
            /\ task = [of |-> "pull", bare |-> asked \cap cachedRecords[d],
                       add |-> asked \ cachedRecords[d], remove |-> {}]
            /\ microtasks' = [microtasks EXCEPT ![d] = Append(@, task)]
      BY <2>3 DEF QueryRaws
    <3>2. task \in Microtasks /\ task.of # "batch"
      BY <3>1 DEF Microtasks, Contents
    <3>3. Removing(Append(microtasks[d], task)) = Removing(microtasks[d])
      BY <3>2, MoreTasks
    <3> QED BY <1>1, <2>1, <3>1, <3>3
  <2>4. CASE Continue(d)
    <3>1. microtasks' = [microtasks EXCEPT ![d] = Tail(@)] /\ microtasks[d] # <<>>
      BY <2>4 DEF Continue
    <3>2. Removing(Tail(microtasks[d])) \subseteq Removing(microtasks[d])
      BY <3>1, FewerTasks
    <3> QED BY <1>1, <2>1, <3>1, <3>2
  <2> QED BY <1>6, <2>2, <2>3, <2>4
<1>7. UNCHANGED <<disk, microtasks>> => Unmade'
  BY DEF Unmade
<1>8. UNCHANGED vars => UNCHANGED <<disk, microtasks>>
  BY DEF vars, caches
<1>9. ASSUME NEW d \in Databases, Abort(d)
      PROVE  Unmade'
  BY <1>9, <1>2 DEF Abort
<1> QED BY ONLY [Next]_vars, <1>2, <1>3, <1>4, <1>5, <1>6, <1>7, <1>8, <1>9 DEF Next, Proceed, ProcessEnds

(* JavaScript takes in the first of its microtasks.                        *)
LEMMA SettlingOn ==
  ASSUME NEW c, NEW k, NEW l, NEW add, NEW remove, NEW adds, NEW removes, NEW taken,
         SettlingTo(c, k, l, add \cup adds, remove \cup removes),
         add \cap adds = {}, taken \in {{}, add}, NEW after, after = (k \cup taken) \ remove
  PROVE  SettlingTo(c, after, (l \cup add) \ (remove \cup after), adds, removes)
<1> DEFINE left == (l \cup add) \ (remove \cup after)
<1>1. taken \subseteq add
  OBVIOUS
<1>2. after \cup left = ((k \cup l) \cup add) \ remove
  BY <1>1
<1>3. c = ((k \cup l) \cup (add \cup adds)) \ (remove \cup removes)
  BY DEF SettlingTo
<1>4. (add \cup adds) \cap (remove \cup removes) = {} /\ l \cap (remove \cup removes) = {}
      /\ k \cap (add \cup adds) = {}
  BY DEF SettlingTo
<1>5. c = ((after \cup left) \cup adds) \ removes
  BY <1>2, <1>3, <1>4
<1>6. after \cap left = {} /\ after \cap adds = {} /\ adds \cap removes = {}
  BY <1>1, <1>4
<1>7. left \cap removes = {}
  BY <1>4
<1> HIDE DEF left
<1>8. SettlingTo(c, after, left, adds, removes)
  BY <1>5, <1>6, <1>7 DEF SettlingTo
<1> QED BY <1>8 DEF left

(* Rows are read: those that were not marked get models, or are lost.      *)
LEMMA SettlingRead ==
  ASSUME NEW c, NEW k, NEW l, NEW adds, NEW removes, NEW asked, NEW read,
         SettlingTo(c, k, l, adds, removes), asked \cap removes = {}, read \subseteq asked \ c
  PROVE  SettlingTo(c \cup asked, k \cup read, l \cup ((asked \ c) \ read), adds, removes)
<1>1. c = ((k \cup l) \cup adds) \ removes /\ k \cap l = {} /\ k \cap adds = {}
      /\ adds \cap removes = {} /\ l \cap removes = {}
  BY DEF SettlingTo
<1>2. (asked \ c) \cap (k \cup (l \cup adds)) = {}
  BY <1>1
<1>3. c \cup asked = (((k \cup read) \cup (l \cup ((asked \ c) \ read))) \cup adds) \ removes
  BY <1>1
<1>4. (k \cup read) \cap (l \cup ((asked \ c) \ read)) = {}
  BY <1>1, <1>2
<1>5. (k \cup read) \cap adds = {} /\ (l \cup ((asked \ c) \ read)) \cap removes = {}
  BY <1>1, <1>2
<1> QED BY <1>1, <1>3, <1>4, <1>5 DEF SettlingTo

(* ... or models later.                                                    *)
LEMMA SettlingReadRaw ==
  ASSUME NEW c, NEW k, NEW l, NEW adds, NEW removes, NEW asked,
         SettlingTo(c, k, l, adds, removes), asked \cap removes = {}
  PROVE  /\ (asked \ c) \cap adds = {}
         /\ SettlingTo(c \cup asked, k, l, adds \cup (asked \ c), removes)
<1>1. c = ((k \cup l) \cup adds) \ removes /\ k \cap l = {} /\ k \cap adds = {}
      /\ adds \cap removes = {} /\ l \cap removes = {}
  BY DEF SettlingTo
<1>2. (asked \ c) \cap (k \cup adds) = {} /\ (asked \ c) \cap removes = {}
  BY <1>1
<1>3. c \cup asked = ((k \cup l) \cup (adds \cup (asked \ c))) \ removes
  BY <1>1
<1> QED BY <1>1, <1>2, <1>3 DEF SettlingTo

(* A batch is committed.                                                   *)
LEMMA SettlingBatch ==
  ASSUME NEW c, NEW k, NEW l, NEW adds, NEW removes, NEW create, NEW destroy,
         SettlingTo(c, k, l, adds, removes), create \cap removes = {},
         create \cap (k \cup adds) = {}, destroy \subseteq k, create \cap destroy = {}
  PROVE  SettlingTo((c \cup create) \ destroy, k, l, adds \cup create, removes \cup destroy)
<1>1. c = ((k \cup l) \cup adds) \ removes /\ k \cap l = {} /\ k \cap adds = {}
      /\ adds \cap removes = {} /\ l \cap removes = {}
  BY DEF SettlingTo
<1>2. (c \cup create) \ destroy = ((k \cup l) \cup (adds \cup create)) \ (removes \cup destroy)
  BY <1>1
<1>3. (adds \cup create) \cap (removes \cup destroy) = {} /\ l \cap (removes \cup destroy) = {}
      /\ k \cap (adds \cup create) = {}
  BY <1>1
<1> QED BY <1>1, <1>2, <1>3 DEF SettlingTo

CacheVars(d) == <<object[d], call[d], cachedRecords[d], known[d], lost[d], microtasks[d]>>

LEMMA FreshSettles ==
  ASSUME NEW d \in Databases, Fresh(d)
  PROVE  Settling(d) /\ WellMade(microtasks[d]) /\ ~Resetting(d)
BY NoTasks DEF Fresh, Settling, SettlingTo, Resetting

LEMMA CachesOfStep ==
  ASSUME TypeOK, Locks, Caches, [Next]_vars
  PROVE  \A d \in Databases : CachesOf(d)'
<1> USE DEF TypeOK, Call
<1> DEFINE Goal == \A f \in Databases : CachesOf(f)'
<1>1. ASSUME NEW e \in Databases, CacheVars(e)' = CacheVars(e)
      PROVE  CachesOf(e)'
  <2>1. /\ object'[e] = object[e] /\ call'[e] = call[e] /\ cachedRecords'[e] = cachedRecords[e]
        /\ known'[e] = known[e] /\ lost'[e] = lost[e] /\ microtasks'[e] = microtasks[e]
    BY <1>1 DEF CacheVars
  <2>2. CachesOf(e)
    BY DEF Caches
  <2> QED BY <2>1, <2>2 DEF CachesOf, Settling, Erasing, Resetting, Fresh
<1>2. ASSUME Gone
      PROVE  Goal
  <2> SUFFICES ASSUME NEW d \in Databases PROVE CachesOf(d)'
    OBVIOUS
  <2>1. /\ call'[d] = Idle /\ known'[d] = {} /\ cachedRecords'[d] = {} /\ lost'[d] = {}
        /\ microtasks'[d] = <<>>
    BY <1>2 DEF Gone
  <2> QED BY <2>1, NoTasks DEF CachesOf, Erasing, Erases, Idle, Resetting, Settling, SettlingTo, Fresh
<1>3. ASSUME NEW d \in Databases, CachesOf(d)',
             \A e \in Databases \ {d} :
               /\ object'[e] = object[e] /\ call'[e] = call[e]
               /\ cachedRecords'[e] = cachedRecords[e] /\ known'[e] = known[e] /\ lost'[e] = lost[e]
               /\ microtasks'[e] = microtasks[e]
      PROVE  Goal
  <2>1. \A e \in Databases \ {d} : CachesOf(e)'
    BY <1>1, <1>3 DEF CacheVars
  <2> QED BY <1>3, <2>1
<1>4. ASSUME NEW d \in Databases, Proceed(d)
      PROVE  Goal
  <2>0. CachesOf(d)
    BY DEF Caches
  <2>1. CASE Lock(d) \/ Vacuum(d)
    <3>1. /\ call[d].at \in {"start", "erase"} /\ call'[d].at \in {"erase", "begin"}
          /\ call'[d].op = call[d].op
          /\ UNCHANGED <<object, cachedRecords, known, lost, microtasks>>
          /\ \A e \in Databases \ {d} : call'[e] = call[e]
      BY <2>1 DEF Lock, Vacuum, At, caches
    <3>2. call[d] # Idle
      BY <3>1 DEF Idle
    <3>3. CachesOf(d)'
      BY <2>0, <3>1, <3>2 DEF CachesOf, Settling, Erasing, Resetting, Fresh
    <3> QED BY <1>3, <3>1, <3>3
  <2>2. CASE Begin(d)
    <3>1. /\ call[d].at = "begin" /\ call'[d].at = "work" /\ call'[d].op = call[d].op
          /\ UNCHANGED <<object, known, microtasks>>
          /\ cachedRecords' = [cachedRecords EXCEPT ![d] = ClearedFor(call[d].op, @)]
          /\ lost' = [lost EXCEPT ![d] = ClearedFor(call[d].op, @)]
          /\ \A e \in Databases \ {d} : call'[e] = call[e]
      BY <2>2 DEF Begin, Doing
    <3>2. object[d].stage = "usable" /\ call[d] # Idle /\ ~Resetting(d) /\ ~Resetting(d)'
      BY <2>0, <3>1 DEF Locks, CachesOf, Idle, Resetting
    <3>3. CachesOf(d)'
      <4>1. CASE call[d].op \in Erases
        BY <2>0, <3>1, <3>2, <4>1 DEF CachesOf, Erasing, ClearedFor, Fresh
      <4>2. CASE call[d].op \notin Erases
        BY <2>0, <3>1, <3>2, <4>2 DEF CachesOf, Erasing, ClearedFor, Settling, Fresh
      <4> QED BY <4>1, <4>2
    <3> QED BY <1>3, <3>1, <3>3
  <2>3. CASE Execute(d) \/ StatementFails(d)
    <3>1. /\ call[d].at = "work" /\ call'[d].at \in {"work", "failed"} /\ call'[d].op = call[d].op
          /\ UNCHANGED <<object, cachedRecords, known, lost, microtasks>>
          /\ \A e \in Databases \ {d} : call'[e] = call[e]
      BY <2>3 DEF Execute, StatementFails, Doing, caches
    <3>2. call[d] # Idle
      BY <3>1 DEF Idle
    <3>3. CachesOf(d)'
      BY <2>0, <3>1, <3>2 DEF CachesOf, Settling, Erasing, Resetting, Fresh
    <3> QED BY <1>3, <3>1, <3>3
  <2>4. CASE Commit(d)
    <3>1. /\ call[d].at = "work" /\ call' = [call EXCEPT ![d] = Idle] /\ UNCHANGED <<object, known, lost>>
          /\ cachedRecords' = [cachedRecords EXCEPT ![d] = CachedAfter(d)]
          /\ microtasks' = [microtasks EXCEPT ![d] = @ \o GoingOn(d)]
      BY <2>4 DEF Commit, Ends
    <3>2. /\ object'[d].stage = "usable" /\ call'[d] = Idle /\ call[d] # Idle /\ ~Erasing(d)'
          /\ ~Resetting(d)
      BY <2>0, <3>1 DEF Locks, CachesOf, Idle, Erasing, Erases
    <3> DEFINE m == microtasks[d]
               all == call[d].all
    <3>3. m \in Seq(Microtasks) /\ WellMade(m) /\ all \in Statements
      BY <2>0 DEF CachesOf
    <3>4. /\ known'[d] = known[d] /\ lost'[d] = lost[d] /\ cachedRecords'[d] = CachedAfter(d)
          /\ microtasks'[d] = m \o GoingOn(d)
      BY <3>1
    <3>5. CASE call[d].op = "batch" /\ all.create \cup all.destroy # {}
      <4>1. PICK task \in Microtasks :
              /\ GoingOn(d) = <<task>>
              /\ task = [of |-> "batch", bare |-> {}, add |-> all.create, remove |-> all.destroy]
        BY <3>3, <3>5 DEF GoingOn, Microtasks, Statements
      <4>2. microtasks'[d] = Append(m, task)
        BY <3>3, <3>4, <4>1, OneTaskMore
      <4>3. /\ all.create \cap Removing(m) = {} /\ all.create \cap (known[d] \cup Adding(m)) = {}
            /\ all.destroy \subseteq known[d] /\ all.create \cap all.destroy = {}
        BY <3>1, <3>5 DEF Caches, Asked
      <4>4. \A t \in Range(m) : t.of # "reset"
        BY <3>2 DEF Resetting
      <4>5. WellMade(Append(m, task))
        BY <3>3, <4>1, <4>3, <4>4, WellMadeMore
      <4>6. ~Resetting(d)'
        BY <3>3, <4>1, <4>2, <4>4, OneTaskMore DEF Resetting
      <4>7. SettlingTo(cachedRecords[d], known[d], lost[d], Adding(m), Removing(m))
        BY <2>0, <3>2, <3>5 DEF CachesOf, Erasing, Erases, Settling
      <4>8. /\ Adding(Append(m, task)) = Adding(m) \cup all.create
            /\ Removing(Append(m, task)) = Removing(m) \cup all.destroy
        BY <3>3, <4>1, MoreTasks
      <4>9. SettlingTo((cachedRecords[d] \cup all.create) \ all.destroy, known[d], lost[d],
                       Adding(m) \cup all.create, Removing(m) \cup all.destroy)
        BY <4>3, <4>7, SettlingBatch
      <4>10. Settling(d)'
        BY <3>4, <3>5, <4>2, <4>8, <4>9 DEF Settling, CachedAfter
      <4>11. CachesOf(d)'
        BY <3>2, <4>2, <4>5, <4>6, <4>10 DEF CachesOf, Idle
      <4> QED BY <1>3, <3>1, <4>11
    <3>6. CASE call[d].op = "reset"
      <4>1. PICK task \in Microtasks :
              /\ GoingOn(d) = <<task>>
              /\ task = [of |-> "reset", bare |-> {}, add |-> {}, remove |-> Ids]
        BY <3>6 DEF GoingOn, Microtasks
      <4>2. microtasks'[d] = Append(m, task)
        BY <3>3, <3>4, <4>1, OneTaskMore
      <4>4. \A t \in Range(m) : t.of # "reset"
        BY <3>2 DEF Resetting
      <4>5. WellMade(Append(m, task))
        BY <3>3, <4>1, <4>4, WellMadeMore
      <4>6. Resetting(d)'
        <5>1. task \in Range(microtasks'[d]) /\ task.of = "reset"
          BY <3>3, <4>1, <4>2, OneTaskMore
        <5> QED BY <5>1 DEF Resetting
      <4>7. cachedRecords'[d] = {}
        BY <2>0, <3>1, <3>4, <3>6 DEF CachesOf, Erasing, Erases, CachedAfter
      <4>8. CachesOf(d)'
        BY <3>2, <4>2, <4>5, <4>6, <4>7 DEF CachesOf, Idle
      <4> QED BY <1>3, <3>1, <4>8
    <3>7. CASE call[d].op # "reset" /\ ~(call[d].op = "batch" /\ all.create \cup all.destroy # {})
      <4>1. microtasks'[d] = m
        BY <3>3, <3>4, <3>7 DEF GoingOn
      <4>2. ~Resetting(d)'
        BY <3>2, <4>1 DEF Resetting
      <4>3. cachedRecords'[d] = cachedRecords[d]
        BY <3>4, <3>7 DEF CachedAfter
      <4>4. Settling(d)
        <5>1. CASE call[d].op = "setUp"
          BY <2>0, <5>1, FreshSettles DEF CachesOf
        <5>2. CASE call[d].op # "setUp"
          BY <2>0, <3>2, <3>7, <5>2 DEF CachesOf, Erasing, Erases
        <5> QED BY <5>1, <5>2
      <4>5. Settling(d)'
        BY <3>4, <4>1, <4>3, <4>4 DEF Settling
      <4>6. CachesOf(d)'
        BY <3>2, <3>3, <4>1, <4>2, <4>5 DEF CachesOf, Idle
      <4> QED BY <1>3, <3>1, <4>6
    <3> QED BY <3>5, <3>6, <3>7
  <2>5. CASE BeginFails(d) \/ RollBack(d)
    <3>1. /\ call[d].at # "idle" /\ call[d].op \notin Erases /\ call' = [call EXCEPT ![d] = Idle]
          /\ UNCHANGED <<object, cachedRecords, known, lost, microtasks>>
      BY <2>5 DEF BeginFails, RollBack, Ends, caches
    <3>2. object[d].stage = "usable" /\ call[d] # Idle /\ call'[d] = Idle
      BY <3>1 DEF Locks, Idle
    <3>3. CachesOf(d)'
      BY <2>0, <3>1, <3>2 DEF CachesOf, Settling, Erasing, Erases, Resetting, Idle
    <3> QED BY <1>3, <3>1, <3>3
  <2>6. CASE Abort(d)
    BY <2>6, <1>2 DEF Abort
  <2> QED BY <1>4, <2>1, <2>2, <2>3, <2>4, <2>5, <2>6 DEF Proceed
<1>5. ASSUME NEW d \in Databases,
             \/ Open(d) \/ Initialize(d) \/ Close(d) \/ TearDown(d) \/ Delete(d)
             \/ StartBatch(d) \/ StartReset(d) \/ StartLoad(d) \/ StartSetPulled(d)
      PROVE  Goal
  <2> USE DEF Object
  <2>0. CachesOf(d)
    BY DEF Caches
  <2>1. CASE Open(d)
    <3>1. /\ object[d].stage = "absent" /\ UNCHANGED <<call, cachedRecords, known, lost, microtasks>>
          /\ \A e \in Databases \ {d} : object'[e] = object[e]
      BY <2>1 DEF Open, caches
    <3>2. CachesOf(d)'
      BY <2>0, <3>1 DEF CachesOf, Settling, Erasing, Resetting, Fresh
    <3> QED BY <1>3, <3>1, <3>2
  <2>2. CASE Initialize(d)
    <3>1. /\ object[d].stage = "opened" /\ UNCHANGED <<cachedRecords, known, lost, microtasks>>
          /\ call'[d] = call[d] \/ call'[d].at = "start"
          /\ object'[d].stage = "usable"
          /\ \A e \in Databases \ {d} : object'[e] = object[e] /\ call'[e] = call[e]
      BY <2>2 DEF Initialize, Starting, Doing, caches
    <3>2. Fresh(d) /\ call[d].at = "idle" /\ ~Erasing(d)'
      BY <2>0, <3>1 DEF CachesOf, Locks, Erasing
    <3>3. Fresh(d)'
      BY <3>1, <3>2 DEF Fresh
    <3>4. Settling(d)' /\ WellMade(microtasks'[d]) /\ ~Resetting(d)'
      BY <3>1, <3>2, FreshSettles DEF Settling, Resetting
    <3>5. CachesOf(d)'
      BY <3>2, <3>3, <3>4 DEF CachesOf
    <3> QED BY <1>3, <3>1, <3>5
  <2>3. CASE Close(d) \/ TearDown(d)
    <3>1. /\ object' = [object EXCEPT ![d] = Destroyed(object[d])]
          /\ UNCHANGED <<call, cachedRecords, known, lost, microtasks>>
      BY <2>3 DEF Close, TearDown, Destroy, caches
    <3>2. Destroyed(object[d]).stage = object[d].stage
      BY DEF Destroyed
    <3>3. CachesOf(d)'
      BY <2>0, <3>1, <3>2 DEF CachesOf, Settling, Erasing, Resetting, Fresh
    <3> QED BY <1>3, <3>1, <3>3
  <2>4. CASE Delete(d)
    <3>1. /\ call[d] = Idle /\ UNCHANGED call
          /\ \A e \in Databases \ {d} : object'[e] = object[e]
          /\ cachedRecords' = [cachedRecords EXCEPT ![d] = {}]
          /\ known' = [known EXCEPT ![d] = {}] /\ lost' = [lost EXCEPT ![d] = {}]
          /\ microtasks' = [microtasks EXCEPT ![d] = <<>>]
      BY <2>4 DEF Delete
    <3>2. /\ known'[d] = {} /\ cachedRecords'[d] = {} /\ lost'[d] = {} /\ microtasks'[d] = <<>>
          /\ call'[d] = Idle
      BY <3>1
    <3>3. CachesOf(d)'
      BY <3>2, NoTasks DEF CachesOf, Erasing, Erases, Idle, Resetting, Settling, SettlingTo, Fresh
    <3> QED BY <1>3, <3>1, <3>3
  <2>5. CASE StartBatch(d) \/ StartReset(d) \/ StartLoad(d) \/ StartSetPulled(d)
    <3>1. \E op \in {"batch", "reset", "load", "setPulled"} : Start(d, op)
      BY <2>5 DEF StartBatch, StartReset, StartLoad, StartSetPulled
    <3>2. /\ call[d] = Idle /\ object[d].stage = "usable" /\ call'[d].at = "start" /\ ~Resetting(d)
          /\ call'[d].op # "setUp" /\ UNCHANGED <<object, cachedRecords, known, lost, microtasks>>
          /\ \A e \in Databases \ {d} : call'[e] = call[e]
      BY <3>1 DEF Start, Usable, Starting, Doing, caches
    <3>3. CachesOf(d)'
      BY <2>0, <3>2 DEF CachesOf, Settling, Erasing, Resetting, Idle
    <3> QED BY <1>3, <3>2, <3>3
  <2> QED BY <1>5, <2>1, <2>2, <2>3, <2>4, <2>5
<1>6. ASSUME NEW d \in Databases, Query(d) \/ QueryFails(d) \/ Find(d)
      PROVE  Goal
  <2>0. CachesOf(d) /\ Removing(microtasks[d]) \cap disk.rows = {}
    BY DEF Caches, Unmade
  <2>1. /\ call[d] = Idle /\ object[d].stage = "usable" /\ ~Resetting(d)
        /\ UNCHANGED <<object, call, microtasks>>
    BY <1>6 DEF Query, QueryFails, Find, MayRead, Usable
  <2>2. Settling(d)
    BY <2>0, <2>1 DEF CachesOf, Erasing, Idle
  <2>3. PICK asked \in SUBSET disk.rows, read \in SUBSET disk.rows :
          /\ read \subseteq asked \ cachedRecords[d]
          /\ cachedRecords' = [cachedRecords EXCEPT ![d] = @ \cup asked]
          /\ known' = [known EXCEPT ![d] = @ \cup read]
          /\ lost' = [lost EXCEPT ![d] = @ \cup ((asked \ cachedRecords[d]) \ read)]
    <3>1. CASE Query(d)
      BY <3>1 DEF Query, Received
    <3>2. CASE QueryFails(d)
      <4>1. PICK asked \in SUBSET disk.rows :
              /\ cachedRecords' = [cachedRecords EXCEPT ![d] = @ \cup asked]
              /\ lost' = [lost EXCEPT ![d] = @ \cup (asked \ cachedRecords[d])]
              /\ known' = known
        BY <3>2 DEF QueryFails
      <4>2. known' = [known EXCEPT ![d] = @ \cup {}]
        BY <4>1
      <4>3. lost' = [lost EXCEPT ![d] = @ \cup ((asked \ cachedRecords[d]) \ {})]
        BY <4>1
      <4>4. {} \in SUBSET disk.rows /\ {} \subseteq asked \ cachedRecords[d]
        OBVIOUS
      <4> QED BY <4>1, <4>2, <4>3, <4>4
    <3>3. CASE Find(d)
      <4>1. PICK id \in disk.rows \ cachedRecords[d] :
              /\ cachedRecords' = [cachedRecords EXCEPT ![d] = @ \cup {id}]
              /\ known' = [known EXCEPT ![d] = @ \cup {id}]
              /\ lost' = lost
        BY <3>3 DEF Find
      <4>2. lost' = [lost EXCEPT ![d] = @ \cup (({id} \ cachedRecords[d]) \ {id})]
        BY <4>1
      <4>3. {id} \in SUBSET disk.rows /\ {id} \subseteq {id} \ cachedRecords[d]
        BY <4>1
      <4> QED BY <4>1, <4>2, <4>3
    <3> QED BY <1>6, <3>1, <3>2, <3>3
  <2>4. /\ cachedRecords'[d] = cachedRecords[d] \cup asked /\ known'[d] = known[d] \cup read
        /\ lost'[d] = lost[d] \cup ((asked \ cachedRecords[d]) \ read)
    BY <2>3
  <2>5. SettlingTo(cachedRecords'[d], known'[d], lost'[d], Adding(microtasks[d]), Removing(microtasks[d]))
    <3>1. asked \cap Removing(microtasks[d]) = {}
      BY <2>0, <2>3
    <3> QED BY <2>2, <2>3, <2>4, <3>1, SettlingRead DEF Settling
  <2>6. Settling(d)' /\ ~Resetting(d)'
    BY <2>1, <2>5 DEF Settling, Resetting
  <2>7. CachesOf(d)'
    BY <2>0, <2>1, <2>6 DEF CachesOf, Erasing, Idle
  <2> QED BY <1>3, <2>1, <2>3, <2>7
<1>7. ASSUME NEW d \in Databases, QueryRaws(d)
      PROVE  Goal
  <2>0. CachesOf(d) /\ Removing(microtasks[d]) \cap disk.rows = {}
    BY DEF Caches, Unmade
  <2>1. /\ call[d] = Idle /\ object[d].stage = "usable" /\ ~Resetting(d)
        /\ UNCHANGED <<object, call, known, lost>>
    BY <1>7 DEF QueryRaws, MayRead, Usable
  <2>2. Settling(d) /\ microtasks[d] \in Seq(Microtasks) /\ WellMade(microtasks[d])
    BY <2>0, <2>1 DEF CachesOf, Erasing, Idle
  <2>3. PICK asked, task :
          /\ asked \in SUBSET disk.rows
          /\ task = [of |-> "pull", bare |-> asked \cap cachedRecords[d],
                     add |-> asked \ cachedRecords[d], remove |-> {}]
          /\ cachedRecords' = [cachedRecords EXCEPT ![d] = @ \cup asked]
          /\ microtasks' = [microtasks EXCEPT ![d] = Append(@, task)]
    BY <1>7 DEF QueryRaws
  <2>4. task \in Microtasks
    BY <2>3 DEF Microtasks, Contents
  <2>5. /\ cachedRecords'[d] = cachedRecords[d] \cup asked /\ microtasks'[d] = Append(microtasks[d], task)
        /\ known'[d] = known[d] /\ lost'[d] = lost[d]
    BY <2>1, <2>3
  <2>6. asked \cap Removing(microtasks[d]) = {}
    BY <2>0, <2>3
  <2>7. /\ (asked \ cachedRecords[d]) \cap Adding(microtasks[d]) = {}
        /\ SettlingTo(cachedRecords[d] \cup asked, known[d], lost[d],
             Adding(microtasks[d]) \cup (asked \ cachedRecords[d]), Removing(microtasks[d]))
    <3>1. SettlingTo(cachedRecords[d], known[d], lost[d], Adding(microtasks[d]), Removing(microtasks[d]))
      BY <2>2 DEF Settling
    <3> QED BY ONLY <3>1, <2>6, SettlingReadRaw
  <2>8. /\ Adding(Append(microtasks[d], task)) = Adding(microtasks[d]) \cup (asked \ cachedRecords[d])
        /\ Removing(Append(microtasks[d], task)) = Removing(microtasks[d])
    BY <2>2, <2>3, <2>4, MoreTasks
  <2>9. Settling(d)'
    BY <2>5, <2>7, <2>8 DEF Settling
  <2>10. \A t \in Range(microtasks[d]) : t.of # "reset"
    BY <2>1 DEF Resetting
  <2>11. WellMade(Append(microtasks[d], task))
    BY <2>2, <2>3, <2>4, <2>7, <2>10, WellMadeMore
  <2>12. ~Resetting(d)'
    BY <2>2, <2>3, <2>4, <2>5, <2>10, OneTaskMore DEF Resetting
  <2>13. CachesOf(d)'
    BY <2>1, <2>5, <2>9, <2>11, <2>12 DEF CachesOf, Erasing, Idle
  <2> QED BY <1>3, <2>1, <2>3, <2>13
<1>8. ASSUME NEW d \in Databases, Continue(d)
      PROVE  Goal
  <2> DEFINE m == microtasks[d]
             task == Head(m)
             rest == Tail(m)
  <2>0. CachesOf(d)
    BY DEF Caches
  <2>1. /\ call[d] = Idle /\ m # <<>> /\ UNCHANGED <<object, call, cachedRecords>>
        /\ known' = [known EXCEPT ![d] = KnownAfter(d, task)]
        /\ lost' = [lost EXCEPT ![d] = LostAfter(d, task)]
        /\ microtasks' = [microtasks EXCEPT ![d] = rest]
    BY <1>8 DEF Continue
  <2>2. m \in Seq(Microtasks) /\ WellMade(m) /\ known[d] \subseteq Ids
    BY <2>0 DEF CachesOf
  <2>3. /\ task \in Microtasks /\ rest \in Seq(Microtasks)
        /\ Range(m) = {task} \cup Range(rest)
    BY <2>1, <2>2, TasksInTurn
  <2>4. /\ WellMade(rest) /\ task.add \cap Adding(rest) = {}
        /\ task.of = "reset" => rest = <<>> /\ task.remove = Ids
        /\ task.of = "pull" => task.remove = {}
    BY <2>1, <2>2, WellMadeFewer
  <2>5. object[d].stage = "usable"
    BY <2>0, <2>1 DEF CachesOf, Fresh
  <2>6. /\ known'[d] = KnownAfter(d, task) /\ lost'[d] = LostAfter(d, task)
        /\ microtasks'[d] = rest /\ cachedRecords'[d] = cachedRecords[d] /\ call'[d] = Idle
        /\ object'[d].stage = "usable"
    BY <2>1, <2>5
  <2>7. IF Resetting(d)' THEN cachedRecords'[d] = {} ELSE Settling(d)'
    <3>1. CASE Resetting(d)'
      <4>1. Resetting(d)
        BY <2>3, <2>6, <3>1 DEF Resetting
      <4> QED BY <2>0, <2>6, <3>1, <4>1 DEF CachesOf
    <3>2. CASE task.of = "reset"
      <4>1. rest = <<>> /\ task.remove = Ids /\ Resetting(d)
        BY <2>3, <2>4, <3>2 DEF Resetting
      <4>2. cachedRecords[d] = {}
        BY <2>0, <4>1 DEF CachesOf
      <4>3. KnownAfter(d, task) = {} /\ LostAfter(d, task) = {}
        <5>1. task.add \subseteq Ids /\ lost[d] \subseteq Ids
          BY <2>3 DEF Microtasks
        <5> QED BY <2>2, <4>1, <5>1 DEF KnownAfter, LostAfter, TakenIn
      <4>4. ~Resetting(d)'
        BY <2>6, <4>1, NoTasks DEF Resetting
      <4> QED BY <2>6, <4>1, <4>2, <4>3, <4>4, NoTasks DEF Settling, SettlingTo
    <3>3. CASE task.of # "reset" /\ ~Resetting(d)'
      <4>1. ~Resetting(d)
        BY <2>3, <2>6, <3>3 DEF Resetting
      <4>2. SettlingTo(cachedRecords[d], known[d], lost[d], Adding(m), Removing(m))
        BY <2>0, <2>1, <4>1 DEF CachesOf, Erasing, Idle, Settling
      <4>3. Adding(m) = task.add \cup Adding(rest) /\ Removing(m) = task.remove \cup Removing(rest)
        BY <2>1, <2>2, <2>3, <2>4, <3>3, FewerTasks DEF Microtasks
      <4>4. TakenIn(d, task) \in {{}, task.add}
        BY DEF TakenIn
      <4>5. SettlingTo(cachedRecords[d], KnownAfter(d, task), LostAfter(d, task), Adding(rest), Removing(rest))
        <5>1. SettlingTo(cachedRecords[d], known[d], lost[d],
                         task.add \cup Adding(rest), task.remove \cup Removing(rest))
          BY <4>2, <4>3
        <5>2. /\ KnownAfter(d, task) = (known[d] \cup TakenIn(d, task)) \ task.remove
              /\ LostAfter(d, task) = (lost[d] \cup task.add) \ (task.remove \cup KnownAfter(d, task))
          BY DEF KnownAfter, LostAfter
        <5> HIDE DEF task, rest
        <5>3. task.add \cap Adding(rest) = {}
          BY <2>4
        <5>4. SettlingTo(cachedRecords[d], KnownAfter(d, task),
                         (lost[d] \cup task.add) \ (task.remove \cup KnownAfter(d, task)),
                         Adding(rest), Removing(rest))
          BY ONLY <5>3, <4>4, <5>1, <5>2, SettlingOn, Zenon
        <5> QED BY <5>2, <5>4
      <4>6. Settling(d)'
        BY <2>6, <4>5 DEF Settling
      <4> QED BY <3>3, <4>6
    <3> QED BY <3>1, <3>2, <3>3
  <2> HIDE DEF m, task, rest
  <2>8. CachesOf(d)'
    BY <2>4, <2>6, <2>7 DEF CachesOf, Erasing, Idle
  <2> QED BY <1>3, <2>1, <2>8
<1>9. ASSUME NEW d \in Databases, ExecuteMultiple(d) \/ ProvideJson(d) \/ TurboThrows(d)
      PROVE  UNCHANGED <<object, call, cachedRecords, known, lost, microtasks>>
  BY <1>9 DEF ExecuteMultiple, ProvideJson, TurboThrows, caches
<1>10. UNCHANGED vars => UNCHANGED <<object, call, cachedRecords, known, lost, microtasks>>
  BY DEF vars, caches
<1>11. UNCHANGED <<object, call, cachedRecords, known, lost, microtasks>> => Goal
  BY <1>1 DEF CacheVars
<1> QED BY ONLY [Next]_vars, <1>2, <1>4, <1>5, <1>6, <1>7, <1>8, <1>9, <1>10, <1>11 DEF Next, ProcessEnds

LEMMA CachesStep ==
  ASSUME TypeOK, Locks, Working, Caches, [Next]_vars
  PROVE  Caches'
BY AskedStep, UnmadeStep, CachesOfStep DEF Caches

-----------------------------------------------------------------------------
(* The inductive invariant, and what follows from it. *)

IInv == TypeOK /\ Locks /\ Working /\ VersionIsOfTables /\ Caches

LEMMA InitInv ==
  ASSUME Init
  PROVE  IInv
<1>1. TypeOK
  BY CallTypes DEF Init, TypeOK, FoundContents
<1>2. Locks
  BY DEF Init, Locks, NothingOutlivesItsCall, Idle
<1>3. Working
  BY DEF Init, Working, Idle
<1>4. VersionIsOfTables
  BY DEF Init, VersionIsOfTables, FoundContents
<1>5. Caches
  <2>1. \A d \in Databases :
          /\ call[d] = Idle /\ microtasks[d] = <<>> /\ known[d] = {} /\ lost[d] = {}
          /\ cachedRecords[d] = {}
    BY DEF Init
  <2>2. Asked /\ Unmade
    BY <2>1, NoTasks DEF Asked, Unmade, Idle
  <2>3. \A d \in Databases : CachesOf(d)
    BY <2>1, NoTasks DEF CachesOf, Erasing, Erases, Idle, Resetting, Settling, SettlingTo, Fresh
  <2> QED BY <2>2, <2>3 DEF Caches
<1> QED BY <1>1, <1>2, <1>3, <1>4, <1>5 DEF IInv

LEMMA Invariance == Spec => []IInv
<1>1. IInv /\ [Next]_vars => IInv'
  <2> SUFFICES ASSUME IInv, [Next]_vars PROVE IInv'
    OBVIOUS
  <2>1. TypeOK' /\ Locks' /\ Working' /\ Caches'
    BY TypeStep, LocksStep, WorkingStep, CachesStep DEF IInv
  <2>2. VersionIsOfTables'
    BY WholeCallStep, VersionStep DEF IInv, TypeOK
  <2> QED BY <2>1, <2>2 DEF IInv
<1> QED BY <1>1, InitInv, PTL DEF Spec

(* The driver's variables keep their types (TypeOK). *)
THEOREM TypeCorrect == Spec => []TypeOK
<1>1. IInv => TypeOK
  BY DEF IInv
<1> QED BY <1>1, Invariance, PTL

(* However calls fail, connections are closed and processes end, no        *)
(* transaction and no lock outlives its call (the catch blocks, rollback). *)
THEOREM LocksEnd == Spec => []NothingOutlivesItsCall
<1>1. IInv => NothingOutlivesItsCall
  BY DEF IInv, Locks
<1> QED BY <1>1, Invariance, PTL

(* The version in the file is the version of its tables (setUserVersion    *)
(* inside the transaction that makes the tables).                          *)
THEOREM VersionCorrect == Spec => []VersionIsOfTables
<1>1. IInv => VersionIsOfTables
  BY DEF IInv
<1> QED BY <1>1, Invariance, PTL

(* Once JavaScript has gone on behind every await, the ids that the driver  *)
(* has marked are those JavaScript has models of, and those that an answer *)
(* that failed lost (markAsCached, _applyChangesToCache).                  *)
THEOREM CachesCorrect == Spec => []CachesAgree
<1>1. ASSUME IInv, NEW d \in Databases, call[d] = Idle, microtasks[d] = <<>>
      PROVE  cachedRecords[d] = known[d] \cup lost[d] /\ known[d] \cap lost[d] = {}
  <2>1. CachesOf(d) /\ ~Erasing(d) /\ ~Resetting(d)
    BY <1>1, NoTasks DEF IInv, Caches, Erasing, Erases, Idle, Resetting
  <2> QED BY <1>1, <2>1, NoTasks DEF CachesOf, Settling, SettlingTo
<1>2. IInv => CachesAgree
  BY <1>1 DEF CachesAgree
<1> QED BY <1>2, Invariance, PTL

(* The driver implements DurableStore: the file is changed by whole calls, *)
(* for any number of Databases on it and whatever fails.                   *)
THEOREM Refinement == Spec => WholeCalls
<1>1. Init => Durable!Init
  BY SameStatements DEF Init, Durable!Init
<1>2. IInv /\ [Next]_vars => [Durable!Next]_disk
  BY WholeCallStep DEF IInv
<1> QED BY <1>1, <1>2, Invariance, PTL DEF Spec, WholeCalls, Durable!Spec

(* A load that began its transaction leaves no JSON behind, also when it   *)
(* fails (unsafeLoadFromSync).                                             *)
THEOREM JsonConsumed == Spec => LoadConsumesItsJson
<1> DEFINE Consumed(d) ==
      call[d].op = "load" /\ call[d].at \in {"work", "failed"} /\ call'[d] = Idle => d \notin syncJson'
<1>1. ASSUME IInv, [Next]_vars, NEW d \in Databases
      PROVE  Consumed(d)
  <2> SUFFICES ASSUME call[d].op = "load", call[d].at \in {"work", "failed"}, call'[d] = Idle
               PROVE  d \notin syncJson'
    OBVIOUS
  <2> call \in [Databases -> Call]
    BY <1>1 DEF IInv, TypeOK
  <2>1. call[d] # Idle /\ call'[d] # call[d]
    <3>1. Idle.at = "idle"
      BY DEF Idle
    <3> QED BY <3>1
  <2>2. CASE ProcessEnds
    BY <2>2 DEF ProcessEnds, Gone
  <2>3. ASSUME NEW e \in Databases, Proceed(e)
        PROVE  d \notin syncJson'
    <3>1. CASE Lock(e) \/ Vacuum(e) \/ Begin(e) \/ Execute(e) \/ StatementFails(e)
      <4>1. /\ \A f \in Databases \ {e} : call'[f] = call[f]
            /\ call'[e].at # "idle"
        <5>1. CASE Lock(e) \/ Vacuum(e)
          BY <5>1 DEF Lock, Vacuum, At, Call
        <5>2. CASE Begin(e) \/ StatementFails(e)
          BY <5>2 DEF Begin, StatementFails, Doing
        <5>3. CASE Execute(e)
          BY <5>3 DEF Execute, Call
        <5> QED BY <3>1, <5>1, <5>2, <5>3
      <4>2. e = d
        BY <2>1, <4>1
      <4> QED BY <4>1, <4>2 DEF Idle
    <3>2. CASE Commit(e) \/ RollBack(e)
      <4>1. e = d
        <5>1. \A f \in Databases \ {e} : call'[f] = call[f]
          BY <3>2 DEF Commit, RollBack, Ends
        <5> QED BY <2>1, <5>1
      <4> QED BY <4>1, <3>2 DEF Commit, RollBack, JsonAfter
    <3>3. CASE BeginFails(e)
      <4>1. e = d
        BY <2>1, <3>3 DEF BeginFails, Ends
      <4> QED BY <4>1, <3>3 DEF BeginFails
    <3>4. CASE Abort(e)
      BY <3>4 DEF Abort, Gone
    <3> QED BY <2>3, <3>1, <3>2, <3>3, <3>4 DEF Proceed
  <2>4. ASSUME NEW e \in Databases,
               \/ Open(e) \/ Initialize(e) \/ Close(e) \/ TearDown(e) \/ Delete(e)
               \/ StartBatch(e) \/ StartReset(e) \/ StartLoad(e) \/ StartSetPulled(e)
        PROVE  FALSE
    <3>1. CASE Open(e) \/ Close(e) \/ TearDown(e) \/ Delete(e)
      BY <2>1, <3>1 DEF Open, Close, TearDown, Delete
    <3>2. CASE Initialize(e)
      BY <2>1, <3>2 DEF Initialize, Starting, Doing, Idle
    <3>3. CASE StartBatch(e) \/ StartReset(e) \/ StartLoad(e) \/ StartSetPulled(e)
      <4>1. /\ \A f \in Databases \ {e} : call'[f] = call[f]
            /\ call[e] = Idle
        BY <3>3 DEF StartBatch, StartReset, StartLoad, StartSetPulled, Start, Usable, Starting, Doing
      <4> QED BY <2>1, <4>1
    <3> QED BY <2>4, <3>1, <3>2, <3>3
  <2>5. ASSUME NEW e \in Databases,
               \/ Query(e) \/ QueryRaws(e) \/ QueryFails(e) \/ Find(e) \/ ExecuteMultiple(e)
               \/ Continue(e) \/ ProvideJson(e) \/ TurboThrows(e)
        PROVE  FALSE
    BY <2>1, <2>5 DEF Query, QueryRaws, QueryFails, Find, ExecuteMultiple, Continue, ProvideJson,
      TurboThrows
  <2>6. ~ UNCHANGED vars
    BY <2>1 DEF vars
  <2> QED BY ONLY <1>1, <2>2, <2>3, <2>4, <2>5, <2>6 DEF Next
<1>2. IInv /\ [Next]_vars => [\A d \in Databases : Consumed(d)]_vars
  BY <1>1
<1> QED BY <1>2, Invariance, PTL DEF Spec, LoadConsumesItsJson
=============================================================================
