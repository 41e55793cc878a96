------------------------- MODULE RecordCaches_proofs -------------------------
(***************************************************************************)
(* Proofs about RecordCaches with an adapter on a thread of its own, for   *)
(* any set of records and any bounds.                                      *)
(*                                                                         *)
(* What the adapter believes to be in the RecordCache is not what is there *)
(* now, but what will be there once the answers under way have been worked *)
(* off, in their order (Foreseen). An answer was right about the cache     *)
(* when it was made, and is still right when its turn comes (AllRight).    *)
(* After a reset that failed the two sides have parted (Joined). The last  *)
(* part (Current) is about what the models and the rows hold.              *)
(***************************************************************************)
EXTENDS RecordCaches, SequenceTheorems, TLAPS

WriteSets ==
  {ws \in SUBSET [type : WriteTypes, id : Ids, revision : Nat] :
     \A v, w \in ws : v.id = w.id => v = w}

CallType ==
  [op : {"query", "raws", "reset"}] \cup [op : {"find", "destroyDeleted"}, id : Ids]
    \cup [op : {"batch"}, writes : WriteSets]

Reads == {"query", "find", "raws"}

Answers ==
  [op : Reads, ids : SUBSET Ids, raws : UNION {[S -> Raw] : S \in SUBSET Ids}]
    \cup [op : {"batch"}, writes : WriteSets, ok : BOOLEAN]
    \cup [op : {"reset"}, ok : BOOLEAN] \cup [op : {"destroyDeleted"}]

Coming == microtasks \o answers

Types ==
  /\ TypeOK
  /\ calls \in Seq(CallType) /\ answers \in Seq(Answers)
  /\ microtasks \in Seq({a \in Answers : a.op \in {"raws", "batch", "reset"}})

(* What an answer does to the RecordCache. *)
Adds(a) ==
  CASE a.op \in Reads -> DOMAIN a.raws
    [] a.op = "batch" /\ a.ok -> Created(a.writes)
    [] OTHER -> {}
Removes(a) ==
  CASE a.op = "batch" /\ a.ok -> Destroyed(a.writes)
    [] a.op = "reset" /\ a.ok -> Ids
    [] OTHER -> {}

(* Whether a record is in the cache, where S is now, after k answers of q. *)
After(S, q, k, id) ==
  \/ \E j \in 1 .. k : id \in Adds(q[j]) /\ \A i \in j .. k : id \notin Removes(q[i])
  \/ id \in S /\ \A i \in 1 .. k : id \notin Removes(q[i])

LEMMA AfterNone ==
  ASSUME NEW S, NEW q, NEW id
  PROVE  After(S, q, 0, id) <=> id \in S
BY DEF After

LEMMA AfterOne ==
  ASSUME NEW S, NEW q, NEW k \in Nat, NEW id
  PROVE  After(S, q, k + 1, id) <=>
           (After(S, q, k, id) \/ id \in Adds(q[k + 1])) /\ id \notin Removes(q[k + 1])
<1>1. \A i \in 1 .. k + 1 : i \in 1 .. k \/ i = k + 1
  OBVIOUS
<1>2. \A j \in 1 .. k : \A i \in j .. k + 1 : i \in j .. k \/ i = k + 1
  OBVIOUS
<1>3. k + 1 \in 1 .. k + 1 /\ k + 1 \in (k + 1) .. (k + 1)
      /\ \A i \in 1 .. k : i \in 1 .. k + 1 /\ \A j \in 1 .. k : k + 1 \in j .. k + 1 /\ \A l \in j .. k : l \in j .. k + 1
  OBVIOUS
<1>4. \A i \in (k + 1) .. (k + 1) : i = k + 1
  OBVIOUS
<1> QED BY <1>1, <1>2, <1>3, <1>4 DEF After

(* An answer that is added last changes nothing for those before it. *)
LEMMA AfterAppend ==
  ASSUME NEW S, NEW q \in Seq(Answers), NEW a \in Answers, NEW k \in 0 .. Len(q), NEW id
  PROVE  After(S, Append(q, a), k, id) <=> After(S, q, k, id)
<1>1. \A i \in 1 .. k : Append(q, a)[i] = q[i]
  OBVIOUS
<1>2. \A j \in 1 .. k : \A i \in j .. k : i \in 1 .. k
  OBVIOUS
<1> QED BY <1>1, <1>2 DEF After

(* Once the first answer has been worked off the others find what they     *)
(* would have found after it.                                              *)
LEMMA AfterTail ==
  ASSUME NEW S, NEW q \in Seq(Answers), q # <<>>, NEW k \in 0 .. Len(q) - 1, NEW id
  PROVE  After((S \cup Adds(Head(q))) \ Removes(Head(q)), Tail(q), k, id)
           <=> After(S, q, k + 1, id)
<1> DEFINE T == (S \cup Adds(q[1])) \ Removes(q[1])
<1>1. \A i \in 1 .. k : Tail(q)[i] = q[i + 1]
  OBVIOUS
<1>2. Head(q) = q[1]
  OBVIOUS
<1>3. After(T, Tail(q), k, id) <=>
        \/ \E j \in 1 .. k : id \in Adds(q[j + 1]) /\ \A i \in j .. k : id \notin Removes(q[i + 1])
        \/ id \in T /\ \A i \in 1 .. k : id \notin Removes(q[i + 1])
  <2>1. \A j \in 1 .. k : \A i \in j .. k : i \in 1 .. k
    OBVIOUS
  <2> QED BY <1>1, <2>1 DEF After
<1>4. \A j \in 1 .. k + 1 : (\A i \in j .. k + 1 : id \notin Removes(q[i]))
        <=> ((j = 1 => id \notin Removes(q[1])) /\ \A i \in (IF j = 1 THEN 1 ELSE j - 1) .. k : id \notin Removes(q[i + 1]))
  <2> TAKE j \in 1 .. k + 1
  <2> DEFINE b == IF j = 1 THEN 1 ELSE j - 1
  <2>1. \A i \in j .. k + 1 : (i = 1 /\ j = 1) \/ (i - 1 \in b .. k /\ i = (i - 1) + 1)
    OBVIOUS
  <2>2. \A i \in b .. k : i + 1 \in j .. k + 1
    OBVIOUS
  <2>3. j = 1 => 1 \in j .. k + 1
    OBVIOUS
  <2> QED BY <2>1, <2>2, <2>3
<1>5. After(S, q, k + 1, id) <=>
        \/ \E j \in 1 .. k + 1 : id \in Adds(q[j]) /\ \A i \in j .. k + 1 : id \notin Removes(q[i])
        \/ id \in S /\ \A i \in 1 .. k + 1 : id \notin Removes(q[i])
  BY DEF After
<1>6. (\A i \in 1 .. k + 1 : id \notin Removes(q[i]))
        <=> (id \notin Removes(q[1]) /\ \A i \in 1 .. k : id \notin Removes(q[i + 1]))
  BY <1>4
<1>7. (\E j \in 1 .. k + 1 : id \in Adds(q[j]) /\ \A i \in j .. k + 1 : id \notin Removes(q[i]))
        <=> \/ id \in Adds(q[1]) /\ \A i \in 1 .. k + 1 : id \notin Removes(q[i])
            \/ \E j \in 1 .. k : id \in Adds(q[j + 1]) /\ \A i \in j .. k : id \notin Removes(q[i + 1])
  <2>1. \A j \in 1 .. k + 1 : j = 1 \/ (j - 1 \in 1 .. k /\ j = (j - 1) + 1)
    OBVIOUS
  <2>2. \A j \in 1 .. k : j + 1 \in 1 .. k + 1 /\ j + 1 # 1 /\ (j + 1) - 1 = j
    OBVIOUS
  <2>3. \A j \in 1 .. k : (\A i \in j + 1 .. k + 1 : id \notin Removes(q[i]))
                            <=> \A i \in j .. k : id \notin Removes(q[i + 1])
    BY <2>2, <1>4
  <2>4. 1 \in 1 .. k + 1
    OBVIOUS
  <2> QED BY <2>1, <2>2, <2>3, <2>4
<1> QED BY <1>2, <1>3, <1>5, <1>6, <1>7

-----------------------------------------------------------------------------
(* The invariant. *)

Joined ==
  adapter = "working" \/ calls # <<>>
    \/ \E i \in 1 .. Len(Coming) : Coming[i].op = "reset" /\ Coming[i].ok

Foreseen ==
  Joined => \A id \in Ids : id \in cachedRecords <=> After(InCache, Coming, Len(Coming), id)

RightAt(k) ==
  Coming[k].op \in Reads => \A id \in Ids :
    /\ id \in Coming[k].ids => After(InCache, Coming, k - 1, id)
    /\ id \in DOMAIN Coming[k].raws => ~After(InCache, Coming, k - 1, id)

AllRight == \A k \in 1 .. Len(Coming) : RightAt(k)

ResetIsLast ==
  /\ Len(microtasks) <= 1
  /\ \A i \in 1 .. Len(calls) :
       /\ adapter = "working" => calls[i].op # "reset"
       /\ i < Len(calls) => calls[i].op # "reset"
       /\ adapter = "error" /\ i = Len(calls) => calls[i].op = "reset"
  /\ \A i \in 1 .. Len(Coming) :
       Coming[i].op = "reset" => adapter = "error" /\ i = Len(Coming) /\ calls = <<>>

LEMMA AnswerSets ==
  ASSUME NEW a \in Answers
  PROVE  /\ a.op \in Reads => a.ids \subseteq Ids /\ DOMAIN a.raws \subseteq Ids
                              /\ \A id \in DOMAIN a.raws : a.raws[id] \in Raw
         /\ a.op = "batch" => a.writes \in WriteSets /\ a.ok \in BOOLEAN
         /\ a.op = "reset" => a.ok \in BOOLEAN
         /\ a.op \in Reads \cup {"batch", "reset", "destroyDeleted"}
BY DEF Answers, Reads

LEMMA ComingIs ==
  ASSUME Types
  PROVE  Coming \in Seq(Answers) /\ microtasks \in Seq(Answers)
<1>1. microtasks \in Seq(Answers)
  BY DEF Types
<1> QED BY <1>1, ConcatProperties DEF Types, Coming

(* Records created are not destroyed by the same batch. *)
LEMMA NoneTwice ==
  ASSUME NEW ws \in WriteSets
  PROVE  Created(ws) \cap Destroyed(ws) = {}
BY DEF WriteSets, Created, Destroyed, IdsOf

(* An answer is added: it is right about the cache as it will be then.     *)
LEMMA AnswerAdded ==
  ASSUME Types, Foreseen, AllRight, Joined, NEW a \in Answers,
         Coming' = Append(Coming, a), InCache' = InCache,
         a.op \in Reads => a.ids \subseteq cachedRecords /\ DOMAIN a.raws \cap cachedRecords = {},
         Joined' => cachedRecords' = (cachedRecords \cup Adds(a)) \ Removes(a)
  PROVE  Foreseen' /\ AllRight'
<1> DEFINE n == Len(Coming)
<1> Coming \in Seq(Answers)
  BY ComingIs
<1>1. /\ n \in Nat /\ Len(Coming') = n + 1 /\ Coming'[n + 1] = a
      /\ \A k \in 1 .. n : Coming'[k] = Coming[k]
  OBVIOUS
<1>2. \A id : \A k \in 0 .. n : After(InCache, Coming', k, id) <=> After(InCache, Coming, k, id)
  BY AfterAppend
<1>3. \A id : After(InCache, Coming', n + 1, id) <=>
                (After(InCache, Coming, n, id) \/ id \in Adds(a)) /\ id \notin Removes(a)
  <2> TAKE id
  <2>1. After(InCache, Coming', n + 1, id) <=>
          (After(InCache, Coming', n, id) \/ id \in Adds(Coming'[n + 1])) /\ id \notin Removes(Coming'[n + 1])
    BY <1>1, AfterOne
  <2>2. n \in 0 .. n
    BY <1>1
  <2> QED BY <1>1, <1>2, <2>1, <2>2
<1>4. Foreseen'
  <2> SUFFICES ASSUME Joined'
               PROVE  \A id \in Ids : id \in cachedRecords' <=> After(InCache, Coming', n + 1, id)
    BY <1>1 DEF Foreseen
  <2> QED BY <1>3 DEF Foreseen
<1>5. ASSUME NEW k \in 1 .. n + 1
      PROVE  RightAt(k)'
  <2>1. CASE k = n + 1
    <3>1. \A id : After(InCache, Coming', n, id) <=> After(InCache, Coming, n, id)
      BY <1>1, <1>2
    <3> QED BY <1>1, <2>1, <3>1 DEF RightAt, Foreseen
  <2>2. CASE k \in 1 .. n
    <3>1. k - 1 \in 0 .. n
      BY <2>2
    <3>2. \A id : After(InCache, Coming', k - 1, id) <=> After(InCache, Coming, k - 1, id)
      BY <1>2, <3>1
    <3>3. RightAt(k) /\ Coming'[k] = Coming[k]
      BY <1>1, <2>2 DEF AllRight
    <3> HIDE DEF n
    <3> QED BY <3>2, <3>3 DEF RightAt
  <2> QED BY <1>1, <2>1, <2>2
<1> QED BY <1>1, <1>4, <1>5 DEF AllRight

(* The first answer is worked off. *)
LEMMA AnswerDone ==
  ASSUME Types, Foreseen, AllRight, Coming # <<>>,
         Coming' = Tail(Coming), UNCHANGED cachedRecords,
         InCache' = (InCache \cup Adds(Head(Coming))) \ Removes(Head(Coming)),
         Joined' => Joined
  PROVE  Foreseen' /\ AllRight'
<1> DEFINE n == Len(Coming)
<1> Coming \in Seq(Answers)
  BY ComingIs
<1>1. /\ n \in Nat /\ n > 0 /\ Len(Coming') = n - 1
      /\ \A k \in 1 .. n - 1 : Coming'[k] = Coming[k + 1]
  OBVIOUS
<1>2. \A id : \A k \in 0 .. n - 1 : After(InCache', Coming', k, id) <=> After(InCache, Coming, k + 1, id)
  BY AfterTail
<1>3. Foreseen'
  <2>1. \A id : After(InCache', Coming', n - 1, id) <=> After(InCache, Coming, n, id)
    <3>1. n - 1 \in 0 .. n - 1 /\ (n - 1) + 1 = n
      BY <1>1
    <3> QED BY <1>2, <3>1
  <2> QED BY <1>1, <2>1 DEF Foreseen
<1>4. ASSUME NEW k \in 1 .. n - 1
      PROVE  RightAt(k)'
  <2>1. k - 1 \in 0 .. n - 1 /\ (k - 1) + 1 = (k + 1) - 1 /\ k + 1 \in 1 .. n
    BY <1>1
  <2>2. \A id : After(InCache', Coming', k - 1, id) <=> After(InCache, Coming, (k + 1) - 1, id)
    BY <1>2, <2>1
  <2>3. RightAt(k + 1) /\ Coming'[k] = Coming[k + 1]
    BY <1>1, <2>1 DEF AllRight
  <2> HIDE DEF n
  <2> QED BY <2>2, <2>3 DEF RightAt
<1> QED BY <1>1, <1>3, <1>4 DEF AllRight

LEMMA NothingSeen ==
  ASSUME Foreseen, AllRight, Joined' => Joined, Coming' = Coming, InCache' = InCache,
         UNCHANGED cachedRecords
  PROVE  Foreseen' /\ AllRight'
BY DEF Foreseen, AllRight, RightAt

-----------------------------------------------------------------------------
(* Calls of the adapter. *)

IInv == Types /\ Foreseen /\ AllRight /\ ResetIsLast

LEMMA CallMade ==
  ASSUME IInv, NEW c \in CallType, Call(c), ~Synchronous,
         map' \in [Ids -> Raw \cup {NoModel}], InCache' = InCache,
         UNCHANGED <<rows, cachedRecords, answers, microtasks, failures>>,
         adapter' = IF c.op = "reset" THEN "error" ELSE adapter
  PROVE  IInv'
<1>1. /\ adapter = "working" /\ calls' = Append(calls, c) /\ Coming' = Coming
      /\ UnderWay < MaxCalls
  BY DEF Call, Coming
<1>2. calls \in Seq(CallType) /\ Coming \in Seq(Answers)
  BY ComingIs DEF IInv, Types
<1>3. /\ calls' \in Seq(CallType) /\ Len(calls') = Len(calls) + 1 /\ calls'[Len(calls')] = c
      /\ \A i \in 1 .. Len(calls) : calls'[i] = calls[i]
  BY <1>1, <1>2
<1>4. Types'
  <2>1. UnderWay' <= MaxCalls
    BY <1>1, <1>2, <1>3, RecordCachesAssumption DEF UnderWay, IInv, Types
  <2> QED BY <1>3, <2>1 DEF IInv, Types, TypeOK, InTable
<1>5. Foreseen' /\ AllRight'
  BY <1>1, NothingSeen DEF IInv, Joined
<1>6. ResetIsLast'
  BY <1>1, <1>2, <1>3 DEF IInv, ResetIsLast
<1> QED BY <1>4, <1>5, <1>6 DEF IInv

(* The writes that a batch hands to the adapter. *)
LEMMA SentTyped ==
  ASSUME IInv, NEW ws \in Batches, Write(ws)
  PROVE  [op |-> "batch",
          writes |-> {[type |-> w.type, id |-> w.id, revision |-> revisionOf(w)] : w \in ws}] \in CallType
<1> DEFINE sent == {[type |-> w.type, id |-> w.id, revision |-> revisionOf(w)] : w \in ws}
<1>1. \A w \in ws : /\ w \in [type : WriteTypes, id : Ids] /\ Writable(w)
                    /\ \A v \in ws : v.id = w.id => v = w
  BY DEF Batches, Write
<1>2. \A w \in ws : w.type # "create" => map[w.id] \in Raw
  BY <1>1 DEF Writable, InCache, IInv, Types, TypeOK
<1>3. \A w \in ws : revisionOf(w) \in Nat
  <2> TAKE w \in ws
  <2>1. CASE w.type = "create"
    BY <2>1 DEF revisionOf
  <2>2. CASE w.type # "create"
    <3>1. map[w.id].revision \in Nat
      BY <1>2, <2>2 DEF Raw
    <3> QED BY <2>2, <3>1 DEF revisionOf
  <2> QED BY <2>1, <2>2
<1>4. sent \in SUBSET [type : WriteTypes, id : Ids, revision : Nat]
  BY <1>1, <1>3
<1>5. \A v, w \in sent : v.id = w.id => v = w
  BY <1>1
<1> HIDE DEF sent
<1>6. sent \in WriteSets
  BY <1>4, <1>5 DEF WriteSets
<1>7. [op |-> "batch", writes |-> sent] \in CallType
  BY <1>6 DEF CallType
<1> QED BY <1>7 DEF sent

LEMMA AppStepInv ==
  ASSUME IInv, AppStep, ~Synchronous
  PROVE  IInv'
<1> USE DEF IInv, Types, TypeOK
<1>1. ASSUME NEW op \in {"query", "raws"}, Fetch(op)
      PROVE  IInv'
  <2>1. [op |-> op] \in CallType /\ [op |-> op].op # "reset"
    BY <1>1 DEF CallType
  <2> QED BY <1>1, <2>1, CallMade DEF Fetch, InCache
<1>2. ASSUME NEW id \in Ids, Find(id)
      PROVE  IInv'
  <2>1. [op |-> "find", id |-> id] \in CallType
    BY DEF CallType
  <2> QED BY <1>2, <2>1, CallMade DEF Find, InCache
<1>3. ASSUME NEW id \in Ids, DestroyDeleted(id)
      PROVE  IInv'
  <2>1. [op |-> "destroyDeleted", id |-> id] \in CallType
    BY DEF CallType
  <2> QED BY <1>3, <2>1, CallMade DEF DestroyDeleted, InCache
<1>4. ASSUME NEW ws \in Batches, Write(ws)
      PROVE  IInv'
  <2> DEFINE sent == {[type |-> w.type, id |-> w.id, revision |-> revisionOf(w)] : w \in ws}
             c == [op |-> "batch", writes |-> sent]
  <2>1. \A w \in ws : /\ w \in [type : WriteTypes, id : Ids] /\ Writable(w)
                      /\ \A v \in ws : v.id = w.id => v = w
    BY <1>4 DEF Batches, Write
  <2>2. \A w \in ws : w.type # "create" => map[w.id] \in Raw
    BY <2>1 DEF Writable, InCache
  <2>3. c \in CallType /\ c.op = "batch"
    BY <1>4, SentTyped
  <2>4. \A id \in Ids : (map[id] # NoModel <=> map'[id] # NoModel) /\ map'[id] \in Raw \cup {NoModel}
    <3> TAKE id \in Ids
    <3>1. CASE \E w \in ws : w.id = id /\ w.type = "update"
      <4>0. map[id] \in Raw
        BY <2>2, <3>1
      <4>1. map[id] \in Raw /\ map'[id] = [map[id] EXCEPT !.revision = @ + 1]
        BY <1>4, <3>1, <4>0 DEF Write
      <4>2. map'[id] \in Raw
        BY ONLY <4>1 DEF Raw
      <4>3. map[id] # NoModel /\ map'[id] # NoModel
        BY <4>1, <4>2, NoModelAssumption
      <4> QED BY <4>2, <4>3
    <3>2. CASE /\ ~\E w \in ws : w.id = id /\ w.type = "update"
               /\ \E w \in ws : w.id = id /\ w.type \in {"markAsDeleted", "destroyPermanently"}
      <4>1. map[id] \in Raw /\ map'[id] = [map[id] EXCEPT !.deleted = TRUE]
        BY <1>4, <2>2, <3>2 DEF Write
      <4>2. map'[id] \in Raw
        BY <4>1 DEF Raw
      <4>3. map[id] # NoModel /\ map'[id] # NoModel
        BY <4>1, <4>2, NoModelAssumption
      <4> QED BY <4>2, <4>3
    <3>3. CASE /\ ~\E w \in ws : w.id = id /\ w.type = "update"
               /\ ~\E w \in ws : w.id = id /\ w.type \in {"markAsDeleted", "destroyPermanently"}
      BY <1>4, <3>3 DEF Write
    <3> QED BY <3>1, <3>2, <3>3
  <2>5. map' \in [Ids -> Raw \cup {NoModel}] /\ InCache' = InCache
    BY <1>4, <2>4 DEF Write, InCache
  <2>6. Call(c) /\ UNCHANGED <<rows, cachedRecords, answers, microtasks, adapter, failures>>
    BY <1>4 DEF Write
  <2> QED BY <2>3, <2>5, <2>6, CallMade
<1>5. CASE Reset
  <2>1. [op |-> "reset"] \in CallType
    BY DEF CallType
  <2> QED BY <1>5, <2>1, CallMade DEF Reset, InCache
<1> QED BY <1>1, <1>2, <1>3, <1>4, <1>5 DEF AppStep

-----------------------------------------------------------------------------
(* The adapter. *)

LEMMA CallHandled ==
  ASSUME IInv, NEW op, op # "reset", NEW a \in Answers, a.op # "reset", Handled(op, a),
         a.op \in Reads => a.ids \subseteq cachedRecords /\ DOMAIN a.raws \cap cachedRecords = {},
         cachedRecords' = (cachedRecords \cup Adds(a)) \ Removes(a),
         InTable' \subseteq Ids, \A id \in InTable' : rows'[id] \in Raw,
         failures' \in Nat
  PROVE  IInv'
<1>1. /\ calls # <<>> /\ calls' = Tail(calls) /\ answers' = Append(answers, a)
      /\ UNCHANGED <<microtasks, map, adapter>>
  BY DEF Handled
<1>2. calls \in Seq(CallType) /\ answers \in Seq(Answers) /\ Coming \in Seq(Answers)
      /\ microtasks \in Seq(Answers)
  BY ComingIs DEF IInv, Types
<1>3. Coming' = Append(Coming, a) /\ InCache' = InCache
  BY <1>1, <1>2, ConcatAssociative DEF Coming, InCache
<1>4. Adds(a) \subseteq Ids
  BY AnswerSets DEF Adds, Created, IdsOf, WriteSets
<1>5. Types'
  <2>1. UnderWay' <= MaxCalls
    BY <1>1, <1>2 DEF UnderWay, IInv, Types, TypeOK
  <2>2. calls' \in Seq(CallType) /\ answers' \in Seq(Answers)
    BY <1>1, <1>2
  <2> QED BY <1>1, <1>4, <2>1, <2>2 DEF IInv, Types, TypeOK
<1>6. Foreseen' /\ AllRight'
  BY <1>1, <1>3, AnswerAdded DEF IInv, Joined
<1>7. ResetIsLast'
  <2>1. /\ Len(calls') = Len(calls) - 1 /\ Len(calls) \in Nat
        /\ \A i \in 1 .. Len(calls') : calls'[i] = calls[i + 1]
    BY <1>1, <1>2
  <2>2. \A i \in 1 .. Len(Coming) : Coming[i].op # "reset"
    BY <1>1 DEF IInv, ResetIsLast
  <2>3. \A i \in 1 .. Len(Coming') : Coming'[i].op # "reset"
    BY <1>2, <1>3, <2>2
  <2>4. \A i \in 1 .. Len(calls') :
          /\ i + 1 \in 1 .. Len(calls) /\ (i < Len(calls') <=> i + 1 < Len(calls))
          /\ (i = Len(calls') <=> i + 1 = Len(calls))
    BY <2>1
  <2>5. \A i \in 1 .. Len(calls') :
          /\ adapter' = "working" => calls'[i].op # "reset"
          /\ i < Len(calls') => calls'[i].op # "reset"
          /\ adapter' = "error" /\ i = Len(calls') => calls'[i].op = "reset"
    BY <1>1, <2>1, <2>4 DEF IInv, ResetIsLast
  <2> QED BY <1>1, <2>3, <2>5 DEF IInv, ResetIsLast
<1> QED BY <1>5, <1>6, <1>7 DEF IInv

LEMMA ResetHandled ==
  ASSUME IInv, NEW ok \in BOOLEAN, Handled("reset", [op |-> "reset", ok |-> ok]),
         rows' = rows \/ rows' = <<>>, cachedRecords' = cachedRecords \/ cachedRecords' = {},
         ok => cachedRecords' = {}, failures' \in Nat
  PROVE  IInv'
<1> DEFINE a == [op |-> "reset", ok |-> ok]
<1>0. a \in Answers /\ a.op = "reset" /\ a.ok = ok
  BY DEF Answers
<1>1. /\ calls # <<>> /\ Head(calls).op = "reset" /\ calls' = Tail(calls)
      /\ answers' = Append(answers, a) /\ UNCHANGED <<microtasks, map, adapter>>
  BY DEF Handled
<1>2. calls \in Seq(CallType) /\ answers \in Seq(Answers) /\ Coming \in Seq(Answers)
      /\ microtasks \in Seq(Answers)
  BY ComingIs DEF IInv, Types
<1>3. Coming' = Append(Coming, a) /\ InCache' = InCache
  BY <1>0, <1>1, <1>2, ConcatAssociative DEF Coming, InCache
<1>4. /\ Len(calls) = 1 /\ calls' = <<>> /\ adapter = "error" /\ adapter' = "error"
  <2>1. calls[1].op = "reset" /\ 1 \in 1 .. Len(calls)
    BY <1>1, <1>2
  <2>2. adapter \in {"working", "error"}
    BY DEF IInv, Types, TypeOK
  <2>3. adapter = "error" /\ ~(1 < Len(calls))
    <3>1. /\ adapter = "working" => calls[1].op # "reset"
          /\ 1 < Len(calls) => calls[1].op # "reset"
      BY <2>1 DEF IInv, ResetIsLast
    <3> QED BY <2>1, <2>2, <3>1
  <2>4. Len(calls) = 1
    <3>1. Len(calls) \in Nat
      BY <1>2
    <3> QED BY ONLY <3>1, <2>1, <2>3
  <2>5. Tail(calls) = <<>>
    <3>1. Tail(calls) \in Seq(CallType) /\ Len(Tail(calls)) = 0
      BY ONLY <1>1, <1>2, <2>4, HeadTailProperties
    <3> QED BY ONLY <3>1, EmptySeq
  <2> QED BY <1>1, <2>3, <2>4, <2>5
<1>5. Types'
  <2>1. UnderWay' <= MaxCalls
    BY <1>0, <1>1, <1>2 DEF UnderWay, IInv, Types, TypeOK
  <2>2. calls' \in Seq(CallType) /\ answers' \in Seq(Answers)
    BY <1>0, <1>1, <1>2
  <2> QED BY <1>1, <2>1, <2>2 DEF IInv, Types, TypeOK, InTable
<1>6. \A i \in 1 .. Len(Coming) : Coming[i].op # "reset"
  BY <1>1 DEF IInv, ResetIsLast
<1>7. Foreseen' /\ AllRight'
  <2>1. Joined
    BY <1>1 DEF Joined
  <2>2. Joined' => ok
    BY <1>0, <1>2, <1>3, <1>4, <1>6 DEF Joined
  <2>3. ok => (cachedRecords \cup Adds(a)) \ Removes(a) = {}
    BY DEF Adds, Removes, Reads, IInv, Types, TypeOK
  <2>4. a.op \notin Reads
    BY DEF Reads
  <2> HIDE DEF a
  <2> QED BY <1>0, <1>3, <2>1, <2>2, <2>3, <2>4, AnswerAdded DEF IInv
<1>8. ResetIsLast'
  <2>1. \A i \in 1 .. Len(Coming') : Coming'[i].op = "reset" => i = Len(Coming')
    BY <1>0, <1>2, <1>3, <1>6
  <2>2. Len(calls') = 0
    BY ONLY <1>4
  <2>3. Len(microtasks') <= 1
    BY <1>1 DEF IInv, ResetIsLast
  <2> QED BY ONLY <1>4, <2>1, <2>2, <2>3 DEF ResetIsLast
<1> QED BY <1>5, <1>7, <1>8 DEF IInv

LEMMA AdapterStepInv ==
  ASSUME IInv, AdapterStep
  PROVE  IInv'
<1> USE DEF IInv, Types, TypeOK
<1>1. \A found \in SUBSET Ids, op \in Reads :
        /\ Answer(op, found) \in Answers /\ Answer(op, found).op = op
        /\ Answer(op, found).ids \subseteq cachedRecords
        /\ DOMAIN Answer(op, found).raws = InTable \cap (found \ cachedRecords)
  <2> TAKE found \in SUBSET Ids, op \in Reads
  <2>1. Only(rows, found \ cachedRecords) \in [InTable \cap (found \ cachedRecords) -> Raw]
    BY DEF Only, InTable
  <2>2. InTable \cap (found \ cachedRecords) \in SUBSET Ids
    OBVIOUS
  <2>3. Only(rows, found \ cachedRecords) \in UNION {[S -> Raw] : S \in SUBSET Ids}
    BY <2>1, <2>2
  <2> QED BY <2>1, <2>3 DEF Answer, Answers
<1>2. ASSUME NEW op \in {"query", "raws"}, HandleQuery(op)
      PROVE  IInv'
  <2> DEFINE a == Answer(op, Live)
  <2>1. Live \subseteq InTable /\ Live \subseteq Ids
    BY DEF Live
  <2>2. /\ a \in Answers /\ a.op = op /\ op \in Reads
        /\ a.ids \subseteq cachedRecords /\ DOMAIN a.raws = Live \ cachedRecords
    BY <1>1, <2>1 DEF Reads
  <2>3. Adds(a) = Live \ cachedRecords /\ Removes(a) = {}
    BY <2>2 DEF Adds, Removes
  <2>4. Handled(op, a) /\ cachedRecords' = cachedRecords \cup Live /\ UNCHANGED <<rows, failures>>
    BY <1>2 DEF HandleQuery
  <2> HIDE DEF a
  <2> QED BY <2>2, <2>3, <2>4, CallHandled DEF InTable
<1>3. CASE HandleFind
  <2> DEFINE found == findResult(Head(calls).id)
             a == Answer("find", found)
  <2>1. found \subseteq InTable \cup cachedRecords
    BY DEF findResult
  <2>2. /\ a \in Answers /\ a.op = "find" /\ "find" \in Reads
        /\ a.ids \subseteq cachedRecords /\ DOMAIN a.raws = found \ cachedRecords
    BY <1>1, <2>1 DEF Reads
  <2>3. Adds(a) = found \ cachedRecords /\ Removes(a) = {}
    BY <2>2 DEF Adds, Removes
  <2>4. Handled("find", a) /\ cachedRecords' = cachedRecords \cup found /\ UNCHANGED <<rows, failures>>
    BY <1>3 DEF HandleFind
  <2> HIDE DEF a, found
  <2> QED BY <2>2, <2>3, <2>4, CallHandled DEF InTable
<1>4. ASSUME NEW ok \in BOOLEAN, Handled("batch", BatchAnswer(ok))
      PROVE  /\ Head(calls).writes \in WriteSets /\ BatchAnswer(ok) \in Answers
             /\ BatchAnswer(ok).op = "batch" /\ BatchAnswer(ok).op \notin Reads
             /\ BatchAnswer(ok).ok = ok /\ BatchAnswer(ok).writes = Head(calls).writes
  <2>1. Head(calls) \in CallType /\ Head(calls).op = "batch"
    BY <1>4 DEF Handled
  <2>2. Head(calls).writes \in WriteSets
    BY <2>1 DEF CallType
  <2> QED BY <2>2 DEF BatchAnswer, Answers, Reads
<1>5. CASE HandleBatch
  <2> DEFINE ws == Head(calls).writes
             a == BatchAnswer(TRUE)
  <2>1. Handled("batch", a) /\ rows' = Applied(ws) /\ failures' = failures
        /\ cachedRecords' = (cachedRecords \cup newIds(ws)) \ removedIds(ws)
    BY <1>5 DEF HandleBatch
  <2>2. ws \in WriteSets /\ a \in Answers /\ a.op = "batch" /\ a.op \notin Reads /\ a.ok /\ a.writes = ws
    BY <1>4, <2>1
  <2>3. Adds(a) = newIds(ws) /\ Removes(a) = removedIds(ws)
    BY <2>2 DEF Adds, Removes, newIds, removedIds
  <2>4. InTable' \subseteq Ids /\ \A id \in InTable' : rows'[id] \in Raw
    <3> HIDE DEF ws
    <3>1. InTable' = (InTable \ IdsOf(ws, {"destroyPermanently"})) \cup Created(ws)
      BY <2>1 DEF Applied, InTable
    <3>2. Created(ws) \subseteq Ids
      BY <2>2 DEF WriteSets, Created, IdsOf
    <3>3. ASSUME NEW id \in InTable'
          PROVE  rows'[id] \in Raw
      <4>1. CASE \E w \in ws : w.id = id /\ w.type = "create"
        <5>1. \A w \in ws : w.id = id => w.type = "create"
          BY <2>2, <4>1 DEF WriteSets
        <5>2. rows'[id] = [revision |-> 0, deleted |-> FALSE]
          BY <2>1, <3>1, <3>3, <4>1, <5>1 DEF Applied
        <5> QED BY <5>2 DEF Raw
      <4>2. CASE ~\E w \in ws : w.id = id /\ w.type = "create"
        <5>1. id \in InTable /\ rows[id] \in Raw
          BY <3>1, <3>3, <4>2 DEF Created, IdsOf
        <5> DEFINE r == (CHOOSE w \in ws : w.id = id).revision
        <5>2. rows'[id] = CASE \E w \in ws : w.id = id /\ w.type = "update" -> [rows[id] EXCEPT !.revision = r]
                            [] \E w \in ws : w.id = id /\ w.type = "markAsDeleted" -> [rows[id] EXCEPT !.deleted = TRUE]
                            [] OTHER -> rows[id]
          BY <2>1, <3>1, <3>3, <4>2 DEF Applied
        <5>3. (\E w \in ws : w.id = id) => r \in Nat
          BY <2>2 DEF WriteSets
        <5> HIDE DEF r
        <5>4. CASE \E w \in ws : w.id = id /\ w.type = "update"
          <6>1. \A w \in ws : w.id = id => w.type = "update"
            BY <2>2, <5>4 DEF WriteSets
          <6>2. rows'[id] = [rows[id] EXCEPT !.revision = r]
            BY <5>2, <5>4, <6>1
          <6> QED BY <5>1, <5>3, <5>4, <6>2 DEF Raw
        <5>5. CASE ~\E w \in ws : w.id = id /\ w.type = "update"
          BY <5>1, <5>2, <5>5 DEF Raw
        <5> QED BY <5>4, <5>5
      <4> QED BY <4>1, <4>2
    <3> QED BY <3>1, <3>2, <3>3
  <2> HIDE DEF a, ws
  <2> QED BY <2>1, <2>2, <2>3, <2>4, CallHandled
<1>6. CASE BatchFails
  <2> DEFINE a == BatchAnswer(FALSE)
  <2>1. Handled("batch", a) /\ failures' = failures + 1 /\ UNCHANGED <<rows, cachedRecords>>
    BY <1>6 DEF BatchFails
  <2>2. a \in Answers /\ a.op = "batch" /\ a.op \notin Reads /\ ~a.ok
    BY <1>4, <2>1
  <2>3. Adds(a) = {} /\ Removes(a) = {}
    BY <2>2 DEF Adds, Removes
  <2> HIDE DEF a
  <2>4. cachedRecords' = (cachedRecords \cup Adds(a)) \ Removes(a)
    BY ONLY <2>1, <2>3
  <2>5. failures' \in Nat
    BY <2>1
  <2>6. InTable' = InTable /\ rows' = rows
    BY <2>1 DEF InTable
  <2> QED BY <2>1, <2>2, <2>4, <2>5, <2>6, CallHandled
<1>7. CASE HandleDestroyDeleted
  <2> DEFINE a == [op |-> "destroyDeleted"]
  <2>1. Handled("destroyDeleted", a) /\ rows' = Without(rows, {Head(calls).id})
        /\ UNCHANGED <<cachedRecords, failures>>
    BY <1>7 DEF HandleDestroyDeleted
  <2>2. a \in Answers /\ a.op = "destroyDeleted" /\ a.op \notin Reads
    BY DEF Answers, Reads
  <2>3. Adds(a) = {} /\ Removes(a) = {}
    BY <2>2 DEF Adds, Removes
  <2>4. InTable' \subseteq InTable /\ \A id \in InTable' : rows'[id] = rows[id]
    BY <2>1 DEF Without, InTable
  <2> HIDE DEF a
  <2> QED BY <2>1, <2>2, <2>3, <2>4, CallHandled
<1>8. CASE HandleReset
  BY <1>8, ResetHandled DEF HandleReset
<1>9. CASE ResetFails
  <2>1. /\ Handled("reset", [op |-> "reset", ok |-> FALSE]) /\ failures' = failures + 1
        /\ rows' = rows \/ rows' = <<>>
        /\ cachedRecords' = cachedRecords \/ cachedRecords' = {}
    BY <1>9 DEF ResetFails
  <2>2. failures' \in Nat
    BY <2>1
  <2> QED BY <2>1, <2>2, ResetHandled
<1> QED BY <1>2, <1>3, <1>5, <1>6, <1>7, <1>8, <1>9 DEF AdapterStep

-----------------------------------------------------------------------------
(* The answers, in the application's process. *)

LEMMA Moved ==
  ASSUME IInv, Coming # <<>>, Coming' = Tail(Coming), Types', Len(microtasks') <= 1,
         UNCHANGED <<cachedRecords, calls>>,
         InCache' = (InCache \cup Adds(Head(Coming))) \ Removes(Head(Coming)),
         adapter' = adapter \/ (adapter' = "working" /\ Head(Coming).op = "reset" /\ Head(Coming).ok)
  PROVE  IInv'
<1> Coming \in Seq(Answers)
  BY ComingIs DEF IInv
<1>1. /\ Len(Coming) \in Nat /\ Len(Coming) > 0 /\ Len(Coming') = Len(Coming) - 1
      /\ \A i \in 1 .. Len(Coming') : Coming'[i] = Coming[i + 1] /\ i + 1 \in 1 .. Len(Coming)
      /\ Head(Coming) = Coming[1] /\ 1 \in 1 .. Len(Coming)
  BY HeadTailProperties
<1>2. Joined' => Joined
  BY <1>1 DEF Joined
<1>3. Foreseen' /\ AllRight'
  BY <1>2, AnswerDone DEF IInv
<1>4. \A i \in 1 .. Len(Coming') : Coming'[i].op = "reset" =>
        adapter' = "error" /\ i = Len(Coming') /\ calls' = <<>>
  <2>1. ASSUME NEW i \in 1 .. Len(Coming'), Coming'[i].op = "reset"
        PROVE  adapter' = "error" /\ i = Len(Coming') /\ calls' = <<>>
    <3>1. Coming[i + 1].op = "reset" /\ i + 1 \in 1 .. Len(Coming)
      BY <1>1, <2>1
    <3>2. adapter = "error" /\ i + 1 = Len(Coming) /\ calls = <<>>
      BY <3>1 DEF IInv, ResetIsLast
    <3>3. Coming[1].op # "reset"
      <4>1. 1 \in 1 .. Len(Coming) /\ 1 # Len(Coming) /\ i = Len(Coming')
        BY ONLY <1>1, <2>1, <3>2
      <4>2. Coming[1].op = "reset" => 1 = Len(Coming)
        BY <4>1 DEF IInv, ResetIsLast
      <4> QED BY <4>1, <4>2
    <3>4. i = Len(Coming')
      BY ONLY <1>1, <2>1, <3>2
    <3>5. adapter' = adapter /\ calls' = calls
      BY <1>1, <3>3
    <3> QED BY <3>2, <3>4, <3>5
  <2> QED BY <2>1
<1>5. adapter' = adapter \/ calls = <<>>
  <2>1. Coming[1].op = "reset" => calls = <<>>
    BY <1>1 DEF IInv, ResetIsLast
  <2> QED BY <1>1, <2>1
<1>6. ResetIsLast'
  BY <1>4, <1>5 DEF IInv, ResetIsLast
<1> QED BY <1>3, <1>6 DEF IInv

(* The RecordCache uses an answer that is right about it. *)
LEMMA ResultUsed ==
  ASSUME IInv, Coming # <<>>, Head(Coming).op \in Reads, FromQueryResult(Head(Coming))
  PROVE  /\ map' \in [Ids -> Raw \cup {NoModel}]
         /\ InCache' = (InCache \cup Adds(Head(Coming))) \ Removes(Head(Coming))
         /\ map' = [id \in Ids |-> IF id \in DOMAIN Head(Coming).raws \ InCache
                                   THEN Head(Coming).raws[id] ELSE map[id]]
<1> DEFINE a == Head(Coming)
<1> Coming \in Seq(Answers)
  BY ComingIs DEF IInv
<1>1. a \in Answers /\ a = Coming[1] /\ 1 \in 1 .. Len(Coming)
  BY HeadTailProperties
<1>2. a.ids \subseteq Ids /\ DOMAIN a.raws \subseteq Ids /\ \A id \in DOMAIN a.raws : a.raws[id] \in Raw
  BY <1>1, AnswerSets
<1>3. a.ids \subseteq InCache
  <2>1. \A id \in Ids : id \in a.ids => After(InCache, Coming, 1 - 1, id)
    BY <1>1 DEF IInv, AllRight, RightAt
  <2>2. \A id : After(InCache, Coming, 1 - 1, id) <=> id \in InCache
    <3>1. 1 - 1 = 0
      OBVIOUS
    <3> QED BY <3>1, AfterNone
  <2> QED BY <1>2, <2>1, <2>2
<1>4. map' = [id \in Ids |-> IF id \in DOMAIN a.raws \ InCache THEN a.raws[id] ELSE map[id]]
  BY <1>3 DEF FromQueryResult
<1>5. map' \in [Ids -> Raw \cup {NoModel}]
  BY <1>2, <1>4 DEF IInv, Types, TypeOK
<1>6. InCache' = InCache \cup DOMAIN a.raws
  BY <1>2, <1>4, NoModelAssumption DEF InCache
<1>7. Adds(a) = DOMAIN a.raws /\ Removes(a) = {}
  BY DEF Adds, Removes, Reads
<1> QED BY <1>4, <1>5, <1>6, <1>7

LEMMA AnswerArrivesInv ==
  ASSUME IInv, AnswerArrives, ~Synchronous
  PROVE  IInv'
<1> DEFINE a == Head(answers)
<1>1. /\ answers # <<>> /\ microtasks = <<>> /\ answers' = Tail(answers)
      /\ UNCHANGED <<rows, cachedRecords, calls, adapter, failures>>
  BY DEF AnswerArrives, MayArrive
<1>2. /\ answers \in Seq(Answers) /\ calls \in Seq(CallType)
      /\ answers' \in Seq(Answers) /\ Len(answers') = Len(answers) - 1
      /\ Len(answers) \in Nat /\ Len(microtasks) = 0 /\ a \in Answers
  BY <1>1, HeadTailProperties DEF IInv, Types
<1>3. Coming = answers
  BY <1>1, <1>2, ConcatEmptySeq DEF Coming
<1>4. CASE a.op \in {"query", "find"} /\ FromQueryResult(a) /\ UNCHANGED microtasks
  <2>1. Coming' = Tail(Coming)
    BY <1>1, <1>2, <1>3, <1>4, ConcatEmptySeq DEF Coming
  <2>2. /\ map' \in [Ids -> Raw \cup {NoModel}]
        /\ InCache' = (InCache \cup Adds(a)) \ Removes(a)
    BY <1>1, <1>3, <1>4, ResultUsed DEF Reads
  <2>3. Types'
    <3>1. UnderWay' <= MaxCalls
      BY <1>1, <1>2, <1>4, RecordCachesAssumption DEF UnderWay, IInv, Types, TypeOK
    <3> QED BY <1>1, <1>2, <1>4, <2>2, <3>1 DEF IInv, Types, TypeOK, InTable
  <2> QED BY <1>1, <1>2, <1>3, <1>4, <2>1, <2>2, <2>3, Moved
<1>5. CASE /\ a.op \in {"raws", "batch", "reset"} /\ microtasks' = Append(microtasks, a)
           /\ UNCHANGED map
  <2>1. microtasks' = <<a>> /\ Len(microtasks') = 1
    BY <1>1, <1>5
  <2>2. Coming' = Coming
    <3>1. Coming' = <<a>> \o Tail(answers)
      BY <1>1, <2>1 DEF Coming
    <3> QED BY <1>1, <1>2, <1>3, <3>1
  <2>3. InCache' = InCache
    BY <1>5 DEF InCache
  <2>4. Types'
    <3>1. UnderWay' <= MaxCalls
      BY <1>1, <1>2, <2>1, RecordCachesAssumption DEF UnderWay, IInv, Types, TypeOK
    <3>2. microtasks' \in Seq({b \in Answers : b.op \in {"raws", "batch", "reset"}})
      BY <1>2, <1>5, <2>1
    <3> QED BY <1>1, <1>2, <1>5, <3>1, <3>2 DEF IInv, Types, TypeOK, InTable
  <2>5. Foreseen' /\ AllRight'
    BY <1>1, <2>2, <2>3, NothingSeen DEF IInv, Joined
  <2>6. ResetIsLast'
    BY <1>1, <2>1, <2>2 DEF IInv, ResetIsLast
  <2> QED BY <2>4, <2>5, <2>6 DEF IInv
<1>6. CASE a.op = "destroyDeleted" /\ UNCHANGED <<map, microtasks>>
  <2>1. Coming' = Tail(Coming)
    BY <1>1, <1>2, <1>3, <1>6, ConcatEmptySeq DEF Coming
  <2>2. Adds(a) = {} /\ Removes(a) = {} /\ InCache' = InCache
    BY <1>6 DEF Adds, Removes, Reads, InCache
  <2>3. Types'
    <3>1. UnderWay' <= MaxCalls
      BY <1>1, <1>2, <1>6, RecordCachesAssumption DEF UnderWay, IInv, Types, TypeOK
    <3> QED BY <1>1, <1>2, <1>6, <3>1 DEF IInv, Types, TypeOK, InTable
  <2>4. InCache' = (InCache \cup Adds(a)) \ Removes(a)
    BY ONLY <2>2
  <2> QED BY <1>1, <1>2, <1>3, <1>6, <2>1, <2>3, <2>4, Moved
<1> QED BY <1>4, <1>5, <1>6 DEF AnswerArrives

(* A caller that awaited goes on. *)
LEMMA ContinueMoves ==
  ASSUME IInv, NEW op, Continue(op), UNCHANGED answers
  PROVE  /\ Coming # <<>> /\ Coming' = Tail(Coming) /\ Head(Coming) = Head(microtasks)
         /\ Head(Coming).op = op /\ Head(Coming) \in Answers
         /\ microtasks' \in Seq({a \in Answers : a.op \in {"raws", "batch", "reset"}})
         /\ Len(microtasks') = 0 /\ UnderWay' <= MaxCalls + (Len(calls') - Len(calls))
<1>1. microtasks # <<>> /\ microtasks' = Tail(microtasks) /\ Head(microtasks).op = op
  BY DEF Continue
<1>2. /\ microtasks \in Seq({a \in Answers : a.op \in {"raws", "batch", "reset"}})
      /\ microtasks \in Seq(Answers) /\ answers \in Seq(Answers) /\ Len(microtasks) <= 1
  BY ComingIs DEF IInv, Types, ResetIsLast
<1>3. /\ microtasks' \in Seq({a \in Answers : a.op \in {"raws", "batch", "reset"}})
      /\ Len(microtasks) \in Nat /\ Len(microtasks) # 0 /\ Len(microtasks') = Len(microtasks) - 1
  BY <1>1, <1>2, HeadTailProperties, EmptySeq
<1>4. Len(microtasks) = 1 /\ Len(microtasks') = 0
  BY <1>2, <1>3
<1>5. microtasks' = <<>> /\ microtasks = <<Head(microtasks)>> /\ Head(microtasks) \in Answers
  <2>1. microtasks' = <<>>
    BY <1>3, <1>4, EmptySeq
  <2> QED BY <1>1, <1>2, <1>4, <2>1
<1>6. Coming = <<Head(microtasks)>> \o answers /\ Coming' = answers
  BY <1>2, <1>5, ConcatEmptySeq DEF Coming
<1>7. Head(Coming) = Head(microtasks) /\ Tail(Coming) = answers /\ Coming # <<>>
  BY <1>2, <1>5, <1>6
<1>8. UnderWay' <= MaxCalls + (Len(calls') - Len(calls))
  BY <1>2, <1>3, RecordCachesAssumption DEF UnderWay, IInv, Types, TypeOK
<1> QED BY <1>1, <1>3, <1>4, <1>5, <1>6, <1>7, <1>8

LEMMA ContinueInv ==
  ASSUME IInv, RawsContinue \/ BatchContinues \/ ResetContinues
  PROVE  IInv'
<1> DEFINE a == Head(microtasks)
<1>1. ASSUME NEW op, Continue(op), map' \in [Ids -> Raw \cup {NoModel}],
             UNCHANGED <<rows, cachedRecords, calls, answers, failures>>,
             InCache' = (InCache \cup Adds(a)) \ Removes(a),
             adapter' = adapter \/ (adapter' = "working" /\ a.op = "reset" /\ a.ok)
      PROVE  IInv'
  <2>1. /\ Coming # <<>> /\ Coming' = Tail(Coming) /\ Head(Coming) = a
        /\ microtasks' \in Seq({b \in Answers : b.op \in {"raws", "batch", "reset"}})
        /\ Len(microtasks') = 0 /\ UnderWay' <= MaxCalls + (Len(calls') - Len(calls))
    BY <1>1, ContinueMoves
  <2>2. UnderWay' <= MaxCalls
    BY <1>1, <2>1, RecordCachesAssumption DEF IInv, Types
  <2>3. Types'
    BY <1>1, <2>1, <2>2 DEF IInv, Types, TypeOK, InTable
  <2> HIDE DEF a
  <2> QED BY <1>1, <2>1, <2>3, Moved
<1>2. CASE RawsContinue
  <2>1. /\ Continue("raws") /\ FromQueryResult(a)
        /\ UNCHANGED <<rows, cachedRecords, calls, answers, adapter, failures>>
    BY <1>2 DEF RawsContinue
  <2>2. Coming # <<>> /\ Head(Coming) = a /\ a.op \in Reads
    BY <2>1, ContinueMoves DEF Reads
  <2>3. /\ map' \in [Ids -> Raw \cup {NoModel}]
        /\ InCache' = (InCache \cup Adds(a)) \ Removes(a)
    BY <2>1, <2>2, ResultUsed
  <2> QED BY <1>1, <2>1, <2>3
<1>3. CASE BatchContinues
  <2>1. /\ Continue("batch")
        /\ map' = IF a.ok THEN applyChangesToCache(a.writes) ELSE map
        /\ UNCHANGED <<rows, cachedRecords, calls, answers, adapter, failures>>
    BY <1>3 DEF BatchContinues
  <2>2. a.op = "batch" /\ a \in Answers
    BY <2>1, ContinueMoves
  <2>3. a.writes \in WriteSets /\ a.ok \in BOOLEAN
    BY <2>2, AnswerSets
  <2>4. /\ Adds(a) = IF a.ok THEN Created(a.writes) ELSE {}
        /\ Removes(a) = IF a.ok THEN Destroyed(a.writes) ELSE {}
    BY <2>2, <2>3 DEF Adds, Removes, Reads
  <2>5. CASE a.ok
    <3> DEFINE new == [revision |-> 0, deleted |-> FALSE]
    <3>1. map' = [id \in Ids |-> CASE id \in Created(a.writes) -> new
                                   [] id \in Destroyed(a.writes) -> NoModel [] OTHER -> map[id]]
      BY <2>1, <2>5 DEF applyChangesToCache
    <3>2. new \in Raw /\ new # NoModel
      <4>1. new \in Raw
        BY DEF Raw
      <4> QED BY <4>1, NoModelAssumption
    <3>3. Created(a.writes) \subseteq Ids /\ Created(a.writes) \cap Destroyed(a.writes) = {}
      BY <2>3, NoneTwice DEF WriteSets, Created, IdsOf
    <3> HIDE DEF new
    <3>4. \A id \in Ids : map'[id] = IF id \in Created(a.writes) THEN new
                                     ELSE IF id \in Destroyed(a.writes) THEN NoModel ELSE map[id]
      BY <3>1, <3>3
    <3>5. map' \in [Ids -> Raw \cup {NoModel}]
      BY <3>1, <3>2, <3>4 DEF IInv, Types, TypeOK
    <3>6. InCache' = (InCache \cup Created(a.writes)) \ Destroyed(a.writes)
      BY <3>2, <3>3, <3>4 DEF InCache
    <3> QED BY <1>1, <2>1, <2>4, <2>5, <3>5, <3>6
  <2>6. CASE ~a.ok
    <3>1. map' = map /\ map \in [Ids -> Raw \cup {NoModel}]
      BY <2>1, <2>6 DEF IInv, Types, TypeOK
    <3>2. InCache' = InCache /\ Adds(a) = {} /\ Removes(a) = {}
      BY <2>4, <2>6, <3>1 DEF InCache
    <3>3. InCache' = (InCache \cup Adds(a)) \ Removes(a)
      BY ONLY <3>2
    <3> QED BY <1>1, <2>1, <3>1, <3>3
  <2> QED BY <2>3, <2>5, <2>6
<1>4. CASE ResetContinues
  <2>1. /\ Continue("reset") /\ UNCHANGED <<rows, cachedRecords, calls, answers, failures>>
        /\ IF a.ok THEN map' = [id \in Ids |-> NoModel] /\ adapter' = "working"
           ELSE UNCHANGED <<map, adapter>>
    BY <1>4 DEF ResetContinues
  <2>2. a.op = "reset" /\ a \in Answers
    BY <2>1, ContinueMoves
  <2>3. Adds(a) = {} /\ Removes(a) = IF a.ok THEN Ids ELSE {}
    BY <2>2 DEF Adds, Removes, Reads
  <2>4. CASE a.ok
    <3>1. InCache' = {} /\ InCache \subseteq Ids
      BY <2>1, <2>4 DEF InCache
    <3>2. InCache' = (InCache \cup Adds(a)) \ Removes(a)
      BY <2>3, <2>4, <3>1
    <3>3. map' \in [Ids -> Raw \cup {NoModel}]
      BY <2>1, <2>4
    <3> QED BY <1>1, <2>1, <2>2, <2>4, <3>2, <3>3
  <2>5. CASE ~a.ok
    <3>1. map' = map /\ adapter' = adapter /\ map \in [Ids -> Raw \cup {NoModel}]
      BY <2>1, <2>5 DEF IInv, Types, TypeOK
    <3>2. InCache' = InCache /\ Adds(a) = {} /\ Removes(a) = {}
      BY <2>3, <2>5, <3>1 DEF InCache
    <3>3. InCache' = (InCache \cup Adds(a)) \ Removes(a)
      BY ONLY <3>2
    <3> QED BY <1>1, <2>1, <3>1, <3>3
  <2> QED BY <2>4, <2>5
<1> QED BY <1>2, <1>3, <1>4

-----------------------------------------------------------------------------
(* The theorems. *)

LEMMA InitInv ==
  ASSUME Init
  PROVE  IInv
<1>1. /\ calls = <<>> /\ answers = <<>> /\ microtasks = <<>> /\ cachedRecords = {}
      /\ map = [id \in Ids |-> NoModel] /\ adapter = "working" /\ failures = 0
  BY DEF Init
<1>2. InTable \subseteq Ids /\ \A id \in InTable : rows[id] \in Raw
  BY DEF Init, InTable, Raw
<1>3. Coming = <<>> /\ InCache = {}
  BY <1>1 DEF Coming, InCache
<1>4. Types
  BY <1>1, <1>2, RecordCachesAssumption DEF Types, TypeOK, UnderWay
<1>5. Foreseen
  <2>1. Len(Coming) = 0
    BY <1>3
  <2> QED BY <1>1, <1>3, <2>1, AfterNone DEF Foreseen
<1>6. AllRight /\ ResetIsLast
  BY <1>1, <1>3 DEF AllRight, ResetIsLast
<1> QED BY <1>4, <1>5, <1>6 DEF IInv

LEMMA Invariance == ASSUME ~Synchronous PROVE Spec => []IInv
<1>1. IInv /\ [Next]_vars => IInv'
  <2>1. ASSUME IInv, UNCHANGED vars
        PROVE  IInv'
    BY <2>1 DEF vars, IInv, Types, TypeOK, UnderWay, InTable, Foreseen, AllRight, RightAt, ResetIsLast,
      Joined, Coming, InCache
  <2> QED BY <2>1, AppStepInv, AdapterStepInv, AnswerArrivesInv, ContinueInv DEF Next
<1> QED BY <1>1, InitInv, PTL DEF Spec

(* Both caches and the calls between them keep their types (TypeOK). *)
THEOREM TypeCorrect == ASSUME ~Synchronous PROVE Spec => []TypeOK
<1>1. IInv => TypeOK
  BY DEF IInv, Types
<1> QED BY <1>1, Invariance, PTL

(* The result that is worked on next is the first answer on its way. *)
LEMMA ResultIsNext ==
  ASSUME IInv, ~Synchronous, NEW a \in Results
  PROVE  /\ a.op \in Reads /\ a.ids \subseteq Ids /\ DOMAIN a.raws \subseteq Ids
         /\ \A id \in a.ids : id \in InCache
         /\ \A id \in DOMAIN a.raws : id \notin InCache
<1>1. answers \in Seq(Answers) /\ microtasks \in Seq(Answers)
  BY ComingIs DEF IInv, Types
<1>2. a.op \in Reads /\ Coming # <<>> /\ a = Head(Coming)
  <2>1. CASE answers # <<>> /\ MayArrive /\ a = Head(answers) /\ a.op \in {"query", "find"}
    <3>1. Coming = answers
      BY <1>1, <2>1, ConcatEmptySeq DEF Coming, MayArrive
    <3> QED BY <2>1, <3>1 DEF Reads
  <2>2. CASE microtasks # <<>> /\ a = Head(microtasks) /\ a.op = "raws"
    <3>1. Coming # <<>> /\ Head(Coming) = Head(microtasks)
      BY <1>1, <2>2 DEF Coming
    <3> QED BY <2>2, <3>1 DEF Reads
  <2> QED BY <2>1, <2>2 DEF Results
<1>3. Coming \in Seq(Answers)
  BY ComingIs DEF IInv
<1>4. a \in Answers /\ a = Coming[1] /\ 1 \in 1 .. Len(Coming)
  BY <1>2, <1>3, HeadTailProperties
<1>5. a.ids \subseteq Ids /\ DOMAIN a.raws \subseteq Ids
  BY <1>2, <1>4, AnswerSets
<1>6. \A id \in Ids : /\ id \in a.ids => After(InCache, Coming, 1 - 1, id)
                      /\ id \in DOMAIN a.raws => ~After(InCache, Coming, 1 - 1, id)
  BY <1>2, <1>4 DEF IInv, AllRight, RightAt
<1>7. \A id : After(InCache, Coming, 1 - 1, id) <=> id \in InCache
  <2>1. 1 - 1 = 0
    OBVIOUS
  <2> QED BY <2>1, AfterNone
<1> QED BY <1>2, <1>5, <1>6, <1>7

(* An adapter on its own thread never sends the mere id of a record that   *)
(* has no model when the answer is used (RecordCache.js:78).               *)
THEOREM IdsCorrect == ASSUME ~Synchronous PROVE Spec => []NoDanglingId
<1>1. IInv => NoDanglingId
  BY ResultIsNext DEF NoDanglingId
<1> QED BY <1>1, Invariance, PTL

(* Nor a row of a record that has one (RecordCache.js:108-120). *)
THEOREM RowsCorrect == ASSUME ~Synchronous PROVE Spec => []NoRowSentTwice
<1>1. IInv => NoRowSentTwice
  BY ResultIsNext DEF NoRowSentTwice
<1> QED BY <1>1, Invariance, PTL

(* At rest cachedRecords of the adapter is what is in the RecordCache. *)
THEOREM CachesCorrect == ASSUME ~Synchronous PROVE Spec => []CachesAgree
<1>1. ASSUME IInv, Quiet, adapter = "working"
      PROVE  cachedRecords = InCache
  <2>1. Coming = <<>> /\ Len(Coming) = 0 /\ Joined
    BY <1>1 DEF Quiet, Coming, Joined
  <2>2. \A id \in Ids : id \in cachedRecords <=> id \in InCache
    BY <1>1, <2>1, AfterNone DEF IInv, Foreseen
  <2>3. cachedRecords \subseteq Ids /\ InCache \subseteq Ids
    BY <1>1 DEF IInv, Types, TypeOK, InCache
  <2> QED BY <2>2, <2>3
<1>2. IInv => CachesAgree
  BY <1>1 DEF CachesAgree
<1> QED BY <1>2, Invariance, PTL

-----------------------------------------------------------------------------
(* That a model is its row. What becomes of a record is awaited before the *)
(* record is used again (Alone): of the batches under way that are about it*)
(* none comes after one that creates or destroys it. So a model is ahead of*)
(* its row by the updates that the adapter has not handled, and by nothing *)
(* else (UpToDate), unless such a batch is about to replace it (Model); and*)
(* a row that is on its way to the RecordCache is up to date when nothing  *)
(* after it replaces it (Sent).                                            *)
Touches(item, id) == item.op = "batch" /\ \E w \in item.writes : w.id = id
Settles(item, id) == item.op = "batch" /\ \E w \in item.writes : w.id = id /\ w.type # "update"
Creates(item, id) == item.op = "batch" /\ \E w \in item.writes : w.id = id /\ w.type = "create"

Awaited(id) == (\E i \in 1 .. Len(calls) : Settles(calls[i], id))
                 \/ \E k \in 1 .. Len(Coming) : Settles(Coming[k], id)

IsLastOn(i, id) == Touches(calls[i], id) /\ \A j \in i + 1 .. Len(calls) : ~Touches(calls[j], id)

UpToDate(raw, id) ==
  \/ raw.deleted /\ id \notin Live
  \/ /\ ~raw.deleted /\ id \in Live
     /\ (\A i \in 1 .. Len(calls) : ~Touches(calls[i], id)) => raw.revision = rows[id].revision
     /\ \A i \in 1 .. Len(calls) : IsLastOn(i, id) =>
          \A w \in calls[i].writes : w.id = id => w.revision = raw.revision

Alone(id) ==
  /\ \A i \in 1 .. Len(calls) : Settles(calls[i], id) =>
       \A j \in i + 1 .. Len(calls) : ~Touches(calls[j], id)
  /\ \A k \in 1 .. Len(Coming) : Settles(Coming[k], id) =>
       \A j \in 1 .. Len(calls) : ~Touches(calls[j], id)

(* What the adapter will find when it handles a call.                      *)
FitsTable(i, id) ==
  /\ Creates(calls[i], id) => id \notin InTable
  /\ Touches(calls[i], id) /\ ~Settles(calls[i], id) => id \in Live /\ id \in cachedRecords
  /\ calls[i].op = "destroyDeleted" /\ calls[i].id = id =>
       id \notin Live /\ \A j \in 1 .. i - 1 : ~Creates(calls[j], id)

Newborn == [revision |-> 0, deleted |-> FALSE]

SentAt(k, id) ==
  /\ Coming[k].op \in Reads /\ id \in DOMAIN Coming[k].raws
  /\ \A j \in k + 1 .. Len(Coming) : ~Settles(Coming[j], id)
  /\ \A i \in 1 .. Len(calls) : ~Settles(calls[i], id)

Sent(id)  == \A k \in 1 .. Len(Coming) : SentAt(k, id) => UpToDate(Coming[k].raws[id], id)
Born(id)  == \A k \in 1 .. Len(Coming) : Creates(Coming[k], id) => id \in InTable /\ rows[id] = Newborn
Model(id) == id \in InCache /\ ~Awaited(id) => UpToDate(map[id], id)

Follows(id) ==
  Alone(id) /\ (\A i \in 1 .. Len(calls) : FitsTable(i, id)) /\ Born(id) /\ Sent(id) /\ Model(id)

AllOk   == \A k \in 1 .. Len(Coming) : Coming[k].op \in {"batch", "reset"} => Coming[k].ok
Emptied == \E k \in 1 .. Len(Coming) : Coming[k].op = "reset"

(* Inductive together with IInv.                                           *)
Current == failures = 0 => AllOk /\ (Emptied \/ \A id \in Ids : Follows(id))

LEMMA UnsettledIs ==
  ASSUME Types, NEW id, Awaited(id)
  PROVE  id \in Unsettled
<1>1. microtasks \in Seq(Answers) /\ answers \in Seq(Answers)
  BY ComingIs DEF Types
<1>2. ASSUME NEW seq, NEW i \in DOMAIN seq, Settles(seq[i], id)
      PROVE  \E w \in Writes(seq) : w.id = id /\ w.type # "update"
  BY <1>2 DEF Writes, Settles
<1>3. ASSUME NEW k \in 1 .. Len(Coming), Settles(Coming[k], id)
      PROVE  \/ \E i \in DOMAIN microtasks : Settles(microtasks[i], id)
             \/ \E i \in DOMAIN answers : Settles(answers[i], id)
  <2>1. CASE k <= Len(microtasks)
    <3>1. k \in DOMAIN microtasks /\ Coming[k] = microtasks[k]
      BY <1>1, <2>1 DEF Coming
    <3> QED BY <1>3, <3>1
  <2>2. CASE k > Len(microtasks)
    <3>1. k - Len(microtasks) \in DOMAIN answers /\ Coming[k] = answers[k - Len(microtasks)]
      BY <1>1, <2>2 DEF Coming
    <3> QED BY <1>3, <3>1
  <2> QED BY <1>1, <2>1, <2>2
<1>4. ASSUME NEW i \in 1 .. Len(calls), Settles(calls[i], id)
      PROVE  \E j \in DOMAIN calls : Settles(calls[j], id)
  BY <1>4 DEF Types
<1>5. \E w \in Writes(calls) \cup Writes(answers) \cup Writes(microtasks) : w.id = id /\ w.type # "update"
  BY <1>2, <1>3, <1>4 DEF Awaited
<1> QED BY <1>5 DEF Unsettled

(* A record that is in the RecordCache, and that no batch under way        *)
(* creates or destroys, stays there.                                       *)
LEMMA StaysCached ==
  ASSUME IInv, NEW id \in Ids, id \in InCache, ~Awaited(id), ~Emptied
  PROVE  \A k \in 0 .. Len(Coming) : After(InCache, Coming, k, id)
<1>1. Coming \in Seq(Answers)
  BY ComingIs DEF IInv
<1>2. ASSUME NEW i \in 1 .. Len(Coming)
      PROVE  id \notin Removes(Coming[i])
  <2>1. ~Settles(Coming[i], id) /\ Coming[i].op # "reset"
    BY DEF Awaited, Emptied
  <2> QED BY <2>1 DEF Settles, Removes, Destroyed, IdsOf
<1> QED BY <1>1, <1>2 DEF After

LEMMA Kinds ==
  ASSUME NEW item, NEW id
  PROVE  /\ Creates(item, id) => Settles(item, id)
         /\ Settles(item, id) => Touches(item, id)
         /\ Touches(item, id) => item.op = "batch"
BY DEF Creates, Settles, Touches

(* What is up to date stays so when a call is made that is not about it.   *)
LEMMA UpToDateCall ==
  ASSUME NEW id, NEW n \in Nat, Len(calls) = n, Len(calls') = n + 1,
         \A i \in 1 .. n : calls'[i] = calls[i], ~Touches(calls'[n + 1], id), UNCHANGED rows,
         NEW raw, UpToDate(raw, id)
  PROVE  UpToDate(raw, id)'
<1>1. id \in Live <=> id \in Live'
  BY DEF Live, InTable
<1>2. ASSUME \A i \in 1 .. n + 1 : ~Touches(calls'[i], id)
      PROVE  \A i \in 1 .. n : ~Touches(calls[i], id)
  BY <1>2
<1>3. ASSUME NEW i \in 1 .. n + 1, IsLastOn(i, id)'
      PROVE  i \in 1 .. n /\ IsLastOn(i, id) /\ calls'[i] = calls[i]
  <2>1. Touches(calls'[i], id) /\ \A j \in i + 1 .. n + 1 : ~Touches(calls'[j], id)
    BY <1>3 DEF IsLastOn
  <2>2. i \in 1 .. n
    BY <2>1
  <2>3. \A j \in i + 1 .. n : ~Touches(calls[j], id)
    <3>1. \A j \in i + 1 .. n : j \in 1 .. n /\ j \in i + 1 .. n + 1
      BY <2>2
    <3> QED BY <2>1, <3>1
  <2> QED BY <2>1, <2>2, <2>3 DEF IsLastOn
<1> QED BY <1>1, <1>2, <1>3 DEF UpToDate

(* A call is not about a record, or it settles a record that nothing       *)
(* awaits, or it updates one from its model.                               *)
Suits(c, id) ==
  \/ /\ ~Touches(c, id) /\ map'[id] = map[id]
     /\ c.op = "destroyDeleted" /\ c.id = id => id \in InTable \ Live
  \/ Settles(c, id) /\ ~Awaited(id) /\ (Creates(c, id) => id \notin InTable)
  \/ /\ Touches(c, id) /\ ~Settles(c, id) /\ ~Awaited(id) /\ id \in InCache
     /\ ~map[id].deleted /\ ~map'[id].deleted
     /\ \A w \in c.writes : w.id = id => w.revision = map'[id].revision

LEMMA CallFollows ==
  ASSUME IInv, ~Synchronous, ~Emptied, NEW c \in CallType, Call(c),
         UNCHANGED <<rows, cachedRecords, answers, microtasks>>, NEW id \in Ids, Follows(id), Suits(c, id)
  PROVE  Follows(id)'
<1>0. PICK n \in Nat : Len(calls) = n
  BY DEF IInv, Types
<1>1. /\ n \in Nat /\ Len(calls) = n /\ Len(calls') = n + 1 /\ calls'[n + 1] = c
      /\ \A i \in 1 .. n : calls'[i] = calls[i]
      /\ Coming' = Coming /\ adapter = "working"
  BY <1>0 DEF IInv, Types, Call, Coming
<1>2. /\ id \in Live <=> id \in Live'
      /\ id \in InTable <=> id \in InTable'
      /\ id \in cachedRecords <=> id \in cachedRecords'
      /\ rows' = rows
  BY DEF Live, InTable
<1>3. n + 1 \in 1 .. n + 1 /\ \A i \in 1 .. n + 1 : i \in 1 .. n \/ i = n + 1
  BY <1>1
<1>4. Awaited(id) => Awaited(id)'
  <2>1. \A i \in 1 .. n : i \in 1 .. n + 1
    BY <1>1
  <2> QED BY <1>1, <2>1 DEF Awaited
<1>5. Born(id)'
  BY <1>1, <1>2 DEF Follows, Born
<1>6. ASSUME NEW i \in 1 .. n
      PROVE  FitsTable(i, id)'
  <2>1. \A j \in 1 .. i - 1 : j \in 1 .. n
    BY <1>1
  <2>2. FitsTable(i, id) /\ calls'[i] = calls[i]
    BY <1>1 DEF Follows
  <2> QED BY <1>1, <1>2, <2>1, <2>2 DEF FitsTable
<1>7. \A k \in 1 .. Len(Coming) : SentAt(k, id)' => SentAt(k, id)
  <2>1. \A i \in 1 .. n : i \in 1 .. n + 1
    BY <1>1
  <2> QED BY <1>1, <2>1 DEF SentAt
<1>8. FitsTable(n + 1, id)' => \A i \in 1 .. Len(calls') : FitsTable(i, id)'
  <2>1. \A i \in 1 .. n : FitsTable(i, id)'
    BY <1>6
  <2> QED BY <1>1, <1>3, <2>1
<1>10. CASE /\ ~Touches(c, id) /\ map'[id] = map[id]
            /\ c.op = "destroyDeleted" /\ c.id = id => id \in InTable \ Live
  <2>1. Alone(id)'
    <3>1. ASSUME NEW i \in 1 .. n + 1, Settles(calls'[i], id), NEW j \in i + 1 .. n + 1
          PROVE  ~Touches(calls'[j], id)
      <4>1. i \in 1 .. n /\ (j \in i + 1 .. n \/ j = n + 1) /\ (j \in i + 1 .. n => j \in 1 .. n)
        BY <1>1, <1>3, <1>10, <3>1, Kinds
      <4> QED BY <1>1, <1>10, <3>1, <4>1 DEF Follows, Alone
    <3>2. ASSUME NEW k \in 1 .. Len(Coming), Settles(Coming[k], id), NEW j \in 1 .. n + 1
          PROVE  ~Touches(calls'[j], id)
      BY <1>1, <1>3, <1>10, <3>2 DEF Follows, Alone
    <3> QED BY <1>1, <3>1, <3>2 DEF Alone
  <2>2. FitsTable(n + 1, id)'
    <3>1. ASSUME c.op = "destroyDeleted", c.id = id
          PROVE  id \notin Live' /\ \A j \in 1 .. (n + 1) - 1 : ~Creates(calls'[j], id)
      <4>1. id \in InTable /\ id \notin Live
        BY <1>10, <3>1
      <4>2. \A j \in 1 .. n : ~Creates(calls[j], id)
        BY <1>0, <4>1 DEF Follows, FitsTable
      <4>3. (n + 1) - 1 = n
        BY <1>1
      <4> QED BY <1>1, <1>2, <4>1, <4>2, <4>3
    <3>2. ~Creates(c, id)
      BY <1>10, Kinds
    <3>3. calls'[n + 1] = c /\ ~Touches(c, id)
      BY <1>1, <1>10
    <3> QED BY ONLY <3>1, <3>2, <3>3 DEF FitsTable
  <2>3. \A raw : UpToDate(raw, id) => UpToDate(raw, id)'
    BY <1>1, <1>10, UpToDateCall
  <2>4. Sent(id)'
    BY <1>1, <1>7, <2>3 DEF Follows, Sent
  <2>5. Model(id)'
    <3>1. id \in InCache' <=> id \in InCache
      BY <1>10 DEF InCache
    <3> QED BY <1>4, <1>10, <2>3, <3>1 DEF Follows, Model
  <2> QED BY <1>5, <1>8, <2>1, <2>2, <2>4, <2>5 DEF Follows
<1>11. CASE Settles(c, id) /\ ~Awaited(id) /\ (Creates(c, id) => id \notin InTable)
  <2>1. /\ \A i \in 1 .. n : ~Settles(calls[i], id)
        /\ \A k \in 1 .. Len(Coming) : ~Settles(Coming[k], id)
    BY <1>0, <1>11 DEF Awaited
  <2>2. Alone(id)'
    <3>1. \A i \in 1 .. n + 1 : Settles(calls'[i], id) => i = n + 1
      BY <1>1, <1>3, <2>1
    <3>2. \A j \in (n + 1) + 1 .. n + 1 : FALSE
      BY <1>1
    <3> QED BY <1>1, <2>1, <3>1, <3>2 DEF Alone
  <2>3. FitsTable(n + 1, id)'
    <3>1. c.op = "batch" /\ Settles(c, id) /\ (Creates(c, id) => id \notin InTable')
      BY <1>2, <1>11, Kinds
    <3>2. calls'[n + 1] = c
      BY <1>1
    <3> QED BY ONLY <3>1, <3>2 DEF FitsTable
  <2>4. Sent(id)'
    BY <1>1, <1>3, <1>11 DEF Sent, SentAt
  <2>5. Model(id)'
    <3>1. Awaited(id)'
      BY <1>1, <1>3, <1>11 DEF Awaited
    <3> QED BY <3>1 DEF Model
  <2> QED BY <1>5, <1>8, <2>2, <2>3, <2>4, <2>5 DEF Follows
<1>12. CASE /\ Touches(c, id) /\ ~Settles(c, id) /\ ~Awaited(id) /\ id \in InCache
            /\ ~map[id].deleted /\ ~map'[id].deleted
            /\ \A w \in c.writes : w.id = id => w.revision = map'[id].revision
  <2>1. /\ \A i \in 1 .. n : ~Settles(calls[i], id)
        /\ \A k \in 1 .. Len(Coming) : ~Settles(Coming[k], id)
    BY <1>0, <1>12 DEF Awaited
  <2>2. id \in Live
    BY <1>12 DEF Follows, Model, UpToDate
  <2>3. Coming \in Seq(Answers) /\ Len(Coming) \in Nat
    BY ComingIs DEF IInv
  <2>4. \A k \in 0 .. Len(Coming) : After(InCache, Coming, k, id)
    BY <1>12, StaysCached
  <2>5. id \in cachedRecords
    <3>1. Len(Coming) \in 0 .. Len(Coming)
      BY <2>3
    <3> QED BY <1>1, <2>4, <3>1 DEF IInv, Foreseen, Joined
  <2>6. Alone(id)'
    <3>1. \A i \in 1 .. n + 1 : ~Settles(calls'[i], id)
      BY <1>1, <1>3, <1>12, <2>1
    <3> QED BY <1>1, <2>1, <3>1 DEF Alone
  <2>7. FitsTable(n + 1, id)'
    <3>1. c.op = "batch" /\ ~Creates(c, id) /\ id \in Live' /\ id \in cachedRecords'
      BY <1>2, <1>12, <2>2, <2>5, Kinds
    <3>2. calls'[n + 1] = c
      BY <1>1
    <3> QED BY ONLY <3>1, <3>2 DEF FitsTable
  <2>8. Sent(id)'
    <3>1. ASSUME NEW k \in 1 .. Len(Coming), SentAt(k, id)'
          PROVE  FALSE
      <4>1. Coming[k].op \in Reads /\ id \in DOMAIN Coming[k].raws
        BY <1>1, <3>1 DEF SentAt
      <4>2. k - 1 \in 0 .. Len(Coming)
        BY <2>3
      <4> QED BY <2>4, <4>1, <4>2 DEF IInv, AllRight, RightAt
    <3> QED BY <1>1, <3>1 DEF Sent
  <2>9. Model(id)'
    <3>1. ASSUME NEW i \in 1 .. n + 1, IsLastOn(i, id)'
          PROVE  i = n + 1
      <4>1. i \in 1 .. n => n + 1 \in i + 1 .. n + 1
        BY <1>1
      <4> QED BY <1>1, <1>3, <1>12, <3>1, <4>1 DEF IsLastOn
    <3>2. UpToDate(map[id], id)'
      <4>1. ~(\A i \in 1 .. n + 1 : ~Touches(calls'[i], id))
        BY <1>1, <1>3, <1>12
      <4> QED BY <1>1, <1>2, <1>12, <2>2, <3>1, <4>1 DEF UpToDate
    <3> QED BY <3>2 DEF Model
  <2> QED BY <1>5, <1>8, <2>6, <2>7, <2>8, <2>9 DEF Follows
<1> QED BY <1>10, <1>11, <1>12 DEF Suits

LEMMA CallCurrent ==
  ASSUME IInv, ~Synchronous, Current, NEW c \in CallType, Call(c),
         UNCHANGED <<rows, cachedRecords, answers, microtasks, failures>>,
         \A id \in Ids : Suits(c, id)
  PROVE  Current'
<1>1. adapter = "working" /\ Coming' = Coming
  BY DEF Call, Coming
<1>2. ~Emptied
  BY <1>1 DEF Emptied, IInv, ResetIsLast
<1>3. ASSUME failures' = 0
      PROVE  AllOk' /\ \A id \in Ids : Follows(id)'
  <2>1. AllOk /\ \A id \in Ids : Follows(id)
    BY <1>2, <1>3 DEF Current
  <2> QED BY <1>1, <1>2, <2>1, CallFollows DEF AllOk
<1> QED BY <1>3 DEF Current

LEMMA AppStepCurrent ==
  ASSUME IInv, Current, AppStep, ~Synchronous
  PROVE  Current'
<1>1. ASSUME NEW c \in CallType, Call(c), c.op # "batch", UNCHANGED map,
             c.op = "destroyDeleted" => c.id \in InTable \ Live,
             UNCHANGED <<rows, cachedRecords, answers, microtasks, failures>>
      PROVE  Current'
  <2>1. \A id \in Ids : Suits(c, id)
    BY <1>1, Kinds DEF Suits
  <2> QED BY <1>1, <2>1, CallCurrent
<1>2. ASSUME NEW op \in {"query", "raws"}, Fetch(op)
      PROVE  Current'
  <2> DEFINE c == [op |-> op]
  <2>1. c \in CallType /\ c.op # "batch" /\ c.op # "destroyDeleted" /\ Call(c)
    BY <1>2 DEF CallType, Fetch
  <2> HIDE DEF c
  <2> QED BY <1>1, <1>2, <2>1 DEF Fetch
<1>3. ASSUME NEW id \in Ids, Find(id)
      PROVE  Current'
  <2> DEFINE c == [op |-> "find", id |-> id]
  <2>1. c \in CallType /\ c.op # "batch" /\ c.op # "destroyDeleted" /\ Call(c)
    BY <1>3 DEF CallType, Find
  <2> HIDE DEF c
  <2> QED BY <1>1, <1>3, <2>1 DEF Find
<1>4. ASSUME NEW id \in Ids, DestroyDeleted(id)
      PROVE  Current'
  <2> DEFINE c == [op |-> "destroyDeleted", id |-> id]
  <2>1. c \in CallType /\ c.op # "batch" /\ c.id = id /\ Call(c)
    BY <1>4 DEF CallType, DestroyDeleted
  <2> HIDE DEF c
  <2> QED BY <1>1, <1>4, <2>1 DEF DestroyDeleted
<1>5. CASE Reset
  <2> DEFINE c == [op |-> "reset"]
  <2>1. c \in CallType /\ c.op # "batch" /\ c.op # "destroyDeleted" /\ Call(c)
    BY <1>5 DEF CallType, Reset
  <2> HIDE DEF c
  <2> QED BY <1>1, <1>5, <2>1 DEF Reset
<1>6. ASSUME NEW ws \in Batches, Write(ws)
      PROVE  Current'
  <2> DEFINE sent == {[type |-> w.type, id |-> w.id, revision |-> revisionOf(w)] : w \in ws}
             c == [op |-> "batch", writes |-> sent]
  <2>1. \A w \in ws : /\ w \in [type : WriteTypes, id : Ids] /\ Writable(w)
                      /\ \A v \in ws : v.id = w.id => v = w
    BY <1>6 DEF Batches, Write
  <2>2. c \in CallType /\ c.op = "batch" /\ c.writes = sent
    BY <1>6, SentTyped
  <2>3. /\ \A v \in sent : \E w \in ws : v.id = w.id /\ v.type = w.type /\ v.revision = revisionOf(w)
        /\ \A w \in ws : \E v \in sent : v.id = w.id /\ v.type = w.type
    <3>1. \A w \in ws : [type |-> w.type, id |-> w.id, revision |-> revisionOf(w)] \in sent
      OBVIOUS
    <3>2. \A v \in sent : \E w \in ws : v = [type |-> w.type, id |-> w.id, revision |-> revisionOf(w)]
      OBVIOUS
    <3> HIDE DEF sent
    <3>3. ASSUME NEW w \in ws
          PROVE  \E v \in sent : v.id = w.id /\ v.type = w.type
      <4> DEFINE v == [type |-> w.type, id |-> w.id, revision |-> revisionOf(w)]
      <4>1. v \in sent /\ v.id = w.id /\ v.type = w.type
        BY <3>1
      <4> QED BY ONLY <4>1
    <3> QED BY <3>2, <3>3
  <2>4. Call(c) /\ UNCHANGED <<rows, cachedRecords, answers, microtasks, failures>>
    BY <1>6 DEF Write
  <2>5. \A id \in Ids : map'[id] =
          IF \E w \in ws : w.id = id /\ w.type = "update"
          THEN [map[id] EXCEPT !.revision = @ + 1]
          ELSE IF \E w \in ws : w.id = id /\ w.type \in {"markAsDeleted", "destroyPermanently"}
          THEN [map[id] EXCEPT !.deleted = TRUE] ELSE map[id]
    BY <1>6 DEF Write
  <2> HIDE DEF c, sent
  <2>6. ASSUME NEW id \in Ids
        PROVE  Suits(c, id)
    <3>1. CASE ~\E w \in ws : w.id = id
      <4>1. ~Touches(c, id)
        BY <2>2, <2>3, <3>1 DEF Touches
      <4>2. map'[id] = map[id]
        BY <2>5, <3>1
      <4> QED BY <2>2, <4>1, <4>2 DEF Suits
    <3>2. ASSUME NEW w \in ws, w.id = id, w.type # "update"
          PROVE  Suits(c, id)
      <4>1. Settles(c, id)
        BY <2>2, <2>3, <3>2 DEF Settles
      <4>2. ~Awaited(id)
        BY <2>1, <3>2, UnsettledIs DEF Writable, IInv
      <4>3. Creates(c, id) => id \notin InTable
        <5>1. Creates(c, id) => w.type = "create"
          BY <2>1, <2>2, <2>3, <3>2 DEF Creates
        <5> QED BY <2>1, <3>2, <5>1 DEF Writable
      <4> QED BY <4>1, <4>2, <4>3 DEF Suits
    <3>3. ASSUME NEW w \in ws, w.id = id, w.type = "update"
          PROVE  Suits(c, id)
      <4>1. /\ \A v \in sent : v.id = id => v.type = "update" /\ v.revision = revisionOf(w)
            /\ \E v \in sent : v.id = id
        BY <2>1, <2>3, <3>3
      <4>2. Touches(c, id) /\ ~Settles(c, id)
        BY <2>2, <4>1 DEF Touches, Settles
      <4>3. ~Awaited(id)
        BY <2>1, <3>3, UnsettledIs DEF Writable, IInv
      <4>4. id \in InCache /\ map[id] \in Raw /\ ~map[id].deleted
        BY <2>1, <3>3 DEF Writable, InCache, IInv, Types, TypeOK
      <4>5. map'[id] = [map[id] EXCEPT !.revision = @ + 1]
        BY <2>5, <3>3
      <4>6. ~map'[id].deleted /\ map'[id].revision = map[id].revision + 1
        BY <4>4, <4>5 DEF Raw
      <4>7. revisionOf(w) = map[id].revision + 1
        BY <3>3 DEF revisionOf
      <4> QED BY <2>2, <4>1, <4>2, <4>3, <4>4, <4>6, <4>7 DEF Suits
    <3> QED BY <3>1, <3>2, <3>3
  <2> QED BY <2>2, <2>4, <2>6, CallCurrent
<1> QED BY <1>2, <1>3, <1>4, <1>5, <1>6 DEF AppStep

(* What the adapter makes of a row when it handles a call, and that its    *)
(* answer a tells of it.                                                   *)
Carries(a, c, id) ==
  /\ Settles(a, id) <=> Settles(c, id)
  /\ Creates(a, id) <=> Creates(c, id)
  /\ ~Settles(c, id) => (id \in Live' <=> id \in Live) /\ (id \in cachedRecords => id \in cachedRecords')
  /\ ~Touches(c, id) /\ id \in Live => rows'[id] = rows[id]
  /\ Touches(c, id) /\ ~Settles(c, id) =>
       \A w \in c.writes : w.id = id => rows'[id].revision = w.revision
  /\ ~Creates(c, id) => (id \in InTable' => id \in InTable) /\ (id \in Live' => id \in Live)
  /\ Creates(c, id) => id \in InTable' /\ rows'[id] = Newborn
  /\ a.op \in Reads /\ id \in DOMAIN a.raws =>
       /\ ~Touches(c, id) /\ id \in InTable \ cachedRecords
       /\ rows' = rows /\ a.raws[id] = rows[id]

(* What is up to date stays so when the adapter handles a call.            *)
LEMMA UpToDateHandled ==
  ASSUME NEW id, NEW n \in Nat, Len(calls) = n + 1, Len(calls') = n,
         \A i \in 1 .. n : calls'[i] = calls[i + 1],
         ~Settles(calls[1], id), NEW a, Carries(a, calls[1], id),
         NEW raw, UpToDate(raw, id)
  PROVE  UpToDate(raw, id)'
<1>1. id \in Live <=> id \in Live'
  BY DEF Carries
<1>2. ASSUME NEW i \in 1 .. n, IsLastOn(i, id)'
      PROVE  IsLastOn(i + 1, id) /\ i + 1 \in 1 .. n + 1 /\ calls'[i] = calls[i + 1]
  <2>1. Touches(calls'[i], id) /\ \A j \in i + 1 .. n : ~Touches(calls'[j], id)
    BY <1>2 DEF IsLastOn
  <2>2. \A j \in (i + 1) + 1 .. n + 1 : j - 1 \in i + 1 .. n /\ j - 1 \in 1 .. n /\ (j - 1) + 1 = j
    OBVIOUS
  <2>3. \A j \in (i + 1) + 1 .. n + 1 : calls'[j - 1] = calls[j]
    BY <2>2
  <2>4. \A j \in (i + 1) + 1 .. n + 1 : ~Touches(calls[j], id)
    BY <2>1, <2>2, <2>3
  <2> QED BY <2>1, <2>4 DEF IsLastOn
<1>3. ASSUME ~raw.deleted, id \in Live, \A i \in 1 .. n : ~Touches(calls'[i], id)
      PROVE  raw.revision = rows'[id].revision
  <2>1. \A j \in 1 + 1 .. n + 1 : j - 1 \in 1 .. n /\ (j - 1) + 1 = j
    OBVIOUS
  <2>2. \A j \in 1 + 1 .. n + 1 : calls'[j - 1] = calls[j]
    BY <2>1
  <2>3. \A j \in 1 + 1 .. n + 1 : ~Touches(calls[j], id)
    BY <1>3, <2>1, <2>2
  <2>4. CASE Touches(calls[1], id)
    <3>1. IsLastOn(1, id) /\ 1 \in 1 .. n + 1
      BY <2>3, <2>4 DEF IsLastOn
    <3>2. \A w \in calls[1].writes : w.id = id => w.revision = raw.revision
      BY <1>3, <3>1 DEF UpToDate
    <3> QED BY <2>4, <3>2 DEF Carries, Touches
  <2>5. CASE ~Touches(calls[1], id)
    <3>1. \A j \in 1 .. n + 1 : j = 1 \/ j \in 1 + 1 .. n + 1
      OBVIOUS
    <3>2. \A j \in 1 .. n + 1 : ~Touches(calls[j], id)
      BY <2>3, <2>5, <3>1
    <3> QED BY <1>3, <2>5, <3>2 DEF Carries, UpToDate
  <2> QED BY <2>4, <2>5
<1> QED BY <1>1, <1>2, <1>3 DEF UpToDate

(* What is known of a record after a call was handled. *)
LEMMA HandledFollows ==
  ASSUME IInv, calls # <<>>, calls' = Tail(calls), NEW a \in Answers, Coming' = Append(Coming, a),
         UNCHANGED map, NEW id \in Ids, Follows(id), Carries(a, Head(calls), id)
  PROVE  Follows(id)'
<1>0. PICK n \in Nat : Len(calls) = n + 1
  <2>1. Len(calls) - 1 \in Nat /\ Len(calls) = (Len(calls) - 1) + 1
    BY EmptySeq DEF IInv, Types
  <2> QED BY <2>1
<1>1. /\ Len(calls') = n /\ Head(calls) = calls[1]
      /\ \A i \in 1 .. n : calls'[i] = calls[i + 1]
  BY <1>0 DEF IInv, Types
<1>2. PICK m \in Nat : Len(Coming) = m
  BY ComingIs DEF IInv
<1>3. /\ Len(Coming') = m + 1 /\ Coming'[m + 1] = a
      /\ \A k \in 1 .. m : Coming'[k] = Coming[k]
  BY <1>2, ComingIs DEF IInv
<1>4. \A k \in 1 .. m + 1 : k \in 1 .. m \/ k = m + 1
  OBVIOUS
<1>5. /\ 1 \in 1 .. n + 1
      /\ \A j \in 1 .. n : j + 1 \in 1 .. n + 1 /\ j + 1 \in 1 + 1 .. n + 1
      /\ \A i \in 1 .. n : \A j \in i + 1 .. n : j \in 1 .. n /\ j + 1 \in (i + 1) + 1 .. n + 1
  OBVIOUS
<1> DEFINE h == calls[1]
<1>6. Carries(a, h, id)
  BY <1>1
<1>7. Settles(h, id) => \A j \in 1 .. n : ~Touches(calls'[j], id)
  BY <1>0, <1>1, <1>5 DEF Follows, Alone
<1>8. Alone(id)'
  <2>1. ASSUME NEW i \in 1 .. n, Settles(calls'[i], id), NEW j \in i + 1 .. n
        PROVE  ~Touches(calls'[j], id)
    BY <1>0, <1>1, <1>5, <2>1 DEF Follows, Alone
  <2>2. ASSUME NEW k \in 1 .. m + 1, Settles(Coming'[k], id), NEW j \in 1 .. n
        PROVE  ~Touches(calls'[j], id)
    <3>1. CASE k \in 1 .. m
      BY <1>0, <1>1, <1>2, <1>3, <1>5, <2>2, <3>1 DEF Follows, Alone
    <3>2. CASE k = m + 1
      BY <1>3, <1>6, <1>7, <2>2, <3>2 DEF Carries
    <3> QED BY <1>4, <3>1, <3>2
  <2> QED BY <1>1, <1>3, <2>1, <2>2 DEF Alone
<1>9. ASSUME NEW i \in 1 .. n
      PROVE  FitsTable(i, id)'
  <2>1. FitsTable(i + 1, id) /\ calls'[i] = calls[i + 1]
    BY <1>0, <1>1, <1>5 DEF Follows
  <2>2. Creates(calls'[i], id) => id \notin InTable'
    <3>1. Creates(calls'[i], id) => ~Creates(h, id)
      BY <1>7, Kinds
    <3> QED BY <1>6, <2>1, <3>1 DEF FitsTable, Carries
  <2>3. Touches(calls'[i], id) /\ ~Settles(calls'[i], id) => id \in Live' /\ id \in cachedRecords'
    BY <1>6, <1>7, <2>1 DEF FitsTable, Carries
  <2>4. ASSUME calls'[i].op = "destroyDeleted", calls'[i].id = id
        PROVE  id \notin Live' /\ \A j \in 1 .. i - 1 : ~Creates(calls'[j], id)
    <3>1. id \notin Live /\ \A j \in 1 .. (i + 1) - 1 : ~Creates(calls[j], id)
      BY <2>1, <2>4 DEF FitsTable
    <3>2. 1 \in 1 .. (i + 1) - 1 /\ \A j \in 1 .. i - 1 : j \in 1 .. n /\ j + 1 \in 1 .. (i + 1) - 1
      OBVIOUS
    <3>3. ~Creates(h, id) /\ \A j \in 1 .. i - 1 : ~Creates(calls'[j], id)
      BY <1>1, <3>1, <3>2
    <3> QED BY <1>6, <3>1, <3>3 DEF Carries
  <2> QED BY <2>2, <2>3, <2>4 DEF FitsTable
<1>10. Born(id)'
  <2>1. ASSUME NEW k \in 1 .. m, Creates(Coming[k], id)
        PROVE  id \in InTable' /\ rows'[id] = Newborn
    <3>1. id \in InTable /\ rows[id] = Newborn /\ id \in Live
      BY <1>2, <2>1 DEF Follows, Born, Live, Newborn
    <3>2. ~Touches(h, id)
      BY <1>0, <1>2, <1>5, <2>1, Kinds DEF Follows, Alone
    <3>3. id \in Live' /\ rows'[id] = rows[id]
      BY <1>6, <3>1, <3>2, Kinds DEF Carries
    <3> QED BY <3>1, <3>3 DEF Live
  <2>2. Creates(a, id) => id \in InTable' /\ rows'[id] = Newborn
    BY <1>6 DEF Carries
  <2> QED BY <1>3, <1>4, <2>1, <2>2 DEF Born
<1>11. ~Settles(h, id) => \A raw : UpToDate(raw, id) => UpToDate(raw, id)'
  BY <1>0, <1>1, <1>6, UpToDateHandled
<1>12. Sent(id)'
  <2>1. ASSUME NEW k \in 1 .. m, SentAt(k, id)'
        PROVE  UpToDate(Coming[k].raws[id], id)'
    <3>1. /\ Coming'[k].op \in Reads /\ id \in DOMAIN Coming'[k].raws
          /\ \A j \in k + 1 .. m + 1 : ~Settles(Coming'[j], id)
          /\ \A i \in 1 .. n : ~Settles(calls'[i], id)
      BY <1>1, <1>3, <2>1 DEF SentAt
    <3>2. m + 1 \in k + 1 .. m + 1 /\ \A j \in k + 1 .. m : j \in 1 .. m /\ j \in k + 1 .. m + 1
      OBVIOUS
    <3>3. ~Settles(h, id)
      BY <1>3, <1>6, <3>1, <3>2 DEF Carries
    <3>4. \A i \in 1 .. n + 1 : i = 1 \/ (i - 1 \in 1 .. n /\ (i - 1) + 1 = i)
      OBVIOUS
    <3>5. \A i \in 1 .. n + 1 : ~Settles(calls[i], id)
      BY <1>1, <3>1, <3>3, <3>4
    <3>6. SentAt(k, id)
      BY <1>0, <1>2, <1>3, <3>1, <3>2, <3>5 DEF SentAt
    <3>7. UpToDate(Coming[k].raws[id], id)
      BY <1>2, <3>6 DEF Follows, Sent
    <3>8. Coming'[k] = Coming[k]
      BY <1>3
    <3>9. \A raw : raw = Coming[k].raws[id] => UpToDate(raw, id)'
      BY <1>11, <3>3, <3>7
    <3> QED BY <3>8, <3>9 DEF UpToDate
  <2>2. ASSUME a.op \in Reads, id \in DOMAIN a.raws, \A i \in 1 .. n : ~Settles(calls'[i], id)
        PROVE  UpToDate(a.raws[id], id)'
    <3>1. id \in InTable \ cachedRecords /\ rows' = rows /\ a.raws[id] = rows'[id]
      BY <1>6, <2>2 DEF Carries
    <3>2. \A i \in 1 .. n : ~Touches(calls'[i], id)
      <4> TAKE i \in 1 .. n
      <4>1. FitsTable(i + 1, id) /\ calls'[i] = calls[i + 1]
        BY <1>0, <1>1, <1>5 DEF Follows
      <4> QED BY <2>2, <3>1, <4>1 DEF FitsTable
    <3>3. \A i \in 1 .. n : ~IsLastOn(i, id)'
      BY <3>2 DEF IsLastOn
    <3>4. id \in Live' <=> ~rows'[id].deleted
      BY <3>1 DEF Live, InTable
    <3>5. CASE rows'[id].deleted
      BY <3>1, <3>4, <3>5 DEF UpToDate
    <3>6. CASE ~rows'[id].deleted
      BY <1>1, <3>1, <3>3, <3>4, <3>6 DEF UpToDate
    <3> QED BY <3>5, <3>6
  <2>3. SentAt(m + 1, id)' =>
          a.op \in Reads /\ id \in DOMAIN a.raws /\ \A i \in 1 .. n : ~Settles(calls'[i], id)
    BY <1>1, <1>3 DEF SentAt
  <2>4. SentAt(m + 1, id)' => UpToDate(Coming[m + 1].raws[id], id)'
    <3>1. SUFFICES ASSUME SentAt(m + 1, id)'
                   PROVE  UpToDate(Coming[m + 1].raws[id], id)'
      OBVIOUS
    <3>2. UpToDate(a.raws[id], id)'
      BY <2>2, <2>3, <3>1
    <3>3. Coming'[m + 1] = a
      BY <1>3
    <3> QED BY ONLY <3>2, <3>3 DEF UpToDate
  <2> QED BY <1>3, <1>4, <2>1, <2>4 DEF Sent
<1>13. Model(id)'
  <2>1. ASSUME id \in InCache', ~Awaited(id)'
        PROVE  UpToDate(map[id], id)'
    <3>1. /\ \A i \in 1 .. n : ~Settles(calls'[i], id)
          /\ \A k \in 1 .. m + 1 : ~Settles(Coming'[k], id)
      BY <1>1, <1>3, <2>1 DEF Awaited
    <3>2. ~Settles(h, id)
      <4>1. m + 1 \in 1 .. m + 1
        OBVIOUS
      <4> QED BY <1>3, <1>6, <3>1, <4>1 DEF Carries
    <3>3. \A i \in 1 .. n + 1 : i = 1 \/ (i - 1 \in 1 .. n /\ (i - 1) + 1 = i)
      OBVIOUS
    <3>4. \A i \in 1 .. n + 1 : ~Settles(calls[i], id)
      BY <1>1, <3>1, <3>2, <3>3
    <3>5. \A k \in 1 .. m : ~Settles(Coming[k], id)
      <4>1. \A k \in 1 .. m : k \in 1 .. m + 1
        OBVIOUS
      <4> QED BY <1>3, <3>1, <4>1
    <3>6. ~Awaited(id) /\ id \in InCache
      BY <1>0, <1>2, <2>1, <3>4, <3>5 DEF Awaited, InCache
    <3>7. \A raw : raw = map[id] => UpToDate(raw, id)'
      BY <1>11, <3>2, <3>6 DEF Follows, Model
    <3> QED BY <3>7 DEF UpToDate
  <2> QED BY <2>1 DEF Model
<1> QED BY <1>1, <1>8, <1>9, <1>10, <1>12, <1>13 DEF Follows

LEMMA HandledAppends ==
  ASSUME IInv, NEW op, NEW a \in Answers, Handled(op, a)
  PROVE  /\ calls # <<>> /\ calls' = Tail(calls) /\ Head(calls) = calls[1] /\ 1 \in 1 .. Len(calls)
         /\ Coming' = Append(Coming, a) /\ map' = map /\ Head(calls).op = op
         /\ Len(Coming') = Len(Coming) + 1 /\ Coming'[Len(Coming) + 1] = a
         /\ \A k \in 1 .. Len(Coming) + 1 : (k \in 1 .. Len(Coming) /\ Coming'[k] = Coming[k]) \/ k = Len(Coming) + 1
         /\ Len(Coming) + 1 \in 1 .. Len(Coming) + 1
<1>1. /\ calls # <<>> /\ calls' = Tail(calls) /\ answers' = Append(answers, a)
      /\ UNCHANGED <<microtasks, map>> /\ Head(calls).op = op
  BY DEF Handled
<1>2. calls \in Seq(CallType) /\ answers \in Seq(Answers) /\ Coming \in Seq(Answers)
      /\ microtasks \in Seq(Answers)
  BY ComingIs DEF IInv, Types
<1>3. Coming' = Append(Coming, a)
  BY <1>1, <1>2, ConcatAssociative DEF Coming
<1>4. Head(calls) = calls[1] /\ 1 \in 1 .. Len(calls)
  BY <1>1, <1>2, HeadTailProperties
<1>5. Len(Coming) \in Nat
  BY <1>2
<1>6. /\ Len(Coming') = Len(Coming) + 1 /\ Coming'[Len(Coming) + 1] = a
      /\ \A k \in 1 .. Len(Coming) : Coming'[k] = Coming[k]
  BY <1>2, <1>3
<1> QED BY <1>1, <1>3, <1>4, <1>5, <1>6

LEMMA HandledCurrent ==
  ASSUME IInv, Current, failures' = failures, NEW op, NEW a \in Answers, Handled(op, a),
         a.op # "reset", a.op = "batch" => a.ok,
         \A id \in Ids : FitsTable(1, id) => Carries(a, Head(calls), id)
  PROVE  Current'
<1>1. SUFFICES ASSUME failures = 0
               PROVE  AllOk' /\ \A id \in Ids : Follows(id)'
  BY DEF Current
<1>2. ~Emptied
  BY HandledAppends DEF Emptied, IInv, ResetIsLast
<1>3. AllOk /\ \A id \in Ids : Follows(id)
  BY <1>1, <1>2 DEF Current
<1>4. AllOk'
  BY <1>3, HandledAppends DEF AllOk
<1>5. ASSUME NEW id \in Ids
      PROVE  Follows(id)'
  <2>1. FitsTable(1, id)
    BY <1>3, HandledAppends DEF Follows
  <2> QED BY <1>3, <2>1, HandledAppends, HandledFollows
<1> QED BY <1>4, <1>5

(* A batch, row by row. *)
LEMMA AppliedAt ==
  ASSUME TypeOK, NEW ws \in WriteSets, rows' = Applied(ws), NEW id \in Ids
  PROVE  /\ (\A w \in ws : w.id # id) =>
              (id \in InTable' <=> id \in InTable) /\ (id \in InTable => rows'[id] = rows[id])
         /\ \A w \in ws : w.id = id =>
              /\ w.type = "create" => id \in InTable' /\ rows'[id] = Newborn
              /\ w.type = "update" /\ id \in InTable => id \in InTable' /\ rows'[id] = [rows[id] EXCEPT !.revision = w.revision]
              /\ w.type = "markAsDeleted" /\ id \in InTable => rows'[id] = [rows[id] EXCEPT !.deleted = TRUE]
              /\ w.type \in {"update", "markAsDeleted"} => (id \in InTable' <=> id \in InTable)
              /\ w.type = "destroyPermanently" => id \notin InTable'
<1>1. id \in InTable' <=>
        \/ id \in InTable /\ ~\E w \in ws : w.id = id /\ w.type = "destroyPermanently"
        \/ \E w \in ws : w.id = id /\ w.type = "create"
  BY DEF Applied, InTable, Created, IdsOf
<1> DEFINE r == (CHOOSE w \in ws : w.id = id).revision
<1>2. id \in InTable' => rows'[id] =
        CASE \E w \in ws : w.id = id /\ w.type = "create" -> [revision |-> 0, deleted |-> FALSE]
          [] \E w \in ws : w.id = id /\ w.type = "update" -> [rows[id] EXCEPT !.revision = r]
          [] \E w \in ws : w.id = id /\ w.type = "markAsDeleted" -> [rows[id] EXCEPT !.deleted = TRUE]
          [] OTHER -> rows[id]
  BY DEF Applied, InTable
<1>3. ASSUME NEW w \in ws, w.id = id
      PROVE  r = w.revision /\ \A v \in ws : v.id = id => v = w
  <2>1. \A v \in ws : v.id = id => v = w
    BY <1>3 DEF WriteSets
  <2>2. (CHOOSE v \in ws : v.id = id) = w
    BY <1>3, <2>1
  <2> QED BY <2>1, <2>2
<1> HIDE DEF r
<1>4. CASE \A w \in ws : w.id # id
  BY <1>1, <1>2, <1>4
<1>5. ASSUME NEW w \in ws, w.id = id
      PROVE  /\ w.type = "create" => id \in InTable' /\ rows'[id] = Newborn
             /\ w.type = "update" /\ id \in InTable => id \in InTable' /\ rows'[id] = [rows[id] EXCEPT !.revision = w.revision]
             /\ w.type = "markAsDeleted" /\ id \in InTable => rows'[id] = [rows[id] EXCEPT !.deleted = TRUE]
             /\ w.type \in {"update", "markAsDeleted"} => (id \in InTable' <=> id \in InTable)
             /\ w.type = "destroyPermanently" => id \notin InTable'
  <2>1. r = w.revision /\ \A t : (\E v \in ws : v.id = id /\ v.type = t) <=> w.type = t
    BY <1>3, <1>5
  <2>2. id \in InTable' <=> (id \in InTable /\ w.type # "destroyPermanently") \/ w.type = "create"
    BY <1>1, <2>1
  <2>3. id \in InTable' => rows'[id] =
          CASE w.type = "create" -> [revision |-> 0, deleted |-> FALSE]
            [] w.type = "update" -> [rows[id] EXCEPT !.revision = r]
            [] w.type = "markAsDeleted" -> [rows[id] EXCEPT !.deleted = TRUE]
            [] OTHER -> rows[id]
    BY <1>2, <2>1
  <2> QED BY <2>1, <2>2, <2>3 DEF Newborn
<1> QED BY <1>4, <1>5

LEMMA BatchCarries ==
  ASSUME IInv, HandleBatch, NEW id \in Ids, FitsTable(1, id), 1 \in 1 .. Len(calls), Head(calls) = calls[1]
  PROVE  Carries(BatchAnswer(TRUE), Head(calls), id)
<1> DEFINE c == Head(calls)
           a == BatchAnswer(TRUE)
           ws == c.writes
<1>1. /\ rows' = Applied(ws) /\ c.op = "batch" /\ c \in CallType
      /\ cachedRecords' = (cachedRecords \cup newIds(ws)) \ removedIds(ws)
  BY DEF HandleBatch, Handled, IInv, Types
<1>2. ws \in WriteSets /\ TypeOK
  BY <1>1 DEF CallType, IInv, Types
<1>3. a.op = "batch" /\ a.writes = ws /\ a.op \notin Reads
  BY DEF BatchAnswer, Reads
<1>4. /\ Creates(c, id) => id \notin InTable
      /\ Touches(c, id) /\ ~Settles(c, id) => id \in Live /\ id \in cachedRecords
  BY DEF FitsTable
<1> HIDE DEF c, a, ws
<1> SUFFICES Carries(a, c, id)
  BY DEF a, c
<1>5. /\ Settles(a, id) <=> Settles(c, id)
      /\ Creates(a, id) <=> Creates(c, id)
  BY <1>1, <1>3 DEF Settles, Creates, ws
<1>6. Live' = {i \in InTable' : ~rows'[i].deleted} /\ Live = {i \in InTable : ~rows[i].deleted}
  BY DEF Live
<1>7. CASE \A w \in ws : w.id # id
  <2>1. (id \in InTable' <=> id \in InTable) /\ (id \in InTable => rows'[id] = rows[id])
    BY <1>1, <1>2, <1>7, AppliedAt
  <2>2. id \in Live' <=> id \in Live
    BY <1>6, <2>1
  <2>3. id \in cachedRecords => id \in cachedRecords'
    BY <1>1, <1>7 DEF removedIds, Destroyed, IdsOf
  <2>4. ~Touches(c, id)
    BY <1>7 DEF Touches, ws
  <2>5. ~Settles(c, id) /\ ~Creates(c, id) /\ (id \in Live => id \in InTable)
    BY <1>6, <2>4, Kinds
  <2> QED BY <1>3, <1>5, <2>1, <2>2, <2>3, <2>4, <2>5 DEF Carries
<1>8. ASSUME NEW w \in ws, w.id = id
      PROVE  Carries(a, c, id)
  <2>1. /\ w.type = "create" => id \in InTable' /\ rows'[id] = Newborn
        /\ w.type = "update" /\ id \in InTable => id \in InTable' /\ rows'[id] = [rows[id] EXCEPT !.revision = w.revision]
        /\ w.type = "markAsDeleted" /\ id \in InTable => rows'[id] = [rows[id] EXCEPT !.deleted = TRUE]
        /\ w.type \in {"update", "markAsDeleted"} => (id \in InTable' <=> id \in InTable)
        /\ w.type = "destroyPermanently" => id \notin InTable'
    BY <1>1, <1>2, <1>8, AppliedAt
  <2>2. (\A v \in ws : v.id = id => v = w) /\ w.type \in WriteTypes
    BY <1>2, <1>8 DEF WriteSets
  <2>3. /\ Touches(c, id)
        /\ Settles(c, id) <=> w.type # "update"
        /\ Creates(c, id) <=> w.type = "create"
    BY <1>1, <1>8, <2>2 DEF Touches, Settles, Creates, ws
  <2>4. id \in InTable => rows[id] \in Raw
    BY <1>2 DEF TypeOK
  <2>5. CASE w.type = "create"
    BY <1>3, <1>5, <2>1, <2>3, <2>5 DEF Carries
  <2>6. CASE w.type = "update"
    <3>1. id \in InTable /\ id \in Live /\ id \in cachedRecords
      BY <1>4, <1>6, <2>3, <2>6
    <3>2. id \in InTable' /\ rows'[id] = [rows[id] EXCEPT !.revision = w.revision]
      BY <2>1, <2>6, <3>1
    <3>3. rows'[id].revision = w.revision /\ rows'[id].deleted = rows[id].deleted
      BY <2>4, <3>1, <3>2 DEF Raw
    <3>4. id \in Live'
      BY <1>6, <3>1, <3>2, <3>3
    <3>5. id \in cachedRecords'
      BY <1>1, <2>2, <2>6, <3>1 DEF removedIds, Destroyed, IdsOf
    <3>6. \A v \in c.writes : v.id = id => v = w
      BY <2>2 DEF ws
    <3> QED BY <1>3, <1>5, <2>3, <2>6, <3>1, <3>3, <3>4, <3>5, <3>6 DEF Carries
  <2>7. CASE w.type = "markAsDeleted"
    <3>1. id \in InTable => rows'[id].deleted
      BY <2>1, <2>4, <2>7 DEF Raw
    <3>2. (id \in InTable' <=> id \in InTable) /\ id \notin Live'
      BY <1>6, <2>1, <2>7, <3>1
    <3> QED BY <1>3, <1>5, <2>3, <2>7, <3>2 DEF Carries
  <2>8. CASE w.type = "destroyPermanently"
    <3>1. id \notin InTable' /\ id \notin Live'
      BY <1>6, <2>1, <2>8
    <3> QED BY <1>3, <1>5, <2>3, <2>8, <3>1 DEF Carries
  <2> QED BY <2>2, <2>5, <2>6, <2>7, <2>8 DEF WriteTypes
<1> QED BY <1>7, <1>8

LEMMA ReadCarries ==
  ASSUME NEW op \in Reads, NEW found, NEW c, c.op # "batch", UNCHANGED rows,
         cachedRecords \subseteq cachedRecords', NEW id
  PROVE  Carries(Answer(op, found), c, id)
<1> DEFINE a == Answer(op, found)
<1>1. a.op = op /\ a.op # "batch" /\ a.raws = Only(rows, found \ cachedRecords)
  BY DEF Answer, Reads
<1>2. id \in DOMAIN a.raws => id \in InTable \ cachedRecords /\ a.raws[id] = rows[id]
  BY <1>1 DEF Only, InTable
<1>3. ~Touches(a, id) /\ ~Touches(c, id)
  BY <1>1, Kinds
<1>4. (id \in Live' <=> id \in Live) /\ (id \in InTable' <=> id \in InTable)
  BY DEF Live, InTable
<1> HIDE DEF a
<1>5. Carries(a, c, id)
  BY <1>2, <1>3, <1>4, Kinds DEF Carries
<1> QED BY <1>5 DEF a

LEMMA AdapterStepCurrent ==
  ASSUME IInv, Current, AdapterStep
  PROVE  Current'
<1>1. ASSUME NEW found \in SUBSET Ids, NEW op \in Reads, Handled(op, Answer(op, found)),
             UNCHANGED <<rows, failures>>, cachedRecords \subseteq cachedRecords'
      PROVE  Current'
  <2> DEFINE a == Answer(op, found)
  <2>1. a \in Answers
    <3>1. Only(rows, found \ cachedRecords) \in [InTable \cap (found \ cachedRecords) -> Raw]
      BY DEF Only, InTable, IInv, Types, TypeOK
    <3>2. Only(rows, found \ cachedRecords) \in UNION {[S -> Raw] : S \in SUBSET Ids}
      BY <1>1, <3>1
    <3> QED BY <1>1, <3>2 DEF Answer, Answers
  <2>2. a.op = op /\ op \notin {"batch", "reset"} /\ Head(calls).op = op
    BY <1>1, <2>1, HandledAppends DEF Answer, Reads
  <2>3. \A id \in Ids : Carries(a, Head(calls), id)
    BY <1>1, <2>2, ReadCarries
  <2> HIDE DEF a
  <2> QED BY <1>1, <2>1, <2>2, <2>3, HandledCurrent DEF a
<1>2. ASSUME NEW op \in {"query", "raws"}, HandleQuery(op)
      PROVE  Current'
  <2>1. Live \in SUBSET Ids /\ op \in Reads
    BY DEF Live, Reads, IInv, Types, TypeOK
  <2> QED BY <1>1, <1>2, <2>1 DEF HandleQuery
<1>3. CASE HandleFind
  <2>1. findResult(Head(calls).id) \in SUBSET Ids /\ "find" \in Reads
    BY DEF findResult, Reads, IInv, Types, TypeOK
  <2> QED BY <1>1, <1>3, <2>1 DEF HandleFind
<1>4. CASE HandleBatch
  <2> DEFINE a == BatchAnswer(TRUE)
  <2>1. Handled("batch", a) /\ UNCHANGED failures
    BY <1>4 DEF HandleBatch
  <2>2. Head(calls) \in CallType /\ Head(calls).op = "batch"
    BY <2>1 DEF Handled, IInv, Types
  <2>3. a \in Answers /\ a.op = "batch" /\ a.ok
    BY <2>2 DEF BatchAnswer, Answers, CallType
  <2>4. Head(calls) = calls[1] /\ 1 \in 1 .. Len(calls)
    BY <2>1, <2>3, HandledAppends
  <2> HIDE DEF a
  <2>5. \A id \in Ids : FitsTable(1, id) => Carries(a, Head(calls), id)
    BY <1>4, <2>4, BatchCarries DEF a
  <2> QED BY <2>1, <2>3, <2>5, HandledCurrent
<1>5. CASE HandleDestroyDeleted
  <2> DEFINE a == [op |-> "destroyDeleted"]
             c == Head(calls)
  <2>1. Handled("destroyDeleted", a) /\ rows' = Without(rows, {c.id})
        /\ UNCHANGED <<cachedRecords, failures>>
    BY <1>5 DEF HandleDestroyDeleted
  <2>2. a \in Answers /\ a.op = "destroyDeleted" /\ a.op \notin Reads
    BY DEF Answers, Reads
  <2> HIDE DEF a, c
  <2>3. c = calls[1] /\ c.op = "destroyDeleted"
    BY <2>1, <2>2, HandledAppends DEF c
  <2>4. ASSUME NEW id \in Ids, FitsTable(1, id)
        PROVE  Carries(a, c, id)
    <3>1. /\ id \in InTable' <=> id \in InTable /\ id # c.id
          /\ id \in InTable' => rows'[id] = rows[id]
      BY <2>1 DEF InTable, Without
    <3>2. id = c.id => id \notin Live
      BY <2>3, <2>4 DEF FitsTable
    <3>3. id \in Live' <=> id \in Live
      BY <3>1, <3>2 DEF Live
    <3>4. ~Touches(a, id) /\ ~Touches(c, id)
      BY <2>2, <2>3, Kinds
    <3>5. id \in Live => rows'[id] = rows[id]
      BY <3>1, <3>2 DEF Live
    <3> QED BY <2>1, <2>2, <3>1, <3>3, <3>4, <3>5, Kinds DEF Carries
  <2> QED BY <2>1, <2>2, <2>4, HandledCurrent DEF c
<1>6. CASE HandleReset
  <2> DEFINE a == [op |-> "reset", ok |-> TRUE]
  <2>1. Handled("reset", a) /\ UNCHANGED failures
    BY <1>6 DEF HandleReset
  <2>2. a \in Answers /\ a.op = "reset" /\ a.ok
    BY DEF Answers
  <2> HIDE DEF a
  <2>3. AllOk => AllOk'
    BY <2>1, <2>2, HandledAppends DEF AllOk
  <2>4. Emptied'
    BY <2>1, <2>2, HandledAppends DEF Emptied
  <2> QED BY <2>1, <2>3, <2>4 DEF Current
<1>7. CASE BatchFails \/ ResetFails
  <2>1. failures' # 0
    <3>1. failures' = failures + 1 /\ failures \in Nat
      BY <1>7 DEF BatchFails, ResetFails, IInv, Types, TypeOK
    <3> QED BY ONLY <3>1
  <2> QED BY <2>1 DEF Current
<1> QED BY <1>2, <1>3, <1>4, <1>5, <1>6, <1>7 DEF AdapterStep

(* What is known of a record after an answer was worked off. *)
LEMMA DoneFollows ==
  ASSUME IInv, Coming # <<>>, Coming' = Tail(Coming), UNCHANGED <<rows, cachedRecords, calls>>,
         NEW h, h = Head(Coming), NEW id \in Ids, Follows(id),
         \/ ~Settles(h, id) /\ map'[id] = map[id]
         \/ ~Settles(h, id) /\ h.op \in Reads /\ id \in DOMAIN h.raws /\ map'[id] = h.raws[id]
         \/ Creates(h, id) /\ map'[id] = Newborn
         \/ map'[id] = NoModel
  PROVE  Follows(id)'
<1>1. PICK m \in Nat : Len(Coming) = m + 1
  <2>1. Coming \in Seq(Answers)
    BY ComingIs DEF IInv
  <2>2. Len(Coming) - 1 \in Nat /\ Len(Coming) = (Len(Coming) - 1) + 1
    BY <2>1, EmptySeq
  <2> QED BY <2>2
<1>2. Len(Coming') = m /\ Coming[1] = h /\ \A k \in 1 .. m : Coming'[k] = Coming[k + 1]
  BY <1>1, ComingIs DEF IInv
<1>3. /\ 1 \in 1 .. m + 1 /\ \A k \in 1 .. m : k + 1 \in 1 .. m + 1
      /\ \A k \in 1 .. m + 1 : k = 1 \/ (k - 1 \in 1 .. m /\ (k - 1) + 1 = k)
      /\ \A k \in 1 .. m : \A j \in (k + 1) + 1 .. m + 1 : j - 1 \in k + 1 .. m /\ j - 1 \in 1 .. m /\ (j - 1) + 1 = j
  OBVIOUS
<1>4. (id \in Live' <=> id \in Live) /\ (id \in InTable' <=> id \in InTable)
  BY DEF Live, InTable
<1>5. Alone(id)'
  BY <1>1, <1>2, <1>3 DEF Follows, Alone
<1>6. \A i \in 1 .. Len(calls') : FitsTable(i, id)'
  BY <1>4 DEF Follows, FitsTable
<1>7. Born(id)'
  BY <1>1, <1>2, <1>3, <1>4 DEF Follows, Born
<1>8. ASSUME NEW raw, UpToDate(raw, id)
      PROVE  UpToDate(raw, id)'
  BY <1>4, <1>8 DEF UpToDate, IsLastOn
<1>9. Sent(id)'
  <2>1. ASSUME NEW k \in 1 .. m, SentAt(k, id)'
        PROVE  UpToDate(Coming[k].raws[id], id)'
    <3>1. /\ Coming'[k].op \in Reads /\ id \in DOMAIN Coming'[k].raws
          /\ \A j \in k + 1 .. m : ~Settles(Coming'[j], id)
          /\ \A i \in 1 .. Len(calls) : ~Settles(calls[i], id)
      BY <1>2, <2>1 DEF SentAt
    <3>2. \A j \in (k + 1) + 1 .. m + 1 : ~Settles(Coming[j], id)
      <4>1. \A j \in (k + 1) + 1 .. m + 1 : Coming'[j - 1] = Coming[j]
        BY <1>2, <1>3
      <4> QED BY <1>3, <3>1, <4>1
    <3>3. SentAt(k + 1, id) /\ k + 1 \in 1 .. Len(Coming)
      BY <1>1, <1>2, <1>3, <3>1, <3>2 DEF SentAt
    <3>4. UpToDate(Coming[k + 1].raws[id], id)
      BY <3>3 DEF Follows, Sent
    <3>5. \A raw : raw = Coming[k + 1].raws[id] => UpToDate(raw, id)'
      BY <1>8, <3>4
    <3> QED BY <1>2, <3>5 DEF UpToDate
  <2> QED BY <1>2, <2>1 DEF Sent
<1>10. Model(id)'
  <2>1. ASSUME id \in InCache', ~Awaited(id)'
        PROVE  UpToDate(map[id], id)'
    <3>1. /\ \A i \in 1 .. Len(calls) : ~Settles(calls[i], id)
          /\ \A k \in 1 .. m : ~Settles(Coming'[k], id)
      BY <1>2, <2>1 DEF Awaited
    <3>2. \A k \in 1 + 1 .. m + 1 : ~Settles(Coming[k], id)
      <4>1. \A k \in 1 + 1 .. m + 1 : k - 1 \in 1 .. m /\ (k - 1) + 1 = k
        OBVIOUS
      <4>2. \A k \in 1 + 1 .. m + 1 : Coming'[k - 1] = Coming[k]
        BY <1>2, <4>1
      <4> QED BY <3>1, <4>1, <4>2
    <3>3. \E raw : raw = map'[id] /\ UpToDate(raw, id)
      <4>1. CASE ~Settles(h, id) /\ map'[id] = map[id]
        <5>1. \A k \in 1 .. m + 1 : ~Settles(Coming[k], id)
          <6>1. \A k \in 1 .. m + 1 : k = 1 \/ k \in 1 + 1 .. m + 1
            OBVIOUS
          <6> QED BY <1>2, <3>2, <4>1, <6>1
        <5>2. ~Awaited(id) /\ id \in InCache
          BY <1>1, <2>1, <3>1, <4>1, <5>1 DEF Awaited, InCache
        <5> QED BY <4>1, <5>2 DEF Follows, Model
      <4>2. CASE ~Settles(h, id) /\ h.op \in Reads /\ id \in DOMAIN h.raws /\ map'[id] = h.raws[id]
        <5>1. SentAt(1, id) /\ 1 \in 1 .. Len(Coming)
          BY <1>1, <1>2, <1>3, <3>1, <3>2, <4>2 DEF SentAt
        <5> QED BY <1>2, <4>2, <5>1 DEF Follows, Sent
      <4>3. CASE Creates(h, id) /\ map'[id] = Newborn
        <5>1. id \in InTable /\ rows[id] = Newborn
          BY <1>1, <1>2, <1>3, <4>3 DEF Follows, Born
        <5>2. \A j \in 1 .. Len(calls) : ~Touches(calls[j], id)
          BY <1>1, <1>2, <1>3, <4>3, Kinds DEF Follows, Alone
        <5>3. id \in Live /\ \A i \in 1 .. Len(calls) : ~IsLastOn(i, id)
          BY <5>1, <5>2 DEF Live, Newborn, IsLastOn
        <5>4. UpToDate(Newborn, id)
          BY <5>1, <5>3 DEF UpToDate, Newborn
        <5> QED BY <4>3, <5>4
      <4>4. CASE map'[id] = NoModel
        BY <2>1, <4>4 DEF InCache
      <4> QED BY <4>1, <4>2, <4>3, <4>4
    <3>4. PICK raw : raw = map'[id] /\ UpToDate(raw, id)
      BY <3>3
    <3>5. UpToDate(raw, id)'
      BY <1>8, <3>4
    <3> QED BY <3>4, <3>5 DEF UpToDate
  <2> QED BY <2>1 DEF Model
<1> QED BY <1>5, <1>6, <1>7, <1>9, <1>10 DEF Follows

LEMMA NothingMoved ==
  ASSUME Current, Coming' = Coming, UNCHANGED <<rows, cachedRecords, calls, map, failures>>
  PROVE  Current'
BY DEF Current, AllOk, Emptied, Follows, Alone, FitsTable, Born, Sent, SentAt, Model, Awaited,
  UpToDate, IsLastOn, Live, InTable, InCache

LEMMA DoneCurrent ==
  ASSUME IInv, Current, Coming # <<>>, Coming' = Tail(Coming),
         UNCHANGED <<rows, cachedRecords, calls, failures>>,
         NEW h, h = Head(Coming), h.op # "reset",
         (h.op = "batch" => h.ok) => \A id \in Ids :
           \/ ~Settles(h, id) /\ map'[id] = map[id]
           \/ ~Settles(h, id) /\ h.op \in Reads /\ id \in DOMAIN h.raws /\ map'[id] = h.raws[id]
           \/ Creates(h, id) /\ map'[id] = Newborn
           \/ map'[id] = NoModel
  PROVE  Current'
<1>1. SUFFICES ASSUME failures = 0
               PROVE  AllOk' /\ (Emptied' \/ \A id \in Ids : Follows(id)')
  BY DEF Current
<1>2. Coming \in Seq(Answers)
  BY ComingIs DEF IInv
<1>3. AllOk /\ (Emptied \/ \A id \in Ids : Follows(id))
  BY <1>1 DEF Current
<1>4. /\ Len(Coming) \in Nat /\ Len(Coming) > 0 /\ Len(Coming') = Len(Coming) - 1
      /\ \A k \in 1 .. Len(Coming') : Coming'[k] = Coming[k + 1] /\ k + 1 \in 1 .. Len(Coming)
      /\ h = Coming[1] /\ 1 \in 1 .. Len(Coming)
      /\ \A k \in 1 .. Len(Coming) : k = 1 \/ (k - 1 \in 1 .. Len(Coming') /\ (k - 1) + 1 = k)
  BY <1>2, HeadTailProperties
<1>5. AllOk'
  BY <1>3, <1>4 DEF AllOk
<1>6. CASE Emptied
  <2>1. PICK k \in 1 .. Len(Coming) : Coming[k].op = "reset"
    BY <1>6 DEF Emptied
  <2>2. k - 1 \in 1 .. Len(Coming') /\ Coming'[k - 1] = Coming[k]
    BY <1>4, <2>1
  <2> QED BY <1>5, <2>1, <2>2 DEF Emptied
<1>7. CASE \A id \in Ids : Follows(id)
  <2>1. h.op = "batch" => h.ok
    BY <1>3, <1>4 DEF AllOk
  <2> QED BY <1>5, <1>7, <2>1, DoneFollows
<1> QED BY <1>3, <1>6, <1>7

(* The RecordCache uses a result. *)
LEMMA ResultCurrent ==
  ASSUME IInv, Current, Coming # <<>>, Head(Coming).op \in Reads, FromQueryResult(Head(Coming)),
         Coming' = Tail(Coming), UNCHANGED <<rows, cachedRecords, calls, failures>>
  PROVE  Current'
<1> DEFINE h == Head(Coming)
<1>1. map' = [id \in Ids |-> IF id \in DOMAIN h.raws \ InCache THEN h.raws[id] ELSE map[id]]
  BY ResultUsed
<1>2. h.op \notin {"batch", "reset"} /\ \A id \in Ids : ~Settles(h, id)
  BY Kinds DEF Reads
<1> HIDE DEF h
<1>3. \A id \in Ids : \/ ~Settles(h, id) /\ map'[id] = map[id]
                      \/ ~Settles(h, id) /\ h.op \in Reads /\ id \in DOMAIN h.raws /\ map'[id] = h.raws[id]
  BY <1>1, <1>2 DEF h
<1> QED BY <1>2, <1>3, DoneCurrent DEF h

LEMMA AnswerArrivesCurrent ==
  ASSUME IInv, Current, AnswerArrives, ~Synchronous
  PROVE  Current'
<1> DEFINE a == Head(answers)
<1>1. /\ answers # <<>> /\ microtasks = <<>> /\ answers' = Tail(answers)
      /\ UNCHANGED <<rows, cachedRecords, calls, adapter, failures>>
  BY DEF AnswerArrives, MayArrive
<1>2. answers \in Seq(Answers) /\ answers' \in Seq(Answers) /\ a \in Answers
  BY <1>1, HeadTailProperties DEF IInv, Types
<1>3. Coming = answers
  BY <1>1, <1>2, ConcatEmptySeq DEF Coming
<1>4. CASE a.op \in {"query", "find"} /\ FromQueryResult(a) /\ UNCHANGED microtasks
  <2>1. Coming' = Tail(Coming)
    BY <1>1, <1>2, <1>3, <1>4, ConcatEmptySeq DEF Coming
  <2> QED BY <1>1, <1>3, <1>4, <2>1, ResultCurrent DEF Reads
<1>5. CASE /\ a.op \in {"raws", "batch", "reset"} /\ microtasks' = Append(microtasks, a)
           /\ UNCHANGED map
  <2>1. microtasks' = <<a>>
    BY <1>1, <1>5
  <2>2. Coming' = Coming
    <3>1. Coming' = <<a>> \o Tail(answers)
      BY <1>1, <2>1 DEF Coming
    <3> QED BY <1>1, <1>2, <1>3, <3>1
  <2> QED BY <1>1, <1>5, <2>2, NothingMoved
<1>6. CASE a.op = "destroyDeleted" /\ UNCHANGED <<map, microtasks>>
  <2>1. Coming' = Tail(Coming)
    BY <1>1, <1>2, <1>3, <1>6, ConcatEmptySeq DEF Coming
  <2>2. \A id \in Ids : ~Settles(a, id) /\ map'[id] = map[id]
    BY <1>6, Kinds
  <2> HIDE DEF a
  <2> QED BY <1>1, <1>3, <1>6, <2>1, <2>2, DoneCurrent DEF a
<1> QED BY <1>4, <1>5, <1>6 DEF AnswerArrives

LEMMA ContinueCurrent ==
  ASSUME IInv, Current, RawsContinue \/ BatchContinues \/ ResetContinues
  PROVE  Current'
<1> DEFINE a == Head(microtasks)
<1>1. CASE RawsContinue
  <2>1. /\ Continue("raws") /\ FromQueryResult(a)
        /\ UNCHANGED <<rows, cachedRecords, calls, answers, adapter, failures>>
    BY <1>1 DEF RawsContinue
  <2> QED BY <2>1, ContinueMoves, ResultCurrent DEF Reads
<1>2. CASE BatchContinues
  <2>1. /\ Continue("batch")
        /\ map' = IF a.ok THEN applyChangesToCache(a.writes) ELSE map
        /\ UNCHANGED <<rows, cachedRecords, calls, answers, adapter, failures>>
    BY <1>2 DEF BatchContinues
  <2>2. Coming # <<>> /\ Coming' = Tail(Coming) /\ a = Head(Coming) /\ a.op = "batch" /\ a \in Answers
    BY <2>1, ContinueMoves
  <2>3. a.writes \in WriteSets
    BY <2>2, AnswerSets
  <2> HIDE DEF a
  <2>4. ASSUME a.ok, NEW id \in Ids
        PROVE  \/ ~Settles(a, id) /\ map'[id] = map[id]
               \/ Creates(a, id) /\ map'[id] = Newborn
               \/ map'[id] = NoModel
    <3>1. map'[id] = CASE id \in Created(a.writes)   -> Newborn
                       [] id \in Destroyed(a.writes) -> NoModel
                       [] OTHER -> map[id]
      BY <2>1, <2>4 DEF applyChangesToCache, Newborn
    <3>2. id \in Created(a.writes) <=> Creates(a, id)
      BY <2>2 DEF Created, IdsOf, Creates
    <3>3. Settles(a, id) => id \in Created(a.writes) \/ id \in Destroyed(a.writes)
      BY <2>3 DEF Settles, Created, Destroyed, IdsOf, WriteSets, WriteTypes
    <3>4. Created(a.writes) \cap Destroyed(a.writes) = {}
      BY <2>3, NoneTwice
    <3> QED BY <3>1, <3>2, <3>3, <3>4
  <2> QED BY <2>1, <2>2, <2>4, DoneCurrent
<1>3. CASE ResetContinues
  <2>1. /\ Continue("reset") /\ UNCHANGED <<rows, cachedRecords, calls, answers, failures>>
        /\ a.ok => map' = [id \in Ids |-> NoModel]
    BY <1>3 DEF ResetContinues
  <2>2. Coming # <<>> /\ Coming' = Tail(Coming) /\ a = Head(Coming) /\ a.op = "reset"
    BY <2>1, ContinueMoves
  <2>3. Coming \in Seq(Answers) /\ a = Coming[1] /\ 1 \in 1 .. Len(Coming)
    BY <2>2, ComingIs, HeadTailProperties DEF IInv
  <2>4. Len(Coming) = 1 /\ calls = <<>>
    <3>1. Coming[1].op = "reset"
      BY <2>2, <2>3
    <3> QED BY <2>3, <3>1 DEF IInv, ResetIsLast
  <2>5. Len(Coming') = 0 /\ Len(calls') = 0
    BY <2>1, <2>2, <2>3, <2>4, HeadTailProperties
  <2>6. SUFFICES ASSUME failures = 0
                 PROVE  AllOk' /\ \A id \in Ids : Follows(id)'
    BY <2>1 DEF Current
  <2>7. \A k : k \notin 1 .. 0
    OBVIOUS
  <2>8. AllOk'
    BY <2>5, <2>7 DEF AllOk
  <2>9. ASSUME NEW id \in Ids
        PROVE  Follows(id)'
    <3>1. a.ok
      BY <2>2, <2>3, <2>6 DEF Current, AllOk
    <3>2. id \notin InCache'
      BY <2>1, <3>1 DEF InCache
    <3> QED BY <2>5, <2>7, <3>2 DEF Follows, Alone, Born, Sent, Model
  <2> QED BY <2>8, <2>9
<1> QED BY <1>1, <1>2, <1>3

LEMMA CurrentInit ==
  ASSUME Init
  PROVE  Current
<1>1. Len(Coming) = 0 /\ Len(calls) = 0 /\ InCache = {}
  BY DEF Init, Coming, InCache
<1>2. \A k : k \notin 1 .. 0
  OBVIOUS
<1> QED BY <1>1, <1>2 DEF Current, AllOk, Follows, Alone, Born, Sent, Model

(* When nothing is under way, and no batch was rejected, the model of a    *)
(* record is its row, whatever queries, batches and resets overlapped (the *)
(* answer of a batch is awaited, src/src/Database/index.js:157-184).       *)
THEOREM ModelsCorrect == ASSUME ~Synchronous PROVE Spec => []ModelIsRow
<1>1. IInv /\ Current /\ [Next]_vars => Current'
  <2>1. ASSUME Current, UNCHANGED vars
        PROVE  Current'
    <3>1. Coming' = Coming
      BY <2>1 DEF vars, Coming
    <3>2. UNCHANGED <<rows, cachedRecords, calls, map, failures>>
      BY <2>1 DEF vars
    <3> QED BY <2>1, <3>1, <3>2, NothingMoved
  <2> QED BY <2>1, AppStepCurrent, AdapterStepCurrent, AnswerArrivesCurrent, ContinueCurrent DEF Next
<1>2. ASSUME IInv, Current
      PROVE  ModelIsRow
  <2>1. SUFFICES ASSUME Quiet, failures = 0, NEW id \in Live \cap InCache
                 PROVE  map[id] = rows[id]
    BY DEF ModelIsRow
  <2>2. Len(Coming) = 0 /\ Len(calls) = 0 /\ id \in Ids
    BY <2>1 DEF Quiet, Coming, InCache
  <2>3. \A k : k \notin 1 .. 0
    OBVIOUS
  <2>4. ~Emptied /\ ~Awaited(id)
    BY <2>2, <2>3 DEF Emptied, Awaited
  <2>5. UpToDate(map[id], id)
    BY <1>2, <2>1, <2>2, <2>4 DEF Current, Follows, Model
  <2>6. ~map[id].deleted /\ map[id].revision = rows[id].revision /\ ~rows[id].deleted
    BY <2>1, <2>2, <2>3, <2>5 DEF UpToDate, Live
  <2>7. map[id] \in Raw /\ rows[id] \in Raw
    BY <1>2, <2>1, <2>2 DEF IInv, Types, TypeOK, InCache, Live
  <2> QED BY <2>6, <2>7 DEF Raw
<1> QED BY <1>1, <1>2, Invariance, InitInv, CurrentInit, PTL DEF Spec
=============================================================================
