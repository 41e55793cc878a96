--------------------------- MODULE Subscriptions ----------------------------
(***************************************************************************)
(* Subscribers to a query and how they learn of changes: Database._notify  *)
(* and experimentalBatchNotifications(), Collection._notify, the simple,   *)
(* reloading and with-columns observers of src/src/observation, and the    *)
(* SharedSubscribable that query.observe() shares.                         *)
(*                                                                         *)
(* JavaScript runs one function at a time, but the functions call each     *)
(* other: a loop over subscribers calls an observer, which calls the       *)
(* application, which subscribes and unsubscribes, in that very loop. What *)
(* is still to run is a stack of frames, and a step runs the top one up to *)
(* its next call. The event loop takes the next turn when it is empty.     *)
(*                                                                         *)
(* There is one query on one table. A record that is created, or starts to *)
(* match, enters the list; one that is destroyed, or no longer matches,    *)
(* leaves it; the order in a list is left out. The adapter answers in the  *)
(* order of the calls: inside the call when it is synchronous (JSI, Node), *)
(* in a later turn otherwise.                                              *)
(***************************************************************************)
EXTENDS Naturals, SequencesExt

CONSTANTS
  Records,      \* records of the table
  Subscribers,  \* callers of observe() or observeWithColumns(), once each
  Columns,      \* ... those of observeWithColumns()
  Nobody,       \* owner of the sources of the SharedSubscribable
  NoList,       \* previousRecords before the first answer
  MaxWrites     \* bound: batches

ASSUME SubscriptionsAssumption ==
  /\ Columns \subseteq Subscribers /\ Nobody \notin Subscribers
  /\ \A list \in SUBSET Records : NoList # list
  /\ MaxWrites \in Nat

VARIABLES
  simple,       \* canEncodeMatcher(query): simple observers, not reloading ones
  synchronous,  \* the adapter answers inside the call
  rows,         \* what the adapter has committed
  memory,       \* the raws of the models, ahead of it
  writes,       \* number of batches
  rejected,     \* records whose last batch was rejected: their models keep its raws
  calls,        \* calls the adapter has not answered
  unnotified,   \* changed records of a batch that is committed, to be notified of
  held,         \* _pendingNotificationChanges; empty when none are held
  stack,        \* frames, the top one first
  database,     \* Database._subscribers: reloading observers
  collection,   \* Collection._subscribers: <<source, "columns" or "simple">>
  shared,       \* the SharedSubscribable
  source,       \* the observers made
  phase,        \* of each subscriber
  given,        \* what each subscriber was last called with
  missed,       \* subscribers that were passed over, or called for an ended source
  overtaken     \* a source of the SharedSubscribable was forgotten

setting   == <<simple, synchronous>>
data      == <<rows, memory, writes, rejected>>
notices   == <<unnotified, held>>
entries   == <<database, collection>>
observers == <<shared, source>>
people    == <<phase, given, missed>>
vars == <<setting, data, calls, notices, stack, entries, observers, people, overtaken>>

\* Whether a record is on the list, and an observed column: as it was or not.
Row     == [in : BOOLEAN, col : 0 .. 1]
Rows    == [Records -> Row]
Lists   == SUBSET Records
NoRows  == [id \in Records |-> [in |-> FALSE, col |-> 0]]
Matching(r) == {id \in Records : r[id].in}
Sources == 1 .. Len(source)

NoFrame == [at |-> "none", n |-> 0, u |-> Nobody, i |-> 0, len |-> 0, set |-> {}]
OfSource(at, n, set) == [NoFrame EXCEPT !.at = at, !.n = n, !.set = set]
OfUser(at, u, set)   == [NoFrame EXCEPT !.at = at, !.u = u, !.set = set]

Running(at) == stack # <<>> /\ Head(stack).at = at
Top         == Head(stack)
Below       == Tail(stack)

\* What a subscriber can see in a list it is called with.
Seen(u, list) ==
  [list |-> list,
   cols |-> [id \in Records |-> IF u \in Columns /\ id \in list THEN memory[id].col ELSE 0]]
Unseen == [list |-> NoList, cols |-> [id \in Records |-> 0]]

Init ==
  /\ simple \in BOOLEAN /\ synchronous \in BOOLEAN
  /\ rows \in {r \in Rows : \A id \in Records : r[id].col = 0}
  /\ memory = rows /\ writes = 0 /\ rejected = {}
  /\ calls = <<>> /\ unnotified = <<>> /\ held = <<>>
  /\ stack = <<>> /\ database = <<>> /\ collection = <<>>
  /\ shared = [subscribers |-> <<>>, source |-> 0, didEmit |-> FALSE, last |-> {}]
  /\ source = <<>>
  /\ phase = [u \in Subscribers |-> "new"]
  /\ given = [u \in Subscribers |-> Unseen]
  /\ missed = {} /\ overtaken = FALSE

-----------------------------------------------------------------------------
(* Fetching. A definition named Fault... is a wrong version of the one     *)
(* that follows it, for checking that the properties would notice.        *)

\* _fetchQuery(): the callback runs before it returns, or is called later.
FetchFrames(n) == IF synchronous THEN <<OfSource("answer", n, {})>> ELSE <<>>
FetchCalls(n)  ==
  IF synchronous THEN calls
  ELSE Append(calls, [type |-> "fetch", n |-> n, rows |-> NoRows, set |-> {}])

\* subscribeToSimpleQuery, the initial fetch: emits, and then, if nobody ended
\* it meanwhile, observes the collection.
SimpleAnswer(n, list) ==
  IF source[n].live
  THEN /\ source' = [source EXCEPT ![n] = [@ EXCEPT !.list = list, !.stale = FALSE]]
       /\ stack' = <<OfSource("emit", n, list), OfSource("observe", n, {})>> \o Below
  ELSE UNCHANGED source /\ stack' = Below

\* subscribeToQueryReloading. A with-columns observer is always called.
FaultToldAnyway(n) == TRUE
StillSubscribed(n) == source[n].live

ReloadingAnswer(n, list) ==
  /\ source' = IF source[n].live
               THEN [source EXCEPT ![n] = [@ EXCEPT !.list = list, !.stale = FALSE]] ELSE source
  /\ stack' = IF StillSubscribed(n) /\ (source[n].owner # Nobody \/ source[n].list # list)
              THEN <<OfSource("emit", n, list)>> \o Below ELSE Below

Answer ==
  /\ Running("answer")
  /\ LET list == Matching(rows) IN
       IF simple THEN SimpleAnswer(Top.n, list) ELSE ReloadingAnswer(Top.n, list)
  /\ UNCHANGED <<setting, data, calls, notices, entries, shared, people, overtaken>>

\* An error is logged, and nothing else happens. One error is not the adapter's:
\* when a synchronous one has committed a batch and its models are not cached yet.
AnswerIsError ==
  /\ Running("answer") /\ stack' = Below
  /\ source' = [source EXCEPT ![Top.n].stale = @ \/ source[Top.n].live]
  /\ UNCHANGED <<setting, data, calls, notices, entries, shared, people, overtaken>>

FaultMayObserve(n) == TRUE
MayObserve(n) == source[n].live

Observe ==
  /\ Running("observe") /\ stack' = Below
  /\ collection' = IF MayObserve(Top.n) THEN Append(collection, <<Top.n, "simple">>) ELSE collection
  /\ UNCHANGED <<setting, data, calls, notices, database, observers, people, overtaken>>

-----------------------------------------------------------------------------
(* Emitting.                                                               *)

\* subscribeToQueryWithColumns, called by its source. The columns of records
\* that were on the list are left to the collection's notice.
FaultStateAfter(s, list) ==
  [id \in list |-> IF id \in s.observed THEN s.states[id] ELSE memory[id].col]
StateAfter(s, list) ==
  [id \in Records |->
     IF id \notin list THEN 0 ELSE IF id \in s.observed THEN s.states[id] ELSE memory[id].col]

\* A subscriber sees the columns as they are in memory, which may be a change
\* that its observer has still to be notified of.
Ahead(states, list) == \E id \in list : states[id] # memory[id].col

EmitWithColumns ==
  /\ Running("emit") /\ source[Top.n].owner # Nobody
  /\ LET s == source[Top.n]
         states == StateAfter(s, Top.set)
         shouldEmit == (s.first \/ s.pending \/ s.observed # Top.set) /\ s.live IN
       /\ source' = [source EXCEPT ![Top.n] =
            [s EXCEPT !.fetching = FALSE, !.pending = FALSE, !.first = FALSE,
                      !.observed = Top.set, !.states = states, !.news = @ /\ ~shouldEmit,
                      !.early = IF shouldEmit THEN Ahead(states, Top.set) ELSE @]]
       /\ stack' = IF shouldEmit
                   THEN <<[OfUser("tell", s.owner, Top.set) EXCEPT !.n = Top.n]>> \o Below
                   ELSE Below
  /\ UNCHANGED <<setting, data, calls, notices, entries, shared, people, overtaken>>

\* SharedSubscribable._notify.
EmitShared ==
  /\ Running("emit") /\ source[Top.n].owner = Nobody /\ shared.subscribers # <<>>
  /\ shared' = [shared EXCEPT !.didEmit = TRUE, !.last = Top.set]
  /\ source' = [source EXCEPT ![Top.n].news = FALSE]
  /\ stack' = <<OfSource("shared", Top.n, Top.set)>> \o Below
  /\ UNCHANGED <<setting, data, calls, notices, entries, people, overtaken>>

\* ... its invariant fails, and the error ends all that was running.
EmitThrows ==
  /\ Running("emit") /\ source[Top.n].owner = Nobody /\ shared.subscribers = <<>>
  /\ stack' = <<>> /\ missed' = Subscribers
  /\ UNCHANGED <<setting, data, calls, notices, entries, observers, phase, given, overtaken>>

\* The application's function is called, and may now call us.
Tell ==
  /\ Running("tell")
  /\ given' = [given EXCEPT ![Top.u] = Seen(Top.u, Top.set)]
  /\ stack' = <<OfUser("user", Top.u, {})>> \o Below
  /\ UNCHANGED <<setting, data, calls, notices, entries, observers, phase, missed, overtaken>>

Return ==
  /\ Running("user") /\ stack' = Below
  /\ UNCHANGED <<setting, data, calls, notices, entries, observers, people, overtaken>>

-----------------------------------------------------------------------------
(* Loops: forEach() over an array that changes under it.                   *)

Items(at) ==
  CASE at = "database" -> database [] at = "collection" -> collection
    [] OTHER -> shared.subscribers

\* forEach() goes up to the length it found, and passes over what is gone.
Length(f)  == IF f.i = 0 THEN Len(Items(f.at)) ELSE f.len
HasNext(f) == f.i < Length(f) /\ f.i < Len(Items(f.at))
NextOf(f)  == Items(f.at)[f.i + 1]
Moved(f)   == [f EXCEPT !.i = @ + 1, !.len = Length(f)]
In(at)     == Running(at) /\ HasNext(Top)

LoopEnds ==
  /\ stack # <<>> /\ Top.at \in {"database", "collection", "shared"} /\ ~HasNext(Top)
  /\ stack' = Below
  /\ UNCHANGED <<setting, data, calls, notices, entries, observers, people, overtaken>>

\* reloadingObserverFetch(), which tells a with-columns observer first.
CallReloading ==
  /\ In("database")
  /\ LET n == NextOf(Top) IN
       /\ source' = [source EXCEPT ![n].fetching = TRUE]
       /\ calls' = FetchCalls(n)
       /\ stack' = FetchFrames(n) \o <<Moved(Top)>> \o Below
  /\ UNCHANGED <<setting, data, notices, entries, shared, people, overtaken>>

\* processChangeSet() and the emission of a simple observer.
Processed(list, set) == (list \ set) \cup (set \cap Matching(memory))

CallSimple ==
  /\ In("collection") /\ NextOf(Top)[2] = "simple"
  /\ LET n    == NextOf(Top)[1]
         list == Processed(source[n].list, Top.set) IN
       /\ source' = [source EXCEPT ![n].list = list]
       /\ stack' = (IF list # source[n].list \/ source[n].owner # Nobody
                    THEN <<OfSource("emit", n, list)>> ELSE <<>>) \o <<Moved(Top)>> \o Below
  /\ UNCHANGED <<setting, data, calls, notices, entries, shared, people, overtaken>>

\* A with-columns observer looks for changed columns, and leaves the emission
\* to its source when that is about to emit.
FaultLeftToSource(s) == simple
LeftToSource(s) == s.fetching \/ simple

CallColumns ==
  /\ In("collection") /\ NextOf(Top)[2] = "columns"
  /\ LET n       == NextOf(Top)[1]
         s       == source[n]
         changed == {id \in Top.set \cap s.observed : s.states[id] # memory[id].col}
         states  == [id \in Records |-> IF id \in changed THEN memory[id].col ELSE s.states[id]]
         emits   == changed # {} /\ ~LeftToSource(s) IN
       /\ source' = [source EXCEPT ![n] =
            [s EXCEPT !.pending = @ \/ (changed # {} /\ LeftToSource(s)),
                      !.states = states, !.news = @ /\ ~emits,
                      !.early = IF emits THEN Ahead(states, s.observed) ELSE @]]
       /\ stack' = (IF emits THEN <<[OfUser("tell", s.owner, s.observed) EXCEPT !.n = n]>> ELSE <<>>)
                     \o <<Moved(Top)>> \o Below
  /\ UNCHANGED <<setting, data, calls, notices, entries, shared, people, overtaken>>

\* The loop goes on when its source has ended, with the subscribers of the next.
CallSubscriber ==
  /\ In("shared")
  /\ stack' = <<OfUser("tell", NextOf(Top), Top.set), Moved(Top)>> \o Below
  /\ missed' = IF source[Top.n].live THEN missed ELSE missed \cup {NextOf(Top)}
  /\ UNCHANGED <<setting, data, calls, notices, entries, observers, phase, given, overtaken>>

-----------------------------------------------------------------------------
(* The application subscribes and unsubscribes, in a turn of its own or    *)
(* while it is called.                                                     *)

Free == stack = <<>> \/ Running("user")

Made(owner) ==
  [owner |-> owner, live |-> TRUE, list |-> NoList, fetching |-> TRUE, pending |-> FALSE,
   first |-> TRUE, observed |-> {}, states |-> [id \in Records |-> 0],
   news |-> TRUE, stale |-> FALSE, lost |-> FALSE, early |-> FALSE]

\* subscribeToQuery(), or a with-columns observer and its source: entries first,
\* then the fetch.
MakeSource(owner, frames) ==
  LET n == Len(source) + 1 IN
    /\ source' = Append(source, Made(owner))
    /\ database' = IF simple THEN database ELSE Append(database, n)
    /\ collection' = IF owner = Nobody THEN collection ELSE Append(collection, <<n, "columns">>)
    /\ calls' = FetchCalls(n)
    /\ stack' = FetchFrames(n) \o frames

SubscribeWithColumns(u) ==
  /\ Free /\ u \in Columns /\ phase[u] = "new"
  /\ phase' = [phase EXCEPT ![u] = "joining"]
  /\ MakeSource(u, <<OfUser("subscribed", u, {})>> \o stack)
  /\ UNCHANGED <<setting, data, notices, shared, given, missed, overtaken>>

\* SharedSubscribable.subscribe(): an entry, the last value, then the source.
Subscribe(u) ==
  /\ Free /\ u \notin Columns /\ phase[u] = "new"
  /\ phase' = [phase EXCEPT ![u] = "joining"]
  /\ shared' = [shared EXCEPT !.subscribers = Append(@, u)]
  /\ stack' = (IF shared.didEmit THEN <<OfUser("tell", u, shared.last)>> ELSE <<>>)
                \o <<OfUser("source", u, {}), OfUser("subscribed", u, {})>> \o stack
  /\ UNCHANGED <<setting, data, calls, notices, entries, source, given, missed, overtaken>>

FaultNeedsSource == TRUE
NeedsSource == Len(shared.subscribers) = 1

SubscribeSource ==
  /\ Running("source") /\ NeedsSource
  /\ MakeSource(Nobody, Below)
  /\ shared' = [shared EXCEPT !.source = Len(source) + 1]
  /\ overtaken' = (overtaken \/ (shared.source # 0 /\ Len(shared.subscribers) = 1))
  /\ UNCHANGED <<setting, data, notices, people>>

SourceIsThere ==
  /\ Running("source") /\ ~NeedsSource /\ stack' = Below
  /\ UNCHANGED <<setting, data, calls, notices, entries, observers, people, overtaken>>

\* The caller gets the function that ends the subscription.
Subscribed ==
  /\ Running("subscribed") /\ stack' = Below
  /\ phase' = [phase EXCEPT ![Top.u] = "joined"]
  /\ UNCHANGED <<setting, data, calls, notices, entries, observers, given, missed, overtaken>>

\* indexOf() and splice(), of an entry that is made once.
Without(seq, entry) ==
  IF \E i \in DOMAIN seq : seq[i] = entry
  THEN RemoveAt(seq, CHOOSE i \in DOMAIN seq : seq[i] = entry)
  ELSE seq

\* The items that a running loop passes over when the array loses items that
\* it has been called for: they move to places that it has been to.
Skipped(at, gone) ==
  LET items    == Items(at)
      place(p) == p - Cardinality({q \in 1 .. p : items[q] \in gone})
  IN {items[p] : p \in {p \in DOMAIN items :
        /\ items[p] \notin gone
        /\ \E k \in DOMAIN stack : /\ stack[k].at = at
                                   /\ p \in stack[k].i + 1 .. Length(stack[k])
                                   /\ place(p) <= stack[k].i}}

\* A source is unsubscribed: its entries go, and so does its state.
Ended(n) == [Made(source[n].owner) EXCEPT !.live = FALSE]

EndSource(n) ==
  LET ofCollection == {<<n, "columns">>, <<n, "simple">>} IN
    /\ source' = [m \in Sources |->
         [(IF m = n THEN Ended(m) ELSE source[m]) EXCEPT
                           !.stale = @ \/ m \in Skipped("database", {n}),
                           !.lost = @ \/ m \in {item[1] : item \in Skipped("collection", ofCollection)}]]
    /\ database' = Without(database, n)
    /\ collection' = Without(Without(collection, <<n, "simple">>), <<n, "columns">>)

MayLeave(u) == Free /\ phase[u] = "joined" /\ phase' = [phase EXCEPT ![u] = "left"]
               /\ given' = [given EXCEPT ![u] = Unseen]

UnsubscribeColumns(u) ==
  /\ u \in Columns /\ MayLeave(u)
  /\ \E n \in Sources : source[n].owner = u /\ EndSource(n)
  /\ UNCHANGED <<setting, data, calls, notices, stack, shared, missed, overtaken>>

\* SharedSubscribable._unsubscribe(), by one of several ...
Unsubscribe(u) ==
  /\ u \notin Columns /\ MayLeave(u) /\ Without(shared.subscribers, u) # <<>>
  /\ shared' = [shared EXCEPT !.subscribers = Without(@, u)]
  /\ missed' = missed \cup Skipped("shared", {u})
  /\ UNCHANGED <<setting, data, calls, notices, stack, entries, source, overtaken>>

\* ... and by the last one.
UnsubscribeLast(u) ==
  /\ u \notin Columns /\ MayLeave(u) /\ Without(shared.subscribers, u) = <<>>
  /\ shared' = [shared EXCEPT !.subscribers = <<>>, !.source = 0, !.didEmit = FALSE]
  /\ EndSource(shared.source)
  /\ UNCHANGED <<setting, data, calls, notices, stack, missed, overtaken>>

-----------------------------------------------------------------------------
(* Turns of the event loop.                                                *)

\* database.batch(): the models have their new raws at once, and keep them when
\* the adapter rejects the batch: then nobody is notified.
News == [n \in Sources |-> [source[n] EXCEPT !.news = TRUE]]
Written(set, new) == [id \in Records |-> IF id \in set THEN new[id] ELSE rows[id]]

Commits(set, new) == rows' = Written(set, new) /\ rejected' = rejected \ set
Rejects(set)      == rejected' = rejected \cup set /\ UNCHANGED rows

Write ==
  /\ stack = <<>> /\ writes < MaxWrites /\ writes' = writes + 1
  /\ \E set \in Lists \ {{}}, new \in Rows :
       /\ \A id \in Records \ set : new[id] = memory[id]
       /\ memory' = new
       /\ \/ /\ synchronous /\ Commits(set, new)
             /\ unnotified' = Append(unnotified, set) /\ UNCHANGED calls
          \/ synchronous /\ Rejects(set) /\ UNCHANGED <<calls, unnotified>>
          \/ /\ ~synchronous
             /\ calls' = Append(calls, [type |-> "batch", n |-> 0, rows |-> new, set |-> set])
             /\ UNCHANGED <<rows, rejected, unnotified>>
  /\ UNCHANGED <<setting, held, stack, entries, observers, people, overtaken>>

\* An answer is a turn of its own: what the one before it started has run.
FetchIsAnswered ==
  /\ stack = <<>> /\ unnotified = <<>> /\ calls # <<>> /\ Head(calls).type = "fetch"
  /\ calls' = Tail(calls)
  /\ stack' = <<OfSource("answer", Head(calls).n, {})>>
  /\ UNCHANGED <<setting, data, notices, entries, observers, people, overtaken>>

BatchAnswer ==
  /\ stack = <<>> /\ unnotified = <<>> /\ calls # <<>> /\ Head(calls).type = "batch"
  /\ calls' = Tail(calls)
  /\ UNCHANGED <<setting, memory, writes, held, stack, entries, shared, people, overtaken>>

BatchIsAnswered ==
  /\ BatchAnswer /\ Commits(Head(calls).set, Head(calls).rows)
  /\ unnotified' = <<Head(calls).set>>
  /\ source' = News

BatchIsRejected ==
  BatchAnswer /\ Rejects(Head(calls).set) /\ UNCHANGED <<unnotified, source>>

\* Database._notify, or, within experimentalBatchNotifications(), what is kept
\* of it. Where that began shows from the first notification it holds.
Notify ==
  /\ stack = <<>> /\ unnotified # <<>> /\ unnotified' = Tail(unnotified)
  /\ \/ held = <<>> /\ stack' = <<OfSource("notify", 0, Head(unnotified))>> /\ UNCHANGED held
     \/ held' = Append(held, Head(unnotified)) /\ UNCHANGED stack
  /\ UNCHANGED <<setting, data, calls, entries, observers, people, overtaken>>

\* Its own subscribers first, then those of the collection.
NotifySubscribers ==
  /\ Running("notify")
  /\ stack' = <<OfSource("database", 0, Top.set), OfSource("collection", 0, Top.set)>> \o Below
  /\ source' = News
  /\ UNCHANGED <<setting, data, calls, notices, entries, shared, people, overtaken>>

\* The end of experimentalBatchNotifications().
FaultReplayed == <<>>
Replayed == held

StopHolding ==
  /\ stack = <<>> /\ held # <<>> /\ held' = <<>>
  /\ stack' = [k \in DOMAIN Replayed |-> OfSource("notify", 0, Replayed[k])]
  /\ UNCHANGED <<setting, data, calls, unnotified, entries, observers, people, overtaken>>

-----------------------------------------------------------------------------
Next ==
  \/ Answer \/ AnswerIsError \/ Observe
  \/ EmitWithColumns \/ EmitShared \/ EmitThrows \/ Tell \/ Return
  \/ LoopEnds \/ CallReloading \/ CallSimple \/ CallColumns \/ CallSubscriber
  \/ SubscribeSource \/ SourceIsThere \/ Subscribed
  \/ \E u \in Subscribers :
       \/ Subscribe(u) \/ SubscribeWithColumns(u)
       \/ Unsubscribe(u) \/ UnsubscribeColumns(u) \/ UnsubscribeLast(u)
  \/ Write \/ FetchIsAnswered \/ BatchIsAnswered \/ BatchIsRejected
  \/ Notify \/ NotifySubscribers \/ StopHolding

Spec == Init /\ [][Next]_vars

-----------------------------------------------------------------------------
Observer ==
  [owner : Subscribers \cup {Nobody}, live : BOOLEAN, list : {NoList} \cup Lists,
   fetching : BOOLEAN, pending : BOOLEAN, first : BOOLEAN, observed : Lists,
   states : [Records -> 0 .. 1], news : BOOLEAN, stale : BOOLEAN, lost : BOOLEAN,
   early : BOOLEAN]
Frame ==
  [at : {"answer", "observe", "emit", "tell", "user", "notify", "database", "collection",
         "shared", "source", "subscribed"},
   n : Nat, u : Subscribers \cup {Nobody}, i : Nat, len : Nat, set : Lists]

\* Types, of the arrays of subscribers, the observers' closures and the stack.
TypeOK ==
  /\ simple \in BOOLEAN /\ synchronous \in BOOLEAN
  /\ rows \in Rows /\ memory \in Rows /\ writes \in 0 .. MaxWrites /\ rejected \in Lists
  /\ calls \in Seq([type : {"fetch", "batch"}, n : Nat, rows : Rows, set : Lists])
  /\ unnotified \in Seq(Lists) /\ held \in Seq(Lists) /\ stack \in Seq(Frame)
  /\ database \in Seq(Sources) /\ collection \in Seq(Sources \X {"columns", "simple"})
  /\ shared \in [subscribers : Seq(Subscribers), source : Nat, didEmit : BOOLEAN,
                 last : Lists]
  /\ source \in Seq(Observer)
  /\ phase \in [Subscribers -> {"new", "joining", "joined", "left"}]
  /\ given \in [Subscribers ->
                [list : {NoList} \cup Lists, cols : [Records -> 0 .. 1]]]
  /\ missed \subseteq Subscribers /\ overtaken \in BOOLEAN

SourcesOf(u) ==
  {n \in Sources : source[n].live /\ source[n].owner = IF u \in Columns THEN u ELSE Nobody}

Quiet == stack = <<>> /\ calls = <<>> /\ unnotified = <<>> /\ held = <<>>

\* Simple observers compare changed records with memory, the others fetch.
ListIsShown(u) ==
  /\ given[u].list # NoList
  /\ \A id \in (IF simple THEN Records \ rejected ELSE Records) :
       id \in given[u].list <=> rows[id].in
ColumnsAreShown(u) ==
  \A id \in given[u].list \ rejected : given[u].cols[id] = rows[id].col

\* When nothing is under way, every subscriber was last called with the list
\* as it is, and with the columns as they are if it observes them. But for
\* those a loop passed over or called for a source that had ended, those whose
\* last fetch failed, the records whose last batch was rejected (their models
\* keep its raws, and nobody was notified: "TODO: What if this fails?"), and
\* the columns of those that saw a change before their observer was notified of
\* it: if it is undone meanwhile, nothing is emitted.
UpToDateAtRest ==
  Quiet => \A u \in Subscribers :
    \/ phase[u] # "joined" \/ u \in missed
    \/ \E n \in SourcesOf(u) : source[n].stale \/ source[n].lost
    \/ /\ ListIsShown(u)
       /\ u \in Columns => ColumnsAreShown(u) \/ \E n \in SourcesOf(u) : source[n].early

\* Who ended a subscription is not called again, not by an answer that was
\* under way and not by a loop; nor does a source emit to nobody (the
\* invariant of SharedSubscribable._notify).
NobodyIsCalledAfterLeaving ==
  /\ Running("tell") => phase[Top.u] \in {"joining", "joined"}
  /\ Running("emit") /\ source[Top.n].owner = Nobody /\ ~overtaken => shared.subscribers # <<>>

\* Once a subscription has ended nothing in the arrays keeps its observer.
NothingStaysSubscribed ==
  /\ \A i \in DOMAIN database : source[database[i]].live
  /\ \A i \in DOMAIN collection : source[collection[i][1]].live

\* However many observe a query, one source is subscribed to; and none when
\* nobody is left. But for a subscriber that was ended while another was being
\* called with the last value.
OneSource ==
  ~overtaken => \A u \in Subscribers \ Columns :
    SourcesOf(u) = IF shared.source = 0 THEN {} ELSE {shared.source}

\* With an adapter that answers later, an observer emits at most once for a
\* change that is committed or notified of: a column that changes while the
\* list is being fetched is emitted with the list.
Emits(n) ==
  /\ stack' # <<>> /\ Head(stack').n = n /\ Head(stack').at \in {"tell", "shared"}
  /\ Head(stack').i = 0 /\ (stack = <<>> \/ Head(stack').at # Top.at)
OneEmissionPerChange ==
  [][~synchronous => \A n \in Sources : Emits(n) => source[n].news]_vars
=============================================================================
