--------------------------- MODULE UpToDate_proofs ---------------------------
(***************************************************************************)
(* UpToDateAtRest of Subscriptions, for any number of records, subscribers *)
(* and batches and any nesting of the callbacks: whatever a subscriber has *)
(* still to learn is on its way to it. A change of the memory is to be     *)
(* notified of, or in the hands of a loop that still comes to the observer *)
(* (NoticeComes); an observer with no list, or an old one, has a fetch     *)
(* under way or to come (FetchComes); what an observer has put off it will *)
(* emit (EmissionComes); what it observes is what its subscriber was given *)
(* (Shown); and likewise for those that share a source (Sharing).          *)
(***************************************************************************)
EXTENDS Subscriptions_proofs, FiniteSetTheorems

-----------------------------------------------------------------------------
(* The inductive invariant.                                                *)

At(at)       == {f \in Range(stack) : f.at = at}
Batches      == {c \in Range(calls) : c.type = "batch"}
Doing(at, n) == Running(at) /\ Top.n = n

(* A record is as in memory when its last batch is committed, unless that  *)
(* was rejected.                                                           *)
Writes(k, id) == calls[k].type = "batch" /\ id \in calls[k].set
Newest(k, id) == Writes(k, id) /\ calls[k].rows[id] = memory[id]
Upcoming ==
  /\ synchronous => calls = <<>>
  /\ \A id \in Records :
       /\ rows[id] = memory[id] \/ id \in rejected \/ \E k \in DOMAIN calls : Newest(k, id)
       /\ \A k \in DOMAIN calls : Writes(k, id) =>
            Newest(k, id) \/ \E l \in DOMAIN calls : l > k /\ Newest(l, id)

(* Under a notification there are only others, and under the loops over    *)
(* observers only others over the collection. Who is subscribing is so     *)
(* once.                                                                   *)
MayBeOn(f, g) ==
  /\ f.at = "notify" => g.at = "notify"
  /\ f.at \in {"database", "collection"} => g.at \in {"notify", "collection"}
  /\ f.at = "subscribed" /\ g.at = "subscribed" => f.u # g.u
Ordered(s) == \A k, l \in DOMAIN s : k < l => MayBeOn(s[k], s[l])
Joining == \A f \in At("subscribed") : phase[f.u] = "joining"

(* The loop of a frame has still to come to an entry.                      *)
Reaches(f, items, e) ==
  \E p \in DOMAIN items : items[p] = e /\ p > f.i /\ (f.i = 0 \/ p <= f.len)
Comes(at, items, e) == \E f \in At(at) : Reaches(f, items, e)

(* A change of a record is to be notified of, or never will be since it was *)
(* rejected, or a loop over the observers has still to come to an entry    *)
(* with it.                                                                *)
Coming(id) ==
  \/ id \in rejected
  \/ \E set \in Range(unnotified) \cup Range(held) : id \in set
  \/ \E f \in At("notify") : id \in f.set
  \/ \E c \in Batches : id \in c.set
Awaited(e, id) ==
  Coming(id) \/ \E f \in At("collection") : id \in f.set /\ Reaches(f, collection, e)

Fetched(n) == (\E c \in Range(calls) : c.type = "fetch" /\ c.n = n) \/ Doing("answer", n)
Refetched(n) ==
  \/ unnotified # <<>> \/ held # <<>> \/ At("notify") # {}
  \/ Comes("database", database, n) \/ Fetched(n)

Late(n) == \E id \in source[n].observed : source[n].states[id] # memory[id].col
NoticeComes(n) == ~source[n].lost => \A id \in Records :
  /\ simple /\ source[n].list # NoList /\ ~(id \in source[n].list <=> memory[id].in) =>
       Awaited(<<n, "simple">>, id)
  /\ id \in source[n].observed /\ source[n].states[id] # memory[id].col =>
       Awaited(<<n, "columns">>, id)

Entry(items, e) == \E p \in DOMAIN items : items[p] = e
ToObserve(n)    == \E f \in At("observe") : f.n = n
InOrder(items, n) ==
  \A p, q \in DOMAIN items : items[p] = <<n, "columns">> /\ items[q] = <<n, "simple">> => p < q
HasEntries(n) ==
  /\ source[n].owner # Nobody => Entry(collection, <<n, "columns">>)
  /\ simple /\ source[n].list # NoList => Entry(collection, <<n, "simple">>) \/ ToObserve(n)
  /\ ~simple => Entry(database, n)
  /\ InOrder(collection, n)

FetchComes(n) == ~source[n].stale =>
  /\ simple /\ source[n].list = NoList => Fetched(n)
  /\ ~simple /\ source[n].list # Matching(rows) => Refetched(n)
  /\ ~simple /\ source[n].owner # Nobody /\ source[n].fetching => Fetched(n) \/ Doing("emit", n)

(* A simple observer emits after the with-columns one has looked: no loop  *)
(* has begun that comes to the one and not to the other.                   *)
Includes(f, items, e) == \E p \in DOMAIN items : items[p] = e /\ (f.i = 0 \/ p <= f.len)
EmissionComes(n) == source[n].owner # Nobody =>
  /\ ~simple /\ source[n].pending => source[n].fetching
  /\ simple /\ Late(n) => \A f \in At("collection") : Includes(f, collection, <<n, "simple">>)
  /\ simple /\ source[n].pending /\ ~source[n].lost =>
       Doing("emit", n) \/ Comes("collection", collection, <<n, "simple">>)

Showing(n) == LET s == source[n] IN
  /\ ~Doing("emit", n) /\ s.list # NoList => s.observed = s.list /\ ~s.first
  /\ s.first => s.observed = {}
  /\ ~s.first => s.list # NoList
  /\ \A id \in Records \ s.observed : s.states[id] = 0
Telling(n) == LET s == source[n] IN
  /\ Top.u = s.owner /\ Top.set = s.observed /\ ~s.first
  /\ ~s.early => \A id \in s.observed : s.states[id] = memory[id].col
Has(n) == LET s == source[n] IN
  /\ given[s.owner].list = s.observed
  /\ ~s.early /\ ~s.pending => given[s.owner].cols = s.states
Shown(n) ==
  /\ Doing("emit", n) => Top.set = source[n].list
  /\ source[n].owner = Nobody => source[n].observed = {}
  /\ source[n].owner # Nobody =>
       /\ Showing(n)
       /\ Doing("tell", n) => Telling(n)
       /\ ~source[n].first /\ ~Doing("tell", n) => Has(n)

Learns(n) == source[n].live =>
  NoticeComes(n) /\ HasEntries(n) /\ FetchComes(n) /\ EmissionComes(n) /\ Shown(n)

ToldOwn == Running("tell") /\ Top.u \in Columns => Top.n \in Sources /\ source[Top.n].owner = Top.u
Owned   == \A u \in Columns : phase[u] \in Here => \E n \in Sources : source[n].live /\ source[n].owner = u

(* Who shares a source: the list last emitted is that of the source, and   *)
(* who does not have it will be called.                                    *)
Common(n)     == source[n].live /\ source[n].owner = Nobody
HasList(list) == \E n \in Sources : Common(n) /\ source[n].list = list
NewSource     == HasList(NoList)
Plain(list)   == [list |-> list, cols |-> [id \in Records |-> 0]]
EmitsShared   == Running("emit") /\ source[Top.n].owner = Nobody
FirstSource   == Running("source") /\ ~shared.didEmit /\ Len(shared.subscribers) = 1

SharedLoops ==
  \A f \in At("shared") :
    /\ f.n \in Sources /\ source[f.n].owner = Nobody
    /\ source[f.n].live => f.set = source[f.n].list
    /\ ~Doing("answer", f.n)

LastEmitted ==
  /\ shared.didEmit => shared.subscribers # <<>> /\ (EmitsShared \/ HasList(shared.last))
  /\ Running("tell") /\ Top.u \notin Columns \cup missed => HasList(Top.set)
  /\ ~shared.didEmit /\ shared.subscribers # <<>> =>
       NewSource \/ EmitsShared \/ FirstSource
  /\ shared.source # 0 => source[shared.source].owner = Nobody

WillHave(u) ==
  \/ NewSource \/ EmitsShared \/ FirstSource \/ (Running("tell") /\ Top.u = u)
  \/ \E n \in Sources : Common(n) /\ given[u] = Plain(source[n].list)
  \/ \E f \in At("shared") : source[f.n].live /\ Reaches(f, shared.subscribers, u)

Sharing ==
  /\ SharedLoops /\ LastEmitted
  /\ \A u \in Subscribers \ Columns : phase[u] \in Here => u \in Range(shared.subscribers)
  /\ \A u \in Range(shared.subscribers) \ missed : WillHave(u)

(* An error that ends all that was running (EmitThrows) passes everybody   *)
(* over, and nothing more is claimed.                                      *)
Informed == (\A n \in Sources : Learns(n)) /\ ToldOwn /\ Owned /\ Sharing
IUp == (Upcoming /\ Ordered(stack) /\ Joining /\ Informed) \/ Subscribers \subseteq missed

-----------------------------------------------------------------------------
(* What sequences hold.                                                    *)

LEMMA RangeOf ==
  ASSUME NEW S, NEW s \in Seq(S)
  PROVE  /\ Range(s) \subseteq S /\ Range(<<>>) = {}
         /\ s # <<>> => Head(s) \in S /\ Tail(s) \in Seq(S) /\ Range(s) = {Head(s)} \cup Range(Tail(s))
         /\ \A e \in S : Range(Append(s, e)) = Range(s) \cup {e} /\ Range(<<e>> \o s) = {e} \cup Range(s)
         /\ \A i \in DOMAIN s : s[i] \in Range(s)
         /\ \A x \in Range(s) : \E i \in DOMAIN s : s[i] = x
<1>1. Range(s) \subseteq S /\ Range(<<>>) = {}
  BY DEF Range
<1>2. ASSUME s # <<>>
      PROVE  Head(s) \in S /\ Tail(s) \in Seq(S) /\ Range(s) = {Head(s)} \cup Range(Tail(s))
  <2> DEFINE t == Tail(s)
  <2>1. /\ Head(s) = s[1] /\ Head(s) \in S /\ t \in Seq(S) /\ DOMAIN t = 1 .. Len(s) - 1 /\ DOMAIN s = 1 .. Len(s)
        /\ Len(s) \in Nat /\ Len(s) >= 1 /\ \A i \in 1 .. Len(s) - 1 : t[i] = s[i + 1]
    BY <1>2, HeadTailProperties
  <2> HIDE DEF t
  <2>2. \A x \in Range(t) : x \in Range(s)
    <3>1. \A i \in DOMAIN t : i + 1 \in DOMAIN s /\ t[i] = s[i + 1]
      BY <2>1
    <3> QED  BY <3>1 DEF Range
  <2>3. \A i \in DOMAIN s : i # 1 => i - 1 \in DOMAIN t /\ t[i - 1] = s[i]
    BY <2>1
  <2>4. \A x \in Range(s) : x = Head(s) \/ x \in Range(t)
    BY <2>1, <2>3 DEF Range
  <2>5. Head(s) \in Range(s)
    BY <2>1 DEF Range
  <2> QED  BY <2>1, <2>2, <2>4, <2>5 DEF t
<1>3. ASSUME NEW e \in S
      PROVE  Range(Append(s, e)) = Range(s) \cup {e} /\ Range(<<e>> \o s) = {e} \cup Range(s)
  <2>1. <<e>> \in Seq(S) /\ Range(<<e>>) = {e}
    BY DEF Range
  <2>2. Append(s, e) = s \o <<e>>
    BY AppendIsConcat
  <2>3. \A a, b \in Seq(S) : Range(a \o b) = Range(a) \cup Range(b)
    BY RangeConcatenation
  <2>4. Range(s \o <<e>>) = Range(s) \cup {e} /\ Range(<<e>> \o s) = {e} \cup Range(s)
    BY <2>1, <2>3
  <2> QED  BY <2>2, <2>4
<1>4. (\A i \in DOMAIN s : s[i] \in Range(s)) /\ \A x \in Range(s) : \E i \in DOMAIN s : s[i] = x
  BY DEF Range
<1> QED  BY <1>1, <1>2, <1>3, <1>4

LEMMA RangeAppended ==
  ASSUME NEW S, NEW s \in Seq(S), NEW e \in S
  PROVE  Range(Append(s, e)) = Range(s) \cup {e}
<1>1. Append(s, e) = s \o <<e>> /\ Range(<<e>>) = {e}
  BY AppendIsConcat DEF Range
<1>2. Range(s \o <<e>>) = Range(s) \cup Range(<<e>>)
  BY RangeConcatenation
<1> QED  BY <1>1, <1>2

(* What a step does to the stack: frames go, and new ones come on top.     *)
Replaces(gone, new) ==
  \E rest \in SUBSET Frame : Range(stack) = gone \cup rest /\ Range(stack') = new \cup rest
IsTop(f) == stack # <<>> /\ Head(stack) = f

LEMMA Kinds ==
  ASSUME NEW gone, NEW new, Replaces(gone, new), NEW at
  PROVE  /\ (\A f \in gone : f.at # at) => At(at) \subseteq At(at)'
         /\ (\A f \in new : f.at # at) => At(at)' \subseteq At(at)
         /\ \A f \in At(at)' : f \in new \/ f \in At(at)
         /\ \A f \in At(at) : f \in gone \/ f \in At(at)'
         /\ \A f \in new : f.at = at => f \in At(at)'
  BY DEF Replaces, At

LEMMA TopGoes ==
  ASSUME TypeOK, Frames, stack # <<>>
  PROVE  /\ Top \in Frame /\ Top \in At(Top.at) /\ Range(stack) \subseteq Frame
         /\ stack' = Below => \A at \in {"answer", "emit", "tell"} : ~Running(at)'
<1>1. /\ stack \in Seq(Frame) /\ Top \in Frame /\ Top \in Range(stack) /\ Range(stack) \subseteq Frame
  BY RangeOf DEF TypeOK, Top
<1>2. Below # <<>> => Head(Below) \in Lower(Len(source))
  BY TopFrame, HeadTailProperties
<1> QED  BY <1>1, <1>2 DEF At, Running, Lower

-----------------------------------------------------------------------------
(* What an observer is to learn stays on its way to it.                    *)

KeepsAwaited(m) ==
  /\ UNCHANGED <<simple, memory>>
  /\ source[m].lost => source'[m].lost
  /\ ~source'[m].lost => \A kind \in {"simple", "columns"}, id \in Records :
       Awaited(<<m, kind>>, id) => Awaited(<<m, kind>>, id)'

KeepsEntries(m) ==
  /\ UNCHANGED simple
  /\ \A kind \in {"simple", "columns"} :
       Entry(collection, <<m, kind>>) => Entry(collection', <<m, kind>>)
  /\ Entry(database, m) => Entry(database', m)
  /\ ToObserve(m) => ToObserve(m)' \/ Entry(collection', <<m, "simple">>)
  /\ InOrder(collection, m) => InOrder(collection', m)

KeepsFetches(m) ==
  /\ UNCHANGED simple
  /\ source[m].stale => source'[m].stale
  /\ ~source'[m].stale =>
       /\ Fetched(m) => Fetched(m)'
       /\ Refetched(m)' \/ (rows' = rows /\ ~Refetched(m))

KeepsPending(m) ==
  /\ UNCHANGED <<simple, memory>>
  /\ source[m].lost => source'[m].lost
  /\ (\A f \in At("collection") : Includes(f, collection, <<m, "simple">>))
       => \A f \in At("collection")' : Includes(f, collection', <<m, "simple">>)
  /\ ~source'[m].lost /\ Comes("collection", collection, <<m, "simple">>)
       => Comes("collection", collection, <<m, "simple">>)'

LEMMA NoticeStill ==
  ASSUME NEW m, NoticeComes(m), KeepsAwaited(m), source'[m].list = source[m].list,
         source'[m].observed = source[m].observed, source'[m].states = source[m].states
  PROVE  NoticeComes(m)'
  BY DEF NoticeComes, KeepsAwaited

LEMMA EntriesStill ==
  ASSUME NEW m, HasEntries(m), KeepsEntries(m), source'[m].owner = source[m].owner,
         source'[m].list = NoList <=> source[m].list = NoList
  PROVE  HasEntries(m)'
<1>1. Entry(collection, <<m, "simple">>) => Entry(collection', <<m, "simple">>)
  BY DEF KeepsEntries
<1>2. Entry(collection, <<m, "columns">>) => Entry(collection', <<m, "columns">>)
  BY DEF KeepsEntries
<1> QED  BY <1>1, <1>2 DEF HasEntries, KeepsEntries

LEMMA FetchStill ==
  ASSUME NEW m, FetchComes(m), KeepsFetches(m), source'[m].owner = source[m].owner,
         source'[m].list = source[m].list, source'[m].fetching = source[m].fetching, ~Doing("emit", m)
  PROVE  FetchComes(m)'
  BY DEF FetchComes, KeepsFetches, Matching

LEMMA PendingStill ==
  ASSUME NEW m, EmissionComes(m), KeepsPending(m), source'[m].owner = source[m].owner,
         source'[m].pending = source[m].pending, source'[m].fetching = source[m].fetching,
         source'[m].observed = source[m].observed, source'[m].states = source[m].states, ~Doing("emit", m)
  PROVE  EmissionComes(m)'
<1>1. Late(m)' => Late(m)
  BY DEF Late, KeepsPending
<1> QED  BY <1>1 DEF EmissionComes, KeepsPending

Calls(m) == Doing("emit", m) \/ Doing("tell", m)
LEMMA ShownStill ==
  ASSUME NEW m, Shown(m), source'[m].owner = source[m].owner, source'[m].list = source[m].list,
         source'[m].first = source[m].first, source'[m].pending = source[m].pending,
         source'[m].observed = source[m].observed, source'[m].states = source[m].states,
         source'[m].early = source[m].early,
         given'[source[m].owner] = given[source[m].owner] \/ source[m].owner = Nobody,
         ~Calls(m), ~Calls(m)'
  PROVE  Shown(m)'
<1>1. ~Doing("emit", m) /\ ~Doing("tell", m) /\ ~Doing("emit", m)' /\ ~Doing("tell", m)'
  BY DEF Calls
<1>2. Showing(m) => Showing(m)'
  BY <1>1 DEF Showing
<1>3. source[m].owner # Nobody /\ Has(m) => Has(m)'
  BY DEF Has
<1> QED  BY <1>1, <1>2, <1>3 DEF Shown

Still(m) ==
  /\ source'[m].owner = source[m].owner /\ source'[m].live = source[m].live
  /\ source'[m].list = source[m].list /\ source'[m].fetching = source[m].fetching
  /\ source'[m].pending = source[m].pending /\ source'[m].first = source[m].first
  /\ source'[m].observed = source[m].observed /\ source'[m].states = source[m].states
  /\ source'[m].early = source[m].early
  /\ given'[source[m].owner] = given[source[m].owner] \/ source[m].owner = Nobody
Keeps(m) == KeepsAwaited(m) /\ KeepsEntries(m) /\ KeepsFetches(m) /\ KeepsPending(m)

LEMMA LearnsStill ==
  ASSUME NEW m, Learns(m), Still(m), source[m].live => Keeps(m), ~Calls(m), ~Calls(m)'
  PROVE  Learns(m)'
<1> SUFFICES ASSUME source'[m].live
             PROVE  (NoticeComes(m) /\ HasEntries(m) /\ FetchComes(m) /\ EmissionComes(m) /\ Shown(m))'
  BY DEF Learns
<1>1. Keeps(m) /\ NoticeComes(m) /\ HasEntries(m) /\ FetchComes(m) /\ EmissionComes(m) /\ Shown(m)
  BY DEF Learns, Still
<1>2. ~Doing("emit", m)
  BY DEF Calls
<1> QED  BY <1>1, <1>2, NoticeStill, EntriesStill, FetchStill, PendingStill, ShownStill DEF Keeps, Still

(* Most steps only add to what is under way. A loop that goes on has still *)
(* to come to what it had to come to, but for the entries D or E.          *)
Longer(s, t) == \A p \in DOMAIN s : p \in DOMAIN t /\ t[p] = s[p]
GoesOn(at, items, new, E) ==
  /\ \A f \in At(at) : \A e : e \notin E /\ Reaches(f, items, e) =>
       \E g \in At(at)' : g.set = f.set /\ Reaches(g, new, e)
  /\ \A g \in At(at)' : \E f \in At(at) : \A e : Includes(f, items, e) => Includes(g, new, e)
Carries(D, E) ==
  /\ UNCHANGED <<simple, rows, memory, rejected, unnotified, held>>
  /\ Range(calls) \subseteq Range(calls') /\ At("notify")' = At("notify")
  /\ GoesOn("database", database, database', D) /\ GoesOn("collection", collection, collection', E)
  /\ Longer(database, database') /\ Longer(collection, collection')

LEMMA LoopStays ==
  ASSUME NEW at, NEW items, NEW new, Longer(items, new), At(at)' = At(at)
  PROVE  GoesOn(at, items, new, {})
<1>1. \A f, e : Reaches(f, items, e) => Reaches(f, new, e)
  BY DEF Reaches, Longer
<1>2. \A f, e : Includes(f, items, e) => Includes(f, new, e)
  BY DEF Includes, Longer
<1> QED  BY <1>1, <1>2 DEF GoesOn

LEMMA Carried ==
  ASSUME NEW D, NEW E, Carries(D, E), NEW e
  PROVE  /\ e \notin E => /\ \A id \in Records : Awaited(e, id) => Awaited(e, id)'
                          /\ Comes("collection", collection, e) => Comes("collection", collection, e)'
         /\ e \notin D => (Comes("database", database, e) => Comes("database", database, e)')
<1>1. /\ At("notify")' = At("notify") /\ UNCHANGED <<simple, rows, memory, rejected, unnotified, held>>
      /\ GoesOn("database", database, database', D) /\ GoesOn("collection", collection, collection', E)
      /\ Batches \subseteq Batches'
  BY DEF Carries, Batches
<1>2. ASSUME NEW id \in Records
      PROVE  Coming(id) => Coming(id)'
  BY <1>1 DEF Coming
<1>3. e \notin E => \A f \in At("collection") : Reaches(f, collection, e) =>
        \E g \in At("collection")' : g.set = f.set /\ Reaches(g, collection', e)
  BY <1>1 DEF GoesOn
<1>4. e \notin D => \A f \in At("database") : Reaches(f, database, e) =>
        \E g \in At("database")' : Reaches(g, database', e)
  BY <1>1 DEF GoesOn
<1>5. ASSUME NEW id \in Records
      PROVE  e \notin E => (Awaited(e, id) => Awaited(e, id)')
  BY <1>2, <1>3 DEF Awaited
<1>6. e \notin E => (Comes("collection", collection, e) => Comes("collection", collection, e)')
  BY <1>3 DEF Comes
<1>7. e \notin D => (Comes("database", database, e) => Comes("database", database, e)')
  BY <1>4 DEF Comes
<1> QED  BY <1>5, <1>6, <1>7

(* No entry of an observer is new.                                         *)
OldEntries(m) ==
  \A p \in DOMAIN collection' : collection'[p][1] = m => p \in DOMAIN collection /\ collection[p] = collection'[p]

LEMMA CarriedKeeps ==
  ASSUME NEW D, NEW E, Carries(D, E), NEW m
  PROVE  /\ source'[m].lost = source[m].lost /\ <<m, "simple">> \notin E /\ <<m, "columns">> \notin E =>
              KeepsAwaited(m)
         /\ source'[m].lost = source[m].lost /\ <<m, "simple">> \notin E => KeepsPending(m)
         /\ OldEntries(m) /\ (ToObserve(m) => ToObserve(m)') => KeepsEntries(m)
         /\ source'[m].stale = source[m].stale /\ m \notin D /\ (Doing("answer", m) => Doing("answer", m)')
              => KeepsFetches(m)
<1>1. UNCHANGED <<simple, rows, memory, rejected, unnotified, held>>
  BY DEF Carries
<1>2. ASSUME source'[m].lost = source[m].lost, <<m, "simple">> \notin E, <<m, "columns">> \notin E
      PROVE  KeepsAwaited(m)
  <2>1. ASSUME NEW kind \in {"simple", "columns"}
        PROVE  \A id \in Records : Awaited(<<m, kind>>, id) => Awaited(<<m, kind>>, id)'
    <3>1. PICK e : e = <<m, kind>>
      OBVIOUS
    <3>2. e \notin E
      BY <1>2, <3>1
    <3>3. \A id \in Records : Awaited(e, id) => Awaited(e, id)'
      BY <3>2, Carried
    <3> QED  BY <3>1, <3>3
  <2> QED  BY <1>1, <1>2, <2>1 DEF KeepsAwaited
<1>3. ASSUME source'[m].lost = source[m].lost, <<m, "simple">> \notin E
      PROVE  KeepsPending(m)
  <2>1. PICK e : e = <<m, "simple">>
    OBVIOUS
  <2>2. \A g \in At("collection")' : \E f \in At("collection") :
          Includes(f, collection, e) => Includes(g, collection', e)
    BY DEF GoesOn, Carries
  <2>3. Comes("collection", collection, e) => Comes("collection", collection, e)'
    BY <1>3, <2>1, Carried
  <2> QED  BY <1>1, <1>3, <2>1, <2>2, <2>3 DEF KeepsPending
<1>4. ASSUME OldEntries(m), ToObserve(m) => ToObserve(m)'
      PROVE  KeepsEntries(m)
  <2>1. InOrder(collection, m) => InOrder(collection', m)
    <3> SUFFICES ASSUME InOrder(collection, m), NEW p \in DOMAIN collection', NEW q \in DOMAIN collection',
                        collection'[p] = <<m, "columns">>, collection'[q] = <<m, "simple">>
                 PROVE  p < q
      BY DEF InOrder
    <3>1. collection'[p][1] = m /\ collection'[q][1] = m
      OBVIOUS
    <3>2. /\ p \in DOMAIN collection /\ collection[p] = <<m, "columns">>
          /\ q \in DOMAIN collection /\ collection[q] = <<m, "simple">>
      BY <1>4, <3>1 DEF OldEntries
    <3> QED  BY <3>2 DEF InOrder
  <2>2. /\ \A e : Entry(collection, e) => Entry(collection', e)
        /\ \A e : Entry(database, e) => Entry(database', e)
    BY DEF Carries, Entry, Longer
  <2> QED  BY <1>1, <1>4, <2>1, <2>2 DEF KeepsEntries
<1>5. ASSUME source'[m].stale = source[m].stale, m \notin D, Doing("answer", m) => Doing("answer", m)'
      PROVE  KeepsFetches(m)
  <2>1. Fetched(m) => Fetched(m)'
    BY <1>5 DEF Fetched, Carries
  <2>2. At("notify")' = At("notify") /\ (Comes("database", database, m) => Comes("database", database, m)')
    BY <1>5, Carried DEF Carries
  <2>3. Refetched(m) => Refetched(m)'
    BY <1>1, <2>1, <2>2 DEF Refetched
  <2> QED  BY <1>1, <1>5, <2>1, <2>3 DEF KeepsFetches
<1> QED  BY <1>2, <1>3, <1>4, <1>5

(* An observer that a step is not about.                                   *)
Uninvolved(m) ==
  /\ Still(m) /\ source'[m].stale = source[m].stale /\ source'[m].lost = source[m].lost
  /\ ~Calls(m) /\ ~Calls(m)' /\ ~Doing("answer", m) /\ (ToObserve(m) => ToObserve(m)')
LEMMA OtherLearns ==
  ASSUME NEW D, NEW E, Carries(D, E), NEW m, Learns(m), Uninvolved(m), OldEntries(m),
         \A kind \in {"simple", "columns"} : <<m, kind>> \notin E, m \notin D
  PROVE  Learns(m)'
<1>1. KeepsAwaited(m) /\ KeepsPending(m) /\ KeepsEntries(m) /\ KeepsFetches(m)
  BY CarriedKeeps DEF Uninvolved
<1> QED  BY <1>1, LearnsStill DEF Keeps, Uninvolved

(* Those that share: what a step has to leave alone.                       *)
SharersStay ==
  /\ UNCHANGED shared /\ missed \subseteq missed'
  /\ \A u \in Subscribers \ Columns :
       given'[u] = given[u] /\ (phase'[u] \in Here => phase[u] \in Here)
  /\ Sources \subseteq Sources' /\ \A m \in Sources : source'[m].owner = source[m].owner
CommonStay ==
  \A m \in Sources : Common(m) => Common(m)' /\ source'[m].list = source[m].list
LoopsStay ==
  /\ \A f \in At("shared")' :
       /\ f \in At("shared") /\ ~Doing("answer", f.n)'
       /\ source'[f.n].live => source[f.n].live /\ source'[f.n].list = source[f.n].list
  /\ \A f \in At("shared") :
       f \in At("shared")' \/ \A e : ~Reaches(f, shared.subscribers, e)
Elsewhere ==
  /\ ~EmitsShared /\ ~FirstSource
  /\ Running("tell") => Top.u \in Columns
  /\ (Running("tell") => Top.u \in Columns)'

LEMMA Shares ==
  ASSUME IInv
  PROVE  /\ Range(shared.subscribers) \subseteq Subscribers \ Columns
         /\ \A u \in Range(shared.subscribers) : phase[u] \in Here
         /\ shared.source # 0 => shared.source \in Sources
<1>1. shared.subscribers \in Seq(Subscribers) /\ Sharers /\ Sources = 1 .. Len(source) /\ Len(source) \in Nat
  BY TopFrame DEF IInv, TypeOK
<1>2. \A u \in Range(shared.subscribers) : u \in Subscribers /\ u \notin Columns /\ phase[u] \in Here
  BY <1>1, RangeOf DEF Sharers
<1> QED  BY <1>1, <1>2 DEF Sharers

LEMMA SharingStill ==
  ASSUME IInv, Sharing, SharersStay, LoopsStay, Elsewhere, EmitsShared' \/ CommonStay
  PROVE  Sharing'
<1>1. SharedLoops'
  <2> SUFFICES ASSUME NEW f \in At("shared")'
               PROVE  /\ f.n \in Sources' /\ source'[f.n].owner = Nobody
                      /\ source'[f.n].live => f.set = source'[f.n].list
                      /\ ~Doing("answer", f.n)'
    BY DEF SharedLoops
  <2> QED  BY DEF Sharing, SharedLoops, LoopsStay, SharersStay
<1>2. \A list : HasList(list) => HasList(list)' \/ EmitsShared'
  BY DEF HasList, CommonStay, SharersStay
<1>3. NewSource => NewSource' \/ EmitsShared'
  BY <1>2 DEF NewSource
<1>4. LastEmitted'
  <2>1. shared.source # 0 => source'[shared.source].owner = Nobody
    BY Shares DEF Sharing, LastEmitted, SharersStay
  <2>2. shared'.didEmit => shared'.subscribers # <<>> /\ (EmitsShared \/ HasList(shared.last))'
    BY <1>2 DEF Sharing, LastEmitted, SharersStay, Elsewhere
  <2>3. ~shared'.didEmit /\ shared'.subscribers # <<>> => NewSource' \/ EmitsShared'
    BY <1>3 DEF Sharing, LastEmitted, SharersStay, Elsewhere
  <2> QED  BY <2>1, <2>2, <2>3 DEF LastEmitted, SharersStay, Elsewhere
<1>5. ASSUME NEW u \in Range(shared.subscribers) \ missed, ~EmitsShared'
      PROVE  WillHave(u)'
  <2>1. WillHave(u) /\ CommonStay /\ u \in Subscribers \ Columns
    BY <1>5, Shares DEF Sharing
  <2>2. CASE \E n \in Sources : Common(n) /\ given[u] = Plain(source[n].list)
    <3>1. PICK n \in Sources : Common(n) /\ given[u] = Plain(source[n].list)
      BY <2>2
    <3>2. n \in Sources' /\ Common(n)' /\ given'[u] = Plain(source'[n].list)
      BY <2>1, <3>1 DEF CommonStay, SharersStay
    <3>3. Plain(source'[n].list) = Plain(source[n].list)'
      BY DEF Plain
    <3> QED  BY <3>2, <3>3 DEF WillHave
  <2>3. CASE \E f \in At("shared") : source[f.n].live /\ Reaches(f, shared.subscribers, u)
    <3>1. PICK f \in At("shared") : source[f.n].live /\ Reaches(f, shared.subscribers, u)
      BY <2>3
    <3>2. f \in At("shared")'
      BY <3>1 DEF LoopsStay
    <3>3. Common(f.n) /\ f.n \in Sources
      BY <3>1 DEF Sharing, SharedLoops, Common
    <3>4. source'[f.n].live
      BY <2>1, <3>3 DEF CommonStay, Common
    <3> QED  BY <3>1, <3>2, <3>4 DEF WillHave, SharersStay
  <2>4. CASE NewSource
    BY <1>3, <1>5, <2>4 DEF WillHave
  <2> QED  BY <2>1, <2>2, <2>3, <2>4 DEF WillHave, Elsewhere
<1>6. \A u \in Range(shared'.subscribers) \ missed' : WillHave(u)'
  <2>1. EmitsShared' => \A u : WillHave(u)'
    BY DEF WillHave
  <2> QED  BY <1>5, <2>1 DEF SharersStay
<1>7. \A u \in Subscribers \ Columns : phase'[u] \in Here => u \in Range(shared'.subscribers)
  BY DEF Sharing, SharersStay
<1> QED  BY <1>1, <1>4, <1>6, <1>7 DEF Sharing

-----------------------------------------------------------------------------
(* The order of the stack.                                                 *)

Loose(f)   == f.at \notin {"notify", "database", "collection", "subscribed"}
Over(f, s) == \A g \in Range(s) : MayBeOn(f, g)

LEMMA OrderedPushed ==
  ASSUME NEW s \in Seq(Frame), Ordered(s), NEW f \in Frame, Over(f, s)
  PROVE  Ordered(<<f>> \o s)
<1> DEFINE r == <<f>> \o s
<1>1. /\ DOMAIN r = 1 .. Len(s) + 1 /\ r[1] = f /\ DOMAIN s = 1 .. Len(s) /\ Len(s) \in Nat
      /\ \A k \in 1 .. Len(s) : r[k + 1] = s[k]
  BY Places
<1> HIDE DEF r
<1>2. ASSUME NEW k \in DOMAIN r, NEW l \in DOMAIN r, k < l
      PROVE  MayBeOn(r[k], r[l])
  <2>1. l - 1 \in DOMAIN s /\ r[l] = s[l - 1]
    BY <1>1, <1>2
  <2>2. CASE k = 1
    <3>1. s[l - 1] \in Range(s)
      BY <2>1, RangeOf
    <3> QED  BY <1>1, <2>1, <2>2, <3>1 DEF Over
  <2>3. CASE k # 1
    <3>1. k - 1 \in DOMAIN s /\ r[k] = s[k - 1] /\ k - 1 < l - 1
      BY <1>1, <1>2, <2>3
    <3> QED  BY <2>1, <3>1 DEF Ordered
  <2> QED  BY <2>2, <2>3
<1> QED  BY <1>2 DEF Ordered, r

LEMMA OrderedBelow ==
  ASSUME NEW s \in Seq(Frame), s # <<>>, Ordered(s)
  PROVE  Ordered(Tail(s)) /\ Over(Head(s), Tail(s))
<1> DEFINE t == Tail(s)
<1>1. /\ t \in Seq(Frame) /\ Head(s) = s[1] /\ DOMAIN t = 1 .. Len(s) - 1 /\ DOMAIN s = 1 .. Len(s)
      /\ Len(s) \in Nat /\ Len(s) >= 1 /\ \A k \in 1 .. Len(s) - 1 : t[k] = s[k + 1]
  BY HeadTailProperties
<1> HIDE DEF t
<1>2. \A k \in DOMAIN t : k + 1 \in DOMAIN s /\ t[k] = s[k + 1] /\ 1 < k + 1
  BY <1>1
<1>3. 1 \in DOMAIN s
  BY <1>1
<1>4. \A k \in DOMAIN t : MayBeOn(s[1], t[k])
  BY <1>2, <1>3 DEF Ordered
<1>5. Ordered(t)
  <2>1. \A k, l \in DOMAIN t : k < l => k + 1 < l + 1
    BY <1>1
  <2> QED  BY <1>2, <2>1 DEF Ordered
<1>6. \A g \in Range(t) : \E k \in DOMAIN t : t[k] = g
  BY DEF Range
<1>7. \A g \in Range(t) : MayBeOn(Head(s), g)
  BY <1>1, <1>4, <1>6
<1> QED  BY <1>5, <1>7 DEF t, Over

(* New frames are put on all that was running, or on what is under its top *)
(* frame.                                                                  *)
Rests(b, gone) == (b = stack /\ gone = {}) \/ (stack # <<>> /\ b = Below /\ gone = {Top})

LEMMA PutOn ==
  ASSUME TypeOK, Frames, Ordered(stack), NEW b, NEW gone, Rests(b, gone)
  PROVE  /\ b \in Seq(Frame) /\ Ordered(b)
         /\ \A f : Loose(f) => Over(f, b)
         /\ \A f : f.at \in {g.at : g \in gone} /\ f.at # "subscribed" => Over(f, b)
         /\ stack' = b => Replaces(gone, {}) /\ Ordered(stack')
         /\ \A f \in Frame :
              stack' = <<f>> \o b /\ Over(f, b) =>
                Replaces(gone, {f}) /\ IsTop(f)' /\ Ordered(stack')
         /\ \A f, g \in Frame :
              stack' = <<f>> \o (<<g>> \o b) /\ Loose(f) /\ Over(g, b) =>
                Replaces(gone, {f, g}) /\ IsTop(f)' /\ Ordered(stack')
         /\ \A f, g, h \in Frame :
              stack' = <<f>> \o (<<g>> \o (<<h>> \o b)) /\ Loose(f) /\ Loose(g) /\ Over(h, b) =>
                Replaces(gone, {f, g, h}) /\ IsTop(f)' /\ Ordered(stack')
<1>l. \A f, s : Loose(f) => Over(f, s)
  BY DEF Loose, Over, MayBeOn
<1>1. /\ stack \in Seq(Frame) /\ b \in Seq(Frame) /\ Ordered(b) /\ Range(b) \subseteq Frame
      /\ Range(stack) = gone \cup Range(b)
      /\ \A f : f.at \in {g.at : g \in gone} /\ f.at # "subscribed" => Over(f, b)
  <2>1. stack \in Seq(Frame)
    BY DEF TypeOK
  <2>2. CASE b = stack /\ gone = {}
    BY <2>1, <2>2, RangeOf
  <2>3. CASE stack # <<>> /\ b = Below /\ gone = {Top}
    <3>1. b \in Seq(Frame) /\ Range(b) \subseteq Frame /\ Range(stack) = gone \cup Range(b)
      BY <2>1, <2>3, RangeOf DEF Top, Below
    <3>2. Ordered(b) /\ Over(Top, b)
      BY <2>1, <2>3, OrderedBelow DEF Top, Below
    <3>3. \A f : f.at = Top.at /\ f.at # "subscribed" => Over(f, b)
      BY <3>2 DEF Over, MayBeOn
    <3> QED  BY <2>1, <2>3, <3>1, <3>2, <3>3
  <2> QED  BY <2>2, <2>3 DEF Rests
<1>2. ASSUME NEW s \in Seq(Frame), NEW f \in Frame
      PROVE  /\ <<f>> \o s \in Seq(Frame) /\ Range(<<f>> \o s) = {f} \cup Range(s)
             /\ <<f>> \o s # <<>> /\ Head(<<f>> \o s) = f
             /\ Ordered(s) /\ Over(f, s) => Ordered(<<f>> \o s)
  <2>1. <<f>> \o s \in Seq(Frame) /\ <<f>> \o s # <<>> /\ Head(<<f>> \o s) = f
    BY Pushed
  <2>2. Range(<<f>> \o s) = {f} \cup Range(s)
    BY RangeOf
  <2> QED  BY <2>1, <2>2, OrderedPushed
<1>3. stack' = b => Replaces(gone, {}) /\ Ordered(stack')
  BY <1>1 DEF Replaces
<1>5. ASSUME NEW f \in Frame, stack' = <<f>> \o b, Over(f, b)
      PROVE  Replaces(gone, {f}) /\ IsTop(f)' /\ Ordered(stack')
  BY <1>1, <1>2, <1>5 DEF Replaces, IsTop
<1>6. ASSUME NEW f \in Frame, NEW g \in Frame, stack' = <<f>> \o (<<g>> \o b), Loose(f), Over(g, b)
      PROVE  Replaces(gone, {f, g}) /\ IsTop(f)' /\ Ordered(stack')
  <2> DEFINE c == <<g>> \o b
  <2>1. c \in Seq(Frame) /\ Ordered(c) /\ Range(c) = {g} \cup Range(b) /\ stack' = <<f>> \o c
    BY <1>1, <1>2, <1>6
  <2> HIDE DEF c
  <2>2. Range(stack') = {f} \cup Range(c) /\ stack' # <<>> /\ Head(stack') = f /\ Ordered(stack')
    BY <1>2, <1>l, <1>6, <2>1
  <2>3. Range(stack') = {f, g} \cup Range(b)
    BY <2>1, <2>2
  <2> QED  BY <1>1, <2>2, <2>3 DEF Replaces, IsTop
<1>7. ASSUME NEW f \in Frame, NEW g \in Frame, NEW h \in Frame, stack' = <<f>> \o (<<g>> \o (<<h>> \o b)),
             Loose(f), Loose(g), Over(h, b)
      PROVE  Replaces(gone, {f, g, h}) /\ IsTop(f)' /\ Ordered(stack')
  <2> DEFINE c == <<h>> \o b
             d == <<g>> \o c
  <2>1. c \in Seq(Frame) /\ Ordered(c) /\ Range(c) = {h} \cup Range(b)
    BY <1>1, <1>2, <1>7
  <2>2. stack' = <<f>> \o d
    BY <1>7
  <2> HIDE DEF c
  <2>3. d \in Seq(Frame) /\ Ordered(d) /\ Range(d) = {g} \cup Range(c)
    BY <1>2, <1>l, <1>7, <2>1
  <2> HIDE DEF d
  <2>4. Range(stack') = {f} \cup Range(d) /\ stack' # <<>> /\ Head(stack') = f /\ Ordered(stack')
    BY <1>2, <1>l, <1>7, <2>2, <2>3
  <2>5. Range(stack') = {f, g, h} \cup Range(b)
    BY <2>1, <2>3, <2>4
  <2> QED  BY <1>1, <2>4, <2>5 DEF Replaces, IsTop
<1> QED  BY <1>1, <1>l, <1>3, <1>5, <1>6, <1>7

-----------------------------------------------------------------------------
(* Loops.                                                                  *)

LEMMA LoopItems ==
  ASSUME TypeOK, Frames, stack # <<>>, Top.at \in {"database", "collection", "shared"}
  PROVE  /\ Len(Items(Top.at)) \in Nat /\ DOMAIN Items(Top.at) = 1 .. Len(Items(Top.at))
         /\ Top.i \in Nat /\ Top.len \in Nat
         /\ Top.at = "database" => Items(Top.at) = database
         /\ Top.at = "collection" => Items(Top.at) = collection
         /\ Top.at = "shared" => Items(Top.at) = shared.subscribers
<1>1. /\ Len(database) \in Nat /\ DOMAIN database = 1 .. Len(database)
      /\ Len(collection) \in Nat /\ DOMAIN collection = 1 .. Len(collection)
      /\ Len(shared.subscribers) \in Nat /\ DOMAIN shared.subscribers = 1 .. Len(shared.subscribers)
  BY DEF TypeOK
<1>2. Top \in Frame
  BY TopFrame
<1> QED  BY <1>1, <1>2 DEF Items, Frame

LEMMA LoopOver ==
  ASSUME TypeOK, Frames, stack # <<>>, Top.at \in {"database", "collection", "shared"}, ~HasNext(Top)
  PROVE  \A e : ~Reaches(Top, Items(Top.at), e)
  BY LoopItems DEF HasNext, Length, Reaches

LEMMA LoopMoves ==
  ASSUME TypeOK, Frames, stack # <<>>, Top.at \in {"database", "collection", "shared"}, HasNext(Top)
  PROVE  /\ Moved(Top) \in Frame /\ Moved(Top).at = Top.at /\ Moved(Top).n = Top.n /\ Moved(Top).set = Top.set
         /\ \A e : Reaches(Top, Items(Top.at), e) /\ e # NextOf(Top) => Reaches(Moved(Top), Items(Top.at), e)
         /\ \A e : Includes(Top, Items(Top.at), e) => Includes(Moved(Top), Items(Top.at), e)
         /\ \A e : Includes(Top, Items(Top.at), e) /\ (\A p \in DOMAIN Items(Top.at) :
                     Items(Top.at)[p] = e => p > Top.i + 1) => Reaches(Moved(Top), Items(Top.at), e)
<1> DEFINE items == Items(Top.at)
<1>1. Moved(Top) \in Frame /\ Top \in Frame
  BY LoopFrames, TopFrame, Fits
<1>2. /\ Moved(Top).at = Top.at /\ Moved(Top).n = Top.n /\ Moved(Top).set = Top.set
      /\ Moved(Top).i = Top.i + 1 /\ Moved(Top).len = Length(Top)
  BY <1>1 DEF Moved, Frame
<1>3. /\ Len(items) \in Nat /\ DOMAIN items = 1 .. Len(items) /\ Top.i \in Nat /\ Top.len \in Nat
      /\ NextOf(Top) = items[Top.i + 1] /\ Length(Top) = IF Top.i = 0 THEN Len(items) ELSE Top.len
  BY LoopItems DEF NextOf, Length
<1> HIDE DEF items
<1>4. ASSUME NEW e, Reaches(Top, items, e), e # NextOf(Top)
      PROVE  Reaches(Moved(Top), items, e)
  BY <1>2, <1>3, <1>4 DEF Reaches
<1>5. ASSUME NEW e, Includes(Top, items, e)
      PROVE  Includes(Moved(Top), items, e)
  BY <1>2, <1>3, <1>5 DEF Includes
<1>6. ASSUME NEW e, Includes(Top, items, e), \A p \in DOMAIN items : items[p] = e => p > Top.i + 1
      PROVE  Reaches(Moved(Top), items, e)
  BY <1>2, <1>3, <1>6 DEF Includes, Reaches
<1> QED  BY <1>1, <1>2, <1>4, <1>5, <1>6 DEF items

(* A loop that goes on or ends.                                            *)
LEMMA LoopEnded ==
  ASSUME NEW at, NEW items, NEW f, \A e : ~Reaches(f, items, e),
         At(at)' \subseteq At(at), \A g \in At(at) : g = f \/ g \in At(at)'
  PROVE  GoesOn(at, items, items, {})
  BY DEF GoesOn

LEMMA LoopMoved ==
  ASSUME NEW at, NEW items, NEW f \in At(at), NEW g \in At(at)', NEW E, g.set = f.set,
         \A e : Reaches(f, items, e) /\ e \notin E => Reaches(g, items, e),
         \A e : Includes(f, items, e) => Includes(g, items, e),
         \A h \in At(at)' : h = g \/ h \in At(at), \A h \in At(at) : h = f \/ h \in At(at)'
  PROVE  GoesOn(at, items, items, E)
  BY DEF GoesOn

(* What only takes the top frame off.                                      *)
LEMMA Popped ==
  ASSUME TypeOK, Frames, Ordered(stack), stack # <<>>, stack' = Below
  PROVE  /\ Ordered(stack') /\ Over(Top, stack')
         /\ \A at \in {"answer", "emit", "tell"} : ~Running(at)'
         /\ \A n : ~Calls(n)' /\ ~EmitsShared' /\ ~Doing("answer", n)'
         /\ \A at : At(at)' \subseteq At(at) /\ \A f \in At(at) : f = Top \/ f \in At(at)'
         /\ \A at : at # Top.at => At(at)' = At(at)
<1>1. Replaces({Top}, {}) /\ Ordered(stack') /\ Over(Top, stack')
  <2>1. Over(Top, stack')
    BY OrderedBelow DEF Top, Below, TypeOK
  <2> QED  BY <2>1, PutOn DEF Rests
<1>2. \A at \in {"answer", "emit", "tell"} : ~Running(at)'
  BY TopGoes
<1>3. ASSUME NEW at
      PROVE  /\ At(at)' \subseteq At(at) /\ \A f \in At(at) : f = Top \/ f \in At(at)'
             /\ at # Top.at => At(at)' = At(at)
  <2>1. /\ (\A f \in {Top} : f.at # at) => At(at) \subseteq At(at)'
        /\ At(at)' \subseteq At(at) /\ \A f \in At(at) : f \in {Top} \/ f \in At(at)'
    BY <1>1, Kinds
  <2> QED  BY <2>1
<1>4. \A n : ~Calls(n)' /\ ~EmitsShared' /\ ~Doing("answer", n)'
  BY <1>2 DEF Calls, EmitsShared, Doing
<1> QED  BY <1>1, <1>2, <1>3, <1>4

-----------------------------------------------------------------------------
(* The steps that only return.                                             *)

LEMMA OwnersStay ==
  ASSUME Owned, Sources \subseteq Sources',
         \A m \in Sources : source'[m].owner = source[m].owner /\ source'[m].live = source[m].live,
         \A u \in Columns : phase'[u] \in Here => phase[u] \in Here
  PROVE  Owned'
  BY DEF Owned

Returns == Return \/ Subscribed \/ LoopEnds \/ SourceIsThere
LEMMA ReturnsStep ==
  ASSUME IInv, Ordered(stack), Joining, Returns
  PROVE  /\ TypeOK /\ Frames /\ stack # <<>> /\ stack' = Below
         /\ Top.at \in {"user", "subscribed", "source", "database", "collection", "shared"}
         /\ Top.at \in {"database", "collection", "shared"} => ~HasNext(Top)
         /\ UNCHANGED <<simple, rows, memory, rejected, calls, unnotified, held, database,
                        collection, shared, source, given, missed, Sources>>
         /\ \A u \in Subscribers : phase'[u] \in Here => phase[u] \in Here
         /\ Joining'
<1>1. TypeOK /\ Frames
  BY DEF IInv
<1>2. CASE Return \/ LoopEnds \/ SourceIsThere
  <2>1. /\ stack # <<>> /\ stack' = Below
        /\ Top.at \in {"user", "subscribed", "source", "database", "collection", "shared"}
        /\ Top.at \in {"database", "collection", "shared"} => ~HasNext(Top)
        /\ UNCHANGED <<simple, rows, memory, rejected, calls, unnotified, held, database, collection,
                       shared, source, given, missed, phase, Sources>>
    BY <1>2 DEF Return, LoopEnds, SourceIsThere, Running, Top, data, notices, setting, entries,
                observers, people, Sources
  <2>2. At("subscribed")' \subseteq At("subscribed")
    BY <1>1, <2>1, Popped
  <2> QED  BY <1>1, <2>1, <2>2 DEF Joining
<1>3. CASE Subscribed
  <2>1. /\ stack # <<>> /\ stack' = Below /\ Top.at = "subscribed" /\ Top.u \in Subscribers
        /\ phase' = [phase EXCEPT ![Top.u] = "joined"]
        /\ UNCHANGED <<simple, rows, memory, rejected, calls, unnotified, held, database, collection,
                       shared, source, given, missed, Sources>>
    BY <1>3, JoinedStep DEF Subscribed, Running, Top, data, notices, setting, entries, observers, Sources
  <2>2. Top \in At("subscribed") /\ phase[Top.u] = "joining"
    BY <1>1, <2>1, TopGoes DEF Joining
  <2>3. /\ At("subscribed")' \subseteq At("subscribed") /\ Over(Top, stack')
        /\ At("subscribed")' \subseteq Range(stack')
    BY <1>1, <2>1, Popped DEF At
  <2>4. phase \in [Subscribers -> {"new", "joining", "joined", "left"}]
    BY <1>1 DEF TypeOK
  <2>5. Joining'
    <3>1. ASSUME NEW f \in At("subscribed")'
          PROVE  phase'[f.u] = "joining"
      <4>1. f.at = "subscribed" /\ f \in At("subscribed") /\ f \in Range(stack')
        BY <2>3 DEF At
      <4>2. f.u # Top.u
        BY <2>1, <2>3, <4>1 DEF Over, MayBeOn
      <4> QED  BY <2>1, <2>4, <4>1, <4>2 DEF Joining
    <3> QED  BY <3>1 DEF Joining
  <2>6. \A u \in Subscribers : phase'[u] \in Here => phase[u] \in Here
    BY <2>1, <2>2, <2>4 DEF Here
  <2> QED  BY <1>1, <2>1, <2>5, <2>6
<1> QED  BY <1>2, <1>3 DEF Returns

LEMMA ReturnsLearn ==
  ASSUME IInv, Ordered(stack), Joining, Informed, Returns
  PROVE  Ordered(stack') /\ Joining' /\ Informed'
<1>1. /\ TypeOK /\ Frames /\ stack # <<>> /\ stack' = Below
      /\ Top.at \in {"user", "subscribed", "source", "database", "collection", "shared"}
      /\ Top.at \in {"database", "collection", "shared"} => ~HasNext(Top)
      /\ UNCHANGED <<simple, rows, memory, rejected, calls, unnotified, held, database, collection,
                     shared, source, given, missed, Sources>>
      /\ \A u \in Subscribers : phase'[u] \in Here => phase[u] \in Here
      /\ Joining'
  BY ReturnsStep
<1>2. /\ Ordered(stack')
      /\ \A at \in {"answer", "emit", "tell"} : ~Running(at)'
      /\ \A n : ~Calls(n)' /\ ~EmitsShared' /\ ~Doing("answer", n)'
      /\ \A at : At(at)' \subseteq At(at) /\ \A f \in At(at) : f = Top \/ f \in At(at)'
      /\ \A at : at # Top.at => At(at)' = At(at)
  BY <1>1, Popped
<1>3. \A at \in {"answer", "emit", "tell"} : ~Running(at)
  BY <1>1 DEF Running, Top
<1>4. \A n : ~Calls(n) /\ ~EmitsShared /\ ~Doing("answer", n)
  BY <1>3 DEF Calls, EmitsShared, Doing
<1>5. \A at \in {"database", "collection", "shared"} : Top.at = at => \A e : ~Reaches(Top, Items(at), e)
  BY <1>1, LoopOver
<1>6. Carries({}, {})
  <2>1. GoesOn("database", database, database, {})
    <3>1. CASE Top.at = "database"
      <4>1. \A e : ~Reaches(Top, database, e)
        BY <1>5, <3>1 DEF Items
      <4> QED  BY <1>2, <4>1, LoopEnded
    <3>2. CASE Top.at # "database"
      BY <1>2, <3>2, LoopStays DEF Longer
    <3> QED  BY <3>1, <3>2
  <2>2. GoesOn("collection", collection, collection, {})
    <3>1. CASE Top.at = "collection"
      <4>1. \A e : ~Reaches(Top, collection, e)
        BY <1>5, <3>1 DEF Items
      <4> QED  BY <1>2, <4>1, LoopEnded
    <3>2. CASE Top.at # "collection"
      BY <1>2, <3>2, LoopStays DEF Longer
    <3> QED  BY <3>1, <3>2
  <2>3. At("notify")' = At("notify")
    BY <1>1, <1>2
  <2> QED  BY <1>1, <2>1, <2>2, <2>3 DEF Carries, Longer
<1>7. ASSUME NEW m \in Sources
      PROVE  Learns(m)'
  <2>1. ToObserve(m) => ToObserve(m)'
    BY <1>1, <1>2 DEF ToObserve
  <2>2. Uninvolved(m)
    BY <1>1, <1>2, <1>4, <2>1 DEF Uninvolved, Still
  <2>3. Learns(m) /\ OldEntries(m)
    BY <1>1 DEF Informed, OldEntries
  <2>4. PICK E : E = {}
    OBVIOUS
  <2>5. Carries(E, E) /\ m \notin E /\ \A kind \in {"simple", "columns"} : <<m, kind>> \notin E
    BY <1>6, <2>4
  <2> QED  BY <2>2, <2>3, <2>5, OtherLearns
<1>8. ToldOwn' /\ Owned'
  BY <1>1, <1>2, OwnersStay, SubscriptionsAssumption DEF ToldOwn, Informed
<1>9. Sharing'
  <2>1. SharersStay /\ CommonStay
    BY <1>1 DEF SharersStay, CommonStay, Common
  <2>2. LoopsStay
    <3>1. \A f \in At("shared") : f \in At("shared")' \/ \A e : ~Reaches(f, shared.subscribers, e)
      BY <1>2, <1>5 DEF Items
    <3> QED  BY <1>1, <1>2, <3>1 DEF LoopsStay
  <2>3. ~FirstSource
    BY <1>1 DEF FirstSource, Running, Returns, Return, Subscribed, LoopEnds, SourceIsThere, NeedsSource, Top
  <2>4. Elsewhere
    BY <1>2, <1>3, <1>4, <2>3 DEF Elsewhere
  <2> QED  BY <2>1, <2>2, <2>4, SharingStill DEF Informed
<1> QED  BY <1>1, <1>2, <1>7, <1>8, <1>9 DEF Informed

-----------------------------------------------------------------------------
(* The steps of an observer.                                               *)

(* A step that leaves the loops alone.                                     *)
LEMMA CarriesOn ==
  ASSUME UNCHANGED <<simple, rows, memory, rejected, unnotified, held>>,
                     Range(calls) \subseteq Range(calls'),
         \A at \in {"notify", "database", "collection"} : At(at)' = At(at),
         Longer(database, database'), Longer(collection, collection')
  PROVE  \A E : E = {} => Carries(E, E)
<1>1. GoesOn("database", database, database', {}) /\ GoesOn("collection", collection, collection', {})
  BY LoopStays
<1> QED  BY <1>1 DEF Carries

LEMMA Longers ==
  ASSUME NEW S, NEW s \in Seq(S)
  PROVE  Longer(s, s) /\ \A e \in S : Longer(s, Append(s, e))
<1>1. \A e \in S : Longer(s, Append(s, e))
  BY Appended DEF Longer
<1> QED  BY <1>1 DEF Longer

LEMMA ObserverStep ==
  ASSUME IInv, Ordered(stack), Joining, stack # <<>>, Top.at \in {"answer", "observe"}, stack' = Below,
         UNCHANGED <<simple, rows, memory, rejected, unnotified, held, calls, database, shared,
                     phase, given, missed>>,
         Longer(collection, collection')
  PROVE  /\ TypeOK /\ Frames /\ Ordered(stack') /\ Joining' /\ ToldOwn'
         /\ \A n : ~Calls(n) /\ ~Calls(n)' /\ ~Doing("answer", n)'
         /\ \A f \in At("observe") : f = Top \/ f \in At("observe")'
         /\ \A E : E = {} => Carries(E, E)
         /\ At("shared")' = At("shared") /\ Elsewhere
<1>1. TypeOK /\ Frames
  BY DEF IInv
<1>2. /\ Ordered(stack')
      /\ \A at \in {"answer", "emit", "tell"} : ~Running(at)'
      /\ \A n : ~Calls(n)' /\ ~EmitsShared' /\ ~Doing("answer", n)'
      /\ \A at : At(at)' \subseteq At(at) /\ \A f \in At(at) : f = Top \/ f \in At(at)'
      /\ \A at : at # Top.at => At(at)' = At(at)
  BY <1>1, Popped
<1>3. /\ \A at \in {"notify", "database", "collection"} : At(at)' = At(at)
      /\ At("shared")' = At("shared") /\ At("subscribed")' = At("subscribed")
  BY <1>2
<1>4. \A at \in {"emit", "tell", "source"} : ~Running(at)
  BY DEF Running, Top
<1>5. (\A n : ~Calls(n)) /\ Elsewhere
  BY <1>2, <1>4 DEF Calls, Doing, Elsewhere, EmitsShared, FirstSource
<1>6. Joining' /\ ToldOwn'
  BY <1>2, <1>3 DEF Joining, ToldOwn
<1>7. Longer(database, database')
  BY DEF Longer
<1>8. \A E : E = {} => Carries(E, E)
  BY <1>3, <1>7, CarriesOn
<1> QED  BY <1>1, <1>2, <1>3, <1>5, <1>6, <1>8

LEMMA ErrorLearns ==
  ASSUME IInv, Ordered(stack), Joining, Informed, AnswerIsError
  PROVE  Ordered(stack') /\ Joining' /\ Informed'
<1>1. /\ stack # <<>> /\ Top.at = "answer" /\ stack' = Below
      /\ source' = [source EXCEPT ![Top.n].stale = @ \/ source[Top.n].live]
      /\ UNCHANGED <<simple, rows, memory, rejected, unnotified, held, calls, database, collection,
                     shared, phase, given, missed>>
  BY DEF AnswerIsError, Running, Top, setting, data, notices, entries, people
<1>2. TypeOK /\ Frames /\ Longer(collection, collection')
  BY <1>1 DEF IInv, Longer
<1>3. PICK n : n = Top.n
  OBVIOUS
<1>4. /\ n \in Sources /\ source \in Seq(Observer) /\ Sources' = Sources
      /\ \A m \in Sources : m # n => source'[m] = source[m]
      /\ source'[n] = [source[n] EXCEPT !.stale = @ \/ source[n].live] /\ source[n] \in Observer
  BY <1>1, <1>2, <1>3, TopFrame DEF Fitting, Sources
<1>5. /\ Ordered(stack') /\ Joining' /\ ToldOwn'
      /\ \A m : ~Calls(m) /\ ~Calls(m)' /\ ~Doing("answer", m)'
      /\ \A f \in At("observe") : f = Top \/ f \in At("observe")'
      /\ \A E : E = {} => Carries(E, E)
      /\ At("shared")' = At("shared") /\ Elsewhere
  BY <1>1, <1>2, ObserverStep
<1>6. \A m \in Sources : /\ Still(m) /\ source'[m].lost = source[m].lost
                         /\ m # n => source'[m].stale = source[m].stale
                         /\ ToObserve(m) => ToObserve(m)'
  <2>1. \A m \in Sources : ToObserve(m) => ToObserve(m)'
    BY <1>1, <1>5 DEF ToObserve, At
  <2>2. Still(n) /\ source'[n].lost = source[n].lost
    BY <1>1, <1>4 DEF Still, Observer
  <2>3. \A m \in Sources : m # n => Still(m) /\ source'[m] = source[m]
    BY <1>1, <1>4 DEF Still
  <2> QED  BY <2>1, <2>2, <2>3
<1>7. ASSUME NEW m \in Sources
      PROVE  Learns(m)'
  <2>1. Learns(m) /\ OldEntries(m)
    BY <1>1 DEF Informed, OldEntries
  <2>2. PICK E : E = {}
    OBVIOUS
  <2>3. Carries(E, E) /\ m \notin E /\ \A kind \in {"simple", "columns"} : <<m, kind>> \notin E
    BY <1>5, <2>2
  <2>4. CASE m = n
    <3>1. source[m].live => KeepsFetches(m)
      BY <1>1, <1>4, <2>4 DEF KeepsFetches, Observer
    <3>2. KeepsAwaited(m) /\ KeepsPending(m) /\ KeepsEntries(m)
      BY <1>6, <2>1, <2>3, CarriedKeeps
    <3> QED  BY <1>5, <1>6, <2>1, <3>1, <3>2, LearnsStill DEF Keeps
  <2>5. CASE m # n
    <3>1. Uninvolved(m)
      BY <1>3, <1>5, <1>6, <2>5 DEF Uninvolved, Doing
    <3> QED  BY <2>1, <2>3, <3>1, OtherLearns
  <2> QED  BY <2>4, <2>5
<1>8. Owned'
  BY <1>1, <1>4, <1>6, OwnersStay, SubscriptionsAssumption DEF Informed, Still
<1>9. Sharing'
  <2>1. SharersStay /\ CommonStay
    BY <1>1, <1>4, <1>6 DEF SharersStay, CommonStay, Common, Still
  <2>2. LoopsStay
    <3>1. \A f \in At("shared") : f.n \in Sources
      BY DEF Informed, Sharing, SharedLoops
    <3> QED  BY <1>5, <1>6, <3>1 DEF LoopsStay, Still
  <2> QED  BY <1>5, <2>1, <2>2, SharingStill DEF Informed
<1> QED  BY <1>4, <1>5, <1>7, <1>8, <1>9 DEF Informed

LEMMA ObserveLearns ==
  ASSUME IInv, Ordered(stack), Joining, Informed, Observe
  PROVE  Ordered(stack') /\ Joining' /\ Informed'
<1>1. /\ stack # <<>> /\ Top.at = "observe" /\ stack' = Below
      /\ collection' = IF source[Top.n].live THEN Append(collection, <<Top.n, "simple">>) ELSE collection
      /\ UNCHANGED <<simple, rows, memory, rejected, unnotified, held, calls, database, shared,
                     source, phase, given, missed, Sources>>
  BY DEF Observe, Running, Top, setting, data, notices, observers, people, MayObserve, Sources
<1>2. PICK n : n = Top.n
  OBVIOUS
<1>3. /\ TypeOK /\ Frames /\ n \in Sources
      /\ collection \in Seq(Sources \X {"columns", "simple"}) /\ <<n, "simple">> \in Sources \X {"columns", "simple"}
  BY <1>1, <1>2, TopFrame DEF IInv, TypeOK, Fitting
<1>4. Longer(collection, collection')
  BY <1>1, <1>2, <1>3, Longers
<1>5. /\ Ordered(stack') /\ Joining' /\ ToldOwn'
      /\ \A m : ~Calls(m) /\ ~Calls(m)' /\ ~Doing("answer", m)'
      /\ \A f \in At("observe") : f = Top \/ f \in At("observe")'
      /\ \A E : E = {} => Carries(E, E)
      /\ At("shared")' = At("shared") /\ Elsewhere
  BY <1>1, <1>4, ObserverStep
<1>6. \A m \in Sources : Still(m) /\ source'[m].lost = source[m].lost /\ source'[m].stale = source[m].stale
  BY <1>1 DEF Still
<1>7. ~Running("answer")
  BY <1>1 DEF Running, Top
<1>8. \A p \in DOMAIN collection' :
        \/ p \in DOMAIN collection /\ collection'[p] = collection[p]
        \/ /\ collection'[p] = <<n, "simple">> /\ source[n].live /\ p = Len(collection) + 1
           /\ collection' = Append(collection, <<n, "simple">>)
  BY <1>1, <1>2, <1>3, Appended
<1>9. ASSUME NEW m \in Sources
      PROVE  Learns(m)'
  <2>1. Learns(m)
    BY DEF Informed
  <2>2. PICK E : E = {}
    OBVIOUS
  <2>3. Carries(E, E) /\ m \notin E /\ \A kind \in {"simple", "columns"} : <<m, kind>> \notin E
    BY <1>5, <2>2
  <2>4. CASE m # n
    <3>1. OldEntries(m)
      BY <1>8, <2>4 DEF OldEntries
    <3>2. ToObserve(m) => ToObserve(m)'
      BY <1>2, <1>5, <2>4 DEF ToObserve
    <3>3. Uninvolved(m)
      BY <1>5, <1>6, <1>7, <3>2 DEF Uninvolved, Doing
    <3> QED  BY <2>1, <2>3, <3>1, <3>3, OtherLearns
  <2>5. CASE m = n
    <3> SUFFICES ASSUME source[m].live
                 PROVE  KeepsEntries(m)
      <4>1. KeepsAwaited(m) /\ KeepsPending(m) /\ KeepsFetches(m)
        BY <1>6, <1>7, <2>3, CarriedKeeps DEF Doing
      <4> QED  BY <1>5, <1>6, <2>1, <4>1, LearnsStill DEF Keeps
    <3>1. collection' = Append(collection, <<m, "simple">>)
      BY <1>1, <1>2, <2>5
    <3>2. /\ Len(collection) + 1 \in DOMAIN collection' /\ collection'[Len(collection) + 1] = <<m, "simple">>
          /\ DOMAIN collection = 1 .. Len(collection) /\ Len(collection) \in Nat
      BY <1>3, <2>5, <3>1
    <3>3. InOrder(collection, m) => InOrder(collection', m)
      <4>1. <<m, "columns">> # <<m, "simple">>
        OBVIOUS
      <4> SUFFICES ASSUME InOrder(collection, m), NEW p \in DOMAIN collection', NEW q \in DOMAIN collection',
                          collection'[p] = <<m, "columns">>, collection'[q] = <<m, "simple">>
                   PROVE  p < q
        BY DEF InOrder
      <4>2. p \in DOMAIN collection /\ collection[p] = <<m, "columns">>
        BY <1>8, <2>5, <4>1
      <4>3. \/ q \in DOMAIN collection /\ collection[q] = <<m, "simple">>
            \/ q = Len(collection) + 1
        BY <1>8
      <4> QED  BY <3>2, <4>2, <4>3 DEF InOrder
    <3>4. Entry(collection', <<m, "simple">>)
      BY <3>2 DEF Entry
    <3>5. \A e : Entry(collection, e) => Entry(collection', e)
      BY <1>4 DEF Entry, Longer
    <3> QED  BY <1>1, <3>3, <3>4, <3>5 DEF KeepsEntries
  <2> QED  BY <2>4, <2>5
<1>10. Owned'
  BY <1>1, OwnersStay, SubscriptionsAssumption DEF Informed
<1>11. Sharing'
  <2>1. SharersStay /\ CommonStay
    BY <1>1 DEF SharersStay, CommonStay, Common
  <2>2. LoopsStay
    BY <1>1, <1>5 DEF LoopsStay
  <2> QED  BY <1>5, <2>1, <2>2, SharingStill DEF Informed
<1> QED  BY <1>1, <1>5, <1>9, <1>10, <1>11 DEF Informed

(* What is in memory and not committed is to come.                         *)
LEMMA ToCome ==
  ASSUME Upcoming
  PROVE  \A id \in Records : rows[id] # memory[id] => Coming(id)
<1> SUFFICES ASSUME NEW id \in Records, rows[id] # memory[id]
             PROVE  Coming(id)
  OBVIOUS
<1>1. CASE id \in rejected
  BY <1>1 DEF Coming
<1>2. CASE \E k \in DOMAIN calls : Newest(k, id)
  <2>1. PICK k \in DOMAIN calls : Newest(k, id)
    BY <1>2
  <2>2. calls[k] \in Batches /\ id \in calls[k].set
    BY <2>1 DEF Newest, Writes, Batches, Range
  <2> QED  BY <2>2 DEF Coming
<1> QED  BY <1>1, <1>2 DEF Upcoming

(* An observer that got a list, and emits it or need not.                  *)
LEMMA AnsweredLearns ==
  ASSUME TypeOK, Frames, Upcoming, Carries({}, {}), NEW n \in Sources, Learns(n), source[n].live,
         Doing("answer", n), OldEntries(n), NEW list, list = Matching(rows), NEW f, f = OfSource("emit", n, list),
         source' = [source EXCEPT ![n] = [@ EXCEPT !.list = list, !.stale = FALSE]],
         UNCHANGED given, ~Doing("tell", n)', ToObserve(n) => ToObserve(n)',
         \/ IsTop(f)'
         \/ ~Calls(n)' /\ source[n].owner = Nobody,
         simple => IsTop(f)' /\ ToObserve(n)'
  PROVE  Learns(n)'
<1>1. /\ list \in Lists /\ list # NoList
      /\ \A id \in Records : id \in list <=> rows[id].in
  BY SubscriptionsAssumption DEF Matching, Lists
<1>2. /\ source[n] \in Observer
      /\ source'[n] = [source[n] EXCEPT !.list = list, !.stale = FALSE]
  <2>1. source \in Seq(Observer) /\ Sources = 1 .. Len(source) /\ DOMAIN source = 1 .. Len(source) /\ source[n] \in Observer
    BY TopFrame
  <2> QED  BY <2>1
<1>3. /\ source'[n].list = list /\ ~source'[n].stale /\ source'[n].live
      /\ source'[n].owner = source[n].owner /\ source'[n].fetching = source[n].fetching
      /\ source'[n].pending = source[n].pending /\ source'[n].first = source[n].first
      /\ source'[n].observed = source[n].observed /\ source'[n].states = source[n].states
      /\ source'[n].early = source[n].early /\ source'[n].lost = source[n].lost
  <2>1. PICK s : s = source[n]
    OBVIOUS
  <2>2. PICK t : t = [s EXCEPT !.list = list, !.stale = FALSE]
    OBVIOUS
  <2>3. /\ t.list = list /\ t.stale = FALSE /\ t.live = s.live /\ t.owner = s.owner /\ t.fetching = s.fetching
        /\ t.pending = s.pending /\ t.first = s.first /\ t.observed = s.observed /\ t.states = s.states
        /\ t.early = s.early /\ t.lost = s.lost
    BY ONLY <1>2, <2>1, <2>2 DEF Observer
  <2>4. source'[n] = t
    BY <1>2, <2>1, <2>2
  <2> QED  BY <2>1, <2>3, <2>4
<1>4. /\ NoticeComes(n) /\ HasEntries(n) /\ FetchComes(n) /\ EmissionComes(n) /\ Shown(n)
      /\ UNCHANGED <<simple, rows, memory>>
      /\ ~Doing("emit", n) /\ ~Doing("tell", n)
  BY DEF Learns, Doing, Running, Carries
<1>5. /\ IsTop(f)' => Doing("emit", n)' /\ stack' # <<>> /\ Head(stack').set = list
      /\ ~Doing("emit", n)' => ~simple /\ source[n].owner = Nobody
  <2>1. f.at = "emit" /\ f.n = n /\ f.set = list
    BY DEF OfSource, NoFrame
  <2>2. IsTop(f)' => Doing("emit", n)' /\ stack' # <<>> /\ Head(stack').set = list
    BY <2>1 DEF IsTop, Doing, Running, Top
  <2> QED  BY <2>2 DEF Calls
<1>6. KeepsAwaited(n) /\ KeepsPending(n) /\ KeepsEntries(n)
  <2>1. PICK E : E = {}
    OBVIOUS
  <2>2. Carries(E, E) /\ <<n, "simple">> \notin E /\ <<n, "columns">> \notin E
    BY <2>1
  <2> QED  BY <1>3, <2>2, CarriedKeeps
<1>7. NoticeComes(n)'
  <2> SUFFICES ASSUME ~source'[n].lost, NEW id \in Records
               PROVE  /\ simple /\ ~(id \in list <=> memory[id].in) => Awaited(<<n, "simple">>, id)'
                      /\ id \in source[n].observed /\ source[n].states[id] # memory[id].col =>
                           Awaited(<<n, "columns">>, id)'
    BY <1>3, <1>4 DEF NoticeComes
  <2>1. ~(id \in list <=> memory[id].in) => Awaited(<<n, "simple">>, id)
    BY <1>1, ToCome DEF Awaited
  <2>2. id \in source[n].observed /\ source[n].states[id] # memory[id].col => Awaited(<<n, "columns">>, id)
    BY <1>3, <1>4 DEF NoticeComes
  <2> QED  BY <1>6, <2>1, <2>2 DEF KeepsAwaited
<1>8. HasEntries(n)'
  <2>1. Entry(collection, <<n, "columns">>) => Entry(collection', <<n, "columns">>)
    BY <1>6 DEF KeepsEntries
  <2> QED  BY <1>3, <1>4, <1>6, <2>1 DEF HasEntries, KeepsEntries
<1>9. FetchComes(n)'
  <2>1. list = Matching(rows)'
    BY <1>4 DEF Matching
  <2> QED  BY <1>1, <1>3, <1>4, <1>5, <2>1 DEF FetchComes
<1>10. EmissionComes(n)'
  BY <1>3, <1>4, <1>6, PendingStill
<1>11. Shown(n)'
  <2>1. source[n].owner # Nobody => Doing("emit", n)' /\ Showing(n)'
    BY <1>1, <1>3, <1>4, <1>5 DEF Shown, Showing
  <2>2. source[n].owner # Nobody /\ ~source[n].first => Has(n)'
    BY <1>3, <1>4 DEF Shown, Has
  <2>3. Doing("emit", n)' => Head(stack').set = list
    BY <1>5, <2>1 DEF Calls
  <2> QED  BY <1>3, <1>4, <2>1, <2>2, <2>3 DEF Shown, Top
<1> QED  BY <1>7, <1>8, <1>9, <1>10, <1>11 DEF Learns

(* The stack after an answer.                                              *)
LEMMA AnswerFrames ==
  ASSUME TypeOK, Frames, Ordered(stack), stack # <<>>, Top.at = "answer", NEW n, n = Top.n,
         NEW list \in Lists, NEW f, f = OfSource("emit", n, list),
         \/ stack' = Below
         \/ stack' = <<f>> \o Below
         \/ stack' = <<f, OfSource("observe", n, {})>> \o Below
  PROVE  /\ Ordered(stack') /\ (stack' = Below \/ IsTop(f)')
         /\ stack' = Below => ~Running("emit")'
         /\ stack' = <<f, OfSource("observe", n, {})>> \o Below => ToObserve(n)'
         /\ ~Running("answer")' /\ ~Running("tell")'
         /\ \A at \in {"notify", "database", "collection", "shared", "subscribed"} : At(at)' = At(at)
         /\ \A m : ToObserve(m) => ToObserve(m)'
<1> DEFINE g == OfSource("observe", n, {})
<1>1. /\ f \in Frame /\ g \in Frame /\ Below \in Seq(Frame) /\ f.at = "emit" /\ g.at = "observe" /\ g.n = n
      /\ Rests(Below, {Top})
  <2>1. n \in 1 .. Len(source) /\ Len(source) \in Nat /\ {} \in Lists /\ Below \in Seq(Lower(Len(source)))
    BY TopFrame DEF Fitting, Lists
  <2>2. f \in Fitting(Len(source)) /\ g \in Lower(Len(source))
    BY <2>1, NewFrames
  <2>3. f.at = "emit" /\ g.at = "observe" /\ g.n = n
    BY DEF OfSource, NoFrame
  <2>4. f \in Frame /\ g \in Frame /\ Below \in Seq(Frame)
    <3>1. stack \in Seq(Frame)
      BY DEF TypeOK
    <3>2. Below \in Seq(Frame)
      BY <3>1, HeadTailProperties DEF Below
    <3> QED  BY <2>2, <3>2, Fits
  <2> QED  BY <2>3, <2>4 DEF Rests
<1>2. Loose(f) /\ Over(g, Below) /\ Over(f, Below) /\ Ordered(stack)
  <2>1. Loose(f) /\ Loose(g)
    BY <1>1 DEF Loose
  <2> QED  BY <1>1, <2>1, PutOn
<1>3. <<f, g>> \o Below = <<f>> \o (<<g>> \o Below)
  BY <1>1, OneByOne
<1> HIDE DEF g
<1>4. \E new \in SUBSET {f, g} :
        /\ Replaces({Top}, new) /\ Ordered(stack')
        /\ stack' = <<f>> \o (<<g>> \o Below) => g \in new /\ IsTop(f)'
        /\ stack' = <<f>> \o Below => IsTop(f)'
  <2>1. CASE stack' = <<f>> \o (<<g>> \o Below)
    <3>1. Replaces({Top}, {f, g}) /\ IsTop(f)' /\ Ordered(stack')
      BY <1>1, <1>2, <2>1, PutOn
    <3> QED  BY <3>1
  <2>2. CASE stack' # <<f>> \o (<<g>> \o Below) /\ stack' = <<f>> \o Below
    <3>1. Replaces({Top}, {f}) /\ IsTop(f)' /\ Ordered(stack')
      BY <1>1, <1>2, <2>2, PutOn
    <3> QED  BY <2>2, <3>1
  <2>3. CASE stack' # <<f>> \o (<<g>> \o Below) /\ stack' # <<f>> \o Below
    <3>1. stack' = Below
      BY <1>3, <2>3 DEF g
    <3>2. Replaces({Top}, {}) /\ Ordered(stack')
      BY <1>1, <1>2, <3>1, PutOn
    <3> QED  BY <2>3, <3>2
  <2> QED  BY <2>1, <2>2, <2>3
<1>5. PICK new \in SUBSET {f, g} :
        /\ Replaces({Top}, new) /\ Ordered(stack')
        /\ stack' = <<f>> \o (<<g>> \o Below) => g \in new /\ IsTop(f)'
        /\ stack' = <<f>> \o Below => IsTop(f)'
  BY <1>4
<1>6. stack' = Below => \A at \in {"answer", "emit", "tell"} : ~Running(at)'
  BY TopGoes
<1>7. IsTop(f)' => ~Running("answer")' /\ ~Running("tell")'
  BY <1>1 DEF IsTop, Running
<1>8. ASSUME NEW at, at \notin {"answer", "emit"}
      PROVE  At(at) \subseteq At(at)' /\ (at # "observe" => At(at)' = At(at)) /\ \A h \in new : h.at = at => h \in At(at)'
  <2>1. \A h \in {Top} : h.at # at
    BY <1>8
  <2>2. at # "observe" => \A h \in new : h.at # at
    BY <1>1, <1>8
  <2>3. /\ At(at) \subseteq At(at)' /\ (at # "observe" => At(at)' \subseteq At(at))
        /\ \A h \in new : h.at = at => h \in At(at)'
    BY <1>5, <2>1, <2>2, Kinds
  <2> QED  BY <2>3
<1>9. At("observe") \subseteq At("observe")' /\ \A h \in new : h.at = "observe" => h \in At("observe")'
  BY <1>8
<1>10. \A m : ToObserve(m) => ToObserve(m)'
  BY <1>9 DEF ToObserve
<1>11. stack' = <<f>> \o (<<g>> \o Below) => ToObserve(n)'
  BY <1>1, <1>5, <1>9 DEF ToObserve
<1> QED  BY <1>3, <1>5, <1>6, <1>7, <1>8, <1>10, <1>11 DEF g

LEMMA AnswerLearns ==
  ASSUME IInv, Ordered(stack), Joining, Upcoming, Informed, Answer
  PROVE  Ordered(stack') /\ Joining' /\ Informed'
<1>1. PICK n, list, f : n = Top.n /\ list = Matching(rows) /\ f = OfSource("emit", n, list)
  OBVIOUS
<1>2. /\ TypeOK /\ Frames /\ stack # <<>> /\ Top.at = "answer" /\ Running("answer") /\ n \in Sources /\ list \in Lists
      /\ UNCHANGED <<simple, rows, memory, rejected, unnotified, held, calls, database, collection,
                     shared, phase, given, missed>>
  <2>1. Top.n \in Sources
    BY AnswerStep
  <2> QED  BY <1>1, <2>1 DEF IInv, Answer, Running, Top, setting, data, notices, entries, people, Matching, Lists
<1>3. \/ source' = source /\ stack' = Below /\ ~source[n].live
      \/ /\ source' = [source EXCEPT ![n] = [@ EXCEPT !.list = list, !.stale = FALSE]] /\ source[n].live
         /\ \/ simple /\ stack' = <<f, OfSource("observe", n, {})>> \o Below
            \/ ~simple /\ stack' = <<f>> \o Below
            \/ ~simple /\ stack' = Below /\ source[n].owner = Nobody /\ source[n].list = list
  BY <1>1 DEF Answer, SimpleAnswer, ReloadingAnswer, StillSubscribed
<1>4. /\ Ordered(stack') /\ (stack' = Below \/ IsTop(f)')
      /\ stack' = Below => ~Running("emit")'
      /\ stack' = <<f, OfSource("observe", n, {})>> \o Below => ToObserve(n)'
      /\ ~Running("answer")' /\ ~Running("tell")'
      /\ \A at \in {"notify", "database", "collection", "shared", "subscribed"} : At(at)' = At(at)
      /\ \A m : ToObserve(m) => ToObserve(m)'
  BY <1>1, <1>2, <1>3, AnswerFrames
<1>5. /\ source \in Seq(Observer) /\ Sources' = Sources /\ (\A m \in Sources : m # n => source'[m] = source[m])
      /\ source[n] \in Observer /\ DOMAIN source = Sources
      /\ source[n].live => source'[n] = [source[n] EXCEPT !.list = list, !.stale = FALSE]
      /\ ~source[n].live => source'[n] = source[n]
  BY <1>2, <1>3, TopFrame DEF Sources
<1>6. Joining' /\ ToldOwn'
  BY <1>2, <1>4 DEF Joining, ToldOwn
<1>7. Carries({}, {}) /\ \A m : OldEntries(m)
  <2>1. Longer(database, database') /\ Longer(collection, collection')
    BY <1>2 DEF Longer
  <2> QED  BY <1>2, <1>4, <2>1, CarriesOn DEF OldEntries
<1>8. IsTop(f)' => Running("emit")' /\ Doing("emit", n)' /\ (stack' # <<>> /\ Head(stack').n = n)
  BY <1>1 DEF OfSource, NoFrame, IsTop, Running, Top, Doing
<1>9. /\ source'[n].owner = source[n].owner /\ source'[n].live = source[n].live
      /\ source'[n].list = source[n].list \/ (source[n].live /\ source'[n].list = list)
  <2>1. PICK s, t : s = source[n] /\ t = [s EXCEPT !.list = list, !.stale = FALSE]
    OBVIOUS
  <2>2. t.owner = s.owner /\ t.live = s.live /\ t.list = list
    BY ONLY <1>5, <2>1 DEF Observer
  <2> QED  BY <1>5, <2>1, <2>2
<1>10. ASSUME NEW m \in Sources
       PROVE  Learns(m)'
  <2>1. Learns(m)
    BY DEF Informed
  <2>2. CASE m # n
    <3>1. ~Calls(m) /\ ~Calls(m)' /\ ~Doing("answer", m)
      BY <1>1, <1>2, <1>4, <1>8, <2>2 DEF Calls, Doing, Running, Top
    <3>2. Uninvolved(m)
      BY <1>2, <1>4, <1>5, <2>2, <3>1 DEF Uninvolved, Still
    <3>3. PICK E : E = {}
      OBVIOUS
    <3>4. Carries(E, E) /\ m \notin E /\ \A kind \in {"simple", "columns"} : <<m, kind>> \notin E
      BY <1>7, <3>3
    <3> QED  BY <1>7, <2>1, <3>2, <3>4, OtherLearns
  <2>3. CASE m = n /\ ~source[n].live
    BY <1>9, <2>3 DEF Learns
  <2>4. CASE m = n /\ source[n].live
    <3>1. /\ source' = [source EXCEPT ![n] = [@ EXCEPT !.list = list, !.stale = FALSE]]
          /\ \/ IsTop(f)' /\ (simple => ToObserve(n)')
             \/ ~simple /\ stack' = Below /\ source[n].owner = Nobody
      BY <1>3, <1>4, <2>4
    <3>2. Doing("answer", n) /\ ~Doing("tell", n)' /\ (stack' = Below => ~Calls(n)')
      BY <1>1, <1>2, <1>4 DEF Doing, Calls
    <3> QED  BY <1>1, <1>2, <1>4, <1>7, <2>1, <2>4, <3>1, <3>2, AnsweredLearns
  <2> QED  BY <2>2, <2>3, <2>4
<1>11. Owned'
  BY <1>2, <1>5, <1>9, OwnersStay, SubscriptionsAssumption DEF Informed
<1>12. Sharing'
  <2>1. SharersStay
    BY <1>2, <1>5, <1>9 DEF SharersStay
  <2>2. \A f1 \in At("shared") : f1.n \in Sources /\ f1.n # n
    BY <1>1, <1>2 DEF Informed, Sharing, SharedLoops, Doing
  <2>3. LoopsStay
    BY <1>4, <1>5, <2>2 DEF LoopsStay, Doing
  <2>4. Elsewhere
    BY <1>2, <1>4 DEF Elsewhere, EmitsShared, FirstSource, Running, Top
  <2>5. EmitsShared' \/ CommonStay
    <3>1. CASE source[n].live /\ source[n].owner = Nobody /\ IsTop(f)'
      BY <1>8, <1>9, <3>1 DEF EmitsShared, Top
    <3>2. CASE ~Common(n) \/ source'[n].list = source[n].list
      BY <1>5, <1>9, <3>2 DEF CommonStay, Common
    <3> QED  BY <1>3, <1>4, <1>9, <3>1, <3>2 DEF Common
  <2> QED  BY <2>1, <2>3, <2>4, <2>5, SharingStill DEF Informed
<1>13. \A m \in Sources' : Learns(m)'
  BY <1>5, <1>10
<1> QED  BY <1>4, <1>6, <1>11, <1>12, <1>13 DEF Informed

(* One frame takes the place of the top one, or none.                      *)
LEMMA TopReplaced ==
  ASSUME TypeOK, Frames, Ordered(stack), stack # <<>>, NEW f \in Frame, Loose(f),
         stack' = Below \/ stack' = <<f>> \o Below
  PROVE  /\ Ordered(stack')
         /\ stack' = Below => \A at \in {"answer", "emit", "tell"} : ~Running(at)'
         /\ stack' # Below => IsTop(f)' /\ f \in At(f.at)'
         /\ \A at : at # Top.at /\ at # f.at => At(at)' = At(at)
         /\ \A at : at # Top.at => At(at) \subseteq At(at)'
         /\ \A at : \A g \in At(at)' : g = f \/ g \in At(at)
<1>1. Rests(Below, {Top})
  BY DEF Rests
<1>2. PICK new \in SUBSET {f} : /\ Replaces({Top}, new) /\ Ordered(stack')
                                /\ stack' # Below => IsTop(f)' /\ f \in new
  <2>1. stack' = Below => Replaces({Top}, {}) /\ Ordered(stack')
    BY <1>1, PutOn
  <2>2. stack' = <<f>> \o Below => Replaces({Top}, {f}) /\ IsTop(f)' /\ Ordered(stack')
    BY <1>1, PutOn
  <2> QED  BY <2>1, <2>2
<1>3. stack' = Below => \A at \in {"answer", "emit", "tell"} : ~Running(at)'
  BY TopGoes
<1>4. ASSUME NEW at
      PROVE  /\ at # Top.at => At(at) \subseteq At(at)'
             /\ at # f.at => At(at)' \subseteq At(at)
             /\ at # Top.at /\ at # f.at => At(at)' = At(at)
             /\ \A g \in At(at)' : g = f \/ g \in At(at)
             /\ f \in new /\ at = f.at => f \in At(at)'
  <2>1. /\ (\A g \in {Top} : g.at # at) => At(at) \subseteq At(at)'
        /\ (\A g \in new : g.at # at) => At(at)' \subseteq At(at)
        /\ \A g \in At(at)' : g \in new \/ g \in At(at)
        /\ \A g \in new : g.at = at => g \in At(at)'
    BY <1>2, Kinds
  <2> QED  BY <1>2, <2>1
<1>5. stack' # Below => f \in At(f.at)'
  BY <1>2, <1>4
<1>6. /\ \A at : at # Top.at /\ at # f.at => At(at)' = At(at)
      /\ \A at : at # Top.at => At(at) \subseteq At(at)'
  BY <1>4
<1>7. \A at : \A g \in At(at)' : g = f \/ g \in At(at)
  BY <1>4
<1> QED  BY <1>2, <1>3, <1>5, <1>6, <1>7

(* A with-columns observer emits, or finds nothing new.                    *)
LEMMA EmittedLearns ==
  ASSUME TypeOK, Frames, Carries({}, {}), NEW n \in Sources, Learns(n), source[n].live, source[n].owner # Nobody,
         Doing("emit", n), Top.set \in Lists, UNCHANGED given, OldEntries(n), ToObserve(n) => ToObserve(n)',
         NEW should \in BOOLEAN, NEW list, list = Top.set, NEW states, states = StateAfter(source[n], list),
         should <=> source[n].first \/ source[n].pending \/ source[n].observed # list, NEW t,
         source' = [source EXCEPT ![n] = t], t.owner = source[n].owner, t.live, t.list = source[n].list,
         ~t.fetching, ~t.pending, ~t.first, t.observed = list, t.states = states,
         t.stale = source[n].stale, t.lost = source[n].lost,
         t.early = IF should THEN Ahead(states, list) ELSE source[n].early, ~Doing("emit", n)',
         should => Doing("tell", n)' /\ stack' # <<>> /\ Head(stack').u = t.owner /\ Head(stack').set = list,
         ~should => ~Doing("tell", n)'
  PROVE  Learns(n)'
<1>1. source[n] \in Observer /\ source'[n] = t /\ list # NoList /\ source[n].states \in [Records -> 0 .. 1]
      /\ source[n].observed \subseteq Records /\ list \subseteq Records
  <2>1. source \in Seq(Observer) /\ Sources = 1 .. Len(source) /\ DOMAIN source = 1 .. Len(source) /\ source[n] \in Observer
    BY TopFrame
  <2>2. list # NoList
    BY SubscriptionsAssumption DEF Lists
  <2> QED  BY <2>1, <2>2 DEF Observer, Lists
<1>2. /\ NoticeComes(n) /\ HasEntries(n) /\ FetchComes(n) /\ EmissionComes(n) /\ Shown(n)
      /\ UNCHANGED <<simple, rows, memory>> /\ Showing(n) /\ source[n].list = list /\ ~Doing("tell", n)
  BY DEF Learns, Shown, Carries, Doing, Running
<1>3. KeepsAwaited(n) /\ KeepsPending(n) /\ KeepsEntries(n) /\ KeepsFetches(n)
  <2>1. PICK E : E = {}
    OBVIOUS
  <2>2. Carries(E, E) /\ <<n, "simple">> \notin E /\ <<n, "columns">> \notin E /\ n \notin E
    BY <2>1
  <2>3. ~Doing("answer", n)
    BY DEF Doing, Running
  <2> QED  BY <1>1, <2>2, <2>3, CarriedKeeps
<1>4. /\ \A id \in Records : states[id] = IF id \notin list THEN 0
                               ELSE IF id \in source[n].observed THEN source[n].states[id] ELSE memory[id].col
      /\ DOMAIN states = Records
  BY DEF StateAfter
<1>5. \A id \in list : states[id] # memory[id].col =>
        id \in source[n].observed /\ source[n].states[id] # memory[id].col
  BY <1>1, <1>4
<1>6. NoticeComes(n)'
  <2> SUFFICES ASSUME ~t.lost, NEW id \in Records
               PROVE  /\ simple /\ t.list # NoList /\ ~(id \in t.list <=> memory[id].in) => Awaited(<<n, "simple">>, id)'
                      /\ id \in t.observed /\ t.states[id] # memory[id].col => Awaited(<<n, "columns">>, id)'
    BY <1>1, <1>2 DEF NoticeComes
  <2> QED  BY <1>1, <1>2, <1>3, <1>5 DEF NoticeComes, KeepsAwaited
<1>7. HasEntries(n)'
  BY <1>1, <1>2, <1>3, EntriesStill
<1>8. FetchComes(n)'
  BY <1>1, <1>2, <1>3 DEF FetchComes, KeepsFetches, Matching
<1>9. EmissionComes(n)'
  <2>1. Late(n)' => Late(n)
    BY <1>1, <1>2, <1>5 DEF Late
  <2> QED  BY <1>1, <1>2, <1>3, <2>1 DEF EmissionComes, KeepsPending
<1>10. Shown(n)'
  <2>1. Showing(n)'
    BY <1>1, <1>2, <1>4 DEF Showing
  <2>2. ASSUME should
        PROVE  Telling(n)'
    <3>1. Top'.u = t.owner /\ Top'.set = list
      BY <2>2 DEF Top
    <3>2. ~t.early => \A id \in list : t.states[id] = memory'[id].col
      BY <1>2, <2>2 DEF Ahead
    <3> QED  BY <1>1, <3>1, <3>2 DEF Telling
  <2>3. ~should => Has(n)'
    <3> SUFFICES ASSUME ~should
                 PROVE  Has(n)'
      OBVIOUS
    <3>1. Has(n) /\ ~source[n].first /\ ~source[n].pending /\ source[n].observed = list
      BY <1>2 DEF Shown
    <3>2. states = source[n].states
      BY <1>1, <1>2, <1>4, <3>1 DEF Showing
    <3> QED  BY <1>1, <3>1, <3>2 DEF Has
  <2> QED  BY <1>1, <2>1, <2>2, <2>3 DEF Shown
<1> QED  BY <1>6, <1>7, <1>8, <1>9, <1>10 DEF Learns

LEMMA EmitWithColumnsLearns ==
  ASSUME IInv, Ordered(stack), Joining, Informed, EmitWithColumns
  PROVE  Ordered(stack') /\ Joining' /\ Informed'
<1>1. PICK n, list, s : n = Top.n /\ list = Top.set /\ s = source[n]
  OBVIOUS
<1>2. /\ TypeOK /\ Frames /\ stack # <<>> /\ Top.at = "emit" /\ Running("emit") /\ s.owner # Nobody
      /\ UNCHANGED <<simple, rows, memory, rejected, unnotified, held, calls, database, collection,
                     shared, phase, given, missed>>
  BY <1>1 DEF IInv, EmitWithColumns, Running, Top, setting, data, notices, entries, people
<1>3. /\ n \in Sources /\ n \in Nat /\ list \in Lists /\ s \in Observer /\ source \in Seq(Observer) /\ DOMAIN source = Sources
      /\ s.owner \in Columns /\ s.owner \in Subscribers /\ s.live
  <2>1. /\ Top \in Fitting(Len(source)) /\ Sources = 1 .. Len(source) /\ source \in Seq(Observer)
        /\ \A m \in Sources : source[m] \in Observer
    BY <1>2, TopFrame
  <2>2. n \in Sources /\ n \in Nat /\ list \in Lists
    BY <1>1, <1>2, <2>1 DEF Fitting, Frame
  <2>3. s.owner \in Columns /\ s.live
    BY <1>1, <1>2, <2>2 DEF IInv, Owners, Called
  <2> QED  BY <1>1, <2>1, <2>2, <2>3, SubscriptionsAssumption
<1>4. PICK should, states, early, news, tell :
        /\ should = (s.first \/ s.pending \/ s.observed # list) /\ states = StateAfter(s, list)
        /\ early = IF should THEN Ahead(states, list) ELSE s.early
        /\ news = (s.news /\ ~should)
        /\ tell = [OfUser("tell", s.owner, list) EXCEPT !.n = n]
  OBVIOUS
<1>5. PICK t : t = [s EXCEPT !.fetching = FALSE, !.pending = FALSE, !.first = FALSE,
                             !.observed = list, !.states = states, !.news = news, !.early = early]
  OBVIOUS
<1>6. source' = [source EXCEPT ![n] = t] /\ stack' = IF should THEN <<tell>> \o Below ELSE Below
  <2>1. should <=> (s.first \/ s.pending \/ s.observed # list) /\ s.live
    BY <1>3, <1>4
  <2> QED  BY <1>1, <1>4, <1>5, <2>1 DEF EmitWithColumns
<1>7. /\ t.owner = s.owner /\ t.live = s.live /\ t.list = s.list /\ t.fetching = FALSE /\ t.pending = FALSE /\ t.first = FALSE
      /\ t.observed = list /\ t.states = states /\ t.early = early /\ t.stale = s.stale /\ t.lost = s.lost
  BY ONLY <1>3, <1>5 DEF Observer
<1>8. tell \in Frame /\ tell.at = "tell" /\ tell.n = n /\ tell.u = s.owner /\ tell.set = list
  <2>1. tell \in Frame
    BY <1>2, <1>3, <1>4, NewFrames, Fits, TopFrame
  <2> QED  BY <1>4, <2>1 DEF OfUser, NoFrame
<1>9. /\ Ordered(stack')
      /\ stack' = Below => \A at \in {"answer", "emit", "tell"} : ~Running(at)'
      /\ stack' # Below => IsTop(tell)'
      /\ \A at \in {"notify", "database", "collection", "shared", "subscribed", "observe"} : At(at)' = At(at)
  <2>1. Loose(tell)
    BY <1>8 DEF Loose
  <2>2. stack' = Below \/ stack' = <<tell>> \o Below
    BY <1>6
  <2> QED  BY <1>2, <1>8, <2>1, <2>2, TopReplaced DEF IInv
<1>10. /\ IsTop(tell)' => /\ Doing("tell", n)' /\ stack' # <<>> /\ Head(stack') = tell
                          /\ \A at : at # "tell" => ~Running(at)'
       /\ ~should => ~Running("tell")' /\ ~Running("emit")' /\ ~Running("answer")'
       /\ ~should \/ IsTop(tell)'
  <2>1. IsTop(tell)' => /\ Doing("tell", n)' /\ stack' # <<>> /\ Head(stack') = tell
                        /\ \A at : at # "tell" => ~Running(at)'
    BY <1>8 DEF IsTop, Doing, Running, Top
  <2>2. should => stack' # Below
    <3>1. should => stack' # <<>> /\ Head(stack') = tell
      <4>1. Below \in Seq(Frame)
        BY <1>2, TopFrame, HeadTailProperties DEF TypeOK, Below
      <4> QED  BY <1>6, <1>8, <4>1, Pushed
    <3>2. stack' = Below => ~Running("tell")'
      BY <1>9
    <3> QED  BY <1>8, <3>1, <3>2 DEF Running, Top
  <2> QED  BY <1>6, <1>9, <2>1, <2>2
<1>11. Sources' = Sources /\ (\A m \in Sources : m # n => source'[m] = source[m]) /\ source'[n] = t
  BY <1>3, <1>6 DEF Sources
<1>12. ~Running("emit")' /\ ~Running("answer")' /\ \A m \in Sources : m # n => ~Calls(m)'
  BY <1>8, <1>10 DEF Calls, Doing, Top, Running
<1>13. Joining' /\ ToldOwn'
  BY <1>1, <1>2, <1>3, <1>7, <1>8, <1>9, <1>10, <1>11 DEF Joining, ToldOwn, Top
<1>14. Carries({}, {}) /\ \A m : OldEntries(m) /\ (ToObserve(m) => ToObserve(m)')
  <2>1. Longer(database, database') /\ Longer(collection, collection')
    BY <1>2 DEF Longer
  <2> QED  BY <1>2, <1>9, <2>1, CarriesOn DEF OldEntries, ToObserve
<1>15. ASSUME NEW m \in Sources
       PROVE  Learns(m)'
  <2>1. Learns(m)
    BY DEF Informed
  <2>2. CASE m # n
    <3>1. ~Calls(m) /\ ~Calls(m)' /\ ~Doing("answer", m)
      BY <1>1, <1>2, <1>12, <2>2 DEF Calls, Doing, Running, Top
    <3>2. Uninvolved(m)
      BY <1>2, <1>11, <1>14, <2>2, <3>1 DEF Uninvolved, Still
    <3>3. PICK E : E = {}
      OBVIOUS
    <3>4. Carries(E, E) /\ m \notin E /\ \A kind \in {"simple", "columns"} : <<m, kind>> \notin E
      BY <1>14, <3>3
    <3> QED  BY <1>14, <2>1, <3>2, <3>4, OtherLearns
  <2>3. CASE m = n
    <3>1. Doing("emit", n) /\ ~Doing("emit", n)' /\ (~should => ~Doing("tell", n)')
      BY <1>1, <1>2, <1>10, <1>12 DEF Doing
    <3>2. should => Doing("tell", n)' /\ stack' # <<>> /\ Head(stack').u = t.owner /\ Head(stack').set = list
      BY <1>7, <1>8, <1>10
    <3>3. /\ Learns(n) /\ source[n].live /\ source[n].owner # Nobody /\ Top.set \in Lists /\ list = Top.set
          /\ OldEntries(n) /\ (ToObserve(n) => ToObserve(n)') /\ UNCHANGED given
          /\ states = StateAfter(source[n], list) /\ source' = [source EXCEPT ![n] = t]
      BY <1>1, <1>2, <1>3, <1>4, <1>6, <1>14, <2>1, <2>3
    <3>4. /\ should \in BOOLEAN /\ (should <=> source[n].first \/ source[n].pending \/ source[n].observed # list)
          /\ t.early = IF should THEN Ahead(states, list) ELSE source[n].early
      BY <1>1, <1>3, <1>4, <1>7 DEF Observer
    <3>5. /\ t.owner = source[n].owner /\ t.live /\ t.list = source[n].list /\ ~t.fetching /\ ~t.pending /\ ~t.first
          /\ t.observed = list /\ t.states = states /\ t.stale = source[n].stale /\ t.lost = source[n].lost
      BY <1>1, <1>3, <1>7
    <3> QED  BY <1>2, <1>3, <1>14, <2>3, <3>1, <3>2, <3>3, <3>4, <3>5, EmittedLearns
  <2> QED  BY <2>2, <2>3
<1>16. Owned'
  BY <1>1, <1>2, <1>7, <1>11, OwnersStay, SubscriptionsAssumption DEF Informed
<1>17. Sharing'
  <2>1. SharersStay /\ CommonStay
    BY <1>1, <1>2, <1>7, <1>11 DEF SharersStay, CommonStay, Common
  <2>2. \A f1 \in At("shared") : f1.n \in Sources /\ f1.n # n
    BY <1>1, <1>2 DEF Informed, Sharing, SharedLoops, Doing
  <2>3. LoopsStay
    BY <1>9, <1>11, <1>12, <2>2 DEF LoopsStay, Doing
  <2>4. Elsewhere
    BY <1>1, <1>2, <1>3, <1>8, <1>10 DEF Elsewhere, EmitsShared, FirstSource, Running, Top
  <2> QED  BY <2>1, <2>3, <2>4, SharingStill DEF Informed
<1>18. \A m \in Sources' : Learns(m)'
  BY <1>11, <1>15
<1> QED  BY <1>9, <1>13, <1>16, <1>17, <1>18 DEF Informed

LEMMA CommonLearns ==
  ASSUME NEW m, Learns(m), source[m].live => Keeps(m), source[m].owner = Nobody, ~Doing("emit", m)',
         source'[m].owner = source[m].owner, source'[m].live = source[m].live, source'[m].list = source[m].list,
         source'[m].observed = source[m].observed, source'[m].states = source[m].states
  PROVE  Learns(m)'
<1> SUFFICES ASSUME source[m].live
             PROVE  (NoticeComes(m) /\ HasEntries(m) /\ FetchComes(m) /\ EmissionComes(m) /\ Shown(m))'
  BY DEF Learns
<1>1. /\ KeepsAwaited(m) /\ KeepsEntries(m) /\ KeepsFetches(m)
      /\ NoticeComes(m) /\ HasEntries(m) /\ FetchComes(m) /\ Shown(m)
  BY DEF Learns, Keeps
<1>2. NoticeComes(m)' /\ HasEntries(m)'
  BY <1>1, NoticeStill, EntriesStill
<1>3. FetchComes(m)'
  BY <1>1 DEF FetchComes, KeepsFetches, Matching
<1>4. EmissionComes(m)' /\ Shown(m)'
  BY <1>1 DEF EmissionComes, Shown
<1> QED  BY <1>2, <1>3, <1>4

(* The SharedSubscribable emits: a loop begins that comes to everybody.    *)
LEMMA EmitSharedLearns ==
  ASSUME IInv, Ordered(stack), Joining, Informed, EmitShared
  PROVE  Ordered(stack') /\ Joining' /\ Informed'
<1>1. PICK n, list, s : n = Top.n /\ list = Top.set /\ s = source[n]
  OBVIOUS
<1>2. /\ TypeOK /\ Frames /\ stack # <<>> /\ Top.at = "emit" /\ Running("emit") /\ s.owner = Nobody
      /\ shared.subscribers # <<>> /\ shared' = [shared EXCEPT !.didEmit = TRUE, !.last = list]
      /\ UNCHANGED <<simple, rows, memory, rejected, unnotified, held, calls, database, collection,
                     phase, given, missed>>
  BY <1>1 DEF IInv, EmitShared, Running, Top, setting, data, notices, entries, people
<1>3. /\ n \in Sources /\ list \in Lists /\ s \in Observer /\ source \in Seq(Observer) /\ DOMAIN source = Sources
      /\ s.live /\ list = s.list
  <2>1. /\ Top \in Fitting(Len(source)) /\ Sources = 1 .. Len(source) /\ source \in Seq(Observer)
        /\ \A m \in Sources : source[m] \in Observer
    BY <1>2, TopFrame
  <2>2. n \in Sources /\ list \in Lists
    BY <1>1, <1>2, <2>1 DEF Fitting, Frame
  <2>3. s.live
    BY <1>1, <1>2, <2>2 DEF IInv, Called
  <2>4. list = s.list
    BY <1>1, <1>2, <2>2, <2>3 DEF Informed, Learns, Shown, Doing
  <2> QED  BY <1>1, <2>1, <2>2, <2>3, <2>4
<1>4. PICK f, t : f = OfSource("shared", n, list) /\ t = [s EXCEPT !.news = FALSE]
  OBVIOUS
<1>5. source' = [source EXCEPT ![n] = t] /\ stack' = <<f>> \o Below
  BY <1>1, <1>4 DEF EmitShared
<1>6. /\ t.owner = s.owner /\ t.live = s.live /\ t.list = s.list /\ t.fetching = s.fetching /\ t.pending = s.pending
      /\ t.first = s.first /\ t.observed = s.observed /\ t.states = s.states /\ t.early = s.early
      /\ t.stale = s.stale /\ t.lost = s.lost
  BY ONLY <1>3, <1>4 DEF Observer
<1>7. f \in Frame /\ f.at = "shared" /\ f.n = n /\ f.set = list /\ f.i = 0
  <2>1. f \in Frame
    BY <1>2, <1>3, <1>4, NewFrames, Fits, TopFrame
  <2> QED  BY <1>4, <2>1 DEF OfSource, NoFrame
<1>8. /\ Ordered(stack') /\ IsTop(f)' /\ f \in At("shared")'
      /\ \A at \in {"notify", "database", "collection", "subscribed", "observe"} : At(at)' = At(at)
      /\ \A g \in At("shared")' : g = f \/ g \in At("shared")
  <2>1. Loose(f) /\ stack' # Below
    <3>1. Below \in Seq(Frame)
      BY <1>2, TopFrame, HeadTailProperties DEF TypeOK, Below
    <3>2. stack' # Below
      <4>1. Len(stack') = Len(Below) + 1 /\ Len(Below) \in Nat
        BY <1>5, <1>7, <3>1, Places
      <4> QED  BY <4>1
    <3> QED  BY <1>7, <3>2 DEF Loose
  <2> QED  BY <1>2, <1>5, <1>7, <2>1, TopReplaced DEF IInv
<1>9. \A at : at # "shared" => ~Running(at)'
  BY <1>7, <1>8 DEF IsTop, Running
<1>10. /\ Sources' = Sources /\ (\A m \in Sources : m # n => source'[m] = source[m]) /\ source'[n] = t
       /\ \A m \in Sources : Still(m)
  <2>1. Sources' = Sources /\ (\A m \in Sources : m # n => source'[m] = source[m]) /\ source'[n] = t
    BY <1>3, <1>5 DEF Sources
  <2>2. Still(n)
    BY <1>1, <1>2, <1>6, <2>1 DEF Still
  <2>3. \A m \in Sources : m # n => Still(m)
    BY <1>2, <2>1 DEF Still
  <2> QED  BY <2>1, <2>2, <2>3
<1>11. Joining' /\ ToldOwn'
  BY <1>2, <1>8, <1>9 DEF Joining, ToldOwn
<1>12. \A m : ~Calls(m)'
  BY <1>9 DEF Calls, Doing
<1>13. Carries({}, {}) /\ \A m : OldEntries(m) /\ (ToObserve(m) => ToObserve(m)')
  <2>1. Longer(database, database') /\ Longer(collection, collection')
    BY <1>2 DEF Longer
  <2> QED  BY <1>2, <1>8, <2>1, CarriesOn DEF OldEntries, ToObserve
<1>14. ASSUME NEW m \in Sources
       PROVE  Learns(m)'
  <2>1. Learns(m)
    BY DEF Informed
  <2>2. PICK E : E = {}
    OBVIOUS
  <2>3. Carries(E, E) /\ m \notin E /\ \A kind \in {"simple", "columns"} : <<m, kind>> \notin E
    BY <1>13, <2>2
  <2>4. ~Doing("answer", m)
    BY <1>2 DEF Doing, Running
  <2>5. CASE m # n
    <3>1. ~Calls(m)
      BY <1>1, <1>2, <2>5 DEF Calls, Doing, Running, Top
    <3>2. Uninvolved(m)
      BY <1>10, <1>12, <1>13, <2>4, <2>5, <3>1 DEF Uninvolved
    <3> QED  BY <1>13, <2>1, <2>3, <3>2, OtherLearns
  <2>6. CASE m = n
    <3>1. KeepsAwaited(m) /\ KeepsPending(m) /\ KeepsEntries(m) /\ KeepsFetches(m)
      BY <1>1, <1>6, <1>10, <1>13, <2>3, <2>4, <2>6, CarriedKeeps
    <3>2. source[m].owner = Nobody /\ ~Doing("emit", m)'
      BY <1>1, <1>2, <1>12, <2>6 DEF Calls
    <3> QED  BY <1>10, <2>1, <3>1, <3>2, CommonLearns DEF Keeps, Still
  <2> QED  BY <2>5, <2>6
<1>15. Owned'
  BY <1>2, <1>10, OwnersStay, SubscriptionsAssumption DEF Informed, Still
<1>16. Sharing'
  <2>1. /\ shared'.subscribers = shared.subscribers /\ shared'.source = shared.source /\ shared'.didEmit
        /\ shared'.last = list /\ shared.source \in 0 .. Len(source)
    BY <1>2 DEF TypeOK, IInv, Sharers
  <2>2. SharedLoops'
    <3> SUFFICES ASSUME NEW g \in At("shared")'
                 PROVE  /\ g.n \in Sources' /\ source'[g.n].owner = Nobody
                        /\ source'[g.n].live => g.set = source'[g.n].list
                        /\ ~Doing("answer", g.n)'
      BY DEF SharedLoops
    <3>1. ~Doing("answer", g.n)'
      BY <1>9 DEF Doing
    <3>2. CASE g = f
      BY <1>1, <1>2, <1>3, <1>6, <1>7, <1>10, <3>1, <3>2
    <3>3. CASE g \in At("shared")
      BY <1>10, <3>1, <3>3 DEF Informed, Sharing, SharedLoops, Still
    <3> QED  BY <1>8, <3>2, <3>3
  <2>3. Common(n)' /\ source'[n].list = list
    BY <1>2, <1>3, <1>6, <1>10 DEF Common
  <2>4. LastEmitted'
    <3>1. shared'.source # 0 => source'[shared'.source].owner = Nobody
      BY <1>10, <2>1, Shares DEF Informed, Sharing, LastEmitted, Still
    <3>2. HasList(shared.last)'
      BY <1>3, <1>10, <2>1, <2>3 DEF HasList
    <3> QED  BY <1>2, <1>9, <2>1, <3>1, <3>2 DEF LastEmitted
  <2>5. \A u \in Range(shared'.subscribers) : WillHave(u)'
    <3>1. \A u \in Range(shared.subscribers) : Reaches(f, shared.subscribers, u)
      <4>1. shared.subscribers \in Seq(Subscribers) /\ DOMAIN shared.subscribers = 1 .. Len(shared.subscribers)
        BY <1>2 DEF TypeOK
      <4> QED  BY <1>7, <4>1, RangeOf DEF Reaches
    <3> QED  BY <1>7, <1>8, <2>1, <2>3, <3>1 DEF WillHave, Common
  <2> QED  BY <1>2, <2>1, <2>2, <2>4, <2>5 DEF Sharing, Informed
<1>17. \A m \in Sources' : Learns(m)'
  BY <1>10, <1>14
<1> QED  BY <1>8, <1>11, <1>15, <1>16, <1>17 DEF Informed

(* A subscriber is called.                                                 *)
LEMMA TellStep ==
  ASSUME IInv, Ordered(stack), Joining, Tell
  PROVE  /\ TypeOK /\ Frames /\ Running("tell") /\ Top.u \in Subscribers /\ Top.set \in Lists
         /\ given' = [given EXCEPT ![Top.u] = Seen(Top.u, Top.set)] /\ given'[Top.u] = Seen(Top.u, Top.set)
         /\ \A u \in Subscribers : u # Top.u => given'[u] = given[u]
         /\ UNCHANGED <<simple, rows, memory, rejected, unnotified, held, calls, database,
                        collection, shared, source, phase, missed, Sources>>
         /\ Ordered(stack') /\ Joining'
         /\ \A at \in {"answer", "emit", "tell"} : ~Running(at)'
         /\ \A at \in {"notify", "database", "collection", "shared", "subscribed", "observe"} : At(at)' = At(at)
<1>1. /\ TypeOK /\ Frames /\ stack # <<>> /\ Top.at = "tell" /\ Running("tell")
      /\ given' = [given EXCEPT ![Top.u] = Seen(Top.u, Top.set)]
      /\ UNCHANGED <<simple, rows, memory, rejected, unnotified, held, calls, database, collection,
                     shared, source, phase, missed, Sources>>
  BY DEF IInv, Tell, Running, Top, setting, data, notices, entries, observers, Sources
<1>2. Top.u \in Subscribers /\ Top.set \in Lists
  BY <1>1, TopFrame DEF Fitting, Frame
<1>3. DOMAIN given = Subscribers
  BY <1>1 DEF TypeOK
<1>4. PICK f : f = OfUser("user", Top.u, {})
  OBVIOUS
<1>5. f \in Frame /\ f.at = "user" /\ stack' = <<f>> \o Below
  <2>1. f \in Frame
    BY <1>1, <1>2, <1>4, NewFrames, Fits, TopFrame DEF Lists
  <2> QED  BY <1>4, <2>1 DEF OfUser, NoFrame, Tell
<1>6. Loose(f) /\ stack' # Below
  <2>1. Below \in Seq(Frame)
    BY <1>1, TopFrame, HeadTailProperties DEF TypeOK, Below
  <2>2. Len(stack') = Len(Below) + 1 /\ Len(Below) \in Nat
    BY <1>5, <2>1, Places
  <2>3. stack' # Below
    BY <2>2
  <2> QED  BY <1>5, <2>3 DEF Loose
<1>7. /\ Ordered(stack') /\ IsTop(f)'
      /\ \A at \in {"notify", "database", "collection", "shared", "subscribed", "observe"} : At(at)' = At(at)
  BY <1>1, <1>5, <1>6, TopReplaced DEF IInv
<1>8. \A at \in {"answer", "emit", "tell"} : ~Running(at)'
  BY <1>5, <1>7 DEF IsTop, Running
<1>9. Joining'
  BY <1>1, <1>7 DEF Joining
<1>10. /\ given'[Top.u] = Seen(Top.u, Top.set)
       /\ \A u \in Subscribers : u # Top.u => given'[u] = given[u]
  BY <1>1, <1>2, <1>3
<1> QED  BY <1>1, <1>2, <1>7, <1>8, <1>9, <1>10

LEMMA TellLearns ==
  ASSUME IInv, Ordered(stack), Joining, Informed, Tell
  PROVE  Ordered(stack') /\ Joining' /\ Informed'
<1>1. /\ TypeOK /\ Frames /\ Running("tell") /\ Top.u \in Subscribers /\ Top.set \in Lists
      /\ given'[Top.u] = Seen(Top.u, Top.set)
      /\ \A u \in Subscribers : u # Top.u => given'[u] = given[u]
      /\ UNCHANGED <<simple, rows, memory, rejected, unnotified, held, calls, database, collection,
                     shared, source, phase, missed, Sources>>
      /\ Ordered(stack') /\ Joining'
      /\ \A at \in {"answer", "emit", "tell"} : ~Running(at)'
      /\ \A at \in {"notify", "database", "collection", "shared", "subscribed", "observe"} : At(at)' = At(at)
  BY TellStep
<1>2. \A n : ~Calls(n)' /\ ~Doing("answer", n)' /\ ~Doing("answer", n) /\ ~Doing("emit", n) /\ ~EmitsShared /\ ~EmitsShared'
  BY <1>1 DEF Calls, Doing, EmitsShared, Running
<1>3. Carries({}, {}) /\ \A m : OldEntries(m) /\ (ToObserve(m) => ToObserve(m)')
  <2>1. Longer(database, database') /\ Longer(collection, collection')
    BY <1>1 DEF Longer
  <2> QED  BY <1>1, <2>1, CarriesOn DEF OldEntries, ToObserve
<1>4. ASSUME NEW m \in Sources
      PROVE  Keeps(m)
  <2>1. PICK E : E = {}
    OBVIOUS
  <2>2. Carries(E, E) /\ m \notin E /\ <<m, "simple">> \notin E /\ <<m, "columns">> \notin E
    BY <1>3, <2>1
  <2> QED  BY <1>1, <1>2, <1>3, <2>2, CarriedKeeps DEF Keeps
<1>5. ASSUME NEW m \in Sources, source[m].owner # Nobody
      PROVE  /\ source[m].owner \in Columns /\ source[m].owner \in Subscribers
             /\ source[m].live /\ Doing("tell", m) => source[m].owner = Top.u
             /\ source[m].live /\ ~Doing("tell", m) => source[m].owner # Top.u
  <2>1. source[m].owner \in Columns /\ source[m].owner \in Subscribers
    BY <1>5, SubscriptionsAssumption DEF IInv, Owners
  <2>2. source[m].live /\ Doing("tell", m) => source[m].owner = Top.u
    BY <1>5 DEF Informed, Learns, Shown, Telling
  <2>3. source[m].owner = Top.u => Doing("tell", m)
    <3>1. source[m].owner = Top.u => Top.n \in Sources /\ source[Top.n].owner = Top.u
      BY <1>1, <2>1 DEF Informed, ToldOwn
    <3>2. source[m].owner = Top.u => Top.n = m
      BY <1>5, <3>1 DEF IInv, Owners
    <3> QED  BY <1>1, <3>2 DEF Doing
  <2> QED  BY <2>1, <2>2, <2>3
<1>6. ASSUME NEW m \in Sources
      PROVE  Learns(m)'
  <2>1. Learns(m) /\ Keeps(m)
    BY <1>4 DEF Informed
  <2>2. CASE source[m].owner = Nobody
    BY <1>1, <2>1, <2>2, CommonLearns DEF Doing
  <2>3. CASE ~source[m].live
    BY <1>1, <2>3 DEF Learns
  <2>4. CASE source[m].owner # Nobody /\ source[m].live /\ ~Doing("tell", m)
    <3>1. Still(m) /\ ~Calls(m)
      BY <1>1, <1>2, <1>5, <2>4 DEF Still, Calls
    <3> QED  BY <1>2, <2>1, <3>1, LearnsStill
  <2>5. CASE source[m].owner # Nobody /\ source[m].live /\ Doing("tell", m)
    <3>1. /\ NoticeComes(m) /\ HasEntries(m) /\ FetchComes(m) /\ EmissionComes(m) /\ Shown(m)
          /\ KeepsAwaited(m) /\ KeepsEntries(m) /\ KeepsFetches(m) /\ KeepsPending(m)
      BY <2>1, <2>5 DEF Learns, Keeps
    <3>2. NoticeComes(m)' /\ HasEntries(m)' /\ FetchComes(m)' /\ EmissionComes(m)'
      BY <1>1, <1>2, <3>1, NoticeStill, EntriesStill, FetchStill, PendingStill
    <3>3. Showing(m) /\ Telling(m) /\ source[m].owner = Top.u /\ source[m].owner \in Columns
      BY <1>5, <2>5, <3>1 DEF Shown
    <3>4. Showing(m)'
      BY <1>1, <1>2, <3>3 DEF Showing
    <3>5. Has(m)'
      <4>1. source[m] \in Observer
        BY <1>1, TopFrame
      <4>2. PICK u, list, states : u = Top.u /\ list = Top.set /\ states = source[m].states
        OBVIOUS
      <4>3. given'[u] = Seen(u, list) /\ list = source[m].observed /\ list \subseteq Records /\ u \in Columns
            /\ states \in [Records -> 0 .. 1]
        BY <1>1, <3>3, <4>1, <4>2 DEF Telling, Observer, Lists
      <4>4. \A id \in Records \ list : states[id] = 0
        BY <3>3, <4>2, <4>3 DEF Showing
      <4>5. ~source[m].early => \A id \in list : states[id] = memory[id].col
        BY <3>3, <4>2, <4>3 DEF Telling
      <4>6. ~source[m].early => states = [id \in Records |-> IF u \in Columns /\ id \in list THEN memory[id].col ELSE 0]
        BY <4>3, <4>4, <4>5
      <4>7. given'[u].list = list /\ (~source[m].early => given'[u].cols = states)
        BY <4>3, <4>6 DEF Seen
      <4> QED  BY <1>1, <3>3, <4>2, <4>3, <4>7 DEF Has
    <3>6. Shown(m)'
      BY <1>1, <1>2, <3>1, <3>4, <3>5 DEF Shown, Calls
    <3> QED  BY <3>2, <3>6 DEF Learns
  <2> QED  BY <2>2, <2>3, <2>4, <2>5
<1>7. ToldOwn' /\ Owned'
  BY <1>1, OwnersStay, SubscriptionsAssumption DEF ToldOwn, Informed
<1>8. Sharing'
  <2>1. CASE Top.u \in Columns
    <3>1. SharersStay /\ CommonStay /\ LoopsStay
      BY <1>1, <1>2, <2>1 DEF SharersStay, CommonStay, Common, LoopsStay
    <3>2. Elsewhere
      BY <1>1, <1>2, <2>1 DEF Elsewhere, FirstSource, Running
    <3> QED  BY <3>1, <3>2, SharingStill DEF Informed
  <2>2. CASE Top.u \notin Columns
    <3>1. SharedLoops'
      BY <1>1, <1>2 DEF SharedLoops, Informed, Sharing
    <3>2. /\ \A n \in Sources : Common(n)' <=> Common(n)
          /\ \A list : HasList(list) => HasList(list)'
          /\ ~FirstSource /\ (NewSource => NewSource')
      BY <1>1 DEF Common, HasList, NewSource, FirstSource, Running
    <3>3. LastEmitted'
      <4>1. shared.didEmit => shared.subscribers # <<>> /\ HasList(shared.last)'
        BY <1>1, <1>2, <3>2 DEF Informed, Sharing, LastEmitted
      <4>2. ~shared.didEmit /\ shared.subscribers # <<>> => NewSource'
        BY <1>2, <3>2 DEF Informed, Sharing, LastEmitted
      <4> QED  BY <1>1, <4>1, <4>2 DEF Informed, Sharing, LastEmitted
    <3>4. ASSUME NEW u \in Range(shared.subscribers) \ missed
          PROVE  WillHave(u)'
      <4>1. WillHave(u) /\ u \in Subscribers \ Columns
        BY Shares DEF Informed, Sharing
      <4>2. CASE u = Top.u
        <5>1. HasList(Top.set)
          BY <1>1, <3>4, <4>1, <4>2 DEF Informed, Sharing, LastEmitted
        <5>2. PICK n \in Sources : Common(n) /\ source[n].list = Top.set
          BY <5>1 DEF HasList
        <5>3. given'[u] = Plain(source[n].list)
          BY <1>1, <4>1, <4>2, <5>2 DEF Seen, Plain
        <5>4. n \in Sources' /\ Common(n)' /\ given'[u] = Plain(source'[n].list)
          BY <1>1, <3>2, <5>2, <5>3
        <5> QED  BY <5>4 DEF WillHave, Plain
      <4>3. CASE u # Top.u
        <5>1. given'[u] = given[u]
          BY <1>1, <4>1, <4>3
        <5>2. CASE NewSource
          BY <3>2, <5>2 DEF WillHave
        <5>3. CASE \E n \in Sources : Common(n) /\ given[u] = Plain(source[n].list)
          BY <1>1, <3>2, <5>1, <5>3 DEF WillHave, Plain
        <5>4. CASE \E f \in At("shared") : source[f.n].live /\ Reaches(f, shared.subscribers, u)
          BY <1>1, <5>4 DEF WillHave
        <5> QED  BY <1>2, <3>2, <4>1, <4>3, <5>2, <5>3, <5>4 DEF WillHave
      <4> QED  BY <4>2, <4>3
    <3> QED  BY <1>1, <3>1, <3>3, <3>4 DEF Sharing, Informed
  <2> QED  BY <2>1, <2>2
<1>9. \A m \in Sources' : Learns(m)'
  BY <1>1, <1>6
<1> QED  BY <1>1, <1>7, <1>8, <1>9 DEF Informed

-----------------------------------------------------------------------------
(* The steps of a loop: it goes on to the next entry, and may call.        *)

LEMMA TopMovesOn ==
  ASSUME TypeOK, Frames, Ordered(stack), stack # <<>>, NEW loop \in {"database", "collection", "shared"}, Top.at = loop, HasNext(Top),
         NEW f \in Frame, Loose(f), f.at # loop, NEW g, g = Moved(Top),
         stack' = <<g>> \o Below \/ stack' = <<f>> \o (<<g>> \o Below)
  PROVE  /\ Ordered(stack') /\ g \in Frame /\ g.at = loop /\ g \in At(loop)'
         /\ stack' = <<g>> \o Below => IsTop(g)'
         /\ stack' = <<f>> \o (<<g>> \o Below) => IsTop(f)' /\ f \in At(f.at)'
         /\ \A at : at # loop /\ at # f.at => At(at)' = At(at)
         /\ \A at : at # loop => At(at) \subseteq At(at)'
         /\ \A h \in At(loop) : h = Top \/ h \in At(loop)'
         /\ \A h \in At(loop)' : h = g \/ h \in At(loop)
<1>1. Rests(Below, {Top}) /\ g \in Frame /\ g.at = loop
  BY LoopMoves DEF Rests
<1>2. Over(g, Below)
  BY <1>1, PutOn
<1>3. PICK new \in SUBSET {f, g} : /\ Replaces({Top}, new) /\ Ordered(stack') /\ g \in new
                                   /\ stack' = <<g>> \o Below => IsTop(g)'
                                   /\ stack' = <<f>> \o (<<g>> \o Below) => IsTop(f)' /\ f \in new
  <2>1. stack' = <<g>> \o Below => Replaces({Top}, {g}) /\ IsTop(g)' /\ Ordered(stack')
    BY <1>1, <1>2, PutOn
  <2>2. stack' = <<f>> \o (<<g>> \o Below) => Replaces({Top}, {f, g}) /\ IsTop(f)' /\ Ordered(stack')
    BY <1>1, <1>2, PutOn
  <2>3. stack' = <<f>> \o (<<g>> \o Below) => stack' # <<g>> \o Below
    <3>1. <<g>> \o Below \in Seq(Frame) /\ Len(<<g>> \o Below) \in Nat
      BY <1>1, PutOn, Pushed
    <3>2. Len(<<f>> \o (<<g>> \o Below)) = Len(<<g>> \o Below) + 1
      BY <3>1, Places
    <3> QED  BY <3>1, <3>2
  <2> QED  BY <2>1, <2>2, <2>3
<1>4. ASSUME NEW at
      PROVE  /\ at # loop => At(at) \subseteq At(at)'
             /\ at # loop /\ at # f.at => At(at)' = At(at)
             /\ \A h \in At(at) : h = Top \/ h \in At(at)'
             /\ at # f.at => \A h \in At(at)' : h = g \/ h \in At(at)
             /\ f \in new /\ at = f.at => f \in At(at)'
             /\ at = loop => g \in At(at)'
  <2>1. /\ (\A h \in {Top} : h.at # at) => At(at) \subseteq At(at)'
        /\ (\A h \in new : h.at # at) => At(at)' \subseteq At(at)
        /\ \A h \in At(at)' : h \in new \/ h \in At(at)
        /\ \A h \in At(at) : h \in {Top} \/ h \in At(at)'
        /\ \A h \in new : h.at = at => h \in At(at)'
    BY <1>3, Kinds
  <2>2. at # f.at => \A h \in At(at)' : h = g \/ h \in At(at)
    <3>1. \A h \in At(at)' : h.at = at
      BY DEF At
    <3> QED  BY <1>3, <2>1, <3>1
  <2> QED  BY <1>1, <1>3, <2>1, <2>2
<1>5. stack' = <<f>> \o (<<g>> \o Below) => IsTop(f)' /\ f \in At(f.at)'
  BY <1>3, <1>4
<1>6. /\ \A at : at # loop /\ at # f.at => At(at)' = At(at)
      /\ \A at : at # loop => At(at) \subseteq At(at)'
  BY <1>4
<1>7. /\ \A h \in At(loop) : h = Top \/ h \in At(loop)'
      /\ \A h \in At(loop)' : h = g \/ h \in At(loop)
      /\ g \in At(loop)'
  BY <1>4
<1> QED  BY <1>1, <1>3, <1>5, <1>6, <1>7

(* Nothing but notifications and loops of the collection is under a loop   *)
(* over observers.                                                         *)
LEMMA UnderLoop ==
  ASSUME TypeOK, Frames, Ordered(stack), stack # <<>>
  PROVE  /\ Top.at \in {"database", "collection"} => \A at : at \notin {"notify", "collection", Top.at} => At(at) = {}
         /\ Top.at = "notify" => \A at : at # "notify" => At(at) = {}
<1>1. Over(Top, Below) /\ Range(stack) = {Top} \cup Range(Below)
  <2>1. stack \in Seq(Frame)
    BY DEF TypeOK
  <2> QED  BY <2>1, OrderedBelow, RangeOf DEF Top, Below
<1>2. /\ Top.at = "notify" => \A g \in Range(Below) : g.at = "notify"
      /\ Top.at \in {"database", "collection"} => \A g \in Range(Below) : g.at \in {"notify", "collection"}
  BY <1>1 DEF Over, MayBeOn
<1> QED  BY <1>1, <1>2 DEF At

LEMMA FetchMade ==
  ASSUME TypeOK, NEW n \in Nat, calls' = FetchCalls(n),
         synchronous => Doing("answer", n)'
  PROVE  Range(calls) \subseteq Range(calls') /\ Fetched(n)'
<1>1. PICK Call, call : /\ Call = [type : {"fetch", "batch"}, n : Nat, rows : Rows, set : Lists]
                        /\ call = [type |-> "fetch", n |-> n, rows |-> NoRows, set |-> {}]
  OBVIOUS
<1>2. call \in Call /\ calls \in Seq(Call) /\ call.type = "fetch" /\ call.n = n
  <2>1. NoRows \in Rows
    BY DEF NoRows, Rows, Row
  <2>2. calls \in Seq(Call)
    BY <1>1 DEF TypeOK
  <2>3. {} \in Lists
    BY DEF Lists
  <2> QED  BY <1>1, <2>1, <2>2, <2>3
<1>3. calls' = IF synchronous THEN calls ELSE Append(calls, call)
  BY <1>1 DEF FetchCalls
<1>4. Range(Append(calls, call)) = Range(calls) \cup {call}
  BY <1>2, RangeAppended
<1>5. CASE synchronous
  BY <1>3, <1>5 DEF Fetched
<1>6. CASE ~synchronous
  BY <1>2, <1>3, <1>4, <1>6 DEF Fetched
<1> QED  BY <1>5, <1>6

LEMMA ReloadingStep ==
  ASSUME IInv, Ordered(stack), CallReloading, NEW n, n = NextOf(Top)
  PROVE  /\ TypeOK /\ Frames /\ n \in Sources /\ n \in Nat /\ ~simple /\ source[n].live
         /\ stack # <<>> /\ Top.at = "database" /\ calls' = FetchCalls(n)
         /\ source' = [source EXCEPT ![n].fetching = TRUE]
         /\ UNCHANGED <<simple, rows, memory, rejected, unnotified, held, database, collection,
                        shared, phase, given, missed>>
         /\ Ordered(stack') /\ ~Running("tell")' /\ ~Running("emit")' /\ (synchronous => Doing("answer", n)')
         /\ \A m : m # n => ~Doing("answer", m)'
         /\ \A at \in {"notify", "collection", "shared", "subscribed", "observe"} : At(at)' = At(at)
         /\ At("shared") = {} /\ GoesOn("database", database, database', {n})
<1>1. /\ TypeOK /\ Frames /\ stack # <<>> /\ Top.at = "database" /\ HasNext(Top) /\ calls' = FetchCalls(n)
      /\ source' = [source EXCEPT ![n].fetching = TRUE] /\ stack' = FetchFrames(n) \o <<Moved(Top)>> \o Below
      /\ UNCHANGED <<simple, rows, memory, rejected, unnotified, held, database, collection, shared,
                     phase, given, missed>>
      /\ In("database")
  BY DEF IInv, CallReloading, In, Running, Top, setting, data, notices, entries, people
<1>2. n \in Sources /\ n \in Nat /\ Top.i + 1 \in DOMAIN database /\ n = database[Top.i + 1]
  BY <1>1, DatabaseItem DEF Sources
<1>3. ~simple /\ source[n].live
  <2>1. database # <<>>
    BY <1>2
  <2> QED  BY <1>2, <2>1 DEF IInv, Arrays, NothingStaysSubscribed
<1>4. PICK f, g : f = OfSource("answer", n, {}) /\ g = Moved(Top)
  OBVIOUS
<1>5. f \in Frame /\ f.at = "answer" /\ f.n = n /\ Loose(f) /\ g \in Frame /\ g.at = "database"
  <2>1. f \in Frame
    BY <1>1, <1>2, <1>4, NewFrames, Fits, TopFrame DEF Lists
  <2>2. f.at = "answer" /\ f.n = n /\ Loose(f)
    BY <1>4 DEF OfSource, NoFrame, Loose
  <2> QED  BY <1>1, <1>4, <2>1, <2>2, LoopMoves
<1>6. stack' = IF synchronous THEN <<f>> \o (<<g>> \o Below) ELSE <<g>> \o Below
  <2>1. Below \in Seq(Frame)
    BY <1>1, TopFrame, HeadTailProperties DEF TypeOK, Below
  <2>2. CASE synchronous
    <3>1. stack' = <<f>> \o <<g>> \o Below
      BY <1>1, <1>4, <2>2 DEF FetchFrames
    <3>2. <<f>> \in Seq(Frame) /\ <<g>> \in Seq(Frame)
      BY <1>5
    <3>3. (<<f>> \o <<g>>) \o Below = <<f>> \o (<<g>> \o Below)
      BY <2>1, <3>2, ConcatAssociative
    <3> QED  BY <2>2, <3>1, <3>3
  <2>3. CASE ~synchronous
    <3>1. stack' = <<>> \o <<g>> \o Below
      BY <1>1, <1>4, <2>3 DEF FetchFrames
    <3> QED  BY <1>5, <2>1, <2>3, <3>1
  <2> QED  BY <2>2, <2>3
<1>7. PICK loop \in {"database", "collection", "shared"} : loop = "database"
  OBVIOUS
<1>8. /\ Ordered(stack') /\ g \in At(loop)'
      /\ stack' = <<g>> \o Below => IsTop(g)'
      /\ stack' = <<f>> \o (<<g>> \o Below) => IsTop(f)'
      /\ \A at : at # loop /\ at # f.at => At(at)' = At(at)
      /\ \A h \in At(loop) : h = Top \/ h \in At(loop)'
      /\ \A h \in At(loop)' : h = g \/ h \in At(loop)
  BY <1>1, <1>4, <1>5, <1>6, <1>7, TopMovesOn DEF IInv
<1>9. \A at \in {"notify", "collection", "shared", "subscribed", "observe"} : At(at)' = At(at)
  BY <1>5, <1>7, <1>8
<1>10. ~Running("tell")' /\ ~Running("emit")' /\ (synchronous => Doing("answer", n)')
       /\ \A m : m # n => ~Doing("answer", m)'
  BY <1>5, <1>6, <1>8 DEF IsTop, Running, Doing, Top
<1>11. At("shared") = {}
  BY <1>1, UnderLoop
<1>12. GoesOn("database", database, database', {n})
  <2>1. /\ g.set = Top.set /\ Top \in At("database") /\ NextOf(Top) = n
        /\ \A e : Reaches(Top, database, e) /\ e # n => Reaches(g, database, e)
        /\ \A e : Includes(Top, database, e) => Includes(g, database, e)
    <3>1. Items(Top.at) = database
      BY <1>1, LoopItems
    <3>2. Top \in At(Top.at)
      BY <1>1, TopGoes
    <3> QED  BY <1>1, <1>4, <3>1, <3>2, LoopMoves
  <2>2. PICK top : top = Top
    OBVIOUS
  <2>3. top \in At("database") /\ g \in At("database")' /\ g.set = top.set
        /\ (\A e : Reaches(top, database, e) /\ e \notin {n} => Reaches(g, database, e))
        /\ (\A e : Includes(top, database, e) => Includes(g, database, e))
        /\ (\A h \in At("database")' : h = g \/ h \in At("database"))
        /\ (\A h \in At("database") : h = top \/ h \in At("database")')
    BY <1>7, <1>8, <2>1, <2>2
  <2>4. GoesOn("database", database, database, {n})
    BY <2>3, LoopMoved
  <2> QED  BY <1>1, <2>4
<1> QED  BY <1>1, <1>2, <1>3, <1>8, <1>9, <1>10, <1>11, <1>12

LEMMA ReloadingLearns ==
  ASSUME IInv, Ordered(stack), Joining, Informed, CallReloading
  PROVE  Ordered(stack') /\ Joining' /\ Informed'
<1>1. PICK n : n = NextOf(Top)
  OBVIOUS
<1>2. /\ TypeOK /\ Frames /\ n \in Sources /\ n \in Nat /\ ~simple /\ source[n].live
      /\ stack # <<>> /\ Top.at = "database" /\ calls' = FetchCalls(n)
      /\ source' = [source EXCEPT ![n].fetching = TRUE]
      /\ UNCHANGED <<simple, rows, memory, rejected, unnotified, held, database, collection, shared,
                     phase, given, missed>>
      /\ Ordered(stack') /\ ~Running("tell")' /\ ~Running("emit")' /\ (synchronous => Doing("answer", n)')
      /\ \A m : m # n => ~Doing("answer", m)'
      /\ \A at \in {"notify", "collection", "shared", "subscribed", "observe"} : At(at)' = At(at)
      /\ At("shared") = {} /\ GoesOn("database", database, database', {n})
  BY <1>1, ReloadingStep
<1>3. PICK s, t : s = source[n] /\ t = [s EXCEPT !.fetching = TRUE]
  OBVIOUS
<1>4. s \in Observer /\ source \in Seq(Observer) /\ Sources = 1 .. Len(source) /\ DOMAIN source = 1 .. Len(source)
  BY <1>2, <1>3, TopFrame
<1>5. /\ t.owner = s.owner /\ t.live = s.live /\ t.list = s.list /\ t.fetching = TRUE /\ t.pending = s.pending
      /\ t.first = s.first /\ t.observed = s.observed /\ t.states = s.states /\ t.early = s.early
      /\ t.stale = s.stale /\ t.lost = s.lost
  BY ONLY <1>3, <1>4 DEF Observer
<1>6. Sources' = Sources /\ (\A m \in Sources : m # n => source'[m] = source[m]) /\ source'[n] = t
  BY <1>2, <1>3, <1>4 DEF Sources
<1>7. Joining' /\ ToldOwn'
  BY <1>2 DEF Joining, ToldOwn
<1>8. \A m : ~Calls(m) /\ ~Calls(m)' /\ ~Doing("answer", m) /\ ~Doing("emit", m)
  BY <1>2 DEF Calls, Doing, Running, Top
<1>9. Range(calls) \subseteq Range(calls') /\ Fetched(n)'
  BY <1>2, FetchMade
<1>10. Carries({n}, {}) /\ \A m : OldEntries(m) /\ (ToObserve(m) => ToObserve(m)')
  <2>1. Longer(database, database') /\ Longer(collection, collection')
    BY <1>2 DEF Longer
  <2>2. GoesOn("collection", collection, collection', {})
    BY <1>2, <2>1, LoopStays
  <2> QED  BY <1>2, <1>9, <2>1, <2>2 DEF Carries, OldEntries, ToObserve
<1>11. ASSUME NEW m \in Sources
       PROVE  Learns(m)'
  <2>1. Learns(m)
    BY DEF Informed
  <2>2. PICK D, E : D = {n} /\ E = {}
    OBVIOUS
  <2>3. Carries(D, E) /\ \A kind \in {"simple", "columns"} : <<m, kind>> \notin E
    BY <1>10, <2>2
  <2>4. CASE m # n
    <3>1. Uninvolved(m) /\ m \notin D
      BY <1>2, <1>6, <1>8, <1>10, <2>2, <2>4 DEF Uninvolved, Still
    <3> QED  BY <1>10, <2>1, <2>3, <3>1, OtherLearns
  <2>5. CASE m = n
    <3>1. KeepsAwaited(m) /\ KeepsPending(m) /\ KeepsEntries(m)
      BY <1>3, <1>5, <1>6, <1>10, <2>3, <2>5, CarriedKeeps
    <3>2. NoticeComes(m) /\ HasEntries(m) /\ EmissionComes(m) /\ Shown(m)
      BY <1>2, <2>1, <2>5 DEF Learns
    <3>3. NoticeComes(m)' /\ HasEntries(m)'
      BY <1>3, <1>5, <1>6, <2>5, <3>1, <3>2, NoticeStill, EntriesStill
    <3>4. FetchComes(m)'
      BY <1>2, <1>9, <2>5 DEF FetchComes, Refetched
    <3>5. EmissionComes(m)'
      BY <1>2, <1>5, <1>6, <2>5 DEF EmissionComes
    <3>6. Shown(m)'
      BY <1>2, <1>3, <1>5, <1>6, <1>8, <2>5, <3>2, ShownStill
    <3> QED  BY <3>3, <3>4, <3>5, <3>6 DEF Learns
  <2> QED  BY <2>4, <2>5
<1>12. Owned'
  BY <1>2, <1>3, <1>5, <1>6, OwnersStay, SubscriptionsAssumption DEF Informed
<1>13. Sharing'
  <2>1. SharersStay /\ CommonStay
    BY <1>2, <1>3, <1>5, <1>6 DEF SharersStay, CommonStay, Common
  <2>2. LoopsStay
    BY <1>2 DEF LoopsStay
  <2>3. Elsewhere
    BY <1>2 DEF Elsewhere, EmitsShared, FirstSource, Running, Top
  <2> QED  BY <2>1, <2>2, <2>3, SharingStill DEF Informed
<1>14. \A m \in Sources' : Learns(m)'
  BY <1>6, <1>11
<1> QED  BY <1>2, <1>7, <1>12, <1>13, <1>14 DEF Informed

LEMMA SimpleStep ==
  ASSUME IInv, Ordered(stack), CallSimple, NEW n, n = NextOf(Top)[1], NEW s, s = source[n],
         NEW list, list = Processed(s.list, Top.set), NEW f, f = OfSource("emit", n, list),
         NEW t, t = [s EXCEPT !.list = list], NEW g, g = Moved(Top)
  PROVE  /\ TypeOK /\ Frames /\ n \in Sources /\ n \in Nat /\ simple /\ s.live /\ s.list \in Lists /\ list \in Lists
         /\ stack # <<>> /\ Top.at = "collection" /\ s \in Observer
         /\ source' = [source EXCEPT ![n] = t] /\ Sources' = Sources
         /\ (\A m \in Sources : m # n => source'[m] = source[m]) /\ source'[n] = t
         /\ UNCHANGED <<simple, rows, memory, rejected, unnotified, held, calls, database,
                        collection, shared, phase, given, missed>>
         /\ Ordered(stack') /\ ~Running("tell")' /\ ~Running("answer")'
         /\ \/ IsTop(f)'
            \/ ~Running("emit")' /\ list = s.list /\ s.owner = Nobody
         /\ f.at = "emit" /\ f.n = n /\ f.set = list
         /\ \A at \in {"notify", "database", "shared", "subscribed", "observe"} : At(at)' = At(at)
         /\ At("shared") = {}
         /\ \A h \in At("collection") : h = Top \/ h \in At("collection")'
         /\ GoesOn("collection", collection, collection', {<<n, "simple">>})
<1>1. /\ TypeOK /\ Frames /\ stack # <<>> /\ Top.at = "collection" /\ HasNext(Top) /\ NextOf(Top)[2] = "simple"
      /\ source' = [source EXCEPT ![n] = t]
      /\ stack' = (IF list # s.list \/ s.owner # Nobody THEN <<f>> ELSE <<>>) \o <<g>> \o Below
      /\ UNCHANGED <<simple, rows, memory, rejected, unnotified, held, calls, database, collection,
                     shared, phase, given, missed>>
      /\ In("collection")
  BY DEF IInv, CallSimple, In, Running, Top, setting, data, notices, entries, people
<1>2. n \in Sources /\ n \in Nat /\ Top.i + 1 \in DOMAIN collection /\ NextOf(Top) = collection[Top.i + 1]
      /\ NextOf(Top) = <<n, "simple">> /\ Top.set \in Lists
  <2>1. /\ NextOf(Top) \in Sources \X {"columns", "simple"} /\ n \in Sources /\ Top.i + 1 \in DOMAIN collection
        /\ NextOf(Top) = collection[Top.i + 1] /\ Top.set \in Lists
    BY <1>1, CollectionItem
  <2>2. \A x \in Sources \X {"columns", "simple"} : x = <<x[1], x[2]>>
    OBVIOUS
  <2>3. NextOf(Top) = <<n, "simple">>
    BY <1>1, <2>1, <2>2
  <2> QED  BY <2>1, <2>3 DEF Sources
<1>3. simple /\ s.live /\ s.list \in Lists
  <2>1. PICK i \in DOMAIN collection : collection[i] = <<n, "simple">>
    BY <1>2
  <2>2. collection[i][1] = n /\ collection[i][2] = "simple"
    BY <2>1
  <2> QED  BY <2>2 DEF IInv, Arrays, NothingStaysSubscribed
<1>4. list \in Lists
  BY <1>2, <1>3 DEF Processed, Matching, Lists
<1>5. source \in Seq(Observer) /\ s \in Observer /\ Sources = 1 .. Len(source) /\ DOMAIN source = 1 .. Len(source)
  BY <1>1, <1>2, TopFrame
<1>6. Sources' = Sources /\ (\A m \in Sources : m # n => source'[m] = source[m]) /\ source'[n] = t
  BY <1>1, <1>2, <1>5 DEF Sources
<1>7. f \in Frame /\ f.at = "emit" /\ f.n = n /\ f.set = list /\ Loose(f) /\ g \in Frame /\ g.at = "collection"
  <2>1. f \in Frame
    BY <1>1, <1>2, <1>4, NewFrames, Fits, TopFrame
  <2>2. f.at = "emit" /\ f.n = n /\ f.set = list /\ Loose(f)
    BY DEF OfSource, NoFrame, Loose
  <2> QED  BY <1>1, <2>1, <2>2, LoopMoves
<1>8. stack' = IF list # s.list \/ s.owner # Nobody THEN <<f>> \o (<<g>> \o Below) ELSE <<g>> \o Below
  <2>1. Below \in Seq(Frame) /\ <<f>> \in Seq(Frame) /\ <<g>> \in Seq(Frame)
    <3>1. Below \in Seq(Frame)
      BY <1>1, HeadTailProperties DEF TypeOK, Below
    <3> QED  BY <1>7, <3>1
  <2>2. (<<f>> \o <<g>>) \o Below = <<f>> \o (<<g>> \o Below)
    BY <2>1, ConcatAssociative
  <2>3. <<>> \o <<g>> = <<g>>
    BY <2>1
  <2> QED  BY <1>1, <2>2, <2>3
<1>9. PICK loop \in {"database", "collection", "shared"} : loop = "collection"
  OBVIOUS
<1>10. /\ Ordered(stack') /\ g \in At(loop)'
       /\ stack' = <<g>> \o Below => IsTop(g)'
       /\ stack' = <<f>> \o (<<g>> \o Below) => IsTop(f)'
       /\ \A at : at # loop /\ at # f.at => At(at)' = At(at)
       /\ \A h \in At(loop) : h = Top \/ h \in At(loop)'
       /\ \A h \in At(loop)' : h = g \/ h \in At(loop)
  BY <1>1, <1>7, <1>8, <1>9, TopMovesOn DEF IInv
<1>11. \A at \in {"notify", "database", "shared", "subscribed", "observe"} : At(at)' = At(at)
  BY <1>7, <1>9, <1>10
<1>12. ~Running("tell")' /\ ~Running("answer")' /\ (~IsTop(f)' => ~Running("emit")' /\ list = s.list /\ s.owner = Nobody)
  BY <1>7, <1>8, <1>10 DEF IsTop, Running
<1>13. At("shared") = {}
  BY <1>1, UnderLoop
<1>14. GoesOn("collection", collection, collection', {<<n, "simple">>})
  <2>1. /\ g.set = Top.set /\ Top \in At("collection")
        /\ \A e : Reaches(Top, collection, e) /\ e # <<n, "simple">> => Reaches(g, collection, e)
        /\ \A e : Includes(Top, collection, e) => Includes(g, collection, e)
    <3>1. Items(Top.at) = collection
      BY <1>1, LoopItems
    <3>2. Top \in At(Top.at)
      BY <1>1, TopGoes
    <3> QED  BY <1>1, <1>2, <3>1, <3>2, LoopMoves
  <2>2. PICK top, e : top = Top /\ e = <<n, "simple">>
    OBVIOUS
  <2>3. top \in At("collection") /\ g \in At("collection")' /\ g.set = top.set
        /\ (\A d : Reaches(top, collection, d) /\ d \notin {e} => Reaches(g, collection, d))
        /\ (\A d : Includes(top, collection, d) => Includes(g, collection, d))
        /\ (\A h \in At("collection")' : h = g \/ h \in At("collection"))
        /\ (\A h \in At("collection") : h = top \/ h \in At("collection")')
    BY <1>9, <1>10, <2>1, <2>2
  <2>4. GoesOn("collection", collection, collection, {e})
    BY <2>3, LoopMoved
  <2> QED  BY <1>1, <2>2, <2>4
<1> QED  BY <1>1, <1>2, <1>3, <1>4, <1>5, <1>6, <1>7, <1>9, <1>10, <1>11, <1>12, <1>13, <1>14

LEMMA SimpleLearns ==
  ASSUME IInv, Ordered(stack), Joining, Informed, CallSimple
  PROVE  Ordered(stack') /\ Joining' /\ Informed'
<1>1. PICK n, s, list, f, t, g, e :
        /\ n = NextOf(Top)[1] /\ s = source[n] /\ list = Processed(s.list, Top.set) /\ f = OfSource("emit", n, list)
        /\ t = [s EXCEPT !.list = list] /\ g = Moved(Top) /\ e = <<n, "simple">>
  OBVIOUS
<1>2. /\ TypeOK /\ Frames /\ n \in Sources /\ n \in Nat /\ simple /\ s.live /\ s.list \in Lists /\ list \in Lists
      /\ stack # <<>> /\ Top.at = "collection" /\ s \in Observer
      /\ source' = [source EXCEPT ![n] = t] /\ Sources' = Sources
      /\ (\A m \in Sources : m # n => source'[m] = source[m]) /\ source'[n] = t
      /\ UNCHANGED <<simple, rows, memory, rejected, unnotified, held, calls, database, collection,
                     shared, phase, given, missed>>
      /\ Ordered(stack') /\ ~Running("tell")' /\ ~Running("answer")'
      /\ \/ IsTop(f)'
         \/ ~Running("emit")' /\ list = s.list /\ s.owner = Nobody
      /\ f.at = "emit" /\ f.n = n /\ f.set = list
      /\ \A at \in {"notify", "database", "shared", "subscribed", "observe"} : At(at)' = At(at)
      /\ At("shared") = {}
      /\ \A h \in At("collection") : h = Top \/ h \in At("collection")'
      /\ GoesOn("collection", collection, collection', {e})
  <2>1. GoesOn("collection", collection, collection', {<<n, "simple">>})
    BY <1>1, SimpleStep
  <2>2. GoesOn("collection", collection, collection', {e})
    BY <1>1, <2>1
  <2> QED  BY <1>1, <2>2, SimpleStep
<1>3. /\ t.owner = s.owner /\ t.live = s.live /\ t.list = list /\ t.fetching = s.fetching /\ t.pending = s.pending
      /\ t.first = s.first /\ t.observed = s.observed /\ t.states = s.states /\ t.early = s.early
      /\ t.stale = s.stale /\ t.lost = s.lost
  BY ONLY <1>1, <1>2 DEF Observer
<1>4. list # NoList /\ s.list # NoList
  BY <1>2, SubscriptionsAssumption DEF Lists
<1>5. Joining' /\ ToldOwn'
  BY <1>2 DEF Joining, ToldOwn
<1>6. /\ IsTop(f)' => Doing("emit", n)' /\ stack' # <<>> /\ Head(stack') = f
      /\ \A m : ~Calls(m) /\ ~Doing("answer", m) /\ ~Doing("emit", m) /\ ~Doing("tell", m)
      /\ \A m : ~Doing("tell", m)' /\ (m # n => ~Calls(m)')
  BY <1>2 DEF Calls, Doing, Running, Top, IsTop
<1>7. Carries({}, {e}) /\ \A m : OldEntries(m) /\ (ToObserve(m) => ToObserve(m)')
  <2>1. Longer(database, database') /\ Longer(collection, collection')
    BY <1>2 DEF Longer
  <2>2. GoesOn("database", database, database', {})
    BY <1>2, <2>1, LoopStays
  <2> QED  BY <1>2, <2>1, <2>2 DEF Carries, OldEntries, ToObserve
<1>8. ASSUME NEW m \in Sources
      PROVE  Learns(m)'
  <2>1. Learns(m)
    BY DEF Informed
  <2>2. PICK D, E : D = {} /\ E = {e}
    OBVIOUS
  <2>3. Carries(D, E) /\ m \notin D
    BY <1>7, <2>2
  <2>4. CASE m # n
    <3>1. Uninvolved(m)
      BY <1>2, <1>6, <1>7, <2>4 DEF Uninvolved, Still
    <3>2. \A kind \in {"simple", "columns"} : <<m, kind>> \notin E
      BY <1>1, <2>2, <2>4
    <3> QED  BY <1>7, <2>1, <2>3, <3>1, <3>2, OtherLearns
  <2>5. CASE m = n
    <3>1. KeepsEntries(m)
      BY <1>7, <2>3, CarriedKeeps
    <3>2. NoticeComes(m) /\ HasEntries(m) /\ EmissionComes(m) /\ Shown(m)
      BY <1>1, <1>2, <2>1, <2>5 DEF Learns
    <3>3. HasEntries(m)'
      BY <1>1, <1>2, <1>3, <1>4, <2>5, <3>1, <3>2, EntriesStill
    <3>4. FetchComes(m)'
      BY <1>2, <1>3, <1>4, <2>5 DEF FetchComes
    <3>5. NoticeComes(m)'
      <4> SUFFICES ASSUME ~t.lost, NEW id \in Records
                   PROVE  /\ ~(id \in list <=> memory[id].in) => Awaited(e, id)'
                          /\ id \in s.observed /\ s.states[id] # memory[id].col => Awaited(<<m, "columns">>, id)'
        <5>1. <<m, "simple">> = e
          BY <1>1, <2>5
        <5>2. source'[m] = t /\ simple' = simple /\ memory' = memory
          BY <1>2, <2>5
        <5> QED  BY <1>3, <5>1, <5>2 DEF NoticeComes
      <4>1. ~(id \in list <=> memory[id].in) => Awaited(e, id)'
        <5> SUFFICES ASSUME ~(id \in list <=> memory[id].in)
                     PROVE  Awaited(e, id)'
          OBVIOUS
        <5>1. id \notin Top.set /\ (id \in list <=> id \in s.list)
          BY <1>1 DEF Processed, Matching
        <5>2. Awaited(e, id)
          BY <1>1, <1>2, <1>3, <1>4, <2>5, <3>2, <5>1 DEF NoticeComes
        <5>3. Coming(id) => Coming(id)'
          BY <1>2 DEF Coming, Batches
        <5> QED  BY <1>2, <5>1, <5>2, <5>3 DEF Awaited
      <4>2. PICK d : d = <<m, "columns">>
        OBVIOUS
      <4>3. d \notin E
        BY <1>1, <2>2, <4>2
      <4>4. id \in s.observed /\ s.states[id] # memory[id].col => Awaited(d, id)
        BY <1>1, <1>3, <2>5, <3>2, <4>2 DEF NoticeComes
      <4>5. Awaited(d, id) => Awaited(d, id)'
        BY <2>3, <4>3, Carried
      <4> QED  BY <4>1, <4>2, <4>4, <4>5
    <3>6. EmissionComes(m)'
      <4> SUFFICES ASSUME s.owner # Nobody
                   PROVE  EmissionComes(m)'
        BY <1>2, <1>3, <2>5 DEF EmissionComes
      <4>1. Doing("emit", m)'
        BY <1>2, <1>6, <2>5
      <4>2. Late(m)' => Late(m)
        BY <1>1, <1>2, <1>3, <2>5 DEF Late
      <4>3. Late(m) => \A h \in At("collection") : Includes(h, collection, e)
        BY <1>1, <1>2, <2>5, <3>2 DEF EmissionComes
      <4>4. Late(m)' => \A h \in At("collection")' : Includes(h, collection', e)
        BY <1>2, <4>2, <4>3 DEF GoesOn
      <4> QED  BY <1>1, <1>2, <2>5, <4>1, <4>4 DEF EmissionComes
    <3>7. Shown(m)'
      <4>1. s.owner # Nobody => Doing("emit", m)' /\ Showing(m)'
        <5>1. s.owner # Nobody => Doing("emit", m)'
          BY <1>2, <1>6, <2>5
        <5>2. s.owner # Nobody => Showing(m)
          BY <1>1, <2>5, <3>2 DEF Shown
        <5> QED  BY <1>1, <1>2, <1>3, <1>4, <2>5, <5>1, <5>2 DEF Showing
      <4>2. s.owner # Nobody /\ ~s.first => Has(m)'
        <5>1. s.owner # Nobody /\ ~s.first => Has(m)
          BY <1>1, <1>6, <2>5, <3>2 DEF Shown
        <5> QED  BY <1>1, <1>2, <1>3, <2>5, <5>1 DEF Has
      <4>3. Doing("emit", m)' => Head(stack').set = list
        BY <1>2, <1>6, <2>5 DEF Doing
      <4>4. s.owner = Nobody => s.observed = {}
        BY <1>1, <2>5, <3>2 DEF Shown
      <4> QED  BY <1>2, <1>3, <1>6, <2>5, <4>1, <4>2, <4>3, <4>4 DEF Shown, Top
    <3> QED  BY <3>3, <3>4, <3>5, <3>6, <3>7 DEF Learns
  <2> QED  BY <2>4, <2>5
<1>9. Owned'
  BY <1>1, <1>2, <1>3, OwnersStay, SubscriptionsAssumption DEF Informed
<1>10. Sharing'
  <2>1. SharersStay
    BY <1>1, <1>2, <1>3 DEF SharersStay
  <2>2. EmitsShared' \/ CommonStay
    <3>1. CASE IsTop(f)' /\ s.owner = Nobody
      BY <1>2, <1>3, <1>6, <3>1 DEF EmitsShared, Doing, Top
    <3>2. CASE s.owner # Nobody \/ list = s.list
      BY <1>1, <1>2, <1>3, <3>2 DEF CommonStay, Common
    <3> QED  BY <1>2, <3>1, <3>2
  <2>3. LoopsStay
    BY <1>2 DEF LoopsStay
  <2>4. Elsewhere
    BY <1>2 DEF Elsewhere, EmitsShared, FirstSource, Running, Top
  <2> QED  BY <2>1, <2>2, <2>3, <2>4, SharingStill DEF Informed
<1>11. \A m \in Sources' : Learns(m)'
  BY <1>2, <1>8
<1> QED  BY <1>2, <1>5, <1>9, <1>10, <1>11 DEF Informed

(* What CallColumns computes.                                              *)
Looks(n, s, changed, states, emits, t, f) ==
  /\ n = NextOf(Top)[1] /\ s = source[n]
  /\ changed = {id \in Top.set \cap s.observed : s.states[id] # memory[id].col}
  /\ states = [id \in Records |-> IF id \in changed THEN memory[id].col ELSE s.states[id]]
  /\ emits = (changed # {} /\ ~LeftToSource(s))
  /\ t = [s EXCEPT !.pending = @ \/ (changed # {} /\ LeftToSource(s)), !.states = states,
                   !.news = @ /\ ~emits, !.early = IF emits THEN Ahead(states, s.observed) ELSE @]
  /\ f = [OfUser("tell", s.owner, s.observed) EXCEPT !.n = n]

LooksDone(n, s, emits, t, f, g) ==
  /\ TypeOK /\ Frames /\ n \in Sources /\ n \in Nat /\ s.live /\ s.owner \in Columns /\ s \in Observer
  /\ stack # <<>> /\ Top.at = "collection" /\ HasNext(Top) /\ NextOf(Top) = <<n, "columns">>
  /\ source' = [source EXCEPT ![n] = t] /\ Sources' = Sources
  /\ (\A m \in Sources : m # n => source'[m] = source[m]) /\ source'[n] = t
  /\ UNCHANGED <<simple, rows, memory, rejected, unnotified, held, calls, database, collection,
                 shared, phase, given, missed>>
  /\ Ordered(stack') /\ ~Running("emit")' /\ ~Running("answer")'
  /\ emits => IsTop(f)'
  /\ ~emits => ~Running("tell")'
  /\ f.at = "tell" /\ f.n = n /\ f.u = s.owner /\ f.set = s.observed
  /\ \A at \in {"notify", "database", "shared", "subscribed", "observe"} : At(at)' = At(at)
  /\ At("shared") = {}
  /\ g \in At("collection")'
  /\ \A h \in At("collection") : h = Top \/ h \in At("collection")'
  /\ GoesOn("collection", collection, collection', {<<n, "columns">>})

LEMMA ColumnsStep ==
  ASSUME IInv, Ordered(stack), CallColumns, NEW n, NEW s, NEW changed, NEW states, NEW emits, NEW t, NEW f,
         Looks(n, s, changed, states, emits, t, f), NEW g, g = Moved(Top)
  PROVE  LooksDone(n, s, emits, t, f, g)
<1>1. /\ TypeOK /\ Frames /\ stack # <<>> /\ Top.at = "collection" /\ HasNext(Top) /\ NextOf(Top)[2] = "columns"
      /\ UNCHANGED <<simple, rows, memory, rejected, unnotified, held, calls, database, collection,
                     shared, phase, given, missed>>
      /\ In("collection")
  BY DEF IInv, CallColumns, In, Running, Top, setting, data, notices, entries, people
<1>2. /\ source' = [source EXCEPT ![n] = t]
      /\ stack' = (IF emits THEN <<f>> ELSE <<>>) \o <<g>> \o Below
  BY DEF CallColumns, Looks
<1>a. n = NextOf(Top)[1] /\ s = source[n]
  BY DEF Looks
<1>3. n \in Sources /\ n \in Nat /\ Top.i + 1 \in DOMAIN collection /\ NextOf(Top) = collection[Top.i + 1]
      /\ NextOf(Top) = <<n, "columns">> /\ Top.set \in Lists
  <2>1. /\ NextOf(Top) \in Sources \X {"columns", "simple"} /\ n \in Sources /\ Top.i + 1 \in DOMAIN collection
        /\ NextOf(Top) = collection[Top.i + 1] /\ Top.set \in Lists
    BY <1>1, <1>a, CollectionItem
  <2>2. \A x \in Sources \X {"columns", "simple"} : x = <<x[1], x[2]>>
    OBVIOUS
  <2>3. NextOf(Top) = <<n, "columns">>
    BY <1>1, <1>a, <2>1, <2>2
  <2> QED  BY <2>1, <2>3 DEF Sources
<1>4. s.live /\ s.owner \in Columns /\ s.owner \in Subscribers
  <2>1. PICK i \in DOMAIN collection : collection[i] = <<n, "columns">>
    BY <1>3
  <2>2. collection[i][1] = n /\ collection[i][2] = "columns"
    BY <2>1
  <2>3. s.live /\ s.owner # Nobody
    BY <1>a, <2>2 DEF IInv, Arrays, NothingStaysSubscribed
  <2> QED  BY <1>3, <1>a, <2>3, SubscriptionsAssumption DEF IInv, Owners
<1>5. source \in Seq(Observer) /\ s \in Observer /\ Sources = 1 .. Len(source) /\ DOMAIN source = 1 .. Len(source)
  BY <1>1, <1>3, <1>a, TopFrame
<1>6. Sources' = Sources /\ (\A m \in Sources : m # n => source'[m] = source[m]) /\ source'[n] = t
  BY ONLY <1>2, <1>3, <1>5 DEF Sources
<1>7. /\ f \in Frame /\ f.at = "tell" /\ f.n = n /\ f.u = s.owner /\ f.set = s.observed /\ Loose(f)
      /\ g \in Frame /\ g.at = "collection"
  <2>1. s.observed \in Lists
    BY <1>5 DEF Observer
  <2>2. f \in Frame
    BY <1>1, <1>3, <1>4, <2>1, NewFrames, Fits, TopFrame DEF Looks
  <2>3. f.at = "tell" /\ f.n = n /\ f.u = s.owner /\ f.set = s.observed /\ Loose(f)
    BY DEF OfUser, NoFrame, Loose, Looks
  <2> QED  BY <1>1, <2>2, <2>3, LoopMoves
<1>8. stack' = IF emits THEN <<f>> \o (<<g>> \o Below) ELSE <<g>> \o Below
  <2>1. Below \in Seq(Frame) /\ <<f>> \in Seq(Frame) /\ <<g>> \in Seq(Frame)
    <3>1. Below \in Seq(Frame)
      BY <1>1, HeadTailProperties DEF TypeOK, Below
    <3> QED  BY <1>7, <3>1
  <2>2. (<<f>> \o <<g>>) \o Below = <<f>> \o (<<g>> \o Below)
    BY <2>1, ConcatAssociative
  <2>3. <<>> \o <<g>> = <<g>>
    BY <2>1
  <2> QED  BY <1>2, <2>2, <2>3
<1>9. PICK loop \in {"database", "collection", "shared"} : loop = "collection"
  OBVIOUS
<1>10. /\ Ordered(stack') /\ g \in At(loop)'
       /\ stack' = <<g>> \o Below => IsTop(g)'
       /\ stack' = <<f>> \o (<<g>> \o Below) => IsTop(f)'
       /\ \A at : at # loop /\ at # f.at => At(at)' = At(at)
       /\ \A h \in At(loop) : h = Top \/ h \in At(loop)'
       /\ \A h \in At(loop)' : h = g \/ h \in At(loop)
  BY <1>1, <1>7, <1>8, <1>9, TopMovesOn DEF IInv
<1>11. \A at \in {"notify", "database", "shared", "subscribed", "observe"} : At(at)' = At(at)
  BY <1>7, <1>9, <1>10
<1>12. ~Running("emit")' /\ ~Running("answer")' /\ (emits => IsTop(f)') /\ (~emits => ~Running("tell")')
  BY <1>7, <1>8, <1>10 DEF IsTop, Running
<1>13. At("shared") = {}
  BY <1>1, UnderLoop
<1>14. GoesOn("collection", collection, collection', {<<n, "columns">>})
  <2>1. /\ g.set = Top.set /\ Top \in At("collection")
        /\ \A e : Reaches(Top, collection, e) /\ e # <<n, "columns">> => Reaches(g, collection, e)
        /\ \A e : Includes(Top, collection, e) => Includes(g, collection, e)
    <3>1. Items(Top.at) = collection
      BY <1>1, LoopItems
    <3>2. Top \in At(Top.at)
      BY <1>1, TopGoes
    <3> QED  BY <1>1, <1>3, <3>1, <3>2, LoopMoves
  <2>2. PICK top, e : top = Top /\ e = <<n, "columns">>
    OBVIOUS
  <2>3. top \in At("collection") /\ g \in At("collection")' /\ g.set = top.set
        /\ (\A d : Reaches(top, collection, d) /\ d \notin {e} => Reaches(g, collection, d))
        /\ (\A d : Includes(top, collection, d) => Includes(g, collection, d))
        /\ (\A h \in At("collection")' : h = g \/ h \in At("collection"))
        /\ (\A h \in At("collection") : h = top \/ h \in At("collection")')
    BY <1>9, <1>10, <2>1, <2>2
  <2>4. GoesOn("collection", collection, collection, {e})
    BY <2>3, LoopMoved
  <2> QED  BY <1>1, <2>2, <2>4
<1> QED  BY <1>1, <1>2, <1>3, <1>4, <1>5, <1>6, <1>7, <1>9, <1>10, <1>11, <1>12, <1>13, <1>14 DEF LooksDone

LEMMA ColumnsLearns ==
  ASSUME IInv, Ordered(stack), Joining, Informed, CallColumns
  PROVE  Ordered(stack') /\ Joining' /\ Informed'
<1>1. PICK n, s, changed, states, emits, t, f, g :
        Looks(n, s, changed, states, emits, t, f) /\ n = NextOf(Top)[1] /\ s = source[n] /\ g = Moved(Top)
  BY DEF Looks
<1>2. changed = {id \in Top.set \cap s.observed : s.states[id] # memory[id].col}
  BY <1>1 DEF Looks
<1>3. /\ states = [id \in Records |-> IF id \in changed THEN memory[id].col ELSE s.states[id]]
      /\ emits = (changed # {} /\ ~LeftToSource(s))
  BY <1>1 DEF Looks
<1>4. /\ t = [s EXCEPT !.pending = @ \/ (changed # {} /\ LeftToSource(s)), !.states = states,
                       !.news = @ /\ ~emits, !.early = IF emits THEN Ahead(states, s.observed) ELSE @]
      /\ f = [OfUser("tell", s.owner, s.observed) EXCEPT !.n = n] /\ g = Moved(Top)
  BY <1>1 DEF Looks
<1>5. /\ TypeOK /\ Frames /\ n \in Sources /\ n \in Nat /\ s.live /\ s.owner \in Columns /\ s \in Observer
      /\ stack # <<>> /\ Top.at = "collection" /\ HasNext(Top) /\ NextOf(Top) = <<n, "columns">>
      /\ source' = [source EXCEPT ![n] = t] /\ Sources' = Sources
      /\ (\A m \in Sources : m # n => source'[m] = source[m]) /\ source'[n] = t
      /\ UNCHANGED <<simple, rows, memory, rejected, unnotified, held, calls, database, collection,
                     shared, phase, given, missed>>
      /\ Ordered(stack') /\ ~Running("emit")' /\ ~Running("answer")'
      /\ emits => IsTop(f)'
      /\ ~emits => ~Running("tell")'
      /\ f.at = "tell" /\ f.n = n /\ f.u = s.owner /\ f.set = s.observed
      /\ \A at \in {"notify", "database", "shared", "subscribed", "observe"} : At(at)' = At(at)
      /\ At("shared") = {}
      /\ g \in At("collection")'
      /\ \A h \in At("collection") : h = Top \/ h \in At("collection")'
      /\ GoesOn("collection", collection, collection', {<<n, "columns">>})
  <2>1. LooksDone(n, s, emits, t, f, g)
    BY <1>1, ColumnsStep
  <2> QED  BY <2>1 DEF LooksDone
<1>6. /\ t.owner = s.owner /\ t.live = s.live /\ t.list = s.list /\ t.fetching = s.fetching
      /\ t.first = s.first /\ t.observed = s.observed /\ t.states = states /\ t.stale = s.stale /\ t.lost = s.lost
      /\ t.pending <=> s.pending \/ (changed # {} /\ (s.fetching \/ simple))
      /\ t.early = IF emits THEN Ahead(states, s.observed) ELSE s.early
  BY ONLY <1>4, <1>5 DEF Observer, LeftToSource
<1>7. /\ s.owner # Nobody /\ changed \subseteq s.observed /\ s.observed \subseteq Records
      /\ emits <=> changed # {} /\ ~s.fetching /\ ~simple
      /\ changed = {} => states = s.states
      /\ \A id \in Records : states[id] = IF id \in changed THEN memory[id].col ELSE s.states[id]
      /\ \A id \in s.observed : id \in Top.set => states[id] = memory[id].col
      /\ \A id \in s.observed : states[id] = memory[id].col \/ (states[id] = s.states[id] /\ id \notin Top.set)
  <2>1. s.observed \subseteq Records /\ s.states \in [Records -> 0 .. 1]
    BY <1>5 DEF Observer, Lists
  <2>2. s.owner # Nobody
    BY <1>5, SubscriptionsAssumption
  <2> QED  BY <1>2, <1>3, <2>1, <2>2 DEF LeftToSource
<1>8. /\ emits => Doing("tell", n)' /\ stack' # <<>> /\ Head(stack') = f
      /\ ~emits => \A m : ~Doing("tell", m)'
      /\ \A m : ~Calls(m) /\ ~Doing("answer", m) /\ ~Doing("emit", m) /\ ~Doing("tell", m)
      /\ \A m : ~Doing("emit", m)' /\ (m # n => ~Calls(m)')
  BY <1>5 DEF Calls, Doing, Running, Top, IsTop
<1>9. PICK E : E = {<<n, "columns">>} /\ Carries({}, E)
  <2>1. Longer(database, database') /\ Longer(collection, collection')
    BY <1>5 DEF Longer
  <2>2. GoesOn("database", database, database', {})
    BY <1>5, <2>1, LoopStays
  <2> QED  BY <1>5, <2>1, <2>2 DEF Carries
<1>10. \A m : OldEntries(m) /\ (ToObserve(m) => ToObserve(m)')
  BY <1>5 DEF OldEntries, ToObserve
<1>11. Joining'
  BY <1>5 DEF Joining
<1>12. ToldOwn'
  <2>1. CASE emits
    BY <1>5, <1>6, <1>8, <2>1 DEF ToldOwn, Top
  <2>2. CASE ~emits
    BY <1>5, <2>2 DEF ToldOwn
  <2> QED  BY <2>1, <2>2
<1>13. ASSUME NEW m \in Sources
       PROVE  Learns(m)'
  <2>1. Learns(m)
    BY DEF Informed
  <2>2. PICK D : D = {}
    OBVIOUS
  <2>3. Carries(D, E) /\ m \notin D
    BY <1>9, <2>2
  <2>4. CASE m # n
    <3>1. Uninvolved(m)
      BY <1>5, <1>8, <1>10, <2>4 DEF Uninvolved, Still
    <3>2. \A kind \in {"simple", "columns"} : <<m, kind>> \notin E
      BY <1>9, <2>4
    <3> QED  BY <1>10, <2>1, <2>3, <3>1, <3>2, OtherLearns
  <2>5. CASE m = n
    <3>1. PICK d, e : d = <<m, "columns">> /\ e = <<m, "simple">>
      OBVIOUS
    <3>2. e \notin E
      BY <1>9, <3>1
    <3>3. KeepsEntries(m) /\ KeepsFetches(m)
      BY <1>1, <1>5, <1>6, <1>8, <1>10, <2>3, <2>5, CarriedKeeps
    <3>4. NoticeComes(m) /\ HasEntries(m) /\ FetchComes(m) /\ EmissionComes(m) /\ Shown(m)
      BY <1>1, <1>5, <2>1, <2>5 DEF Learns
    <3>5. HasEntries(m)' /\ FetchComes(m)'
      BY <1>1, <1>5, <1>6, <1>8, <2>5, <3>3, <3>4, EntriesStill, FetchStill
    <3>6. NoticeComes(m)'
      <4> SUFFICES ASSUME ~t.lost, NEW id \in Records
                   PROVE  /\ simple /\ s.list # NoList /\ ~(id \in s.list <=> memory[id].in) => Awaited(e, id)'
                          /\ id \in s.observed /\ states[id] # memory[id].col => Awaited(d, id)'
        <5>1. source'[m] = t /\ simple' = simple /\ memory' = memory
          BY <1>5, <2>5
        <5> QED  BY <1>6, <3>1, <5>1 DEF NoticeComes
      <4>1. ~s.lost
        BY <1>6
      <4>2. simple /\ s.list # NoList /\ ~(id \in s.list <=> memory[id].in) => Awaited(e, id)
        BY <1>1, <2>5, <3>1, <3>4, <4>1 DEF NoticeComes
      <4>3. Awaited(e, id) => Awaited(e, id)'
        BY <2>3, <3>2, Carried
      <4>4. ASSUME id \in s.observed, states[id] # memory[id].col
            PROVE  Awaited(d, id)'
        <5>1. id \notin Top.set /\ s.states[id] # memory[id].col
          BY <1>7, <4>4
        <5>2. Awaited(d, id)
          BY <1>1, <2>5, <3>1, <3>4, <4>1, <4>4, <5>1 DEF NoticeComes
        <5>3. Coming(id) => Coming(id)'
          BY <1>5 DEF Coming, Batches
        <5> QED  BY <1>5, <5>1, <5>2, <5>3 DEF Awaited
      <4> QED  BY <4>2, <4>3, <4>4
    <3>7. EmissionComes(m)'
      <4>1. /\ source'[m] = t /\ source[m] = s /\ simple' = simple /\ memory' = memory
            /\ t.owner # Nobody /\ s.owner # Nobody
        BY <1>1, <1>5, <1>6, <1>7, <2>5
      <4>2. ~simple /\ t.pending => t.fetching
        BY <1>6, <3>4, <4>1 DEF EmissionComes
      <4>3. Late(m)' => Late(m)
        <5>1. \A id \in s.observed : states[id] # memory[id].col => s.states[id] # memory[id].col
          BY <1>7
        <5> QED  BY <1>6, <4>1, <5>1 DEF Late
      <4>4. simple /\ Late(m) => \A h \in At("collection") : Includes(h, collection, e)
        BY <3>1, <3>4, <4>1 DEF EmissionComes
      <4>5. simple /\ Late(m)' => \A h \in At("collection")' : Includes(h, collection', e)
        BY <1>5, <4>3, <4>4 DEF GoesOn
      <4>6. ASSUME simple, t.pending, ~t.lost
            PROVE  Comes("collection", collection, e)'
        <5>1. CASE s.pending
          <6>1. Comes("collection", collection, e)
            BY <1>6, <1>8, <3>1, <3>4, <4>1, <4>6, <5>1 DEF EmissionComes
          <6> QED  BY <2>3, <3>2, <6>1, Carried
        <5>2. CASE ~s.pending
          <6>1. PICK id \in changed : id \in s.observed /\ s.states[id] # memory[id].col
            BY <1>2, <1>6, <4>6, <5>2
          <6>2. Includes(Top, collection, e)
            <7>1. Late(m)
              BY <4>1, <6>1 DEF Late
            <7>2. Top \in At(Top.at)
              BY <1>5, TopGoes
            <7> QED  BY <1>5, <4>4, <4>6, <7>1, <7>2
          <6>3. \A p \in DOMAIN collection : collection[p] = e => p > Top.i + 1
            <7>1. InOrder(collection, m)
              BY <3>4 DEF HasEntries
            <7>2. Top.i + 1 \in DOMAIN collection /\ collection[Top.i + 1] = d
              BY <1>5, <2>5, <3>1, CollectionItem DEF In, Running, Top
            <7>3. collection \in Seq(Sources \X {"columns", "simple"})
              BY <1>5 DEF TypeOK
            <7>4. \A p \in DOMAIN collection : collection[p] = e => Top.i + 1 < p
              BY <3>1, <7>1, <7>2 DEF InOrder
            <7>5. Top.i + 1 \in Nat /\ \A p \in DOMAIN collection : p \in Nat
              BY <7>2, <7>3
            <7> QED  BY <7>4, <7>5
          <6>4. Items(Top.at) = collection
            BY <1>5, LoopItems
          <6>5. Reaches(g, collection, e)
            BY <1>4, <1>5, <6>2, <6>3, <6>4, LoopMoves
          <6> QED  BY <1>5, <6>5 DEF Comes
        <5> QED  BY <5>1, <5>2
      <4> QED  BY <1>6, <3>1, <4>1, <4>2, <4>5, <4>6 DEF EmissionComes
    <3>8. Shown(m)'
      <4>1. /\ source'[m] = t /\ source[m] = s /\ given' = given /\ t.owner # Nobody /\ s.owner # Nobody
            /\ ~Doing("emit", m)' /\ ~Doing("emit", m) /\ ~Doing("tell", m)
        BY <1>1, <1>5, <1>6, <1>7, <1>8, <2>5
      <4>2. Showing(m) /\ (~s.first => Has(m))
        BY <3>4, <4>1 DEF Shown
      <4>3. Showing(m)'
        <5>1. \A id \in Records \ s.observed : states[id] = 0
          BY <1>7, <4>1, <4>2 DEF Showing
        <5> QED  BY <1>6, <4>1, <4>2, <5>1 DEF Showing
      <4>4. CASE emits
        <5>1. Telling(m)'
          <6>1. ~s.first
            BY <1>7, <4>1, <4>2, <4>4 DEF Showing
          <6>2. ~t.early => \A id \in s.observed : states[id] = memory[id].col
            BY <1>6, <4>4 DEF Ahead
          <6> QED  BY <1>5, <1>6, <1>8, <4>1, <4>4, <6>1, <6>2 DEF Telling, Top
        <5> QED  BY <1>8, <2>5, <4>1, <4>3, <4>4, <5>1 DEF Shown
      <4>5. CASE ~emits
        <5>1. ~s.first => Has(m)'
          <6>1. ~t.pending => changed = {} /\ ~s.pending
            BY <1>6, <1>7, <4>5
          <6>2. ~t.pending => states = s.states
            BY <1>7, <6>1
          <6> QED  BY <1>6, <4>1, <4>2, <4>5, <6>1, <6>2 DEF Has
        <5> QED  BY <1>6, <1>8, <4>1, <4>3, <4>5, <5>1 DEF Shown
      <4> QED  BY <4>4, <4>5
    <3> QED  BY <3>5, <3>6, <3>7, <3>8 DEF Learns
  <2> QED  BY <2>4, <2>5
<1>14. Owned'
  BY <1>1, <1>5, <1>6, OwnersStay, SubscriptionsAssumption DEF Informed
<1>15. Sharing'
  <2>1. SharersStay
    BY <1>1, <1>5, <1>6 DEF SharersStay
  <2>2. CommonStay
    BY <1>1, <1>5, <1>6, <1>7 DEF CommonStay, Common
  <2>3. LoopsStay
    BY <1>5 DEF LoopsStay
  <2>4. Elsewhere
    <3>1. (Running("tell") => Top.u \in Columns)'
      BY <1>5, <1>8 DEF Top
    <3> QED  BY <1>5, <3>1 DEF Elsewhere, EmitsShared, FirstSource, Running, Top
  <2> QED  BY <2>1, <2>2, <2>3, <2>4, SharingStill DEF Informed
<1>16. \A m \in Sources' : Learns(m)'
  BY <1>5, <1>13
<1> QED  BY <1>5, <1>11, <1>14, <1>12, <1>15, <1>16 DEF Informed

(* A loop of the SharedSubscribable goes on, and calls the next subscriber. *)
CallsNext(u, f, g) ==
  /\ TypeOK /\ Frames /\ u \in Range(shared.subscribers) /\ u \in Subscribers \ Columns
  /\ stack # <<>> /\ Top.at = "shared" /\ Top \in At("shared")
  /\ missed' = IF source[Top.n].live THEN missed ELSE missed \cup {u}
  /\ UNCHANGED <<simple, rows, memory, rejected, unnotified, held, calls, database, collection,
                 shared, source, phase, given, Sources>>
  /\ f.at = "tell" /\ f.n = 0 /\ f.u = u /\ f.set = Top.set /\ g.n = Top.n /\ g.set = Top.set
  /\ Ordered(stack') /\ IsTop(f)' /\ Running("tell")' /\ g \in At("shared")'
  /\ \A at \in {"notify", "database", "collection", "subscribed", "observe"} : At(at)' = At(at)
  /\ \A h \in At("shared") : h = Top \/ h \in At("shared")'
  /\ \A h \in At("shared")' : h = g \/ h \in At("shared")
  /\ \A v : Reaches(Top, shared.subscribers, v) /\ v # u => Reaches(g, shared.subscribers, v)

LEMMA SubscriberStep ==
  ASSUME IInv, Ordered(stack), CallSubscriber, NEW u, u = NextOf(Top), NEW f, f = OfUser("tell", u, Top.set),
         NEW g, g = Moved(Top)
  PROVE  CallsNext(u, f, g)
<1>1. /\ TypeOK /\ Frames /\ stack # <<>> /\ Top.at = "shared" /\ HasNext(Top)
      /\ missed' = IF source[Top.n].live THEN missed ELSE missed \cup {u}
      /\ UNCHANGED <<simple, rows, memory, rejected, unnotified, held, calls, database, collection,
                     shared, source, phase, given, Sources>>
      /\ stack' = <<f, g>> \o Below
  BY DEF IInv, CallSubscriber, In, Running, Top, setting, data, notices, entries, observers, Sources
<1>2. u \in Range(shared.subscribers) /\ u \in Subscribers \ Columns
  <2>1. /\ Items(Top.at) = shared.subscribers /\ Top.i \in Nat /\ Len(Items(Top.at)) \in Nat
        /\ DOMAIN Items(Top.at) = 1 .. Len(Items(Top.at))
    BY <1>1, LoopItems
  <2>2. Top.i + 1 \in DOMAIN shared.subscribers /\ u = shared.subscribers[Top.i + 1]
    BY <1>1, <2>1 DEF HasNext, NextOf
  <2>3. u \in Range(shared.subscribers)
    BY <2>2 DEF Range
  <2> QED  BY <2>3, Shares
<1>3. /\ f \in Frame /\ f.at = "tell" /\ f.n = 0 /\ f.u = u /\ f.set = Top.set /\ Loose(f)
      /\ g \in Frame /\ g.at = "shared" /\ g.n = Top.n /\ g.set = Top.set /\ Top \in At("shared")
  <2>1. Top.set \in Lists
    BY <1>1, TopFrame DEF Frame
  <2>2. f \in Frame
    BY <1>1, <1>2, <2>1, NewFrames, Fits, TopFrame
  <2>3. f.at = "tell" /\ f.n = 0 /\ f.u = u /\ f.set = Top.set /\ Loose(f)
    BY DEF OfUser, NoFrame, Loose
  <2>4. Top \in At(Top.at)
    BY <1>1, TopGoes
  <2> QED  BY <1>1, <2>2, <2>3, <2>4, LoopMoves
<1>4. stack' = <<f>> \o (<<g>> \o Below)
  <2>1. Below \in Seq(Frame)
    BY <1>1, TopFrame, HeadTailProperties DEF TypeOK, Below
  <2> QED  BY <1>1, <1>3, <2>1, OneByOne
<1>5. PICK loop \in {"database", "collection", "shared"} : loop = "shared"
  OBVIOUS
<1>6. /\ Ordered(stack') /\ g \in At(loop)' /\ IsTop(f)'
      /\ \A at : at # loop /\ at # f.at => At(at)' = At(at)
      /\ \A h \in At(loop) : h = Top \/ h \in At(loop)'
      /\ \A h \in At(loop)' : h = g \/ h \in At(loop)
  BY <1>1, <1>3, <1>4, <1>5, TopMovesOn DEF IInv
<1>7. \A at \in {"notify", "database", "collection", "subscribed", "observe"} : At(at)' = At(at)
  BY <1>3, <1>5, <1>6
<1>8. Running("tell")'
  BY <1>3, <1>6 DEF IsTop, Running
<1>9. \A v : Reaches(Top, shared.subscribers, v) /\ v # u => Reaches(g, shared.subscribers, v)
  <2>1. Items(Top.at) = shared.subscribers
    BY <1>1, LoopItems
  <2> QED  BY <1>1, <2>1, LoopMoves
<1> QED  BY <1>1, <1>2, <1>3, <1>5, <1>6, <1>7, <1>8, <1>9 DEF CallsNext

LEMMA SubscriberLearns ==
  ASSUME IInv, Ordered(stack), Joining, Informed, CallSubscriber
  PROVE  Ordered(stack') /\ Joining' /\ Informed'
<1>1. PICK u, f, g : u = NextOf(Top) /\ f = OfUser("tell", u, Top.set) /\ g = Moved(Top)
  OBVIOUS
<1>2. /\ TypeOK /\ Frames /\ u \in Range(shared.subscribers) /\ u \in Subscribers \ Columns
      /\ stack # <<>> /\ Top.at = "shared" /\ Top \in At("shared")
      /\ missed' = IF source[Top.n].live THEN missed ELSE missed \cup {u}
      /\ UNCHANGED <<simple, rows, memory, rejected, unnotified, held, calls, database, collection,
                     shared, source, phase, given, Sources>>
      /\ f.at = "tell" /\ f.n = 0 /\ f.u = u /\ f.set = Top.set /\ g.n = Top.n /\ g.set = Top.set
      /\ Ordered(stack') /\ IsTop(f)' /\ Running("tell")' /\ g \in At("shared")'
      /\ \A at \in {"notify", "database", "collection", "subscribed", "observe"} : At(at)' = At(at)
      /\ \A h \in At("shared") : h = Top \/ h \in At("shared")'
      /\ \A h \in At("shared")' : h = g \/ h \in At("shared")
      /\ \A v : Reaches(Top, shared.subscribers, v) /\ v # u => Reaches(g, shared.subscribers, v)
  <2>1. CallsNext(u, f, g)
    BY <1>1, SubscriberStep
  <2> QED  BY <2>1 DEF CallsNext
<1>3. stack' # <<>> /\ Head(stack') = f /\ ~EmitsShared /\ ~EmitsShared' /\ ~FirstSource /\ ~Running("tell")
  BY <1>2 DEF IsTop, Running, Top, EmitsShared, FirstSource
<1>4. \A m : /\ ~Calls(m) /\ ~Doing("answer", m) /\ ~Doing("answer", m)'
             /\ m \in Sources => ~Calls(m)'
  <2>1. 0 \notin Sources
    BY <1>2, TopFrame
  <2> QED  BY <1>2, <1>3, <2>1 DEF Calls, Doing, Running, Top
<1>5. Carries({}, {}) /\ \A m : OldEntries(m) /\ (ToObserve(m) => ToObserve(m)')
  <2>1. Longer(database, database') /\ Longer(collection, collection')
    BY <1>2 DEF Longer
  <2> QED  BY <1>2, <2>1, CarriesOn DEF OldEntries, ToObserve
<1>6. ASSUME NEW m \in Sources
      PROVE  Learns(m)'
  <2>1. Learns(m)
    BY DEF Informed
  <2>2. PICK D, E : D = {} /\ E = {}
    OBVIOUS
  <2>3. Carries(D, E) /\ m \notin D /\ \A kind \in {"simple", "columns"} : <<m, kind>> \notin E
    BY <1>5, <2>2
  <2>4. Uninvolved(m)
    BY <1>2, <1>4, <1>5 DEF Uninvolved, Still
  <2> QED  BY <1>5, <2>1, <2>3, <2>4, OtherLearns
<1>7. Joining' /\ ToldOwn'
  BY <1>2, <1>3 DEF Joining, ToldOwn, Top
<1>8. Owned'
  BY <1>2, OwnersStay, SubscriptionsAssumption DEF Informed
<1>9. Sharing'
  <2>1. SharedLoops'
    <3> SUFFICES ASSUME NEW h \in At("shared")'
                 PROVE  /\ h.n \in Sources' /\ source'[h.n].owner = Nobody
                        /\ source'[h.n].live => h.set = source'[h.n].list
                        /\ ~Doing("answer", h.n)'
      BY DEF SharedLoops
    <3>1. \E k \in At("shared") : k.n = h.n /\ k.set = h.set
      BY <1>2
    <3> QED  BY <1>2, <1>4, <3>1 DEF SharedLoops, Informed, Sharing
  <2>2. /\ \A n : Common(n)' <=> Common(n)
        /\ \A list : HasList(list) => HasList(list)'
        /\ NewSource => NewSource'
    BY <1>2 DEF Common, HasList, NewSource
  <2>3. LastEmitted'
    <3>1. u \notin missed' => HasList(f.set)
      <4>1. Top.n \in Sources /\ source[Top.n].owner = Nobody /\ (source[Top.n].live => Top.set = source[Top.n].list)
        BY <1>2 DEF Informed, Sharing, SharedLoops
      <4> QED  BY <1>2, <4>1 DEF HasList, Common
    <3>2. (Running("tell") /\ Top.u \notin Columns \cup missed => HasList(Top.set))'
      BY <1>2, <1>3, <2>2, <3>1 DEF Top
    <3> QED  BY <1>2, <1>3, <2>2, <3>2 DEF Informed, Sharing, LastEmitted
  <2>4. ASSUME NEW v \in Range(shared.subscribers) \ missed'
        PROVE  WillHave(v)'
    <3>1. v \notin missed
      BY <1>2
    <3>2. WillHave(v)
      BY <3>1 DEF Informed, Sharing
    <3>3. CASE v = u
      BY <1>2, <1>3, <3>3 DEF WillHave, Top
    <3>4. CASE v # u
      <4>1. CASE NewSource
        BY <2>2, <4>1 DEF WillHave
      <4>2. CASE \E n \in Sources : Common(n) /\ given[v] = Plain(source[n].list)
        BY <1>2, <2>2, <4>2 DEF WillHave, Plain
      <4>3. CASE \E h \in At("shared") : source[h.n].live /\ Reaches(h, shared.subscribers, v)
        <5>1. PICK h \in At("shared") : source[h.n].live /\ Reaches(h, shared.subscribers, v)
          BY <4>3
        <5>2. \E k \in At("shared")' : k.n = h.n /\ Reaches(k, shared.subscribers, v)
          BY <1>2, <3>4, <5>1
        <5> QED  BY <1>2, <5>1, <5>2 DEF WillHave
      <4> QED  BY <1>3, <3>2, <4>1, <4>2, <4>3 DEF WillHave
    <3> QED  BY <3>3, <3>4
  <2> QED  BY <1>2, <2>1, <2>3, <2>4 DEF Informed, Sharing
<1>10. \A m \in Sources' : Learns(m)'
  BY <1>2, <1>6
<1> QED  BY <1>2, <1>7, <1>8, <1>9, <1>10 DEF Informed

-----------------------------------------------------------------------------
(* The steps that subscribe.                                               *)

(* An observer is made: its first fetch is under way.                      *)
LEMMA MadeLearns ==
  ASSUME TypeOK, Frames, \A m \in Sources : Learns(m), NEW owner, NEW N, N = Len(source) + 1,
         Sources' = 1 .. N, \A m \in Sources : source'[m] = source[m], source'[N] = Made(owner),
         database' = IF simple THEN database ELSE Append(database, N),
         collection' = IF owner = Nobody THEN collection ELSE Append(collection, <<N, "columns">>),
         calls' = FetchCalls(N), UNCHANGED <<simple, rows, memory, rejected, unnotified, held, given>>,
         \A at \in {"notify", "database", "collection", "observe"} : At(at)' = At(at),
         \A at \in {"answer", "emit", "tell"} : ~Running(at), ~Running("tell")', ~Running("emit")',
         synchronous => Doing("answer", N)'
  PROVE  /\ N \notin Sources /\ Sources \subseteq Sources' /\ N \in Sources'
         /\ \A m \in Sources' : Learns(m)'
<1>1. N \in Nat /\ N \notin Sources /\ Sources' = Sources \cup {N} /\ N # 0
  BY TopFrame
<1>2. /\ database \in Seq(Sources) /\ collection \in Seq(Sources \X {"columns", "simple"})
      /\ database \in Seq(Nat) /\ collection \in Seq(Nat \X {"columns", "simple"})
  <2>1. database \in Seq(Sources) /\ collection \in Seq(Sources \X {"columns", "simple"})
    BY DEF TypeOK
  <2>2. Sources \subseteq Nat /\ Sources \X {"columns", "simple"} \subseteq Nat \X {"columns", "simple"}
    BY TopFrame
  <2> QED  BY <2>1, <2>2, SeqMonotonic
<1>3. Range(calls) \subseteq Range(calls') /\ Fetched(N)'
  BY <1>1, FetchMade
<1>4. PICK e \in Nat \X {"columns", "simple"} : e = <<N, "columns">>
  <2>1. <<N, "columns">> \in Nat \X {"columns", "simple"}
    BY <1>1
  <2> QED  BY <2>1
<1>5. Longer(database, database') /\ Longer(collection, collection')
  BY <1>1, <1>2, <1>4, Longers
<1>6. Carries({}, {})
  BY <1>3, <1>5, CarriesOn
<1>7. \A p \in DOMAIN collection' : (p \in DOMAIN collection /\ collection'[p] = collection[p]) \/ collection'[p] = e
  BY <1>2, <1>4, Appended
<1>8. \A p \in DOMAIN collection : collection[p][1] # N
  BY <1>1, <1>2
<1>9. ASSUME NEW m \in Sources
      PROVE  Learns(m)'
  <2>1. PICK D, E : D = {} /\ E = {}
    OBVIOUS
  <2>2. Carries(D, E) /\ m \notin D /\ \A kind \in {"simple", "columns"} : <<m, kind>> \notin E
    BY <1>6, <2>1
  <2>3. Uninvolved(m)
    BY <1>9 DEF Uninvolved, Still, Calls, Doing, ToObserve
  <2>4. OldEntries(m)
    <3>1. e[1] # m
      BY <1>1, <1>4
    <3> QED  BY <1>7, <3>1 DEF OldEntries
  <2> QED  BY <2>2, <2>3, <2>4, OtherLearns
<1>10. Learns(N)'
  <2>1. PICK t : t = source'[N] /\ t = Made(owner)
    OBVIOUS
  <2>2. /\ t.owner = owner /\ t.live /\ t.list = NoList /\ t.fetching /\ ~t.pending /\ t.first /\ t.observed = {}
        /\ t.states = [id \in Records |-> 0] /\ ~t.stale /\ ~t.lost
    BY <2>1 DEF Made
  <2>3. NoticeComes(N)'
    BY <2>1, <2>2 DEF NoticeComes
  <2>4. HasEntries(N)'
    <3>1. owner # Nobody => Entry(collection', e)
      <4>1. Append(collection, e)[Len(collection) + 1] = e /\ Len(collection) + 1 \in DOMAIN Append(collection, e)
        BY <1>2, <1>4
      <4> QED  BY <1>4, <4>1 DEF Entry
    <3>2. ~simple => Entry(database', N)
      <4>1. Append(database, N)[Len(database) + 1] = N /\ Len(database) + 1 \in DOMAIN Append(database, N)
        BY <1>1, <1>2
      <4> QED  BY <4>1 DEF Entry
    <3>3. InOrder(collection', N)
      <4>1. \A p \in DOMAIN collection' : collection'[p] # <<N, "simple">>
        <5>1. e # <<N, "simple">>
          BY <1>4
        <5>2. \A x : x = <<N, "simple">> => x[1] = N
          OBVIOUS
        <5> QED  BY <1>7, <1>8, <5>1, <5>2
      <4> QED  BY <4>1 DEF InOrder
    <3> QED  BY <1>4, <2>1, <2>2, <3>1, <3>2, <3>3 DEF HasEntries
  <2>5. FetchComes(N)'
    BY <1>3, <2>1, <2>2 DEF FetchComes, Refetched
  <2>6. EmissionComes(N)'
    BY <2>1, <2>2 DEF EmissionComes, Late
  <2>7. Shown(N)'
    <3>1. Showing(N)'
      BY <2>1, <2>2 DEF Showing
    <3> QED  BY <2>1, <2>2, <3>1 DEF Shown, Doing
  <2> QED  BY <2>3, <2>4, <2>5, <2>6, <2>7 DEF Learns
<1> QED  BY <1>1, <1>9, <1>10

(* The frames of a new source: its answer, if that is at once.             *)
LEMMA FetchFramesOn ==
  ASSUME NEW b \in Seq(Frame), NEW N \in Nat, NEW f, f = OfSource("answer", N, {}), stack' = FetchFrames(N) \o b
  PROVE  /\ f \in Frame /\ f.at = "answer" /\ f.n = N /\ Loose(f)
         /\ stack' = IF synchronous THEN <<f>> \o b ELSE b
<1>1. f \in Frame /\ f.at = "answer" /\ f.n = N /\ Loose(f)
  BY SubscriptionsAssumption DEF OfSource, NoFrame, Frame, Lists, Loose
<1> QED  BY <1>1 DEF FetchFrames

LEMMA NowFree ==
  ASSUME Free
  PROVE  /\ \A at \in {"answer", "emit", "tell", "source", "database", "collection", "shared", "notify"} : ~Running(at)
         /\ \A m : ~Calls(m) /\ ~Doing("answer", m)
         /\ ~EmitsShared /\ ~FirstSource
  BY DEF Free, Running, Calls, Doing, EmitsShared, FirstSource

(* Who subscribes gets a frame of its own.                                 *)
LEMMA JoinsOver ==
  ASSUME TypeOK, Frames, Joining, NEW u \in Subscribers, phase[u] = "new", NEW f, f = OfUser("subscribed", u, {})
  PROVE  f \in Frame /\ f.at = "subscribed" /\ f.u = u /\ Over(f, stack)
<1>1. f \in Frame
  BY NewFrames, Fits, TopFrame DEF Lists
<1>2. f.at = "subscribed" /\ f.u = u
  BY DEF OfUser, NoFrame
<1>3. \A g \in Range(stack) : g.at = "subscribed" => g.u # u
  BY DEF Joining, At
<1> QED  BY <1>1, <1>2, <1>3 DEF Over, MayBeOn

LEMMA ForOneStep ==
  ASSUME IInv, Ordered(stack), Joining, NEW u \in Subscribers, SubscribeWithColumns(u), NEW N, N = Len(source) + 1
  PROVE  /\ Ordered(stack') /\ (synchronous => Doing("answer", N)')
         /\ \A at \in {"emit", "tell"} : ~Running(at)'
         /\ \A m : m # N => ~Doing("answer", m)'
         /\ \A at \in {"notify", "database", "collection", "observe", "shared"} : At(at)' = At(at)
         /\ \A g \in At("subscribed")' : g.u = u \/ g \in At("subscribed")
<1>1. /\ TypeOK /\ Frames /\ Free /\ phase[u] = "new" /\ N \in Nat /\ stack \in Seq(Frame)
      /\ stack' = FetchFrames(N) \o (<<OfUser("subscribed", u, {})>> \o stack)
  <2>1. TypeOK /\ Frames
    BY DEF IInv
  <2>2. N \in Nat
    BY <2>1, TopFrame
  <2>3. stack \in Seq(Frame)
    BY <2>1 DEF TypeOK
  <2>4. Free /\ phase[u] = "new" /\ stack' = FetchFrames(N) \o (<<OfUser("subscribed", u, {})>> \o stack)
    BY SourceMadeForOne
  <2> QED  BY <2>1, <2>2, <2>3, <2>4
<1>2. PICK f, g, b : f = OfSource("answer", N, {}) /\ g = OfUser("subscribed", u, {}) /\ b = <<g>> \o stack
  OBVIOUS
<1>3. g \in Frame /\ g.at = "subscribed" /\ g.u = u /\ Over(g, stack)
  BY <1>1, <1>2, JoinsOver
<1>4. b \in Seq(Frame)
  BY <1>1, <1>2, <1>3
<1>5. /\ f \in Frame /\ f.at = "answer" /\ f.n = N /\ Loose(f)
      /\ stack' = IF synchronous THEN <<f>> \o (<<g>> \o stack) ELSE <<g>> \o stack
  <2>1. stack' = FetchFrames(N) \o b /\ f = OfSource("answer", N, {}) /\ N \in Nat
    BY <1>1, <1>2
  <2>2. /\ f \in Frame /\ f.at = "answer" /\ f.n = N /\ Loose(f)
        /\ stack' = IF synchronous THEN <<f>> \o b ELSE b
    BY <1>4, <2>1, FetchFramesOn
  <2> QED  BY <1>2, <2>2
<1>6. Rests(stack, {})
  BY DEF Rests
<1>7. PICK new \in SUBSET {f, g} :
        Replaces({}, new) /\ Ordered(stack') /\ IF synchronous THEN IsTop(f)' ELSE IsTop(g)'
  <2>1. synchronous => Replaces({}, {f, g}) /\ IsTop(f)' /\ Ordered(stack')
    BY <1>1, <1>3, <1>5, <1>6, PutOn
  <2>2. ~synchronous => Replaces({}, {g}) /\ IsTop(g)' /\ Ordered(stack')
    BY <1>1, <1>3, <1>5, <1>6, PutOn
  <2> QED  BY <2>1, <2>2
<1>8. synchronous => Doing("answer", N)'
  BY <1>5, <1>7 DEF IsTop, Doing, Running, Top
<1>9. /\ \A at \in {"emit", "tell"} : ~Running(at)'
      /\ \A m : m # N => ~Doing("answer", m)'
  BY <1>3, <1>5, <1>7 DEF IsTop, Doing, Running, Top
<1>10. ASSUME NEW at
       PROVE  /\ at \notin {"answer", "subscribed"} => At(at)' = At(at)
              /\ \A h \in At(at)' : h = f \/ h = g \/ h \in At(at)
  <2>1. /\ (\A h \in {} : h.at # at) => At(at) \subseteq At(at)'
        /\ (\A h \in new : h.at # at) => At(at)' \subseteq At(at)
        /\ \A h \in At(at)' : h \in new \/ h \in At(at)
    BY <1>7, Kinds
  <2> QED  BY <1>3, <1>5, <2>1
<1>11. \A at \in {"notify", "database", "collection", "observe", "shared"} : At(at)' = At(at)
  BY <1>10
<1>12. \A h \in At("subscribed")' : h.u = u \/ h \in At("subscribed")
  <2>1. \A h \in At("subscribed")' : h.at = "subscribed"
    BY DEF At
  <2> QED  BY <1>3, <1>5, <1>10, <2>1
<1> QED  BY <1>7, <1>8, <1>9, <1>11, <1>12

LEMMA ForOneLearns ==
  ASSUME IInv, Ordered(stack), Joining, Informed, NEW u \in Subscribers, SubscribeWithColumns(u)
  PROVE  Ordered(stack') /\ Joining' /\ Informed'
<1>1. PICK N : N = Len(source) + 1
  OBVIOUS
<1>2. /\ TypeOK /\ Frames /\ Free /\ u \in Columns /\ u # Nobody /\ phase[u] = "new"
      /\ phase' = [phase EXCEPT ![u] = "joining"] /\ phase \in [Subscribers -> {"new", "joining", "joined", "left"}]
      /\ Sources' = 1 .. N /\ (\A m \in Sources : source'[m] = source[m]) /\ source'[N] = Made(u)
      /\ database' = IF simple THEN database ELSE Append(database, N)
      /\ collection' = Append(collection, <<N, "columns">>)
      /\ calls' = FetchCalls(N) /\ UNCHANGED <<simple, rows, memory, rejected, unnotified, held,
                                               given, shared, missed>>
  <2>1. UNCHANGED <<simple, rows, memory, rejected, unnotified, held, given, shared, missed>>
    BY DEF SubscribeWithColumns, setting, data, notices
  <2> QED  BY <1>1, <2>1, SourceMadeForOne DEF IInv, TypeOK
<1>3. /\ Ordered(stack') /\ (synchronous => Doing("answer", N)')
      /\ \A at \in {"emit", "tell"} : ~Running(at)'
      /\ \A m : m # N => ~Doing("answer", m)'
      /\ \A at \in {"notify", "database", "collection", "observe", "shared"} : At(at)' = At(at)
      /\ \A g \in At("subscribed")' : g.u = u \/ g \in At("subscribed")
  BY <1>1, ForOneStep
<1>4. /\ ~Running("answer") /\ ~Running("emit") /\ ~Running("tell") /\ ~EmitsShared /\ ~FirstSource
      /\ ~Running("emit")' /\ ~Running("tell")'
  BY <1>2, <1>3, NowFree
<1>5. N \notin Sources /\ Sources \subseteq Sources' /\ N \in Sources' /\ \A m \in Sources' : Learns(m)'
  <2>1. \A m \in Sources : Learns(m)
    BY DEF Informed
  <2> QED  BY <1>1, <1>2, <1>3, <1>4, <2>1, MadeLearns
<1>6. phase'[u] = "joining" /\ \A v \in Subscribers : v # u => phase'[v] = phase[v]
  BY <1>2
<1>7. Joining'
  <2>1. ASSUME NEW g \in At("subscribed")', g.u # u
        PROVE  phase'[g.u] = "joining"
    <3>1. g \in At("subscribed") /\ phase[g.u] = "joining"
      BY <1>3, <2>1 DEF Joining
    <3>2. stack \in Seq(Fitting(Len(source))) /\ g \in Range(stack) /\ g.at = "subscribed"
      BY <1>2, <3>1 DEF Frames, Shaped, At
    <3>3. g \in Fitting(Len(source))
      BY <3>2, RangeOf
    <3>4. g.u \in Subscribers
      BY <3>2, <3>3 DEF Fitting
    <3> QED  BY <1>6, <2>1, <3>1, <3>4
  <2> QED  BY <1>6, <2>1 DEF Joining
<1>8. ToldOwn'
  BY <1>4 DEF ToldOwn
<1>9. Owned'
  <2> SUFFICES ASSUME NEW v \in Columns, phase'[v] \in Here
               PROVE  \E n \in Sources' : source'[n].live /\ source'[n].owner = v
    BY DEF Owned
  <2>1. CASE v = u
    <3>1. source'[N].live /\ source'[N].owner = u
      BY <1>2 DEF Made
    <3> QED  BY <1>5, <2>1, <3>1
  <2>2. CASE v # u
    <3>1. phase[v] \in Here
      BY <1>6, <2>2, SubscriptionsAssumption
    <3>2. PICK n \in Sources : source[n].live /\ source[n].owner = v
      BY <3>1 DEF Informed, Owned
    <3> QED  BY <1>2, <1>5, <3>2
  <2> QED  BY <2>1, <2>2
<1>10. Sharing'
  <2>1. SharersStay /\ CommonStay
    BY <1>2, <1>5, <1>6 DEF SharersStay, CommonStay, Common
  <2>2. LoopsStay
    <3>1. \A f \in At("shared") : f.n \in Sources
      BY DEF Informed, Sharing, SharedLoops
    <3>2. At("shared")' = At("shared") /\ \A f \in At("shared") : ~Doing("answer", f.n)'
      BY <1>3, <1>5, <3>1
    <3> QED  BY <1>2, <3>1, <3>2 DEF LoopsStay
  <2>3. Elsewhere
    BY <1>4 DEF Elsewhere, FirstSource, Running
  <2> QED  BY <2>1, <2>2, <2>3, SharingStill DEF Informed
<1> QED  BY <1>3, <1>5, <1>7, <1>8, <1>9, <1>10 DEF Informed

LEMMA ForAllStep ==
  ASSUME IInv, Ordered(stack), SubscribeSource, NEW N, N = Len(source) + 1
  PROVE  /\ Ordered(stack') /\ (synchronous => Doing("answer", N)')
         /\ \A at \in {"emit", "tell"} : ~Running(at)'
         /\ \A m : m # N => ~Doing("answer", m)'
         /\ \A at \in {"notify", "database", "collection", "observe", "shared", "subscribed"} : At(at)' = At(at)
<1>1. /\ TypeOK /\ Frames /\ N \in Nat /\ stack # <<>> /\ Top.at = "source"
      /\ stack' = FetchFrames(N) \o Below
  BY SourceMadeForAll, TopFrame DEF IInv
<1>2. PICK f, b : f = OfSource("answer", N, {}) /\ b = Below
  OBVIOUS
<1>3. Rests(b, {Top})
  BY <1>1, <1>2 DEF Rests
<1>4. b \in Seq(Frame)
  BY <1>1, <1>3, PutOn
<1>5. /\ f \in Frame /\ f.at = "answer" /\ f.n = N /\ Loose(f)
      /\ stack' = IF synchronous THEN <<f>> \o b ELSE b
  <2>1. stack' = FetchFrames(N) \o b
    BY <1>1, <1>2
  <2>2. /\ f \in Frame /\ f.at = "answer" /\ f.n = N /\ Loose(f)
        /\ stack' = IF synchronous THEN <<f>> \o b ELSE b
    BY <1>1, <1>2, <1>4, <2>1, FetchFramesOn
  <2> QED  BY <2>1, <2>2
<1>6. PICK new \in SUBSET {f} : Replaces({Top}, new) /\ Ordered(stack') /\ (synchronous => IsTop(f)')
  <2>1. Over(f, b)
    BY <1>1, <1>3, <1>5, PutOn
  <2>2. synchronous => Replaces({Top}, {f}) /\ IsTop(f)' /\ Ordered(stack')
    BY <1>1, <1>3, <1>5, <2>1, PutOn
  <2>3. ~synchronous => Replaces({Top}, {}) /\ Ordered(stack')
    BY <1>1, <1>3, <1>5, PutOn
  <2> QED  BY <2>2, <2>3
<1>7. \A at \in {"answer", "emit", "tell"} : ~synchronous => ~Running(at)'
  BY <1>1, <1>2, <1>5, TopGoes
<1>8. /\ synchronous => Doing("answer", N)'
      /\ \A at \in {"emit", "tell"} : ~Running(at)'
      /\ \A m : m # N => ~Doing("answer", m)'
  BY <1>5, <1>6, <1>7 DEF IsTop, Doing, Running, Top
<1>9. ASSUME NEW at \in {"notify", "database", "collection", "observe", "shared", "subscribed"}
      PROVE  At(at)' = At(at)
  <2>1. /\ (\A h \in {Top} : h.at # at) => At(at) \subseteq At(at)'
        /\ (\A h \in new : h.at # at) => At(at)' \subseteq At(at)
    BY <1>6, Kinds
  <2> QED  BY <1>1, <1>5, <2>1
<1> QED  BY <1>6, <1>8, <1>9

LEMMA ForAllLearns ==
  ASSUME IInv, Ordered(stack), Joining, Informed, SubscribeSource
  PROVE  Ordered(stack') /\ Joining' /\ Informed'
<1>1. PICK N : N = Len(source) + 1
  OBVIOUS
<1>2. /\ TypeOK /\ Frames /\ stack # <<>> /\ Top.at = "source"
      /\ Sources' = 1 .. N /\ (\A m \in Sources : source'[m] = source[m]) /\ source'[N] = Made(Nobody)
      /\ collection' = collection /\ database' = IF simple THEN database ELSE Append(database, N)
      /\ shared'.subscribers = shared.subscribers /\ shared'.source = N
      /\ shared'.didEmit = shared.didEmit /\ shared'.last = shared.last
      /\ calls' = FetchCalls(N) /\ UNCHANGED <<simple, rows, memory, rejected, unnotified, held,
                                               given, phase, missed>>
  <2>1. /\ UNCHANGED <<simple, rows, memory, rejected, unnotified, held, given, phase, missed>>
        /\ shared' = [shared EXCEPT !.source = N]
    BY <1>1 DEF SubscribeSource, setting, data, notices, people
  <2>2. shared'.didEmit = shared.didEmit /\ shared'.last = shared.last
    BY <2>1 DEF IInv, TypeOK
  <2> QED  BY <1>1, <2>1, <2>2, SourceMadeForAll DEF IInv
<1>3. /\ Ordered(stack') /\ (synchronous => Doing("answer", N)')
      /\ \A at \in {"emit", "tell"} : ~Running(at)'
      /\ \A m : m # N => ~Doing("answer", m)'
      /\ \A at \in {"notify", "database", "collection", "observe", "shared", "subscribed"} : At(at)' = At(at)
  BY <1>1, ForAllStep
<1>4. /\ ~Running("answer") /\ ~Running("emit") /\ ~Running("tell") /\ ~EmitsShared
      /\ ~Running("emit")' /\ ~Running("tell")'
  BY <1>2, <1>3 DEF Running, Top, EmitsShared
<1>5. N \notin Sources /\ Sources \subseteq Sources' /\ N \in Sources' /\ \A m \in Sources' : Learns(m)'
  <2>1. PICK owner : owner = Nobody
    OBVIOUS
  <2>2. /\ collection' = IF owner = Nobody THEN collection ELSE Append(collection, <<N, "columns">>)
        /\ source'[N] = Made(owner) /\ \A m \in Sources : Learns(m)
    BY <1>2, <2>1 DEF Informed
  <2> QED  BY <1>1, <1>2, <1>3, <1>4, <2>2, MadeLearns
<1>6. Joining' /\ ToldOwn'
  BY <1>2, <1>3, <1>4 DEF Joining, ToldOwn
<1>7. Owned'
  BY <1>2, <1>5, OwnersStay DEF Informed
<1>8. Sharing'
  <2>1. NewSource'
    <3>1. Common(N)' /\ source'[N].list = NoList
      BY <1>2 DEF Common, Made
    <3> QED  BY <1>5, <3>1 DEF NewSource, HasList
  <2>2. SharedLoops'
    BY <1>2, <1>3, <1>5 DEF Informed, Sharing, SharedLoops
  <2>3. HasList(shared.last) => HasList(shared.last)'
    BY <1>2, <1>5 DEF HasList, Common
  <2>4. LastEmitted'
    <3>1. source'[N].owner = Nobody
      BY <1>2 DEF Made
    <3> QED  BY <1>2, <1>4, <2>1, <2>3, <3>1 DEF Informed, Sharing, LastEmitted
  <2>5. \A v \in Subscribers \ Columns : phase'[v] \in Here => v \in Range(shared'.subscribers)
    BY <1>2 DEF Informed, Sharing
  <2>6. \A v \in Range(shared'.subscribers) \ missed' : WillHave(v)'
    BY <2>1 DEF WillHave
  <2> QED  BY <2>2, <2>4, <2>5, <2>6 DEF Sharing
<1> QED  BY <1>3, <1>5, <1>6, <1>7, <1>8 DEF Informed

LEMMA SharerStep ==
  ASSUME IInv, Ordered(stack), Joining, NEW u \in Subscribers, Subscribe(u), NEW f, f = OfUser("tell", u, shared.last)
  PROVE  /\ Ordered(stack') /\ f.at = "tell" /\ f.n = 0 /\ f.u = u /\ f.set = shared.last
         /\ shared.didEmit => IsTop(f)'
         /\ ~shared.didEmit => Running("source")'
         /\ \A at \in {"emit", "answer"} : ~Running(at)'
         /\ \A at \in {"notify", "database", "collection", "observe", "shared"} : At(at)' = At(at)
         /\ \A k \in At("subscribed")' : k.u = u \/ k \in At("subscribed")
<1>1. /\ TypeOK /\ Frames /\ phase[u] = "new" /\ stack \in Seq(Frame) /\ shared.last \in Lists
      /\ stack' = (IF shared.didEmit THEN <<f>> ELSE <<>>)
                    \o <<OfUser("source", u, {}), OfUser("subscribed", u, {})>> \o stack
  BY DEF Subscribe, IInv, TypeOK
<1>2. PICK g, h : g = OfUser("source", u, {}) /\ h = OfUser("subscribed", u, {})
  OBVIOUS
<1>3. h \in Frame /\ h.at = "subscribed" /\ h.u = u /\ Over(h, stack)
  BY <1>1, <1>2, JoinsOver
<1>4. f \in Frame /\ g \in Frame
  BY <1>1, <1>2, NewFrames, Fits, TopFrame DEF Lists
<1>5. f.at = "tell" /\ f.n = 0 /\ f.u = u /\ f.set = shared.last /\ g.at = "source" /\ Loose(f) /\ Loose(g)
  BY <1>2 DEF OfUser, NoFrame, Loose
<1>6. stack' = IF shared.didEmit THEN <<f>> \o (<<g>> \o (<<h>> \o stack)) ELSE <<g>> \o (<<h>> \o stack)
  <2>1. <<g, h>> \o stack = <<g>> \o (<<h>> \o stack)
    BY <1>1, <1>3, <1>4, OneByOne
  <2>2. <<f>> \in Seq(Frame) /\ <<g, h>> \in Seq(Frame)
    BY <1>3, <1>4
  <2>3. (<<f>> \o <<g, h>>) \o stack = <<f>> \o (<<g, h>> \o stack)
    BY <1>1, <2>2, ConcatAssociative
  <2>4. <<>> \o <<g, h>> = <<g, h>>
    BY <2>2
  <2> QED  BY <1>1, <1>2, <2>1, <2>3, <2>4
<1>7. Rests(stack, {})
  BY DEF Rests
<1>8. PICK new \in SUBSET {f, g, h} :
        Replaces({}, new) /\ Ordered(stack') /\ IF shared.didEmit THEN IsTop(f)' ELSE IsTop(g)'
  <2>1. shared.didEmit => Replaces({}, {f, g, h}) /\ IsTop(f)' /\ Ordered(stack')
    BY <1>1, <1>3, <1>4, <1>5, <1>6, <1>7, PutOn
  <2>2. ~shared.didEmit => Replaces({}, {g, h}) /\ IsTop(g)' /\ Ordered(stack')
    BY <1>1, <1>3, <1>4, <1>5, <1>6, <1>7, PutOn
  <2> QED  BY <2>1, <2>2
<1>9. /\ \A at \in {"emit", "answer"} : ~Running(at)'
      /\ ~shared.didEmit => Running("source")'
  BY <1>5, <1>8 DEF IsTop, Running, Top
<1>10. ASSUME NEW at
       PROVE  /\ at \notin {"tell", "source", "subscribed"} => At(at)' = At(at)
              /\ \A k \in At(at)' : k = f \/ k = g \/ k = h \/ k \in At(at)
  <2>1. /\ (\A k \in {} : k.at # at) => At(at) \subseteq At(at)'
        /\ (\A k \in new : k.at # at) => At(at)' \subseteq At(at)
        /\ \A k \in At(at)' : k \in new \/ k \in At(at)
    BY <1>8, Kinds
  <2> QED  BY <1>3, <1>5, <2>1
<1>11. \A at \in {"notify", "database", "collection", "observe", "shared"} : At(at)' = At(at)
  BY <1>10
<1>12. \A k \in At("subscribed")' : k.u = u \/ k \in At("subscribed")
  <2>1. \A k \in At("subscribed")' : k.at = "subscribed"
    BY DEF At
  <2> QED  BY <1>3, <1>5, <1>10, <2>1
<1> QED  BY <1>5, <1>8, <1>9, <1>11, <1>12

LEMMA SharerLearns ==
  ASSUME IInv, Ordered(stack), Joining, Informed, NEW u \in Subscribers, Subscribe(u)
  PROVE  Ordered(stack') /\ Joining' /\ Informed'
<1>1. PICK f : f = OfUser("tell", u, shared.last)
  OBVIOUS
<1>2. /\ TypeOK /\ Frames /\ Free /\ u \notin Columns /\ phase[u] = "new"
      /\ phase'[u] = "joining" /\ \A v \in Subscribers : v # u => phase'[v] = phase[v]
      /\ shared'.subscribers = Append(shared.subscribers, u) /\ shared'.source = shared.source
      /\ shared'.didEmit = shared.didEmit /\ shared'.last = shared.last
      /\ UNCHANGED <<simple, rows, memory, rejected, unnotified, held, calls, database, collection,
                     source, given, missed, Sources>>
      /\ shared.subscribers \in Seq(Subscribers) /\ Len(shared.subscribers) \in Nat
  <2>1. TypeOK /\ Frames /\ shared' = [shared EXCEPT !.subscribers = Append(@, u)]
    BY DEF Subscribe, IInv
  <2>2. /\ Free /\ u \notin Columns /\ phase[u] = "new" /\ phase' = [phase EXCEPT ![u] = "joining"]
        /\ UNCHANGED <<simple, rows, memory, rejected, unnotified, held, calls, database, collection,
                       source, given, missed, Sources>>
    BY DEF Subscribe, setting, data, notices, entries, Sources
  <2>3. phase'[u] = "joining" /\ \A v \in Subscribers : v # u => phase'[v] = phase[v]
    BY <2>1, <2>2 DEF TypeOK
  <2>4. /\ shared'.subscribers = Append(shared.subscribers, u) /\ shared'.source = shared.source
        /\ shared'.didEmit = shared.didEmit /\ shared'.last = shared.last
        /\ shared.subscribers \in Seq(Subscribers) /\ Len(shared.subscribers) \in Nat
    BY <2>1 DEF TypeOK
  <2> QED  BY <2>1, <2>2, <2>3, <2>4
<1>3. /\ Ordered(stack') /\ f.at = "tell" /\ f.n = 0 /\ f.u = u /\ f.set = shared.last
      /\ shared.didEmit => IsTop(f)'
      /\ ~shared.didEmit => Running("source")'
      /\ \A at \in {"emit", "answer"} : ~Running(at)'
      /\ \A at \in {"notify", "database", "collection", "observe", "shared"} : At(at)' = At(at)
      /\ \A k \in At("subscribed")' : k.u = u \/ k \in At("subscribed")
  BY <1>1, SharerStep
<1>4. /\ ~Running("emit") /\ ~Running("tell") /\ ~EmitsShared /\ ~FirstSource /\ ~EmitsShared'
      /\ \A m : ~Calls(m) /\ ~Doing("answer", m) /\ ~Doing("answer", m)'
  BY <1>2, <1>3, NowFree DEF Doing, EmitsShared
<1>5. ASSUME Running("tell")'
      PROVE  shared.didEmit /\ Head(stack') = f
  <2>1. shared.didEmit
    BY <1>3, <1>5 DEF Running
  <2> QED  BY <1>3, <2>1 DEF IsTop
<1>6. \A m \in Sources : ~Calls(m)'
  <2>1. 0 \notin Sources
    BY <1>2, TopFrame
  <2> QED  BY <1>3, <1>5, <2>1 DEF Calls, Doing, Top
<1>7. Carries({}, {}) /\ \A m : OldEntries(m) /\ (ToObserve(m) => ToObserve(m)')
  <2>1. Longer(database, database') /\ Longer(collection, collection')
    BY <1>2 DEF Longer
  <2> QED  BY <1>2, <1>3, <2>1, CarriesOn DEF OldEntries, ToObserve
<1>8. ASSUME NEW m \in Sources
      PROVE  Learns(m)'
  <2>1. Learns(m)
    BY DEF Informed
  <2>2. PICK D, E : D = {} /\ E = {}
    OBVIOUS
  <2>3. Carries(D, E) /\ m \notin D /\ \A kind \in {"simple", "columns"} : <<m, kind>> \notin E
    BY <1>7, <2>2
  <2>4. Uninvolved(m)
    BY <1>2, <1>4, <1>6, <1>7 DEF Uninvolved, Still
  <2> QED  BY <1>7, <2>1, <2>3, <2>4, OtherLearns
<1>9. Joining'
  <2>1. ASSUME NEW g \in At("subscribed")', g.u # u
        PROVE  phase'[g.u] = "joining"
    <3>1. g \in At("subscribed") /\ phase[g.u] = "joining"
      BY <1>3, <2>1 DEF Joining
    <3>2. stack \in Seq(Fitting(Len(source))) /\ g \in Range(stack) /\ g.at = "subscribed"
      BY <1>2, <3>1 DEF Frames, Shaped, At
    <3>3. g \in Fitting(Len(source))
      BY <3>2, RangeOf
    <3>4. g.u \in Subscribers
      BY <3>2, <3>3 DEF Fitting
    <3> QED  BY <1>2, <2>1, <3>1, <3>4
  <2> QED  BY <1>2, <2>1 DEF Joining
<1>10. ToldOwn'
  BY <1>2, <1>3, <1>5 DEF ToldOwn, Top
<1>11. Owned'
  BY <1>2, OwnersStay, SubscriptionsAssumption DEF Informed
<1>12. Sharing'
  <2>1. SharedLoops'
    BY <1>2, <1>3, <1>4 DEF Informed, Sharing, SharedLoops
  <2>2. /\ \A n : Common(n)' <=> Common(n)
        /\ \A list : HasList(list) => HasList(list)'
        /\ NewSource => NewSource'
    BY <1>2 DEF Common, HasList, NewSource
  <2>3. /\ Range(shared'.subscribers) = Range(shared.subscribers) \cup {u}
        /\ shared'.subscribers # <<>>
        /\ shared.subscribers = <<>> => Len(shared'.subscribers) = 1
    <3>1. Range(shared'.subscribers) = Range(shared.subscribers) \cup {u}
      BY <1>2, RangeAppended
    <3>2. Len(shared'.subscribers) = Len(shared.subscribers) + 1
      BY <1>2
    <3>3. shared'.subscribers # <<>>
      BY <1>2, <3>2, EmptySeq
    <3> QED  BY <1>2, <3>1, <3>2, <3>3, EmptySeq
  <2>4. shared.didEmit => HasList(shared.last)
    BY <1>4 DEF Informed, Sharing, LastEmitted
  <2>5. ~shared.didEmit => NewSource' \/ FirstSource'
    <3>1. CASE shared.subscribers = <<>>
      BY <1>2, <1>3, <2>3, <3>1 DEF FirstSource
    <3>2. CASE shared.subscribers # <<>>
      BY <1>4, <2>2, <3>2 DEF Informed, Sharing, LastEmitted
    <3> QED  BY <3>1, <3>2
  <2>6. LastEmitted'
    <3>1. (Running("tell") => HasList(Top.set))'
      BY <1>2, <1>3, <1>5, <2>2, <2>4 DEF Top
    <3> QED  BY <1>2, <2>2, <2>3, <2>4, <2>5, <3>1 DEF Informed, Sharing, LastEmitted
  <2>7. \A v \in Subscribers \ Columns : phase'[v] \in Here => v \in Range(shared'.subscribers)
    BY <1>2, <2>3 DEF Informed, Sharing
  <2>8. ASSUME NEW v \in Range(shared'.subscribers) \ missed'
        PROVE  WillHave(v)'
    <3>1. CASE ~shared.didEmit
      BY <2>5, <3>1 DEF WillHave
    <3>2. CASE shared.didEmit /\ v = u
      BY <1>3, <3>2 DEF WillHave, IsTop, Running, Top
    <3>3. CASE v # u
      <4>1. WillHave(v)
        BY <1>2, <2>3, <3>3 DEF Informed, Sharing
      <4>2. CASE NewSource
        BY <2>2, <4>2 DEF WillHave
      <4>3. CASE \E n \in Sources : Common(n) /\ given[v] = Plain(source[n].list)
        BY <1>2, <2>2, <4>3 DEF WillHave, Plain
      <4>4. CASE \E h \in At("shared") : source[h.n].live /\ Reaches(h, shared.subscribers, v)
        <5>1. PICK h \in At("shared") : source[h.n].live /\ Reaches(h, shared.subscribers, v)
          BY <4>4
        <5>2. Longer(shared.subscribers, shared'.subscribers)
          BY <1>2, Longers
        <5>3. Reaches(h, shared'.subscribers, v)
          BY <5>1, <5>2 DEF Reaches, Longer
        <5> QED  BY <1>2, <1>3, <5>1, <5>3 DEF WillHave
      <4> QED  BY <1>4, <4>1, <4>2, <4>3, <4>4 DEF WillHave
    <3> QED  BY <3>1, <3>2, <3>3
  <2> QED  BY <2>1, <2>6, <2>7, <2>8 DEF Sharing
<1>13. \A m \in Sources' : Learns(m)'
  BY <1>2, <1>8
<1> QED  BY <1>3, <1>9, <1>10, <1>11, <1>12, <1>13 DEF Informed

-----------------------------------------------------------------------------
(* The steps that unsubscribe: what is left in an array moves to earlier   *)
(* places, and a loop still comes to what it has not passed over.          *)

LEMMA Counted ==
  ASSUME NEW p \in Nat, NEW T \in SUBSET (1 .. p)
  PROVE  /\ Cardinality(T) \in Nat
         /\ T # {} => Cardinality(T) >= 1
         /\ \A k, l \in T : k # l => Cardinality(T) >= 2
<1>1. IsFiniteSet(T)
  <2>1. IsFiniteSet(1 .. p)
    BY FS_Interval, p \in Int, 1 \in Int
  <2> QED  BY <2>1, FS_Subset
<1>2. Cardinality(T) \in Nat
  BY <1>1, FS_CardinalityType
<1>3. ASSUME NEW k \in T
      PROVE  Cardinality(T) >= 1
  <2>1. Cardinality({k}) = 1
    BY FS_Singleton
  <2>2. {k} \in SUBSET T
    OBVIOUS
  <2>3. Cardinality({k}) <= Cardinality(T)
    BY <1>1, <2>2, FS_Subset
  <2> QED  BY <1>2, <2>1, <2>3
<1>4. ASSUME NEW k \in T, NEW l \in T, k # l
      PROVE  Cardinality(T) >= 2
  <2>1. IsFiniteSet({k}) /\ Cardinality({k}) = 1
    BY FS_Singleton
  <2>2. Cardinality({k} \cup {l}) = 2
    BY <1>4, <2>1, FS_AddElement
  <2>3. {k} \cup {l} \in SUBSET T
    OBVIOUS
  <2>4. Cardinality({k} \cup {l}) <= Cardinality(T)
    BY <1>1, <2>3, FS_Subset
  <2> QED  BY <1>2, <2>2, <2>4
<1> QED  BY <1>2, <1>3, <1>4

(* Where Without() leaves the items, k being the place that is gone.       *)
Gone(s, new, e, k) ==
  /\ \A i \in DOMAIN new : \/ i < k /\ i \in DOMAIN s /\ new[i] = s[i]
                           \/ i >= k /\ i + 1 \in DOMAIN s /\ new[i] = s[i + 1]
  /\ \A j \in DOMAIN s : s[j] # e =>
       \/ j < k /\ j \in DOMAIN new /\ new[j] = s[j]
       \/ j > k /\ j - 1 \in DOMAIN new /\ new[j - 1] = s[j] /\ k \in DOMAIN s /\ s[k] = e

LEMMA WithoutAt ==
  ASSUME NEW S, NEW s \in Seq(S), NEW e
  PROVE  /\ Without(s, e) \in Seq(S) /\ DOMAIN s \subseteq Nat \ {0} /\ DOMAIN Without(s, e) \subseteq Nat \ {0}
         /\ \E k \in Nat : Gone(s, Without(s, e), e, k)
<1>1. /\ Without(s, e) \in Seq(S) /\ DOMAIN s = 1 .. Len(s) /\ DOMAIN Without(s, e) = 1 .. Len(Without(s, e))
      /\ Len(s) \in Nat /\ Len(Without(s, e)) \in Nat
  <2>1. Without(s, e) \in Seq(S)
    BY Removed
  <2> QED  BY <2>1
<1>2. CASE ~ \E i \in DOMAIN s : s[i] = e
  <2>1. Without(s, e) = s
    BY <1>2 DEF Without
  <2>2. Gone(s, s, e, Len(s) + 1)
    BY <1>1 DEF Gone
  <2> QED  BY <1>1, <2>1, <2>2
<1>3. CASE \E i \in DOMAIN s : s[i] = e
  <2> DEFINE k == CHOOSE i \in DOMAIN s : s[i] = e
             a == SubSeq(s, 1, k - 1)
             b == SubSeq(s, k + 1, Len(s))
             r == a \o b
  <2>1. k \in 1 .. Len(s) /\ s[k] = e
    BY <1>3
  <2>2. Without(s, e) = r
    BY <1>3 DEF Without, RemoveAt
  <2> HIDE DEF k
  <2>3. a \in Seq(S) /\ Len(a) = k - 1 /\ \A i \in 1 .. k - 1 : a[i] = s[i]
    BY <2>1, SubSeqProperties
  <2>4. b \in Seq(S) /\ Len(b) = Len(s) - k /\ \A i \in 1 .. Len(s) - k : b[i] = s[k + i]
    BY <2>1, SubSeqProperties
  <2> HIDE DEF a, b
  <2>5. /\ r \in Seq(S) /\ Len(r) = Len(a) + Len(b)
        /\ \A i \in 1 .. Len(a) + Len(b) : r[i] = IF i <= Len(a) THEN a[i] ELSE b[i - Len(a)]
    BY <2>3, <2>4, ConcatProperties
  <2>6. r \in Seq(S) /\ Len(r) = Len(s) - 1
    BY <2>1, <2>3, <2>4, <2>5
  <2> HIDE DEF r
  <2>7. \A i \in 1 .. Len(r) : r[i] = IF i < k THEN s[i] ELSE s[i + 1]
    BY <2>1, <2>3, <2>4, <2>5, <2>6
  <2>8. DOMAIN r = 1 .. Len(r) /\ DOMAIN s = 1 .. Len(s) /\ Len(r) \in Nat /\ Len(s) \in Nat
    BY <2>6
  <2>9. \A i \in DOMAIN r : \/ i < k /\ i \in DOMAIN s /\ r[i] = s[i]
                            \/ i >= k /\ i + 1 \in DOMAIN s /\ r[i] = s[i + 1]
    BY <2>1, <2>6, <2>7, <2>8
  <2>10. ASSUME NEW j \in DOMAIN s, s[j] # e
         PROVE  \/ j < k /\ j \in DOMAIN r /\ r[j] = s[j]
                \/ j > k /\ j - 1 \in DOMAIN r /\ r[j - 1] = s[j] /\ k \in DOMAIN s /\ s[k] = e
    <3>1. CASE j < k
      BY <2>1, <2>6, <2>7, <2>8, <3>1
    <3>2. CASE j > k
      <4>1. j - 1 \in DOMAIN r /\ ~ j - 1 < k /\ j - 1 + 1 = j
        BY <3>2, <2>1, <2>6, <2>8
      <4> QED  BY <2>1, <2>7, <2>8, <3>2, <4>1
    <3> QED  BY <2>1, <2>8, <2>10, <3>1, <3>2
  <2>11. Gone(s, r, e, k) /\ k \in Nat
    BY <2>1, <2>9, <2>10 DEF Gone
  <2> QED  BY <1>1, <2>2, <2>11
<1> QED  BY <1>2, <1>3

LEMMA GoneInOrder ==
  ASSUME NEW s, NEW new, NEW e, NEW k \in Nat, Gone(s, new, e, k),
         DOMAIN s \subseteq Nat \ {0}, DOMAIN new \subseteq Nat \ {0}
  PROVE  \A i, j \in DOMAIN new : i < j => \E a, b \in DOMAIN s : a < b /\ s[a] = new[i] /\ s[b] = new[j]
<1> SUFFICES ASSUME NEW i \in DOMAIN new, NEW j \in DOMAIN new, i < j
             PROVE  \E a, b \in DOMAIN s : a < b /\ s[a] = new[i] /\ s[b] = new[j]
  OBVIOUS
<1>1. PICK a \in DOMAIN s : s[a] = new[i] /\ ((i < k /\ a = i) \/ (i >= k /\ a = i + 1))
  BY DEF Gone
<1>2. PICK b \in DOMAIN s : s[b] = new[j] /\ ((j < k /\ b = j) \/ (j >= k /\ b = j + 1))
  BY DEF Gone
<1>3. i \in Nat /\ j \in Nat
  OBVIOUS
<1>4. a < b
  BY <1>1, <1>2, <1>3
<1> QED  BY <1>1, <1>2, <1>4

(* What is left of one array, when one or two items are gone: the order is *)
(* kept, and an item moves by no more places than are gone before it.      *)
Left(s, new, gone) ==
  /\ \A p \in DOMAIN s : s[p] \notin gone => \E q \in DOMAIN new :
       new[q] = s[p] /\ q <= p /\ q >= p - Cardinality({r \in 1 .. p : s[r] \in gone})
  /\ \A i, j \in DOMAIN new : i < j =>
       \E k, l \in DOMAIN s : k < l /\ s[k] = new[i] /\ s[l] = new[j]

LEMMA OneGone ==
  ASSUME NEW S, NEW s \in Seq(S), NEW e
  PROVE  Left(s, Without(s, e), {e})
<1>1. PICK new : new = Without(s, e)
  OBVIOUS
<1>2. DOMAIN s \subseteq Nat \ {0} /\ DOMAIN new \subseteq Nat \ {0}
  BY <1>1, WithoutAt
<1>3. PICK k \in Nat : Gone(s, new, e, k)
  BY <1>1, WithoutAt
<1>4. ASSUME NEW p \in DOMAIN s, s[p] # e
      PROVE  \E q \in DOMAIN new : new[q] = s[p] /\ q <= p /\ q >= p - Cardinality({r \in 1 .. p : s[r] \in {e}})
  <2>1. PICK T \in SUBSET (1 .. p) : T = {r \in 1 .. p : s[r] \in {e}}
    OBVIOUS
  <2>2. p \in Nat /\ Cardinality(T) \in Nat /\ (T # {} => Cardinality(T) >= 1)
    BY <1>2, Counted
  <2>3. CASE p < k /\ p \in DOMAIN new /\ new[p] = s[p]
    <3>1. p <= p /\ p >= p - Cardinality(T)
      BY <2>2
    <3> QED  BY <2>1, <2>3, <3>1
  <2>4. CASE p > k /\ p - 1 \in DOMAIN new /\ new[p - 1] = s[p] /\ k \in DOMAIN s /\ s[k] = e
    <3>1. k \in T
      BY <1>2, <2>1, <2>2, <2>4
    <3>2. p - 1 >= p - Cardinality(T) /\ p - 1 <= p
      BY <2>2, <3>1
    <3> QED  BY <2>1, <2>4, <3>2
  <2> QED  BY <1>3, <1>4, <2>3, <2>4 DEF Gone
<1>5. \A i, j \in DOMAIN new : i < j => \E a, b \in DOMAIN s : a < b /\ s[a] = new[i] /\ s[b] = new[j]
  BY <1>2, <1>3, GoneInOrder
<1> QED  BY <1>1, <1>4, <1>5 DEF Left

LEMMA TwoGone ==
  ASSUME NEW S, NEW s \in Seq(S), NEW d, NEW e, d # e
  PROVE  Left(s, Without(Without(s, e), d), {d, e})
<1>1. PICK one \in Seq(S) : one = Without(s, e)
  BY WithoutAt
<1>2. PICK new : new = Without(one, d)
  OBVIOUS
<1>3. DOMAIN s \subseteq Nat \ {0} /\ DOMAIN one \subseteq Nat \ {0} /\ DOMAIN new \subseteq Nat \ {0}
  BY <1>1, <1>2, WithoutAt
<1>4. PICK k \in Nat, l \in Nat : Gone(s, one, e, k) /\ Gone(one, new, d, l)
  BY <1>1, <1>2, WithoutAt
<1>5. ASSUME NEW p \in DOMAIN s, s[p] # d, s[p] # e
      PROVE  \E q \in DOMAIN new :
               new[q] = s[p] /\ q <= p /\ q >= p - Cardinality({r \in 1 .. p : s[r] \in {d, e}})
  <2>1. PICK T \in SUBSET (1 .. p) : T = {r \in 1 .. p : s[r] \in {d, e}}
    OBVIOUS
  <2>2. /\ p \in Nat /\ Cardinality(T) \in Nat /\ (T # {} => Cardinality(T) >= 1)
        /\ \A i, j \in T : i # j => Cardinality(T) >= 2
    BY <1>3, Counted
  <2>3. PICK i \in DOMAIN one : one[i] = s[p] /\ (i = p \/ (i = p - 1 /\ \E j \in T : s[j] = e))
    <3>1. CASE p < k /\ p \in DOMAIN one /\ one[p] = s[p]
      BY <3>1
    <3>2. CASE p > k /\ p - 1 \in DOMAIN one /\ one[p - 1] = s[p] /\ k \in DOMAIN s /\ s[k] = e
      <4>1. k \in T
        BY <1>3, <2>1, <2>2, <3>2
      <4> QED  BY <3>2, <4>1
    <3> QED  BY <1>4, <1>5, <3>1, <3>2 DEF Gone
  <2>4. PICK q \in DOMAIN new : new[q] = s[p] /\ (q = i \/ (q = i - 1 /\ \E j \in T : s[j] = d))
    <3>1. CASE i < l /\ i \in DOMAIN new /\ new[i] = one[i]
      BY <2>3, <3>1
    <3>2. CASE i > l /\ i - 1 \in DOMAIN new /\ new[i - 1] = one[i] /\ l \in DOMAIN one /\ one[l] = d
      <4>1. PICK j \in DOMAIN s : s[j] = d /\ j <= l + 1
        BY <1>3, <1>4, <3>2 DEF Gone
      <4>2. j \in T
        BY <1>3, <2>1, <2>2, <2>3, <3>2, <4>1
      <4> QED  BY <2>3, <3>2, <4>1, <4>2
    <3> QED  BY <1>4, <1>5, <2>3, <3>1, <3>2 DEF Gone
  <2>5. q <= p /\ q >= p - Cardinality(T)
    <3>1. CASE i = p /\ q = i
      BY <1>3, <2>2, <3>1
    <3>2. CASE i = p - 1 /\ q = i
      <4>1. T # {}
        BY <2>3, <2>2, <3>2
      <4> QED  BY <1>3, <2>2, <3>2, <4>1
    <3>3. CASE i = p /\ q = i - 1
      <4>1. T # {}
        BY <1>3, <2>4, <2>2, <3>3
      <4> QED  BY <1>3, <2>2, <3>3, <4>1
    <3>4. CASE i = p - 1 /\ q = i - 1
      <4>1. PICK a \in T, b \in T : s[a] = e /\ s[b] = d
        BY <1>3, <2>2, <2>3, <2>4, <3>4
      <4>2. Cardinality(T) >= 2
        BY <2>2, <4>1
      <4> QED  BY <1>3, <2>2, <3>4, <4>2
    <3> QED  BY <2>3, <2>4, <3>1, <3>2, <3>3, <3>4
  <2> QED  BY <2>1, <2>4, <2>5
<1>6. ASSUME NEW i \in DOMAIN new, NEW j \in DOMAIN new, i < j
      PROVE  \E a, b \in DOMAIN s : a < b /\ s[a] = new[i] /\ s[b] = new[j]
  <2>1. PICK a, b \in DOMAIN one : a < b /\ one[a] = new[i] /\ one[b] = new[j]
    BY <1>3, <1>4, <1>6, GoneInOrder
  <2>2. PICK c, h \in DOMAIN s : c < h /\ s[c] = one[a] /\ s[h] = one[b]
    BY <1>3, <1>4, <2>1, GoneInOrder
  <2> QED  BY <2>1, <2>2
<1>7. Left(s, new, {d, e})
  BY <1>5, <1>6 DEF Left
<1> QED  BY <1>1, <1>2, <1>7

(* A loop that has to come to an item comes to it still, unless the item   *)
(* moved to a place that the loop has been to.                             *)
LEMMA LeftReaches ==
  ASSUME TypeOK, NEW at, NEW S, NEW items \in Seq(S), Items(at) = items, NEW gone, NEW new \in Seq(S),
         Left(items, new, gone), NEW f \in At(at), NEW e, e \notin gone
  PROVE  /\ e \notin Skipped(at, gone) /\ Reaches(f, items, e) => Reaches(f, new, e)
         /\ Includes(f, items, e) => Includes(f, new, e)
<1>1. /\ stack \in Seq(Frame) /\ f \in Frame /\ f.at = at /\ f.i \in Nat /\ f.len \in Nat
      /\ DOMAIN items = 1 .. Len(items) /\ Len(items) \in Nat
  <2>1. stack \in Seq(Frame) /\ f.at = at /\ f \in Range(stack)
    BY DEF TypeOK, At
  <2>2. f \in Frame
    BY <2>1, RangeOf
  <2> QED  BY <2>1, <2>2 DEF Frame
<1>2. PICK k \in DOMAIN stack : stack[k] = f
  BY <1>1, RangeOf DEF At
<1>3. ASSUME NEW p \in DOMAIN items, items[p] = e
      PROVE  \E q \in DOMAIN new : /\ new[q] = e /\ q <= p
                                   /\ e \notin Skipped(at, gone) /\ p > f.i /\ (f.i = 0 \/ p <= f.len) => q > f.i
  <2>1. PICK c : c = Cardinality({r \in 1 .. p : items[r] \in gone})
    OBVIOUS
  <2>2. p \in Nat /\ c \in Nat
    <3>1. p \in Nat
      BY <1>1
    <3>2. {r \in 1 .. p : items[r] \in gone} \in SUBSET (1 .. p)
      OBVIOUS
    <3> QED  BY <2>1, <3>1, <3>2, Counted
  <2>3. PICK q \in DOMAIN new : new[q] = e /\ q <= p /\ q >= p - c
    BY <1>3, <2>1 DEF Left
  <2>4. ASSUME e \notin Skipped(at, gone), p > f.i, f.i = 0 \/ p <= f.len
        PROVE  p - c > f.i
    <3>1. p \in f.i + 1 .. Length(f)
      BY <1>1, <2>2, <2>4 DEF Length
    <3>2. ~ p - c <= f.i
      BY <1>1, <1>2, <1>3, <2>1, <2>4, <3>1 DEF Skipped
    <3> QED  BY <1>1, <2>2, <3>2
  <2>5. p - c > f.i => q > f.i
    <3>1. q \in Nat /\ q >= p - c
      BY <2>3
    <3> QED  BY <1>1, <2>2, <3>1
  <2> QED  BY <2>3, <2>4, <2>5
<1>4. DOMAIN new = 1 .. Len(new) /\ Len(new) \in Nat
  OBVIOUS
<1>5. ASSUME NEW p \in DOMAIN items, NEW q \in DOMAIN new, q <= p, p <= f.len
      PROVE  q <= f.len
  BY <1>1, <1>4, <1>5
<1>6. e \notin Skipped(at, gone) /\ Reaches(f, items, e) => Reaches(f, new, e)
  BY <1>1, <1>3, <1>5 DEF Reaches
<1>7. Includes(f, items, e) => Includes(f, new, e)
  BY <1>3, <1>5 DEF Includes
<1> QED  BY <1>6, <1>7

LEMMA LeftEntries ==
  ASSUME NEW s, NEW new, NEW gone, Left(s, new, gone)
  PROVE  \A e : e \notin gone /\ Entry(s, e) => Entry(new, e)
  BY DEF Left, Entry

LEMMA LeftInOrder ==
  ASSUME NEW S, NEW s \in Seq(S), NEW new \in Seq(S), NEW gone, Left(s, new, gone), NEW m, InOrder(s, m)
  PROVE  InOrder(new, m)
<1> SUFFICES ASSUME NEW p \in DOMAIN new, NEW q \in DOMAIN new,
                    new[p] = <<m, "columns">>, new[q] = <<m, "simple">>
             PROVE  p < q
  BY DEF InOrder
<1>1. p \in Nat /\ q \in Nat /\ p # q
  <2>1. new[p] # new[q]
    OBVIOUS
  <2> QED  BY <2>1
<1>2. ~ q < p
  <2> SUFFICES ASSUME q < p
               PROVE  FALSE
    OBVIOUS
  <2>1. PICK k, l \in DOMAIN s : k < l /\ s[k] = new[q] /\ s[l] = new[p]
    BY DEF Left
  <2>2. k \in Nat /\ l \in Nat /\ l < k
    BY <2>1 DEF InOrder
  <2> QED  BY <2>1, <2>2
<1> QED  BY <1>1, <1>2

(* What the end of a source leaves of the others.                          *)
GoneEntries(n) == {<<n, "columns">>, <<n, "simple">>}
FieldsStay(m) ==
  /\ source'[m].owner = source[m].owner /\ source'[m].live = source[m].live
  /\ source'[m].list = source[m].list /\ source'[m].fetching = source[m].fetching
  /\ source'[m].pending = source[m].pending /\ source'[m].first = source[m].first
  /\ source'[m].observed = source[m].observed /\ source'[m].states = source[m].states
  /\ source'[m].early = source[m].early
LEMMA EndFields ==
  ASSUME TypeOK, Frames, NEW n, EndSource(n), NEW m \in Sources, m # n
  PROVE  /\ FieldsStay(m)
         /\ source'[m].stale <=> source[m].stale \/ m \in Skipped("database", {n})
         /\ source'[m].lost <=> source[m].lost \/ \E item \in Skipped("collection", GoneEntries(n)) : m = item[1]
<1>1. PICK stale, lost : /\ stale = (m \in Skipped("database", {n}))
                         /\ lost = (m \in {item[1] : item \in Skipped("collection", GoneEntries(n))})
  OBVIOUS
<1>2. lost <=> \E item \in Skipped("collection", GoneEntries(n)) : m = item[1]
  BY <1>1
<1>3. source'[m] = [source[m] EXCEPT !.stale = @ \/ stale, !.lost = @ \/ lost]
  BY <1>1 DEF EndSource, GoneEntries
<1>4. source[m] \in Observer
  BY TopFrame
<1> QED  BY ONLY <1>1, <1>2, <1>3, <1>4 DEF Observer, FieldsStay

LEMMA EndedKeeps ==
  ASSUME TypeOK, Frames, NEW n, EndSource(n), NEW m \in Sources, m # n,
         UNCHANGED <<simple, rows, memory, rejected, calls, unnotified, held, stack>>
  PROVE  Keeps(m)
<1>1. /\ source'[m].stale <=> source[m].stale \/ m \in Skipped("database", {n})
      /\ source'[m].lost <=> source[m].lost \/ \E item \in Skipped("collection", GoneEntries(n)) : m = item[1]
  BY EndFields
<1>2. /\ database \in Seq(Sources) /\ collection \in Seq(Sources \X {"columns", "simple"})
      /\ database' \in Seq(Sources) /\ collection' \in Seq(Sources \X {"columns", "simple"})
  BY SourceEnded DEF TypeOK
<1>3. Left(database, database', {n}) /\ Left(collection, collection', GoneEntries(n))
  <2>1. Left(database, Without(database, n), {n})
    BY <1>2, OneGone
  <2>2. PICK d, e : d = <<n, "columns">> /\ e = <<n, "simple">>
    OBVIOUS
  <2>3. Left(collection, Without(Without(collection, e), d), {d, e})
    BY <1>2, <2>2, TwoGone
  <2> QED  BY <2>1, <2>2, <2>3, SourceEnded DEF GoneEntries
<1>4. \A at : At(at)' = At(at)
  BY DEF At
<1>5. ASSUME NEW kind \in {"simple", "columns"}
      PROVE  /\ <<m, kind>> \notin GoneEntries(n)
             /\ ~source'[m].lost => <<m, kind>> \notin Skipped("collection", GoneEntries(n))
  BY <1>1 DEF GoneEntries
<1>6. \A id \in Records : Coming(id) => Coming(id)'
  BY <1>4 DEF Coming, Batches
<1>7. ASSUME NEW kind \in {"simple", "columns"}, NEW f \in At("collection")
      PROVE  /\ ~source'[m].lost /\ Reaches(f, collection, <<m, kind>>) => Reaches(f, collection', <<m, kind>>)
             /\ Includes(f, collection, <<m, kind>>) => Includes(f, collection', <<m, kind>>)
  <2>1. PICK e : e = <<m, kind>>
    OBVIOUS
  <2>2. e \notin GoneEntries(n) /\ (~source'[m].lost => e \notin Skipped("collection", GoneEntries(n)))
    BY <1>5, <2>1
  <2>3. Items("collection") = collection
    BY DEF Items
  <2>4. /\ e \notin Skipped("collection", GoneEntries(n)) /\ Reaches(f, collection, e) => Reaches(f, collection', e)
        /\ Includes(f, collection, e) => Includes(f, collection', e)
    BY <1>2, <1>3, <2>2, <2>3, LeftReaches
  <2> QED  BY <2>1, <2>2, <2>4
<1>8. KeepsAwaited(m)
  BY <1>1, <1>4, <1>6, <1>7 DEF KeepsAwaited, Awaited
<1>9. KeepsPending(m)
  BY <1>1, <1>4, <1>7 DEF KeepsPending, Comes
<1>10. KeepsEntries(m)
  <2>1. \A kind \in {"simple", "columns"} : Entry(collection, <<m, kind>>) => Entry(collection', <<m, kind>>)
    BY <1>3, <1>5, LeftEntries
  <2>2. Entry(database, m) => Entry(database', m)
    <3>1. m \notin {n}
      OBVIOUS
    <3> QED  BY <1>3, <3>1, LeftEntries
  <2>3. InOrder(collection, m) => InOrder(collection', m)
    BY <1>2, <1>3, LeftInOrder
  <2> QED  BY <1>4, <2>1, <2>2, <2>3 DEF KeepsEntries, ToObserve
<1>11. KeepsFetches(m)
  <2>1. Fetched(m)' <=> Fetched(m)
    BY DEF Fetched, Doing, Running, Top
  <2>2. ASSUME ~source'[m].stale
        PROVE  Comes("database", database, m) => Comes("database", database, m)'
    <3>1. m \notin {n} /\ m \notin Skipped("database", {n}) /\ Items("database") = database
      BY <1>1, <2>2 DEF Items
    <3>2. \A f \in At("database") : Reaches(f, database, m) => Reaches(f, database', m)
      BY <1>2, <1>3, <3>1, LeftReaches
    <3> QED  BY <1>4, <3>2 DEF Comes
  <2>3. ASSUME ~source'[m].stale
        PROVE  Refetched(m) => Refetched(m)'
    BY <1>4, <2>1, <2>2, <2>3 DEF Refetched
  <2> QED  BY <1>1, <2>1, <2>3 DEF KeepsFetches
<1> QED  BY <1>8, <1>9, <1>10, <1>11 DEF Keeps

LEMMA StackAsItWas ==
  ASSUME Free, UNCHANGED stack, Ordered(stack), Joining,
         \A f \in At("subscribed") : phase'[f.u] = phase[f.u]
  PROVE  /\ Ordered(stack') /\ Joining'
         /\ \A m : ~Calls(m) /\ ~Calls(m)' /\ ~Doing("answer", m)' /\ ~Doing("answer", m)
         /\ ~EmitsShared /\ ~EmitsShared' /\ ~FirstSource /\ ~FirstSource'
         /\ ~Running("tell") /\ ~Running("tell")'
         /\ \A at : At(at)' = At(at)
<1>1. \A at : At(at)' = At(at) /\ (Running(at)' <=> Running(at))
  BY DEF At, Running
<1>2. Joining'
  BY <1>1 DEF Joining
<1>3. \A m : ~Calls(m) /\ ~Doing("answer", m) /\ ~EmitsShared /\ ~FirstSource
  BY NowFree
<1>4. \A at \in {"answer", "emit", "tell", "source"} : ~Running(at) /\ ~Running(at)'
  BY <1>1, NowFree
<1>5. \A m : ~Calls(m)' /\ ~Doing("answer", m)'
  BY <1>4 DEF Calls, Doing
<1>6. ~EmitsShared' /\ ~FirstSource'
  BY <1>4 DEF EmitsShared, FirstSource
<1> QED  BY <1>1, <1>2, <1>3, <1>4, <1>5, <1>6

LEMMA LeaverJoined ==
  ASSUME TypeOK, Frames, Joining, NEW u \in Subscribers, MayLeave(u)
  PROVE  /\ Free /\ phase'[u] = "left" /\ \A v \in Subscribers : v # u => phase'[v] = phase[v] /\ given'[v] = given[v]
         /\ \A f \in At("subscribed") : phase'[f.u] = phase[f.u]
         /\ \A v \in Subscribers : phase'[v] \in Here => phase[v] \in Here /\ v # u
<1>1. /\ Free /\ phase[u] = "joined" /\ phase'[u] = "left"
      /\ \A v \in Subscribers : v # u => phase'[v] = phase[v] /\ given'[v] = given[v]
  BY DEF MayLeave, TypeOK
<1>2. ASSUME NEW f \in At("subscribed")
      PROVE  phase'[f.u] = phase[f.u]
  <2>1. f \in Range(stack) /\ f.at = "subscribed" /\ stack \in Seq(Fitting(Len(source)))
    BY DEF At, Frames, Shaped
  <2>2. f \in Fitting(Len(source))
    BY <2>1, RangeOf
  <2>3. f.u \in Subscribers /\ phase[f.u] = "joining"
    BY <2>1, <2>2 DEF Fitting, Joining
  <2> QED  BY <1>1, <2>3
<1> QED  BY <1>1, <1>2 DEF Here

LEMMA EndedLearns ==
  ASSUME IInv, Ordered(stack), Joining, Informed, NEW n, EndSource(n), Free,
         UNCHANGED <<simple, rows, memory, rejected, calls, unnotified, held, stack>>,
         \A f \in At("subscribed") : phase'[f.u] = phase[f.u],
         \A m \in Sources : source[m].live /\ m # n /\ source[m].owner # Nobody =>
           given'[source[m].owner] = given[source[m].owner]
  PROVE  \A m \in Sources' : Learns(m)'
<1>1. TypeOK /\ Frames
  BY DEF IInv
<1>2. Sources' = Sources /\ \A m \in Sources : source'[m].live => source[m].live /\ m # n
  BY <1>1, SourceEnded
<1>3. ASSUME NEW m \in Sources, source[m].live, m # n
      PROVE  Learns(m)'
  <2>1. Keeps(m) /\ Learns(m)
    BY <1>1, <1>3, EndedKeeps DEF Informed
  <2>2. Still(m)
    <3>1. FieldsStay(m)
      BY <1>1, <1>3, EndFields
    <3>2. given'[source[m].owner] = given[source[m].owner] \/ source[m].owner = Nobody
      BY <1>3
    <3> QED  BY <3>1, <3>2 DEF Still, FieldsStay
  <2>3. ~Calls(m) /\ ~Calls(m)'
    BY StackAsItWas
  <2> QED  BY <2>1, <2>2, <2>3, LearnsStill
<1>4. ASSUME NEW m \in Sources, ~source'[m].live
      PROVE  Learns(m)'
  BY <1>4 DEF Learns
<1> QED  BY <1>2, <1>3, <1>4

LEMMA ColumnsLeaveLearns ==
  ASSUME IInv, Ordered(stack), Joining, Informed, NEW u \in Subscribers, UnsubscribeColumns(u)
  PROVE  Ordered(stack') /\ Joining' /\ Informed'
<1>1. /\ TypeOK /\ Frames /\ MayLeave(u) /\ u \in Columns /\ u # Nobody
      /\ UNCHANGED <<simple, rows, memory, rejected, calls, unnotified, held, stack, shared, missed>>
  BY SubscriptionsAssumption DEF UnsubscribeColumns, IInv, setting, data, notices
<1>2. /\ Free /\ phase'[u] = "left" /\ \A v \in Subscribers : v # u => phase'[v] = phase[v] /\ given'[v] = given[v]
      /\ \A f \in At("subscribed") : phase'[f.u] = phase[f.u]
      /\ \A v \in Subscribers : phase'[v] \in Here => phase[v] \in Here /\ v # u
  BY <1>1, LeaverJoined
<1>3. PICK n \in Sources : source[n].owner = u /\ EndSource(n)
  BY DEF UnsubscribeColumns
<1>4. \A m \in Sources : m # n /\ source[m].owner # Nobody => source[m].owner \in Subscribers \ {u}
  BY <1>1, <1>3, SubscriptionsAssumption DEF IInv, Owners
<1>5. \A m \in Sources' : Learns(m)'
  BY <1>1, <1>2, <1>3, <1>4, EndedLearns
<1>6. /\ Ordered(stack') /\ Joining' /\ ~EmitsShared /\ ~FirstSource
      /\ \A m : ~Doing("answer", m)'
      /\ ~Running("tell") /\ ~Running("tell")' /\ At("shared")' = At("shared")
  BY <1>1, <1>2, StackAsItWas
<1>7. /\ Sources' = Sources
      /\ \A m \in Sources : /\ source'[m].owner = source[m].owner
                            /\ source'[m].live <=> source[m].live /\ m # n
                            /\ m # n => source'[m].list = source[m].list
  BY <1>1, <1>3, SourceEnded
<1>8. ToldOwn'
  BY <1>6 DEF ToldOwn
<1>9. Owned'
  <2> SUFFICES ASSUME NEW v \in Columns, phase'[v] \in Here
               PROVE  \E m \in Sources' : source'[m].live /\ source'[m].owner = v
    BY DEF Owned
  <2>1. phase[v] \in Here /\ v # u
    BY <1>2, SubscriptionsAssumption
  <2>2. PICK m \in Sources : source[m].live /\ source[m].owner = v
    BY <2>1 DEF Informed, Owned
  <2> QED  BY <1>3, <1>7, <2>1, <2>2
<1>10. Sharing'
  <2>1. SharersStay
    BY <1>1, <1>2, <1>7 DEF SharersStay
  <2>2. CommonStay
    <3>1. \A m \in Sources : Common(m) => m # n
      BY <1>1, <1>3 DEF Common
    <3>2. \A m \in Sources : m # n => (source'[m].live <=> source[m].live) /\ source'[m].owner = source[m].owner
                                       /\ source'[m].list = source[m].list
      BY <1>7
    <3> QED  BY <3>1, <3>2 DEF CommonStay, Common
  <2>3. LoopsStay
    <3>1. \A f \in At("shared") : f.n \in Sources /\ source[f.n].owner = Nobody
      BY DEF Informed, Sharing, SharedLoops
    <3> QED  BY <1>1, <1>3, <1>6, <1>7, <3>1 DEF LoopsStay
  <2>4. Elsewhere
    BY <1>6 DEF Elsewhere
  <2> QED  BY <2>1, <2>2, <2>3, <2>4, SharingStill DEF Informed
<1> QED  BY <1>5, <1>6, <1>8, <1>9, <1>10 DEF Informed

LEMMA SharerLeavesLearns ==
  ASSUME IInv, Ordered(stack), Joining, Informed, NEW u \in Subscribers, Unsubscribe(u)
  PROVE  Ordered(stack') /\ Joining' /\ Informed'
<1>1. /\ TypeOK /\ Frames /\ MayLeave(u) /\ u \notin Columns /\ Alike(shared.subscribers)
      /\ UNCHANGED <<simple, rows, memory, rejected, unnotified, held, calls, stack, database,
                     collection, source, Sources>>
      /\ missed' = missed \cup Skipped("shared", {u})
      /\ shared'.subscribers = Without(shared.subscribers, u) /\ shared'.subscribers # <<>>
      /\ shared'.source = shared.source /\ shared'.didEmit = shared.didEmit /\ shared'.last = shared.last
      /\ shared.subscribers \in Seq(Subscribers)
  <2>1. shared' = [shared EXCEPT !.subscribers = Without(@, u)] /\ Without(shared.subscribers, u) # <<>>
    BY DEF Unsubscribe
  <2>2. /\ shared'.subscribers = Without(shared.subscribers, u)
        /\ shared'.source = shared.source /\ shared'.didEmit = shared.didEmit /\ shared'.last = shared.last
        /\ shared.subscribers \in Seq(Subscribers)
    BY <2>1 DEF IInv, TypeOK
  <2> QED  BY <2>1, <2>2 DEF Unsubscribe, IInv, Sharers, setting, data, notices, entries, Sources
<1>2. /\ Free /\ phase'[u] = "left" /\ \A v \in Subscribers : v # u => phase'[v] = phase[v] /\ given'[v] = given[v]
      /\ \A f \in At("subscribed") : phase'[f.u] = phase[f.u]
      /\ \A v \in Subscribers : phase'[v] \in Here => phase[v] \in Here /\ v # u
  BY <1>1, LeaverJoined
<1>3. /\ Ordered(stack') /\ Joining' /\ ~EmitsShared /\ ~FirstSource
      /\ \A m : ~Calls(m) /\ ~Calls(m)' /\ ~Doing("answer", m)' /\ ~Doing("answer", m)
      /\ ~Running("tell") /\ ~Running("tell")'
      /\ \A at : At(at)' = At(at)
  BY <1>1, <1>2, StackAsItWas
<1>4. ASSUME NEW m \in Sources
      PROVE  Learns(m)'
  <2>1. Learns(m) /\ OldEntries(m) /\ (ToObserve(m) => ToObserve(m)')
    BY <1>1, <1>3 DEF Informed, OldEntries, ToObserve
  <2>2. PICK E : E = {}
    OBVIOUS
  <2>3. Carries(E, E) /\ m \notin E /\ \A kind \in {"simple", "columns"} : <<m, kind>> \notin E
    <3>1. Longer(database, database') /\ Longer(collection, collection')
      BY <1>1 DEF Longer
    <3>2. Carries(E, E)
      BY <1>1, <1>3, <2>2, <3>1, CarriesOn
    <3> QED  BY <2>2, <3>2
  <2>4. source[m].owner # Nobody => source[m].owner \in Subscribers \ {u}
    BY <1>1, SubscriptionsAssumption DEF IInv, Owners
  <2>5. Uninvolved(m)
    BY <1>1, <1>2, <1>3, <2>1, <2>4 DEF Uninvolved, Still
  <2> QED  BY <2>1, <2>3, <2>5, OtherLearns
<1>5. ToldOwn' /\ Owned'
  BY <1>1, <1>2, <1>3, OwnersStay, SubscriptionsAssumption DEF ToldOwn, Informed
<1>6. /\ \A v \in Range(shared'.subscribers) : v \in Range(shared.subscribers) /\ v # u /\ v \in Subscribers
      /\ \A v \in Range(shared.subscribers) : v # u => v \in Range(shared'.subscribers)
      /\ shared.subscribers # <<>>
  <2>1. /\ shared'.subscribers \in Seq(Subscribers)
        /\ \A i \in DOMAIN shared'.subscribers : /\ \E j \in DOMAIN shared.subscribers : shared'.subscribers[i] = shared.subscribers[j]
                                                 /\ shared'.subscribers[i] # u
        /\ \A j \in DOMAIN shared.subscribers : shared.subscribers[j] # u =>
             \E i \in DOMAIN shared'.subscribers : shared'.subscribers[i] = shared.subscribers[j]
    BY <1>1, Removed
  <2>2. \A v \in Range(shared'.subscribers) : v \in Range(shared.subscribers) /\ v # u
    BY <2>1 DEF Range
  <2>3. \A v \in Range(shared.subscribers) : v # u => v \in Range(shared'.subscribers)
    BY <2>1 DEF Range
  <2>4. shared.subscribers # <<>>
    <3>1. 1 \in DOMAIN shared'.subscribers
      BY <1>1, <2>1
    <3> QED  BY <2>1, <3>1
  <2>5. Range(shared'.subscribers) \subseteq Subscribers
    BY <2>1, RangeOf
  <2> QED  BY <2>2, <2>3, <2>4, <2>5
<1>7. Sharing'
  <2>1. SharedLoops'
    BY <1>1, <1>3 DEF Informed, Sharing, SharedLoops
  <2>2. /\ \A n : Common(n)' <=> Common(n)
        /\ \A list : HasList(list) => HasList(list)'
        /\ NewSource => NewSource'
    BY <1>1 DEF Common, HasList, NewSource
  <2>3. LastEmitted'
    <3>0. PICK last : last = shared.last
      OBVIOUS
    <3>1. shared.didEmit => HasList(last)'
      BY <1>3, <2>2, <3>0 DEF Informed, Sharing, LastEmitted
    <3>2. ~shared.didEmit => NewSource'
      BY <1>3, <1>6, <2>2 DEF Informed, Sharing, LastEmitted
    <3>3. shared.source # 0 => source[shared.source].owner = Nobody
      BY DEF Informed, Sharing, LastEmitted
    <3>4. shared'.didEmit => HasList(shared.last)'
      BY <1>1, <3>0, <3>1 DEF HasList
    <3> QED  BY <1>1, <1>3, <3>2, <3>3, <3>4 DEF LastEmitted
  <2>4. \A v \in Subscribers \ Columns : phase'[v] \in Here => v \in Range(shared'.subscribers)
    BY <1>2, <1>6 DEF Informed, Sharing
  <2>5. ASSUME NEW v \in Range(shared'.subscribers) \ missed'
        PROVE  WillHave(v)'
    <3>1. WillHave(v) /\ v # u /\ v \in Subscribers /\ v \notin Skipped("shared", {u})
      BY <1>1, <1>6 DEF Informed, Sharing
    <3>2. CASE NewSource
      BY <2>2, <3>2 DEF WillHave
    <3>3. CASE \E n \in Sources : Common(n) /\ given[v] = Plain(source[n].list)
      BY <1>1, <1>2, <2>2, <3>1, <3>3 DEF WillHave, Plain
    <3>4. CASE \E h \in At("shared") : source[h.n].live /\ Reaches(h, shared.subscribers, v)
      <4>1. PICK h \in At("shared") : source[h.n].live /\ Reaches(h, shared.subscribers, v)
        BY <3>4
      <4>2. Items("shared") = shared.subscribers /\ v \notin {u}
        BY <3>1 DEF Items
      <4>3. Left(shared.subscribers, shared'.subscribers, {u})
        BY <1>1, OneGone
      <4>4. shared'.subscribers \in Seq(Subscribers)
        BY <1>1, Removed
      <4>5. Reaches(h, shared'.subscribers, v)
        BY <1>1, <3>1, <4>1, <4>2, <4>3, <4>4, LeftReaches
      <4> QED  BY <1>1, <1>3, <4>1, <4>5 DEF WillHave
    <3> QED  BY <1>3, <3>1, <3>2, <3>3, <3>4 DEF WillHave
  <2> QED  BY <2>1, <2>3, <2>4, <2>5 DEF Sharing
<1>8. \A m \in Sources' : Learns(m)'
  BY <1>1, <1>4
<1> QED  BY <1>3, <1>5, <1>7, <1>8 DEF Informed

LEMMA LastLeavesLearns ==
  ASSUME IInv, Ordered(stack), Joining, Informed, NEW u \in Subscribers, UnsubscribeLast(u)
  PROVE  Ordered(stack') /\ Joining' /\ Informed'
<1>1. /\ TypeOK /\ Frames /\ MayLeave(u) /\ u \notin Columns /\ EndSource(shared.source)
      /\ UNCHANGED <<simple, rows, memory, rejected, calls, unnotified, held, stack, missed>>
      /\ shared'.subscribers = <<>> /\ shared'.source = 0 /\ shared'.didEmit = FALSE
      /\ shared.subscribers \in Seq(Subscribers) /\ Without(shared.subscribers, u) = <<>>
  <2>1. shared' = [shared EXCEPT !.subscribers = <<>>, !.source = 0, !.didEmit = FALSE]
    BY DEF UnsubscribeLast
  <2>2. /\ shared'.subscribers = <<>> /\ shared'.source = 0 /\ shared'.didEmit = FALSE
        /\ shared.subscribers \in Seq(Subscribers)
    BY <2>1 DEF IInv, TypeOK
  <2> QED  BY <2>2 DEF UnsubscribeLast, IInv, setting, data, notices
<1>2. /\ Free /\ phase'[u] = "left" /\ \A v \in Subscribers : v # u => phase'[v] = phase[v] /\ given'[v] = given[v]
      /\ \A f \in At("subscribed") : phase'[f.u] = phase[f.u]
      /\ \A v \in Subscribers : phase'[v] \in Here => phase[v] \in Here /\ v # u
  BY <1>1, LeaverJoined
<1>3. PICK n : n = shared.source
  OBVIOUS
<1>4. \A m \in Sources : source[m].owner # Nobody => source[m].owner \in Subscribers \ {u} /\ m # n
  <2>1. \A m \in Sources : source[m].owner # Nobody => source[m].owner \in Subscribers \ {u}
    BY <1>1, SubscriptionsAssumption DEF IInv, Owners
  <2>2. n # 0 => source[n].owner = Nobody
    BY <1>3 DEF Informed, Sharing, LastEmitted
  <2>3. 0 \notin Sources
    BY <1>1, TopFrame
  <2> QED  BY <2>1, <2>2, <2>3
<1>5. \A m \in Sources' : Learns(m)'
  BY <1>1, <1>2, <1>4, EndedLearns
<1>6. /\ Ordered(stack') /\ Joining' /\ ~EmitsShared /\ ~FirstSource
      /\ \A m : ~Doing("answer", m)'
      /\ ~Running("tell") /\ ~Running("tell")' /\ At("shared")' = At("shared")
  BY <1>1, <1>2, StackAsItWas
<1>7. /\ Sources' = Sources
      /\ \A m \in Sources : /\ source'[m].owner = source[m].owner
                            /\ source'[m].live <=> source[m].live /\ m # n
                            /\ m # n => source'[m].list = source[m].list
  BY <1>1, <1>3, SourceEnded
<1>8. ToldOwn'
  BY <1>6 DEF ToldOwn
<1>9. Owned'
  <2> SUFFICES ASSUME NEW v \in Columns, phase'[v] \in Here
               PROVE  \E m \in Sources' : source'[m].live /\ source'[m].owner = v
    BY DEF Owned
  <2>1. phase[v] \in Here /\ v # Nobody
    BY <1>2, SubscriptionsAssumption
  <2>2. PICK m \in Sources : source[m].live /\ source[m].owner = v
    BY <2>1 DEF Informed, Owned
  <2> QED  BY <1>4, <1>7, <2>1, <2>2
<1>10. Sharing'
  <2>1. SharedLoops'
    <3>1. ASSUME NEW f \in At("shared")
          PROVE  f.n \in Sources /\ source'[f.n].owner = Nobody /\ (source'[f.n].live => f.set = source'[f.n].list)
      BY <1>7 DEF Informed, Sharing, SharedLoops
    <3> QED  BY <1>6, <1>7, <3>1 DEF SharedLoops
  <2>2. LastEmitted'
    BY <1>1, <1>6 DEF LastEmitted
  <2>3. ASSUME NEW v \in Subscribers \ Columns, phase'[v] \in Here
        PROVE  FALSE
    <3>1. v \in Range(shared.subscribers) /\ v # u
      BY <1>2, <2>3 DEF Informed, Sharing
    <3>2. PICK j \in DOMAIN shared.subscribers : shared.subscribers[j] = v
      BY <1>1, <3>1, RangeOf
    <3>3. \E i \in DOMAIN Without(shared.subscribers, u) : Without(shared.subscribers, u)[i] = v
      BY <1>1, <3>1, <3>2, Removed
    <3> QED  BY <1>1, <3>3, EmptySeq
  <2>4. Range(shared'.subscribers) = {}
    BY <1>1 DEF Range
  <2> QED  BY <2>1, <2>2, <2>3, <2>4 DEF Sharing
<1> QED  BY <1>5, <1>6, <1>8, <1>9, <1>10 DEF Informed

-----------------------------------------------------------------------------
(* The turns of the event loop: what a subscriber has still to learn goes  *)
(* from the calls to the notices, and from those to the stack.             *)

LEMMA TurnLearns ==
  ASSUME NEW m, Learns(m), stack = <<>>, \A f \in Range(stack') : f.at \in {"answer", "notify"},
         UNCHANGED <<simple, database, collection>>, Still(m),
         source'[m].stale = source[m].stale, source'[m].lost = source[m].lost,
         \A id \in Records : Coming(id) \/ memory'[id] # memory[id] => Coming(id)',
         Fetched(m) => Fetched(m)', Refetched(m) => Refetched(m)', rows' # rows => Refetched(m)',
         ~Calls(m)'
  PROVE  Learns(m)'
<1> SUFFICES ASSUME source'[m].live
             PROVE  (NoticeComes(m) /\ HasEntries(m) /\ FetchComes(m) /\ EmissionComes(m) /\ Shown(m))'
  BY DEF Learns
<1>1. NoticeComes(m) /\ HasEntries(m) /\ FetchComes(m) /\ EmissionComes(m) /\ Shown(m)
  BY DEF Learns, Still
<1>2. \A at \in {"collection", "database", "observe"} : At(at) = {} /\ At(at)' = {}
  BY EmptySeq DEF At, Range
<1>3. ~Calls(m) /\ ~Doing("emit", m) /\ ~Doing("emit", m)'
  BY DEF Calls, Doing, Running
<1>4. NoticeComes(m)'
  <2>1. \A e, id : Awaited(e, id) <=> Coming(id)
    BY <1>2 DEF Awaited
  <2>2. \A e, id : Coming(id)' => Awaited(e, id)'
    BY DEF Awaited
  <2>3. ASSUME NEW id \in Records, memory'[id] = memory[id]
        PROVE  /\ source'[m].list = source[m].list /\ source'[m].observed = source[m].observed
               /\ source'[m].states = source[m].states
    BY DEF Still
  <2> QED  BY <1>1, <2>1, <2>2, <2>3 DEF NoticeComes, Still
<1>5. HasEntries(m)'
  BY <1>1, <1>2 DEF HasEntries, ToObserve, Still
<1>6. FetchComes(m)'
  BY <1>1, <1>3 DEF FetchComes, Still, Matching
<1>7. EmissionComes(m)'
  <2>1. ~Comes("collection", collection, <<m, "simple">>)
    BY <1>2 DEF Comes
  <2> QED  BY <1>1, <1>2, <1>3, <2>1 DEF EmissionComes, Still
<1>8. Shown(m)'
  BY <1>1, <1>3, ShownStill DEF Still
<1> QED  BY <1>4, <1>5, <1>6, <1>7, <1>8

Turns ==
  /\ stack = <<>> /\ (\A f \in Range(stack') : f.at \in {"answer", "notify"})
  /\ UNCHANGED <<simple, database, collection, shared, phase, given, missed>>
  /\ Sources' = Sources
  /\ \A m \in Sources : FieldsStay(m) /\ source'[m].stale = source[m].stale /\ source'[m].lost = source[m].lost
LEMMA TurnInformed ==
  ASSUME IInv, Informed, Turns, stack' \in Seq(Frame),
         \A id \in Records : Coming(id) \/ memory'[id] # memory[id] => Coming(id)',
         \A m \in Sources : /\ Fetched(m) => Fetched(m)'
                            /\ (Refetched(m) => Refetched(m)') /\ (rows' # rows => Refetched(m)')
  PROVE  Joining' /\ Informed'
<1>1. \A at \in {"emit", "tell", "source"} : ~Running(at) /\ ~Running(at)'
  <2>1. stack' # <<>> => Head(stack') \in Range(stack')
    BY RangeOf
  <2> QED  BY <2>1 DEF Running, Turns
<1>2. \A at \in {"subscribed", "shared"} : At(at) = {} /\ At(at)' = {}
  BY EmptySeq DEF At, Range, Turns
<1>3. ASSUME NEW m \in Sources
      PROVE  Learns(m)'
  <2>1. Still(m)
    BY DEF Still, Turns, FieldsStay
  <2>2. Learns(m) /\ ~Calls(m)'
    BY <1>1 DEF Informed, Calls, Doing
  <2> QED  BY <2>1, <2>2, TurnLearns DEF Turns
<1>4. Joining'
  BY <1>2 DEF Joining
<1>5. ToldOwn' /\ Owned'
  <2>1. Owned'
    BY OwnersStay, SubscriptionsAssumption DEF Informed, Turns, FieldsStay
  <2> QED  BY <1>1, <2>1 DEF ToldOwn
<1>6. Sharing'
  <2>1. SharersStay /\ CommonStay
    BY DEF SharersStay, CommonStay, Common, Turns, FieldsStay
  <2>2. LoopsStay
    BY <1>2 DEF LoopsStay
  <2>3. Elsewhere
    BY <1>1 DEF Elsewhere, EmitsShared, FirstSource
  <2> QED  BY <2>1, <2>2, <2>3, SharingStill DEF Informed
<1>7. \A m \in Sources' : Learns(m)'
  BY <1>3 DEF Turns
<1> QED  BY <1>4, <1>5, <1>6, <1>7 DEF Informed

(* What is called is in the calls, or in what is left of them.             *)
LEMMA CallsOf ==
  ASSUME TypeOK
  PROVE  /\ Batches \subseteq Range(calls) /\ (calls = <<>> => Range(calls) = {} /\ Batches = {})
         /\ calls # <<>> => /\ Head(calls) \in Range(calls) /\ Range(calls) = {Head(calls)} \cup Range(Tail(calls))
                            /\ Head(calls).rows \in Rows /\ Head(calls).n \in Nat
                            /\ Head(calls).set \in Lists
<1>1. PICK C : C = [type : {"fetch", "batch"}, n : Nat, rows : Rows, set : Lists]
  OBVIOUS
<1>2. calls \in Seq(C)
  BY <1>1 DEF TypeOK
<1>3. Batches \subseteq Range(calls)
  BY DEF Batches
<1>4. calls = <<>> => Range(calls) = {}
  BY EmptySeq DEF Range
<1>5. ASSUME calls # <<>>
      PROVE  /\ Head(calls) \in C /\ Head(calls) \in Range(calls)
             /\ Range(calls) = {Head(calls)} \cup Range(Tail(calls))
  BY <1>2, <1>5, RangeOf
<1>6. ASSUME calls # <<>>
      PROVE  Head(calls).rows \in Rows /\ Head(calls).n \in Nat /\ Head(calls).set \in Lists
  BY <1>1, <1>5, <1>6
<1> QED  BY <1>3, <1>4, <1>5, <1>6

LEMMA NewsFields ==
  ASSUME TypeOK, Frames, source' = News \/ source' = source
  PROVE  /\ Sources' = Sources
         /\ \A m \in Sources : FieldsStay(m) /\ source'[m].stale = source[m].stale /\ source'[m].lost = source[m].lost
<1>1. CASE source' = source
  BY <1>1 DEF FieldsStay, Sources
<1>2. CASE source' = News
  <2>1. Sources' = Sources
    BY <1>2, NewsTyped, TopFrame DEF Sources
  <2>2. \A m \in Sources : source'[m] = [source[m] EXCEPT !.news = TRUE] /\ source[m] \in Observer
    BY <1>2, TopFrame DEF News
  <2>3. ASSUME NEW s \in Observer, NEW t, t = [s EXCEPT !.news = TRUE]
        PROVE  /\ t.owner = s.owner /\ t.live = s.live /\ t.list = s.list /\ t.fetching = s.fetching
               /\ t.pending = s.pending /\ t.first = s.first /\ t.observed = s.observed
               /\ t.states = s.states /\ t.early = s.early /\ t.stale = s.stale /\ t.lost = s.lost
    BY ONLY <2>3 DEF Observer
  <2>4. ASSUME NEW m \in Sources
        PROVE  FieldsStay(m) /\ source'[m].stale = source[m].stale /\ source'[m].lost = source[m].lost
    <3>1. PICK s, t : s \in Observer /\ s = source[m] /\ t = source'[m] /\ t = [s EXCEPT !.news = TRUE]
      BY <2>2
    <3>2. /\ t.owner = s.owner /\ t.live = s.live /\ t.list = s.list /\ t.fetching = s.fetching
          /\ t.pending = s.pending /\ t.first = s.first /\ t.observed = s.observed
          /\ t.states = s.states /\ t.early = s.early /\ t.stale = s.stale /\ t.lost = s.lost
      BY <2>3, <3>1
    <3> QED  BY ONLY <3>1, <3>2 DEF FieldsStay
  <2> QED  BY <2>1, <2>4
<1> QED  BY <1>1, <1>2

LEMMA WriteLearns ==
  ASSUME IInv, Upcoming, Informed, Write
  PROVE  Ordered(stack') /\ Joining' /\ Informed'
<1>1. PICK new, set :
        /\ set \in Lists /\ new \in Rows
        /\ \A id \in Records \ set : new[id] = memory[id]
        /\ memory' = new
        /\ \/ /\ synchronous /\ Commits(set, new)
              /\ unnotified' = Append(unnotified, set) /\ UNCHANGED calls
           \/ synchronous /\ Rejects(set) /\ UNCHANGED <<calls, unnotified>>
           \/ /\ ~synchronous
              /\ calls' = Append(calls, [type |-> "batch", n |-> 0, rows |-> new, set |-> set])
              /\ UNCHANGED <<rows, rejected, unnotified>>
  BY WriteStep
<1>2. /\ TypeOK /\ Frames /\ stack = <<>> /\ stack' = <<>> /\ held' = held
      /\ UNCHANGED <<simple, database, collection, shared, source, phase, given, missed>>
  BY WriteStep DEF IInv
<1>3. Range(stack') = {} /\ stack' \in Seq(Frame) /\ Ordered(stack')
  BY <1>2, EmptySeq DEF Range, Ordered
<1>4. Turns
  BY <1>2, <1>3, NewsFields DEF Turns
<1>5. PICK b : b = [type |-> "batch", n |-> 0, rows |-> new, set |-> set]
  OBVIOUS
<1>6. /\ Range(Append(unnotified, set)) = Range(unnotified) \cup {set} /\ Append(unnotified, set) # <<>>
      /\ Range(Append(calls, b)) = Range(calls) \cup {b}
  <2>1. unnotified \in Seq(Lists)
    BY <1>2 DEF TypeOK
  <2>2. Range(Append(unnotified, set)) = Range(unnotified) \cup {set} /\ Append(unnotified, set) # <<>>
    BY <1>1, <2>1, RangeAppended
  <2>3. PICK C : calls \in Seq(C) /\ b \in C
    <3>1. b \in [type : {"fetch", "batch"}, n : Nat, rows : Rows, set : Lists]
      BY <1>1, <1>5
    <3> QED  BY <1>2, <3>1 DEF TypeOK
  <2>4. Range(Append(calls, b)) = Range(calls) \cup {b}
    BY <2>3, RangeAppended
  <2> QED  BY <2>2, <2>4
<1>7. /\ Range(unnotified) \subseteq Range(unnotified') /\ Range(calls) \subseteq Range(calls')
      /\ At("notify")' = At("notify") /\ (unnotified # <<>> => unnotified' # <<>>)
  BY <1>1, <1>2, <1>5, <1>6 DEF At
<1>8. ASSUME NEW id \in Records
      PROVE  Coming(id) \/ memory'[id] # memory[id] => Coming(id)'
  <2>1. memory'[id] # memory[id] => id \in set
    BY <1>1
  <2>2. Batches \subseteq Batches'
    BY <1>7 DEF Batches
  <2>3. CASE id \in set
    <3>1. CASE unnotified' = Append(unnotified, set)
      BY <1>6, <2>3, <3>1 DEF Coming
    <3>2. CASE Rejects(set)
      BY <2>3, <3>2 DEF Rejects, Coming
    <3>3. CASE calls' = Append(calls, [type |-> "batch", n |-> 0, rows |-> new, set |-> set])
      <4>1. b \in Batches' /\ id \in b.set
        BY <1>5, <1>6, <2>3, <3>3 DEF Batches
      <4> QED  BY <4>1 DEF Coming
    <3> QED  BY <1>1, <3>1, <3>2, <3>3
  <2>4. CASE id \notin set
    <3>1. id \in rejected => id \in rejected'
      BY <1>1, <2>4 DEF Commits, Rejects
    <3> QED  BY <1>2, <1>7, <2>1, <2>2, <2>4, <3>1 DEF Coming
  <2> QED  BY <2>3, <2>4
<1>9. ASSUME NEW m \in Sources
      PROVE  /\ Fetched(m) => Fetched(m)'
             /\ (Refetched(m) => Refetched(m)') /\ (rows' # rows => Refetched(m)')
  <2>1. Fetched(m) => Fetched(m)'
    BY <1>2, <1>7 DEF Fetched, Doing, Running
  <2>2. ~Comes("database", database, m)
    BY <1>2, EmptySeq DEF Comes, At, Range
  <2>3. rows' # rows => unnotified' # <<>>
    BY <1>1, <1>6 DEF Rejects
  <2> QED  BY <1>2, <1>7, <2>1, <2>2, <2>3 DEF Refetched
<1> QED  BY <1>3, <1>4, <1>8, <1>9, TurnInformed

LEMMA OneFrame ==
  ASSUME NEW f \in Frame
  PROVE  <<f>> \in Seq(Frame) /\ Range(<<f>>) = {f} /\ Ordered(<<f>>) /\ Head(<<f>>) = f /\ <<f>> # <<>>
<1>1. <<f>> \in Seq(Frame) /\ DOMAIN <<f>> = {1} /\ <<f>>[1] = f /\ Head(<<f>>) = f /\ <<f>> # <<>>
  OBVIOUS
<1> QED  BY <1>1 DEF Range, Ordered

LEMMA AnswerTurnLearns ==
  ASSUME IInv, Informed, FetchIsAnswered
  PROVE  Ordered(stack') /\ Joining' /\ Informed'
<1>1. PICK f : f = OfSource("answer", Head(calls).n, {})
  OBVIOUS
<1>2. /\ TypeOK /\ Frames /\ stack = <<>> /\ stack' = <<f>> /\ calls # <<>>
      /\ Head(calls).type = "fetch" /\ calls' = Tail(calls)
      /\ UNCHANGED <<simple, rows, memory, rejected, unnotified, held, database, collection, shared,
                     source, phase, given, missed>>
  BY <1>1 DEF FetchIsAnswered, IInv, setting, data, notices, entries, observers, people
<1>3. f.at = "answer" /\ f.n = Head(calls).n /\ f \in Frame
  <2>1. Head(calls).n \in Nat
    BY <1>2, CallsOf
  <2> QED  BY <1>1, <2>1, SubscriptionsAssumption DEF OfSource, NoFrame, Frame, Lists
<1>4. Range(stack') = {f} /\ stack' \in Seq(Frame) /\ Ordered(stack') /\ Head(stack') = f /\ stack' # <<>>
  BY <1>2, <1>3, OneFrame
<1>5. Turns
  BY <1>2, <1>3, <1>4, NewsFields DEF Turns
<1>6. /\ Range(calls) = {Head(calls)} \cup Range(calls') /\ Batches' = Batches
      /\ \A at \in {"notify", "database"} : At(at) = {} /\ At(at)' = {}
  <2>1. Range(calls) = {Head(calls)} \cup Range(calls')
    BY <1>2, CallsOf
  <2>2. Batches' = Batches
    BY <1>2, <2>1 DEF Batches
  <2>3. \A at : At(at) = {}
    BY <1>2, EmptySeq DEF At, Range
  <2>4. \A at \in {"notify", "database"} : At(at)' = {}
    BY <1>3, <1>4 DEF At
  <2> QED  BY <2>1, <2>2, <2>3, <2>4
<1>7. \A id \in Records : Coming(id) \/ memory'[id] # memory[id] => Coming(id)'
  BY <1>2, <1>6 DEF Coming
<1>8. ASSUME NEW m \in Sources
      PROVE  /\ Fetched(m) => Fetched(m)'
             /\ (Refetched(m) => Refetched(m)') /\ (rows' # rows => Refetched(m)')
  <2>1. Fetched(m) => Fetched(m)'
    BY <1>2, <1>3, <1>4, <1>6 DEF Fetched, Doing, Running, Top
  <2>2. ~Comes("database", database, m)
    BY <1>6 DEF Comes
  <2> QED  BY <1>2, <1>6, <2>1, <2>2 DEF Refetched
<1> QED  BY <1>4, <1>5, <1>7, <1>8, TurnInformed

LEMMA BatchTurnLearns ==
  ASSUME IInv, Informed, BatchIsAnswered \/ BatchIsRejected
  PROVE  Ordered(stack') /\ Joining' /\ Informed'
<1>1. PICK set : set = Head(calls).set
  OBVIOUS
<1>2. /\ TypeOK /\ Frames /\ stack = <<>> /\ stack' = <<>> /\ calls # <<>> /\ unnotified = <<>>
      /\ Head(calls).type = "batch" /\ calls' = Tail(calls)
      /\ \/ Commits(set, Head(calls).rows) /\ unnotified' = <<set>> /\ source' = News
         \/ Rejects(set) /\ unnotified' = unnotified /\ source' = source
      /\ UNCHANGED <<simple, memory, held, database, collection, shared, phase, given, missed>>
  BY <1>1, BatchStep DEF IInv
<1>3. Range(stack') = {} /\ stack' \in Seq(Frame) /\ Ordered(stack')
  BY <1>2, EmptySeq DEF Range, Ordered
<1>4. Turns
  BY <1>2, <1>3, NewsFields DEF Turns
<1>5. /\ Range(calls) = {Head(calls)} \cup Range(calls')
      /\ Range(<<set>>) = {set} /\ Range(unnotified) = {}
      /\ \A at : At(at) = {} /\ At(at)' = {}
  <2>1. Range(calls) = {Head(calls)} \cup Range(calls')
    BY <1>2, CallsOf
  <2>2. Range(<<set>>) = {set} /\ Range(unnotified) = {}
    BY <1>2, EmptySeq DEF Range
  <2>3. \A at : At(at) = {} /\ At(at)' = {}
    BY <1>2, EmptySeq DEF At, Range
  <2> QED  BY <2>1, <2>2, <2>3
<1>6. ASSUME NEW id \in Records
      PROVE  Coming(id) \/ memory'[id] # memory[id] => Coming(id)'
  <2> SUFFICES ASSUME Coming(id)
               PROVE  Coming(id)'
    BY <1>2
  <2>1. CASE id \in set
    <3>1. CASE unnotified' = <<set>>
      BY <1>5, <2>1, <3>1 DEF Coming
    <3>2. CASE Rejects(set)
      BY <2>1, <3>2 DEF Rejects, Coming
    <3> QED  BY <1>2, <3>1, <3>2
  <2>2. CASE id \notin set
    <3>1. id \in rejected => id \in rejected'
      BY <1>2, <2>2 DEF Commits, Rejects
    <3>2. \A c \in Batches : id \in c.set => c \in Batches'
      BY <1>1, <1>5, <2>2 DEF Batches
    <3> QED  BY <1>2, <1>5, <3>1, <3>2 DEF Coming
  <2> QED  BY <2>1, <2>2
<1>7. ASSUME NEW m \in Sources
      PROVE  /\ Fetched(m) => Fetched(m)'
             /\ (Refetched(m) => Refetched(m)') /\ (rows' # rows => Refetched(m)')
  <2>1. Fetched(m) => Fetched(m)'
    BY <1>2, <1>5 DEF Fetched, Doing, Running
  <2>2. ~Comes("database", database, m)
    BY <1>5 DEF Comes
  <2>3. rows' # rows => unnotified' # <<>>
    <3>1. CASE unnotified' = <<set>>
      BY <3>1
    <3>2. CASE Rejects(set)
      BY <3>2 DEF Rejects
    <3> QED  BY <1>2, <3>1, <3>2
  <2> QED  BY <1>2, <1>5, <2>1, <2>2, <2>3 DEF Refetched
<1> QED  BY <1>3, <1>4, <1>6, <1>7, TurnInformed

LEMMA NotifyLearns ==
  ASSUME IInv, Informed, Notify
  PROVE  Ordered(stack') /\ Joining' /\ Informed'
<1>1. PICK set, f : set = Head(unnotified) /\ f = OfSource("notify", 0, set)
  OBVIOUS
<1>2. /\ TypeOK /\ Frames /\ stack = <<>> /\ unnotified # <<>> /\ unnotified' = Tail(unnotified)
      /\ \/ held = <<>> /\ stack' = <<f>> /\ UNCHANGED held
         \/ held' = Append(held, set) /\ UNCHANGED stack
      /\ UNCHANGED <<simple, rows, memory, rejected, calls, database, collection, shared, source,
                     phase, given, missed>>
  BY <1>1 DEF Notify, IInv, setting, data, entries, observers, people
<1>3. /\ unnotified \in Seq(Lists) /\ held \in Seq(Lists) /\ set \in Lists
      /\ Range(unnotified) = {set} \cup Range(unnotified')
  <2>1. unnotified \in Seq(Lists) /\ held \in Seq(Lists)
    BY <1>2 DEF TypeOK
  <2> QED  BY <1>1, <1>2, <2>1, RangeOf
<1>4. f.at = "notify" /\ f.set = set /\ f \in Frame
  BY <1>1, <1>3, SubscriptionsAssumption DEF OfSource, NoFrame, Frame
<1>5. /\ stack' \in Seq(Frame) /\ Ordered(stack') /\ Range(stack') \subseteq {f}
      /\ \/ f \in Range(stack') /\ held' = held
         \/ held' # <<>> /\ Range(held') = Range(held) \cup {set}
  <2>1. CASE stack' = <<f>> /\ held' = held
    BY <1>4, <2>1, OneFrame
  <2>2. CASE held' = Append(held, set) /\ stack' = <<>>
    <3>1. Range(held') = Range(held) \cup {set} /\ held' # <<>>
      BY <1>3, <2>2, RangeAppended
    <3>2. Range(stack') = {} /\ stack' \in Seq(Frame) /\ Ordered(stack')
      BY <2>2, EmptySeq DEF Range, Ordered
    <3> QED  BY <3>1, <3>2
  <2> QED  BY <1>2, <2>1, <2>2
<1>6. Turns
  BY <1>2, <1>4, <1>5, NewsFields DEF Turns
<1>7. f \in Range(stack') => f \in At("notify")'
  BY <1>4 DEF At
<1>8. At("notify") = {} /\ At("database") = {}
  BY <1>2, EmptySeq DEF At, Range
<1>9. ASSUME NEW id \in Records
      PROVE  Coming(id) \/ memory'[id] # memory[id] => Coming(id)'
  <2> SUFFICES ASSUME Coming(id)
               PROVE  Coming(id)'
    BY <1>2
  <2>1. CASE id \in rejected \/ \E c \in Batches : id \in c.set
    BY <1>2, <2>1 DEF Coming, Batches
  <2>2. CASE id \in set
    BY <1>4, <1>5, <1>7, <2>2 DEF Coming
  <2>3. CASE \E s \in Range(unnotified') \cup Range(held) : id \in s
    BY <1>5, <2>3 DEF Coming
  <2> QED  BY <1>3, <1>8, <2>1, <2>2, <2>3 DEF Coming
<1>10. ASSUME NEW m \in Sources
       PROVE  /\ Fetched(m) => Fetched(m)'
              /\ (Refetched(m) => Refetched(m)') /\ (rows' # rows => Refetched(m)')
  <2>1. Fetched(m) => Fetched(m)'
    BY <1>2 DEF Fetched, Doing, Running
  <2>2. Refetched(m)'
    BY <1>5, <1>7 DEF Refetched
  <2> QED  BY <1>2, <2>1, <2>2
<1> QED  BY <1>5, <1>6, <1>9, <1>10, TurnInformed

LEMMA StopHoldingLearns ==
  ASSUME IInv, Informed, StopHolding
  PROVE  Ordered(stack') /\ Joining' /\ Informed'
<1>1. /\ TypeOK /\ Frames /\ stack = <<>> /\ held # <<>> /\ held' = <<>>
      /\ stack' = [k \in DOMAIN held |-> OfSource("notify", 0, held[k])]
      /\ UNCHANGED <<simple, rows, memory, rejected, calls, unnotified, database, collection, shared,
                     source, phase, given, missed>>
  BY DEF StopHolding, Replayed, IInv, setting, data, entries, observers, people
<1>2. held \in Seq(Lists) /\ DOMAIN held = 1 .. Len(held) /\ Len(held) \in Nat /\ Len(held) # 0
  BY <1>1, EmptySeq DEF TypeOK
<1>3. \A set \in Lists : /\ OfSource("notify", 0, set).at = "notify" /\ OfSource("notify", 0, set).set = set
                         /\ OfSource("notify", 0, set) \in Frame
  BY SubscriptionsAssumption DEF OfSource, NoFrame, Frame
<1>4. /\ stack' \in Seq(Frame) /\ DOMAIN stack' = DOMAIN held
      /\ \A k \in DOMAIN held : stack'[k] \in Frame /\ stack'[k].at = "notify" /\ stack'[k].set = held[k]
  <2>1. \A k \in DOMAIN held : OfSource("notify", 0, held[k]) \in Frame
    BY <1>2, <1>3
  <2>2. stack' \in Seq(Frame)
    BY <1>1, <1>2, <2>1
  <2> QED  BY <1>1, <1>2, <1>3, <2>2
<1>5. Ordered(stack')
  BY <1>4 DEF Ordered, MayBeOn
<1>6. \A f \in Range(stack') : f.at = "notify"
  BY <1>4 DEF Range
<1>7. Turns
  BY <1>1, <1>6, NewsFields DEF Turns
<1>8. \A set \in Range(held) : \E f \in At("notify")' : f.set = set
  <2>1. \A k \in DOMAIN held : stack'[k] \in At("notify")' /\ stack'[k].set = held[k]
    BY <1>4 DEF At, Range
  <2> QED  BY <2>1 DEF Range
<1>9. At("notify")' # {} /\ At("notify") = {}
  <2>1. held[1] \in Range(held)
    BY <1>2 DEF Range
  <2>2. At("notify") = {}
    BY <1>1, EmptySeq DEF At, Range
  <2> QED  BY <1>8, <2>1, <2>2
<1>10. ASSUME NEW id \in Records
       PROVE  Coming(id) \/ memory'[id] # memory[id] => Coming(id)'
  BY <1>1, <1>8, <1>9 DEF Coming, Batches
<1>11. ASSUME NEW m \in Sources
       PROVE  /\ Fetched(m) => Fetched(m)'
              /\ (Refetched(m) => Refetched(m)') /\ (rows' # rows => Refetched(m)')
  <2>1. Fetched(m) => Fetched(m)'
    BY <1>1 DEF Fetched, Doing, Running
  <2> QED  BY <1>1, <1>9, <2>1 DEF Refetched
<1> QED  BY <1>4, <1>5, <1>7, <1>10, <1>11, TurnInformed

(* The loops over the observers begin, with every entry still to come.     *)
LEMMA LoopsBegin ==
  ASSUME IInv, Ordered(stack), NotifySubscribers, NEW f, NEW g,
         f = OfSource("database", 0, Top.set), g = OfSource("collection", 0, Top.set)
  PROVE  /\ Ordered(stack') /\ stack # <<>> /\ Top \in At("notify")
         /\ f.i = 0 /\ g.i = 0 /\ g.set = Top.set
         /\ At("database")' = {f} /\ At("collection")' = {g}
         /\ \A at \in {"database", "collection", "observe", "shared", "subscribed"} : At(at) = {}
         /\ \A at \in {"observe", "shared", "subscribed"} : At(at)' = {}
         /\ \A h \in At("notify") : h = Top \/ h \in At("notify")'
         /\ \A at \in {"answer", "emit", "tell", "source"} : ~Running(at) /\ ~Running(at)'
<1>1. /\ TypeOK /\ Frames /\ stack # <<>> /\ Top.at = "notify" /\ stack \in Seq(Frame)
      /\ stack' = <<f, g>> \o Below
  BY DEF NotifySubscribers, IInv, Running, Top, TypeOK
<1>2. Top \in Frame /\ Below \in Seq(Frame) /\ Range(stack) = {Top} \cup Range(Below) /\ Range(Below) \subseteq Frame
  <2>1. Head(stack) \in Frame /\ Tail(stack) \in Seq(Frame) /\ Range(stack) = {Head(stack)} \cup Range(Tail(stack))
    BY <1>1, RangeOf
  <2>2. Range(Tail(stack)) \subseteq Frame
    BY <2>1, RangeOf
  <2> QED  BY <2>1, <2>2 DEF Top, Below
<1>3. /\ f.at = "database" /\ g.at = "collection" /\ f.i = 0 /\ g.i = 0 /\ g.set = Top.set
      /\ f \in Frame /\ g \in Frame
  <2>1. Top.set \in Lists
    BY <1>2 DEF Frame
  <2> QED  BY <2>1, SubscriptionsAssumption DEF OfSource, NoFrame, Frame
<1>4. Ordered(Below) /\ \A h \in Range(Below) : h.at = "notify"
  <2>1. Ordered(Below) /\ Over(Top, Below)
    BY <1>1, OrderedBelow DEF Top, Below
  <2> QED  BY <1>1, <2>1 DEF Over, MayBeOn
<1>5. PICK c \in Seq(Frame) : c = <<g>> \o Below /\ Ordered(c) /\ Range(c) = {g} \cup Range(Below)
  <2>1. <<g>> \o Below \in Seq(Frame) /\ Range(<<g>> \o Below) = {g} \cup Range(Below)
    BY <1>2, <1>3, Pushed, RangeOf
  <2>2. Over(g, Below)
    BY <1>3, <1>4 DEF Over, MayBeOn
  <2>3. Ordered(<<g>> \o Below)
    BY <1>2, <1>3, <1>4, <2>2, OrderedPushed
  <2> QED  BY <2>1, <2>3
<1>6. stack' = <<f>> \o c
  <2>1. <<f, g>> \o Below = <<f>> \o (<<g>> \o Below)
    BY <1>2, <1>3, OneByOne
  <2> QED  BY <1>1, <1>5, <2>1
<1>7. Ordered(stack') /\ Range(stack') = {f, g} \cup Range(Below) /\ stack' # <<>> /\ Head(stack') = f
  <2>1. Over(f, c)
    BY <1>3, <1>4, <1>5 DEF Over, MayBeOn
  <2>2. Ordered(<<f>> \o c)
    BY <1>3, <1>5, <2>1, OrderedPushed
  <2>3. <<f>> \o c # <<>> /\ Head(<<f>> \o c) = f
    BY <1>3, <1>5, Pushed
  <2>4. Range(<<f>> \o c) = {f} \cup Range(c)
    <3>1. f \in Frame /\ c \in Seq(Frame)
      BY <1>3
    <3> QED  BY ONLY <3>1, RangeOf
  <2> QED  BY <1>5, <1>6, <2>2, <2>3, <2>4
<1>8. /\ At("database")' = {f} /\ At("collection")' = {g}
      /\ \A at \in {"observe", "shared", "subscribed"} : At(at)' = {}
  BY <1>3, <1>4, <1>7 DEF At
<1>9. \A at \in {"database", "collection", "observe", "shared", "subscribed"} : At(at) = {}
  BY <1>1, <1>2, <1>4 DEF At
<1>10. \A h \in At("notify") : h = Top \/ h \in At("notify")'
  BY <1>2, <1>7 DEF At
<1>11. \A at \in {"answer", "emit", "tell", "source"} : ~Running(at) /\ ~Running(at)'
  BY <1>1, <1>3, <1>7 DEF Running, Top
<1>12. Top \in At("notify")
  BY <1>1, <1>2 DEF At
<1> QED  BY <1>1, <1>3, <1>7, <1>8, <1>9, <1>10, <1>11, <1>12

LEMMA NotifySubscribersLearn ==
  ASSUME IInv, Ordered(stack), Joining, Informed, NotifySubscribers
  PROVE  Ordered(stack') /\ Joining' /\ Informed'
<1>1. PICK top, f, g : top = Top /\ f = OfSource("database", 0, Top.set) /\ g = OfSource("collection", 0, Top.set)
  OBVIOUS
<1>2. /\ Ordered(stack') /\ top \in At("notify")
      /\ f.i = 0 /\ g.i = 0 /\ g.set = top.set
      /\ At("database")' = {f} /\ At("collection")' = {g}
      /\ \A at \in {"database", "collection", "observe", "shared", "subscribed"} : At(at) = {}
      /\ \A at \in {"observe", "shared", "subscribed"} : At(at)' = {}
      /\ \A h \in At("notify") : h = top \/ h \in At("notify")'
      /\ \A at \in {"answer", "emit", "tell", "source"} : ~Running(at) /\ ~Running(at)'
  BY <1>1, LoopsBegin
<1>3. /\ TypeOK /\ Frames /\ source' = News
      /\ UNCHANGED <<simple, rows, memory, rejected, calls, unnotified, held, database, collection,
                     shared, phase, given, missed>>
  BY DEF NotifySubscribers, IInv, setting, data, notices, entries, people
<1>4. /\ Sources' = Sources
      /\ \A m \in Sources : FieldsStay(m) /\ source'[m].stale = source[m].stale /\ source'[m].lost = source[m].lost
  BY <1>3, NewsFields
<1>5. /\ \A e : Entry(collection, e) => Reaches(g, collection, e) /\ Includes(g, collection, e)
      /\ \A e : Entry(database, e) => Reaches(f, database, e)
  <2>1. DOMAIN database = 1 .. Len(database) /\ DOMAIN collection = 1 .. Len(collection)
    BY <1>3 DEF TypeOK
  <2>2. (\A p \in DOMAIN database : p > 0) /\ \A p \in DOMAIN collection : p > 0
    BY <2>1
  <2> QED  BY <1>2, <2>2 DEF Entry, Reaches, Includes
<1>6. \A m : ~Calls(m) /\ ~Calls(m)' /\ ~Doing("answer", m) /\ ~Doing("answer", m)' /\ ~Doing("emit", m) /\ ~Doing("emit", m)'
  BY <1>2 DEF Calls, Doing
<1>7. \A id \in Records : Coming(id) => Coming(id)' \/ id \in top.set
  BY <1>2, <1>3 DEF Coming, Batches
<1>8. ASSUME NEW m \in Sources, source[m].live
      PROVE  Learns(m)'
  <2>1. NoticeComes(m) /\ HasEntries(m) /\ FetchComes(m) /\ EmissionComes(m) /\ Shown(m)
    BY <1>8 DEF Informed, Learns
  <2>2. /\ FieldsStay(m) /\ source'[m].stale = source[m].stale /\ source'[m].lost = source[m].lost
    BY <1>4
  <2>3. ~ToObserve(m) /\ ~ToObserve(m)'
    BY <1>2 DEF ToObserve
  <2>4. ASSUME NEW e, Entry(collection, e), NEW id \in Records, Awaited(e, id)
        PROVE  Awaited(e, id)'
    <3>1. Coming(id)
      BY <1>2, <2>4 DEF Awaited
    <3>2. CASE id \in top.set
      BY <1>2, <1>3, <1>5, <2>4, <3>2 DEF Awaited
    <3> QED  BY <1>7, <3>1, <3>2 DEF Awaited
  <2>5. /\ source[m].observed # {} => Entry(collection, <<m, "columns">>)
        /\ simple /\ source[m].list # NoList => Entry(collection, <<m, "simple">>)
    BY <2>1, <2>3 DEF HasEntries, Shown
  <2>6. NoticeComes(m)'
    <3>1. ASSUME ~source[m].lost, NEW id \in Records
          PROVE  /\ simple /\ source[m].list # NoList /\ ~(id \in source[m].list <=> memory[id].in) =>
                      Awaited(<<m, "simple">>, id)'
                 /\ id \in source[m].observed /\ source[m].states[id] # memory[id].col =>
                      Awaited(<<m, "columns">>, id)'
      <4>1. PICK d, e : d = <<m, "simple">> /\ e = <<m, "columns">>
        OBVIOUS
      <4>2. simple /\ source[m].list # NoList /\ ~(id \in source[m].list <=> memory[id].in) => Awaited(d, id)'
        BY <2>1, <2>4, <2>5, <3>1, <4>1 DEF NoticeComes
      <4>3. id \in source[m].observed /\ source[m].states[id] # memory[id].col => Awaited(e, id)'
        BY <2>1, <2>4, <2>5, <3>1, <4>1 DEF NoticeComes
      <4> QED  BY <4>1, <4>2, <4>3
    <3> QED  BY <1>3, <2>2, <3>1 DEF NoticeComes, FieldsStay
  <2>7. HasEntries(m)'
    BY <1>3, <2>1, <2>2, <2>3 DEF HasEntries, FieldsStay
  <2>8. FetchComes(m)'
    <3>1. Fetched(m) <=> Fetched(m)'
      BY <1>3, <1>6 DEF Fetched
    <3>2. ~simple => Refetched(m)'
      BY <1>2, <1>3, <1>5, <2>1 DEF Refetched, Comes, HasEntries
    <3> QED  BY <1>3, <1>6, <2>1, <2>2, <3>1, <3>2 DEF FetchComes, FieldsStay
  <2>9. EmissionComes(m)'
    <3>1. ~Comes("collection", collection, <<m, "simple">>)
      BY <1>2 DEF Comes
    <3>2. source[m].owner # Nobody /\ simple /\ Late(m) => Includes(g, collection, <<m, "simple">>)
      <4>1. source[m].owner # Nobody /\ Late(m) => source[m].list # NoList
        BY <2>1 DEF Shown, Showing, Late
      <4> QED  BY <1>5, <2>5, <4>1
    <3>3. Late(m)' <=> Late(m)
      BY <1>3, <2>2 DEF Late, FieldsStay
    <3>4. source[m].owner # Nobody =>
            /\ ~simple /\ source[m].pending => source[m].fetching
            /\ ~(simple /\ source[m].pending /\ ~source[m].lost)
      BY <1>6, <2>1, <3>1 DEF EmissionComes
    <3> QED  BY <1>2, <1>3, <2>2, <3>2, <3>3, <3>4 DEF EmissionComes, FieldsStay
  <2>10. Shown(m)'
    BY <1>3, <1>6, <2>1, <2>2, ShownStill DEF FieldsStay
  <2> QED  BY <2>6, <2>7, <2>8, <2>9, <2>10 DEF Learns
<1>9. \A m \in Sources' : Learns(m)'
  <2>1. \A m \in Sources : ~source[m].live => Learns(m)'
    BY <1>4 DEF Learns, FieldsStay
  <2> QED  BY <1>4, <1>8, <2>1
<1>10. Joining'
  BY <1>2 DEF Joining
<1>11. ToldOwn' /\ Owned'
  <2>1. Owned'
    BY <1>3, <1>4, OwnersStay, SubscriptionsAssumption DEF Informed, FieldsStay
  <2> QED  BY <1>2, <2>1 DEF ToldOwn
<1>12. Sharing'
  <2>1. SharersStay /\ CommonStay
    BY <1>3, <1>4 DEF SharersStay, CommonStay, Common, FieldsStay
  <2>2. LoopsStay
    BY <1>2 DEF LoopsStay
  <2>3. Elsewhere
    BY <1>2 DEF Elsewhere, EmitsShared, FirstSource
  <2> QED  BY <2>1, <2>2, <2>3, SharingStill DEF Informed
<1> QED  BY <1>2, <1>9, <1>10, <1>11, <1>12 DEF Informed

-----------------------------------------------------------------------------
(* The batches that are to come.                                           *)

LEMMA BatchesAsTheyWere ==
  ASSUME Upcoming, UNCHANGED <<synchronous, rows, memory, rejected, calls>>
  PROVE  Upcoming'
<1>1. \A k, id : (Newest(k, id)' <=> Newest(k, id)) /\ (Writes(k, id)' <=> Writes(k, id))
  BY DEF Newest, Writes
<1> QED  BY <1>1 DEF Upcoming

LEMMA FetchBehindBatches ==
  ASSUME TypeOK, Upcoming, UNCHANGED <<synchronous, rows, memory, rejected>>,
         NEW n, calls' = FetchCalls(n)
  PROVE  Upcoming'
<1>1. CASE synchronous
  BY <1>1, BatchesAsTheyWere DEF FetchCalls
<1>2. CASE ~synchronous
  <2>1. PICK b : b = [type |-> "fetch", n |-> n, rows |-> NoRows, set |-> {}]
    OBVIOUS
  <2>2. calls' = Append(calls, b) /\ b.type = "fetch" /\ Len(calls) \in Nat /\ DOMAIN calls = 1 .. Len(calls)
    BY <1>2, <2>1 DEF FetchCalls, TypeOK
  <2>3. /\ DOMAIN calls' = 1 .. Len(calls) + 1 /\ calls'[Len(calls) + 1] = b
        /\ \A k \in DOMAIN calls : calls'[k] = calls[k]
    BY <2>2 DEF TypeOK
  <2>4. \A id : \A k \in DOMAIN calls : k \in DOMAIN calls' /\ (Newest(k, id)' <=> Newest(k, id))
    BY <2>2, <2>3 DEF Newest, Writes
  <2>5. \A id : \A k \in DOMAIN calls' : Writes(k, id)' => k \in DOMAIN calls /\ Writes(k, id)
    BY <2>2, <2>3 DEF Writes
  <2> QED  BY <1>2, <2>4, <2>5 DEF Upcoming
<1> QED  BY <1>1, <1>2

LEMMA BatchComes ==
  ASSUME TypeOK, Upcoming, Write
  PROVE  Upcoming'
<1>1. PICK set, new :
        /\ set \in Lists /\ new \in Rows
        /\ \A id \in Records \ set : new[id] = memory[id]
        /\ memory' = new
        /\ \/ synchronous /\ (Commits(set, new) \/ Rejects(set)) /\ UNCHANGED calls
           \/ /\ ~synchronous /\ UNCHANGED <<rows, rejected>>
              /\ calls' = Append(calls, [type |-> "batch", n |-> 0, rows |-> new, set |-> set])
  BY WriteStep
<1>2. synchronous' = synchronous
  BY WriteStep
<1>3. CASE synchronous
  <2>1. calls = <<>> /\ calls' = <<>> /\ DOMAIN calls = {} /\ DOMAIN calls' = {}
    BY <1>1, <1>3 DEF Upcoming
  <2>2. ASSUME NEW id \in Records
        PROVE  rows'[id] = memory'[id] \/ id \in rejected'
    <3>1. rows[id] = memory[id] \/ id \in rejected
      BY <2>1 DEF Upcoming
    <3>2. CASE id \in set
      BY <1>1, <1>3, <3>2 DEF Commits, Written, Rejects
    <3>3. CASE id \notin set
      BY <1>1, <1>3, <3>1, <3>3 DEF Commits, Written, Rejects
    <3> QED  BY <3>2, <3>3
  <2> QED  BY <2>1, <2>2 DEF Upcoming
<1>4. CASE ~synchronous
  <2>1. PICK b : b = [type |-> "batch", n |-> 0, rows |-> new, set |-> set]
    OBVIOUS
  <2>2. /\ calls' = Append(calls, b) /\ b.type = "batch" /\ b.rows = memory' /\ b.set = set
        /\ Len(calls) \in Nat /\ DOMAIN calls = 1 .. Len(calls)
    BY <1>1, <1>4, <2>1 DEF TypeOK
  <2>3. /\ DOMAIN calls' = 1 .. Len(calls) + 1 /\ calls'[Len(calls) + 1] = b
        /\ \A k \in DOMAIN calls : calls'[k] = calls[k]
    BY <2>2 DEF TypeOK
  <2>4. PICK l : l = Len(calls) + 1
    OBVIOUS
  <2>5. /\ l \in DOMAIN calls' /\ calls'[l] = b /\ \A k \in DOMAIN calls' : k \in DOMAIN calls \/ k = l
        /\ \A k \in DOMAIN calls : k \in DOMAIN calls' /\ l > k
    BY <2>2, <2>3, <2>4
  <2>6. \A id \in set : Newest(l, id)'
    BY <2>2, <2>5 DEF Newest, Writes
  <2>7. ASSUME NEW id \in Records \ set
        PROVE  /\ memory'[id] = memory[id] /\ ~Writes(l, id)'
               /\ \A k \in DOMAIN calls : (Newest(k, id)' <=> Newest(k, id)) /\ (Writes(k, id)' <=> Writes(k, id))
    BY <1>1, <2>2, <2>3, <2>5 DEF Newest, Writes
  <2>8. ASSUME NEW id \in Records
        PROVE  /\ rows'[id] = memory'[id] \/ id \in rejected' \/ \E k \in DOMAIN calls' : Newest(k, id)'
               /\ \A k \in DOMAIN calls' : Writes(k, id)' =>
                    Newest(k, id)' \/ \E j \in DOMAIN calls' : j > k /\ Newest(j, id)'
    <3>1. CASE id \in set
      BY <2>5, <2>6, <3>1
    <3>2. CASE id \notin set
      BY <1>1, <1>4, <2>5, <2>7, <3>2 DEF Upcoming
    <3> QED  BY <3>1, <3>2
  <2> QED  BY <1>2, <1>4, <2>8 DEF Upcoming
<1> QED  BY <1>3, <1>4

LEMMA CallAnswered ==
  ASSUME TypeOK, Upcoming, UNCHANGED <<synchronous, memory>>, calls # <<>>, calls' = Tail(calls),
         \/ Head(calls).type = "fetch" /\ UNCHANGED <<rows, rejected>>
         \/ Head(calls).type = "batch" /\ Commits(Head(calls).set, Head(calls).rows)
         \/ Head(calls).type = "batch" /\ Rejects(Head(calls).set)
  PROVE  Upcoming'
<1>1. /\ Head(calls) = calls[1] /\ DOMAIN calls = 1 .. Len(calls) /\ Len(calls) \in Nat /\ Len(calls) >= 1
      /\ DOMAIN calls' = 1 .. Len(calls) - 1 /\ \A k \in 1 .. Len(calls) - 1 : calls'[k] = calls[k + 1]
  BY HeadTailProperties DEF TypeOK
<1>2. \A id : \A k \in DOMAIN calls' : /\ k + 1 \in DOMAIN calls /\ calls'[k] = calls[k + 1]
                                       /\ Newest(k, id)' <=> Newest(k + 1, id)
                                       /\ Writes(k, id)' <=> Writes(k + 1, id)
  BY <1>1 DEF Newest, Writes
<1>3. ASSUME NEW id \in Records, NEW l \in DOMAIN calls, l > 1, Newest(l, id)
      PROVE  \E j \in DOMAIN calls' : j = l - 1 /\ Newest(j, id)'
  <2>1. PICK j : j = l - 1
    OBVIOUS
  <2>2. j \in DOMAIN calls' /\ j + 1 = l
    BY <1>1, <1>3, <2>1
  <2>3. Newest(j, id)'
    BY <1>2, <1>3, <2>2
  <2> QED  BY <2>1, <2>2, <2>3
<1>4. ASSUME NEW id \in Records
      PROVE  rows'[id] = memory'[id] \/ id \in rejected' \/ \E k \in DOMAIN calls' : Newest(k, id)'
  <2>1. CASE Writes(1, id)
    <3>1. Newest(1, id) \/ \E l \in DOMAIN calls : l > 1 /\ Newest(l, id)
      BY <1>1, <2>1 DEF Upcoming
    <3>2. CASE \E l \in DOMAIN calls : l > 1 /\ Newest(l, id)
      BY <1>3, <3>2
    <3>3. CASE Newest(1, id)
      <4>1. Head(calls).rows[id] = memory[id] /\ id \in Head(calls).set /\ Head(calls).type = "batch"
        BY <1>1, <3>3 DEF Newest, Writes
      <4> QED  BY <4>1 DEF Commits, Written, Rejects
    <3> QED  BY <3>1, <3>2, <3>3
  <2>2. CASE ~Writes(1, id)
    <3>1. Head(calls).type = "batch" => id \notin Head(calls).set
      BY <1>1, <2>2 DEF Writes
    <3>2. rows'[id] = rows[id] /\ (id \in rejected => id \in rejected')
      BY <3>1 DEF Commits, Written, Rejects
    <3>3. CASE \E l \in DOMAIN calls : Newest(l, id)
      <4>1. PICK l \in DOMAIN calls : Newest(l, id)
        BY <3>3
      <4>2. l # 1
        BY <2>2, <4>1 DEF Newest
      <4>3. l > 1
        BY <1>1, <4>2
      <4> QED  BY <1>3, <4>1, <4>3
    <3> QED  BY <3>2, <3>3 DEF Upcoming
  <2> QED  BY <2>1, <2>2
<1>5. ASSUME NEW id \in Records, NEW k \in DOMAIN calls', Writes(k, id)'
      PROVE  Newest(k, id)' \/ \E l \in DOMAIN calls' : l > k /\ Newest(l, id)'
  <2>1. CASE Newest(k + 1, id)
    BY <1>2, <2>1
  <2>2. CASE \E l \in DOMAIN calls : l > k + 1 /\ Newest(l, id)
    <3>1. PICK l \in DOMAIN calls : l > k + 1 /\ Newest(l, id)
      BY <2>2
    <3>2. l > 1 /\ l - 1 > k
      BY <1>1, <3>1
    <3> QED  BY <1>3, <3>1, <3>2
  <2>3. k + 1 \in DOMAIN calls /\ Writes(k + 1, id)
    BY <1>2, <1>5
  <2> QED  BY <2>1, <2>2, <2>3 DEF Upcoming
<1>6. synchronous' => calls' = <<>>
  BY DEF Upcoming
<1> QED  BY <1>4, <1>5, <1>6 DEF Upcoming

-----------------------------------------------------------------------------
(* The invariant, and what it says at rest.                                *)

(* An error that ends all that was running passes everybody over.          *)
LEMMA PassedOver ==
  ASSUME TypeOK, Frames, Next
  PROVE  missed \subseteq missed' /\ (EmitThrows => Subscribers \subseteq missed')
<1>1. missed \subseteq Subscribers
  BY DEF TypeOK
<1>2. Answer \/ AnswerIsError \/ Observe \/ EmitWithColumns \/ EmitShared \/ Return => missed' = missed
  BY DEF Answer, AnswerIsError, Observe, EmitWithColumns, EmitShared, Return, people
<1>3. EmitThrows => missed' = Subscribers
  BY DEF EmitThrows
<1>4. Tell \/ LoopEnds \/ CallReloading \/ CallSimple \/ CallColumns => missed' = missed
  BY DEF Tell, LoopEnds, CallReloading, CallSimple, CallColumns, people
<1>5. CallSubscriber => missed \subseteq missed'
  BY DEF CallSubscriber
<1>6. SubscribeSource \/ SourceIsThere \/ Subscribed => missed' = missed
  BY DEF SubscribeSource, SourceIsThere, Subscribed, people
<1>7. \A u \in Subscribers :
        Subscribe(u) \/ SubscribeWithColumns(u) \/ Unsubscribe(u) \/ UnsubscribeColumns(u) \/ UnsubscribeLast(u)
          => missed \subseteq missed'
  BY DEF Subscribe, SubscribeWithColumns, Unsubscribe, UnsubscribeColumns, UnsubscribeLast
<1>8. Write \/ FetchIsAnswered \/ Notify \/ NotifySubscribers \/ StopHolding => missed' = missed
  BY DEF Write, FetchIsAnswered, Notify, NotifySubscribers, StopHolding, people
<1>9. BatchIsAnswered \/ BatchIsRejected => missed' = missed
  BY BatchStep
<1> QED  BY <1>1, <1>2, <1>3, <1>4, <1>5, <1>6, <1>7, <1>8, <1>9 DEF Next

LEMMA UpcomingKept ==
  ASSUME TypeOK, Upcoming, Next
  PROVE  Upcoming'
<1>1. CASE Answer \/ AnswerIsError \/ Observe \/ EmitWithColumns \/ EmitShared \/ EmitThrows \/ Tell \/ Return
  BY <1>1, BatchesAsTheyWere DEF Answer, AnswerIsError, Observe, EmitWithColumns, EmitShared, EmitThrows, Tell,
                                 Return, setting, data
<1>2. CASE LoopEnds \/ CallSimple \/ CallColumns \/ CallSubscriber \/ SourceIsThere \/ Subscribed
  BY <1>2, BatchesAsTheyWere DEF LoopEnds, CallSimple, CallColumns, CallSubscriber, SourceIsThere, Subscribed,
                                 setting, data
<1>3. CASE Notify \/ NotifySubscribers \/ StopHolding
  BY <1>3, BatchesAsTheyWere DEF Notify, NotifySubscribers, StopHolding, setting, data
<1>4. CASE CallReloading
  BY <1>4, FetchBehindBatches DEF CallReloading, setting, data
<1>5. CASE SubscribeSource
  BY <1>5, FetchBehindBatches DEF SubscribeSource, MakeSource, setting, data
<1>6. ASSUME NEW u \in Subscribers, SubscribeWithColumns(u)
      PROVE  Upcoming'
  BY <1>6, FetchBehindBatches DEF SubscribeWithColumns, MakeSource, setting, data
<1>7. ASSUME NEW u \in Subscribers, Subscribe(u) \/ Unsubscribe(u) \/ UnsubscribeColumns(u) \/ UnsubscribeLast(u)
      PROVE  Upcoming'
  BY <1>7, BatchesAsTheyWere DEF Subscribe, Unsubscribe, UnsubscribeColumns, UnsubscribeLast, setting, data
<1>8. CASE FetchIsAnswered
  BY <1>8, CallAnswered DEF FetchIsAnswered, setting, data
<1>9. CASE BatchIsAnswered \/ BatchIsRejected
  BY <1>9, CallAnswered, BatchStep
<1> QED  BY <1>1, <1>2, <1>3, <1>4, <1>5, <1>6, <1>7, <1>8, <1>9, BatchComes DEF Next

LEMMA InitUp == Init => IUp
<1> SUFFICES ASSUME Init
             PROVE  Upcoming /\ Ordered(stack) /\ Joining /\ Informed
  BY DEF IUp
<1>1. /\ stack = <<>> /\ calls = <<>> /\ rows = memory /\ source = <<>> /\ DOMAIN stack = {} /\ DOMAIN calls = {}
      /\ Sources = {} /\ shared.subscribers = <<>> /\ shared.didEmit = FALSE /\ shared.source = 0
      /\ \A u \in Subscribers : phase[u] = "new"
  BY DEF Init, Sources
<1>2. (\A at : At(at) = {} /\ ~Running(at)) /\ Range(shared.subscribers) = {}
  BY <1>1, EmptySeq DEF At, Range, Running
<1>3. Upcoming /\ Ordered(stack) /\ Joining
  BY <1>1, <1>2 DEF Upcoming, Ordered, Joining
<1>4. Sharing
  BY <1>1, <1>2 DEF Sharing, SharedLoops, LastEmitted, Here
<1>5. ToldOwn /\ Owned
  BY <1>1, <1>2, SubscriptionsAssumption DEF ToldOwn, Owned, Here
<1> QED  BY <1>1, <1>3, <1>4, <1>5 DEF Informed

LEMMA StepLearns ==
  ASSUME IInv, Upcoming, Ordered(stack), Joining, Informed, Next, ~EmitThrows
  PROVE  Ordered(stack') /\ Joining' /\ Informed'
<1>1. CASE Answer \/ AnswerIsError \/ Observe \/ EmitWithColumns \/ EmitShared \/ Tell
  BY <1>1, AnswerLearns, ErrorLearns, ObserveLearns, EmitWithColumnsLearns, EmitSharedLearns, TellLearns
<1>2. CASE Return \/ LoopEnds \/ SourceIsThere \/ Subscribed
  BY <1>2, ReturnsLearn DEF Returns
<1>3. CASE CallReloading \/ CallSimple \/ CallColumns \/ CallSubscriber
  BY <1>3, ReloadingLearns, SimpleLearns, ColumnsLearns, SubscriberLearns
<1>4. CASE SubscribeSource
  BY <1>4, ForAllLearns
<1>5. ASSUME NEW u \in Subscribers, Subscribe(u) \/ SubscribeWithColumns(u)
      PROVE  Ordered(stack') /\ Joining' /\ Informed'
  BY <1>5, SharerLearns, ForOneLearns
<1>6. ASSUME NEW u \in Subscribers, Unsubscribe(u) \/ UnsubscribeColumns(u) \/ UnsubscribeLast(u)
      PROVE  Ordered(stack') /\ Joining' /\ Informed'
  BY <1>6, SharerLeavesLearns, ColumnsLeaveLearns, LastLeavesLearns
<1>7. CASE Write \/ FetchIsAnswered \/ BatchIsAnswered \/ BatchIsRejected
  BY <1>7, WriteLearns, AnswerTurnLearns, BatchTurnLearns
<1>8. CASE Notify \/ NotifySubscribers \/ StopHolding
  BY <1>8, NotifyLearns, NotifySubscribersLearn, StopHoldingLearns
<1> QED  BY <1>1, <1>2, <1>3, <1>4, <1>5, <1>6, <1>7, <1>8 DEF Next

LEMMA UpKept == IInv /\ IUp /\ [Next]_vars => IUp'
<1>1. ASSUME IInv, IUp, Next
      PROVE  IUp'
  <2>1. TypeOK /\ Frames
    BY <1>1 DEF IInv
  <2>2. CASE Subscribers \subseteq missed \/ EmitThrows
    BY <1>1, <2>1, <2>2, PassedOver DEF IUp
  <2>3. CASE Upcoming /\ Ordered(stack) /\ Joining /\ Informed /\ ~EmitThrows
    BY <1>1, <2>1, <2>3, StepLearns, UpcomingKept DEF IUp
  <2> QED  BY <1>1, <2>2, <2>3 DEF IUp
<1>2. ASSUME IUp, UNCHANGED vars
      PROVE  IUp'
  <2>1. UNCHANGED <<simple, synchronous, rows, memory, rejected, calls, unnotified, held, stack,
                    database, collection, shared, source, phase, given, missed, Sources, Top>>
    BY <1>2 DEF vars, setting, data, notices, entries, observers, people, Sources, Top
  <2>2. CASE Subscribers \subseteq missed
    BY <2>1, <2>2 DEF IUp
  <2>3. CASE Upcoming /\ Ordered(stack) /\ Joining /\ Informed
    <3>1. Upcoming' /\ Joining'
      BY <2>1, <2>3, BatchesAsTheyWere DEF Joining, At
    <3>2. /\ \A at : At(at)' = At(at) /\ (Running(at)' <=> Running(at))
          /\ \A at, n : Doing(at, n)' <=> Doing(at, n)
          /\ Batches' = Batches
      BY <2>1 DEF At, Running, Doing, Batches
    <3>3. /\ \A id : Coming(id)' <=> Coming(id)
          /\ \A e, id : Awaited(e, id)' <=> Awaited(e, id)
          /\ \A n : (Fetched(n)' <=> Fetched(n)) /\ (Refetched(n)' <=> Refetched(n))
          /\ \A n : (Late(n)' <=> Late(n)) /\ (ToObserve(n)' <=> ToObserve(n))
      BY <2>1, <3>2 DEF Coming, Awaited, Fetched, Refetched, Comes, Late, ToObserve
    <3>4. ASSUME NEW m
          PROVE  Learns(m)' <=> Learns(m)
      <4>1. (NoticeComes(m)' <=> NoticeComes(m)) /\ (HasEntries(m)' <=> HasEntries(m)) /\ (FetchComes(m)' <=> FetchComes(m))
        BY <2>1, <3>2, <3>3 DEF NoticeComes, HasEntries, FetchComes, Matching
      <4>2. EmissionComes(m)' <=> EmissionComes(m)
        BY <2>1, <3>2, <3>3 DEF EmissionComes, Comes
      <4>3. Shown(m)' <=> Shown(m)
        BY <2>1, <3>2 DEF Shown, Showing, Telling, Has
      <4> QED  BY <2>1, <4>1, <4>2, <4>3 DEF Learns
    <3>5. ToldOwn' /\ Owned'
      BY <2>1, <2>3, <3>2 DEF Informed, ToldOwn, Owned
    <3>6. /\ \A n : Common(n)' <=> Common(n)
          /\ \A list : HasList(list)' <=> HasList(list)
          /\ (EmitsShared' <=> EmitsShared) /\ (FirstSource' <=> FirstSource) /\ (NewSource' <=> NewSource)
      BY <2>1, <3>2 DEF Common, HasList, EmitsShared, FirstSource, NewSource
    <3>7. \A u : WillHave(u)' <=> WillHave(u)
      BY <2>1, <3>2, <3>6 DEF WillHave, Plain
    <3>8. Sharing'
      <4>1. SharedLoops'
        BY <2>1, <2>3, <3>2 DEF Informed, Sharing, SharedLoops
      <4>2. LastEmitted'
        BY <2>1, <2>3, <3>2, <3>6 DEF Informed, Sharing, LastEmitted, HasList
      <4> QED  BY <2>1, <2>3, <3>7, <4>1, <4>2 DEF Informed, Sharing
    <3>9. Informed'
      BY <2>1, <2>3, <3>4, <3>5, <3>8 DEF Informed
    <3> QED  BY <2>1, <2>3, <3>1, <3>9 DEF IUp
  <2> QED  BY <1>2, <2>2, <2>3 DEF IUp
<1> QED  BY <1>1, <1>2

LEMMA NothingToCome ==
  ASSUME TypeOK, Upcoming, Quiet
  PROVE  /\ \A id \in Records \ rejected : rows[id] = memory[id]
         /\ \A at : At(at) = {} /\ ~Running(at)
         /\ \A id : (Coming(id) => id \in rejected) /\ \A e : Awaited(e, id) => id \in rejected
         /\ \A n : ~Fetched(n) /\ ~Refetched(n) /\ \A at : ~Doing(at, n)
         /\ \A e : ~Comes("collection", collection, e)
<1>1. /\ stack = <<>> /\ calls = <<>> /\ unnotified = <<>> /\ held = <<>> /\ DOMAIN calls = {}
      /\ Range(calls) = {} /\ Batches = {} /\ Range(unnotified) = {} /\ Range(held) = {}
  BY EmptySeq, CallsOf DEF Quiet, Range
<1>2. \A at : At(at) = {} /\ ~Running(at)
  BY <1>1, EmptySeq DEF At, Range, Running
<1>3. \A id \in Records \ rejected : rows[id] = memory[id]
  BY <1>1 DEF Upcoming
<1>4. \A id : (Coming(id) => id \in rejected) /\ \A e : Awaited(e, id) => id \in rejected
  BY <1>1, <1>2 DEF Coming, Awaited
<1>5. \A n : ~Fetched(n) /\ ~Refetched(n) /\ \A at : ~Doing(at, n)
  BY <1>1, <1>2 DEF Fetched, Refetched, Comes, Doing
<1>6. \A e : ~Comes("collection", collection, e)
  BY <1>2 DEF Comes
<1> QED  BY <1>2, <1>3, <1>4, <1>5, <1>6

(* At rest an observer has the list, and what it observes is as it is.     *)
Listed(list) ==
  /\ list # NoList
  /\ \A id \in (IF simple THEN Records \ rejected ELSE Records) : id \in list <=> rows[id].in

LEMMA ObservesAtRest ==
  ASSUME TypeOK, Frames, Upcoming, Informed, Quiet,
         NEW n \in Sources, source[n].live, ~source[n].stale, ~source[n].lost
  PROVE  /\ Listed(source[n].list)
         /\ \A id \in source[n].observed \ rejected : source[n].states[id] = rows[id].col
<1>1. /\ \A id \in Records \ rejected : rows[id] = memory[id]
      /\ \A id \in Records \ rejected : \A e : ~Awaited(e, id)
      /\ ~Fetched(n) /\ ~Refetched(n)
  BY NothingToCome
<1>2. NoticeComes(n) /\ FetchComes(n)
  BY DEF Informed, Learns
<1>3. source[n] \in Observer
  BY TopFrame
<1>4. source[n].list \in {NoList} \cup Lists /\ source[n].observed \in SUBSET Records
  BY <1>3 DEF Observer, Lists
<1>5. ASSUME simple
      PROVE  Listed(source[n].list)
  <2>1. source[n].list # NoList
    BY <1>1, <1>2, <1>5 DEF FetchComes
  <2>2. \A id \in Records \ rejected : id \in source[n].list <=> memory[id].in
    BY <1>1, <1>2, <1>5, <2>1 DEF NoticeComes
  <2>3. \A id \in Records \ rejected : id \in source[n].list <=> rows[id].in
    BY <1>1, <2>2
  <2> QED  BY <1>5, <2>1, <2>3 DEF Listed
<1>6. ASSUME ~simple
      PROVE  Listed(source[n].list)
  <2>1. source[n].list = Matching(rows)
    BY <1>1, <1>2, <1>6 DEF FetchComes
  <2>2. source[n].list \in SUBSET Records
    BY <2>1 DEF Matching
  <2>3. source[n].list # NoList
    BY <2>2, SubscriptionsAssumption
  <2>4. \A id \in Records : id \in source[n].list <=> rows[id].in
    BY <2>1 DEF Matching
  <2> QED  BY <1>6, <2>3, <2>4 DEF Listed
<1>7. ASSUME NEW id \in source[n].observed \ rejected
      PROVE  source[n].states[id] = rows[id].col
  <2>1. id \in Records \ rejected
    BY <1>4, <1>7
  <2> QED  BY <1>1, <1>2, <1>7, <2>1 DEF NoticeComes
<1> QED  BY <1>5, <1>6, <1>7

LEMMA ToldAtRest ==
  ASSUME IInv, Upcoming, Informed, Quiet, NEW u \in Subscribers, phase[u] = "joined", u \notin missed,
         \A n \in SourcesOf(u) : ~source[n].stale /\ ~source[n].lost
  PROVE  /\ ListIsShown(u)
         /\ u \in Columns => ColumnsAreShown(u) \/ \E n \in SourcesOf(u) : source[n].early
<1>1. /\ TypeOK /\ Frames /\ phase[u] \in Here
      /\ \A at : At(at) = {} /\ ~Running(at)
      /\ \A n : ~Fetched(n) /\ \A at : ~Doing(at, n)
      /\ \A e : ~Comes("collection", collection, e)
  BY NothingToCome DEF IInv, Here
<1>2. ListIsShown(u) <=> Listed(given[u].list)
  BY DEF ListIsShown, Listed
<1>3. ASSUME NEW n \in SourcesOf(u)
      PROVE  /\ Listed(source[n].list) /\ source[n].list # NoList
             /\ \A id \in source[n].observed \ rejected : source[n].states[id] = rows[id].col
  <2>1. n \in Sources /\ source[n].live /\ ~source[n].stale /\ ~source[n].lost
    BY DEF SourcesOf
  <2> QED  BY <1>1, <2>1, ObservesAtRest DEF Listed
<1>4. CASE u \in Columns
  <2>1. PICK n \in Sources : source[n].live /\ source[n].owner = u
    BY <1>1, <1>4 DEF Informed, Owned
  <2>2. n \in SourcesOf(u) /\ source[n].owner # Nobody
    BY <1>4, <2>1, SubscriptionsAssumption DEF SourcesOf
  <2>3. FetchComes(n) /\ EmissionComes(n) /\ Shown(n) /\ ~source[n].stale /\ ~source[n].lost
    BY <2>1, <2>2 DEF Informed, Learns
  <2>4. source[n].observed = source[n].list /\ ~source[n].first /\ Has(n)
    BY <1>1, <1>3, <2>2, <2>3 DEF Shown, Showing
  <2>5. ~source[n].pending
    BY <1>1, <2>2, <2>3 DEF EmissionComes, FetchComes
  <2>6. given[u].list = source[n].list
    BY <2>1, <2>4 DEF Has
  <2>7. ListIsShown(u)
    BY <1>2, <1>3, <2>2, <2>6
  <2>8. ~source[n].early => ColumnsAreShown(u)
    <3>1. ~source[n].early => given[u].cols = source[n].states
      BY <2>1, <2>4, <2>5 DEF Has
    <3> QED  BY <1>3, <2>2, <2>4, <2>6, <3>1 DEF ColumnsAreShown
  <2> QED  BY <2>2, <2>7, <2>8
<1>5. CASE u \notin Columns
  <2>1. WillHave(u)
    BY <1>1, <1>5 DEF Informed, Sharing
  <2>2. \A n \in Sources : Common(n) => n \in SourcesOf(u)
    BY <1>5 DEF Common, SourcesOf
  <2>3. ~NewSource
    BY <1>3, <2>2 DEF NewSource, HasList
  <2>4. PICK n \in Sources : Common(n) /\ given[u] = Plain(source[n].list)
    BY <1>1, <2>1, <2>3 DEF WillHave, EmitsShared, FirstSource
  <2>5. given[u].list = source[n].list
    BY <2>4 DEF Plain
  <2> QED  BY <1>2, <1>3, <1>5, <2>2, <2>4, <2>5
<1> QED  BY <1>4, <1>5

(* When nothing is under way, every subscriber was last called with the    *)
(* list and the columns as they are: with any number of batches, of them   *)
(* rejected or held back by experimentalBatchNotifications(), with answers *)
(* at once or later, and however callers subscribe and leave while they    *)
(* are called. Only what the property names is left out: who was passed    *)
(* over by a loop or called for a source that had ended, whose last fetch  *)
(* failed, the records whose last batch was rejected, and the columns of   *)
(* who was called ahead of a notice.                                       *)
THEOREM UpToDate == Spec => []UpToDateAtRest
<1>1. IInv /\ IUp => UpToDateAtRest
  <2> SUFFICES ASSUME IInv, IUp, Quiet, NEW u \in Subscribers, phase[u] = "joined", u \notin missed,
                      \A n \in SourcesOf(u) : ~source[n].stale /\ ~source[n].lost
               PROVE  /\ ListIsShown(u)
                      /\ u \in Columns => ColumnsAreShown(u) \/ \E n \in SourcesOf(u) : source[n].early
    BY DEF UpToDateAtRest
  <2>1. Upcoming /\ Informed
    BY DEF IUp
  <2> QED  BY <2>1, ToldAtRest
<1>2. Spec => []IUp
  BY InitUp, UpKept, IInvariant, PTL DEF Spec
<1> QED  BY <1>1, <1>2, IInvariant, PTL
==============================================================================
