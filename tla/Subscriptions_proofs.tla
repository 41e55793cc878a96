------------------------ MODULE Subscriptions_proofs ------------------------
(***************************************************************************)
(* Proofs about Subscriptions, for any number of records, subscribers and  *)
(* batches and any nesting of the callbacks.                               *)
(***************************************************************************)
EXTENDS Subscriptions, SequenceTheorems, TLAPS

Alike(s) == \A i, j \in DOMAIN s : s[i] = s[j] => i = j

Here == {"joining", "joined"}

-----------------------------------------------------------------------------
(* The inductive invariant.                                                *)

(* A frame that is about an observer or a subscriber names one; only the   *)
(* top frame answers, emits or tells. N is the number of observers made.   *)
Fitting(N) ==
  {f \in Frame : /\ f.at \in {"answer", "observe", "emit"} => f.n \in 1 .. N
                 /\ f.at \in {"tell", "user", "source", "subscribed"} => f.u \in Subscribers}
Lower(N) == {f \in Fitting(N) : f.at \notin {"answer", "emit", "tell"}}

Shaped(s, N) == s \in Seq(Fitting(N)) /\ (s # <<>> => Tail(s) \in Seq(Lower(N)))

Frames ==
  /\ Shaped(stack, Len(source))
  /\ \A i \in DOMAIN calls : calls[i].type = "fetch" => calls[i].n \in Sources

(* A with-columns observer belongs to one caller, whose subscription lasts *)
(* as long as the observer does.                                           *)
Owners ==
  /\ \A n \in Sources : source[n].owner # Nobody =>
       /\ source[n].owner \in Columns /\ phase[source[n].owner] # "new"
       /\ source[n].live => phase[source[n].owner] \in Here
  /\ \A m, n \in Sources : source[m].owner = source[n].owner /\ source[m].owner # Nobody => m = n

(* Who is in the array of the SharedSubscribable is there once, and has    *)
(* not left.                                                               *)
Sharers ==
  /\ Alike(shared.subscribers)
  /\ \A i \in DOMAIN shared.subscribers :
       shared.subscribers[i] \notin Columns /\ phase[shared.subscribers[i]] \in Here
  /\ shared.source # 0 => shared.subscribers # <<>>
  /\ shared.source \in 0 .. Len(source)

SharedSource ==
  ~overtaken => \A n \in Sources :
    source[n].live /\ source[n].owner = Nobody <=> n = shared.source

(* An entry is in its array once, so that splice() leaves none behind.     *)
Arrays ==
  /\ Alike(database) /\ Alike(collection)
  /\ simple => database = <<>>
  /\ \A i \in DOMAIN collection :
       /\ collection[i][2] = "simple" => simple /\ source[collection[i][1]].list \in Lists
       /\ collection[i][2] = "columns" => source[collection[i][1]].owner # Nobody

(* The first answer to a simple observer is under way, at one place, or    *)
(* its entry is there.                                                     *)
Awaits(f) == f.at \in {"answer", "observe"}

OneAnswer == simple =>
  /\ \A i, j \in DOMAIN calls :
       calls[i].type = "fetch" /\ calls[j].type = "fetch" /\ calls[i].n = calls[j].n => i = j
  /\ \A k, l \in DOMAIN stack :
       Awaits(stack[k]) /\ Awaits(stack[l]) /\ stack[k].n = stack[l].n => k = l
  /\ \A i \in DOMAIN calls, k \in DOMAIN stack :
       calls[i].type = "fetch" /\ Awaits(stack[k]) => calls[i].n # stack[k].n
  /\ \A i \in DOMAIN calls, p \in DOMAIN collection :
       calls[i].type = "fetch" => collection[p] # <<calls[i].n, "simple">>
  /\ \A k \in DOMAIN stack, p \in DOMAIN collection :
       Awaits(stack[k]) => collection[p] # <<stack[k].n, "simple">>

Observing ==
  \A k \in DOMAIN stack : stack[k].at = "observe" =>
    simple /\ (source[stack[k].n].live => source[stack[k].n].list \in Lists)

(* Who is about to be called is there, and who is about to emit is live.   *)
Called ==
  /\ Running("tell") => phase[Top.u] \in Here
  /\ Running("emit") => source[Top.n].live

IInv ==
  /\ TypeOK /\ Frames /\ Owners /\ Sharers /\ SharedSource
  /\ Arrays /\ NothingStaysSubscribed /\ OneAnswer /\ Observing /\ Called

-----------------------------------------------------------------------------
(* Arrays and stacks.                                                      *)

(* Without() takes one entry out, and moves none to a later place.         *)
LEMMA Removed ==
  ASSUME NEW S, NEW s \in Seq(S), NEW e
  PROVE  /\ Without(s, e) \in Seq(S)
         /\ \A i \in DOMAIN Without(s, e) : \E j \in DOMAIN s : Without(s, e)[i] = s[j] /\ j >= i
         /\ \A j \in DOMAIN s : s[j] # e => \E i \in DOMAIN Without(s, e) : Without(s, e)[i] = s[j]
         /\ Alike(s) => /\ Alike(Without(s, e))
                        /\ \A i \in DOMAIN Without(s, e) : Without(s, e)[i] # e
<1>1. CASE ~ \E i \in DOMAIN s : s[i] = e
  <2>1. Without(s, e) = s
    BY <1>1 DEF Without
  <2> QED  BY <1>1, <2>1 DEF Alike
<1>2. CASE \E i \in DOMAIN s : s[i] = e
  <2> DEFINE k == CHOOSE i \in DOMAIN s : s[i] = e
             a == SubSeq(s, 1, k - 1)
             b == SubSeq(s, k + 1, Len(s))
             r == a \o b
  <2>1. k \in 1 .. Len(s) /\ s[k] = e
    BY <1>2
  <2>2. Without(s, e) = r
    BY <1>2 DEF Without, RemoveAt
  <2> HIDE DEF k
  <2>a. a \in Seq(S) /\ Len(a) = k - 1 /\ \A i \in 1 .. k - 1 : a[i] = s[i]
    BY <2>1, SubSeqProperties
  <2>b. b \in Seq(S) /\ Len(b) = Len(s) - k /\ \A i \in 1 .. Len(s) - k : b[i] = s[k + i]
    BY <2>1, SubSeqProperties
  <2> HIDE DEF a, b
  <2>c. /\ r \in Seq(S) /\ Len(r) = Len(a) + Len(b)
        /\ \A i \in 1 .. Len(a) + Len(b) : r[i] = IF i <= Len(a) THEN a[i] ELSE b[i - Len(a)]
    BY <2>a, <2>b, ConcatProperties
  <2>3. r \in Seq(S) /\ Len(r) = Len(s) - 1
    BY <2>1, <2>a, <2>b, <2>c
  <2> HIDE DEF r
  <2>4. \A i \in 1 .. Len(r) : r[i] = IF i < k THEN s[i] ELSE s[i + 1]
    BY <2>1, <2>a, <2>b, <2>c, <2>3
  <2>5. DOMAIN r = 1 .. Len(r) /\ DOMAIN s = 1 .. Len(s) /\ Len(r) \in Nat /\ Len(s) \in Nat
    BY <2>3
  <2>6. \A i \in DOMAIN r : \E j \in DOMAIN s : r[i] = s[j] /\ j >= i /\ j # k
    BY <2>1, <2>3, <2>4, <2>5
  <2>7. \A j \in DOMAIN s : s[j] # e => \E i \in DOMAIN r : r[i] = s[j]
    <3> SUFFICES ASSUME NEW j \in DOMAIN s, s[j] # e
                 PROVE  \E i \in DOMAIN r : r[i] = s[j]
      OBVIOUS
    <3>1. CASE j < k
      BY <3>1, <2>1, <2>3, <2>4, <2>5
    <3>2. CASE j > k
      <4>1. j - 1 \in DOMAIN r /\ ~ j - 1 < k /\ j - 1 + 1 = j
        BY <3>2, <2>1, <2>3, <2>5
      <4> QED  BY <4>1, <2>4, <2>5
    <3> QED  BY <3>1, <3>2, <2>1, <2>5
  <2>8. Alike(s) => Alike(r)
    BY <2>1, <2>3, <2>4, <2>5, SMTT(20) DEF Alike
  <2>9. Alike(s) => \A i \in DOMAIN r : r[i] # e
    BY <2>1, <2>5, <2>6 DEF Alike
  <2> QED  BY <2>2, <2>3, <2>6, <2>7, <2>8, <2>9
<1> QED  BY <1>1, <1>2

(* What is put on top of a stack.                                          *)
LEMMA Pushed ==
  ASSUME NEW S, NEW s \in Seq(S), NEW f \in S, NEW g \in S
  PROVE  /\ <<f>> \o s \in Seq(S) /\ <<f, g>> \o s \in Seq(S)
         /\ <<f>> \o s # <<>> /\ Head(<<f>> \o s) = f /\ Tail(<<f>> \o s) = s
         /\ <<f, g>> \o s # <<>> /\ Head(<<f, g>> \o s) = f /\ Tail(<<f, g>> \o s) = <<g>> \o s
  OBVIOUS

LEMMA Places ==
  ASSUME NEW S, NEW s \in Seq(S), NEW f \in S, NEW g \in S
  PROVE  /\ Len(<<f>> \o s) = Len(s) + 1 /\ (<<f>> \o s)[1] = f
         /\ \A k \in 1 .. Len(s) : (<<f>> \o s)[k + 1] = s[k]
         /\ Len(<<f, g>> \o s) = Len(s) + 2 /\ (<<f, g>> \o s)[1] = f /\ (<<f, g>> \o s)[2] = g
         /\ \A k \in 1 .. Len(s) : (<<f, g>> \o s)[k + 2] = s[k]
  OBVIOUS

LEMMA Appended ==
  ASSUME NEW S, NEW s \in Seq(S), NEW e \in S
  PROVE  /\ \A i \in DOMAIN Append(s, e) :
              \/ i = Len(s) + 1 /\ Append(s, e)[i] = e
              \/ i \in DOMAIN s /\ Append(s, e)[i] = s[i]
         /\ \A i \in DOMAIN s : i \in DOMAIN Append(s, e) /\ Append(s, e)[i] = s[i] /\ i # Len(s) + 1
<1> DEFINE t == Append(s, e)
<1>1. /\ DOMAIN t = 1 .. Len(s) + 1 /\ t[Len(s) + 1] = e
      /\ DOMAIN s = 1 .. Len(s) /\ Len(s) \in Nat
      /\ \A i \in 1 .. Len(s) : t[i] = s[i]
  OBVIOUS
<1> HIDE DEF t
<1> QED  BY <1>1 DEF t

LEMMA OneByOne ==
  ASSUME NEW S, NEW s \in Seq(S), NEW f \in S, NEW g \in S
  PROVE  <<f, g>> \o s = <<f>> \o (<<g>> \o s)
<1>1. <<f>> \in Seq(S) /\ <<g>> \in Seq(S)
  OBVIOUS
<1>2. <<f, g>> = <<f>> \o <<g>>
  <2> DEFINE a == <<f, g>>
             b == <<f>> \o <<g>>
  <2>1. a \in Seq(S) /\ Len(a) = 2 /\ a[1] = f /\ a[2] = g
    OBVIOUS
  <2>2. b \in Seq(S) /\ Len(b) = 2 /\ b[1] = f /\ b[2] = g
    OBVIOUS
  <2> HIDE DEF a, b
  <2>3. \A i \in 1 .. Len(a) : a[i] = b[i]
    BY <2>1, <2>2
  <2> QED  BY <2>1, <2>2, <2>3, SeqEqual DEF a, b
<1> QED  BY <1>1, <1>2, ConcatAssociative

LEMMA Fits ==
  ASSUME NEW N
  PROVE  /\ Lower(N) \subseteq Fitting(N) /\ Fitting(N) \subseteq Frame
         /\ \A s : Shaped(s, N) => s \in Seq(Frame)
<1>1. Lower(N) \subseteq Fitting(N) /\ Fitting(N) \subseteq Frame
  BY DEF Fitting, Lower
<1> QED  BY <1>1, SeqMonotonic DEF Shaped

LEMMA FitsMore ==
  ASSUME NEW N \in Nat, NEW M \in Nat, M >= N
  PROVE  /\ Fitting(N) \subseteq Fitting(M) /\ Lower(N) \subseteq Lower(M)
         /\ Seq(Lower(N)) \subseteq Seq(Lower(M))
         /\ \A s : Shaped(s, N) => Shaped(s, M)
<1>1. Fitting(N) \subseteq Fitting(M) /\ Lower(N) \subseteq Lower(M)
  BY DEF Fitting, Lower
<1> QED  BY <1>1, SeqMonotonic DEF Shaped

LEMMA Shape ==
  ASSUME NEW N \in Nat, NEW s \in Seq(Lower(N))
  PROVE  Shaped(s, N) /\ \A f \in Fitting(N) : Shaped(<<f>> \o s, N)
<1>1. s \in Seq(Fitting(N)) /\ (s # <<>> => Tail(s) \in Seq(Lower(N)))
  BY Fits, SeqMonotonic, HeadTailProperties
<1>2. ASSUME NEW f \in Fitting(N)
      PROVE  <<f>> \o s \in Seq(Fitting(N)) /\ Tail(<<f>> \o s) = s
  BY <1>1, Pushed
<1> QED  BY <1>1, <1>2 DEF Shaped

LEMMA ShapeOfTwo ==
  ASSUME NEW N \in Nat, NEW s \in Seq(Lower(N)), NEW f \in Fitting(N), NEW g \in Lower(N)
  PROVE  Shaped(<<f, g>> \o s, N) /\ <<g>> \o s \in Seq(Lower(N))
<1>1. <<g>> \o s \in Seq(Lower(N))
  BY Pushed
<1>2. s \in Seq(Fitting(N)) /\ g \in Fitting(N)
  BY Fits, SeqMonotonic
<1>3. <<f, g>> \o s \in Seq(Fitting(N)) /\ Tail(<<f, g>> \o s) = <<g>> \o s
  BY <1>2, Pushed
<1> QED  BY <1>1, <1>3 DEF Shaped

(* A field of an observer that is given another value of its type.         *)
LEMMA ObserverChanged ==
  ASSUME NEW o \in Observer
  PROVE  /\ [o EXCEPT !.news = FALSE] \in Observer /\ [o EXCEPT !.fetching = TRUE] \in Observer
         /\ [o EXCEPT !.stale = @ \/ o.live] \in Observer
         /\ \A list \in Lists : [o EXCEPT !.list = list, !.stale = FALSE] \in Observer
BY DEF Observer

LEMMA Updated ==
  ASSUME NEW S, NEW s \in Seq(S), NEW n \in 1 .. Len(s), NEW t \in S
  PROVE  [s EXCEPT ![n] = t] \in Seq(S) /\ Len([s EXCEPT ![n] = t]) = Len(s)
  OBVIOUS

LEMMA TopFrame ==
  ASSUME TypeOK, Frames
  PROVE  /\ source \in Seq(Observer) /\ Len(source) \in Nat /\ Sources = 1 .. Len(source)
         /\ \A n \in Sources : source[n] \in Observer
         /\ stack # <<>> => /\ Top \in Fitting(Len(source)) /\ Top \in Frame
                            /\ Below \in Seq(Lower(Len(source)))
<1>1. /\ source \in Seq(Observer) /\ Len(source) \in Nat /\ Sources = 1 .. Len(source)
      /\ \A n \in Sources : source[n] \in Observer
  BY DEF TypeOK, Sources
<1>2. stack \in Seq(Fitting(Len(source))) /\ (stack # <<>> => Below \in Seq(Lower(Len(source))))
  BY DEF Frames, Shaped, Below
<1> QED  BY <1>1, <1>2, HeadTailProperties DEF Top, Fitting

LEMMA NewFrames ==
  ASSUME NEW N \in Nat
  PROVE  /\ \A n \in 1 .. N, set \in Lists :
              /\ OfSource("answer", n, set) \in Fitting(N)
              /\ OfSource("emit", n, set) \in Fitting(N)
              /\ OfSource("observe", n, set) \in Lower(N)
              /\ OfSource("shared", n, set) \in Lower(N)
         /\ \A set \in Lists, at \in {"notify", "database", "collection"} :
              OfSource(at, 0, set) \in Lower(N)
         /\ \A u \in Subscribers, set \in Lists :
              /\ OfUser("tell", u, set) \in Fitting(N)
              /\ \A n \in Nat : [OfUser("tell", u, set) EXCEPT !.n = n] \in Fitting(N)
              /\ OfUser("user", u, set) \in Lower(N)
              /\ OfUser("source", u, set) \in Lower(N)
              /\ OfUser("subscribed", u, set) \in Lower(N)
<1>1. ASSUME NEW n \in 1 .. N, NEW set \in Lists
      PROVE  /\ OfSource("answer", n, set) \in Fitting(N)
             /\ OfSource("emit", n, set) \in Fitting(N)
             /\ OfSource("observe", n, set) \in Lower(N)
             /\ OfSource("shared", n, set) \in Lower(N)
  <2>1. n \in Nat
    OBVIOUS
  <2>2. ASSUME NEW at \in {"answer", "emit", "observe", "shared"}
        PROVE  /\ OfSource(at, n, set) \in Frame /\ OfSource(at, n, set).at = at
               /\ OfSource(at, n, set).n = n /\ OfSource(at, n, set).u = Nobody
    BY <2>1 DEF OfSource, NoFrame, Frame
  <2> QED  BY <2>2 DEF Fitting, Lower
<1>2. ASSUME NEW set \in Lists, NEW at \in {"notify", "database", "collection"}
      PROVE  OfSource(at, 0, set) \in Lower(N)
  BY DEF Fitting, Lower, Frame, OfSource, NoFrame
<1>3. ASSUME NEW u \in Subscribers, NEW set \in Lists
      PROVE  /\ OfUser("tell", u, set) \in Fitting(N)
             /\ \A n \in Nat : [OfUser("tell", u, set) EXCEPT !.n = n] \in Fitting(N)
             /\ OfUser("user", u, set) \in Lower(N)
             /\ OfUser("source", u, set) \in Lower(N)
             /\ OfUser("subscribed", u, set) \in Lower(N)
  BY DEF Fitting, Lower, Frame, OfUser, NoFrame
<1> QED  BY <1>1, <1>2, <1>3

-----------------------------------------------------------------------------
(* Types, and the frames.                                                  *)

LEMMA TypesOfEmissions ==
  ASSUME IInv, EmitWithColumns \/ EmitShared \/ EmitThrows \/ Tell \/ Return
  PROVE  TypeOK' /\ Frames' /\ Len(source') >= Len(source)
<1> USE DEF Frames
<1>0. /\ source \in Seq(Observer) /\ Len(source) \in Nat /\ Sources = 1 .. Len(source) /\ \A n \in Sources : source[n] \in Observer
      /\ stack # <<>> => /\ Top \in Fitting(Len(source)) /\ Top \in Frame
                         /\ Below \in Seq(Lower(Len(source)))
      /\ TypeOK /\ Frames
  BY TopFrame DEF IInv
<1>1. CASE EmitWithColumns
  <2> DEFINE n == Top.n
             s == source[n]
             shouldEmit == (s.first \/ s.pending \/ s.observed # Top.set) /\ s.live
             states == StateAfter(s, Top.set)
             news == s.news /\ ~shouldEmit
             early == IF shouldEmit THEN Ahead(states, Top.set) ELSE s.early
             t == [s EXCEPT !.fetching = FALSE, !.pending = FALSE, !.first = FALSE,
                            !.observed = Top.set, !.states = states, !.news = news,
                            !.early = early]
  <2>1. /\ n \in Sources /\ s \in Observer /\ s.owner # Nobody /\ stack # <<>>
        /\ source' = [source EXCEPT ![n] = t]
        /\ stack' = IF shouldEmit
                    THEN <<[OfUser("tell", s.owner, Top.set) EXCEPT !.n = n]>> \o Below
                    ELSE Below
    BY <1>0, <1>1 DEF EmitWithColumns, Running, Top, Fitting
  <2>a. \A id \in Records : memory[id].col \in 0 .. 1 /\ s.states[id] \in 0 .. 1
    BY <1>0, <2>1 DEF TypeOK, Rows, Row, Observer
  <2>2. states \in [Records -> 0 .. 1] /\ Top.set \in Lists
    BY <1>0, <2>1, <2>a DEF StateAfter, Frame
  <2>3. t \in Observer
    <3>1. news \in BOOLEAN /\ early \in BOOLEAN
      BY <2>1 DEF Ahead, Observer
    <3> HIDE DEF states, news, early
    <3> QED  BY <2>1, <2>2, <3>1 DEF Observer
  <2> HIDE DEF t
  <2>4. source' \in Seq(Observer) /\ Len(source') = Len(source)
    BY <1>0, <2>1, <2>3 DEF TypeOK
  <2>5. [OfUser("tell", s.owner, Top.set) EXCEPT !.n = n] \in Fitting(Len(source))
    BY <1>0, <2>1, <2>2, NewFrames DEF Observer
  <2>6. Shaped(stack', Len(source')) /\ stack' \in Seq(Frame)
    BY <1>0, <2>1, <2>4, <2>5, Shape, Fits
  <2>7. UNCHANGED <<simple, synchronous, rows, memory, writes, rejected, calls, unnotified, held,
                    database, collection, shared, phase, given, missed, overtaken, Sources>>
    BY <1>0, <1>1, <2>4 DEF EmitWithColumns, setting, data, notices, entries, people, Sources
  <2> QED  BY <1>0, <2>4, <2>6, <2>7 DEF TypeOK, Rows
<1>2. CASE EmitShared
  <2>1. /\ Top.n \in Sources /\ stack # <<>> /\ Top.set \in Lists
        /\ shared' = [shared EXCEPT !.didEmit = TRUE, !.last = Top.set]
        /\ source' = [source EXCEPT ![Top.n].news = FALSE]
        /\ stack' = <<OfSource("shared", Top.n, Top.set)>> \o Below
    BY <1>0, <1>2 DEF EmitShared, Running, Top, Fitting, Frame
  <2>2. source' \in Seq(Observer) /\ Len(source') = Len(source)
    <3>0. source[Top.n] \in Observer
      BY <1>0, <2>1 DEF TypeOK, Sources
    <3>1. [source[Top.n] EXCEPT !.news = FALSE] \in Observer
      BY ONLY <3>0, ObserverChanged
    <3> QED  BY <1>0, <2>1, <3>1 DEF TypeOK
  <2>3. Shaped(stack', Len(source')) /\ stack' \in Seq(Frame)
    <3>1. OfSource("shared", Top.n, Top.set) \in Fitting(Len(source))
      BY <1>0, <2>1, NewFrames, Fits
    <3> QED  BY <1>0, <2>1, <2>2, <3>1, Shape, Fits
  <2>4. UNCHANGED <<simple, synchronous, rows, memory, writes, rejected, calls, unnotified, held,
                    database, collection, phase, given, missed, overtaken, Sources>>
    BY <1>0, <1>2, <2>2 DEF EmitShared, setting, data, notices, entries, people, Sources
  <2>5. shared' \in [subscribers : Seq(Subscribers), source : Nat, didEmit : BOOLEAN, last : Lists]
    BY <1>0, <2>1 DEF TypeOK
  <2> QED  BY <1>0, <2>2, <2>3, <2>4, <2>5 DEF TypeOK, Rows
<1>3. CASE EmitThrows
  <2>1. /\ stack' = <<>> /\ missed' = Subscribers
        /\ UNCHANGED <<simple, synchronous, rows, memory, writes, rejected, calls, unnotified, held,
                       database, collection, shared, source, phase, given, overtaken, Sources>>
    BY <1>0, <1>3 DEF EmitThrows, setting, data, notices, entries, observers, Sources
  <2> QED  BY <1>0, <2>1 DEF TypeOK, Shaped, Rows
<1>4. CASE Tell
  <2>1. /\ stack # <<>> /\ Top.u \in Subscribers /\ Top.set \in Lists
        /\ given' = [given EXCEPT ![Top.u] = Seen(Top.u, Top.set)]
        /\ stack' = <<OfUser("user", Top.u, {})>> \o Below
        /\ UNCHANGED <<simple, synchronous, rows, memory, writes, rejected, calls, unnotified, held,
                       database, collection, shared, source, phase, missed, overtaken, Sources>>
    BY <1>0, <1>4 DEF Tell, setting, data, notices, entries, observers, Sources, Running, Top, Fitting, Frame
  <2>2. \A id \in Records : memory[id].col \in 0 .. 1
    BY <1>0 DEF TypeOK, Rows, Row
  <2>3. Seen(Top.u, Top.set) \in [list : {NoList} \cup Lists, cols : [Records -> 0 .. 1]]
    BY <2>1, <2>2 DEF Seen
  <2>4. Shaped(stack', Len(source')) /\ stack' \in Seq(Frame)
    <3> {} \in Lists
      BY DEF Lists
    <3>1. OfUser("user", Top.u, {}) \in Fitting(Len(source))
      BY <1>0, <2>1, NewFrames, Fits
    <3> QED  BY <1>0, <2>1, <3>1, Shape, Fits
  <2> QED  BY <1>0, <2>1, <2>3, <2>4 DEF TypeOK, Rows
<1>5. CASE Return
  <2>1. /\ stack # <<>> /\ stack' = Below
        /\ UNCHANGED <<simple, synchronous, rows, memory, writes, rejected, calls, unnotified, held,
                       database, collection, shared, source, phase, given, missed, overtaken, Sources>>
    BY <1>0, <1>5 DEF Return, setting, data, notices, entries, observers, people, Sources, Running
  <2> QED  BY <1>0, <2>1, Shape, Fits DEF TypeOK, Rows
<1> QED  BY <1>1, <1>2, <1>3, <1>4, <1>5

LEMMA TypesOfAnswers ==
  ASSUME IInv, Answer \/ AnswerIsError \/ Observe
  PROVE  TypeOK' /\ Frames' /\ Len(source') >= Len(source)
<1> USE DEF Frames
<1>0. /\ source \in Seq(Observer) /\ Len(source) \in Nat /\ Sources = 1 .. Len(source) /\ \A n \in Sources : source[n] \in Observer
      /\ stack # <<>> => /\ Top \in Fitting(Len(source)) /\ Top \in Frame
                         /\ Below \in Seq(Lower(Len(source)))
      /\ TypeOK /\ Frames
  BY TopFrame DEF IInv
<1>1. CASE Answer
  <2> DEFINE n == Top.n
             list == Matching(rows)
             t == [source[n] EXCEPT !.list = list, !.stale = FALSE]
             emit == OfSource("emit", n, list)
             observe == OfSource("observe", n, {})
  <2>1. /\ n \in Sources /\ stack # <<>>
        /\ \/ source' = source
           \/ source' = [source EXCEPT ![n] = t]
        /\ stack' \in {Below, <<emit>> \o Below, <<emit, observe>> \o Below}
        /\ UNCHANGED <<simple, synchronous, rows, memory, writes, rejected, calls, unnotified, held,
                       database, collection, shared, phase, given, missed, overtaken>>
    BY <1>0, <1>1 DEF Answer, SimpleAnswer, ReloadingAnswer, Running, Top, Fitting,
                      setting, data, notices, entries, people
  <2>2. list \in Lists /\ {} \in Lists
    BY DEF Matching, Lists
  <2>3. source' \in Seq(Observer) /\ Len(source') = Len(source)
    <3>0. source[n] \in Observer
      BY <1>0, <2>1 DEF TypeOK, Sources
    <3>1. t \in Observer
      BY ONLY <3>0, <2>2, ObserverChanged
    <3> HIDE DEF t
    <3> QED  BY <1>0, <2>1, <3>1, Updated
  <2>4. Shaped(stack', Len(source')) /\ stack' \in Seq(Frame)
    <3>1. emit \in Fitting(Len(source)) /\ observe \in Lower(Len(source))
      BY <1>0, <2>1, <2>2, NewFrames
    <3> HIDE DEF emit, observe
    <3> QED  BY <1>0, <2>1, <2>3, <3>1, Shape, ShapeOfTwo, Fits
  <2>5. UNCHANGED Sources
    BY <2>3 DEF Sources
  <2> QED  BY <1>0, <2>1, <2>3, <2>4, <2>5, SMTT(20) DEF TypeOK, Rows
<1>2. CASE AnswerIsError
  <2>1. /\ Top.n \in Sources /\ stack # <<>> /\ stack' = Below
        /\ source' = [source EXCEPT ![Top.n].stale = @ \/ source[Top.n].live]
        /\ UNCHANGED <<simple, synchronous, rows, memory, writes, rejected, calls, unnotified, held,
                       database, collection, shared, phase, given, missed, overtaken>>
    BY <1>0, <1>2 DEF AnswerIsError, Running, Top, Fitting, setting, data, notices, entries, people
  <2>2. source' \in Seq(Observer) /\ Len(source') = Len(source)
    <3>0. source[Top.n] \in Observer
      BY <1>0, <2>1 DEF TypeOK, Sources
    <3>1. [source[Top.n] EXCEPT !.stale = @ \/ source[Top.n].live] \in Observer
      BY ONLY <3>0, ObserverChanged
    <3> QED  BY <1>0, <2>1, <3>1 DEF TypeOK
  <2>3. Shaped(stack', Len(source')) /\ stack' \in Seq(Frame)
    BY <1>0, <2>1, <2>2, Shape, Fits
  <2>4. UNCHANGED Sources
    BY <2>2 DEF Sources
  <2> QED  BY <1>0, <2>1, <2>2, <2>3, <2>4 DEF TypeOK, Rows
<1>3. CASE Observe
  <2>1. /\ Top.n \in Sources /\ stack # <<>> /\ stack' = Below
        /\ collection' \in {collection, Append(collection, <<Top.n, "simple">>)}
        /\ UNCHANGED <<simple, synchronous, rows, memory, writes, rejected, calls, unnotified, held,
                       database, shared, source, phase, given, missed, overtaken, Sources>>
    BY <1>0, <1>3 DEF Observe, Running, Top, Fitting, setting, data, notices, observers, people, Sources
  <2>2. collection' \in Seq(Sources' \X {"columns", "simple"})
    <3>1. <<Top.n, "simple">> \in Sources \X {"columns", "simple"}
      BY <2>1
    <3>2. collection \in Seq(Sources \X {"columns", "simple"}) /\ Sources' = Sources
      BY <1>0, <2>1 DEF TypeOK
    <3> DEFINE S == Sources \X {"columns", "simple"}
               e == <<Top.n, "simple">>
    <3> HIDE DEF S, e
    <3>3. collection \in Seq(S) /\ Append(collection, e) \in Seq(S)
      BY <3>1, <3>2, AppendProperties DEF S, e
    <3>4. collection' \in Seq(S)
      BY <2>1, <3>3 DEF e
    <3> QED  BY <3>2, <3>4 DEF S
  <2>3. Shaped(stack', Len(source')) /\ stack' \in Seq(Frame)
    BY <1>0, <2>1, Shape, Fits
  <2> QED  BY <1>0, <2>1, <2>2, <2>3 DEF TypeOK, Rows
<1> QED  BY <1>1, <1>2, <1>3

(* A loop's next item is in its array, and a fetch is about its observer.  *)
LEMMA LoopFrames ==
  ASSUME TypeOK, Frames, stack # <<>>, Top.at \in {"database", "collection", "shared"}
  PROVE  /\ Moved(Top) \in Lower(Len(source)) /\ Top.i \in Nat
         /\ Moved(Top).at = Top.at /\ Moved(Top).n = Top.n /\ Moved(Top).i = Top.i + 1
         /\ HasNext(Top) => Top.i + 1 \in DOMAIN Items(Top.at)
<1>1. Top \in Frame /\ Top \in Fitting(Len(source))
  BY TopFrame
<1>2. Len(Items(Top.at)) \in Nat /\ DOMAIN Items(Top.at) = 1 .. Len(Items(Top.at))
  BY DEF Items, TypeOK
<1>3. Length(Top) \in Nat /\ Top.i \in Nat
  BY <1>1, <1>2 DEF Length, Frame
<1>4. Moved(Top) = [Top EXCEPT !.i = Top.i + 1, !.len = Length(Top)]
  BY DEF Moved
<1>5. Moved(Top) \in Frame /\ Moved(Top).at = Top.at /\ Moved(Top).n = Top.n /\ Moved(Top).i = Top.i + 1
  <2> DEFINE f == Top
             len == Length(Top)
             g == [at |-> f.at, n |-> f.n, u |-> f.u, i |-> f.i + 1, len |-> len, set |-> f.set]
  <2>0. f \in Frame /\ len \in Nat /\ Moved(Top) = [f EXCEPT !.i = f.i + 1, !.len = len]
    BY <1>1, <1>3, <1>4
  <2> HIDE DEF f, len
  <2>1. Moved(Top) = g
    BY <2>0 DEF Frame
  <2>2. g \in Frame
    BY <2>0 DEF Frame
  <2> QED  BY <2>1, <2>2 DEF f
<1> QED  BY <1>2, <1>3, <1>5 DEF HasNext, Lower, Fitting

LEMMA Fetching ==
  ASSUME TypeOK, Frames, NEW N \in Nat, N >= Len(source), NEW n \in 1 .. N, NEW s \in Seq(Lower(N))
  PROVE  /\ Shaped(FetchFrames(n) \o s, N) /\ FetchFrames(n) \o s \in Seq(Frame)
         /\ FetchCalls(n) \in Seq([type : {"fetch", "batch"}, n : Nat, rows : Rows, set : Lists])
         /\ \A i \in DOMAIN FetchCalls(n) : FetchCalls(n)[i].type = "fetch" => FetchCalls(n)[i].n \in 1 .. N
<1>1. FetchFrames(n) = <<>> \/ FetchFrames(n) = <<OfSource("answer", n, {})>>
  BY DEF FetchFrames
<1>2. OfSource("answer", n, {}) \in Fitting(N)
  <2>1. {} \in Lists
    BY DEF Lists
  <2> QED  BY <2>1, NewFrames
<1>3. <<>> \o s = s
  BY ConcatEmptySeq
<1>4. Shaped(FetchFrames(n) \o s, N) /\ FetchFrames(n) \o s \in Seq(Frame)
  BY <1>1, <1>2, <1>3, Shape, Fits
<1>5. [type |-> "fetch", n |-> n, rows |-> NoRows, set |-> {}]
        \in [type : {"fetch", "batch"}, n : Nat, rows : Rows, set : Lists]
  BY DEF NoRows, Rows, Row, Lists
<1>6. /\ calls \in Seq([type : {"fetch", "batch"}, n : Nat, rows : Rows, set : Lists])
      /\ Len(source) \in Nat
      /\ \A i \in DOMAIN calls : calls[i].type = "fetch" => calls[i].n \in 1 .. Len(source)
  BY DEF TypeOK, Frames, Sources
<1> DEFINE call == [type |-> "fetch", n |-> n, rows |-> NoRows, set |-> {}]
<1>7. call.n \in 1 .. N
  OBVIOUS
<1> HIDE DEF call
<1>8. /\ Append(calls, call) \in Seq([type : {"fetch", "batch"}, n : Nat, rows : Rows, set : Lists])
      /\ \A i \in DOMAIN Append(calls, call) :
           Append(calls, call)[i].type = "fetch" => Append(calls, call)[i].n \in 1 .. N
  BY <1>5, <1>6, <1>7, AppendProperties DEF call
<1>9. FetchCalls(n) = IF synchronous THEN calls ELSE Append(calls, call)
  BY DEF FetchCalls, call
<1>10. CASE synchronous
  <2>1. FetchCalls(n) = calls
    BY <1>9, <1>10
  <2>2. \A i \in DOMAIN calls : calls[i].type = "fetch" => calls[i].n \in 1 .. N
    BY <1>6
  <2> QED  BY <1>4, <1>6, <2>1, <2>2
<1>11. CASE ~synchronous
  BY <1>4, <1>8, <1>9, <1>11
<1> QED  BY <1>10, <1>11

LEMMA DatabaseItem ==
  ASSUME TypeOK, Frames, In("database")
  PROVE  /\ NextOf(Top) \in Sources /\ Top.i \in Nat /\ Top.i + 1 \in DOMAIN database
         /\ NextOf(Top) = database[Top.i + 1] /\ Top.set \in Lists
<1>1. stack # <<>> /\ Top.at = "database" /\ HasNext(Top) /\ Top \in Frame
  BY TopFrame DEF In, Running, Top
<1>2. Items(Top.at) = database /\ database \in Seq(Sources)
  BY <1>1 DEF Items, TypeOK
<1> QED  BY <1>1, <1>2, LoopFrames DEF NextOf, Frame

LEMMA CollectionItem ==
  ASSUME TypeOK, Frames, In("collection")
  PROVE  /\ NextOf(Top) \in Sources \X {"columns", "simple"} /\ NextOf(Top)[1] \in Sources
         /\ Top.i \in Nat /\ Top.i + 1 \in DOMAIN collection
         /\ NextOf(Top) = collection[Top.i + 1] /\ Top.set \in Lists
<1>1. stack # <<>> /\ Top.at = "collection" /\ HasNext(Top) /\ Top \in Frame
  BY TopFrame DEF In, Running, Top
<1>2. Items(Top.at) = collection /\ collection \in Seq(Sources \X {"columns", "simple"})
  BY <1>1 DEF Items, TypeOK
<1> QED  BY <1>1, <1>2, LoopFrames DEF NextOf, Frame

LEMMA NewsTyped ==
  ASSUME TypeOK, Frames
  PROVE  News \in Seq(Observer) /\ Len(News) = Len(source)
<1>1. Sources = 1 .. Len(source) /\ Len(source) \in Nat /\ \A n \in Sources : source[n] \in Observer
  BY TopFrame
<1>2. \A n \in Sources : [source[n] EXCEPT !.news = TRUE] \in Observer
  BY <1>1 DEF Observer
<1> QED  BY <1>1, <1>2 DEF News

LEMMA TypesOfLoops ==
  ASSUME IInv, LoopEnds \/ CallReloading \/ CallSimple \/ CallColumns \/ CallSubscriber \/ NotifySubscribers
  PROVE  TypeOK' /\ Frames' /\ Len(source') >= Len(source)
<1> USE DEF Frames
<1>0. /\ source \in Seq(Observer) /\ Len(source) \in Nat /\ Sources = 1 .. Len(source)
      /\ \A n \in Sources : source[n] \in Observer
      /\ stack # <<>> => /\ Top \in Fitting(Len(source)) /\ Top \in Frame
                         /\ Below \in Seq(Lower(Len(source)))
      /\ TypeOK /\ Frames
  BY TopFrame DEF IInv
<1> DEFINE moved == Moved(Top)
<1>1. CASE LoopEnds
  <2>1. /\ stack # <<>> /\ stack' = Below
        /\ UNCHANGED <<simple, synchronous, rows, memory, writes, rejected, calls, unnotified, held,
                       database, collection, shared, source, phase, given, missed, overtaken, Sources>>
    BY <1>0, <1>1 DEF LoopEnds, setting, data, notices, entries, observers, people, Sources
  <2>2. Shaped(stack', Len(source')) /\ stack' \in Seq(Frame)
    BY <1>0, <2>1, Shape, Fits
  <2> QED  BY <1>0, <2>1, <2>2 DEF TypeOK, Rows
<1>2. CASE CallReloading
  <2> DEFINE n == NextOf(Top)
             t == [source[n] EXCEPT !.fetching = TRUE]
  <2>1. /\ stack # <<>> /\ Top.at = "database" /\ HasNext(Top)
        /\ source' = [source EXCEPT ![n].fetching = TRUE] /\ calls' = FetchCalls(n)
        /\ stack' = FetchFrames(n) \o <<moved>> \o Below
        /\ UNCHANGED <<simple, synchronous, rows, memory, writes, rejected, unnotified, held,
                       database, collection, shared, phase, given, missed, overtaken>>
    BY <1>2 DEF CallReloading, In, Running, Top, setting, data, notices, entries, people
  <2>2. n \in Sources /\ n \in 1 .. Len(source) /\ moved \in Lower(Len(source))
    <3>1. Items(Top.at) = database /\ database \in Seq(Sources)
      BY <1>0, <2>1 DEF Items, TypeOK
    <3> QED  BY <1>0, <2>1, <3>1, LoopFrames DEF NextOf
  <2>3. source' \in Seq(Observer) /\ Len(source') = Len(source)
    <3>0. source[n] \in Observer
      BY <1>0, <2>2 DEF TypeOK
    <3>1. t \in Observer
      BY ONLY <3>0, ObserverChanged
    <3> HIDE DEF t
    <3> QED  BY <1>0, <2>1, <2>2, <3>1, Updated DEF t
  <2>4. <<moved>> \o Below \in Seq(Lower(Len(source)))
    BY <1>0, <2>1, <2>2, Pushed
  <2>5. stack' = FetchFrames(n) \o (<<moved>> \o Below)
    BY <1>0, <2>1 DEF FetchFrames
  <2>6. /\ Shaped(stack', Len(source')) /\ stack' \in Seq(Frame)
        /\ calls' \in Seq([type : {"fetch", "batch"}, n : Nat, rows : Rows, set : Lists])
        /\ \A i \in DOMAIN calls' : calls'[i].type = "fetch" => calls'[i].n \in 1 .. Len(source)
    <3> HIDE DEF n, Frames
    <3>1. Len(source) >= Len(source)
      BY <1>0
    <3> QED  BY ONLY <1>0, <2>1, <2>2, <2>3, <2>4, <2>5, <3>1, Fetching
  <2>7. UNCHANGED Sources
    BY <2>3 DEF Sources
  <2>8. Frames'
    BY <1>0, <2>6, <2>7
  <2> HIDE DEF n, t, moved, Frames
  <2> QED  BY <1>0, <2>1, <2>3, <2>6, <2>7, <2>8 DEF TypeOK, Rows
<1>3. CASE CallSimple
  <2> DEFINE n == NextOf(Top)[1]
             list == Processed(source[n].list, Top.set)
             t == [source[n] EXCEPT !.list = list]
             emit == OfSource("emit", n, list)
  <2>1. /\ stack # <<>> /\ Top.at = "collection" /\ HasNext(Top) /\ NextOf(Top)[2] = "simple"
        /\ source' = [source EXCEPT ![n].list = list]
        /\ stack' \in {<<emit>> \o <<moved>> \o Below, <<>> \o <<moved>> \o Below}
        /\ UNCHANGED <<simple, synchronous, rows, memory, writes, rejected, calls, unnotified, held,
                       database, collection, shared, phase, given, missed, overtaken>>
    BY <1>3 DEF CallSimple, In, Running, Top, setting, data, notices, entries, people
  <2>2. moved \in Lower(Len(source)) /\ n \in Sources /\ source[n].list \in Lists
    <3>1. Items(Top.at) = collection /\ collection \in Seq(Sources \X {"columns", "simple"})
      BY <1>0, <2>1 DEF Items, TypeOK
    <3>2. moved \in Lower(Len(source)) /\ Top.i + 1 \in DOMAIN collection /\ NextOf(Top) = collection[Top.i + 1]
      BY <1>0, <2>1, <3>1, LoopFrames DEF NextOf
    <3> QED  BY <2>1, <3>1, <3>2 DEF IInv, Arrays
  <2>3. list \in Lists
    BY <2>2 DEF Processed, Matching, Lists
  <2>4. source' \in Seq(Observer) /\ Len(source') = Len(source)
    <3>1. t \in Observer
      BY <1>0, <2>2, <2>3, SMTT(20) DEF Observer
    <3>2. source' = [source EXCEPT ![n] = t] /\ n \in 1 .. Len(source)
      BY <1>0, <2>1, <2>2
    <3> HIDE DEF t, n
    <3> QED  BY <1>0, <3>1, <3>2, Updated
  <2>5. Shaped(stack', Len(source')) /\ stack' \in Seq(Frame)
    <3>1. emit \in Fitting(Len(source)) /\ <<moved>> \o Below \in Seq(Lower(Len(source)))
      <4> HIDE DEF n, list, moved
      <4> QED  BY <1>0, <2>1, <2>2, <2>3, NewFrames, Pushed
    <3> HIDE DEF emit, moved
    <3>2. stack' \in {<<emit>> \o (<<moved>> \o Below), <<moved>> \o Below}
      BY <1>0, <2>1, <2>2, <3>1
    <3> QED  BY <1>0, <2>4, <3>1, <3>2, Shape, Fits
  <2>6. UNCHANGED Sources
    BY <2>4 DEF Sources
  <2> HIDE DEF n, list, t, emit, moved
  <2> QED  BY <1>0, <2>1, <2>4, <2>5, <2>6 DEF TypeOK, Rows
<1>4. CASE CallColumns
  <2> DEFINE n == NextOf(Top)[1]
             s == source[n]
             changed == {id \in Top.set \cap s.observed : s.states[id] # memory[id].col}
             emits == changed # {} /\ ~LeftToSource(s)
             states == [id \in Records |-> IF id \in changed THEN memory[id].col ELSE s.states[id]]
             early == IF emits THEN Ahead(states, s.observed) ELSE s.early
             t == [s EXCEPT !.pending = @ \/ (changed # {} /\ LeftToSource(s)),
                            !.states = states, !.news = @ /\ ~emits, !.early = early]
             tell == [OfUser("tell", s.owner, s.observed) EXCEPT !.n = n]
  <2>1. /\ stack # <<>> /\ Top.at = "collection" /\ HasNext(Top) /\ NextOf(Top)[2] = "columns"
        /\ source' = [source EXCEPT ![n] = t]
        /\ stack' \in {<<tell>> \o <<moved>> \o Below, <<>> \o <<moved>> \o Below}
        /\ UNCHANGED <<simple, synchronous, rows, memory, writes, rejected, calls, unnotified, held,
                       database, collection, shared, phase, given, missed, overtaken>>
    BY <1>4 DEF CallColumns, In, Running, Top, setting, data, notices, entries, people
  <2>2. moved \in Lower(Len(source)) /\ n \in Sources /\ source[n].owner # Nobody
    <3>1. Items(Top.at) = collection /\ collection \in Seq(Sources \X {"columns", "simple"})
      BY <1>0, <2>1 DEF Items, TypeOK
    <3>2. moved \in Lower(Len(source)) /\ Top.i + 1 \in DOMAIN collection /\ NextOf(Top) = collection[Top.i + 1]
      BY <1>0, <2>1, <3>1, LoopFrames DEF NextOf
    <3>3. collection[Top.i + 1] \in Sources \X {"columns", "simple"}
      BY <3>1, <3>2
    <3>4. collection[Top.i + 1][2] = "columns" => source[collection[Top.i + 1][1]].owner # Nobody
      BY <3>2 DEF IInv, Arrays
    <3> QED  BY <2>1, <3>2, <3>3, <3>4
  <2>3. states \in [Records -> 0 .. 1]
    <3>1. \A id \in Records : memory[id].col \in 0 .. 1 /\ s.states[id] \in 0 .. 1
      BY <1>0, <2>2 DEF TypeOK, Rows, Row, Observer
    <3> HIDE DEF changed, s
    <3> QED  BY <3>1
  <2>4. source' \in Seq(Observer) /\ Len(source') = Len(source)
    <3>1. t \in Observer
      <4> DEFINE pending == s.pending \/ (changed # {} /\ LeftToSource(s))
                 news == s.news /\ ~emits
      <4>1. s \in Observer
        BY <1>0, <2>2
      <4>2. pending \in BOOLEAN /\ news \in BOOLEAN /\ early \in BOOLEAN
        BY <4>1 DEF Ahead, Observer
      <4>3. t = [s EXCEPT !.pending = pending, !.states = states, !.news = news, !.early = early]
        OBVIOUS
      <4> HIDE DEF pending, news, early, states, t, s
      <4> QED  BY <2>3, <4>1, <4>2, <4>3 DEF Observer
    <3>2. n \in 1 .. Len(source)
      BY <1>0, <2>2
    <3> HIDE DEF t, n
    <3> QED  BY <1>0, <2>1, <3>1, <3>2, Updated
  <2>5. Shaped(stack', Len(source')) /\ stack' \in Seq(Frame)
    <3>1. tell \in Fitting(Len(source)) /\ <<moved>> \o Below \in Seq(Lower(Len(source)))
      <4>1. s.owner \in Subscribers /\ s.observed \in Lists /\ n \in Nat
        BY <1>0, <2>2 DEF Observer
      <4> HIDE DEF n, moved, s
      <4> QED  BY <1>0, <2>1, <2>2, <4>1, NewFrames, Pushed
    <3> HIDE DEF tell, moved
    <3>2. stack' \in {<<tell>> \o (<<moved>> \o Below), <<moved>> \o Below}
      BY <1>0, <2>1, <2>2, <3>1
    <3> QED  BY <1>0, <2>4, <3>1, <3>2, Shape, Fits
  <2>6. UNCHANGED Sources
    BY <2>4 DEF Sources
  <2> HIDE DEF n, s, t, tell, moved
  <2> QED  BY <1>0, <2>1, <2>4, <2>5, <2>6 DEF TypeOK, Rows
<1>5. CASE CallSubscriber
  <2> DEFINE tell == OfUser("tell", NextOf(Top), Top.set)
  <2>1. /\ stack # <<>> /\ Top.at = "shared" /\ HasNext(Top)
        /\ stack' = <<tell, moved>> \o Below
        /\ UNCHANGED <<simple, synchronous, rows, memory, writes, rejected, calls, unnotified, held,
                       database, collection, shared, source, phase, given, overtaken, Sources>>
        /\ missed' = missed \/ missed' = missed \cup {NextOf(Top)}
    BY <1>5 DEF CallSubscriber, In, Running, Top, setting, data, notices, entries, observers, Sources
  <2>2. moved \in Lower(Len(source)) /\ tell \in Fitting(Len(source)) /\ NextOf(Top) \in Subscribers
    <3>1. Items(Top.at) = shared.subscribers /\ shared.subscribers \in Seq(Subscribers)
      BY <1>0, <2>1 DEF Items, TypeOK
    <3>2. NextOf(Top) \in Subscribers /\ Top.set \in Lists /\ moved \in Lower(Len(source))
      BY <1>0, <2>1, <3>1, LoopFrames DEF NextOf, Frame
    <3> QED  BY <1>0, <3>2, NewFrames
  <2>3. Shaped(stack', Len(source')) /\ stack' \in Seq(Frame)
    <3> HIDE DEF tell, moved
    <3> QED  BY <1>0, <2>1, <2>2, ShapeOfTwo, Fits
  <2>4. missed' \subseteq Subscribers
    BY <1>0, <2>1, <2>2 DEF TypeOK
  <2> HIDE DEF tell
  <2> QED  BY <1>0, <2>1, <2>3, <2>4 DEF TypeOK, Rows
<1>6. CASE NotifySubscribers
  <2> DEFINE one == OfSource("database", 0, Top.set)
             two == OfSource("collection", 0, Top.set)
  <2>1. /\ stack # <<>> /\ source' = News
        /\ stack' = <<one, two>> \o Below
        /\ UNCHANGED <<simple, synchronous, rows, memory, writes, rejected, calls, unnotified, held,
                       database, collection, shared, phase, given, missed, overtaken>>
    BY <1>6 DEF NotifySubscribers, Running, setting, data, notices, entries, people
  <2>2. source' \in Seq(Observer) /\ Len(source') = Len(source)
    BY <1>0, <2>1, NewsTyped
  <2>3. one \in Lower(Len(source)) /\ two \in Lower(Len(source))
    BY <1>0, <2>1, NewFrames DEF Frame
  <2>4. Shaped(stack', Len(source')) /\ stack' \in Seq(Frame)
    <3> HIDE DEF one, two
    <3> QED  BY <1>0, <2>1, <2>2, <2>3, ShapeOfTwo, Fits
  <2>5. UNCHANGED Sources
    BY <2>2 DEF Sources
  <2> QED  BY <1>0, <2>1, <2>2, <2>4, <2>5 DEF TypeOK, Rows
<1> QED  BY <1>1, <1>2, <1>3, <1>4, <1>5, <1>6

(* Making and ending an observer.                                          *)
LEMMA SourceMade ==
  ASSUME TypeOK, Frames, NEW owner \in Subscribers \cup {Nobody},
         NEW frames \in Seq(Lower(Len(source))), MakeSource(owner, frames)
  PROVE  /\ source' \in Seq(Observer) /\ Len(source') = Len(source) + 1
         /\ Sources' = 1 .. Len(source) + 1
         /\ \A m \in Sources : source'[m] = source[m]
         /\ source'[Len(source) + 1] = Made(owner)
         /\ database' \in Seq(Sources') /\ collection' \in Seq(Sources' \X {"columns", "simple"})
         /\ calls' \in Seq([type : {"fetch", "batch"}, n : Nat, rows : Rows, set : Lists])
         /\ \A i \in DOMAIN calls' : calls'[i].type = "fetch" => calls'[i].n \in Sources'
         /\ Shaped(stack', Len(source')) /\ stack' \in Seq(Frame)
<1> DEFINE N == Len(source) + 1
           made == Made(owner)
<1>0. /\ source \in Seq(Observer) /\ Len(source) \in Nat /\ Sources = 1 .. Len(source)
      /\ source' = Append(source, made)
      /\ database' \in {database, Append(database, N)}
      /\ collection' \in {collection, Append(collection, <<N, "columns">>)}
      /\ calls' = FetchCalls(N) /\ stack' = FetchFrames(N) \o frames
  BY TopFrame DEF MakeSource
<1>1. made \in Observer
  BY DEF Made, Observer, Lists
<1> HIDE DEF made
<1>2. /\ source' \in Seq(Observer) /\ Len(source') = N /\ Sources' = 1 .. N
      /\ \A m \in Sources : source'[m] = source[m]
      /\ source'[N] = made
  BY <1>0, <1>1, AppendProperties DEF Sources
<1>3. database \in Seq(1 .. N) /\ collection \in Seq((1 .. N) \X {"columns", "simple"})
  <2>1. Sources \subseteq 1 .. N /\ Sources \X {"columns", "simple"} \subseteq (1 .. N) \X {"columns", "simple"}
    BY <1>0
  <2>2. database \in Seq(Sources) /\ collection \in Seq(Sources \X {"columns", "simple"})
    BY DEF TypeOK
  <2> QED  BY <2>1, <2>2, SeqMonotonic
<1>4. database' \in Seq(1 .. N) /\ collection' \in Seq((1 .. N) \X {"columns", "simple"})
  <2>1. N \in 1 .. N /\ <<N, "columns">> \in (1 .. N) \X {"columns", "simple"}
    BY <1>0
  <2> HIDE DEF N
  <2>2. Append(database, N) \in Seq(1 .. N)
    BY <1>3, <2>1, AppendProperties
  <2>3. Append(collection, <<N, "columns">>) \in Seq((1 .. N) \X {"columns", "simple"})
    BY <1>3, <2>1, AppendProperties
  <2> QED  BY <1>0, <1>3, <2>2, <2>3
<1>5. frames \in Seq(Lower(N)) /\ N \in Nat /\ N >= Len(source) /\ N \in 1 .. N
  BY <1>0, FitsMore
<1> HIDE DEF N
<1>6. /\ calls' \in Seq([type : {"fetch", "batch"}, n : Nat, rows : Rows, set : Lists])
      /\ \A i \in DOMAIN calls' : calls'[i].type = "fetch" => calls'[i].n \in 1 .. N
      /\ Shaped(stack', N) /\ stack' \in Seq(Frame)
  BY <1>0, <1>5, Fetching
<1> QED  BY <1>2, <1>4, <1>6 DEF N, made

LEMMA SourceEnded ==
  ASSUME TypeOK, Frames, NEW n, EndSource(n)
  PROVE  /\ source' \in Seq(Observer) /\ Len(source') = Len(source) /\ Sources' = Sources
         /\ \A m \in Sources : /\ source'[m].owner = source[m].owner
                               /\ source'[m].live <=> source[m].live /\ m # n
                               /\ m # n => source'[m].list = source[m].list
         /\ database' = Without(database, n)
         /\ collection' = Without(Without(collection, <<n, "simple">>), <<n, "columns">>)
         /\ database' \in Seq(Sources') /\ collection' \in Seq(Sources' \X {"columns", "simple"})
<1> DEFINE new(m) == [(IF m = n THEN Ended(m) ELSE source[m]) EXCEPT
                           !.stale = @ \/ m \in Skipped("database", {n}),
                           !.lost = @ \/ m \in {item[1] :
                               item \in Skipped("collection", {<<n, "columns">>, <<n, "simple">>})}]
<1>0. /\ source \in Seq(Observer) /\ Len(source) \in Nat /\ Sources = 1 .. Len(source)
      /\ source' = [m \in Sources |-> new(m)]
      /\ database' = Without(database, n)
      /\ collection' = Without(Without(collection, <<n, "simple">>), <<n, "columns">>)
  BY TopFrame DEF EndSource
<1>1. ASSUME NEW m \in Sources
      PROVE  /\ new(m) \in Observer /\ new(m).owner = source[m].owner
             /\ new(m).live <=> source[m].live /\ m # n
             /\ m # n => new(m).list = source[m].list
  <2> DEFINE s == IF m = n THEN Ended(m) ELSE source[m]
             stale == s.stale \/ m \in Skipped("database", {n})
             lost == s.lost \/ m \in {item[1] :
                       item \in Skipped("collection", {<<n, "columns">>, <<n, "simple">>})}
  <2>1. /\ s \in Observer /\ s.owner = source[m].owner
        /\ s.live <=> source[m].live /\ m # n
        /\ m # n => s.list = source[m].list
    <3>1. source[m] \in Observer
      BY TopFrame
    <3>2. /\ Ended(m) \in Observer /\ Ended(m).owner = source[m].owner /\ Ended(m).live = FALSE
      <4> DEFINE o == source[m].owner
      <4>1. o \in Subscribers \cup {Nobody}
        BY <3>1 DEF Observer
      <4> HIDE DEF o
      <4>2. [Made(o) EXCEPT !.live = FALSE] \in Observer
        <5>1. Made(o) \in Observer
          BY <4>1 DEF Made, Observer, Lists
        <5> QED  BY <5>1 DEF Observer
      <4>3. /\ [Made(o) EXCEPT !.live = FALSE].owner = o
            /\ [Made(o) EXCEPT !.live = FALSE].live = FALSE
        BY DEF Made
      <4> QED  BY <4>2, <4>3 DEF o, Ended
    <3>3. source[m].live \in BOOLEAN
      BY <3>1 DEF Observer
    <3> HIDE DEF Observer
    <3> QED  BY <3>1, <3>2, <3>3
  <2>2. stale \in BOOLEAN /\ lost \in BOOLEAN
    OBVIOUS
  <2>3. new(m) = [s EXCEPT !.stale = stale, !.lost = lost]
    OBVIOUS
  <2> HIDE DEF s, stale, lost, new
  <2> QED  BY <2>1, <2>2, <2>3 DEF Observer
<1> HIDE DEF new
<1>2. source' \in Seq(Observer) /\ Len(source') = Len(source) /\ Sources' = Sources
  BY <1>0, <1>1 DEF Sources
<1>3. database' \in Seq(Sources) /\ collection' \in Seq(Sources \X {"columns", "simple"})
  BY <1>0, Removed DEF TypeOK
<1> QED  BY <1>0, <1>1, <1>2, <1>3

(* The application calls when nothing else runs, or while it is called.    *)
LEMMA FreeStack ==
  ASSUME TypeOK, Frames, Free
  PROVE  stack \in Seq(Lower(Len(source)))
<1>1. CASE stack = <<>>
  BY <1>1
<1>2. CASE stack # <<>>
  <2>1. stack = <<Top>> \o Below
    BY <1>2 DEF TypeOK, Top, Below
  <2>2. Top \in Lower(Len(source)) /\ Below \in Seq(Lower(Len(source)))
    BY <1>2, TopFrame DEF Free, Running, Lower, Top
  <2> QED  BY <2>1, <2>2, Pushed
<1> QED  BY <1>1, <1>2

LEMMA JoiningFrame ==
  ASSUME TypeOK, Frames, Free, NEW u \in Subscribers
  PROVE  <<OfUser("subscribed", u, {})>> \o stack \in Seq(Lower(Len(source)))
<1>1. {} \in Lists /\ Len(source) \in Nat
  BY TopFrame DEF Lists
<1>2. OfUser("subscribed", u, {}) \in Lower(Len(source))
  BY <1>1, NewFrames
<1> QED  BY <1>2, FreeStack, Pushed

LEMMA TypesOfSubscribing ==
  ASSUME IInv, \/ SubscribeSource \/ SourceIsThere \/ Subscribed
               \/ \E u \in Subscribers : Subscribe(u) \/ SubscribeWithColumns(u)
  PROVE  TypeOK' /\ Frames' /\ Len(source') >= Len(source)
<1> DEFINE N == Len(source)
<1>0. /\ source \in Seq(Observer) /\ N \in Nat /\ Sources = 1 .. N
      /\ stack # <<>> => Top \in Fitting(N) /\ Top \in Frame /\ Below \in Seq(Lower(N))
      /\ TypeOK /\ Frames /\ stack \in Seq(Frame)
  BY TopFrame DEF IInv, TypeOK
<1>s. shared \in [subscribers : Seq(Subscribers), source : Nat, didEmit : BOOLEAN, last : Lists]
  BY <1>0 DEF TypeOK
<1>a. {} \in Lists
  BY DEF Lists
<1>b. Free => stack \in Seq(Lower(N))
  BY <1>0, FreeStack
<1>1. CASE SubscribeSource
  <2>1. /\ stack # <<>> /\ MakeSource(Nobody, Below)
        /\ shared' = [shared EXCEPT !.source = N + 1]
        /\ overtaken' = (overtaken \/ (shared.source # 0 /\ Len(shared.subscribers) = 1))
        /\ UNCHANGED <<simple, synchronous, rows, memory, writes, rejected, unnotified, held, phase,
                       given, missed>>
    BY <1>1 DEF SubscribeSource, Running, setting, data, notices, people
  <2>2. shared' \in [subscribers : Seq(Subscribers), source : Nat, didEmit : BOOLEAN, last : Lists]
    <3>1. N + 1 \in Nat
      BY <1>0
    <3> HIDE DEF N
    <3> QED  BY <1>s, <2>1, <3>1
  <2>3. /\ source' \in Seq(Observer) /\ Len(source') = N + 1
        /\ database' \in Seq(Sources') /\ collection' \in Seq(Sources' \X {"columns", "simple"})
        /\ calls' \in Seq([type : {"fetch", "batch"}, n : Nat, rows : Rows, set : Lists])
        /\ stack' \in Seq(Frame) /\ Frames'
    BY <1>0, <2>1, SourceMade DEF Frames
  <2>4. overtaken' \in BOOLEAN
    BY <1>0, <2>1 DEF TypeOK
  <2> QED  BY <1>0, <2>1, <2>2, <2>3, <2>4, SMTT(20) DEF TypeOK, Rows
<1>2. CASE SourceIsThere
  <2>1. /\ stack # <<>> /\ stack' = Below
        /\ UNCHANGED <<simple, synchronous, rows, memory, writes, rejected, calls, unnotified, held,
                       database, collection, shared, source, phase, given, missed, overtaken, Sources>>
    BY <1>2 DEF SourceIsThere, Running, setting, data, notices, entries, observers, people, Sources
  <2>2. Shaped(stack', Len(source')) /\ stack' \in Seq(Frame)
    BY <1>0, <2>1, Shape, Fits
  <2> QED  BY <1>0, <2>1, <2>2 DEF TypeOK, Rows, Frames
<1>3. CASE Subscribed
  <2>1. /\ stack # <<>> /\ stack' = Below /\ phase' = [phase EXCEPT ![Top.u] = "joined"]
        /\ UNCHANGED <<simple, synchronous, rows, memory, writes, rejected, calls, unnotified, held,
                       database, collection, shared, source, given, missed, overtaken, Sources>>
    BY <1>3 DEF Subscribed, Running, setting, data, notices, entries, observers, Sources
  <2>2. Shaped(stack', Len(source')) /\ stack' \in Seq(Frame)
    BY <1>0, <2>1, Shape, Fits
  <2>3. phase' \in [Subscribers -> {"new", "joining", "joined", "left"}]
    BY <1>0, <2>1 DEF TypeOK
  <2> QED  BY <1>0, <2>1, <2>2, <2>3 DEF TypeOK, Rows, Frames
<1>4. ASSUME NEW u \in Subscribers, Subscribe(u)
      PROVE  TypeOK' /\ Frames' /\ Len(source') >= Len(source)
  <2> DEFINE tell == OfUser("tell", u, shared.last)
             needs == OfUser("source", u, {})
             joins == OfUser("subscribed", u, {})
  <2>1. /\ Free /\ phase' = [phase EXCEPT ![u] = "joining"]
        /\ shared' = [shared EXCEPT !.subscribers = Append(@, u)]
        /\ stack' \in {<<tell>> \o <<needs, joins>> \o stack, <<>> \o <<needs, joins>> \o stack}
        /\ UNCHANGED <<simple, synchronous, rows, memory, writes, rejected, calls, unnotified, held,
                       database, collection, source, given, missed, overtaken, Sources>>
    BY <1>4 DEF Subscribe, setting, data, notices, entries, Sources
  <2>2. shared' \in [subscribers : Seq(Subscribers), source : Nat, didEmit : BOOLEAN, last : Lists]
    <3>1. Append(shared.subscribers, u) \in Seq(Subscribers)
      BY <1>s
    <3> QED  BY <1>s, <2>1, <3>1
  <2>3. tell \in Fitting(N) /\ needs \in Lower(N) /\ joins \in Lower(N)
    BY <1>0, <1>a, NewFrames DEF TypeOK
  <2> HIDE DEF N, tell, needs, joins
  <2>4. Shaped(stack', N) /\ stack' \in Seq(Frame)
    <3>1. <<joins>> \o stack \in Seq(Lower(N)) /\ <<needs, joins>> \o stack \in Seq(Lower(N))
      BY <1>0, <1>b, <2>1, <2>3, Pushed
    <3>2. stack' \in {<<tell>> \o (<<needs, joins>> \o stack), <<needs, joins>> \o stack}
      BY <1>0, <2>1, <3>1, <2>3, SMTT(20)
    <3> QED  BY <1>0, <2>3, <3>1, <3>2, Shape, Fits
  <2>5. phase' \in [Subscribers -> {"new", "joining", "joined", "left"}]
    BY <1>0, <2>1 DEF TypeOK
  <2>6. Frames' /\ Len(source') >= Len(source)
    BY <1>0, <2>1, <2>4 DEF Frames, N
  <2> QED  BY <1>0, <2>1, <2>2, <2>4, <2>5, <2>6 DEF TypeOK, Rows
<1>5. ASSUME NEW u \in Subscribers, SubscribeWithColumns(u)
      PROVE  TypeOK' /\ Frames' /\ Len(source') >= Len(source)
  <2>1. /\ Free /\ phase' = [phase EXCEPT ![u] = "joining"]
        /\ MakeSource(u, <<OfUser("subscribed", u, {})>> \o stack)
        /\ UNCHANGED <<simple, synchronous, rows, memory, writes, rejected, unnotified, held, shared,
                       given, missed, overtaken>>
    BY <1>5 DEF SubscribeWithColumns, setting, data, notices
  <2>2. <<OfUser("subscribed", u, {})>> \o stack \in Seq(Lower(N))
    BY <1>0, <2>1, JoiningFrame
  <2>3. /\ source' \in Seq(Observer) /\ Len(source') = N + 1
        /\ database' \in Seq(Sources') /\ collection' \in Seq(Sources' \X {"columns", "simple"})
        /\ calls' \in Seq([type : {"fetch", "batch"}, n : Nat, rows : Rows, set : Lists])
        /\ stack' \in Seq(Frame) /\ Frames'
    BY <1>0, <2>1, <2>2, SourceMade DEF Frames
  <2>4. phase' \in [Subscribers -> {"new", "joining", "joined", "left"}]
    BY <1>0, <2>1 DEF TypeOK
  <2>5. Len(source') >= Len(source) /\ TypeOK
    BY <1>0, <2>3
  <2> QED  BY <2>1, <2>3, <2>4, <2>5 DEF TypeOK, Rows
<1> QED  BY <1>1, <1>2, <1>3, <1>4, <1>5

LEMMA TypesOfLeaving ==
  ASSUME IInv, NEW u \in Subscribers, Unsubscribe(u) \/ UnsubscribeColumns(u) \/ UnsubscribeLast(u)
  PROVE  TypeOK' /\ Frames' /\ Len(source') >= Len(source)
<1>0. /\ TypeOK /\ Frames /\ stack \in Seq(Frame) /\ Len(source) \in Nat
      /\ shared \in [subscribers : Seq(Subscribers), source : Nat, didEmit : BOOLEAN, last : Lists]
  BY TopFrame DEF IInv, TypeOK
<1>1. ASSUME MayLeave(u)
      PROVE  /\ phase' \in [Subscribers -> {"new", "joining", "joined", "left"}]
             /\ given' \in [Subscribers -> [list : {NoList} \cup Lists, cols : [Records -> 0 .. 1]]]
  <2>1. Unseen \in [list : {NoList} \cup Lists, cols : [Records -> 0 .. 1]]
    BY DEF Unseen
  <2> HIDE DEF Unseen
  <2> QED  BY <1>0, <1>1, <2>1 DEF TypeOK, MayLeave
<1>2. CASE Unsubscribe(u)
  <2>1. /\ MayLeave(u) /\ missed' = missed \cup Skipped("shared", {u})
        /\ shared' = [shared EXCEPT !.subscribers = Without(shared.subscribers, u)]
        /\ UNCHANGED <<simple, synchronous, rows, memory, writes, rejected, calls, unnotified, held,
                       database, collection, stack, source, overtaken, Sources>>
    BY <1>2 DEF Unsubscribe, setting, data, notices, entries, Sources
  <2>2. Without(shared.subscribers, u) \in Seq(Subscribers)
    BY <1>0, Removed
  <2>3. shared' \in [subscribers : Seq(Subscribers), source : Nat, didEmit : BOOLEAN, last : Lists]
    BY <1>0, <2>1, <2>2
  <2>4. missed' \subseteq Subscribers
    <3>1. Skipped("shared", {u}) \subseteq {shared.subscribers[p] : p \in DOMAIN shared.subscribers}
      BY DEF Skipped, Items
    <3>2. {shared.subscribers[p] : p \in DOMAIN shared.subscribers} \subseteq Subscribers
      BY <1>0
    <3> QED  BY <1>0, <2>1, <3>1, <3>2 DEF TypeOK
  <2>5. Frames' /\ Len(source') >= Len(source)
    BY <1>0, <2>1 DEF Frames
  <2> QED  BY <1>0, <1>1, <2>1, <2>3, <2>4, <2>5 DEF TypeOK, Rows
<1>3. CASE UnsubscribeColumns(u)
  <2>1. /\ MayLeave(u) /\ \E n \in Sources : EndSource(n)
        /\ UNCHANGED <<simple, synchronous, rows, memory, writes, rejected, calls, unnotified, held,
                       shared, stack, missed, overtaken>>
    BY <1>3 DEF UnsubscribeColumns, setting, data, notices
  <2>2. /\ source' \in Seq(Observer) /\ Len(source') = Len(source) /\ Sources' = Sources
        /\ database' \in Seq(Sources') /\ collection' \in Seq(Sources' \X {"columns", "simple"})
    BY <1>0, <2>1, SourceEnded
  <2> QED  BY <1>0, <1>1, <2>1, <2>2 DEF TypeOK, Rows, Frames
<1>4. CASE UnsubscribeLast(u)
  <2>1. /\ MayLeave(u) /\ EndSource(shared.source)
        /\ shared' = [shared EXCEPT !.subscribers = <<>>, !.source = 0, !.didEmit = FALSE]
        /\ UNCHANGED <<simple, synchronous, rows, memory, writes, rejected, calls, unnotified, held,
                       stack, missed, overtaken>>
    BY <1>4 DEF UnsubscribeLast, setting, data, notices
  <2>2. /\ source' \in Seq(Observer) /\ Len(source') = Len(source) /\ Sources' = Sources
        /\ database' \in Seq(Sources') /\ collection' \in Seq(Sources' \X {"columns", "simple"})
    BY <1>0, <2>1, SourceEnded
  <2>3. shared' \in [subscribers : Seq(Subscribers), source : Nat, didEmit : BOOLEAN, last : Lists]
    <3>1. <<>> \in Seq(Subscribers)
      OBVIOUS
    <3> QED  BY <1>0, <2>1, <3>1
  <2> QED  BY <1>0, <1>1, <2>1, <2>2, <2>3 DEF TypeOK, Rows, Frames
<1> QED  BY <1>2, <1>3, <1>4

(* What a batch writes, and what its answer does.                          *)
LEMMA WriteStep ==
  ASSUME Write
  PROVE  /\ stack = <<>> /\ writes < MaxWrites /\ writes' = writes + 1
         /\ UNCHANGED <<simple, synchronous, held, stack, database, collection, shared, source,
                        phase, given, missed, overtaken, Sources>>
         /\ \E set \in Lists, new \in Rows :
              /\ \A id \in Records \ set : new[id] = memory[id]
              /\ memory' = new
              /\ \/ /\ synchronous /\ Commits(set, new)
                    /\ unnotified' = Append(unnotified, set) /\ UNCHANGED calls
                 \/ synchronous /\ Rejects(set) /\ UNCHANGED <<calls, unnotified>>
                 \/ /\ ~synchronous
                    /\ calls' = Append(calls, [type |-> "batch", n |-> 0, rows |-> new, set |-> set])
                    /\ UNCHANGED <<rows, rejected, unnotified>>
  BY DEF Write, setting, entries, observers, people, Sources

LEMMA BatchStep ==
  ASSUME BatchIsAnswered \/ BatchIsRejected
  PROVE  /\ stack = <<>> /\ unnotified = <<>> /\ calls # <<>> /\ Head(calls).type = "batch"
         /\ calls' = Tail(calls)
         /\ UNCHANGED <<simple, synchronous, memory, writes, held, stack, database, collection,
                        shared, phase, given, missed, overtaken>>
         /\ \/ /\ Commits(Head(calls).set, Head(calls).rows)
               /\ unnotified' = <<Head(calls).set>> /\ source' = News
            \/ Rejects(Head(calls).set) /\ UNCHANGED <<unnotified, source>>
  BY DEF BatchIsAnswered, BatchIsRejected, BatchAnswer, setting, entries, people

LEMMA CommitTyped ==
  ASSUME TypeOK, NEW set \in Lists, NEW new \in Rows, Commits(set, new) \/ Rejects(set)
  PROVE  rows' \in Rows /\ rejected' \in Lists
<1>1. /\ rows \in [Records -> Row] /\ new \in [Records -> Row]
      /\ rejected \in SUBSET Records /\ set \in SUBSET Records
  BY DEF TypeOK, Rows, Lists
<1>2. Written(set, new) \in [Records -> Row]
  <2> HIDE DEF Row
  <2> QED  BY <1>1 DEF Written
<1>3. rejected \ set \in SUBSET Records /\ rejected \cup set \in SUBSET Records
  BY <1>1
<1> QED  BY <1>1, <1>2, <1>3 DEF Commits, Rejects, Rows, Lists

LEMMA TypesOfTurns ==
  ASSUME IInv, \/ Write \/ FetchIsAnswered \/ BatchIsAnswered \/ BatchIsRejected
               \/ Notify \/ StopHolding
  PROVE  TypeOK' /\ Frames' /\ Len(source') >= Len(source)
<1> DEFINE N == Len(source)
           Calls == [type : {"fetch", "batch"}, n : Nat, rows : Rows, set : Lists]
<1>0. /\ source \in Seq(Observer) /\ N \in Nat /\ Sources = 1 .. N
      /\ TypeOK /\ Frames /\ stack \in Seq(Frame) /\ calls \in Seq(Calls)
      /\ unnotified \in Seq(Lists) /\ held \in Seq(Lists) /\ writes \in Nat /\ MaxWrites \in Nat
      /\ rows \in Rows /\ rejected \in Lists
      /\ \A i \in DOMAIN calls : calls[i].type = "fetch" => calls[i].n \in Sources
  BY TopFrame, SubscriptionsAssumption DEF IInv, TypeOK, Frames
<1>1. CASE Write
  <2>1. PICK set \in Lists, new \in Rows :
          /\ memory' = new
          /\ \/ /\ Commits(set, new)
                /\ unnotified' = Append(unnotified, set) /\ UNCHANGED calls
             \/ Rejects(set) /\ UNCHANGED <<calls, unnotified>>
             \/ /\ calls' = Append(calls, [type |-> "batch", n |-> 0, rows |-> new, set |-> set])
                /\ UNCHANGED <<rows, rejected, unnotified>>
    BY <1>1, WriteStep
  <2> DEFINE call == [type |-> "batch", n |-> 0, rows |-> new, set |-> set]
  <2>2. call \in Calls /\ call.type # "fetch"
    OBVIOUS
  <2>3. /\ writes' = writes + 1 /\ writes < MaxWrites
        /\ UNCHANGED <<simple, synchronous, held, stack, database, collection, shared, source,
                       phase, given, missed, overtaken, Sources>>
    BY <1>1, WriteStep
  <2> HIDE DEF call, Calls
  <2>4. Append(unnotified, set) \in Seq(Lists)
    BY <1>0, AppendProperties
  <2>5. /\ Append(calls, call) \in Seq(Calls)
        /\ \A i \in DOMAIN Append(calls, call) :
             Append(calls, call)[i].type = "fetch" => Append(calls, call)[i].n \in Sources
    BY <1>0, <2>2, AppendProperties
  <2>6. /\ memory' \in Rows /\ rows' \in Rows /\ rejected' \in Lists
        /\ unnotified' \in Seq(Lists) /\ writes' \in 0 .. MaxWrites
    <3>1. memory' \in Rows /\ rows' \in Rows /\ rejected' \in Lists
      BY <1>0, <2>1, CommitTyped
    <3>2. unnotified' \in Seq(Lists)
      BY <1>0, <2>1, <2>4
    <3>3. writes' \in 0 .. MaxWrites
      BY <1>0, <2>3
    <3> QED  BY <3>1, <3>2, <3>3
  <2>7. /\ calls' \in Seq(Calls)
        /\ \A i \in DOMAIN calls' : calls'[i].type = "fetch" => calls'[i].n \in Sources
    BY <1>0, <2>1, <2>5 DEF call
  <2> QED  BY <1>0, <2>3, <2>6, <2>7 DEF TypeOK, Rows, Frames, Calls
<1>2. ASSUME calls # <<>>
      PROVE  /\ Head(calls) \in Calls /\ Tail(calls) \in Seq(Calls)
             /\ \A i \in DOMAIN Tail(calls) : Tail(calls)[i].type = "fetch" => Tail(calls)[i].n \in Sources
             /\ Head(calls).type = "fetch" => Head(calls).n \in Sources
  <2> HIDE DEF Calls
  <2> QED  BY <1>0, <1>2, HeadTailProperties
<1>3. CASE FetchIsAnswered
  <2>1. /\ calls # <<>> /\ Head(calls).type = "fetch" /\ calls' = Tail(calls)
        /\ stack' = <<OfSource("answer", Head(calls).n, {})>>
        /\ UNCHANGED <<simple, synchronous, rows, memory, writes, rejected, unnotified, held,
                       database, collection, shared, source, phase, given, missed, overtaken, Sources>>
    BY <1>3 DEF FetchIsAnswered, setting, data, notices, entries, observers, people, Sources
  <2>2. Shaped(stack', N) /\ stack' \in Seq(Frame)
    <3>1. {} \in Lists
      BY DEF Lists
    <3>2. OfSource("answer", Head(calls).n, {}) \in Fitting(N)
      BY <1>0, <1>2, <2>1, <3>1, NewFrames
    <3>3. stack' = <<OfSource("answer", Head(calls).n, {})>> \o <<>> /\ <<>> \in Seq(Lower(N))
      BY <2>1
    <3> QED  BY <1>0, <3>2, <3>3, Shape, Fits
  <2> QED  BY <1>0, <1>2, <2>1, <2>2 DEF TypeOK, Rows, Frames
<1>4. CASE BatchIsAnswered \/ BatchIsRejected
  <2>1. /\ calls # <<>> /\ calls' = Tail(calls)
        /\ \/ /\ Commits(Head(calls).set, Head(calls).rows)
              /\ unnotified' = <<Head(calls).set>> /\ source' = News
           \/ Rejects(Head(calls).set) /\ UNCHANGED <<unnotified, source>>
        /\ UNCHANGED <<simple, synchronous, memory, writes, held, stack, database, collection,
                       shared, phase, given, missed, overtaken>>
    BY <1>4, BatchStep
  <2>2. source' \in Seq(Observer) /\ Len(source') = Len(source) /\ Sources' = Sources
    BY <1>0, <2>1, NewsTyped DEF Sources
  <2>3. Head(calls).set \in Lists /\ Head(calls).rows \in Rows
    BY <1>2, <2>1
  <2>4. unnotified' \in Seq(Lists)
    <3>1. Append(<<>>, Head(calls).set) \in Seq(Lists)
      BY <2>3, AppendProperties
    <3>2. Append(<<>>, Head(calls).set) = <<Head(calls).set>>
      OBVIOUS
    <3> QED  BY <1>0, <2>1, <3>1, <3>2
  <2>5. rows' \in Rows /\ rejected' \in Lists
    BY <1>0, <2>1, <2>3, CommitTyped
  <2> QED  BY <1>0, <1>2, <2>1, <2>2, <2>4, <2>5, SMTT(20) DEF TypeOK, Rows, Frames
<1>5. CASE Notify
  <2>1. /\ unnotified # <<>> /\ unnotified' = Tail(unnotified) /\ stack = <<>>
        /\ \/ stack' = <<OfSource("notify", 0, Head(unnotified))>> /\ UNCHANGED held
           \/ held' = Append(held, Head(unnotified)) /\ UNCHANGED stack
        /\ UNCHANGED <<simple, synchronous, rows, memory, writes, rejected, calls, database, collection,
                       shared, source, phase, given, missed, overtaken, Sources>>
    BY <1>5 DEF Notify, setting, data, entries, observers, people, Sources
  <2>2. Head(unnotified) \in Lists /\ unnotified' \in Seq(Lists)
    BY <1>0, <2>1, HeadTailProperties
  <2>3. held' \in Seq(Lists)
    <3>1. Append(held, Head(unnotified)) \in Seq(Lists)
      BY <1>0, <2>2, AppendProperties
    <3> QED  BY <1>0, <2>1, <3>1
  <2>4. Shaped(stack', N) /\ stack' \in Seq(Frame)
    <3> DEFINE f == OfSource("notify", 0, Head(unnotified))
    <3>1. f \in Fitting(N)
      BY <1>0, <2>2, NewFrames, Fits
    <3> HIDE DEF f
    <3>2. <<f>> = <<f>> \o <<>> /\ <<>> \in Seq(Lower(N))
      BY <3>1
    <3> QED  BY <1>0, <2>1, <3>1, <3>2, Shape, Fits DEF f
  <2> QED  BY <1>0, <2>1, <2>2, <2>3, <2>4 DEF TypeOK, Rows, Frames
<1>6. CASE StopHolding
  <2>1. /\ held' = <<>>
        /\ stack' = [k \in DOMAIN held |-> OfSource("notify", 0, held[k])]
        /\ UNCHANGED <<simple, synchronous, rows, memory, writes, rejected, calls, unnotified,
                       database, collection, shared, source, phase, given, missed, overtaken, Sources>>
    BY <1>6 DEF StopHolding, Replayed, setting, data, entries, observers, people, Sources
  <2>2. stack' \in Seq(Lower(N))
    <3> DEFINE f(k) == OfSource("notify", 0, held[k])
    <3>1. Len(held) \in Nat /\ DOMAIN held = 1 .. Len(held) /\ \A k \in 1 .. Len(held) : held[k] \in Lists
      BY <1>0
    <3>2. \A k \in 1 .. Len(held) : f(k) \in Lower(N)
      BY <1>0, <3>1, NewFrames
    <3>3. stack' = [k \in 1 .. Len(held) |-> f(k)]
      BY <2>1, <3>1
    <3> HIDE DEF f, N
    <3> QED  BY <3>1, <3>2, <3>3, IsASeq
  <2>3. Shaped(stack', N) /\ stack' \in Seq(Frame)
    BY <1>0, <2>2, Shape, Fits
  <2> QED  BY <1>0, <2>1, <2>3 DEF TypeOK, Rows, Frames
<1> QED  BY <1>1, <1>3, <1>4, <1>5, <1>6

LEMMA TypesKept ==
  ASSUME IInv, Next
  PROVE  TypeOK' /\ Frames' /\ Len(source') >= Len(source)
  BY TypesOfEmissions, TypesOfAnswers, TypesOfLoops, TypesOfSubscribing, TypesOfLeaving, TypesOfTurns
     DEF Next

-----------------------------------------------------------------------------
(* Who is subscribed.                                                      *)

Ordinary ==
  \/ Answer \/ AnswerIsError \/ Observe
  \/ EmitWithColumns \/ EmitShared \/ EmitThrows \/ Tell \/ Return
  \/ LoopEnds \/ CallReloading \/ CallSimple \/ CallColumns \/ CallSubscriber
  \/ SourceIsThere \/ Write \/ FetchIsAnswered \/ BatchIsAnswered \/ BatchIsRejected
  \/ Notify \/ NotifySubscribers \/ StopHolding

(* Most steps make and end no observer, and no list that was fetched is    *)
(* forgotten.                                                              *)
SameObservers ==
  /\ Len(source') = Len(source) /\ Sources' = Sources
  /\ \A n \in Sources :
       /\ source'[n].owner = source[n].owner /\ source'[n].live = source[n].live
       /\ source[n].list \in Lists => source'[n].list \in Lists

LEMMA OrdinarySteps ==
  ASSUME IInv, Ordinary
  PROVE  /\ SameObservers
         /\ UNCHANGED <<simple, synchronous, database, phase, overtaken>>
         /\ shared'.subscribers = shared.subscribers /\ shared'.source = shared.source
<1>0. /\ TypeOK /\ Sources = 1 .. Len(source) /\ Len(source) \in Nat /\ source \in Seq(Observer)
      /\ stack # <<>> => Top \in Fitting(Len(source))
  BY TopFrame DEF IInv
<1>1. ASSUME UNCHANGED source
      PROVE  SameObservers
  BY <1>1 DEF SameObservers, Sources
<1>2. ASSUME NEW n \in Sources, NEW t, source' = [source EXCEPT ![n] = t],
             t.owner = source[n].owner, t.live = source[n].live, source[n].list \in Lists => t.list \in Lists
      PROVE  SameObservers
  BY <1>0, <1>2 DEF SameObservers, Sources
<1>3. ASSUME source' = News
      PROVE  SameObservers
  <2>1. /\ Len(source') = Len(source) /\ Sources' = Sources
        /\ \A n \in Sources : source'[n] = [source[n] EXCEPT !.news = TRUE]
    BY <1>0, <1>3, NewsTyped DEF News, Sources, IInv
  <2>2. \A n \in Sources : source[n] \in Observer
    BY <1>0
  <2> QED  BY <2>1, <2>2 DEF SameObservers, Observer
<1>4. CASE Answer
  <2> DEFINE n == Top.n
             list == Matching(rows)
             t == [source[n] EXCEPT !.list = list, !.stale = FALSE]
  <2>1. /\ n \in Sources
        /\ source' = source \/ source' = [source EXCEPT ![n] = t]
        /\ UNCHANGED <<simple, synchronous, database, phase, overtaken, shared>>
    BY <1>0, <1>4 DEF Answer, SimpleAnswer, ReloadingAnswer, Running, Top, Fitting,
                      setting, entries, people
  <2>2. list \in Lists /\ source[n] \in Observer
    BY <1>0, <2>1 DEF Matching, Lists
  <2>3. t.owner = source[n].owner /\ t.live = source[n].live /\ t.list \in Lists
    BY <2>2 DEF Observer
  <2> HIDE DEF t
  <2> QED  BY <1>1, <1>2, <2>1, <2>3
<1>5. CASE AnswerIsError
  <2> DEFINE n == Top.n
             t == [source[n] EXCEPT !.stale = @ \/ source[n].live]
  <2>1. /\ n \in Sources /\ source' = [source EXCEPT ![n] = t]
        /\ UNCHANGED <<simple, synchronous, database, phase, overtaken, shared>>
    BY <1>0, <1>5 DEF AnswerIsError, Running, Top, Fitting, setting, entries, people
  <2>2. t.owner = source[n].owner /\ t.live = source[n].live /\ t.list = source[n].list
    BY <1>0, <2>1 DEF Observer
  <2> HIDE DEF t
  <2> QED  BY <1>2, <2>1, <2>2
<1>6. CASE EmitShared
  <2> DEFINE n == Top.n
             t == [source[n] EXCEPT !.news = FALSE]
  <2>1. /\ n \in Sources /\ source' = [source EXCEPT ![n] = t]
        /\ shared' = [shared EXCEPT !.didEmit = TRUE, !.last = Top.set]
        /\ UNCHANGED <<simple, synchronous, database, phase, overtaken>>
    BY <1>0, <1>6 DEF EmitShared, Running, Top, Fitting, setting, entries, people
  <2>2. t.owner = source[n].owner /\ t.live = source[n].live /\ t.list = source[n].list
    BY <1>0, <2>1 DEF Observer
  <2>3. shared'.subscribers = shared.subscribers /\ shared'.source = shared.source
    BY <1>0, <2>1 DEF TypeOK
  <2> HIDE DEF t
  <2> QED  BY <1>2, <2>1, <2>2, <2>3
<1>7. CASE EmitWithColumns
  <2> DEFINE n == Top.n
             s == source[n]
             states == StateAfter(s, Top.set)
             news == s.news /\ ~((s.first \/ s.pending \/ s.observed # Top.set) /\ s.live)
             early == IF (s.first \/ s.pending \/ s.observed # Top.set) /\ s.live
                      THEN Ahead(states, Top.set) ELSE s.early
             t == [s EXCEPT !.fetching = FALSE, !.pending = FALSE, !.first = FALSE,
                            !.observed = Top.set, !.states = states, !.news = news, !.early = early]
  <2>1. /\ n \in Sources /\ source' = [source EXCEPT ![n] = t]
        /\ UNCHANGED <<simple, synchronous, database, phase, overtaken, shared>>
    BY <1>0, <1>7 DEF EmitWithColumns, Running, Top, Fitting, setting, entries, people
  <2>2. s \in Observer
    BY <1>0, <2>1
  <2>3. t.owner = source[n].owner /\ t.live = source[n].live /\ t.list = source[n].list
    <3> HIDE DEF states, news, early
    <3> QED  BY <2>2 DEF Observer
  <2> HIDE DEF t
  <2> QED  BY <1>2, <2>1, <2>3
<1>8. CASE CallReloading
  <2> DEFINE n == NextOf(Top)
             t == [source[n] EXCEPT !.fetching = TRUE]
  <2>1. /\ source' = [source EXCEPT ![n] = t]
        /\ UNCHANGED <<simple, synchronous, database, phase, overtaken, shared>>
    BY <1>8 DEF CallReloading, setting, entries, people
  <2>2. n \in Sources
    BY <1>8, DatabaseItem DEF IInv, CallReloading
  <2>3. t.owner = source[n].owner /\ t.live = source[n].live /\ t.list = source[n].list
    BY <1>0, <2>2 DEF Observer
  <2> HIDE DEF t, n
  <2> QED  BY <1>2, <2>1, <2>2, <2>3 DEF t
<1>9. CASE CallSimple
  <2> DEFINE n == NextOf(Top)[1]
             list == Processed(source[n].list, Top.set)
             t == [source[n] EXCEPT !.list = list]
  <2>1. /\ source' = [source EXCEPT ![n] = t]
        /\ UNCHANGED <<simple, synchronous, database, phase, overtaken, shared>>
    BY <1>9 DEF CallSimple, setting, entries, people
  <2>2. n \in Sources /\ Top.set \in Lists
    BY <1>9, CollectionItem DEF IInv, CallSimple
  <2>3. t.owner = source[n].owner /\ t.live = source[n].live /\ (source[n].list \in Lists => t.list \in Lists)
    <3>1. source[n].list \in Lists => list \in Lists
      BY <2>2 DEF Processed, Matching, Lists
    <3> HIDE DEF list, n
    <3> QED  BY <1>0, <2>2, <3>1 DEF Observer
  <2> HIDE DEF t, n
  <2> QED  BY <1>2, <2>1, <2>2, <2>3 DEF t
<1>10. CASE CallColumns
  <2> DEFINE n == NextOf(Top)[1]
             s == source[n]
             changed == {id \in Top.set \cap s.observed : s.states[id] # memory[id].col}
             emits == changed # {} /\ ~LeftToSource(s)
             pending == s.pending \/ (changed # {} /\ LeftToSource(s))
             states == [id \in Records |-> IF id \in changed THEN memory[id].col ELSE s.states[id]]
             news == s.news /\ ~emits
             early == IF emits THEN Ahead(states, s.observed) ELSE s.early
             t == [s EXCEPT !.pending = pending, !.states = states, !.news = news, !.early = early]
  <2>1. /\ source' = [source EXCEPT ![n] = t]
        /\ UNCHANGED <<simple, synchronous, database, phase, overtaken, shared>>
    BY <1>10 DEF CallColumns, setting, entries, people
  <2>2. n \in Sources
    BY <1>10, CollectionItem DEF IInv, CallColumns
  <2>3. t.owner = source[n].owner /\ t.live = source[n].live /\ t.list = source[n].list
    <3> HIDE DEF pending, states, news, early, n
    <3> QED  BY <1>0, <2>2 DEF Observer
  <2> HIDE DEF t, n
  <2> QED  BY <1>2, <2>1, <2>2, <2>3
<1>11. CASE BatchIsAnswered \/ NotifySubscribers
  BY <1>3, <1>11 DEF BatchIsAnswered, BatchAnswer, NotifySubscribers, setting, entries, people
<1>12. CASE Observe \/ EmitThrows \/ Tell \/ Return \/ LoopEnds \/ CallSubscriber \/ SourceIsThere
  BY <1>1, <1>12 DEF Observe, EmitThrows, Tell, Return, LoopEnds, CallSubscriber, SourceIsThere,
                     setting, entries, observers, people
<1>13. CASE Write \/ FetchIsAnswered \/ BatchIsRejected \/ Notify \/ StopHolding
  BY <1>1, <1>13 DEF Write, FetchIsAnswered, BatchIsRejected, BatchAnswer, Notify, StopHolding, setting,
                     entries, observers, people
<1> QED  BY <1>4, <1>5, <1>6, <1>7, <1>8, <1>9, <1>10, <1>11, <1>12, <1>13 DEF Ordinary

(* Who subscribes and who leaves.                                          *)
LEMMA JoinedStep ==
  ASSUME IInv, Subscribed
  PROVE  /\ Top.u \in Subscribers /\ phase' = [phase EXCEPT ![Top.u] = "joined"]
         /\ UNCHANGED <<simple, database, collection, shared, source, overtaken, calls, Sources>>
         /\ stack # <<>> /\ Top.at = "subscribed" /\ stack' = Below
  BY TopFrame DEF IInv, Subscribed, Running, Top, Fitting, setting, entries, observers, Sources

LEMMA SourceMadeForAll ==
  ASSUME IInv, SubscribeSource
  PROVE  /\ Len(source') = Len(source) + 1 /\ Sources' = 1 .. Len(source) + 1
         /\ \A m \in Sources : source'[m] = source[m]
         /\ source'[Len(source) + 1] = Made(Nobody)
         /\ shared'.subscribers = shared.subscribers /\ shared'.source = Len(source) + 1
         /\ Len(shared.subscribers) = 1
         /\ overtaken' = (overtaken \/ shared.source # 0)
         /\ UNCHANGED <<simple, synchronous, phase, collection>>
         /\ database' = IF simple THEN database ELSE Append(database, Len(source) + 1)
         /\ calls' = FetchCalls(Len(source) + 1)
         /\ stack # <<>> /\ Top.at = "source" /\ stack' = FetchFrames(Len(source) + 1) \o Below
<1>1. TypeOK /\ Frames
  BY DEF IInv
<1>2. /\ MakeSource(Nobody, Below) /\ stack # <<>> /\ Top.at = "source" /\ Len(shared.subscribers) = 1
      /\ shared' = [shared EXCEPT !.source = Len(source) + 1]
      /\ overtaken' = (overtaken \/ (shared.source # 0 /\ Len(shared.subscribers) = 1))
      /\ UNCHANGED <<simple, synchronous, phase>>
  BY DEF SubscribeSource, Running, Top, NeedsSource, setting, people
<1>3. /\ source'[Len(source) + 1] = Made(Nobody) /\ Sources' = 1 .. Len(source) + 1
      /\ Len(source') = Len(source) + 1 /\ \A m \in Sources : source'[m] = source[m]
  BY <1>1, <1>2, TopFrame, SourceMade
<1>4. shared'.subscribers = shared.subscribers /\ shared'.source = Len(source) + 1
  BY <1>1, <1>2 DEF TypeOK
<1> QED  BY <1>2, <1>3, <1>4 DEF MakeSource

LEMMA SourceMadeForOne ==
  ASSUME IInv, NEW u \in Subscribers, SubscribeWithColumns(u)
  PROVE  /\ u \in Columns /\ u # Nobody /\ Free
         /\ phase[u] = "new" /\ phase' = [phase EXCEPT ![u] = "joining"]
         /\ Len(source') = Len(source) + 1 /\ Sources' = 1 .. Len(source) + 1
         /\ \A m \in Sources : source'[m] = source[m]
         /\ source'[Len(source) + 1] = Made(u)
         /\ UNCHANGED <<simple, synchronous, shared, overtaken>>
         /\ database' = IF simple THEN database ELSE Append(database, Len(source) + 1)
         /\ collection' = Append(collection, <<Len(source) + 1, "columns">>)
         /\ calls' = FetchCalls(Len(source) + 1)
         /\ stack' = FetchFrames(Len(source) + 1) \o (<<OfUser("subscribed", u, {})>> \o stack)
<1>1. TypeOK /\ Frames /\ u # Nobody
  BY SubscriptionsAssumption DEF IInv
<1>2. /\ MakeSource(u, <<OfUser("subscribed", u, {})>> \o stack) /\ Free /\ u \in Columns
      /\ phase[u] = "new" /\ phase' = [phase EXCEPT ![u] = "joining"]
      /\ UNCHANGED <<simple, synchronous, shared, overtaken>>
  BY DEF SubscribeWithColumns, setting
<1>3. <<OfUser("subscribed", u, {})>> \o stack \in Seq(Lower(Len(source)))
  BY <1>1, <1>2, JoiningFrame
<1>4. /\ source'[Len(source) + 1] = Made(u) /\ Sources' = 1 .. Len(source) + 1
      /\ Len(source') = Len(source) + 1 /\ \A m \in Sources : source'[m] = source[m]
  BY <1>1, <1>2, <1>3, SourceMade
<1> QED  BY <1>1, <1>2, <1>4 DEF MakeSource

(* Who leaves ends an observer, or only leaves the array.                  *)
Ends(n) ==
  /\ Len(source') = Len(source) /\ Sources' = Sources
  /\ \A m \in Sources : /\ source'[m].owner = source[m].owner
                        /\ source'[m].live <=> source[m].live /\ m # n
                        /\ m # n => source'[m].list = source[m].list
  /\ database' = Without(database, n)
  /\ collection' = Without(Without(collection, <<n, "simple">>), <<n, "columns">>)

LEMMA LeavingSteps ==
  ASSUME IInv, NEW u \in Subscribers
  PROVE  /\ Unsubscribe(u) \/ UnsubscribeColumns(u) \/ UnsubscribeLast(u) =>
              /\ Free /\ phase[u] = "joined" /\ phase' = [phase EXCEPT ![u] = "left"]
              /\ UNCHANGED <<simple, synchronous, calls, stack, overtaken>>
         /\ Unsubscribe(u) =>
              /\ u \notin Columns /\ UNCHANGED <<source, Sources, database, collection>>
              /\ shared'.subscribers = Without(shared.subscribers, u) /\ shared'.subscribers # <<>>
              /\ shared'.source = shared.source
         /\ UnsubscribeColumns(u) =>
              /\ u \in Columns /\ UNCHANGED shared
              /\ \E n \in Sources : source[n].owner = u /\ Ends(n)
         /\ UnsubscribeLast(u) =>
              /\ u \notin Columns /\ Ends(shared.source)
              /\ shared'.subscribers = <<>> /\ shared'.source = 0
<1>0. TypeOK /\ Frames
  BY DEF IInv
<1>1. Unsubscribe(u) \/ UnsubscribeColumns(u) \/ UnsubscribeLast(u) =>
        /\ Free /\ phase[u] = "joined" /\ phase' = [phase EXCEPT ![u] = "left"]
        /\ UNCHANGED <<simple, synchronous, calls, stack, overtaken>>
  BY DEF Unsubscribe, UnsubscribeColumns, UnsubscribeLast, MayLeave, setting
<1>2. ASSUME NEW n, EndSource(n)
      PROVE  Ends(n)
  BY <1>0, <1>2, SourceEnded DEF Ends
<1>3. ASSUME Unsubscribe(u)
      PROVE  /\ u \notin Columns /\ UNCHANGED <<source, Sources, database, collection>>
             /\ shared'.subscribers = Without(shared.subscribers, u) /\ shared'.subscribers # <<>>
             /\ shared'.source = shared.source
  BY <1>0, <1>3 DEF Unsubscribe, TypeOK, entries, Sources
<1>4. UnsubscribeColumns(u) =>
        /\ u \in Columns /\ UNCHANGED shared
        /\ \E n \in Sources : source[n].owner = u /\ Ends(n)
  BY <1>2 DEF UnsubscribeColumns
<1>5. ASSUME UnsubscribeLast(u)
      PROVE  /\ u \notin Columns /\ Ends(shared.source)
             /\ shared'.subscribers = <<>> /\ shared'.source = 0
  BY <1>0, <1>2, <1>5 DEF UnsubscribeLast, TypeOK
<1> QED  BY <1>1, <1>3, <1>4, <1>5

LEMMA OwnersKept ==
  ASSUME IInv, Next
  PROVE  Owners'
<1>0. /\ TypeOK /\ Frames /\ Sources = 1 .. Len(source) /\ Len(source) \in Nat /\ Owners
      /\ phase \in [Subscribers -> {"new", "joining", "joined", "left"}]
      /\ Nobody \notin Subscribers /\ Columns \subseteq Subscribers
  BY TopFrame, SubscriptionsAssumption DEF IInv, TypeOK
<1>m. Made(Nobody).owner = Nobody /\ \A u : Made(u).owner = u
  BY DEF Made
<1>1. CASE Ordinary
  BY <1>0, <1>1, OrdinarySteps DEF Owners, SameObservers
<1>2. CASE Subscribed
  BY <1>0, <1>2, JoinedStep DEF Owners, Here
<1>3. ASSUME NEW u \in Subscribers, Subscribe(u)
      PROVE  Owners'
  BY <1>0, <1>3 DEF Subscribe, Sources, Owners
<1>4. ASSUME NEW u \in Subscribers, Unsubscribe(u) \/ UnsubscribeLast(u)
      PROVE  Owners'
  BY <1>0, <1>4, LeavingSteps DEF Owners, Ends
<1>5. ASSUME NEW u \in Subscribers, UnsubscribeColumns(u)
      PROVE  Owners'
  <2>1. PICK n \in Sources : source[n].owner = u /\ Ends(n)
    BY <1>5, LeavingSteps
  <2>2. phase' = [phase EXCEPT ![u] = "left"] /\ u # Nobody
    BY <1>0, <1>5, LeavingSteps
  <2> QED  BY <1>0, <2>1, <2>2 DEF Owners, Ends
<1>6. CASE SubscribeSource
  <2>1. /\ Sources' = 1 .. Len(source) + 1 /\ UNCHANGED phase
        /\ \A m \in Sources : source'[m] = source[m]
        /\ source'[Len(source) + 1].owner = Nobody
    BY <1>m, <1>6, SourceMadeForAll
  <2>2. \A m \in Sources' : m \in Sources \/ m = Len(source) + 1
    BY ONLY <1>0, <2>1
  <2> QED  BY <1>0, <2>1, <2>2 DEF Owners
<1>7. ASSUME NEW u \in Subscribers, SubscribeWithColumns(u)
      PROVE  Owners'
  <2> DEFINE N == Len(source) + 1
  <2>1. /\ u \in Columns /\ phase[u] = "new" /\ phase' = [phase EXCEPT ![u] = "joining"]
        /\ Sources' = 1 .. N /\ \A m \in Sources : source'[m] = source[m]
        /\ source'[N].owner = u
    BY <1>m, <1>7, SourceMadeForOne
  <2>2. \A m \in Sources : source[m].owner # u
    BY <1>0, <2>1 DEF Owners
  <2>3. \A m \in Sources' : m \in Sources \/ m = N
    BY <1>0, <2>1
  <2> HIDE DEF N
  <2> QED  BY <1>0, <2>1, <2>2, <2>3 DEF Owners, Here
<1> QED  BY <1>1, <1>2, <1>3, <1>4, <1>5, <1>6, <1>7 DEF Next, Ordinary

LEMMA SharersKept ==
  ASSUME IInv, Next
  PROVE  Sharers'
<1>0. /\ TypeOK /\ Len(source) \in Nat /\ Sharers /\ shared.subscribers \in Seq(Subscribers)
      /\ phase \in [Subscribers -> {"new", "joining", "joined", "left"}]
  BY TopFrame DEF IInv, TypeOK
<1>1. CASE Ordinary
  BY <1>0, <1>1, OrdinarySteps DEF Sharers, SameObservers
<1>2. CASE Subscribed
  BY <1>0, <1>2, JoinedStep DEF Sharers, Here
<1>3. ASSUME NEW u \in Subscribers, Subscribe(u)
      PROVE  Sharers'
  <2>1. /\ u \notin Columns /\ phase[u] = "new" /\ phase' = [phase EXCEPT ![u] = "joining"]
        /\ shared'.subscribers = Append(shared.subscribers, u) /\ shared'.source = shared.source
        /\ UNCHANGED source
    BY <1>0, <1>3 DEF Subscribe, TypeOK
  <2>2. \A i \in DOMAIN shared.subscribers : shared.subscribers[i] # u
    BY <1>0, <2>1 DEF Sharers, Here
  <2> DEFINE s == shared.subscribers
  <2>3. /\ DOMAIN Append(s, u) = 1 .. Len(s) + 1 /\ DOMAIN s = 1 .. Len(s) /\ Append(s, u)[Len(s) + 1] = u
        /\ \A i \in 1 .. Len(s) : Append(s, u)[i] = s[i]
        /\ Append(s, u) # <<>> /\ Len(s) \in Nat
    BY <1>0
  <2> QED  BY <1>0, <2>1, <2>2, <2>3 DEF Sharers, Alike, Here
<1>4. ASSUME NEW u \in Subscribers, Unsubscribe(u)
      PROVE  Sharers'
  <2> DEFINE s == shared.subscribers
  <2>1. /\ Alike(Without(s, u))
        /\ \A i \in DOMAIN Without(s, u) : Without(s, u)[i] # u /\ \E j \in DOMAIN s : Without(s, u)[i] = s[j]
    BY <1>0, Removed DEF Sharers
  <2>2. /\ phase' = [phase EXCEPT ![u] = "left"] /\ UNCHANGED source
        /\ shared'.subscribers = Without(s, u) /\ shared'.subscribers # <<>> /\ shared'.source = shared.source
    BY <1>4, LeavingSteps
  <2> QED  BY <1>0, <2>1, <2>2 DEF Sharers
<1>5. ASSUME NEW u \in Subscribers, UnsubscribeColumns(u)
      PROVE  Sharers'
  <2>1. /\ u \in Columns /\ UNCHANGED shared /\ Len(source') = Len(source)
        /\ phase' = [phase EXCEPT ![u] = "left"]
    BY <1>5, LeavingSteps DEF Ends
  <2> QED  BY <1>0, <2>1 DEF Sharers
<1>6. ASSUME NEW u \in Subscribers, UnsubscribeLast(u)
      PROVE  Sharers'
  <2>1. shared'.subscribers = <<>> /\ shared'.source = 0 /\ Len(source') = Len(source)
    BY <1>6, LeavingSteps DEF Ends
  <2> QED  BY <1>0, <2>1 DEF Sharers, Alike
<1>7. CASE SubscribeSource
  <2>1. shared.subscribers # <<>>
    BY <1>7, SourceMadeForAll
  <2> QED  BY <1>0, <1>7, <2>1, SourceMadeForAll DEF Sharers
<1>8. ASSUME NEW u \in Subscribers, SubscribeWithColumns(u)
      PROVE  Sharers'
  <2>1. /\ u \in Columns /\ UNCHANGED shared /\ Len(source') = Len(source) + 1
        /\ phase' = [phase EXCEPT ![u] = "joining"]
    BY <1>8, SourceMadeForOne
  <2> QED  BY <1>0, <2>1 DEF Sharers
<1> QED  BY <1>1, <1>2, <1>3, <1>4, <1>5, <1>6, <1>7, <1>8 DEF Next, Ordinary

LEMMA SharedSourceKept ==
  ASSUME IInv, Next
  PROVE  SharedSource'
<1>0. /\ TypeOK /\ Sources = 1 .. Len(source) /\ Len(source) \in Nat /\ SharedSource
      /\ shared.source \in 0 .. Len(source) /\ overtaken \in BOOLEAN
      /\ Nobody \notin Subscribers /\ Columns \subseteq Subscribers
  BY TopFrame, SubscriptionsAssumption DEF IInv, TypeOK, Sharers
<1>m. /\ Made(Nobody).owner = Nobody /\ Made(Nobody).live = TRUE
      /\ \A u : Made(u).owner = u
  BY DEF Made
<1>1. CASE Ordinary
  BY <1>0, <1>1, OrdinarySteps DEF SharedSource, SameObservers
<1>2. CASE Subscribed
  BY <1>0, <1>2, JoinedStep DEF SharedSource
<1>3. ASSUME NEW u \in Subscribers, Subscribe(u)
      PROVE  SharedSource'
  <2>1. shared'.source = shared.source /\ UNCHANGED <<source, overtaken, Sources>>
    BY <1>0, <1>3 DEF Subscribe, TypeOK, Sources
  <2> QED  BY <1>0, <2>1 DEF SharedSource
<1>4. ASSUME NEW u \in Subscribers, Unsubscribe(u)
      PROVE  SharedSource'
  BY <1>0, <1>4, LeavingSteps DEF SharedSource
<1>8. ASSUME NEW u \in Subscribers, UnsubscribeColumns(u)
      PROVE  SharedSource'
  <2>1. PICK n \in Sources : source[n].owner = u /\ Ends(n)
    BY <1>8, LeavingSteps
  <2>2. u # Nobody /\ UNCHANGED <<shared, overtaken>>
    BY <1>0, <1>8, LeavingSteps
  <2> QED  BY <1>0, <2>1, <2>2 DEF SharedSource, Ends
<1>5. ASSUME NEW u \in Subscribers, UnsubscribeLast(u)
      PROVE  SharedSource'
  BY <1>0, <1>5, LeavingSteps DEF SharedSource, Ends
<1>6. CASE SubscribeSource
  <2> DEFINE N == Len(source) + 1
  <2>1. /\ Sources' = 1 .. N /\ \A m \in Sources : source'[m] = source[m]
        /\ source'[N].owner = Nobody /\ source'[N].live
        /\ shared'.source = N /\ overtaken' = (overtaken \/ shared.source # 0)
    BY <1>m, <1>6, SourceMadeForAll
  <2>2. \A m \in Sources' : m \in Sources \/ m = N
    BY <1>0, <2>1
  <2>3. N \notin Sources /\ 0 \notin Sources
    BY <1>0
  <2> HIDE DEF N
  <2>4. ASSUME ~overtaken', NEW m \in Sources'
        PROVE  source'[m].live /\ source'[m].owner = Nobody <=> m = N
    <3>1. ~overtaken /\ shared.source = 0
      BY <1>0, <2>1, <2>4
    <3>2. CASE m \in Sources
      BY <1>0, <2>1, <2>3, <3>1, <3>2 DEF SharedSource
    <3> QED  BY <2>1, <2>2, <3>2
  <2> QED  BY <2>1, <2>4 DEF SharedSource
<1>7. ASSUME NEW u \in Subscribers, SubscribeWithColumns(u)
      PROVE  SharedSource'
  <2> DEFINE N == Len(source) + 1
  <2>1. /\ Sources' = 1 .. N /\ \A m \in Sources : source'[m] = source[m]
        /\ source'[N].owner = u /\ u # Nobody /\ UNCHANGED <<shared, overtaken>>
    BY <1>m, <1>7, SourceMadeForOne
  <2>2. \A m \in Sources' : m \in Sources \/ m = N
    BY <1>0, <2>1
  <2>3. N # shared.source
    BY <1>0
  <2> HIDE DEF N
  <2>4. shared'.source = shared.source /\ overtaken' = overtaken
    BY <2>1
  <2>5. ASSUME ~overtaken, NEW m \in Sources'
        PROVE  source'[m].live /\ source'[m].owner = Nobody <=> m = shared.source
    <3>1. CASE m \in Sources
      BY <1>0, <2>1, <2>5, <3>1 DEF SharedSource
    <3>2. CASE m = N
      BY <2>1, <2>3, <3>2
    <3> QED  BY <2>2, <3>1, <3>2
  <2> QED  BY <2>4, <2>5 DEF SharedSource
<1> QED  BY <1>1, <1>2, <1>3, <1>4, <1>5, <1>6, <1>7, <1>8 DEF Next, Ordinary

-----------------------------------------------------------------------------
(* Where an answer is under way.                                           *)

(* Counted from the bottom of the stack, a frame that awaits something     *)
(* stays at its place.                                                     *)
Under(new, old) ==
  \A k \in DOMAIN new : Awaits(new[k]) =>
    k + Len(old) - Len(new) \in DOMAIN old /\ old[k + Len(old) - Len(new)] = new[k]

LEMMA UnderSteps ==
  ASSUME NEW S, NEW s \in Seq(S)
  PROVE  /\ Under(s, s)
         /\ s # <<>> => Under(Tail(s), s)
         /\ \A t \in Seq(S), f \in S : Under(t, s) /\ ~Awaits(f) => Under(<<f>> \o t, s)
<1>1. Under(s, s)
  BY DEF Under
<1>2. ASSUME s # <<>>
      PROVE  Under(Tail(s), s)
  BY <1>2, HeadTailProperties DEF Under
<1>3. ASSUME NEW t \in Seq(S), NEW f \in S, Under(t, s), ~Awaits(f)
      PROVE  Under(<<f>> \o t, s)
  <2> DEFINE r == <<f>> \o t
  <2>1. /\ r \in Seq(S) /\ Len(r) = Len(t) + 1 /\ r[1] = f /\ DOMAIN r = 1 .. Len(t) + 1
        /\ \A k \in 1 .. Len(t) : r[k + 1] = t[k]
        /\ DOMAIN t = 1 .. Len(t) /\ Len(t) \in Nat /\ Len(s) \in Nat
    BY Places
  <2> HIDE DEF r
  <2>2. ASSUME NEW k \in DOMAIN r, Awaits(r[k])
        PROVE  k + Len(s) - Len(r) \in DOMAIN s /\ s[k + Len(s) - Len(r)] = r[k]
    <3>1. k # 1
      BY <1>3, <2>1, <2>2
    <3>2. /\ k - 1 \in DOMAIN t /\ r[k] = t[k - 1]
          /\ k - 1 + Len(s) - Len(t) = k + Len(s) - Len(r)
      BY <2>1, <3>1
    <3> QED  BY <1>3, <2>2, <3>2 DEF Under
  <2> QED  BY <2>2 DEF Under, r
<1> QED  BY <1>1, <1>2, <1>3

(* Steps that put no awaiting frame on the stack.                          *)
Passing ==
  \/ AnswerIsError \/ EmitWithColumns \/ EmitShared \/ EmitThrows \/ Tell \/ Return
  \/ LoopEnds \/ CallSimple \/ CallColumns \/ CallSubscriber
  \/ SourceIsThere \/ Subscribed \/ Write \/ BatchIsAnswered \/ BatchIsRejected
  \/ Notify \/ NotifySubscribers \/ StopHolding
  \/ \E u \in Subscribers : Subscribe(u) \/ Unsubscribe(u) \/ UnsubscribeColumns(u) \/ UnsubscribeLast(u)

LEMMA OtherFrames ==
  /\ \A n, set : /\ ~Awaits(OfSource("emit", n, set)) /\ ~Awaits(OfSource("shared", n, set))
                 /\ ~Awaits(OfSource("notify", n, set)) /\ ~Awaits(OfSource("database", n, set))
                 /\ ~Awaits(OfSource("collection", n, set))
  /\ \A u, set : /\ ~Awaits(OfUser("user", u, set)) /\ ~Awaits(OfUser("source", u, set))
                 /\ ~Awaits(OfUser("subscribed", u, set)) /\ ~Awaits(OfUser("tell", u, set))
                 /\ \A n : ~Awaits([OfUser("tell", u, set) EXCEPT !.n = n])
  BY DEF Awaits, OfSource, OfUser, NoFrame

LEMMA PassingStack ==
  ASSUME IInv, Passing
  PROVE  Under(stack', stack)
<1> DEFINE N == Len(source)
<1>0. /\ stack \in Seq(Frame) /\ N \in Nat /\ TypeOK /\ Frames /\ {} \in Lists
      /\ stack # <<>> => Top \in Frame /\ Top \in Fitting(N) /\ Below \in Seq(Frame)
  BY TopFrame, Fits, SeqMonotonic DEF IInv, TypeOK, Lists
<1>1. stack # <<>> => Under(Below, stack)
  BY <1>0, UnderSteps DEF Below
<1>2. Under(stack, stack)
  BY <1>0, UnderSteps
<1>3. ASSUME NEW f \in Frame, ~Awaits(f), stack # <<>>
      PROVE  /\ Under(<<f>> \o Below, stack)
             /\ \A g \in Frame : ~Awaits(g) => Under(<<g, f>> \o Below, stack)
             /\ \A g \in Frame : ~Awaits(g) => Under(<<g>> \o <<f>> \o Below, stack)
  <2>1. Under(<<f>> \o Below, stack) /\ <<f>> \o Below \in Seq(Frame)
    BY <1>0, <1>1, <1>3, UnderSteps, Pushed
  <2>2. ASSUME NEW g \in Frame, ~Awaits(g)
        PROVE  Under(<<g>> \o (<<f>> \o Below), stack)
    BY <1>0, <2>1, <2>2, UnderSteps
  <2>3. ASSUME NEW g \in Frame
        PROVE  <<g, f>> \o Below = <<g>> \o (<<f>> \o Below) /\ <<g>> \o <<f>> \o Below = <<g>> \o (<<f>> \o Below)
    BY <1>0, <1>3, <2>3
  <2> QED  BY <2>1, <2>2, <2>3
<1>4. CASE \/ AnswerIsError \/ Return \/ LoopEnds \/ SourceIsThere \/ Subscribed
  BY <1>1, <1>4 DEF AnswerIsError, Return, LoopEnds, SourceIsThere, Subscribed, Running
<1>5. CASE \/ Write \/ BatchIsAnswered \/ BatchIsRejected
           \/ \E u \in Subscribers : Unsubscribe(u) \/ UnsubscribeColumns(u) \/ UnsubscribeLast(u)
  BY <1>2, <1>5 DEF Write, BatchIsAnswered, BatchIsRejected, BatchAnswer, Unsubscribe,
                    UnsubscribeColumns, UnsubscribeLast
<1>6. CASE EmitThrows
  BY <1>6 DEF EmitThrows, Under
<1>7. CASE EmitWithColumns
  <2> DEFINE tell == [OfUser("tell", source[Top.n].owner, Top.set) EXCEPT !.n = Top.n]
  <2>1. /\ stack # <<>> /\ Top.at = "emit" /\ source[Top.n].owner # Nobody
        /\ stack' = <<tell>> \o Below \/ stack' = Below
    BY <1>7 DEF EmitWithColumns, Running, Top
  <2>2. tell \in Frame /\ ~Awaits(tell)
    <3>1. Top.n \in Sources /\ Top.n \in Nat /\ Top.set \in Lists
      BY <1>0, <2>1, TopFrame DEF Fitting, Frame
    <3>2. source[Top.n].owner \in Subscribers
      BY <1>0, <2>1, <3>1, TopFrame DEF Observer
    <3> QED  BY <1>0, <3>1, <3>2, NewFrames, Fits, OtherFrames
  <2> HIDE DEF tell
  <2> QED  BY <1>1, <1>3, <2>1, <2>2
<1>8. CASE EmitShared \/ Tell
  <2> DEFINE shares == OfSource("shared", Top.n, Top.set)
             user == OfUser("user", Top.u, {})
  <2>1. /\ stack # <<>> /\ Top.at \in {"emit", "tell"}
        /\ \/ stack' = <<shares>> \o Below /\ Top.at = "emit"
           \/ stack' = <<user>> \o Below /\ Top.at = "tell"
    BY <1>8 DEF EmitShared, Tell, Running, Top
  <2>2. Top.at = "emit" => shares \in Frame
    <3>1. Top.at = "emit" => Top.n \in 1 .. N
      BY <1>0, <2>1 DEF Fitting
    <3>2. Top.set \in Lists
      BY <1>0, <2>1 DEF Frame
    <3> QED  BY <1>0, <3>1, <3>2, NewFrames, Fits
  <2>3. Top.at = "tell" => user \in Frame
    <3>1. Top.at = "tell" => Top.u \in Subscribers
      BY <1>0, <2>1 DEF Fitting
    <3> QED  BY <1>0, <3>1, NewFrames, Fits
  <2>4. ~Awaits(shares) /\ ~Awaits(user)
    BY OtherFrames
  <2> HIDE DEF shares, user
  <2> QED  BY <1>3, <2>1, <2>2, <2>3, <2>4
<1>9. CASE CallSimple
  <2> DEFINE n == NextOf(Top)[1]
             emit == OfSource("emit", n, Processed(source[n].list, Top.set))
             moved == Moved(Top)
  <2>1. /\ stack # <<>> /\ Top.at = "collection" /\ In("collection") /\ NextOf(Top)[2] = "simple"
        /\ stack' = <<emit>> \o <<moved>> \o Below \/ stack' = <<>> \o <<moved>> \o Below
    BY <1>9 DEF CallSimple, In, Running, Top
  <2>2. n \in 1 .. N /\ Processed(source[n].list, Top.set) \in Lists
    <3>1. source[n].list \in Lists /\ n \in 1 .. N /\ Top.set \in Lists
      BY <1>0, <2>1, TopFrame, CollectionItem DEF IInv, Arrays
    <3> QED  BY <3>1 DEF Processed, Matching, Lists
  <2>3. emit \in Frame /\ ~Awaits(emit)
    BY <1>0, <2>2, NewFrames, Fits, OtherFrames
  <2>4. moved \in Frame /\ ~Awaits(moved)
    BY <1>0, <2>1, LoopFrames, Fits DEF Awaits
  <2> HIDE DEF emit, moved
  <2>5. <<>> \o <<moved>> \o Below = <<moved>> \o Below
    BY <1>0, <2>1, <2>4
  <2> QED  BY <1>3, <2>1, <2>3, <2>4, <2>5
<1>10. CASE CallColumns
  <2> DEFINE n == NextOf(Top)[1]
             tell == [OfUser("tell", source[n].owner, source[n].observed) EXCEPT !.n = n]
             moved == Moved(Top)
  <2>1. /\ stack # <<>> /\ Top.at = "collection" /\ In("collection") /\ NextOf(Top)[2] = "columns"
        /\ stack' = <<tell>> \o <<moved>> \o Below \/ stack' = <<>> \o <<moved>> \o Below
    BY <1>10 DEF CallColumns, In, Running, Top
  <2>2. n \in Nat /\ source[n].observed \in Lists /\ source[n].owner \in Subscribers
    <3>1. source[n].owner # Nobody /\ n \in 1 .. N /\ source[n] \in Observer
      BY <1>0, <2>1, TopFrame, CollectionItem DEF IInv, Arrays
    <3> QED  BY <3>1 DEF Observer
  <2>3. tell \in Frame /\ ~Awaits(tell)
    BY <1>0, <2>2, NewFrames, Fits, OtherFrames
  <2>4. moved \in Frame /\ ~Awaits(moved)
    BY <1>0, <2>1, LoopFrames, Fits DEF Awaits
  <2> HIDE DEF tell, moved
  <2>5. <<>> \o <<moved>> \o Below = <<moved>> \o Below
    BY <1>0, <2>1, <2>4
  <2> QED  BY <1>3, <2>1, <2>3, <2>4, <2>5
<1>11. CASE CallSubscriber
  <2> DEFINE tell == OfUser("tell", NextOf(Top), Top.set)
             moved == Moved(Top)
  <2>1. /\ stack # <<>> /\ Top.at = "shared" /\ HasNext(Top) /\ stack' = <<tell, moved>> \o Below
    BY <1>11 DEF CallSubscriber, In, Running, Top
  <2>2. tell \in Frame /\ ~Awaits(tell)
    <3>1. NextOf(Top) \in Subscribers /\ Top.set \in Lists
      <4>1. Items(Top.at) = shared.subscribers /\ shared.subscribers \in Seq(Subscribers)
        BY <1>0, <2>1 DEF Items, TypeOK
      <4> QED  BY <1>0, <2>1, <4>1, LoopFrames DEF NextOf, Frame
    <3> QED  BY <1>0, <3>1, NewFrames, Fits, OtherFrames
  <2>3. moved \in Frame /\ ~Awaits(moved)
    BY <1>0, <2>1, LoopFrames, Fits DEF Awaits
  <2> HIDE DEF tell, moved
  <2> QED  BY <1>3, <2>1, <2>2, <2>3
<1>12. CASE NotifySubscribers
  <2> DEFINE one == OfSource("database", 0, Top.set)
             two == OfSource("collection", 0, Top.set)
  <2>1. stack # <<>> /\ stack' = <<one, two>> \o Below
    BY <1>12 DEF NotifySubscribers, Running
  <2>2. one \in Frame /\ two \in Frame /\ ~Awaits(one) /\ ~Awaits(two)
    <3>1. Top.set \in Lists
      BY <1>0, <2>1 DEF Frame
    <3> QED  BY <1>0, <3>1, NewFrames, Fits, OtherFrames
  <2> HIDE DEF one, two
  <2> QED  BY <1>3, <2>1, <2>2
<1>13. CASE Notify
  <2>1. stack' = stack \/ stack' = <<OfSource("notify", 0, Head(unnotified))>>
    BY <1>13 DEF Notify
  <2>2. ~Awaits(OfSource("notify", 0, Head(unnotified)))
    BY OtherFrames
  <2> QED  BY <1>2, <2>1, <2>2 DEF Under
<1>14. CASE StopHolding
  <2>1. stack' = [k \in DOMAIN held |-> OfSource("notify", 0, held[k])]
    BY <1>14 DEF StopHolding, Replayed
  <2>2. \A set : ~Awaits(OfSource("notify", 0, set))
    BY OtherFrames
  <2> QED  BY <2>1, <2>2 DEF Under
<1>15. ASSUME NEW u \in Subscribers, Subscribe(u)
       PROVE  Under(stack', stack)
  <2> DEFINE tell == OfUser("tell", u, shared.last)
             needs == OfUser("source", u, {})
             joins == OfUser("subscribed", u, {})
  <2>1. \/ stack' = <<tell>> \o <<needs, joins>> \o stack
        \/ stack' = <<>> \o <<needs, joins>> \o stack
    BY <1>15 DEF Subscribe
  <2>2. /\ tell \in Frame /\ needs \in Frame /\ joins \in Frame
        /\ ~Awaits(tell) /\ ~Awaits(needs) /\ ~Awaits(joins)
    BY <1>0, NewFrames, Fits, OtherFrames DEF TypeOK
  <2> HIDE DEF tell, needs, joins
  <2>3. /\ <<tell>> \o <<needs, joins>> \o stack = <<tell>> \o (<<needs>> \o (<<joins>> \o stack))
        /\ <<>> \o <<needs, joins>> \o stack = <<needs>> \o (<<joins>> \o stack)
    <3>1. <<tell>> \in Seq(Frame) /\ <<needs, joins>> \in Seq(Frame)
      BY <2>2
    <3>2. <<needs, joins>> \o stack = <<needs>> \o (<<joins>> \o stack)
      BY <1>0, <2>2, OneByOne
    <3>3. <<tell>> \o <<needs, joins>> \o stack = <<tell>> \o (<<needs, joins>> \o stack)
      BY <1>0, <3>1, ConcatAssociative
    <3>4. <<>> \o <<needs, joins>> = <<needs, joins>>
      BY <3>1, ConcatEmptySeq
    <3> QED  BY <3>2, <3>3, <3>4
  <2>4. <<joins>> \o stack \in Seq(Frame) /\ <<needs>> \o (<<joins>> \o stack) \in Seq(Frame)
    BY <1>0, <2>2, Pushed
  <2>5. Under(<<joins>> \o stack, stack)
    BY <1>0, <1>2, <2>2, UnderSteps
  <2>6. Under(<<needs>> \o (<<joins>> \o stack), stack)
    BY <1>0, <2>2, <2>4, <2>5, UnderSteps
  <2>7. Under(<<tell>> \o (<<needs>> \o (<<joins>> \o stack)), stack)
    BY <1>0, <2>2, <2>4, <2>6, UnderSteps
  <2> QED  BY <2>1, <2>3, <2>6, <2>7
<1> QED  BY <1>4, <1>5, <1>6, <1>7, <1>8, <1>9, <1>10, <1>11, <1>12, <1>13, <1>14, <1>15 DEF Passing

(* Where the first answer was under way, it still is, or it was there.     *)
LEMMA OneAnswerFollows ==
  ASSUME OneAnswer, UNCHANGED simple,
         \A k \in DOMAIN stack' : Awaits(stack'[k]) =>
           /\ k + Len(stack) - Len(stack') \in DOMAIN stack
           /\ Awaits(stack[k + Len(stack) - Len(stack')])
           /\ stack[k + Len(stack) - Len(stack')].n = stack'[k].n,
         stack \in Seq(Frame), stack' \in Seq(Frame),
         NEW d \in Nat,
         \A i \in DOMAIN calls' : i \in Nat /\ (calls'[i].type = "fetch" =>
           i + d \in DOMAIN calls /\ calls[i + d] = calls'[i]),
         \A p \in DOMAIN collection' : \E q \in DOMAIN collection : collection'[p] = collection[q]
  PROVE  OneAnswer'
<1> DEFINE at(k) == k + Len(stack) - Len(stack')
<1>1. SUFFICES ASSUME simple
               PROVE  OneAnswer'
  BY DEF OneAnswer
<1>2. ASSUME NEW i \in DOMAIN calls', NEW j \in DOMAIN calls',
             calls'[i].type = "fetch", calls'[j].type = "fetch", calls'[i].n = calls'[j].n
      PROVE  i = j
  <2>1. i + d = j + d
    BY <1>1, <1>2 DEF OneAnswer
  <2> QED  BY <2>1
<1>3. ASSUME NEW k \in DOMAIN stack', NEW l \in DOMAIN stack',
             Awaits(stack'[k]), Awaits(stack'[l]), stack'[k].n = stack'[l].n
      PROVE  k = l
  <2>1. at(k) = at(l)
    BY <1>1, <1>3 DEF OneAnswer
  <2>2. Len(stack) \in Nat /\ Len(stack') \in Nat /\ k \in Nat /\ l \in Nat
    OBVIOUS
  <2> QED  BY <2>1, <2>2
<1>4. ASSUME NEW i \in DOMAIN calls', NEW k \in DOMAIN stack', calls'[i].type = "fetch", Awaits(stack'[k])
      PROVE  calls'[i].n # stack'[k].n
  BY <1>1, <1>4 DEF OneAnswer
<1>5. ASSUME NEW i \in DOMAIN calls', NEW p \in DOMAIN collection', calls'[i].type = "fetch"
      PROVE  collection'[p] # <<calls'[i].n, "simple">>
  BY <1>1, <1>5 DEF OneAnswer
<1>6. ASSUME NEW k \in DOMAIN stack', NEW p \in DOMAIN collection', Awaits(stack'[k])
      PROVE  collection'[p] # <<stack'[k].n, "simple">>
  BY <1>1, <1>6 DEF OneAnswer
<1> QED  BY <1>1, <1>2, <1>3, <1>4, <1>5, <1>6 DEF OneAnswer

(* The calls and the array of the collection after most steps.             *)
LEMMA PassingCalls ==
  ASSUME IInv, Passing
  PROVE  /\ UNCHANGED simple
         /\ \E d \in Nat : \A i \in DOMAIN calls' : i \in Nat /\ (calls'[i].type = "fetch" =>
              i + d \in DOMAIN calls /\ calls[i + d] = calls'[i])
         /\ \A p \in DOMAIN collection' : \E q \in DOMAIN collection : collection'[p] = collection[q]
<1> DEFINE Calls == [type : {"fetch", "batch"}, n : Nat, rows : Rows, set : Lists]
           C(d) == \A i \in DOMAIN calls' : i \in Nat /\ (calls'[i].type = "fetch" =>
                     i + d \in DOMAIN calls /\ calls[i + d] = calls'[i])
<1>0. TypeOK /\ calls \in Seq(Calls) /\ collection \in Seq(Sources \X {"columns", "simple"})
  BY DEF IInv, TypeOK
<1>1. ASSUME UNCHANGED calls
      PROVE  C(0)
  BY <1>0, <1>1
<1>2. CASE \/ AnswerIsError \/ EmitWithColumns \/ EmitShared \/ EmitThrows \/ Tell \/ Return
           \/ LoopEnds \/ CallSimple \/ CallColumns \/ CallSubscriber
           \/ SourceIsThere \/ Subscribed
  <2>1. UNCHANGED <<simple, calls, collection>>
    BY <1>2 DEF AnswerIsError, EmitWithColumns, EmitShared, EmitThrows, Tell, Return, LoopEnds, CallSimple,
                CallColumns, CallSubscriber, SourceIsThere, Subscribed, setting, entries
  <2> HIDE DEF C
  <2> QED  BY <1>1, <2>1 DEF C
<1>3. CASE \/ Notify \/ NotifySubscribers \/ StopHolding
           \/ \E u \in Subscribers : Subscribe(u)
  <2>1. UNCHANGED <<simple, calls, collection>>
    BY <1>3 DEF Notify, NotifySubscribers, StopHolding, Subscribe, setting, entries
  <2> HIDE DEF C
  <2> QED  BY <1>1, <2>1 DEF C
<1>4. CASE Write
  <2>1. UNCHANGED <<simple, collection>>
    BY <1>4 DEF Write, setting, entries
  <2>2. \/ UNCHANGED calls
        \/ \E set \in Lists, new \in Rows :
             calls' = Append(calls, [type |-> "batch", n |-> 0, rows |-> new, set |-> set])
    BY <1>4 DEF Write
  <2>3. ASSUME NEW set \in Lists, NEW new \in Rows,
               calls' = Append(calls, [type |-> "batch", n |-> 0, rows |-> new, set |-> set])
        PROVE  C(0)
    <3> DEFINE call == [type |-> "batch", n |-> 0, rows |-> new, set |-> set]
    <3>1. call \in Calls /\ call.type # "fetch" /\ calls' = Append(calls, call)
      BY <2>3
    <3> HIDE DEF call, Calls
    <3> QED  BY <1>0, <3>1, AppendProperties
  <2> HIDE DEF C
  <2> QED  BY <1>1, <2>1, <2>2, <2>3 DEF C
<1>5. CASE BatchIsAnswered \/ BatchIsRejected
  <2>1. UNCHANGED <<simple, collection>> /\ calls # <<>> /\ calls' = Tail(calls)
    BY <1>5, BatchStep
  <2>2. C(1)
    <3> HIDE DEF Calls
    <3> QED  BY <1>0, <2>1, HeadTailProperties
  <2> HIDE DEF C
  <2> QED  BY <2>1, <2>2 DEF C
<1>6. ASSUME NEW u \in Subscribers, Unsubscribe(u) \/ UnsubscribeColumns(u) \/ UnsubscribeLast(u)
      PROVE  \A p \in DOMAIN collection' : \E q \in DOMAIN collection : collection'[p] = collection[q]
  <2>1. UNCHANGED collection \/ \E n : Ends(n)
    BY <1>6, LeavingSteps
  <2>2. ASSUME NEW n, Ends(n)
        PROVE  \A p \in DOMAIN collection' : \E q \in DOMAIN collection : collection'[p] = collection[q]
    <3> DEFINE e == <<n, "simple">>
               c == Without(collection, e)
    <3>1. /\ c \in Seq(Sources \X {"columns", "simple"})
          /\ \A p \in DOMAIN c : \E q \in DOMAIN collection : c[p] = collection[q]
      <4> HIDE DEF e
      <4> QED  BY <1>0, Removed
    <3>2. collection' = Without(c, <<n, "columns">>)
      BY <2>2 DEF Ends
    <3> HIDE DEF c
    <3>3. \A p \in DOMAIN collection' : \E q \in DOMAIN c : collection'[p] = c[q]
      BY <3>1, <3>2, Removed
    <3> QED  BY <3>1, <3>3
  <2> QED  BY <2>1, <2>2
<1>7. ASSUME NEW u \in Subscribers, Unsubscribe(u) \/ UnsubscribeColumns(u) \/ UnsubscribeLast(u)
      PROVE  UNCHANGED <<simple, calls>>
  BY <1>7, LeavingSteps
<1> HIDE DEF C
<1> QED  BY <1>1, <1>2, <1>3, <1>4, <1>5, <1>6, <1>7 DEF Passing, C

(* A new observer is the only one that its fetch is for.                   *)
LEMMA OneAnswerMade ==
  ASSUME IInv, UNCHANGED <<simple, synchronous>>, simple,
         NEW s \in Seq(Fitting(Len(source))), Under(s, stack),
         calls' = FetchCalls(Len(source) + 1), stack' = FetchFrames(Len(source) + 1) \o s,
         collection' \in {collection, Append(collection, <<Len(source) + 1, "columns">>)}
  PROVE  OneAnswer'
<1> DEFINE N == Len(source) + 1
           Calls == [type : {"fetch", "batch"}, n : Nat, rows : Rows, set : Lists]
           Items2 == Nat \X {"columns", "simple"}
<1>0. /\ N \in Nat /\ calls \in Seq(Calls) /\ stack \in Seq(Frame) /\ OneAnswer
      /\ \A i \in DOMAIN calls : calls[i].type = "fetch" => calls[i].n \in 1 .. Len(source)
      /\ \A k \in DOMAIN s : Awaits(s[k]) => s[k].n \in 1 .. Len(source)
      /\ collection \in Seq(Items2) /\ Len(s) \in Nat /\ Len(stack) \in Nat
  <2>1. Sources = 1 .. Len(source) /\ Len(source) \in Nat /\ TypeOK /\ Frames
    BY TopFrame DEF IInv
  <2>2. Sources \X {"columns", "simple"} \subseteq Items2
    BY <2>1
  <2>3. collection \in Seq(Items2)
    BY <2>1, <2>2, SeqMonotonic DEF TypeOK
  <2>4. \A k \in DOMAIN s : s[k] \in Fitting(Len(source))
    OBVIOUS
  <2>5. \A k \in DOMAIN s : Awaits(s[k]) => s[k].n \in 1 .. Len(source)
    BY <2>4 DEF Awaits, Fitting
  <2> QED  BY <2>1, <2>3, <2>5 DEF IInv, TypeOK, Frames
<1>n. N \notin 1 .. Len(source) /\ Len(source) \in Nat
  BY <1>0
<1>1. ASSUME NEW k \in DOMAIN s, Awaits(s[k])
      PROVE  /\ k + Len(stack) - Len(s) \in DOMAIN stack /\ stack[k + Len(stack) - Len(s)] = s[k]
  BY <1>1 DEF Under
<1>2. /\ \A k, l \in DOMAIN s : Awaits(s[k]) /\ Awaits(s[l]) /\ s[k].n = s[l].n => k = l
      /\ \A i \in DOMAIN calls, k \in DOMAIN s : calls[i].type = "fetch" /\ Awaits(s[k]) => calls[i].n # s[k].n
      /\ \A k \in DOMAIN s, p \in DOMAIN collection : Awaits(s[k]) => collection[p] # <<s[k].n, "simple">>
  <2>1. ASSUME NEW k \in DOMAIN s, NEW l \in DOMAIN s, Awaits(s[k]), Awaits(s[l]), s[k].n = s[l].n
        PROVE  k = l
    <3>1. k + Len(stack) - Len(s) = l + Len(stack) - Len(s)
      BY <1>0, <1>1, <2>1 DEF OneAnswer
    <3> QED  BY <1>0, <3>1
  <2>2. ASSUME NEW i \in DOMAIN calls, NEW k \in DOMAIN s, calls[i].type = "fetch", Awaits(s[k])
        PROVE  calls[i].n # s[k].n
    BY <1>0, <1>1, <2>2 DEF OneAnswer
  <2>3. ASSUME NEW k \in DOMAIN s, NEW p \in DOMAIN collection, Awaits(s[k])
        PROVE  collection[p] # <<s[k].n, "simple">>
    BY <1>0, <1>1, <2>3 DEF OneAnswer
  <2> QED  BY <2>1, <2>2, <2>3
<1>3. \A p \in DOMAIN collection' : collection'[p] = <<N, "columns">> \/ \E q \in DOMAIN collection : collection'[p] = collection[q]
  <2>1. <<N, "columns">> \in Items2
    BY <1>0
  <2> DEFINE e == <<N, "columns">>
  <2>2. collection' = collection \/ collection' = Append(collection, e)
    OBVIOUS
  <2> HIDE DEF e, Items2
  <2>3. \A p \in DOMAIN collection' : collection'[p] = e \/ \E q \in DOMAIN collection : collection'[p] = collection[q]
    <3>1. CASE collection' = collection
      BY <3>1
    <3>2. CASE collection' = Append(collection, e)
      <4>1. e \in Items2
        BY <2>1 DEF e
      <4>2. \A p \in DOMAIN Append(collection, e) :
              \/ Append(collection, e)[p] = e
              \/ p \in DOMAIN collection /\ Append(collection, e)[p] = collection[p]
        BY <1>0, <4>1, Appended
      <4> QED  BY <3>2, <4>2
    <3> QED  BY <2>2, <3>1, <3>2
  <2> QED  BY <2>3 DEF e
<1>4. /\ \A q \in DOMAIN collection : collection[q][1] \in 1 .. Len(source)
      /\ \A q \in DOMAIN collection : collection[q] # <<N, "simple">>
      /\ <<N, "columns">> # <<N, "simple">> /\ \A m : <<N, "columns">> # <<m, "simple">>
  <2>1. collection \in Seq(Sources \X {"columns", "simple"}) /\ Sources = 1 .. Len(source)
    BY TopFrame DEF IInv, TypeOK
  <2>2. \A q \in DOMAIN collection : collection[q] \in Sources \X {"columns", "simple"}
    BY <2>1
  <2> QED  BY <1>n, <2>1, <2>2
<1>5. CASE synchronous
  <2> DEFINE f == OfSource("answer", N, {})
  <2>1. calls' = calls /\ stack' = <<f>> \o s
    BY <1>5 DEF FetchCalls, FetchFrames
  <2>2. Awaits(f) /\ f.n = N
    BY DEF Awaits, OfSource, NoFrame
  <2>3. f \in Frame /\ s \in Seq(Frame)
    <3>1. {} \in Lists /\ N \in 1 .. N
      BY <1>0 DEF Lists
    <3> QED  BY <1>0, <3>1, NewFrames, Fits, SeqMonotonic
  <2> HIDE DEF f, N
  <2>4. /\ DOMAIN stack' = 1 .. Len(s) + 1 /\ stack'[1] = f
        /\ \A k \in 1 .. Len(s) : stack'[k + 1] = s[k]
        /\ DOMAIN s = 1 .. Len(s)
    BY <2>1, <2>3, Places
  <2>5. \A k \in DOMAIN stack' : k = 1 \/ (k - 1 \in DOMAIN s /\ stack'[k] = s[k - 1])
    <3> SUFFICES ASSUME NEW k \in DOMAIN stack', k # 1
                 PROVE  k - 1 \in DOMAIN s /\ stack'[k] = s[k - 1]
      OBVIOUS
    <3>1. k - 1 \in 1 .. Len(s) /\ k = (k - 1) + 1
      BY <1>0, <2>4, SMTT(20)
    <3> QED  BY <2>4, <3>1
  <2>6. \A k, l \in DOMAIN stack' : Awaits(stack'[k]) /\ Awaits(stack'[l]) /\ stack'[k].n = stack'[l].n => k = l
    <3> SUFFICES ASSUME NEW k \in DOMAIN stack', NEW l \in DOMAIN stack',
                        Awaits(stack'[k]), Awaits(stack'[l]), stack'[k].n = stack'[l].n
                 PROVE  k = l
      OBVIOUS
    <3>1. CASE k = 1 \/ l = 1
      BY <1>0, <1>n, <2>2, <2>4, <2>5, <3>1
    <3>2. CASE k # 1 /\ l # 1
      <4>1. k - 1 = l - 1
        BY <1>2, <2>5, <3>2
      <4> QED  BY <2>4, <4>1
    <3> QED  BY <3>1, <3>2
  <2>7. \A i \in DOMAIN calls', k \in DOMAIN stack' :
          calls'[i].type = "fetch" /\ Awaits(stack'[k]) => calls'[i].n # stack'[k].n
    <3> SUFFICES ASSUME NEW i \in DOMAIN calls', NEW k \in DOMAIN stack',
                        calls'[i].type = "fetch", Awaits(stack'[k])
                 PROVE  calls'[i].n # stack'[k].n
      OBVIOUS
    <3>1. CASE k = 1
      BY <1>0, <1>n, <2>1, <2>2, <2>4, <3>1 DEF N
    <3>2. CASE k # 1
      BY <1>2, <2>1, <2>5, <3>2
    <3> QED  BY <3>1, <3>2
  <2>8. \A i \in DOMAIN calls', p \in DOMAIN collection' :
          calls'[i].type = "fetch" => collection'[p] # <<calls'[i].n, "simple">>
    BY <1>0, <1>3, <1>4, <2>1 DEF OneAnswer
  <2>9. \A k \in DOMAIN stack', p \in DOMAIN collection' :
          Awaits(stack'[k]) => collection'[p] # <<stack'[k].n, "simple">>
    <3> SUFFICES ASSUME NEW k \in DOMAIN stack', NEW p \in DOMAIN collection', Awaits(stack'[k])
                 PROVE  collection'[p] # <<stack'[k].n, "simple">>
      OBVIOUS
    <3>1. CASE k = 1
      BY <1>3, <1>4, <2>2, <2>4, <3>1
    <3>2. CASE k # 1
      BY <1>2, <1>3, <1>4, <2>5, <3>2
    <3> QED  BY <3>1, <3>2
  <2>10. \A i, j \in DOMAIN calls' :
           calls'[i].type = "fetch" /\ calls'[j].type = "fetch" /\ calls'[i].n = calls'[j].n => i = j
    BY <1>0, <2>1 DEF OneAnswer
  <2> QED  BY <2>6, <2>7, <2>8, <2>9, <2>10 DEF OneAnswer
<1>6. CASE ~synchronous
  <2> DEFINE call == [type |-> "fetch", n |-> N, rows |-> NoRows, set |-> {}]
  <2>1. calls' = Append(calls, call) /\ stack' = <<>> \o s
    BY <1>6 DEF FetchCalls, FetchFrames
  <2>2. call \in Calls /\ call.n = N
    BY <1>0 DEF NoRows, Rows, Row, Lists
  <2>3. stack' = s
    BY <2>1, ConcatEmptySeq
  <2> HIDE DEF call, N, Calls
  <2>5. \A i \in DOMAIN calls' :
          \/ i = Len(calls) + 1 /\ calls'[i] = call
          \/ i \in DOMAIN calls /\ calls'[i] = calls[i]
    BY <1>0, <2>1, <2>2, Appended, SMTT(20)
  <2>6. \A i, j \in DOMAIN calls' :
          calls'[i].type = "fetch" /\ calls'[j].type = "fetch" /\ calls'[i].n = calls'[j].n => i = j
    <3> SUFFICES ASSUME NEW i \in DOMAIN calls', NEW j \in DOMAIN calls',
                        calls'[i].type = "fetch", calls'[j].type = "fetch", calls'[i].n = calls'[j].n
                 PROVE  i = j
      OBVIOUS
    <3>1. CASE i \in DOMAIN calls /\ calls'[i] = calls[i] /\ j \in DOMAIN calls /\ calls'[j] = calls[j]
      BY <1>0, <3>1 DEF OneAnswer
    <3>2. CASE i = Len(calls) + 1 /\ calls'[i] = call /\ j \in DOMAIN calls /\ calls'[j] = calls[j]
      BY <1>0, <1>n, <2>2, <3>2 DEF N
    <3>3. CASE j = Len(calls) + 1 /\ calls'[j] = call /\ i \in DOMAIN calls /\ calls'[i] = calls[i]
      BY <1>0, <1>n, <2>2, <3>3 DEF N
    <3> QED  BY <2>5, <3>1, <3>2, <3>3
  <2>7. \A i \in DOMAIN calls', k \in DOMAIN stack' :
          calls'[i].type = "fetch" /\ Awaits(stack'[k]) => calls'[i].n # stack'[k].n
    <3> SUFFICES ASSUME NEW i \in DOMAIN calls', NEW k \in DOMAIN stack',
                        calls'[i].type = "fetch", Awaits(stack'[k])
                 PROVE  calls'[i].n # stack'[k].n
      OBVIOUS
    <3>1. CASE calls'[i] = call
      BY <1>0, <1>n, <2>2, <2>3, <3>1 DEF N
    <3>2. CASE i \in DOMAIN calls /\ calls'[i] = calls[i]
      BY <1>2, <2>3, <3>2
    <3> QED  BY <2>5, <3>1, <3>2
  <2>8. \A i \in DOMAIN calls', p \in DOMAIN collection' :
          calls'[i].type = "fetch" => collection'[p] # <<calls'[i].n, "simple">>
    <3> SUFFICES ASSUME NEW i \in DOMAIN calls', NEW p \in DOMAIN collection', calls'[i].type = "fetch"
                 PROVE  collection'[p] # <<calls'[i].n, "simple">>
      OBVIOUS
    <3>1. CASE calls'[i] = call
      BY <1>3, <1>4, <2>2, <3>1
    <3>2. CASE i \in DOMAIN calls /\ calls'[i] = calls[i]
      BY <1>0, <1>3, <1>4, <3>2 DEF OneAnswer
    <3> QED  BY <2>5, <3>1, <3>2
  <2>9. \A k \in DOMAIN stack', p \in DOMAIN collection' :
          Awaits(stack'[k]) => collection'[p] # <<stack'[k].n, "simple">>
    BY <1>2, <1>3, <1>4, <2>3
  <2>10. \A k, l \in DOMAIN stack' : Awaits(stack'[k]) /\ Awaits(stack'[l]) /\ stack'[k].n = stack'[l].n => k = l
    BY <1>2, <2>3
  <2> QED  BY <2>6, <2>7, <2>8, <2>9, <2>10 DEF OneAnswer
<1> QED  BY <1>5, <1>6

(* The steps that answer, and that make an observer.                       *)
LEMMA AnswerStep ==
  ASSUME IInv, Answer
  PROVE  /\ UNCHANGED <<simple, calls, collection>> /\ Top.n \in Sources
         /\ stack # <<>> /\ Top.at = "answer"
         /\ simple => \/ stack' = Below
                      \/ /\ source[Top.n].live /\ source'[Top.n].list \in Lists
                         /\ stack' = <<OfSource("emit", Top.n, Matching(rows)),
                                       OfSource("observe", Top.n, {})>> \o Below
         /\ ~simple => \/ stack' = Below
                       \/ source[Top.n].live /\ stack' = <<OfSource("emit", Top.n, Matching(rows))>> \o Below
<1> DEFINE n == Top.n
           list == Matching(rows)
<1>0. /\ UNCHANGED <<simple, calls, collection>> /\ stack # <<>> /\ Top.at = "answer"
      /\ IF simple THEN SimpleAnswer(n, list) ELSE ReloadingAnswer(n, list)
  BY DEF Answer, Running, Top, setting, entries
<1>1. n \in Sources /\ source[n] \in Observer /\ source \in Seq(Observer)
  BY <1>0, TopFrame DEF IInv, Fitting
<1>2. list \in Lists
  BY DEF Matching, Lists
<1> HIDE DEF n, list
<1>3. ASSUME source' = [source EXCEPT ![n] = [@ EXCEPT !.list = list, !.stale = FALSE]]
      PROVE  source'[n].list = list
  <2> DEFINE t == [source[n] EXCEPT !.list = list, !.stale = FALSE]
  <2>1. t.list = list
    BY <1>1 DEF Observer
  <2>2. source' = [source EXCEPT ![n] = t] /\ n \in DOMAIN source
    BY <1>1, <1>3 DEF Sources
  <2> HIDE DEF t
  <2>3. source'[n] = t
    BY <2>2
  <2> QED  BY <2>1, <2>3 DEF t
<1>4. CASE simple
  BY <1>0, <1>1, <1>2, <1>3, <1>4 DEF SimpleAnswer, n, list
<1>5. CASE ~simple
  BY <1>0, <1>1, <1>5 DEF ReloadingAnswer, StillSubscribed, n, list
<1> QED  BY <1>0, <1>1, <1>4, <1>5 DEF n

LEMMA OneAnswerKept ==
  ASSUME IInv, Next
  PROVE  OneAnswer'
<1> DEFINE N == Len(source)
<1>0. /\ TypeOK /\ Frames /\ stack \in Seq(Frame) /\ stack' \in Seq(Frame) /\ OneAnswer /\ N \in Nat
      /\ stack # <<>> => Top \in Fitting(N) /\ Below \in Seq(Lower(N)) /\ Below \in Seq(Frame)
      /\ stack # <<>> => Under(Below, stack)
  <2>1. TypeOK' /\ TypeOK /\ Frames /\ OneAnswer
    BY TypesKept DEF IInv
  <2>2. stack \in Seq(Frame) /\ stack' \in Seq(Frame)
    BY <2>1 DEF TypeOK
  <2>3. stack # <<>> => Under(Below, stack)
    BY <2>2, UnderSteps DEF Below
  <2> QED  BY <2>1, <2>2, <2>3, TopFrame, Fits, SeqMonotonic
<1>1. CASE Passing
  BY <1>0, <1>1, PassingStack, PassingCalls, OneAnswerFollows DEF Under
<1>2. CASE Answer
  <2>1. /\ UNCHANGED <<simple, calls,
                       collection>> /\ Top.n \in Sources /\ stack # <<>> /\ Top.at = "answer"
        /\ simple => \/ stack' = Below
                     \/ stack' = <<OfSource("emit", Top.n, Matching(rows)),
                                   OfSource("observe", Top.n, {})>> \o Below
    BY <1>2, AnswerStep
  <2>2. CASE ~simple
    BY <2>1, <2>2 DEF OneAnswer
  <2>3. CASE simple
    <3> DEFINE emit == OfSource("emit", Top.n, Matching(rows))
               observe == OfSource("observe", Top.n, {})
    <3>1. /\ ~Awaits(emit) /\ emit \in Frame /\ observe \in Frame /\ observe.n = Top.n
      <4>1. Sources = 1 .. N /\ Matching(rows) \in Lists /\ {} \in Lists
        BY TopFrame DEF IInv, Matching, Lists
      <4>2. observe.n = Top.n
        BY DEF OfSource, NoFrame
      <4> QED  BY <1>0, <2>1, <4>1, <4>2, NewFrames, Fits, OtherFrames
    <3> HIDE DEF emit, observe
    <3>2. \A k \in DOMAIN stack' : Awaits(stack'[k]) =>
           /\ k + Len(stack) - Len(stack') \in DOMAIN stack
           /\ Awaits(stack[k + Len(stack) - Len(stack')])
           /\ stack[k + Len(stack) - Len(stack')].n = stack'[k].n
      <4>1. CASE stack' = Below
        BY <1>0, <2>1, <4>1 DEF Under
      <4>2. CASE stack' = <<emit, observe>> \o Below
        <5>1. /\ Len(stack') = Len(Below) + 2 /\ stack'[1] = emit /\ stack'[2] = observe
              /\ \A k \in 1 .. Len(Below) : stack'[k + 2] = Below[k]
              /\ DOMAIN stack' = 1 .. Len(stack') /\ Len(Below) \in Nat /\ DOMAIN Below = 1 .. Len(Below)
          BY <1>0, <2>1, <3>1, <4>2, Places
        <5>2. /\ Len(stack) = Len(Below) + 1 /\ stack[1] = Top /\ DOMAIN stack = 1 .. Len(stack)
          BY <1>0, <2>1 DEF Top, Below
        <5>3. ASSUME NEW k \in DOMAIN stack', Awaits(stack'[k])
              PROVE  /\ k + Len(stack) - Len(stack') \in DOMAIN stack
                     /\ Awaits(stack[k + Len(stack) - Len(stack')])
                     /\ stack[k + Len(stack) - Len(stack')].n = stack'[k].n
          <6>1. CASE k = 1
            BY <3>1, <5>1, <5>3, <6>1
          <6>2. CASE k = 2
            <7>1. k + Len(stack) - Len(stack') = 1 /\ 1 \in DOMAIN stack
              BY <5>1, <5>2, <6>2
            <7>2. Awaits(Top)
              BY <2>1 DEF Awaits
            <7> QED  BY <3>1, <5>1, <5>2, <6>2, <7>1, <7>2
          <6>3. CASE k # 1 /\ k # 2
            <7>1. /\ k - 2 \in DOMAIN Below /\ k = (k - 2) + 2
                  /\ k - 2 + Len(stack) - Len(Below) = k + Len(stack) - Len(stack')
              BY <5>1, <5>2, <6>3
            <7>2. stack'[k] = Below[k - 2]
              BY <5>1, <7>1
            <7> QED  BY <1>0, <2>1, <5>3, <7>1, <7>2 DEF Under
          <6> QED  BY <6>1, <6>2, <6>3
        <5> QED  BY <5>3
      <4> QED  BY <2>1, <2>3, <4>1, <4>2 DEF emit, observe
    <3>3. \A i \in DOMAIN calls' : i \in Nat /\ (calls'[i].type = "fetch" => i + 0 \in DOMAIN calls /\ calls[i + 0] = calls'[i])
      BY <1>0, <2>1 DEF TypeOK
    <3>4. UNCHANGED simple /\ \A p \in DOMAIN collection' : \E q \in DOMAIN collection : collection'[p] = collection[q]
      BY <2>1
    <3>5. 0 \in Nat
      OBVIOUS
    <3> QED  BY ONLY <1>0, <3>2, <3>3, <3>4, <3>5, OneAnswerFollows
  <2> QED  BY <2>2, <2>3
<1>3. CASE Observe
  <2>1. /\ stack # <<>> /\ Top.at = "observe" /\ stack' = Below /\ UNCHANGED <<simple, calls>>
        /\ collection' \in {collection, Append(collection, <<Top.n, "simple">>)}
    BY <1>3 DEF Observe, Running, Top, setting
  <2>2. \A k \in DOMAIN Below : k + 1 \in DOMAIN stack /\ stack[k + 1] = Below[k] /\ k \in Nat \ {0}
    BY <1>0, <2>1 DEF Below
  <2>3. 1 \in DOMAIN stack /\ stack[1] = Top /\ Awaits(Top)
    BY <1>0, <2>1 DEF Top, Awaits
  <2>4. \A p \in DOMAIN collection' : collection'[p] = <<Top.n, "simple">> \/ \E q \in DOMAIN collection : collection'[p] = collection[q]
    <3> DEFINE e == <<Top.n, "simple">>
               Items2 == Nat \X {"columns", "simple"}
    <3>1. /\ Sources \X {"columns", "simple"} \subseteq Items2
          /\ collection \in Seq(Sources \X {"columns", "simple"}) /\ e \in Items2
      BY <1>0, <2>1, TopFrame DEF TypeOK, Fitting
    <3> HIDE DEF e, Items2
    <3>2. collection \in Seq(Items2)
      BY <3>1, SeqMonotonic
    <3>3. \A p \in DOMAIN Append(collection, e) :
            \/ Append(collection, e)[p] = e
            \/ p \in DOMAIN collection /\ Append(collection, e)[p] = collection[p]
      BY <3>1, <3>2, Appended
    <3>4. collection' = collection \/ collection' = Append(collection, e)
      BY <2>1 DEF e
    <3> QED  BY <3>3, <3>4 DEF e
  <2>5. \A m : <<m, "simple">> = <<Top.n, "simple">> => m = Top.n
    OBVIOUS
  <2>6. SUFFICES ASSUME simple
                 PROVE  OneAnswer'
    BY <2>1 DEF OneAnswer
  <2>7. \A i, j \in DOMAIN calls' :
          calls'[i].type = "fetch" /\ calls'[j].type = "fetch" /\ calls'[i].n = calls'[j].n => i = j
    BY <1>0, <2>1, <2>6 DEF OneAnswer
  <2>8. ASSUME NEW k \in DOMAIN stack', NEW l \in DOMAIN stack',
               Awaits(stack'[k]), Awaits(stack'[l]), stack'[k].n = stack'[l].n
        PROVE  k = l
    <3>1. k + 1 = l + 1
      BY <1>0, <2>1, <2>2, <2>6, <2>8 DEF OneAnswer
    <3> QED  BY <2>1, <2>2, <3>1
  <2>9. ASSUME NEW i \in DOMAIN calls', NEW k \in DOMAIN stack', calls'[i].type = "fetch", Awaits(stack'[k])
        PROVE  calls'[i].n # stack'[k].n
    BY <1>0, <2>1, <2>2, <2>6, <2>9 DEF OneAnswer
  <2>10. ASSUME NEW i \in DOMAIN calls', NEW p \in DOMAIN collection', calls'[i].type = "fetch"
         PROVE  collection'[p] # <<calls'[i].n, "simple">>
    <3>1. calls[i].n # Top.n /\ i \in DOMAIN calls /\ calls'[i] = calls[i]
      BY <1>0, <2>1, <2>3, <2>6, <2>10 DEF OneAnswer
    <3> QED  BY <1>0, <2>4, <2>5, <2>6, <2>10, <3>1 DEF OneAnswer
  <2>11. ASSUME NEW k \in DOMAIN stack', NEW p \in DOMAIN collection', Awaits(stack'[k])
         PROVE  collection'[p] # <<stack'[k].n, "simple">>
    <3>1. k + 1 # 1 /\ k + 1 \in DOMAIN stack /\ stack'[k] = stack[k + 1]
      BY <2>1, <2>2
    <3>2. stack[k + 1].n # Top.n
      BY <1>0, <2>3, <2>6, <2>11, <3>1 DEF OneAnswer
    <3> QED  BY <1>0, <2>4, <2>5, <2>6, <2>11, <3>1, <3>2 DEF OneAnswer
  <2> QED  BY <2>7, <2>8, <2>9, <2>10, <2>11 DEF OneAnswer
<1>4. CASE FetchIsAnswered
  <2>1. /\ calls # <<>> /\ Head(calls).type = "fetch" /\ calls' = Tail(calls)
        /\ stack' = <<OfSource("answer", Head(calls).n, {})>>
        /\ UNCHANGED <<simple, collection>>
    BY <1>4 DEF FetchIsAnswered, setting, entries
  <2>2. /\ \A i \in DOMAIN calls' : i \in Nat \ {0} /\ i + 1 \in DOMAIN calls /\ calls'[i] = calls[i + 1]
        /\ 1 \in DOMAIN calls /\ Head(calls) = calls[1]
    <3> DEFINE Calls == [type : {"fetch", "batch"}, n : Nat, rows : Rows, set : Lists]
    <3>1. calls \in Seq(Calls)
      BY <1>0 DEF TypeOK
    <3> HIDE DEF Calls
    <3> QED  BY <2>1, <3>1, HeadTailProperties
  <2>3. \A k \in DOMAIN stack' : k = 1 /\ stack'[k].n = calls[1].n
    <3> DEFINE f == OfSource("answer", Head(calls).n, {})
    <3>1. f.n = calls[1].n
      BY <2>2 DEF OfSource, NoFrame
    <3>2. stack' = <<f>>
      BY <2>1
    <3> HIDE DEF f
    <3> QED  BY <3>1, <3>2
  <2>4. SUFFICES ASSUME simple
                 PROVE  OneAnswer'
    BY <2>1 DEF OneAnswer
  <2>5. ASSUME NEW i \in DOMAIN calls', NEW j \in DOMAIN calls',
               calls'[i].type = "fetch", calls'[j].type = "fetch", calls'[i].n = calls'[j].n
        PROVE  i = j
    <3>1. i + 1 = j + 1
      BY <1>0, <2>2, <2>4, <2>5 DEF OneAnswer
    <3> QED  BY <2>2, <3>1
  <2>6. ASSUME NEW i \in DOMAIN calls', calls'[i].type = "fetch"
        PROVE  calls'[i].n # calls[1].n
    <3>1. i + 1 # 1
      BY <2>2
    <3> QED  BY <1>0, <2>1, <2>2, <2>4, <2>6, <3>1 DEF OneAnswer
  <2>7. \A i \in DOMAIN calls', p \in DOMAIN collection' :
          calls'[i].type = "fetch" => collection'[p] # <<calls'[i].n, "simple">>
    BY <1>0, <2>1, <2>2, <2>4 DEF OneAnswer
  <2>8. \A p \in DOMAIN collection' : collection'[p] # <<calls[1].n, "simple">>
    BY <1>0, <2>1, <2>2, <2>4 DEF OneAnswer
  <2> QED  BY <2>3, <2>5, <2>6, <2>7, <2>8 DEF OneAnswer
<1>5. CASE CallReloading
  <2>1. ~simple
    <3>1. In("database")
      BY <1>5 DEF CallReloading
    <3>2. database # <<>>
      BY <1>0, <3>1, DatabaseItem
    <3> QED  BY <3>2 DEF IInv, Arrays
  <2>2. UNCHANGED simple
    BY <1>5 DEF CallReloading, setting
  <2> QED  BY <2>1, <2>2 DEF OneAnswer
<1>6. CASE SubscribeSource
  <2>1. /\ UNCHANGED <<simple, synchronous, collection>> /\ stack # <<>>
        /\ calls' = FetchCalls(N + 1) /\ stack' = FetchFrames(N + 1) \o Below
    BY <1>6, SourceMadeForAll
  <2>2. Below \in Seq(Fitting(N)) /\ Under(Below, stack)
    BY <1>0, <2>1, Fits, SeqMonotonic
  <2>3. CASE simple
    BY <2>1, <2>2, <2>3, OneAnswerMade
  <2> QED  BY <2>1, <2>3 DEF OneAnswer
<1>7. ASSUME NEW u \in Subscribers, SubscribeWithColumns(u)
      PROVE  OneAnswer'
  <2> DEFINE joins == OfUser("subscribed", u, {})
  <2>1. /\ UNCHANGED <<simple, synchronous>> /\ Free
        /\ collection' = Append(collection, <<N + 1, "columns">>)
        /\ calls' = FetchCalls(N + 1) /\ stack' = FetchFrames(N + 1) \o (<<joins>> \o stack)
    BY <1>7, SourceMadeForOne
  <2>2. <<joins>> \o stack \in Seq(Fitting(N))
    <3>1. <<joins>> \o stack \in Seq(Lower(N))
      BY <1>0, <2>1, JoiningFrame
    <3> QED  BY <3>1, Fits, SeqMonotonic
  <2>3. Under(<<joins>> \o stack, stack)
    <3>1. joins \in Frame /\ ~Awaits(joins)
      <4>1. {} \in Lists
        BY DEF Lists
      <4> QED  BY <1>0, <4>1, NewFrames, Fits, OtherFrames
    <3> HIDE DEF joins
    <3> QED  BY <1>0, <3>1, UnderSteps
  <2> HIDE DEF joins
  <2>4. CASE simple
    BY <2>1, <2>2, <2>3, <2>4, OneAnswerMade
  <2> QED  BY <2>1, <2>4 DEF OneAnswer
<1> QED  BY <1>1, <1>2, <1>3, <1>4, <1>5, <1>6, <1>7 DEF Next, Passing

(* An observe frame was on the stack, but for the one an answer pushes.    *)
LEMMA ObserveFrames ==
  ASSUME IInv, Next, ~Answer, NEW k \in DOMAIN stack', stack'[k].at = "observe"
  PROVE  \E j \in DOMAIN stack : stack[j] = stack'[k]
<1> DEFINE N == Len(source)
<1>0. /\ TypeOK /\ Frames /\ stack \in Seq(Frame) /\ N \in Nat
      /\ stack # <<>> => Top \in Frame /\ Below \in Seq(Frame) /\ Under(Below, stack)
  <2>1. TypeOK /\ Frames /\ stack \in Seq(Frame)
    BY DEF IInv, TypeOK
  <2>2. stack # <<>> => Under(Below, stack)
    BY <2>1, UnderSteps DEF Below
  <2> QED  BY <2>1, <2>2, TopFrame, Fits, SeqMonotonic
<1>1. Under(stack', stack) => \E j \in DOMAIN stack : stack[j] = stack'[k]
  BY DEF Under, Awaits
<1>2. ASSUME NEW n \in 1 .. N + 1, NEW s \in Seq(Frame), Under(s, stack), stack' = FetchFrames(n) \o s
      PROVE  \E j \in DOMAIN stack : stack[j] = stack'[k]
  <2> DEFINE f == OfSource("answer", n, {})
  <2>1. f \in Frame /\ f.at = "answer"
    <3>1. {} \in Lists /\ N + 1 \in Nat
      BY <1>0 DEF Lists
    <3>2. f \in Fitting(N + 1)
      BY <3>1, NewFrames
    <3> QED  BY <3>1, <3>2, Fits DEF OfSource, NoFrame
  <2>2. stack' = s \/ stack' = <<f>> \o s
    BY <1>2, ConcatEmptySeq DEF FetchFrames
  <2> HIDE DEF f
  <2>3. CASE stack' = s
    BY <1>1, <1>2, <2>3
  <2>4. CASE stack' = <<f>> \o s
    <3>1. /\ DOMAIN stack' = 1 .. Len(s) + 1 /\ stack'[1] = f
          /\ \A l \in 1 .. Len(s) : stack'[l + 1] = s[l]
          /\ DOMAIN s = 1 .. Len(s) /\ Len(s) \in Nat
      BY <1>2, <2>1, <2>4, Places
    <3>2. k # 1
      BY <2>1, <3>1
    <3>3. k - 1 \in 1 .. Len(s) /\ k = (k - 1) + 1
      BY <3>1, <3>2
    <3>4. s[k - 1] = stack'[k] /\ k - 1 \in DOMAIN s
      BY <3>1, <3>3
    <3> QED  BY <1>2, <3>4 DEF Under, Awaits
  <2> QED  BY <2>2, <2>3, <2>4
<1>3. CASE Passing
  BY <1>1, <1>3, PassingStack
<1>4. CASE Observe
  BY <1>0, <1>1, <1>4 DEF Observe, Running
<1>5. CASE FetchIsAnswered
  <2> DEFINE f == OfSource("answer", Head(calls).n, {})
  <2>1. stack' = <<f>> /\ f.at = "answer"
    BY <1>5 DEF FetchIsAnswered, OfSource, NoFrame
  <2> HIDE DEF f
  <2>2. k = 1 /\ stack'[1] = f
    BY <2>1
  <2> QED  BY <2>1, <2>2
<1>6. CASE CallReloading
  <2> DEFINE moved == Moved(Top)
  <2>1. /\ stack # <<>> /\ Top.at = "database" /\ In("database")
        /\ stack' = FetchFrames(NextOf(Top)) \o <<moved>> \o Below
    BY <1>6 DEF CallReloading, In, Running, Top
  <2>2. moved \in Frame /\ ~Awaits(moved)
    BY <1>0, <2>1, LoopFrames, Fits DEF Awaits
  <2>3. NextOf(Top) \in 1 .. N + 1
    BY <1>0, <2>1, DatabaseItem, TopFrame
  <2> HIDE DEF moved
  <2>4. stack' = FetchFrames(NextOf(Top)) \o (<<moved>> \o Below)
    BY <1>0, <2>1, <2>2 DEF FetchFrames
  <2>5. <<moved>> \o Below \in Seq(Frame) /\ Under(<<moved>> \o Below, stack)
    BY <1>0, <2>1, <2>2, Pushed, UnderSteps
  <2> QED  BY <1>2, <2>3, <2>4, <2>5
<1>7. CASE SubscribeSource
  <2>1. stack # <<>> /\ stack' = FetchFrames(N + 1) \o Below
    BY <1>7, SourceMadeForAll
  <2>2. N + 1 \in 1 .. N + 1
    BY <1>0
  <2>3. PICK n \in 1 .. N + 1 : n = N + 1
    BY <2>2
  <2>4. stack' = FetchFrames(n) \o Below
    BY <2>1, <2>3
  <2>5. Below \in Seq(Frame) /\ Under(Below, stack)
    BY <1>0, <2>1
  <2> HIDE DEF N
  <2> QED  BY <1>2, <2>4, <2>5
<1>8. ASSUME NEW u \in Subscribers, SubscribeWithColumns(u)
      PROVE  \E j \in DOMAIN stack : stack[j] = stack'[k]
  <2> DEFINE joins == OfUser("subscribed", u, {})
  <2>1. stack' = FetchFrames(N + 1) \o (<<joins>> \o stack) /\ N + 1 \in 1 .. N + 1
    <3>1. stack' = FetchFrames(N + 1) \o (<<joins>> \o stack)
      BY <1>8, SourceMadeForOne
    <3>2. N + 1 \in 1 .. N + 1
      BY <1>0
    <3> QED  BY <3>1, <3>2
  <2>2. joins \in Frame /\ ~Awaits(joins)
    <3>1. {} \in Lists
      BY DEF Lists
    <3> QED  BY <1>0, <3>1, NewFrames, Fits, OtherFrames
  <2> HIDE DEF joins
  <2>3. <<joins>> \o stack \in Seq(Frame) /\ Under(<<joins>> \o stack, stack)
    BY <1>0, <2>2, Pushed, UnderSteps
  <2> QED  BY <1>2, <2>1, <2>3
<1> QED  BY <1>3, <1>4, <1>5, <1>6, <1>7, <1>8 DEF Next, Passing

(* Where observers come from.                                              *)
LEMMA ObserversKept ==
  ASSUME IInv, Next
  PROVE  /\ UNCHANGED simple /\ Len(source') >= Len(source) /\ Len(source) \in Nat
         /\ Sources = 1 .. Len(source)
         /\ \A n \in Sources : /\ source'[n].live => source[n].live
                               /\ source'[n].live /\ source[n].list \in Lists => source'[n].list \in Lists
<1>0. Sources = 1 .. Len(source) /\ Len(source) \in Nat
  BY TopFrame DEF IInv
<1>1. CASE Ordinary
  BY <1>0, <1>1, OrdinarySteps DEF SameObservers
<1>2. CASE Subscribed
  BY <1>0, <1>2, JoinedStep
<1>3. ASSUME NEW u \in Subscribers, Subscribe(u)
      PROVE  UNCHANGED <<simple, source>>
  BY <1>3 DEF Subscribe, setting
<1>4. ASSUME NEW u \in Subscribers, Unsubscribe(u)
      PROVE  UNCHANGED <<simple, source>>
  BY <1>4, LeavingSteps
<1>5. ASSUME NEW u \in Subscribers, UnsubscribeColumns(u) \/ UnsubscribeLast(u)
      PROVE  UNCHANGED simple /\ \E n : Ends(n)
  BY <1>5, LeavingSteps
<1>6. CASE SubscribeSource
  BY <1>0, <1>6, SourceMadeForAll
<1>7. ASSUME NEW u \in Subscribers, SubscribeWithColumns(u)
      PROVE  /\ UNCHANGED simple /\ Len(source') = Len(source) + 1
             /\ \A m \in Sources : source'[m] = source[m]
  BY <1>7, SourceMadeForOne
<1>8. ASSUME NEW n, Ends(n)
      PROVE  /\ Len(source') >= Len(source)
             /\ \A m \in Sources : /\ source'[m].live => source[m].live
                                   /\ source'[m].live /\ source[m].list \in Lists => source'[m].list \in Lists
  BY <1>0, <1>8 DEF Ends
<1> QED  BY <1>0, <1>1, <1>2, <1>3, <1>4, <1>5, <1>6, <1>7, <1>8 DEF Next, Ordinary

LEMMA ObservingKept ==
  ASSUME IInv, Next
  PROVE  Observing'
<1> SUFFICES ASSUME NEW k \in DOMAIN stack', stack'[k].at = "observe"
             PROVE  /\ simple'
                    /\ source'[stack'[k].n].live => source'[stack'[k].n].list \in Lists
  BY DEF Observing
<1>1. CASE ~Answer
  <2>1. PICK j \in DOMAIN stack : stack[j] = stack'[k]
    BY <1>1, ObserveFrames
  <2>2. stack[j].n \in Sources /\ stack[j].at = "observe"
    <3>1. stack \in Seq(Fitting(Len(source))) /\ Sources = 1 .. Len(source)
      BY TopFrame DEF IInv, Frames, Shaped
    <3>2. stack[j] \in Fitting(Len(source))
      BY <3>1
    <3> QED  BY <2>1, <3>1, <3>2 DEF Fitting
  <2> QED  BY <2>1, <2>2, ObserversKept DEF IInv, Observing
<1>2. CASE Answer
  <2> DEFINE n == Top.n
             emit == OfSource("emit", n, Matching(rows))
             observe == OfSource("observe", n, {})
  <2>0. /\ UNCHANGED simple /\ n \in Sources /\ stack # <<>> /\ stack \in Seq(Frame)
        /\ Below \in Seq(Frame) /\ Observing
        /\ simple => \/ stack' = Below
                     \/ /\ source'[n].list \in Lists
                        /\ stack' = <<emit, observe>> \o Below
        /\ ~simple => stack' = Below \/ stack' = <<emit>> \o Below
    <3>1. TypeOK /\ Frames /\ stack \in Seq(Frame) /\ Observing
      BY DEF IInv, TypeOK
    <3> QED  BY <1>2, <3>1, AnswerStep, TopFrame, Fits, SeqMonotonic
  <2>1. emit \in Frame /\ observe \in Frame /\ emit.at = "emit" /\ observe.n = n
    <3>1. Matching(rows) \in Lists /\ {} \in Lists /\ Sources = 1 .. Len(source) /\ Len(source) \in Nat
      BY TopFrame DEF IInv, Matching, Lists
    <3>2. emit.at = "emit" /\ observe.n = n
      BY DEF OfSource, NoFrame
    <3> QED  BY <2>0, <3>1, <3>2, NewFrames, Fits
  <2> HIDE DEF n, emit, observe
  <2>2. \A l \in DOMAIN Below : Below[l] = stack[l + 1] /\ l + 1 \in DOMAIN stack
    BY <2>0 DEF Below
  <2>3. ASSUME NEW l \in DOMAIN Below, stack'[k] = Below[l]
        PROVE  /\ simple'
               /\ source'[stack'[k].n].live => source'[stack'[k].n].list \in Lists
    <3>1. PICK j \in DOMAIN stack : stack[j] = stack'[k]
      BY <2>2, <2>3
    <3>2. stack[j].n \in Sources /\ stack[j].at = "observe"
      <4>1. stack \in Seq(Fitting(Len(source))) /\ Sources = 1 .. Len(source)
        BY TopFrame DEF IInv, Frames, Shaped
      <4>2. stack[j] \in Fitting(Len(source))
        BY <4>1
      <4> QED  BY <3>1, <4>1, <4>2 DEF Fitting
    <3> QED  BY <3>1, <3>2, ObserversKept DEF IInv, Observing
  <2>4. CASE stack' = Below
    BY <2>3, <2>4
  <2>5. CASE stack' = <<emit>> \o Below
    <3>1. /\ DOMAIN stack' = 1 .. Len(Below) + 1 /\ stack'[1] = emit
          /\ \A l \in 1 .. Len(Below) : stack'[l + 1] = Below[l]
          /\ DOMAIN Below = 1 .. Len(Below) /\ Len(Below) \in Nat
      BY <2>0, <2>1, <2>5, Places
    <3>2. k # 1
      BY <2>1, <3>1
    <3>3. k - 1 \in 1 .. Len(Below) /\ k = (k - 1) + 1
      BY <3>1, <3>2
    <3>4. k - 1 \in DOMAIN Below /\ stack'[k] = Below[k - 1]
      BY <3>1, <3>3
    <3> QED  BY <2>3, <3>4
  <2>6. CASE simple /\ source'[n].list \in Lists /\ stack' = <<emit, observe>> \o Below
    <3>1. /\ DOMAIN stack' = 1 .. Len(Below) + 2 /\ stack'[1] = emit /\ stack'[2] = observe
          /\ \A l \in 1 .. Len(Below) : stack'[l + 2] = Below[l]
          /\ DOMAIN Below = 1 .. Len(Below) /\ Len(Below) \in Nat
      BY <2>0, <2>1, <2>6, Places
    <3>2. k # 1
      BY <2>1, <3>1
    <3>3. CASE k = 2
      BY <2>0, <2>1, <2>6, <3>1, <3>3
    <3>4. CASE k # 2
      <4>1. k - 2 \in 1 .. Len(Below) /\ k = (k - 2) + 2
        BY <3>1, <3>2, <3>4
      <4>2. k - 2 \in DOMAIN Below /\ stack'[k] = Below[k - 2]
        BY <3>1, <4>1
      <4> QED  BY <2>3, <4>2
    <3> QED  BY <3>3, <3>4
  <2> QED  BY <2>0, <2>4, <2>5, <2>6
<1> QED  BY <1>1, <1>2

(* An entry that is new to an array is there once.                         *)
LEMMA AppendedAlike ==
  ASSUME NEW S, NEW s \in Seq(S), NEW e \in S, Alike(s), \A i \in DOMAIN s : s[i] # e
  PROVE  /\ Alike(Append(s, e))
         /\ \A i \in DOMAIN Append(s, e) : \/ Append(s, e)[i] = e
                                           \/ \E j \in DOMAIN s : Append(s, e)[i] = s[j]
<1> DEFINE t == Append(s, e)
<1>1. \A i \in DOMAIN t : \/ i = Len(s) + 1 /\ t[i] = e
                          \/ i \in DOMAIN s /\ t[i] = s[i]
  BY Appended
<1> HIDE DEF t
<1>2. \A i \in DOMAIN t : t[i] = e \/ \E j \in DOMAIN s : t[i] = s[j]
  BY <1>1
<1>3. Alike(t)
  BY <1>1 DEF Alike
<1> QED  BY <1>2, <1>3 DEF t

(* The arrays after a step: as they were, longer by an entry of a live     *)
(* observer that had none, or without the entries of one that ended.       *)
LEMMA EntriesOfOrdinary ==
  ASSUME IInv, Ordinary, ~Observe
  PROVE  UNCHANGED collection
<1>1. CASE \/ Answer \/ AnswerIsError \/ EmitWithColumns \/ EmitShared \/ EmitThrows \/ Tell \/ Return
           \/ LoopEnds \/ CallReloading \/ CallSimple \/ CallColumns \/ CallSubscriber
  BY <1>1 DEF Answer, AnswerIsError, EmitWithColumns, EmitShared, EmitThrows, Tell, Return, LoopEnds,
              CallReloading, CallSimple, CallColumns, CallSubscriber, entries
<1>2. CASE \/ SourceIsThere \/ Write \/ FetchIsAnswered \/ BatchIsAnswered \/ BatchIsRejected
           \/ Notify \/ NotifySubscribers \/ StopHolding
  BY <1>2 DEF SourceIsThere, Write, FetchIsAnswered, BatchIsAnswered, BatchIsRejected, BatchAnswer,
              Notify, NotifySubscribers, StopHolding, entries
<1> QED  BY <1>1, <1>2 DEF Ordinary

LEMMA ObserveStep ==
  ASSUME IInv, Observe
  PROVE  /\ simple /\ Top.n \in Sources
         /\ \/ UNCHANGED collection
            \/ /\ source[Top.n].live /\ source[Top.n].list \in Lists
               /\ collection' = Append(collection, <<Top.n, "simple">>)
               /\ \A p \in DOMAIN collection : collection[p] # <<Top.n, "simple">>
<1>1. /\ stack # <<>> /\ Top.at = "observe"
      /\ collection' = IF source[Top.n].live THEN Append(collection, <<Top.n, "simple">>) ELSE collection
  BY DEF Observe, Running, Top, MayObserve
<1>2. 1 \in DOMAIN stack /\ stack[1] = Top /\ Awaits(Top)
  BY <1>1 DEF IInv, TypeOK, Top, Awaits
<1>3. Top.n \in Sources
  BY <1>1, TopFrame DEF IInv, Fitting
<1>4. simple /\ (source[Top.n].live => source[Top.n].list \in Lists)
  BY <1>1, <1>2 DEF IInv, Observing
<1>5. \A p \in DOMAIN collection : collection[p] # <<Top.n, "simple">>
  BY <1>2, <1>4 DEF IInv, OneAnswer
<1> QED  BY <1>1, <1>3, <1>4, <1>5

LEMMA EntriesMade ==
  ASSUME IInv, UNCHANGED simple, NEW owner,
         \A m \in Sources : source'[m] = source[m], source'[Len(source) + 1] = Made(owner),
         database' = IF simple THEN database ELSE Append(database, Len(source) + 1),
         \/ UNCHANGED collection
         \/ owner # Nobody /\ collection' = Append(collection, <<Len(source) + 1, "columns">>)
  PROVE  Arrays' /\ NothingStaysSubscribed'
<1> DEFINE N == Len(source) + 1
           Items2 == Nat \X {"columns", "simple"}
           e == <<N, "columns">>
<1>0. /\ Sources = 1 .. Len(source) /\ N \notin Sources /\ N \in Nat
      /\ database \in Seq(Nat) /\ collection \in Seq(Items2)
      /\ \A i \in DOMAIN database : database[i] \in Sources
      /\ \A i \in DOMAIN collection : collection[i][1] \in Sources
      /\ Arrays /\ NothingStaysSubscribed
  <2>1. /\ Sources = 1 .. Len(source) /\ Len(source) \in Nat
        /\ database \in Seq(Sources) /\ collection \in Seq(Sources \X {"columns", "simple"})
    BY TopFrame DEF IInv, TypeOK
  <2>2. Sources \subseteq Nat /\ Sources \X {"columns", "simple"} \subseteq Items2
    BY <2>1
  <2>3. database \in Seq(Nat) /\ collection \in Seq(Items2)
    BY <2>1, <2>2, SeqMonotonic
  <2>4. /\ \A i \in DOMAIN database : database[i] \in Sources
        /\ \A i \in DOMAIN collection : collection[i] \in Sources \X {"columns", "simple"}
    BY <2>1
  <2> QED  BY <2>1, <2>3, <2>4 DEF IInv
<1>1. source'[N].live /\ source'[N].owner = owner
  BY DEF Made
<1>2. e \in Items2 /\ e[1] = N /\ e[2] = "columns"
  BY <1>0
<1> HIDE DEF N, e, Items2
<1>3. /\ Alike(database') /\ (simple => database' = <<>>)
      /\ \A i \in DOMAIN database' : database'[i] = N \/ \E j \in DOMAIN database : database'[i] = database[j]
  <2>1. CASE simple
    <3>1. database' = database /\ database = <<>> /\ Alike(database)
      BY <1>0, <2>1 DEF Arrays
    <3> QED  BY <3>1
  <2>2. CASE ~simple
    <3>1. \A i \in DOMAIN database : database[i] # N
      BY <1>0
    <3>2. database' = Append(database, N) /\ Alike(database)
      BY <1>0, <2>2 DEF Arrays, N
    <3>3. N \in Nat /\ database \in Seq(Nat)
      BY <1>0
    <3>4. /\ Alike(Append(database, N))
          /\ \A i \in DOMAIN Append(database, N) :
               \/ Append(database, N)[i] = N
               \/ \E j \in DOMAIN database : Append(database, N)[i] = database[j]
      BY ONLY <3>1, <3>2, <3>3, AppendedAlike
    <3> QED  BY <2>2, <3>2, <3>4
  <2> QED  BY <2>1, <2>2
<1>4. /\ Alike(collection')
      /\ \A i \in DOMAIN collection' : \/ collection'[i] = e /\ owner # Nobody
                                       \/ \E j \in DOMAIN collection : collection'[i] = collection[j]
  <2>1. CASE UNCHANGED collection
    BY <1>0, <2>1 DEF Arrays
  <2>2. CASE owner # Nobody /\ collection' = Append(collection, e)
    <3>1. \A i \in DOMAIN collection : collection[i] # e
      BY <1>0, <1>2
    <3>2. Alike(collection)
      BY <1>0 DEF Arrays
    <3> QED  BY <1>0, <1>2, <2>2, <3>1, <3>2, AppendedAlike
  <2> QED  BY <2>1, <2>2 DEF e, N
<1>5. ASSUME NEW i \in DOMAIN collection'
      PROVE  /\ collection'[i][2] = "simple" => simple' /\ source'[collection'[i][1]].list \in Lists
             /\ collection'[i][2] = "columns" => source'[collection'[i][1]].owner # Nobody
             /\ source'[collection'[i][1]].live
  <2>1. CASE collection'[i] = e /\ owner # Nobody
    BY <1>1, <1>2, <2>1
  <2>2. ASSUME NEW j \in DOMAIN collection, collection'[i] = collection[j]
        PROVE  /\ collection'[i][2] = "simple" => simple' /\ source'[collection'[i][1]].list \in Lists
               /\ collection'[i][2] = "columns" => source'[collection'[i][1]].owner # Nobody
               /\ source'[collection'[i][1]].live
    BY <1>0, <2>2 DEF Arrays, NothingStaysSubscribed
  <2> QED  BY <1>4, <2>1, <2>2
<1>6. ASSUME NEW i \in DOMAIN database'
      PROVE  source'[database'[i]].live
  <2>1. CASE database'[i] = N
    BY <1>1, <2>1
  <2>2. ASSUME NEW j \in DOMAIN database, database'[i] = database[j]
        PROVE  source'[database'[i]].live
    <3>1. source[database[j]].live /\ source'[database[j]] = source[database[j]]
      BY <1>0 DEF NothingStaysSubscribed
    <3> QED  BY <2>2, <3>1
  <2> QED  BY <1>3, <1>6, <2>1, <2>2
<1> QED  BY <1>3, <1>4, <1>5, <1>6 DEF Arrays, NothingStaysSubscribed

LEMMA EntriesEnded ==
  ASSUME IInv, UNCHANGED simple, NEW n, Ends(n)
  PROVE  Arrays' /\ NothingStaysSubscribed'
<1> DEFINE Items2 == Sources \X {"columns", "simple"}
           e == <<n, "simple">>
           f == <<n, "columns">>
           c == Without(collection, e)
<1>0. /\ database \in Seq(Sources) /\ collection \in Seq(Items2) /\ Arrays /\ NothingStaysSubscribed
      /\ \A i \in DOMAIN database : database[i] \in Sources
      /\ \A i \in DOMAIN collection : collection[i] \in Items2
  BY DEF IInv, TypeOK
<1>1. /\ Alike(database') /\ (simple => database' = <<>>)
      /\ \A i \in DOMAIN database' : database'[i] # n /\ \E j \in DOMAIN database : database'[i] = database[j]
  <2>1. database' = Without(database, n) /\ Alike(database) /\ (simple => database = <<>>)
    BY <1>0 DEF Ends, Arrays
  <2>2. simple => database' = <<>>
    BY <2>1 DEF Without
  <2> QED  BY <1>0, <2>1, <2>2, Removed
<1>2. collection' = Without(c, f) /\ Alike(collection)
  BY <1>0 DEF Ends, Arrays
<1>3. \A x \in Items2 : x # e /\ x # f => x[1] # n
  OBVIOUS
<1> HIDE DEF Items2, e, f
<1>4. /\ c \in Seq(Items2) /\ Alike(c)
      /\ \A i \in DOMAIN c : c[i] # e /\ \E j \in DOMAIN collection : c[i] = collection[j]
  BY <1>0, <1>2, Removed
<1> HIDE DEF c
<1>5. /\ Alike(collection')
      /\ \A i \in DOMAIN collection' : collection'[i] # f /\ \E j \in DOMAIN c : collection'[i] = c[j]
  BY <1>2, <1>4, Removed
<1>6. \A i \in DOMAIN collection' : /\ collection'[i][1] # n /\ collection'[i][1] \in Sources
                                    /\ \E j \in DOMAIN collection : collection'[i] = collection[j]
  <2> SUFFICES ASSUME NEW i \in DOMAIN collection'
               PROVE  /\ collection'[i][1] # n /\ collection'[i][1] \in Sources
                      /\ \E j \in DOMAIN collection : collection'[i] = collection[j]
    OBVIOUS
  <2>1. PICK j \in DOMAIN collection : collection'[i] = collection[j] /\ collection'[i] # f /\ collection'[i] # e
    BY <1>4, <1>5
  <2>2. collection[j] \in Items2
    BY <1>0
  <2>3. collection[j][1] \in Sources
    BY <2>2 DEF Items2
  <2> QED  BY <1>3, <2>1, <2>2, <2>3
<1>7. /\ \A m \in Sources : /\ source'[m].owner = source[m].owner
                            /\ source'[m].live <=> source[m].live /\ m # n
                            /\ m # n => source'[m].list = source[m].list
  BY DEF Ends
<1>8. ASSUME NEW i \in DOMAIN collection'
      PROVE  /\ collection'[i][2] = "simple" => simple' /\ source'[collection'[i][1]].list \in Lists
             /\ collection'[i][2] = "columns" => source'[collection'[i][1]].owner # Nobody
             /\ source'[collection'[i][1]].live
  <2>1. PICK j \in DOMAIN collection : collection'[i] = collection[j]
    BY <1>6
  <2> QED  BY <1>0, <1>6, <1>7, <2>1 DEF Arrays, NothingStaysSubscribed
<1>9. ASSUME NEW i \in DOMAIN database'
      PROVE  source'[database'[i]].live
  BY <1>0, <1>1, <1>7, <1>9 DEF NothingStaysSubscribed
<1> QED  BY <1>1, <1>5, <1>8, <1>9 DEF Arrays, NothingStaysSubscribed

LEMMA EntriesKept ==
  ASSUME IInv, Next
  PROVE  Arrays' /\ NothingStaysSubscribed'
<1> DEFINE Items2 == Sources \X {"columns", "simple"}
<1>0. /\ database \in Seq(Sources) /\ collection \in Seq(Items2) /\ Arrays /\ NothingStaysSubscribed
      /\ \A i \in DOMAIN database : database[i] \in Sources
      /\ \A i \in DOMAIN collection : collection[i] \in Items2
  BY DEF IInv, TypeOK
<1>i. \A i \in DOMAIN collection : collection[i][1] \in Sources
  BY <1>0
<1> HIDE DEF Items2
<1>1. ASSUME SameObservers, UNCHANGED <<simple, database, collection>>
      PROVE  Arrays' /\ NothingStaysSubscribed'
  BY <1>0, <1>i, <1>1 DEF SameObservers, Arrays, NothingStaysSubscribed
<1>2. CASE Ordinary /\ ~Observe
  BY <1>1, <1>2, OrdinarySteps, EntriesOfOrdinary
<1>3. CASE Observe
  <2> DEFINE e == <<Top.n, "simple">>
  <2>1. SameObservers /\ UNCHANGED <<simple, database>>
    BY <1>3, OrdinarySteps DEF Ordinary
  <2>2. CASE UNCHANGED collection
    BY <1>1, <2>1, <2>2
  <2>3. CASE ~UNCHANGED collection
    <3>1. /\ simple /\ Top.n \in Sources /\ source[Top.n].live /\ source[Top.n].list \in Lists
          /\ collection' = Append(collection, e)
          /\ \A p \in DOMAIN collection : collection[p] # e
      BY <1>3, <2>3, ObserveStep
    <3>2. e \in Items2 /\ e[1] = Top.n /\ e[2] = "simple"
      BY <3>1 DEF Items2
    <3> HIDE DEF e
    <3>3. Alike(collection)
      BY <1>0 DEF Arrays
    <3>4. /\ Alike(collection')
          /\ \A i \in DOMAIN collection' : collection'[i] = e \/ \E j \in DOMAIN collection : collection'[i] = collection[j]
      BY <1>0, <3>1, <3>2, <3>3, AppendedAlike
    <3>5. ASSUME NEW i \in DOMAIN collection'
          PROVE  /\ collection'[i][2] = "simple" => simple' /\ source'[collection'[i][1]].list \in Lists
                 /\ collection'[i][2] = "columns" => source'[collection'[i][1]].owner # Nobody
                 /\ source'[collection'[i][1]].live
      <4>1. CASE collection'[i] = e
        BY <2>1, <3>1, <3>2, <4>1 DEF SameObservers
      <4>2. ASSUME NEW j \in DOMAIN collection, collection'[i] = collection[j]
            PROVE  /\ collection'[i][2] = "simple" => simple' /\ source'[collection'[i][1]].list \in Lists
                   /\ collection'[i][2] = "columns" => source'[collection'[i][1]].owner # Nobody
                   /\ source'[collection'[i][1]].live
        BY <1>0, <1>i, <2>1, <4>2 DEF SameObservers, Arrays, NothingStaysSubscribed
      <4> QED  BY <3>4, <4>1, <4>2
    <3>6. Alike(database') /\ (simple' => database' = <<>>) /\ \A i \in DOMAIN database' : source'[database'[i]].live
      BY <1>0, <2>1 DEF SameObservers, Arrays, NothingStaysSubscribed
    <3> QED  BY <3>4, <3>5, <3>6 DEF Arrays, NothingStaysSubscribed
  <2> QED  BY <2>2, <2>3
<1>4. CASE Subscribed
  BY <1>0, <1>4, JoinedStep DEF Arrays, NothingStaysSubscribed
<1>5. ASSUME NEW u \in Subscribers, Subscribe(u)
      PROVE  Arrays' /\ NothingStaysSubscribed'
  BY <1>0, <1>5 DEF Subscribe, setting, entries, Arrays, NothingStaysSubscribed
<1>6. ASSUME NEW u \in Subscribers, Unsubscribe(u)
      PROVE  Arrays' /\ NothingStaysSubscribed'
  BY <1>0, <1>6, LeavingSteps DEF Arrays, NothingStaysSubscribed
<1>7. ASSUME NEW u \in Subscribers, UnsubscribeColumns(u) \/ UnsubscribeLast(u)
      PROVE  Arrays' /\ NothingStaysSubscribed'
  <2>1. UNCHANGED simple /\ \E n : Ends(n)
    BY <1>7, LeavingSteps
  <2> QED  BY <2>1, EntriesEnded
<1>8. CASE SubscribeSource
  BY <1>8, SourceMadeForAll, EntriesMade
<1>9. ASSUME NEW u \in Subscribers, SubscribeWithColumns(u)
      PROVE  Arrays' /\ NothingStaysSubscribed'
  BY <1>9, SourceMadeForOne, EntriesMade
<1> QED  BY <1>2, <1>3, <1>4, <1>5, <1>6, <1>7, <1>8, <1>9 DEF Next, Ordinary

(* What is under the top frame, or just started a loop, calls nobody.      *)
LEMMA NobodyCalled ==
  ASSUME stack' = <<>> \/ Head(stack').at \notin {"emit", "tell"}
  PROVE  Called'
  BY DEF Called, Running

LEMMA TopCalls ==
  ASSUME NEW f, stack' # <<>>, Head(stack') = f,
         f.at = "tell" => phase'[f.u] \in Here, f.at = "emit" => source'[f.n].live
  PROVE  Called'
  BY DEF Called, Running, Top

LEMMA FetchCallsNobody ==
  ASSUME NEW n, NEW S, NEW s \in Seq(S), stack' = FetchFrames(n) \o s,
         s = <<>> \/ Head(s).at \notin {"emit", "tell"}
  PROVE  Called'
<1> DEFINE f == OfSource("answer", n, {})
<1>1. f.at = "answer"
  BY DEF OfSource, NoFrame
<1>2. stack' = s \/ stack' = <<f>> \o s
  BY ConcatEmptySeq DEF FetchFrames
<1> HIDE DEF f
<1>3. CASE stack' = s
  BY <1>3, NobodyCalled
<1>4. CASE stack' = <<f>> \o s
  <2>1. Head(stack') = f
    BY <1>4
  <2> QED  BY <1>1, <2>1, NobodyCalled
<1> QED  BY <1>2, <1>3, <1>4

LEMMA CalledKept ==
  ASSUME IInv, Next
  PROVE  Called'
<1> DEFINE N == Len(source)
<1>0. /\ TypeOK /\ Frames /\ Owners /\ Sharers /\ Called /\ NothingStaysSubscribed /\ Arrays
      /\ stack \in Seq(Frame) /\ N \in Nat /\ Sources = 1 .. N /\ \A n \in Sources : source[n] \in Observer
      /\ stack # <<>> => /\ Top \in Fitting(N) /\ Top \in Frame
                         /\ Below \in Seq(Lower(N)) /\ Below \in Seq(Frame)
  <2>1. TypeOK /\ Frames
    BY DEF IInv
  <2> QED  BY <2>1, TopFrame, Fits, SeqMonotonic DEF IInv, TypeOK
<1>b. stack # <<>> => Below = <<>> \/ Head(Below).at \notin {"emit", "tell"}
  <2> SUFFICES ASSUME stack # <<>>, Below # <<>>
               PROVE  Head(Below).at \notin {"emit", "tell"}
    OBVIOUS
  <2>1. Head(Below) \in Lower(N)
    BY <1>0
  <2> QED  BY <2>1 DEF Lower
<1>f. Free => stack = <<>> \/ Head(stack).at \notin {"emit", "tell"}
  BY DEF Free, Running
<1>1. CASE Answer
  <2> DEFINE emit == OfSource("emit", Top.n, Matching(rows))
             observe == OfSource("observe", Top.n, {})
  <2>1. /\ Top.n \in Sources /\ stack # <<>>
        /\ \/ stack' = Below
           \/ source[Top.n].live /\ stack' = <<emit, observe>> \o Below
           \/ source[Top.n].live /\ stack' = <<emit>> \o Below
    BY <1>1, AnswerStep
  <2>2. emit.at = "emit" /\ emit.n = Top.n
    BY DEF OfSource, NoFrame
  <2> HIDE DEF emit, observe
  <2>3. source'[Top.n].live = source[Top.n].live
    BY <1>1, <2>1, OrdinarySteps DEF Ordinary, SameObservers
  <2>4. CASE stack' = Below
    BY <1>b, <2>1, <2>4, NobodyCalled
  <2>5. CASE source[Top.n].live /\ (stack' = <<emit, observe>> \o Below \/ stack' = <<emit>> \o Below)
    <3>1. stack' # <<>> /\ Head(stack') = emit
      BY <1>0, <2>1, <2>5
    <3> QED  BY <2>2, <2>3, <2>5, <3>1, TopCalls
  <2> QED  BY <2>1, <2>4, <2>5
<1>2. CASE \/ AnswerIsError \/ Observe \/ Return \/ LoopEnds \/ SourceIsThere \/ Subscribed
  <2>1. stack # <<>> /\ stack' = Below
    BY <1>2 DEF AnswerIsError, Observe, Return, LoopEnds, SourceIsThere, Subscribed, Running
  <2> QED  BY <1>b, <2>1, NobodyCalled
<1>3. CASE EmitWithColumns
  <2> DEFINE s == source[Top.n]
             tell == [OfUser("tell", s.owner, Top.set) EXCEPT !.n = Top.n]
  <2>1. /\ stack # <<>> /\ Top.at = "emit" /\ s.owner # Nobody /\ UNCHANGED phase
        /\ stack' = Below \/ (s.live /\ stack' = <<tell>> \o Below)
    BY <1>3 DEF EmitWithColumns, Running, Top, people
  <2>2. tell.at = "tell" /\ tell.u = s.owner
    BY DEF OfUser, NoFrame
  <2> HIDE DEF tell
  <2>3. CASE stack' = Below
    BY <1>b, <2>1, <2>3, NobodyCalled
  <2>4. CASE s.live /\ stack' = <<tell>> \o Below
    <3>1. Top.n \in Sources
      BY <1>0, <2>1 DEF Fitting
    <3>2. phase'[s.owner] \in Here
      BY <1>0, <2>1, <2>4, <3>1 DEF Owners
    <3>3. stack' # <<>> /\ Head(stack') = tell
      BY <1>0, <2>1, <2>4
    <3> QED  BY <2>2, <3>2, <3>3, TopCalls
  <2> QED  BY <2>1, <2>3, <2>4
<1>4. CASE EmitShared \/ Tell
  <2> DEFINE shares == OfSource("shared", Top.n, Top.set)
             user == OfUser("user", Top.u, {})
  <2>1. stack # <<>> /\ (stack' = <<shares>> \o Below \/ stack' = <<user>> \o Below)
    BY <1>4 DEF EmitShared, Tell, Running
  <2>2. shares.at = "shared" /\ user.at = "user"
    BY DEF OfSource, OfUser, NoFrame
  <2> HIDE DEF shares, user
  <2>3. Head(stack') \in {shares, user}
    BY <1>0, <2>1
  <2> QED  BY <2>2, <2>3, NobodyCalled
<1>5. CASE EmitThrows
  BY <1>5, NobodyCalled DEF EmitThrows
<1>6. CASE CallReloading
  <2> DEFINE moved == Moved(Top)
  <2>1. /\ stack # <<>> /\ Top.at = "database"
        /\ stack' = FetchFrames(NextOf(Top)) \o <<moved>> \o Below
    BY <1>6 DEF CallReloading, In, Running, Top
  <2>2. moved \in Frame /\ moved.at = "database"
    BY <1>0, <2>1, LoopFrames, Fits
  <2> HIDE DEF moved
  <2>3. stack' = FetchFrames(NextOf(Top)) \o (<<moved>> \o Below)
    BY <1>0, <2>1, <2>2 DEF FetchFrames
  <2>4. <<moved>> \o Below \in Seq(Frame) /\ Head(<<moved>> \o Below) = moved
    BY <1>0, <2>1, <2>2, Pushed
  <2> QED  BY <2>2, <2>3, <2>4, FetchCallsNobody
<1>7. CASE CallSimple
  <2> DEFINE n == NextOf(Top)[1]
             emit == OfSource("emit", n, Processed(source[n].list, Top.set))
             moved == Moved(Top)
  <2>1. /\ stack # <<>> /\ Top.at = "collection" /\ In("collection")
        /\ stack' = <<emit>> \o <<moved>> \o Below \/ stack' = <<>> \o <<moved>> \o Below
    BY <1>7 DEF CallSimple, In, Running, Top
  <2>2. n \in Sources /\ source[n].live
    BY <1>0, <2>1, CollectionItem DEF NothingStaysSubscribed
  <2>3. source'[n].live
    BY <1>7, <2>2, OrdinarySteps DEF Ordinary, SameObservers
  <2>4. emit.at = "emit" /\ emit.n = n
    BY DEF OfSource, NoFrame
  <2>5. moved \in Frame /\ moved.at = "collection"
    BY <1>0, <2>1, LoopFrames, Fits
  <2> HIDE DEF emit, moved, n
  <2>6. stack' # <<>> /\ (Head(stack') = emit \/ Head(stack') = moved)
    BY <1>0, <2>1, <2>5
  <2> QED  BY <2>3, <2>4, <2>5, <2>6, TopCalls
<1>8. CASE CallColumns
  <2> DEFINE n == NextOf(Top)[1]
             tell == [OfUser("tell", source[n].owner, source[n].observed) EXCEPT !.n = n]
             moved == Moved(Top)
  <2>1. /\ stack # <<>> /\ Top.at = "collection" /\ In("collection") /\ NextOf(Top)[2] = "columns"
        /\ stack' = <<tell>> \o <<moved>> \o Below \/ stack' = <<>> \o <<moved>> \o Below
        /\ UNCHANGED phase
    BY <1>8 DEF CallColumns, In, Running, Top, people
  <2>2. n \in Sources /\ source[n].live /\ source[n].owner # Nobody
    BY <1>0, <2>1, CollectionItem DEF NothingStaysSubscribed, Arrays
  <2>3. phase'[source[n].owner] \in Here
    BY <1>0, <2>1, <2>2 DEF Owners
  <2>4. tell.at = "tell" /\ tell.u = source[n].owner
    BY DEF OfUser, NoFrame
  <2>5. moved \in Frame /\ moved.at = "collection"
    BY <1>0, <2>1, LoopFrames, Fits
  <2> HIDE DEF tell, moved, n
  <2>6. stack' # <<>> /\ (Head(stack') = tell \/ Head(stack') = moved)
    BY <1>0, <2>1, <2>5
  <2> QED  BY <2>3, <2>4, <2>5, <2>6, TopCalls
<1>9. CASE CallSubscriber
  <2> DEFINE u == NextOf(Top)
             tell == OfUser("tell", u, Top.set)
             moved == Moved(Top)
  <2>1. /\ stack # <<>> /\ Top.at = "shared" /\ HasNext(Top) /\ UNCHANGED phase
        /\ stack' = <<tell, moved>> \o Below
    BY <1>9 DEF CallSubscriber, In, Running, Top, people
  <2>2. phase'[u] \in Here
    <3>1. Items(Top.at) = shared.subscribers
      BY <2>1 DEF Items
    <3> QED  BY <1>0, <2>1, <3>1, LoopFrames DEF NextOf, Sharers
  <2>3. tell.at = "tell" /\ tell.u = u
    BY DEF OfUser, NoFrame
  <2> HIDE DEF tell, moved, u
  <2>4. stack' # <<>> /\ Head(stack') = tell
    BY <1>0, <2>1
  <2> QED  BY <2>2, <2>3, <2>4, TopCalls
<1>10. CASE SubscribeSource
  <2>1. stack # <<>> /\ stack' = FetchFrames(N + 1) \o Below
    BY <1>10, SourceMadeForAll
  <2> QED  BY <1>0, <1>b, <2>1, FetchCallsNobody
<1>11. ASSUME NEW u \in Subscribers, SubscribeWithColumns(u)
       PROVE  Called'
  <2> DEFINE joins == OfUser("subscribed", u, {})
  <2>1. stack' = FetchFrames(N + 1) \o (<<joins>> \o stack)
    BY <1>11, SourceMadeForOne
  <2>2. joins \in Frame /\ joins.at = "subscribed"
    <3>1. {} \in Lists
      BY DEF Lists
    <3> QED  BY <1>0, <3>1, NewFrames, Fits DEF OfUser, NoFrame
  <2> HIDE DEF joins
  <2>3. <<joins>> \o stack \in Seq(Frame) /\ Head(<<joins>> \o stack) = joins
    BY <1>0, <2>2, Pushed
  <2> QED  BY <2>1, <2>2, <2>3, FetchCallsNobody
<1>12. ASSUME NEW u \in Subscribers, Subscribe(u)
       PROVE  Called'
  <2> DEFINE tell == OfUser("tell", u, shared.last)
             needs == OfUser("source", u, {})
             joins == OfUser("subscribed", u, {})
  <2>1. /\ phase' = [phase EXCEPT ![u] = "joining"]
        /\ \/ stack' = <<tell>> \o <<needs, joins>> \o stack
           \/ stack' = <<>> \o <<needs, joins>> \o stack
    BY <1>12 DEF Subscribe
  <2>2. /\ tell.at = "tell" /\ tell.u = u /\ needs.at = "source"
        /\ tell \in Frame /\ needs \in Frame /\ joins \in Frame
    BY <1>0, NewFrames, Fits DEF TypeOK, Lists, OfUser, NoFrame
  <2>3. phase'[u] \in Here
    BY <1>0, <2>1 DEF TypeOK, Here
  <2> HIDE DEF tell, needs, joins
  <2>4. stack' # <<>> /\ (Head(stack') = tell \/ Head(stack') = needs)
    BY <1>0, <2>1, <2>2
  <2> QED  BY <2>2, <2>3, <2>4, TopCalls
<1>13. ASSUME NEW u \in Subscribers, Unsubscribe(u) \/ UnsubscribeColumns(u) \/ UnsubscribeLast(u)
       PROVE  Called'
  <2>1. Free /\ UNCHANGED stack
    BY <1>13, LeavingSteps
  <2> QED  BY <1>f, <2>1, NobodyCalled
<1>14. CASE Write \/ BatchIsAnswered \/ BatchIsRejected
  BY <1>14, NobodyCalled, WriteStep, BatchStep
<1>15. CASE FetchIsAnswered \/ Notify
  <2>1. \/ stack' = <<>> \/ stack' = <<OfSource("answer", Head(calls).n, {})>>
        \/ stack' = <<OfSource("notify", 0, Head(unnotified))>>
    BY <1>15 DEF FetchIsAnswered, Notify
  <2>2. /\ OfSource("answer", Head(calls).n, {}).at = "answer"
        /\ OfSource("notify", 0, Head(unnotified)).at = "notify"
    BY DEF OfSource, NoFrame
  <2> QED  BY <2>1, <2>2, NobodyCalled
<1>16. CASE NotifySubscribers
  <2> DEFINE one == OfSource("database", 0, Top.set)
             two == OfSource("collection", 0, Top.set)
  <2>1. stack # <<>> /\ stack' = <<one, two>> \o Below
    BY <1>16 DEF NotifySubscribers, Running
  <2>2. one.at = "database"
    BY DEF OfSource, NoFrame
  <2> HIDE DEF one, two
  <2>3. Head(stack') = one
    BY <1>0, <2>1
  <2> QED  BY <2>2, <2>3, NobodyCalled
<1>17. CASE StopHolding
  <2>1. held # <<>> /\ held \in Seq(Lists) /\ stack' = [k \in DOMAIN held |-> OfSource("notify", 0, held[k])]
    BY <1>0, <1>17 DEF StopHolding, Replayed, TypeOK
  <2>2. \A set : OfSource("notify", 0, set).at = "notify"
    BY DEF OfSource, NoFrame
  <2>3. Head(stack') = OfSource("notify", 0, held[1])
    BY <2>1
  <2> QED  BY <2>2, <2>3, NobodyCalled
<1> QED  BY <1>1, <1>2, <1>3, <1>4, <1>5, <1>6, <1>7, <1>8, <1>9, <1>10, <1>11, <1>12, <1>13, <1>14,
            <1>15, <1>16, <1>17 DEF Next

-----------------------------------------------------------------------------
(* The invariant holds.                                                    *)

LEMMA InitIInv == Init => IInv
<1> SUFFICES ASSUME Init
             PROVE  IInv
  OBVIOUS
<1>1. /\ calls = <<>> /\ unnotified = <<>> /\ held = <<>> /\ stack = <<>> /\ database = <<>>
      /\ collection = <<>> /\ source = <<>> /\ missed = {} /\ overtaken = FALSE
      /\ shared = [subscribers |-> <<>>, source |-> 0, didEmit |-> FALSE, last |-> {}]
      /\ Sources = {} /\ Len(source) = 0
  BY DEF Init, Sources
<1>2. TypeOK
  <2>1. /\ simple \in BOOLEAN /\ synchronous \in BOOLEAN /\ rows \in Rows /\ memory \in Rows
        /\ writes \in 0 .. MaxWrites /\ rejected \in Lists
    BY SubscriptionsAssumption DEF Init, Lists
  <2>2. Unseen \in [list : {NoList} \cup Lists, cols : [Records -> 0 .. 1]]
    BY DEF Unseen
  <2>3. /\ phase \in [Subscribers -> {"new", "joining", "joined", "left"}]
        /\ given \in [Subscribers -> [list : {NoList} \cup Lists, cols : [Records -> 0 .. 1]]]
    <3> HIDE DEF Unseen
    <3> QED  BY <2>2 DEF Init
  <2>4. shared \in [subscribers : Seq(Subscribers), source : Nat, didEmit : BOOLEAN, last : Lists]
    BY <1>1 DEF Lists
  <2>5. /\ calls \in Seq([type : {"fetch", "batch"}, n : Nat, rows : Rows, set : Lists])
        /\ unnotified \in Seq(Lists) /\ held \in Seq(Lists) /\ stack \in Seq(Frame)
        /\ database \in Seq(Sources) /\ collection \in Seq(Sources \X {"columns", "simple"})
        /\ source \in Seq(Observer)
    <3>1. \A S : <<>> \in Seq(S)
      OBVIOUS
    <3> QED  BY <1>1, <3>1
  <2>6. missed \subseteq Subscribers /\ overtaken \in BOOLEAN
    BY <1>1
  <2> QED  BY <2>1, <2>3, <2>4, <2>5, <2>6 DEF TypeOK
<1>3. Frames
  BY <1>1 DEF Frames, Shaped
<1>4. Owners /\ Sharers /\ SharedSource
  BY <1>1 DEF Owners, Sharers, SharedSource, Alike
<1>5. Arrays /\ NothingStaysSubscribed
  BY <1>1 DEF Arrays, NothingStaysSubscribed, Alike
<1>6. OneAnswer /\ Observing
  BY <1>1 DEF OneAnswer, Observing
<1>7. Called
  BY <1>1 DEF Called, Running
<1> QED  BY <1>2, <1>3, <1>4, <1>5, <1>6, <1>7 DEF IInv

LEMMA IInvKept == IInv /\ [Next]_vars => IInv'
<1>1. ASSUME IInv, Next
      PROVE  IInv'
  BY <1>1, TypesKept, OwnersKept, SharersKept, SharedSourceKept, EntriesKept, OneAnswerKept,
     ObservingKept, CalledKept DEF IInv
<1>2. ASSUME IInv, UNCHANGED vars
      PROVE  IInv'
  <2>1. UNCHANGED <<simple, synchronous, rows, memory, writes, rejected, calls, unnotified, held,
                    stack, database, collection, shared, source, phase, given, missed, overtaken,
                    Sources, Top, Below>>
    BY <1>2 DEF vars, setting, data, notices, entries, observers, people, Sources, Top, Below
  <2>2. TypeOK' /\ Frames'
    BY <1>2, <2>1 DEF IInv, TypeOK, Rows, Frames
  <2>3. Owners' /\ Sharers' /\ SharedSource'
    BY <1>2, <2>1 DEF IInv, Owners, Sharers, SharedSource
  <2>4. Arrays' /\ NothingStaysSubscribed' /\ OneAnswer' /\ Observing' /\ Called'
    BY <1>2, <2>1 DEF IInv, Arrays, NothingStaysSubscribed, OneAnswer, Observing, Called, Running
  <2> QED  BY <2>2, <2>3, <2>4 DEF IInv
<1> QED  BY <1>1, <1>2

LEMMA IInvariant == Spec => []IInv
  BY InitIInv, IInvKept, PTL DEF Spec

(* The arrays of subscribers, the observers' closures and the stack are    *)
(* well formed, however deep callers subscribe while they are called.      *)
THEOREM TypeCorrect == Spec => []TypeOK
<1>1. IInv => TypeOK
  BY DEF IInv
<1> QED  BY <1>1, IInvariant, PTL

(* _unsubscribe() leaves no entry behind: splice() takes out one, and an   *)
(* observer never has two of a kind, because an answer that comes after it *)
(* was ended does not subscribe it.                                        *)
THEOREM NothingLeft == Spec => []NothingStaysSubscribed
<1>1. IInv => NothingStaysSubscribed
  BY DEF IInv
<1> QED  BY <1>1, IInvariant, PTL

(* Who has left is not called, by the answer to a fetch that was under way *)
(* or by a loop that it left while it ran; and the invariant that          *)
(* SharedSubscribable._notify asserts holds, unless its source was         *)
(* overtaken by a subscription made during the call with the last value.   *)
THEOREM LeaversNotCalled == Spec => []NobodyIsCalledAfterLeaving
<1>1. IInv => NobodyIsCalledAfterLeaving
  <2> SUFFICES ASSUME IInv
               PROVE  NobodyIsCalledAfterLeaving
    OBVIOUS
  <2>1. Running("tell") => phase[Top.u] \in {"joining", "joined"}
    BY DEF IInv, Called, Here
  <2>2. ASSUME Running("emit"), source[Top.n].owner = Nobody, ~overtaken
        PROVE  shared.subscribers # <<>>
    <3>1. Top.n \in Sources /\ Sources = 1 .. Len(source)
      BY <2>2, TopFrame DEF IInv, Fitting, Running, Top
    <3>2. source[Top.n].live
      BY <2>2 DEF IInv, Called
    <3>3. shared.source = Top.n
      BY <2>2, <3>1, <3>2 DEF IInv, SharedSource
    <3>4. shared.source # 0
      BY <3>1, <3>3, TopFrame DEF IInv
    <3> QED  BY <3>4 DEF IInv, Sharers
  <2> QED  BY <2>1, <2>2 DEF NobodyIsCalledAfterLeaving
<1> QED  BY <1>1, IInvariant, PTL

(* However many observe a query, SharedSubscribable keeps one source, and  *)
(* none when the last has left.                                            *)
THEOREM SourceIsOne == Spec => []OneSource
<1>1. IInv => OneSource
  <2> SUFFICES ASSUME IInv, ~overtaken, NEW u \in Subscribers \ Columns
               PROVE  SourcesOf(u) = IF shared.source = 0 THEN {} ELSE {shared.source}
    BY DEF OneSource
  <2>1. SourcesOf(u) = {n \in Sources : source[n].live /\ source[n].owner = Nobody}
    BY DEF SourcesOf
  <2>2. \A n \in Sources : source[n].live /\ source[n].owner = Nobody <=> n = shared.source
    BY DEF IInv, SharedSource
  <2>3. shared.source \in 0 .. Len(source) /\ Sources = 1 .. Len(source) /\ Len(source) \in Nat
    BY TopFrame DEF IInv, Sharers
  <2>4. shared.source \in Sources <=> shared.source # 0
    BY <2>3
  <2> QED  BY <2>1, <2>2, <2>4
<1> QED  BY <1>1, IInvariant, PTL

-----------------------------------------------------------------------------
(* Emissions, with an adapter that answers later.                          *)

(* An answer, and the observing that follows it, begins a turn; what is    *)
(* under a collection's loop is only further notices; the database's loop, *)
(* which calls nobody, and a loop over the subscribers that has not begun  *)
(* are on top.                                                             *)
Turned(s) == \A k \in DOMAIN s :
  /\ s[k].at \in {"answer", "observe"} => k = Len(s)
  /\ s[k].at \in {"collection", "notify"} => \A l \in DOMAIN s : l > k => s[l].at = "notify"
  /\ k > 1 => s[k].at # "database" /\ (s[k].at = "shared" => s[k].i > 0)

(* Simple observers: those that a loop has not come to have news, and so   *)
(* have those whose first answer is under way; the one that emits has its  *)
(* first answer, and will not be come to.                                  *)
Unvisited ==
  \A k \in DOMAIN stack : stack[k].at = "collection" =>
    \A p \in DOMAIN collection :
      p > stack[k].i /\ collection[p][2] = "simple" => source[collection[p][1]].news

FirstAnswer ==
  /\ \A i \in DOMAIN calls : calls[i].type = "fetch" => source[calls[i].n].news
  /\ Running("answer") => source[Top.n].news

Emitting == Running("emit") =>
  /\ source[Top.n].news
  /\ \A i \in DOMAIN calls : calls[i].type = "fetch" => calls[i].n # Top.n
  /\ \A k \in DOMAIN stack : stack[k].at = "collection" =>
       \A p \in DOMAIN collection : p > stack[k].i => collection[p] # <<Top.n, "simple">>

(* Reloading observers: without news, an observer has the list, and what   *)
(* it observes is the list. All that live are in the database's array, so  *)
(* that when the collection's loop runs, all are fetching.                 *)
Reloading == \A n \in Sources : source[n].live => \E p \in DOMAIN database : database[p] = n

Told(s) ==
  \/ s.news
  \/ IF s.owner = Nobody THEN s.list = Matching(rows)
     ELSE ~s.first /\ ~s.pending /\ s.observed = Matching(rows)

Reloaded == Running("emit") =>
  /\ Below = <<>> /\ Top.set = Matching(rows)
  /\ source[Top.n].owner = Nobody => source[Top.n].news /\ source[Top.n].list = Top.set

LoopRuns(s) == \E k \in DOMAIN s : s[k].at = "collection"
AllFetching == LoopRuns(stack) => \A n \in Sources :
  /\ source[n].news
  /\ source[n].live => \/ source[n].fetching
                       \/ Running("database") /\ \E p \in DOMAIN database : p > Top.i /\ database[p] = n
DatabaseLoop == Running("database") => (Top.i = 0 \/ Top.len = Len(database))

Simples == simple => Unvisited /\ FirstAnswer /\ Emitting
Reloads == ~simple => /\ Reloading /\ (\A n \in Sources : Told(source[n]))
                      /\ Reloaded /\ AllFetching /\ DatabaseLoop

IEmissions == ~synchronous => Turned(stack) /\ Simples /\ Reloads

LEMMA TurnedPushed ==
  ASSUME NEW s \in Seq(Frame), Turned(s), NEW f \in Frame,
         s # <<>> => Head(s).at # "database" /\ (Head(s).at = "shared" => Head(s).i > 0),
         f.at \in {"answer", "observe"} => s = <<>>,
         f.at \in {"collection", "notify"} => \A l \in DOMAIN s : s[l].at = "notify"
  PROVE  Turned(<<f>> \o s)
<1> DEFINE r == <<f>> \o s
<1>1. /\ Len(r) = Len(s) + 1 /\ r[1] = f /\ DOMAIN r = 1 .. Len(s) + 1
      /\ \A k \in 1 .. Len(s) : r[k + 1] = s[k]
      /\ DOMAIN s = 1 .. Len(s) /\ Len(s) \in Nat /\ (s # <<>> => Head(s) = s[1])
      /\ (Len(s) = 0 => s = <<>>) /\ (s = <<>> => Len(s) = 0)
  BY Places
<1> HIDE DEF r
<1>2. ASSUME NEW k \in DOMAIN r
      PROVE  /\ r[k].at \in {"answer", "observe"} => k = Len(r)
             /\ r[k].at \in {"collection", "notify"} => \A l \in DOMAIN r : l > k => r[l].at = "notify"
             /\ k > 1 => r[k].at # "database" /\ (r[k].at = "shared" => r[k].i > 0)
  <2>1. CASE k = 1
    <3>1. \A l \in DOMAIN r : l > 1 => l - 1 \in DOMAIN s /\ r[l] = s[l - 1]
      BY <1>1
    <3> QED  BY <1>1, <2>1, <3>1
  <2>2. CASE k # 1
    <3>1. k - 1 \in DOMAIN s /\ r[k] = s[k - 1] /\ k > 1
      BY <1>1, <2>2
    <3>2. r[k].at \in {"answer", "observe"} => k = Len(r)
      BY <1>1, <3>1 DEF Turned
    <3>3. ASSUME r[k].at \in {"collection", "notify"}, NEW l \in DOMAIN r, l > k
          PROVE  r[l].at = "notify"
      <4>1. l - 1 \in DOMAIN s /\ r[l] = s[l - 1] /\ l - 1 > k - 1
        BY <1>1, <3>1, <3>3
      <4> QED  BY <3>1, <3>3, <4>1 DEF Turned
    <3>4. r[k].at # "database" /\ (r[k].at = "shared" => r[k].i > 0)
      <4>1. CASE k - 1 = 1
        BY <1>1, <3>1, <4>1
      <4>2. CASE k - 1 > 1
        BY <3>1, <4>2 DEF Turned
      <4> QED  BY <1>1, <3>1, <4>1, <4>2
    <3> QED  BY <3>2, <3>3, <3>4
  <2> QED  BY <2>1, <2>2
<1> QED  BY <1>2 DEF Turned, r

LEMMA TurnedBelow ==
  ASSUME NEW s \in Seq(Frame), s # <<>>, Turned(s)
  PROVE  /\ Turned(Tail(s))
         /\ Tail(s) # <<>> => /\ Head(Tail(s)).at # "database"
                              /\ Head(Tail(s)).at = "shared" => Head(Tail(s)).i > 0
         /\ Head(s).at \in {"answer", "observe"} => Tail(s) = <<>>
         /\ Head(s).at \in {"collection", "notify"} => \A l \in DOMAIN Tail(s) : Tail(s)[l].at = "notify"
         /\ \A l \in DOMAIN Tail(s) : l + 1 \in DOMAIN s /\ Tail(s)[l] = s[l + 1]
<1> DEFINE t == Tail(s)
<1>0. t \in Seq(Frame) /\ Len(t) = Len(s) - 1 /\ \A k \in 1 .. Len(s) - 1 : t[k] = s[k + 1]
  BY HeadTailProperties
<1> HIDE DEF t
<1>1. /\ DOMAIN t = 1 .. Len(t) /\ Head(s) = s[1]
      /\ \A k \in 1 .. Len(t) : t[k] = s[k + 1]
      /\ DOMAIN s = 1 .. Len(s) /\ Len(s) \in Nat /\ Len(s) >= 1
      /\ (t # <<>> => Head(t) = t[1] /\ Len(t) >= 1) /\ (Len(t) = 0 => t = <<>>)
  BY <1>0
<1>2. \A l \in DOMAIN t : l + 1 \in DOMAIN s /\ t[l] = s[l + 1] /\ l + 1 > 1 /\ 1 \in DOMAIN s
  BY <1>0, <1>1
<1>3. t # <<>> => Head(t).at # "database" /\ (Head(t).at = "shared" => Head(t).i > 0)
  BY <1>1, <1>2 DEF Turned
<1>4. Head(s).at \in {"answer", "observe"} => t = <<>>
  BY <1>0, <1>1 DEF Turned
<1>5. Head(s).at \in {"collection", "notify"} => \A l \in DOMAIN t : t[l].at = "notify"
  BY <1>1, <1>2 DEF Turned
<1>6. ASSUME NEW k \in DOMAIN t
      PROVE  /\ t[k].at \in {"answer", "observe"} => k = Len(t)
             /\ t[k].at \in {"collection", "notify"} => \A l \in DOMAIN t : l > k => t[l].at = "notify"
             /\ k > 1 => t[k].at # "database" /\ (t[k].at = "shared" => t[k].i > 0)
  BY <1>0, <1>1, <1>2 DEF Turned
<1>7. Turned(t)
  BY <1>6 DEF Turned
<1> QED  BY <1>2, <1>3, <1>4, <1>5, <1>7 DEF t

(* What is left of the stack, under calls of the application: no step of   *)
(* it emits, answers or begins a loop over observers.                      *)
Calm(s) ==
  /\ s \in Seq(Frame) /\ Turned(s)
  /\ s # <<>> => Head(s).at \notin {"emit", "answer", "database"}
  /\ \A k \in DOMAIN s : s[k].at = "collection" =>
       \E j \in DOMAIN stack : stack[j].at = "collection" /\ s[k].i >= stack[j].i

(* ... and no observer has just emitted.                                   *)
Silent(s) == s # <<>> => /\ Head(s).at = "tell" => Head(s).n = 0
                         /\ Head(s).at = "shared" => Head(s).i > 0

LEMMA CalmBelow ==
  ASSUME IInv, Turned(stack), stack # <<>>
  PROVE  Calm(Below) /\ Silent(Below)
<1>1. /\ stack \in Seq(Frame) /\ Below = Tail(stack) /\ Below \in Seq(Lower(Len(source)))
      /\ stack \in Seq(Frame) /\ Below \in Seq(Frame)
  BY TopFrame, HeadTailProperties DEF IInv, TypeOK, Below
<1>2. Below # <<>> => Head(Below) \in Lower(Len(source)) /\ Head(Below).at # "database"
                      /\ (Head(Below).at = "shared" => Head(Below).i > 0)
  BY <1>1, TurnedBelow, HeadTailProperties
<1>3. \A k \in DOMAIN Below : k + 1 \in DOMAIN stack /\ Below[k] = stack[k + 1] /\ Below[k].i \in Nat
  <2>1. \A k \in DOMAIN Below : k + 1 \in DOMAIN stack /\ Below[k] = stack[k + 1]
    BY <1>1, TurnedBelow
  <2>2. \A k \in DOMAIN Below : Below[k] \in Frame
    BY <1>1
  <2>3. \A f \in Frame : f.i \in Nat
    BY DEF Frame
  <2> QED  BY <2>1, <2>2, <2>3
<1>4. Turned(Below)
  BY <1>1, TurnedBelow
<1>5. Below # <<>> => Head(Below).at \notin {"emit", "answer", "database", "tell"}
  BY <1>2 DEF Lower
<1>6. \A k \in DOMAIN Below : Below[k].at = "collection" =>
        \E j \in DOMAIN stack : stack[j].at = "collection" /\ Below[k].i >= stack[j].i
  BY <1>3
<1> QED  BY <1>1, <1>2, <1>4, <1>5, <1>6 DEF Calm, Silent

LEMMA CalmPushed ==
  ASSUME NEW s, Calm(s), Silent(s), NEW f \in Frame,
         f.at \in {"tell", "user", "source", "subscribed", "shared"}
  PROVE  /\ Calm(<<f>> \o s)
         /\ (f.at = "tell" => f.n = 0) /\ (f.at = "shared" => f.i > 0) => Silent(<<f>> \o s)
<1> DEFINE r == <<f>> \o s
<1>1. /\ s \in Seq(Frame) /\ Turned(s)
      /\ s # <<>> => Head(s).at # "database" /\ (Head(s).at = "shared" => Head(s).i > 0)
  BY DEF Calm, Silent
<1>2. Turned(r)
  BY <1>1, TurnedPushed
<1>3. /\ r \in Seq(Frame) /\ r # <<>> /\ Head(r) = f
      /\ Len(r) = Len(s) + 1 /\ r[1] = f /\ DOMAIN r = 1 .. Len(s) + 1
      /\ \A k \in 1 .. Len(s) : r[k + 1] = s[k]
      /\ DOMAIN s = 1 .. Len(s) /\ Len(s) \in Nat
  BY <1>1, Pushed, Places
<1> HIDE DEF r
<1>4. ASSUME NEW k \in DOMAIN r, r[k].at = "collection"
      PROVE  \E j \in DOMAIN stack : stack[j].at = "collection" /\ r[k].i >= stack[j].i
  <2>1. k # 1
    BY <1>3, <1>4
  <2>2. k - 1 \in DOMAIN s /\ r[k] = s[k - 1]
    BY <1>3, <2>1
  <2> QED  BY <1>4, <2>2 DEF Calm
<1>5. Calm(r)
  BY <1>2, <1>3, <1>4 DEF Calm
<1>6. (f.at = "tell" => f.n = 0) /\ (f.at = "shared" => f.i > 0) => Silent(r)
  BY <1>3 DEF Silent
<1> QED  BY <1>5, <1>6 DEF r

LEMMA CalmMoved ==
  ASSUME IInv, Turned(stack), stack # <<>>, Top.at \in {"collection", "shared"}
  PROVE  Calm(<<Moved(Top)>> \o Below) /\ Silent(<<Moved(Top)>> \o Below)
<1> DEFINE f == Moved(Top)
           r == <<f>> \o Below
<1>1. /\ f \in Frame /\ f.at = Top.at /\ f.i = Top.i + 1 /\ Top.i \in Nat
  BY LoopFrames, Fits DEF IInv
<1> HIDE DEF f
<1>2. Calm(Below) /\ Silent(Below)
  BY CalmBelow
<1>3. /\ Below \in Seq(Frame) /\ Turned(Below)
      /\ Below # <<>> => Head(Below).at # "database" /\ (Head(Below).at = "shared" => Head(Below).i > 0)
  BY <1>2 DEF Calm, Silent
<1>4. Top.at = "collection" => \A l \in DOMAIN Below : Below[l].at = "notify"
  <2>1. stack \in Seq(Frame) /\ Top = Head(stack) /\ Below = Tail(stack)
    BY DEF IInv, TypeOK, Top, Below
  <2> QED  BY <2>1, TurnedBelow
<1>5. Turned(r)
  BY <1>1, <1>3, <1>4, TurnedPushed
<1>6. /\ r \in Seq(Frame) /\ r # <<>> /\ Head(r) = f
      /\ Len(r) = Len(Below) + 1 /\ r[1] = f /\ DOMAIN r = 1 .. Len(Below) + 1
      /\ \A k \in 1 .. Len(Below) : r[k + 1] = Below[k]
      /\ DOMAIN Below = 1 .. Len(Below) /\ Len(Below) \in Nat
  BY <1>1, <1>3, Pushed, Places
<1> HIDE DEF r
<1>7. ASSUME NEW k \in DOMAIN r, r[k].at = "collection"
      PROVE  \E j \in DOMAIN stack : stack[j].at = "collection" /\ r[k].i >= stack[j].i
  <2>1. CASE k = 1
    <3>1. 1 \in DOMAIN stack /\ stack[1] = Top
      BY DEF IInv, TypeOK, Top
    <3> QED  BY <1>1, <1>6, <1>7, <2>1, <3>1
  <2>2. CASE k # 1
    <3>1. k - 1 \in DOMAIN Below /\ r[k] = Below[k - 1]
      BY <1>6, <2>2
    <3> QED  BY <1>2, <1>7, <3>1 DEF Calm
  <2> QED  BY <2>1, <2>2
<1>8. Calm(r) /\ Silent(r)
  BY <1>1, <1>5, <1>6, <1>7 DEF Calm, Silent
<1> QED  BY <1>8 DEF r, f

LEMMA CalmFree ==
  ASSUME IInv, Turned(stack), Free
  PROVE  Calm(stack) /\ Silent(stack)
<1>1. stack \in Seq(Frame) /\ (stack = <<>> \/ Head(stack).at = "user")
  BY DEF IInv, TypeOK, Free, Running
<1>2. \A k \in DOMAIN stack : stack[k].i \in Nat
  <2>1. \A k \in DOMAIN stack : stack[k] \in Frame
    BY <1>1
  <2> QED  BY <2>1 DEF Frame
<1> QED  BY <1>1, <1>2 DEF Calm, Silent

(* The steps that emit nothing, and those that emit.                       *)
Quietly ==
  \/ AnswerIsError \/ Observe \/ EmitThrows \/ Tell \/ Return \/ LoopEnds \/ CallSubscriber
  \/ SubscribeSource \/ SourceIsThere \/ Subscribed \/ Write \/ BatchIsAnswered \/ BatchIsRejected
  \/ Notify \/ StopHolding
  \/ \E u \in Subscribers : \/ Subscribe(u) \/ SubscribeWithColumns(u)
                            \/ Unsubscribe(u) \/ UnsubscribeColumns(u) \/ UnsubscribeLast(u)

LEMMA QuietSteps ==
  ASSUME IInv, Turned(stack), ~synchronous, Quietly
  PROVE  Calm(stack') /\ Silent(stack')
<1>0. /\ TypeOK /\ Frames /\ {} \in Lists /\ Len(source) \in Nat
      /\ stack # <<>> => Calm(Below) /\ Silent(Below) /\ Top \in Frame /\ Top \in Fitting(Len(source))
  BY CalmBelow, TopFrame DEF IInv, Lists
<1>e. Calm(<<>>) /\ Silent(<<>>) /\ \A n : FetchFrames(n) = <<>>
  BY DEF Calm, Turned, Silent, FetchFrames
<1>1. CASE \/ AnswerIsError \/ Observe \/ Return \/ LoopEnds \/ SourceIsThere \/ Subscribed
  BY <1>0, <1>1 DEF AnswerIsError, Observe, Return, LoopEnds, SourceIsThere, Subscribed, Running
<1>2. CASE Write \/ BatchIsAnswered \/ BatchIsRejected \/ EmitThrows
  BY <1>e, <1>2, WriteStep, BatchStep DEF EmitThrows
<1>3. ASSUME NEW u \in Subscribers, Unsubscribe(u) \/ UnsubscribeColumns(u) \/ UnsubscribeLast(u)
      PROVE  Calm(stack') /\ Silent(stack')
  <2>1. Free /\ stack' = stack
    BY <1>3, LeavingSteps
  <2> QED  BY <2>1, CalmFree
<1>4. CASE Tell
  <2> DEFINE f == OfUser("user", Top.u, {})
  <2>1. stack # <<>> /\ Top.at = "tell" /\ stack' = <<f>> \o Below
    BY <1>4 DEF Tell, Running, Top
  <2>2. f \in Frame /\ f.at = "user"
    BY <1>0, <2>1, NewFrames, Fits DEF Fitting, OfUser, NoFrame
  <2> HIDE DEF f
  <2> QED  BY <1>0, <2>1, <2>2, CalmPushed
<1>5. CASE CallSubscriber
  <2> DEFINE f == OfUser("tell", NextOf(Top), Top.set)
             g == Moved(Top)
  <2>1. /\ stack # <<>> /\ Top.at = "shared" /\ HasNext(Top) /\ stack' = <<f, g>> \o Below
    BY <1>5 DEF CallSubscriber, In, Running, Top
  <2>2. f \in Frame /\ f.at = "tell" /\ f.n = 0
    <3>1. NextOf(Top) \in Subscribers /\ Top.set \in Lists
      <4>1. Items(Top.at) = shared.subscribers /\ shared.subscribers \in Seq(Subscribers)
        BY <1>0, <2>1 DEF Items, TypeOK
      <4> QED  BY <1>0, <2>1, <4>1, LoopFrames DEF NextOf, Frame
    <3>2. f \in Frame
      BY <1>0, <3>1, NewFrames, Fits
    <3> QED  BY <3>2 DEF OfUser, NoFrame
  <2>3. g \in Frame /\ Calm(<<g>> \o Below) /\ Silent(<<g>> \o Below) /\ Below \in Seq(Frame)
    BY <1>0, <2>1, LoopFrames, Fits, CalmMoved DEF Calm
  <2> HIDE DEF f, g
  <2>4. <<f, g>> \o Below = <<f>> \o (<<g>> \o Below)
    BY <2>2, <2>3, OneByOne
  <2> QED  BY <2>1, <2>2, <2>3, <2>4, CalmPushed
<1>6. CASE SubscribeSource
  <2>1. stack # <<>> /\ stack' = FetchFrames(Len(source) + 1) \o Below /\ Below \in Seq(Frame)
    BY <1>0, <1>6, SourceMadeForAll DEF Calm
  <2>2. stack' = Below
    BY <1>e, <2>1, ConcatEmptySeq
  <2> QED  BY <1>0, <2>1, <2>2
<1>7. ASSUME NEW u \in Subscribers, SubscribeWithColumns(u)
      PROVE  Calm(stack') /\ Silent(stack')
  <2> DEFINE f == OfUser("subscribed", u, {})
  <2>1. Free /\ stack' = FetchFrames(Len(source) + 1) \o (<<f>> \o stack)
    BY <1>7, SourceMadeForOne
  <2>2. f \in Frame /\ f.at = "subscribed"
    BY <1>0, NewFrames, Fits DEF OfUser, NoFrame
  <2> HIDE DEF f
  <2>3. stack \in Seq(Frame) /\ <<f>> \o stack \in Seq(Frame)
    BY <1>0, <2>2, Pushed DEF TypeOK
  <2>4. stack' = <<f>> \o stack
    BY <1>e, <2>1, <2>3, ConcatEmptySeq
  <2> QED  BY <2>1, <2>2, <2>4, CalmFree, CalmPushed
<1>8. ASSUME NEW u \in Subscribers, Subscribe(u)
      PROVE  Calm(stack') /\ Silent(stack')
  <2> DEFINE tell == OfUser("tell", u, shared.last)
             needs == OfUser("source", u, {})
             joins == OfUser("subscribed", u, {})
  <2>1. /\ Free
        /\ \/ stack' = <<tell>> \o <<needs, joins>> \o stack
           \/ stack' = <<>> \o <<needs, joins>> \o stack
    BY <1>8 DEF Subscribe
  <2>2. /\ tell \in Frame /\ needs \in Frame /\ joins \in Frame /\ stack \in Seq(Frame)
        /\ tell.at = "tell" /\ tell.n = 0 /\ needs.at = "source" /\ joins.at = "subscribed"
    <3>1. tell \in Frame /\ needs \in Frame /\ joins \in Frame /\ stack \in Seq(Frame)
      BY <1>0, NewFrames, Fits DEF TypeOK
    <3> QED  BY <3>1 DEF OfUser, NoFrame
  <2> HIDE DEF tell, needs, joins
  <2>3. /\ <<tell>> \o <<needs, joins>> \o stack = <<tell>> \o (<<needs>> \o (<<joins>> \o stack))
        /\ <<>> \o <<needs, joins>> \o stack = <<needs>> \o (<<joins>> \o stack)
    <3>1. <<tell>> \in Seq(Frame) /\ <<needs, joins>> \in Seq(Frame)
      BY <2>2
    <3>2. <<needs, joins>> \o stack = <<needs>> \o (<<joins>> \o stack)
      BY <2>2, OneByOne
    <3>3. <<tell>> \o <<needs, joins>> \o stack = <<tell>> \o (<<needs, joins>> \o stack)
      BY <2>2, <3>1, ConcatAssociative
    <3>4. <<>> \o <<needs, joins>> = <<needs, joins>>
      BY <3>1, ConcatEmptySeq
    <3> QED  BY <3>2, <3>3, <3>4
  <2>4. Calm(<<joins>> \o stack) /\ Silent(<<joins>> \o stack)
    BY <2>1, <2>2, CalmFree, CalmPushed
  <2>5. Calm(<<needs>> \o (<<joins>> \o stack)) /\ Silent(<<needs>> \o (<<joins>> \o stack))
    BY <2>2, <2>4, CalmPushed
  <2>6. Calm(<<tell>> \o (<<needs>> \o (<<joins>> \o stack))) /\ Silent(<<tell>> \o (<<needs>> \o (<<joins>> \o stack)))
    BY <2>2, <2>5, CalmPushed
  <2> QED  BY <2>1, <2>3, <2>5, <2>6
<1>9. ASSUME NEW s \in Seq(Frame), \A k \in DOMAIN s : s[k].at = "notify"
      PROVE  Calm(s) /\ Silent(s)
  <2>1. Turned(s) /\ \A k \in DOMAIN s : s[k].at # "collection"
    BY <1>9 DEF Turned
  <2>2. s # <<>> => Head(s).at = "notify"
    BY <1>9
  <2> QED  BY <2>1, <2>2 DEF Calm, Silent
<1>10. \A set \in Lists : OfSource("notify", 0, set) \in Frame /\ OfSource("notify", 0, set).at = "notify"
  <2>1. \A set \in Lists : OfSource("notify", 0, set) \in Frame
    BY <1>0, NewFrames, Fits
  <2> QED  BY <2>1 DEF OfSource, NoFrame
<1>11. CASE Notify
  <2> DEFINE f == OfSource("notify", 0, Head(unnotified))
  <2>1. stack = <<>> /\ unnotified # <<>> /\ (stack' = stack \/ stack' = <<f>>)
    BY <1>11 DEF Notify
  <2>2. f \in Frame /\ f.at = "notify"
    BY <1>0, <1>10, <2>1 DEF TypeOK
  <2> HIDE DEF f
  <2>3. <<f>> \in Seq(Frame) /\ \A k \in DOMAIN <<f>> : <<f>>[k].at = "notify"
    BY <2>2
  <2> QED  BY <1>9, <1>e, <2>1, <2>3
<1>12. CASE StopHolding
  <2>1. stack' = [k \in 1 .. Len(held) |-> OfSource("notify", 0, held[k])] /\ held \in Seq(Lists)
    BY <1>0, <1>12 DEF StopHolding, Replayed, TypeOK
  <2>2. /\ \A k \in 1 .. Len(held) : stack'[k] \in Frame /\ stack'[k].at = "notify"
        /\ DOMAIN stack' = 1 .. Len(held) /\ Len(held) \in Nat
    BY <1>10, <2>1
  <2>3. stack' \in Seq(Frame)
    BY <2>1, <2>2
  <2> QED  BY <1>9, <2>2, <2>3
<1> QED  BY <1>1, <1>2, <1>3, <1>4, <1>5, <1>6, <1>7, <1>8, <1>11, <1>12 DEF Quietly

(* What such a step does to an observer, apart from noting that it was     *)
(* passed over: nothing, or it has news.                                   *)
Same(n) ==
  /\ source'[n].owner = source[n].owner /\ source'[n].live = source[n].live
  /\ source'[n].list = source[n].list /\ source'[n].fetching = source[n].fetching
  /\ source'[n].pending = source[n].pending /\ source'[n].first = source[n].first
  /\ source'[n].observed = source[n].observed

Follows(n) ==
  \/ n \in Sources /\ source'[n].news = source[n].news /\ (simple \/ Same(n))
  \/ /\ source'[n].news
     /\ source'[n].live => \/ source'[n].fetching
                           \/ n \in Sources /\ source[n].live /\ source'[n].fetching = source[n].fetching

Undisturbed ==
  /\ UNCHANGED <<simple, synchronous>>
  /\ \A n \in Sources' : Follows(n)
  /\ UNCHANGED rows \/ \A n \in Sources' : source'[n].news
  /\ \A i \in DOMAIN calls' : calls'[i].type = "fetch" =>
       \/ \E j \in DOMAIN calls : calls[j].type = "fetch" /\ calls[j].n = calls'[i].n
       \/ calls'[i].n \in Sources' \ Sources
  /\ \A p \in DOMAIN collection' : collection'[p][2] = "simple" =>
       (\E q \in DOMAIN collection : q >= p /\ collection[q] = collection'[p]) \/ stack' = <<>>
  /\ ~simple /\ Reloading => Reloading'
  /\ Running("database") => LoopEnds

LEMMA UndisturbedKept ==
  ASSUME IInv, IEmissions, ~synchronous, Calm(stack'), Undisturbed, TypeOK', Frames'
  PROVE  IEmissions'
<1>0. /\ Turned(stack') /\ ~Running("emit")' /\ ~Running("answer")' /\ ~Running("database")'
      /\ Sources' = 1 .. Len(source)' /\ Sources = 1 .. Len(source) /\ TypeOK /\ Frames
      /\ Simples /\ Reloads
  BY DEF Calm, Running, Sources, IInv, IEmissions
<1>1. ASSUME NEW k \in DOMAIN stack', stack'[k].at = "collection"
      PROVE  \E j \in DOMAIN stack : stack[j].at = "collection" /\ stack'[k].i >= stack[j].i
  BY <1>1 DEF Calm
<1>2. CASE simple
  <2>1. Unvisited /\ FirstAnswer
    BY <1>0, <1>2 DEF Simples
  <2>2. ASSUME NEW n \in Sources', n \in Sources => source[n].news
        PROVE  source'[n].news
    BY <2>2 DEF Undisturbed, Follows
  <2>3. ASSUME NEW k \in DOMAIN stack', stack'[k].at = "collection", NEW p \in DOMAIN collection',
               p > stack'[k].i, collection'[p][2] = "simple"
        PROVE  source'[collection'[p][1]].news
    <3>1. PICK j \in DOMAIN stack : stack[j].at = "collection" /\ stack'[k].i >= stack[j].i
      BY <1>1, <2>3
    <3>2. stack' # <<>>
      BY <2>3
    <3>3. PICK q \in DOMAIN collection : q >= p /\ collection[q] = collection'[p]
      BY <2>3, <3>2 DEF Undisturbed
    <3>4. q > stack[j].i
      <4>1. stack[j].i \in Nat /\ stack'[k].i \in Nat /\ p \in Nat /\ q \in Nat
        <5>1. stack \in Seq(Frame) /\ stack' \in Seq(Frame)
          BY <1>0 DEF TypeOK
        <5>2. stack[j] \in Frame /\ stack'[k] \in Frame
          BY <5>1
        <5>3. /\ collection \in Seq(Sources \X {"columns", "simple"})
              /\ collection' \in Seq(Sources' \X {"columns", "simple"})
          BY <1>0 DEF TypeOK
        <5>4. p \in Nat /\ q \in Nat
          BY <5>3
        <5> QED  BY <5>2, <5>4 DEF Frame
      <4> QED  BY <2>3, <3>1, <3>3, <4>1
    <3>5. source[collection[q][1]].news
      BY <2>1, <2>3, <3>1, <3>3, <3>4 DEF Unvisited
    <3>6. collection'[p][1] \in Sources'
      <4>1. collection' \in Seq(Sources' \X {"columns", "simple"})
        BY DEF TypeOK
      <4>2. collection'[p] \in Sources' \X {"columns", "simple"}
        BY <4>1
      <4> QED  BY <4>2
    <3> QED  BY <2>2, <3>3, <3>5, <3>6
  <2>4. Unvisited'
    BY <2>3 DEF Unvisited
  <2>5. ASSUME NEW i \in DOMAIN calls', calls'[i].type = "fetch"
        PROVE  source'[calls'[i].n].news
    <3>1. calls'[i].n \in Sources'
      BY <2>5 DEF Frames
    <3>2. CASE calls'[i].n \notin Sources
      BY <2>2, <3>1, <3>2
    <3>3. CASE \E j \in DOMAIN calls : calls[j].type = "fetch" /\ calls[j].n = calls'[i].n
      BY <2>1, <2>2, <3>1, <3>3 DEF FirstAnswer
    <3> QED  BY <2>5, <3>2, <3>3 DEF Undisturbed
  <2>6. FirstAnswer' /\ Emitting'
    BY <1>0, <2>5 DEF FirstAnswer, Emitting
  <2>7. simple' /\ ~synchronous'
    BY <1>2 DEF Undisturbed
  <2> QED  BY <1>0, <2>4, <2>6, <2>7 DEF IEmissions, Simples, Reloads
<1>3. CASE ~simple
  <2>1. Reloading /\ (\A n \in Sources : Told(source[n])) /\ Reloaded /\ AllFetching /\ DatabaseLoop
    BY <1>0, <1>3 DEF Reloads
  <2>2. Reloading' /\ ~simple' /\ ~synchronous'
    BY <1>3, <2>1 DEF Undisturbed
  <2>3. ASSUME NEW n \in Sources'
        PROVE  Told(source[n])'
    <3>1. CASE source'[n].news
      BY <3>1 DEF Told
    <3>2. CASE ~source'[n].news
      <4>1. n \in Sources /\ source'[n].news = source[n].news /\ Same(n) /\ rows' = rows
        BY <1>3, <3>2 DEF Undisturbed, Follows
      <4>2. Told(source[n])
        BY <2>1, <4>1
      <4> QED  BY <4>1, <4>2 DEF Told, Same, Matching
    <3> QED  BY <3>1, <3>2
  <2>4. Reloaded' /\ DatabaseLoop'
    BY <1>0 DEF Reloaded, DatabaseLoop
  <2>5. ASSUME LoopRuns(stack'), NEW n \in Sources'
        PROVE  source'[n].news /\ (source'[n].live => source'[n].fetching)
    <3>1. LoopRuns(stack)
      BY <1>1, <2>5 DEF LoopRuns
    <3>2. \A m \in Sources : source[m].news
      BY <2>1, <3>1 DEF AllFetching
    <3>3. ASSUME NEW m \in Sources, source[m].live
          PROVE  source[m].fetching
      <4>1. CASE ~Running("database")
        BY <2>1, <3>1, <3>3, <4>1 DEF AllFetching
      <4>2. CASE Running("database")
        <5>1. ~HasNext(Top) /\ Top.at = "database" /\ stack # <<>>
          BY <4>2 DEF Undisturbed, LoopEnds, Running, Top
        <5>2. Top.i = 0 \/ Top.len = Len(database)
          BY <2>1, <4>2 DEF DatabaseLoop
        <5>3. Top.i \in Nat /\ Len(database) \in Nat /\ DOMAIN database = 1 .. Len(database)
          <6>1. database \in Seq(Sources)
            BY <1>0 DEF TypeOK
          <6> QED  BY <1>0, <5>1, <6>1, LoopFrames
        <5>4. ~(Top.i < Len(database))
          BY <5>1, <5>2, <5>3 DEF HasNext, Length, Items
        <5>5. ~\E p \in DOMAIN database : p > Top.i
          BY <5>3, <5>4
        <5> QED  BY <2>1, <3>1, <3>3, <5>5 DEF AllFetching
      <4> QED  BY <4>1, <4>2
    <3> QED  BY <1>3, <2>5, <3>2, <3>3 DEF Undisturbed, Follows, Same
  <2>6. AllFetching'
    BY <2>5 DEF AllFetching
  <2>7. \A n \in Sources' : Told(source[n])'
    BY <2>3
  <2> QED  BY <1>0, <2>2, <2>4, <2>6, <2>7 DEF IEmissions, Simples, Reloads
<1> QED  BY <1>2, <1>3

(* An observer that is made has news, and one that ended has.              *)
LEMMA EndedHasNews ==
  ASSUME TypeOK, Frames, NEW n, EndSource(n)
  PROVE  \A m \in Sources : /\ m # n => source'[m].news = source[m].news /\ Same(m)
                            /\ m = n => source'[m].news /\ ~source'[m].live
<1> DEFINE stale(m) == m \in Skipped("database", {n})
           lost(m) == m \in {item[1] : item \in Skipped("collection", {<<n, "columns">>, <<n, "simple">>})}
<1>1. ASSUME NEW m \in Sources
      PROVE  source'[m] = [(IF m = n THEN Ended(m) ELSE source[m]) EXCEPT
                             !.stale = @ \/ stale(m), !.lost = @ \/ lost(m)]
  BY <1>1 DEF EndSource
<1> HIDE DEF stale, lost
<1>2. ASSUME NEW m \in Sources, m # n
      PROVE  source'[m].news = source[m].news /\ Same(m)
  <2>1. source[m] \in Observer
    BY <1>2, TopFrame
  <2>2. source'[m] = [source[m] EXCEPT !.stale = source[m].stale \/ stale(m), !.lost = source[m].lost \/ lost(m)]
    BY <1>1, <1>2
  <2> QED  BY <2>1, <2>2 DEF Observer, Same
<1>3. ASSUME NEW m \in Sources, m = n
      PROVE  source'[m].news /\ ~source'[m].live
  <2>1. source'[m] = [Ended(m) EXCEPT !.stale = @ \/ stale(m), !.lost = @ \/ lost(m)]
    BY <1>1, <1>3
  <2>2. Ended(m) = [Made(source[m].owner) EXCEPT !.live = FALSE]
    BY DEF Ended
  <2> QED  BY <2>1, <2>2 DEF Made
<1> QED  BY <1>2, <1>3

LEMMA LeavingNews ==
  ASSUME IInv, NEW u \in Subscribers, UnsubscribeColumns(u) \/ UnsubscribeLast(u)
  PROVE  /\ Sources' = Sources /\ UNCHANGED <<rows, calls, stack>> /\ Free
         /\ \E n : /\ \A m \in Sources : /\ m # n => source'[m].news = source[m].news /\ Same(m)
                                         /\ m = n => source'[m].news /\ ~source'[m].live
                   /\ database' = Without(database, n)
                   /\ collection' = Without(Without(collection, <<n, "simple">>), <<n, "columns">>)
<1>1. UNCHANGED <<rows, calls, stack>> /\ Free /\ \E n : EndSource(n)
  BY DEF UnsubscribeColumns, UnsubscribeLast, MayLeave, data
<1>2. PICK n : EndSource(n)
  BY <1>1
<1>3. /\ Sources' = Sources /\ database' = Without(database, n)
      /\ collection' = Without(Without(collection, <<n, "simple">>), <<n, "columns">>)
  BY <1>2, SourceEnded DEF IInv
<1> QED  BY <1>1, <1>2, <1>3, EndedHasNews DEF IInv

LEMMA MadeUndisturbed ==
  ASSUME IInv, ~synchronous, NEW owner,
         UNCHANGED <<simple, synchronous, rows>>,
         Sources' = 1 .. Len(source) + 1, \A m \in Sources : source'[m] = source[m],
         source'[Len(source) + 1] = Made(owner),
         calls' = FetchCalls(Len(source) + 1),
         database' = IF simple THEN database ELSE Append(database, Len(source) + 1),
         UNCHANGED collection \/ collection' = Append(collection, <<Len(source) + 1, "columns">>),
         ~Running("database")
  PROVE  Undisturbed
<1> DEFINE N == Len(source) + 1
           call == [type |-> "fetch", n |-> N, rows |-> NoRows, set |-> {}]
           entry == <<N, "columns">>
<1>0. /\ Sources = 1 .. Len(source) /\ Len(source) \in Nat /\ TypeOK
      /\ N \in Sources' /\ N \notin Sources /\ \A n \in Sources' : n = N \/ n \in Sources
  BY TopFrame DEF IInv
<1>1. ASSUME NEW n \in Sources'
      PROVE  Follows(n)
  <2>1. CASE n \in Sources
    BY <2>1 DEF Follows, Same
  <2>2. CASE n = N
    BY <2>2 DEF Follows, Made
  <2> QED  BY <1>0, <2>1, <2>2
<1>2. ASSUME NEW i \in DOMAIN calls', calls'[i].type = "fetch"
      PROVE  \/ \E j \in DOMAIN calls : calls[j].type = "fetch" /\ calls[j].n = calls'[i].n
             \/ calls'[i].n \in Sources' \ Sources
  <2>1. calls' = Append(calls, call) /\ call.n = N
    BY DEF FetchCalls
  <2>2. /\ calls \in Seq([type : {"fetch", "batch"}, n : Nat, rows : Rows, set : Lists])
        /\ call \in [type : {"fetch", "batch"}, n : Nat, rows : Rows, set : Lists]
    BY <1>0 DEF TypeOK, NoRows, Rows, Row, Lists
  <2> HIDE DEF call
  <2>3. \/ calls'[i] = call
        \/ i \in DOMAIN calls /\ calls'[i] = calls[i]
    BY <2>1, <2>2, Appended
  <2> QED  BY <1>0, <1>2, <2>1, <2>3
<1>3. ASSUME NEW p \in DOMAIN collection', collection'[p][2] = "simple"
      PROVE  \E q \in DOMAIN collection : q >= p /\ collection[q] = collection'[p]
  <2>1. collection \in Seq(Nat \X {"columns", "simple"})
    <3>1. collection \in Seq(Sources \X {"columns", "simple"}) /\ Sources \subseteq Nat
      BY <1>0 DEF TypeOK
    <3> QED  BY <3>1, SeqMonotonic
  <2>2. CASE UNCHANGED collection
    <3>1. p \in Nat
      BY <2>1, <2>2
    <3> QED  BY <2>2, <3>1
  <2>3. CASE collection' = Append(collection, entry)
    <3>1. entry \in Nat \X {"columns", "simple"} /\ entry[2] = "columns"
      BY <1>0
    <3> HIDE DEF entry
    <3>2. p \in DOMAIN collection /\ collection'[p] = collection[p]
      BY <1>3, <2>1, <2>3, <3>1, Appended
    <3>3. p \in Nat
      BY <2>1, <3>2
    <3> QED  BY <3>2, <3>3
  <2> QED  BY <2>2, <2>3
<1>4. ASSUME ~simple, Reloading
      PROVE  Reloading'
  <2>1. database \in Seq(Nat) /\ database' = Append(database, N)
    <3>1. database \in Seq(Sources) /\ Sources \subseteq Nat
      BY <1>0 DEF TypeOK
    <3> QED  BY <1>4, <3>1, SeqMonotonic
  <2>2. /\ N \in Nat /\ Len(database) \in Nat
        /\ DOMAIN database' = 1 .. Len(database) + 1 /\ database'[Len(database) + 1] = N
        /\ \A p \in DOMAIN database : p \in DOMAIN database' /\ database'[p] = database[p]
    <3>1. N \in Nat
      BY <1>0
    <3> HIDE DEF N
    <3> QED  BY <2>1, <3>1
  <2>3. ASSUME NEW n \in Sources', source'[n].live
        PROVE  \E p \in DOMAIN database' : database'[p] = n
    <3>1. CASE n = N
      BY <2>2, <3>1
    <3>2. CASE n \in Sources
      BY <1>4, <2>2, <2>3, <3>2 DEF Reloading
    <3> QED  BY <1>0, <3>1, <3>2
  <2> QED  BY <2>3 DEF Reloading
<1> QED  BY <1>1, <1>2, <1>3, <1>4 DEF Undisturbed

LEMMA QuietUndisturbed ==
  ASSUME IInv, Turned(stack), ~synchronous, Quietly
  PROVE  Undisturbed
<1>0. /\ Sources = 1 .. Len(source) /\ Len(source) \in Nat /\ TypeOK /\ Frames
      /\ \A n \in Sources : source[n] \in Observer
      /\ \A p \in DOMAIN collection : p \in Nat
      /\ stack # <<>> => Top \in Frame /\ Top \in Fitting(Len(source))
  <2>1. collection \in Seq(Sources \X {"columns", "simple"})
    BY DEF IInv, TypeOK
  <2>2. \A p \in DOMAIN collection : p \in Nat
    BY <2>1
  <2> QED  BY <2>2, TopFrame DEF IInv
<1>f. Free => ~Running("database")
  BY DEF Free, Running
<1>r. UNCHANGED <<database, source>> /\ Reloading => Reloading'
  BY DEF Reloading, Sources
<1>1. ASSUME UNCHANGED <<simple, synchronous, rows, source, database, collection>>,
             UNCHANGED calls \/ Write \/ BatchIsRejected, Running("database") => LoopEnds
      PROVE  Undisturbed
  <2>1. Sources' = Sources /\ \A n \in Sources' : Follows(n)
    BY <1>1 DEF Follows, Same, Sources
  <2>2. ASSUME NEW i \in DOMAIN calls', calls'[i].type = "fetch"
        PROVE  \E j \in DOMAIN calls : calls[j].type = "fetch" /\ calls[j].n = calls'[i].n
    <3>1. CASE UNCHANGED calls
      BY <2>2, <3>1
    <3>2. CASE Write
      <4>1. CASE UNCHANGED calls
        BY <2>2, <4>1
      <4>2. CASE ~UNCHANGED calls
        <5>1. PICK set \in Lists, new \in Rows :
                calls' = Append(calls, [type |-> "batch", n |-> 0, rows |-> new, set |-> set])
          BY <3>2, <4>2, WriteStep
        <5> DEFINE call == [type |-> "batch", n |-> 0, rows |-> new, set |-> set]
                   Calls == [type : {"fetch", "batch"}, n : Nat, rows : Rows, set : Lists]
        <5>2. /\ calls \in Seq(Calls) /\ call \in Calls /\ call.type = "batch"
              /\ calls' = Append(calls, call)
          BY <1>0, <5>1 DEF TypeOK
        <5> HIDE DEF call
        <5>3. i \in DOMAIN calls /\ calls'[i] = calls[i]
          BY <2>2, <5>2, Appended
        <5> QED  BY <2>2, <5>3
      <4> QED  BY <4>1, <4>2
    <3>3. CASE BatchIsRejected
      <4>1. calls # <<>> /\ calls' = Tail(calls)
        BY <3>3, BatchStep
      <4>2. calls \in Seq([type : {"fetch", "batch"}, n : Nat, rows : Rows, set : Lists])
        BY <1>0 DEF TypeOK
      <4>3. i + 1 \in DOMAIN calls /\ calls'[i] = calls[i + 1]
        BY <2>2, <4>1, <4>2
      <4> QED  BY <2>2, <4>3
    <3> QED  BY <1>1, <3>1, <3>2, <3>3
  <2>3. \A p \in DOMAIN collection' : \E q \in DOMAIN collection : q >= p /\ collection[q] = collection'[p]
    BY <1>0, <1>1
  <2> QED  BY <1>1, <1>r, <2>1, <2>2, <2>3 DEF Undisturbed
<1>2. CASE EmitThrows \/ Tell \/ Return \/ LoopEnds \/ CallSubscriber \/ SourceIsThere \/ Subscribed
  BY <1>1, <1>2 DEF EmitThrows, Tell, Return, LoopEnds, CallSubscriber, SourceIsThere, Subscribed,
                    Running, In, setting, data, entries, observers
<1>3. CASE Write \/ BatchIsRejected \/ Notify \/ StopHolding
  <2>1. UNCHANGED <<simple, synchronous, rows, source, database, collection>>
    BY <1>3 DEF Write, BatchIsRejected, BatchAnswer, Rejects, Notify, StopHolding, setting, data,
                entries, observers
  <2>2. (UNCHANGED calls \/ Write \/ BatchIsRejected) /\ stack = <<>>
    BY <1>3, BatchStep DEF Write, Notify, StopHolding
  <2> QED  BY <1>1, <2>1, <2>2 DEF Running
<1>4. ASSUME NEW u \in Subscribers, Subscribe(u) \/ Unsubscribe(u)
      PROVE  Undisturbed
  BY <1>1, <1>4, <1>f DEF Subscribe, Unsubscribe, MayLeave, setting, data, entries
<1>5. CASE AnswerIsError
  <2> DEFINE n == Top.n
             t == [source[n] EXCEPT !.stale = @ \/ source[n].live]
  <2>1. /\ UNCHANGED <<simple, synchronous, rows, database, collection, calls>>
        /\ source' = [source EXCEPT ![n] = t]
        /\ n \in Sources /\ ~Running("database")
    BY <1>0, <1>5 DEF AnswerIsError, Running, Top, Fitting, setting, data, entries
  <2>2. Sources' = Sources /\ \A m \in Sources : source'[m] = IF m = n THEN t ELSE source[m]
    BY <1>0, <2>1 DEF Sources, TypeOK
  <2>3. /\ t.owner = source[n].owner /\ t.live = source[n].live /\ t.list = source[n].list
        /\ t.fetching = source[n].fetching /\ t.pending = source[n].pending /\ t.first = source[n].first
        /\ t.observed = source[n].observed /\ t.news = source[n].news
    BY <1>0, <2>1 DEF Observer
  <2> HIDE DEF t, n
  <2>4. \A m \in Sources' : Follows(m) /\ source'[m].live = source[m].live
    BY <2>2, <2>3 DEF Follows, Same
  <2>5. Reloading => Reloading'
    BY <2>1, <2>2, <2>4 DEF Reloading
  <2> QED  BY <1>0, <2>1, <2>4, <2>5 DEF Undisturbed
<1>6. CASE Observe
  <2>1. /\ UNCHANGED <<simple, synchronous, rows, source, database, calls>>
        /\ stack # <<>> /\ Top.at = "observe" /\ stack' = Below
    BY <1>6 DEF Observe, Running, Top, setting, data, entries, observers
  <2>2. stack' = <<>>
    <3>1. stack \in Seq(Frame) /\ Top = Head(stack) /\ Below = Tail(stack)
      BY <1>0 DEF TypeOK, Top, Below
    <3> QED  BY <2>1, <3>1, TurnedBelow
  <2>3. Sources' = Sources /\ \A m \in Sources' : Follows(m)
    BY <2>1 DEF Follows, Same, Sources
  <2> QED  BY <1>r, <2>1, <2>2, <2>3 DEF Undisturbed, Running, Top
<1>7. CASE BatchIsAnswered
  <2>1. /\ UNCHANGED <<simple, synchronous, database, collection, stack>> /\ stack = <<>>
        /\ source' = News /\ calls # <<>> /\ calls' = Tail(calls)
    BY <1>7 DEF BatchIsAnswered, BatchAnswer, setting, entries
  <2>2. Sources' = Sources /\ \A m \in Sources : source'[m] = [source[m] EXCEPT !.news = TRUE]
    BY <1>0, <2>1, NewsTyped DEF News, Sources
  <2>3. \A m \in Sources : /\ source'[m].news /\ source'[m].live = source[m].live
                           /\ source'[m].fetching = source[m].fetching
    BY <1>0, <2>2 DEF Observer
  <2>4. \A m \in Sources' : Follows(m)
    BY <2>2, <2>3 DEF Follows
  <2>5. Reloading => Reloading'
    BY <2>1, <2>2, <2>3 DEF Reloading
  <2>6. \A i \in DOMAIN calls' : i + 1 \in DOMAIN calls /\ calls'[i] = calls[i + 1]
    <3>1. calls \in Seq([type : {"fetch", "batch"}, n : Nat, rows : Rows, set : Lists])
      BY <1>0 DEF TypeOK
    <3> QED  BY <2>1, <3>1
  <2> QED  BY <1>0, <2>1, <2>2, <2>3, <2>4, <2>5, <2>6 DEF Undisturbed, Running
<1>8. ASSUME NEW u \in Subscribers, UnsubscribeColumns(u) \/ UnsubscribeLast(u)
      PROVE  Undisturbed
  <2>0. /\ Sources' = Sources /\ UNCHANGED <<rows, calls, stack>> /\ Free /\ UNCHANGED <<simple,
                                             synchronous>>
    BY <1>8, LeavingNews, LeavingSteps
  <2>1. PICK n : /\ \A m \in Sources : /\ m # n => source'[m].news = source[m].news /\ Same(m)
                                       /\ m = n => source'[m].news /\ ~source'[m].live
                 /\ database' = Without(database, n)
                 /\ collection' = Without(Without(collection, <<n, "simple">>), <<n, "columns">>)
    BY <1>8, LeavingNews
  <2>2. \A m \in Sources' : Follows(m)
    BY <2>0, <2>1 DEF Follows
  <2>3. \A p \in DOMAIN collection' : \E q \in DOMAIN collection : q >= p /\ collection[q] = collection'[p]
    <3> DEFINE e == <<n, "simple">>
               f == <<n, "columns">>
               c == Without(collection, e)
               S == Sources \X {"columns", "simple"}
    <3>1. collection \in Seq(S) /\ collection' = Without(c, f)
      BY <1>0, <2>1 DEF TypeOK
    <3> HIDE DEF S, e, f
    <3>2. /\ c \in Seq(S)
          /\ \A p \in DOMAIN c : \E q \in DOMAIN collection : c[p] = collection[q] /\ q >= p
      BY <3>1, Removed
    <3> HIDE DEF c
    <3>4. /\ collection' \in Seq(S)
          /\ \A p \in DOMAIN collection' : \E q \in DOMAIN c : collection'[p] = c[q] /\ q >= p
      BY <3>1, <3>2, Removed
    <3>5. ASSUME NEW p \in DOMAIN collection'
          PROVE  \E q \in DOMAIN collection : q >= p /\ collection[q] = collection'[p]
      <4>1. PICK r \in DOMAIN c : collection'[p] = c[r] /\ r >= p
        BY <3>4
      <4>2. PICK q \in DOMAIN collection : c[r] = collection[q] /\ q >= r
        BY <3>2
      <4>3. p \in Nat /\ r \in Nat /\ q \in Nat
        BY <3>1, <3>2, <3>4
      <4> QED  BY <4>1, <4>2, <4>3
    <3> QED  BY <3>5
  <2>4. Reloading => Reloading'
    <3>1. ASSUME Reloading, NEW m \in Sources', source'[m].live
          PROVE  \E p \in DOMAIN database' : database'[p] = m
      <4>1. m # n /\ source[m].live
        BY <2>0, <2>1, <3>1 DEF Same
      <4>2. PICK q \in DOMAIN database : database[q] = m
        BY <2>0, <3>1, <4>1 DEF Reloading
      <4>3. database \in Seq(Sources)
        BY <1>0 DEF TypeOK
      <4>4. \E p \in DOMAIN Without(database, n) : Without(database, n)[p] = database[q]
        BY <4>1, <4>2, <4>3, Removed
      <4> QED  BY <2>1, <4>2, <4>4
    <3> QED  BY <3>1 DEF Reloading
  <2> QED  BY <1>f, <2>0, <2>2, <2>3, <2>4 DEF Undisturbed
<1>9. CASE SubscribeSource
  <2>1. UNCHANGED rows /\ ~Running("database")
    BY <1>9 DEF SubscribeSource, data, Running
  <2> QED  BY <1>9, <2>1, SourceMadeForAll, MadeUndisturbed
<1>10. ASSUME NEW u \in Subscribers, SubscribeWithColumns(u)
       PROVE  Undisturbed
  <2>1. UNCHANGED rows
    BY <1>10 DEF SubscribeWithColumns, data
  <2>2. ~Running("database")
    BY <1>10, <1>f, SourceMadeForOne
  <2> QED  BY <1>10, <2>1, <2>2, SourceMadeForOne, MadeUndisturbed
<1> QED  BY <1>2, <1>3, <1>4, <1>5, <1>6, <1>7, <1>8, <1>9, <1>10 DEF Quietly

(* A step that leaves no observer just called.                             *)
LEMMA NobodyEmits ==
  ASSUME TypeOK, Frames, Silent(stack')
  PROVE  \A n \in Sources : ~Emits(n)
<1>1. 0 \notin Sources
  BY TopFrame
<1> QED  BY <1>1 DEF Silent, Emits

LEMMA ColumnsCalled ==
  ASSUME IInv, IEmissions, ~synchronous, CallColumns
  PROVE  Calm(stack') /\ Silent(stack') /\ Undisturbed
<1> DEFINE n == NextOf(Top)[1]
           s == source[n]
           changed == {id \in Top.set \cap s.observed : s.states[id] # memory[id].col}
           emits == changed # {} /\ ~LeftToSource(s)
           pending == s.pending \/ (changed # {} /\ LeftToSource(s))
           states == [id \in Records |-> IF id \in changed THEN memory[id].col ELSE s.states[id]]
           news == s.news /\ ~emits
           early == IF emits THEN Ahead(states, s.observed) ELSE s.early
           t == [s EXCEPT !.pending = pending, !.states = states, !.news = news, !.early = early]
           tell == [OfUser("tell", s.owner, s.observed) EXCEPT !.n = n]
<1>1. /\ source' = [source EXCEPT ![n] = t]
      /\ UNCHANGED <<simple, synchronous, rows, calls, database, collection>>
      /\ stack # <<>> /\ Top.at = "collection" /\ In("collection")
      /\ stack' = (IF emits THEN <<tell>> ELSE <<>>) \o <<Moved(Top)>> \o Below
  BY DEF CallColumns, In, Running, Top, setting, data, entries
<1>2. /\ n \in Sources /\ Top.i + 1 \in DOMAIN collection /\ NextOf(Top) = collection[Top.i + 1]
      /\ TypeOK /\ Frames /\ Turned(stack) /\ source[n] \in Observer
  BY <1>1, CollectionItem, TopFrame DEF IInv, IEmissions
<1>3. s.live
  BY <1>2 DEF IInv, NothingStaysSubscribed
<1>4. ~simple => source[n].news /\ source[n].fetching
  <2>1. LoopRuns(stack) /\ ~Running("database")
    <3>1. stack \in Seq(Frame) /\ stack # <<>>
      BY <1>1, <1>2 DEF TypeOK
    <3>2. 1 \in DOMAIN stack /\ stack[1] = Head(stack)
      BY <3>1
    <3> QED  BY <1>1, <3>2 DEF LoopRuns, Running, Top
  <2> QED  BY <1>2, <1>3, <2>1 DEF IEmissions, Reloads, AllFetching
<1>5. ~emits /\ news = s.news
  BY <1>2, <1>4 DEF LeftToSource, Observer
<1>6. Calm(<<Moved(Top)>> \o Below) /\ Silent(<<Moved(Top)>> \o Below)
  BY <1>1, <1>2, CalmMoved
<1>7. stack' = <<Moved(Top)>> \o Below
  <2> HIDE DEF emits
  <2>1. stack' = <<>> \o <<Moved(Top)>> \o Below
    BY <1>1, <1>5
  <2>2. Moved(Top) \in Frame
    BY <1>1, <1>2, LoopFrames, Fits
  <2> QED  BY <2>1, <2>2
<1> HIDE DEF emits
<1>8. /\ t.owner = s.owner /\ t.live = s.live /\ t.list = s.list /\ t.fetching = s.fetching /\ t.news = s.news
  <2> HIDE DEF pending, states, news, early, n
  <2> QED  BY <1>2, <1>5 DEF Observer
<1> HIDE DEF t, n
<1>9. Sources' = Sources /\ \A m \in Sources : source'[m] = IF m = n THEN t ELSE source[m]
  BY <1>1, <1>2 DEF Sources, TypeOK
<1>10. \A m \in Sources' : Follows(m) /\ source'[m].live = source[m].live
  <2>1. Follows(n)
    BY <1>2, <1>3, <1>4, <1>8, <1>9 DEF Follows
  <2>2. \A m \in Sources : m # n => Follows(m)
    BY <1>9 DEF Follows, Same
  <2> QED  BY <1>8, <1>9, <2>1, <2>2
<1>11. Reloading => Reloading'
  BY <1>1, <1>9, <1>10 DEF Reloading
<1>12. \A p \in DOMAIN collection : p \in Nat
  <2>1. collection \in Seq(Sources \X {"columns", "simple"})
    BY <1>2 DEF TypeOK
  <2> QED  BY <2>1
<1>13. Undisturbed
  BY <1>1, <1>10, <1>11, <1>12 DEF Undisturbed, Running, Top
<1> QED  BY <1>6, <1>7, <1>13

(* An emission: the observer that emits has no news left.                  *)
LEMMA EmissionKept ==
  ASSUME IInv, IEmissions, ~synchronous, Running("emit"), NEW n, n = Top.n, Calm(stack'), Sources' = Sources,
         UNCHANGED <<simple, synchronous, rows, calls, database, collection>>,
         \A m \in Sources : /\ m # n => source'[m] = source[m]
                            /\ source'[m].live = source[m].live,
         ~simple => Told(source[n])'
  PROVE  IEmissions'
<1>0. /\ Turned(stack') /\ ~Running("emit")' /\ ~Running("answer")' /\ ~Running("database")'
      /\ TypeOK /\ Frames /\ Simples /\ Reloads
  BY DEF Calm, Running, IInv, IEmissions
<1>1. ASSUME NEW k \in DOMAIN stack', stack'[k].at = "collection"
      PROVE  \E j \in DOMAIN stack : stack[j].at = "collection" /\ stack'[k].i >= stack[j].i
  BY <1>1 DEF Calm
<1>2. CASE simple
  <2>1. Unvisited /\ FirstAnswer /\ Emitting
    BY <1>0, <1>2 DEF Simples
  <2>2. ASSUME NEW k \in DOMAIN stack', stack'[k].at = "collection", NEW p \in DOMAIN collection,
               p > stack'[k].i, collection[p][2] = "simple"
        PROVE  source'[collection[p][1]].news
    <3>1. PICK j \in DOMAIN stack : stack[j].at = "collection" /\ stack'[k].i >= stack[j].i
      BY <1>1, <2>2
    <3>2. p > stack[j].i /\ collection[p] \in Sources \X {"columns", "simple"}
      <4>1. stack \in Seq(Frame) /\ stack' \in Seq(Frame) /\ collection \in Seq(Sources \X {"columns", "simple"})
        BY <1>0 DEF TypeOK, Calm
      <4>2. stack[j] \in Frame /\ stack'[k] \in Frame /\ p \in Nat /\ collection[p] \in Sources \X {"columns", "simple"}
        BY <4>1
      <4>3. stack[j].i \in Nat /\ stack'[k].i \in Nat
        BY <4>2 DEF Frame
      <4> QED  BY <2>2, <3>1, <4>2, <4>3
    <3>3. collection[p] # <<Top.n, "simple">>
      BY <2>1, <3>1, <3>2 DEF Emitting
    <3>4. collection[p][1] # Top.n /\ collection[p][1] \in Sources
      BY <2>2, <3>2, <3>3
    <3>5. source[collection[p][1]].news
      BY <2>1, <2>2, <3>1, <3>2 DEF Unvisited
    <3> QED  BY <3>4, <3>5
  <2>3. Unvisited'
    BY <2>2 DEF Unvisited
  <2>4. ASSUME NEW i \in DOMAIN calls, calls[i].type = "fetch"
        PROVE  source'[calls[i].n].news
    <3>1. calls[i].n # Top.n /\ calls[i].n \in Sources
      BY <1>0, <2>1, <2>4 DEF Emitting, Frames
    <3> QED  BY <2>1, <2>4, <3>1 DEF FirstAnswer
  <2>5. FirstAnswer' /\ Emitting'
    BY <1>0, <2>4 DEF FirstAnswer, Emitting
  <2> QED  BY <1>0, <1>2, <2>3, <2>5 DEF IEmissions, Simples, Reloads
<1>3. CASE ~simple
  <2>1. Reloading /\ (\A m \in Sources : Told(source[m])) /\ Reloaded
    BY <1>0, <1>3 DEF Reloads
  <2>2. Reloading'
    BY <2>1 DEF Reloading
  <2>3. ASSUME NEW m \in Sources'
        PROVE  Told(source[m])'
    <3>1. CASE m = n
      BY <1>3, <3>1
    <3>2. CASE m # n
      BY <2>1, <3>2 DEF Told, Matching
    <3> QED  BY <3>1, <3>2
  <2>4. ~LoopRuns(stack')
    <3>1. ASSUME NEW j \in DOMAIN stack
          PROVE  stack[j].at # "collection"
      <4>1. stack \in Seq(Frame) /\ stack # <<>> /\ Head(stack).at = "emit" /\ Tail(stack) = <<>>
        BY <1>0, <2>1 DEF TypeOK, Reloaded, Running, Below
      <4>2. Len(Tail(stack)) = Len(stack) - 1 /\ stack[1] = Head(stack) /\ DOMAIN stack = 1 .. Len(stack)
        BY <4>1, HeadTailProperties
      <4>3. j = 1
        BY <4>1, <4>2
      <4> QED  BY <4>1, <4>2, <4>3
    <3> QED  BY <1>1, <3>1 DEF LoopRuns
  <2>5. Reloaded' /\ DatabaseLoop' /\ AllFetching'
    BY <1>0, <2>4 DEF Reloaded, DatabaseLoop, AllFetching
  <2> QED  BY <1>0, <1>3, <2>2, <2>3, <2>5 DEF IEmissions, Simples, Reloads
<1> QED  BY <1>2, <1>3

LEMMA EmittedWithColumns ==
  ASSUME IInv, IEmissions, ~synchronous, EmitWithColumns
  PROVE  IEmissions' /\ \A m \in Sources : Emits(m) => source[m].news
<1> DEFINE n == Top.n
           s == source[n]
           should == (s.first \/ s.pending \/ s.observed # Top.set) /\ s.live
           states == StateAfter(s, Top.set)
           news == s.news /\ ~should
           early == IF should THEN Ahead(states, Top.set) ELSE s.early
           t == [s EXCEPT !.fetching = FALSE, !.pending = FALSE, !.first = FALSE,
                          !.observed = Top.set, !.states = states, !.news = news, !.early = early]
           tell == [OfUser("tell", s.owner, Top.set) EXCEPT !.n = n]
<1>1. /\ stack # <<>> /\ Top.at = "emit" /\ Running("emit") /\ s.owner # Nobody
      /\ source' = [source EXCEPT ![n] = t]
      /\ stack' = IF should THEN <<tell>> \o Below ELSE Below
      /\ UNCHANGED <<simple, synchronous, rows, calls, database, collection>>
  BY DEF EmitWithColumns, Running, Top, setting, data, entries
<1>2. /\ n \in Sources /\ n \in Nat /\ Top.set \in Lists /\ s \in Observer /\ TypeOK /\ Frames /\ Turned(stack)
      /\ Calm(Below) /\ Silent(Below)
  <2>1. Top \in Fitting(Len(source)) /\ Top \in Frame /\ TypeOK /\ Frames /\ Turned(stack)
    BY <1>1, TopFrame DEF IInv, IEmissions
  <2>2. n \in Sources /\ n \in Nat /\ Top.set \in Lists
    BY <1>1, <2>1, TopFrame DEF Fitting, Frame
  <2> QED  BY <1>1, <2>1, <2>2, TopFrame, CalmBelow
<1>3. tell \in Frame /\ tell.at = "tell" /\ tell.n = n
  <2>1. s.owner \in Subscribers
    BY <1>1, <1>2 DEF Observer
  <2>2. tell \in Frame
    BY <1>2, <2>1, NewFrames, Fits, TopFrame
  <2> QED  BY <2>2 DEF OfUser, NoFrame
<1>4. /\ t.owner = s.owner /\ t.live = s.live /\ t.list = s.list /\ ~t.first /\ ~t.pending
      /\ t.observed = Top.set /\ t.news = news
  <2> HIDE DEF states, news, early, n
  <2> QED  BY <1>2 DEF Observer
<1> HIDE DEF t, tell
<1>5. Sources' = Sources /\ \A m \in Sources : source'[m] = IF m = n THEN t ELSE source[m]
  BY <1>1, <1>2 DEF Sources, TypeOK
<1>6. Calm(<<tell>> \o Below)
  BY <1>2, <1>3, CalmPushed
<1>7. Calm(stack')
  BY <1>1, <1>2, <1>6
<1>8. ~simple => Top.set = Matching(rows) /\ Told(source[n])
  BY <1>1, <1>2 DEF IEmissions, Reloads, Reloaded
<1>9. ~simple => /\ ~t.first /\ ~t.pending /\ t.observed = Matching(rows') /\ t.owner # Nobody
  BY <1>1, <1>4, <1>8 DEF Matching
<1>10. PICK k : k = n
  OBVIOUS
<1>11. ~simple => Told(source[k])'
  <2>1. source'[k] = t
    BY <1>2, <1>5, <1>10
  <2> QED  BY <1>9, <2>1 DEF Told, Matching
<1>12. IEmissions'
  <2>1. \A m \in Sources : /\ m # k => source'[m] = source[m]
                           /\ source'[m].live = source[m].live
    BY <1>4, <1>5, <1>10
  <2> QED  BY <1>1, <1>5, <1>7, <1>10, <1>11, <2>1, EmissionKept
<1>13. ASSUME NEW m \in Sources, Emits(m)
       PROVE  source[m].news
  <2>1. should
    <3>1. ~Silent(stack')
      BY <1>2, <1>13, NobodyEmits
    <3> QED  BY <1>1, <1>2, <3>1
  <2>2. m = n
    <3>1. Below \in Seq(Frame)
      BY <1>2 DEF Calm
    <3>2. stack' # <<>> /\ Head(stack') = tell
      BY <1>1, <1>3, <2>1, <3>1, Pushed
    <3> QED  BY <1>3, <1>13, <3>2 DEF Emits
  <2>3. CASE simple
    BY <1>1, <2>2, <2>3 DEF IEmissions, Simples, Emitting
  <2>4. CASE ~simple
    BY <1>1, <1>8, <2>1, <2>2, <2>4 DEF Told
  <2> QED  BY <2>3, <2>4
<1> QED  BY <1>12, <1>13

LEMMA EmittedShared ==
  ASSUME IInv, IEmissions, ~synchronous, EmitShared
  PROVE  IEmissions' /\ \A m \in Sources : Emits(m) => source[m].news
<1> DEFINE n == Top.n
           t == [source[n] EXCEPT !.news = FALSE]
           f == OfSource("shared", n, Top.set)
<1>1. /\ stack # <<>> /\ Top.at = "emit" /\ Running("emit") /\ source[n].owner = Nobody
      /\ source' = [source EXCEPT ![n] = t] /\ stack' = <<f>> \o Below
      /\ UNCHANGED <<simple, synchronous, rows, calls, database, collection>>
  BY DEF EmitShared, Running, Top, setting, data, entries
<1>2. /\ n \in Sources /\ Top.set \in Lists /\ source[n] \in Observer /\ TypeOK /\ Frames /\ Turned(stack)
      /\ Calm(Below) /\ Silent(Below)
  <2>1. Top \in Fitting(Len(source)) /\ Top \in Frame /\ TypeOK /\ Frames /\ Turned(stack)
    BY <1>1, TopFrame DEF IInv, IEmissions
  <2>2. n \in Sources /\ Top.set \in Lists
    BY <1>1, <2>1, TopFrame DEF Fitting, Frame
  <2> QED  BY <1>1, <2>1, <2>2, TopFrame, CalmBelow
<1>3. f \in Frame /\ f.at = "shared" /\ f.n = n
  <2>1. f \in Frame
    BY <1>2, NewFrames, Fits, TopFrame
  <2> QED  BY <2>1 DEF OfSource, NoFrame
<1>4. t.owner = Nobody /\ t.live = source[n].live /\ t.list = source[n].list
  BY <1>1, <1>2 DEF Observer
<1> HIDE DEF t, f
<1>5. Sources' = Sources /\ \A m \in Sources : source'[m] = IF m = n THEN t ELSE source[m]
  BY <1>1, <1>2 DEF Sources, TypeOK
<1>6. Calm(stack')
  BY <1>1, <1>2, <1>3, CalmPushed
<1>7. source[n].news /\ (~simple => source[n].list = Matching(rows))
  BY <1>1 DEF IEmissions, Simples, Emitting, Reloads, Reloaded
<1>8. PICK k : k = n
  OBVIOUS
<1>9. ~simple => Told(source[k])'
  <2>1. source'[k] = t
    BY <1>2, <1>5, <1>8
  <2> QED  BY <1>1, <1>4, <1>7, <2>1 DEF Told, Matching
<1>10. IEmissions'
  <2>1. \A m \in Sources : /\ m # k => source'[m] = source[m]
                           /\ source'[m].live = source[m].live
    BY <1>4, <1>5, <1>8
  <2> QED  BY <1>1, <1>5, <1>6, <1>8, <1>9, <2>1, EmissionKept
<1>11. ASSUME NEW m \in Sources, Emits(m)
       PROVE  source[m].news
  <2>1. Below \in Seq(Frame)
    BY <1>2 DEF Calm
  <2>2. stack' # <<>> /\ Head(stack') = f
    BY <1>1, <1>3, <2>1, Pushed
  <2> QED  BY <1>3, <1>7, <1>11, <2>2 DEF Emits
<1> QED  BY <1>10, <1>11

(* An answer has its turn for itself.                                      *)
LEMMA Alone ==
  ASSUME IInv, Turned(stack), Running("answer")
  PROVE  /\ stack # <<>> /\ Top.at = "answer" /\ Below = <<>> /\ Top.n \in Sources
         /\ 1 \in DOMAIN stack /\ stack[1] = Top /\ \A k \in DOMAIN stack : k = 1
<1>1. stack # <<>> /\ Top.at = "answer" /\ stack \in Seq(Frame) /\ Top = Head(stack) /\ Below = Tail(stack)
  BY DEF Running, Top, Below, IInv, TypeOK
<1>2. Below = <<>>
  BY <1>1, TurnedBelow
<1>3. Top.n \in Sources
  BY <1>1, TopFrame DEF IInv, Fitting
<1>4. Len(Tail(stack)) = Len(stack) - 1 /\ Len(stack) \in Nat
  BY <1>1, HeadTailProperties
<1>5. Len(stack) = 1
  <2>1. Tail(stack) = <<>> /\ Tail(stack) \in Seq(Frame)
    BY <1>1, <1>2
  <2>2. Len(Tail(stack)) = 0
    BY <2>1, EmptySeq
  <2> QED  BY <1>4, <2>2
<1>6. stack[1] = Top /\ DOMAIN stack = 1 .. 1
  BY <1>1, <1>5
<1> QED  BY <1>1, <1>2, <1>3, <1>6

LEMMA AnswerEmits ==
  ASSUME IInv, IEmissions, ~synchronous, Answer
  PROVE  IEmissions' /\ \A m \in Sources : ~Emits(m)
<1> DEFINE n == Top.n
           list == Matching(rows)
           t == [source[n] EXCEPT !.list = list, !.stale = FALSE]
           emit == OfSource("emit", n, list)
           observe == OfSource("observe", n, {})
<1>0. /\ Turned(stack) /\ TypeOK /\ Frames /\ Simples /\ Reloads /\ Running("answer") /\ {} \in Lists
      /\ Len(source) \in Nat /\ Sources = 1 .. Len(source)
  BY TopFrame DEF IEmissions, IInv, Answer, Lists
<1>1. /\ stack # <<>> /\ Top.at = "answer" /\ Below = <<>> /\ n \in Sources
      /\ 1 \in DOMAIN stack /\ stack[1] = Top /\ \A k \in DOMAIN stack : k = 1
  BY <1>0, Alone
<1>2. /\ UNCHANGED <<simple, synchronous, rows, calls, database, collection>>
      /\ IF simple THEN SimpleAnswer(n, list) ELSE ReloadingAnswer(n, list)
  BY DEF Answer, setting, data, entries
<1>3. list \in Lists /\ source[n] \in Observer
  BY <1>0, <1>1, TopFrame DEF Matching, Lists
<1>4. /\ t.owner = source[n].owner /\ t.live = source[n].live /\ t.list = list /\ t.news = source[n].news
      /\ t.fetching = source[n].fetching /\ t.pending = source[n].pending /\ t.first = source[n].first
      /\ t.observed = source[n].observed
  <2> HIDE DEF list, n
  <2> QED  BY <1>3 DEF Observer
<1>5. emit \in Frame /\ observe \in Frame /\ emit.at = "emit" /\ emit.n = n /\ emit.set = list /\ observe.at = "observe"
  <2>1. emit \in Frame /\ observe \in Frame
    <3> HIDE DEF list
    <3> QED  BY <1>0, <1>1, <1>3, NewFrames, Fits
  <2> QED  BY <2>1 DEF OfSource, NoFrame
<1> HIDE DEF t, emit, observe
<1>6. \/ source' = source
      \/ source' = [source EXCEPT ![n] = t]
  BY <1>2 DEF SimpleAnswer, ReloadingAnswer, t
<1>7. Sources' = Sources /\ \A m \in Sources : source'[m] = source[m] \/ (m = n /\ source'[m] = t)
  BY <1>0, <1>1, <1>6 DEF Sources, TypeOK
<1>8. \A m \in Sources : source'[m].news = source[m].news /\ source'[m].live = source[m].live
  BY <1>4, <1>7
<1>9. \/ stack' = <<>>
      \/ simple /\ stack' = <<emit, observe>> \o <<>>
      \/ /\ ~simple /\ stack' = <<emit>> \o <<>> /\ source[n].live
         /\ source[n].owner # Nobody \/ source[n].list # list
         /\ source' = [source EXCEPT ![n] = t]
  BY <1>1, <1>2 DEF SimpleAnswer, ReloadingAnswer, StillSubscribed, t, emit, observe
<1>10. /\ Turned(stack')
       /\ stack' # <<>> => Top' = emit
       /\ \A k \in DOMAIN stack' : stack'[k].at # "collection"
  <2>1. CASE stack' = <<>>
    BY <2>1 DEF Turned
  <2>2. CASE stack' = <<emit, observe>> \o <<>>
    <3>1. stack' = <<emit, observe>>
      BY <1>5, <2>2
    <3>2. stack' \in Seq(Frame) /\ Len(stack') = 2 /\ stack'[1] = emit /\ stack'[2] = observe /\ Head(stack') = emit
      BY <1>5, <3>1
    <3>3. \A k \in DOMAIN stack' : k = 1 \/ (k = 2 /\ k = Len(stack'))
      BY <3>2
    <3> QED  BY <1>5, <3>2, <3>3 DEF Turned, Top
  <2>3. CASE stack' = <<emit>> \o <<>>
    <3>1. stack' = <<emit>>
      BY <1>5, <2>3
    <3>2. stack' \in Seq(Frame) /\ Len(stack') = 1 /\ stack'[1] = emit /\ Head(stack') = emit
      BY <1>5, <3>1
    <3>3. \A k \in DOMAIN stack' : k = 1
      BY <3>2
    <3> QED  BY <1>5, <3>2, <3>3 DEF Turned, Top
  <2> QED  BY <1>9, <2>1, <2>2, <2>3
<1>11. ~Running("answer")' /\ ~Running("database")' /\ (Running("emit")' => Top' = emit)
  BY <1>5, <1>10 DEF Running, Top
<1>12. ASSUME simple
       PROVE  IEmissions'
  <2>1. FirstAnswer
    BY <1>0, <1>12 DEF Simples
  <2>2. FirstAnswer'
    BY <1>0, <1>2, <1>8, <1>11, <2>1 DEF FirstAnswer, Frames
  <2>3. \A i \in DOMAIN calls : calls[i].type = "fetch" => calls[i].n # n
    BY <1>1, <1>12 DEF IInv, OneAnswer, Awaits
  <2>4. source[n].news
    BY <1>0, <2>1 DEF FirstAnswer
  <2>5. Unvisited'
    BY <1>10 DEF Unvisited
  <2>6. ASSUME Running("emit")'
        PROVE  /\ Top' = emit /\ source'[emit.n].news
               /\ \A i \in DOMAIN calls' : calls'[i].type = "fetch" => calls'[i].n # emit.n
    BY <1>1, <1>2, <1>5, <1>8, <1>11, <2>3, <2>4, <2>6
  <2>7. Emitting'
    BY <1>10, <2>6 DEF Emitting
  <2>8. simple' = simple
    BY <1>2
  <2> QED  BY <1>10, <1>12, <2>2, <2>5, <2>7, <2>8 DEF IEmissions, Simples, Reloads
<1>13. ASSUME ~simple
       PROVE  IEmissions'
  <2>1. Reloading /\ \A m \in Sources : Told(source[m])
    BY <1>0, <1>13 DEF Reloads
  <2>2. Reloading'
    BY <1>2, <1>7, <1>8, <2>1 DEF Reloading
  <2>3. ASSUME NEW m \in Sources'
        PROVE  Told(source[m])'
    <3>1. CASE source'[m] = source[m]
      BY <1>2, <1>7, <2>1, <3>1 DEF Told, Matching
    <3>2. CASE m = n /\ source'[m] = t
      BY <1>1, <1>2, <1>4, <2>1, <3>2 DEF Told, Matching
    <3> QED  BY <1>7, <3>1, <3>2
  <2>4. ~LoopRuns(stack')
    BY <1>10 DEF LoopRuns
  <2>5. ASSUME Running("emit")'
        PROVE  /\ Below' = <<>> /\ Top' = emit /\ emit.set = Matching(rows)'
               /\ source'[emit.n].owner = Nobody => source'[emit.n].news /\ source'[emit.n].list = emit.set
    <3>1. stack' # <<>> /\ Top' = emit
      BY <1>11, <2>5 DEF Running
    <3>2. /\ stack' = <<emit>> \o <<>> /\ (source[n].owner # Nobody \/ source[n].list # list)
          /\ source' = [source EXCEPT ![n] = t]
      BY <1>9, <1>13, <3>1
    <3>3. Below' = <<>>
      BY <1>5, <3>2 DEF Below
    <3>4. source'[n] = t
      BY <1>0, <1>1, <3>2 DEF TypeOK
    <3>5. source[n].owner = Nobody => source[n].news
      BY <1>1, <2>1, <3>2 DEF Told
    <3> QED  BY <1>2, <1>4, <1>5, <3>1, <3>3, <3>4, <3>5 DEF Matching
  <2>6. Reloaded'
    BY <2>5 DEF Reloaded
  <2>7. DatabaseLoop' /\ AllFetching'
    BY <1>11, <2>4 DEF DatabaseLoop, AllFetching
  <2>8. simple' = simple /\ \A m \in Sources' : Told(source[m])'
    BY <1>2, <2>3
  <2> QED  BY <1>10, <1>13, <2>2, <2>6, <2>7, <2>8 DEF IEmissions, Simples, Reloads
<1>14. Silent(stack')
  BY <1>5, <1>10 DEF Silent, Top
<1> QED  BY <1>0, <1>12, <1>13, <1>14, NobodyEmits

(* A simple observer is come to, once.                                     *)
LEMMA SimpleCalled ==
  ASSUME IInv, IEmissions, ~synchronous, CallSimple, TypeOK', Frames'
  PROVE  IEmissions' /\ \A m \in Sources : ~Emits(m)
<1> DEFINE n == NextOf(Top)[1]
           list == Processed(source[n].list, Top.set)
           t == [source[n] EXCEPT !.list = list]
           emit == OfSource("emit", n, list)
           moved == Moved(Top)
           rest == <<moved>> \o Below
<1>1. /\ source' = [source EXCEPT ![n] = t]
      /\ UNCHANGED <<simple, synchronous, rows, calls, database, collection>>
      /\ stack # <<>> /\ Top.at = "collection" /\ In("collection") /\ NextOf(Top)[2] = "simple"
      /\ stack' = <<emit>> \o <<moved>> \o Below \/ stack' = <<>> \o <<moved>> \o Below
  BY DEF CallSimple, In, Running, Top, setting, data, entries
<1>2. /\ n \in Sources /\ Top.i \in Nat /\ Top.i + 1 \in DOMAIN collection /\ NextOf(Top) = collection[Top.i + 1]
      /\ Top.set \in Lists /\ TypeOK /\ Frames /\ Turned(stack) /\ source[n] \in Observer
      /\ 1 \in DOMAIN stack /\ stack[1] = Top /\ Alike(collection)
      /\ collection \in Seq(Sources \X {"columns", "simple"})
  <2>1. TypeOK /\ Frames /\ Turned(stack) /\ stack \in Seq(Frame) /\ Alike(collection)
        /\ collection \in Seq(Sources \X {"columns", "simple"})
    BY DEF IInv, IEmissions, TypeOK, Arrays
  <2>2. 1 \in DOMAIN stack /\ stack[1] = Top
    BY <1>1, <2>1 DEF Top
  <2> QED  BY <1>1, <2>1, <2>2, CollectionItem, TopFrame
<1>3. collection[Top.i + 1] = <<n, "simple">> /\ \A p \in DOMAIN collection : p \in Nat
  <2>1. collection[Top.i + 1] \in Sources \X {"columns", "simple"}
    BY <1>2
  <2>2. \A p \in DOMAIN collection : p \in Nat
    BY <1>2
  <2> QED  BY <1>1, <1>2, <2>1, <2>2
<1>4. simple /\ list \in Lists
  <2>1. simple /\ source[n].list \in Lists
    BY <1>1, <1>2 DEF IInv, Arrays
  <2> QED  BY <1>2, <2>1 DEF Processed, Matching, Lists
<1>5. Unvisited /\ FirstAnswer
  BY <1>4 DEF IEmissions, Simples
<1>6. source[n].news
  <2>1. collection[Top.i + 1][2] = "simple" /\ collection[Top.i + 1][1] = n
    BY <1>1, <1>2
  <2>2. \A p \in DOMAIN collection : p > Top.i /\ collection[p][2] = "simple" => source[collection[p][1]].news
    BY <1>1, <1>2, <1>5 DEF Unvisited
  <2>3. Top.i + 1 > Top.i
    BY <1>2
  <2> HIDE DEF n
  <2> QED  BY <1>2, <2>1, <2>2, <2>3
<1>7. /\ moved \in Frame /\ moved.at = "collection" /\ moved.i = Top.i + 1
      /\ Calm(rest) /\ Silent(rest) /\ rest \in Seq(Frame) /\ Below \in Seq(Frame)
  <2>1. moved \in Frame /\ moved.at = "collection" /\ moved.i = Top.i + 1
    BY <1>1, <1>2, LoopFrames, Fits
  <2>2. Calm(rest) /\ Silent(rest) /\ Calm(Below)
    BY <1>1, <1>2, CalmMoved, CalmBelow
  <2> QED  BY <2>1, <2>2 DEF Calm
<1>8. emit \in Frame /\ emit.at = "emit" /\ emit.n = n
  <2>1. emit \in Frame
    <3> HIDE DEF list, n
    <3> QED  BY <1>2, <1>4, NewFrames, Fits, TopFrame
  <2> QED  BY <2>1 DEF OfSource, NoFrame
<1>9. t.live = source[n].live /\ t.news = source[n].news
  <2> HIDE DEF list, n
  <2> QED  BY <1>2 DEF Observer
<1> HIDE DEF t, emit, moved, n
<1>10. Sources' = Sources /\ \A m \in Sources : source'[m] = IF m = n THEN t ELSE source[m]
  <2>1. source \in Seq(Observer) /\ source' = [source EXCEPT ![n] = t] /\ n \in 1 .. Len(source)
    BY <1>1, <1>2, TopFrame
  <2> QED  BY <2>1 DEF Sources
<1>11. \A m \in Sources : source'[m].news = source[m].news /\ source'[m].live = source[m].live
  BY <1>9, <1>10
<1>12. ASSUME stack' = <<>> \o <<moved>> \o Below
       PROVE  IEmissions' /\ Silent(stack')
  <2>1. stack' = rest
    BY <1>7, <1>12
  <2>2. \A m \in Sources' : Follows(m)
    BY <1>4, <1>10, <1>11 DEF Follows
  <2>3. Undisturbed
    BY <1>1, <1>3, <1>4, <2>2 DEF Undisturbed, Running, Top
  <2> QED  BY <1>7, <2>1, <2>3, UndisturbedKept
<1>13. ASSUME stack' = <<emit>> \o <<moved>> \o Below
       PROVE  IEmissions' /\ Silent(stack')
  <2>1. stack' = <<emit>> \o rest
    BY <1>7, <1>8, <1>13
  <2>2. Turned(rest) /\ rest # <<>> /\ Head(rest) = moved
    BY <1>7, Pushed DEF Calm
  <2>3. Turned(stack')
    BY <1>7, <1>8, <2>1, <2>2, TurnedPushed
  <2>4. /\ Len(rest) = Len(Below) + 1 /\ rest[1] = moved
        /\ \A k \in 1 .. Len(Below) : rest[k + 1] = Below[k]
    BY <1>7, Places
  <2> HIDE DEF rest
  <2>5. /\ stack' # <<>> /\ Head(stack') = emit /\ stack'[1] = emit /\ DOMAIN stack' = 1 .. Len(rest) + 1
        /\ \A k \in 1 .. Len(rest) : stack'[k + 1] = rest[k]
        /\ Len(rest) \in Nat /\ DOMAIN rest = 1 .. Len(rest) /\ Len(Below) \in Nat
    BY <1>7, <1>8, <2>1, Pushed, Places
  <2>6. Silent(stack') /\ Top' = emit /\ ~Running("answer")'
    BY <1>8, <2>5 DEF Silent, Top, Running
  <2>7. ASSUME NEW k \in DOMAIN stack', stack'[k].at = "collection"
        PROVE  k = 2 /\ stack'[k] = moved
    <3>1. k # 1
      BY <1>8, <2>5, <2>7
    <3>2. k - 1 \in DOMAIN rest /\ stack'[k] = rest[k - 1]
      BY <2>5, <3>1
    <3>3. CASE k - 1 = 1
      BY <2>4, <3>2, <3>3
    <3>4. CASE k - 1 > 1
      <4>1. 1 \in DOMAIN rest /\ rest[1].at = "collection"
        BY <1>7, <2>4, <2>5
      <4>2. rest[k - 1].at = "notify"
        BY <2>2, <3>2, <3>4, <4>1 DEF Turned
      <4> QED  BY <2>7, <3>2, <4>2
    <3> QED  BY <2>5, <3>1, <3>2, <3>3, <3>4
  <2>8. Unvisited'
    <3>1. ASSUME NEW p \in DOMAIN collection, p > moved.i, collection[p][2] = "simple"
          PROVE  source'[collection[p][1]].news
      <4>1. collection[p] \in Sources \X {"columns", "simple"} /\ p \in Nat
        BY <1>2, <1>3
      <4>2. source[collection[p][1]].news
        BY <1>1, <1>2, <1>5, <1>7, <3>1, <4>1 DEF Unvisited
      <4> QED  BY <1>11, <4>1, <4>2
    <3> QED  BY <1>1, <2>7, <3>1 DEF Unvisited
  <2>9. FirstAnswer'
    BY <1>1, <1>2, <1>5, <1>11, <2>6 DEF FirstAnswer, Frames
  <2>10. \A i \in DOMAIN calls : calls[i].type = "fetch" => calls[i].n # n
    BY <1>2, <1>3, <1>4 DEF IInv, OneAnswer
  <2>11. \A p \in DOMAIN collection : p > moved.i => collection[p] # <<n, "simple">>
    <3>1. ASSUME NEW p \in DOMAIN collection, p > moved.i, collection[p] = collection[Top.i + 1]
          PROVE  FALSE
      <4>1. p = Top.i + 1
        BY <1>2, <3>1 DEF Alike
      <4> QED  BY <1>2, <1>3, <1>7, <3>1, <4>1
    <3> QED  BY <1>3, <3>1
  <2>12. source'[n].news
    BY <1>2, <1>6, <1>11
  <2>13. Emitting'
    BY <1>1, <1>8, <2>6, <2>7, <2>10, <2>11, <2>12 DEF Emitting
  <2>14. simple' = simple
    BY <1>1
  <2> QED  BY <1>4, <2>3, <2>6, <2>8, <2>9, <2>13, <2>14 DEF IEmissions, Simples, Reloads
<1>14. IEmissions' /\ Silent(stack')
  BY <1>1, <1>12, <1>13
<1> QED  BY <1>2, <1>14, NobodyEmits

(* The database's loop: each observer that it has come to is fetching.     *)
LEMMA ReloadingCalled ==
  ASSUME IInv, IEmissions, ~synchronous, CallReloading
  PROVE  IEmissions' /\ \A m \in Sources : ~Emits(m)
<1> DEFINE n == NextOf(Top)
           t == [source[n] EXCEPT !.fetching = TRUE]
           moved == Moved(Top)
<1>1. /\ source' = [source EXCEPT ![n] = t]
      /\ UNCHANGED <<simple, synchronous, rows, database, collection>>
      /\ stack # <<>> /\ Top.at = "database" /\ In("database") /\ Running("database") /\ HasNext(Top)
      /\ stack' = <<>> \o <<moved>> \o Below
  BY DEF CallReloading, FetchFrames, In, Running, Top, setting, data, entries
<1>2. /\ n \in Sources /\ Top.i \in Nat /\ Top.i + 1 \in DOMAIN database /\ n = database[Top.i + 1]
      /\ TypeOK /\ Frames /\ Turned(stack) /\ source[n] \in Observer /\ stack \in Seq(Frame)
  BY <1>1, DatabaseItem, TopFrame DEF IInv, IEmissions, TypeOK
<1>3. ~simple
  <2>1. database \in Seq(Sources)
    BY <1>2 DEF TypeOK
  <2> QED  BY <1>2, <2>1 DEF IInv, Arrays
<1>4. Reloading /\ (\A m \in Sources : Told(source[m])) /\ AllFetching /\ DatabaseLoop
  BY <1>3 DEF IEmissions, Reloads
<1>5. moved \in Frame /\ moved.at = "database" /\ moved.i = Top.i + 1 /\ moved.len = Len(database)
  <2>1. moved \in Frame /\ moved.at = "database" /\ moved.i = Top.i + 1
    BY <1>1, <1>2, LoopFrames, Fits
  <2>2. Length(Top) = Len(database)
    BY <1>1, <1>4 DEF Length, Items, DatabaseLoop
  <2>3. moved.len = Length(Top)
    <3>1. Top \in Frame
      BY <1>1, <1>2, TopFrame
    <3> HIDE DEF Length
    <3> QED  BY <3>1 DEF Moved, Frame
  <2> QED  BY <2>1, <2>2, <2>3
<1>6. Calm(Below) /\ Silent(Below)
  BY <1>1, <1>2, CalmBelow
<1>7. /\ Below \in Seq(Frame) /\ Turned(Below)
      /\ Below # <<>> => Head(Below).at # "database" /\ (Head(Below).at = "shared" => Head(Below).i > 0)
  BY <1>6 DEF Calm, Silent
<1>8. /\ t.owner = source[n].owner /\ t.live = source[n].live /\ t.list = source[n].list
      /\ t.news = source[n].news /\ t.pending = source[n].pending /\ t.first = source[n].first
      /\ t.observed = source[n].observed /\ t.fetching
  <2> HIDE DEF n
  <2> QED  BY <1>2 DEF Observer
<1> HIDE DEF moved, t, n
<1>9. stack' = <<moved>> \o Below
  BY <1>1, <1>5, <1>7
<1>10. Turned(stack')
  BY <1>5, <1>7, <1>9, TurnedPushed
<1>11. /\ stack' # <<>> /\ Top' = moved /\ stack'[1] = moved /\ DOMAIN stack' = 1 .. Len(Below) + 1
       /\ \A k \in 1 .. Len(Below) : stack'[k + 1] = Below[k]
       /\ Len(Below) \in Nat /\ DOMAIN Below = 1 .. Len(Below)
  BY <1>5, <1>7, <1>9, Pushed, Places DEF Top
<1>12. Silent(stack') /\ Running("database")' /\ ~Running("emit")'
  BY <1>5, <1>11 DEF Silent, Running, Top
<1>13. Sources' = Sources /\ \A m \in Sources : source'[m] = IF m = n THEN t ELSE source[m]
  <2>1. source \in Seq(Observer) /\ source' = [source EXCEPT ![n] = t] /\ n \in 1 .. Len(source)
    BY <1>1, <1>2, TopFrame
  <2> QED  BY <2>1 DEF Sources
<1>14. \A m \in Sources : /\ source'[m].news = source[m].news /\ source'[m].live = source[m].live
                          /\ source[m].fetching => source'[m].fetching
  BY <1>8, <1>13
<1>15. Reloading'
  BY <1>1, <1>4, <1>13, <1>14 DEF Reloading
<1>16. ASSUME NEW m \in Sources'
       PROVE  Told(source[m])'
  <2>1. Told(source[m])
    BY <1>4, <1>13
  <2> QED  BY <1>1, <1>8, <1>13, <2>1 DEF Told, Matching
<1>17. DatabaseLoop' /\ Reloaded'
  BY <1>1, <1>5, <1>11, <1>12 DEF DatabaseLoop, Reloaded
<1>18. LoopRuns(stack') => LoopRuns(stack)
  <2>1. ASSUME NEW k \in DOMAIN stack', stack'[k].at = "collection"
        PROVE  \E j \in DOMAIN stack : stack[j].at = "collection"
    <3>1. k # 1
      BY <1>5, <1>11, <2>1
    <3>2. k - 1 \in DOMAIN Below /\ stack'[k] = Below[k - 1]
      BY <1>11, <3>1
    <3> QED  BY <1>6, <2>1, <3>2 DEF Calm
  <2> QED  BY <2>1 DEF LoopRuns
<1>19. AllFetching'
  <2>1. ASSUME LoopRuns(stack'), NEW m \in Sources
        PROVE  /\ source'[m].news
               /\ source'[m].live => source'[m].fetching \/ \E p \in DOMAIN database : p > moved.i /\ database[p] = m
    <3>1. /\ source[m].news
          /\ source[m].live => source[m].fetching \/ \E p \in DOMAIN database : p > Top.i /\ database[p] = m
      BY <1>4, <1>18, <2>1 DEF AllFetching
    <3>2. ASSUME NEW p \in DOMAIN database, p > Top.i, database[p] = m
          PROVE  source'[m].fetching \/ p > moved.i
      <4>1. p \in Nat
        <5>1. database \in Seq(Sources)
          BY <1>2 DEF TypeOK
        <5> QED  BY <5>1
      <4>2. p = Top.i + 1 \/ p > Top.i + 1
        BY <1>2, <3>2, <4>1
      <4>3. CASE p = Top.i + 1
        BY <1>2, <1>8, <1>13, <3>2, <4>3
      <4> QED  BY <1>5, <4>2, <4>3
    <3> QED  BY <1>14, <3>1, <3>2
  <2> QED  BY <1>1, <1>11, <1>12, <1>13, <2>1 DEF AllFetching
<1>20. simple' = simple /\ \A m \in Sources' : Told(source[m])'
  BY <1>1, <1>16
<1>21. IEmissions'
  BY <1>3, <1>10, <1>15, <1>17, <1>19, <1>20 DEF IEmissions, Simples, Reloads
<1> QED  BY <1>2, <1>12, <1>21, NobodyEmits

LEMMA AnswerComes ==
  ASSUME IInv, IEmissions, ~synchronous, FetchIsAnswered
  PROVE  IEmissions' /\ \A m \in Sources : ~Emits(m)
<1> PICK n : n = Head(calls).n
  OBVIOUS
<1> DEFINE f == OfSource("answer", n, {})
           Call == [type : {"fetch", "batch"}, n : Nat, rows : Rows, set : Lists]
<1>1. /\ stack = <<>> /\ calls # <<>> /\ Head(calls).type = "fetch" /\ calls' = Tail(calls) /\ stack' = <<f>>
      /\ UNCHANGED <<simple, synchronous, rows, source, database, collection>>
  BY DEF FetchIsAnswered, setting, data, entries, observers
<1>2. TypeOK /\ Frames /\ calls \in Seq(Call)
  BY DEF IInv, TypeOK
<1>3. /\ 1 \in DOMAIN calls /\ calls[1].type = "fetch" /\ calls[1].n = n
      /\ \A i \in DOMAIN calls' : i + 1 \in DOMAIN calls /\ calls'[i] = calls[i + 1]
  BY <1>1, <1>2
<1>4. n \in Sources /\ Sources' = Sources
  BY <1>1, <1>2, <1>3 DEF Frames, Sources
<1>5. f \in Frame /\ f.at = "answer" /\ f.n = n
  <2>1. {} \in Lists /\ n \in 1 .. Len(source) /\ Len(source) \in Nat
    BY <1>2, <1>4, TopFrame DEF Lists
  <2>2. f \in Frame
    BY <2>1, NewFrames, Fits
  <2> QED  BY <2>2 DEF OfSource, NoFrame
<1> HIDE DEF f
<1>6. stack' \in Seq(Frame) /\ stack' # <<>> /\ Top' = f /\ \A k \in DOMAIN stack' : k = 1 /\ k = Len(stack') /\ stack'[k] = f
  BY <1>1, <1>5 DEF Top
<1>7. Turned(stack') /\ Silent(stack') /\ ~LoopRuns(stack') /\ \A k \in DOMAIN stack' : stack'[k].at # "collection"
  BY <1>5, <1>6 DEF Turned, Silent, LoopRuns, Top
<1>8. ~Running("emit")' /\ ~Running("database")'
  BY <1>5, <1>6 DEF Running, Top
<1>9. Simples'
  <2>1. CASE simple
    <3>1. FirstAnswer
      BY <2>1 DEF IEmissions, Simples
    <3>2. FirstAnswer'
      BY <1>1, <1>3, <1>5, <1>6, <3>1 DEF FirstAnswer
    <3> QED  BY <1>7, <1>8, <3>2 DEF Simples, Unvisited, Emitting
  <2>2. CASE ~simple
    BY <1>1, <2>2 DEF Simples
  <2> QED  BY <2>1, <2>2
<1>10. Reloads'
  <2>1. CASE ~simple
    <3>1. Reloading /\ \A m \in Sources : Told(source[m])
      BY <2>1 DEF IEmissions, Reloads
    <3>2. Reloading' /\ \A m \in Sources' : Told(source[m])'
      BY <1>1, <1>4, <3>1 DEF Reloading, Told, Matching
    <3> QED  BY <1>7, <1>8, <3>2 DEF Reloads, Reloaded, AllFetching, DatabaseLoop
  <2>2. CASE simple
    BY <1>1, <2>2 DEF Reloads
  <2> QED  BY <2>1, <2>2
<1> QED  BY <1>2, <1>7, <1>9, <1>10, NobodyEmits DEF IEmissions

LEMMA Notified ==
  ASSUME IInv, IEmissions, ~synchronous, NotifySubscribers
  PROVE  IEmissions' /\ \A m \in Sources : ~Emits(m)
<1> DEFINE f == OfSource("database", 0, Top.set)
           g == OfSource("collection", 0, Top.set)
           rest == <<g>> \o Below
<1>1. /\ stack # <<>> /\ Top.at = "notify" /\ stack' = <<f, g>> \o Below /\ source' = News
      /\ UNCHANGED <<simple, synchronous, rows, calls, database, collection>>
  BY DEF NotifySubscribers, Running, Top, setting, data, entries
<1>2. /\ TypeOK /\ Frames /\ Turned(stack) /\ stack \in Seq(Frame)
      /\ Calm(Below) /\ Silent(Below) /\ Below \in Seq(Frame) /\ Turned(Below)
      /\ \A l \in DOMAIN Below : Below[l].at = "notify"
  <2>1. TypeOK /\ Frames /\ Turned(stack) /\ stack \in Seq(Frame)
    BY DEF IInv, IEmissions, TypeOK
  <2>2. Calm(Below) /\ Silent(Below)
    BY <1>1, <2>1, CalmBelow
  <2>3. \A l \in DOMAIN Below : Below[l].at = "notify"
    BY <1>1, <2>1, TurnedBelow DEF Top, Below
  <2> QED  BY <2>1, <2>2, <2>3 DEF Calm
<1>3. f \in Frame /\ g \in Frame /\ f.at = "database" /\ f.i = 0 /\ g.at = "collection"
  <2>1. Top.set \in Lists /\ Len(source) \in Nat
    BY <1>1, <1>2, TopFrame DEF Frame
  <2>2. f \in Frame /\ g \in Frame
    BY <2>1, NewFrames, Fits
  <2> QED  BY <2>2 DEF OfSource, NoFrame
<1> HIDE DEF f, g
<1>4. Turned(rest) /\ rest \in Seq(Frame) /\ rest # <<>> /\ Head(rest) = g
  <2>1. Below # <<>> => Head(Below).at # "database" /\ (Head(Below).at = "shared" => Head(Below).i > 0)
    BY <1>2 DEF Calm, Silent
  <2> QED  BY <1>2, <1>3, <2>1, TurnedPushed, Pushed
<1>5. stack' = <<f>> \o rest
  BY <1>1, <1>2, <1>3, OneByOne
<1> HIDE DEF rest
<1>6. Turned(stack')
  BY <1>3, <1>4, <1>5, TurnedPushed
<1>7. stack' # <<>> /\ Top' = f
  BY <1>3, <1>4, <1>5, Pushed DEF Top
<1>8. Silent(stack') /\ ~Running("emit")' /\ ~Running("answer")'
  BY <1>3, <1>7 DEF Silent, Running, Top
<1>9. Sources' = Sources /\ \A m \in Sources : source'[m] = [source[m] EXCEPT !.news = TRUE]
  BY <1>1, <1>2, NewsTyped DEF News, Sources
<1>10. \A m \in Sources : source'[m].news /\ source'[m].live = source[m].live
  <2>1. \A m \in Sources : source[m] \in Observer
    BY <1>2, TopFrame
  <2> QED  BY <1>9, <2>1 DEF Observer
<1>11. Simples'
  <2>1. \A p \in DOMAIN collection : collection[p][1] \in Sources
    <3>1. collection \in Seq(Sources \X {"columns", "simple"})
      BY <1>2 DEF TypeOK
    <3>2. \A p \in DOMAIN collection : collection[p] \in Sources \X {"columns", "simple"}
      BY <3>1
    <3> QED  BY <3>2
  <2>2. Unvisited'
    BY <1>1, <1>10, <2>1 DEF Unvisited
  <2>3. FirstAnswer'
    BY <1>1, <1>2, <1>8, <1>10 DEF FirstAnswer, Frames
  <2> QED  BY <1>8, <2>2, <2>3 DEF Simples, Emitting
<1>12. Reloads'
  <2>1. CASE ~simple
    <3>1. Reloading
      BY <2>1 DEF IEmissions, Reloads
    <3>2. Reloading' /\ \A m \in Sources' : Told(source[m])'
      BY <1>1, <1>9, <1>10, <3>1 DEF Reloading, Told
    <3>3. Running("database")' /\ Top'.i = 0
      BY <1>3, <1>7 DEF Running, Top
    <3>4. DatabaseLoop' /\ Reloaded'
      BY <1>8, <3>3 DEF DatabaseLoop, Reloaded
    <3>5. \A p \in DOMAIN database : p > 0
      <4>1. database \in Seq(Sources)
        BY <1>2 DEF TypeOK
      <4> QED  BY <4>1
    <3>6. AllFetching'
      BY <1>1, <1>9, <1>10, <3>1, <3>3, <3>5 DEF AllFetching, Reloading
    <3> QED  BY <3>2, <3>4, <3>6 DEF Reloads
  <2>2. CASE simple
    BY <1>1, <2>2 DEF Reloads
  <2> QED  BY <2>1, <2>2
<1> QED  BY <1>2, <1>6, <1>8, <1>11, <1>12, NobodyEmits DEF IEmissions

LEMMA EmissionsStep ==
  ASSUME IInv, IEmissions, ~synchronous, Next
  PROVE  IEmissions' /\ \A n \in Sources : Emits(n) => source[n].news
<1>0. TypeOK /\ Frames /\ Turned(stack) /\ TypeOK' /\ Frames'
  BY IInvKept DEF IInv, IEmissions
<1>1. CASE Quietly
  <2>1. Calm(stack') /\ Silent(stack') /\ Undisturbed
    BY <1>0, <1>1, QuietSteps, QuietUndisturbed
  <2> QED  BY <1>0, <2>1, UndisturbedKept, NobodyEmits
<1>2. CASE CallColumns
  BY <1>0, <1>2, ColumnsCalled, UndisturbedKept, NobodyEmits
<1>3. CASE EmitWithColumns
  BY <1>3, EmittedWithColumns
<1>4. CASE EmitShared
  BY <1>4, EmittedShared
<1>5. CASE Answer
  BY <1>5, AnswerEmits
<1>6. CASE CallSimple
  BY <1>0, <1>6, SimpleCalled
<1>7. CASE CallReloading
  BY <1>7, ReloadingCalled
<1>8. CASE FetchIsAnswered
  BY <1>8, AnswerComes
<1>9. CASE NotifySubscribers
  BY <1>9, Notified
<1> QED  BY <1>1, <1>2, <1>3, <1>4, <1>5, <1>6, <1>7, <1>8, <1>9 DEF Next, Quietly

LEMMA EmissionsInit == Init => IEmissions
<1> SUFFICES ASSUME Init
             PROVE  Turned(stack) /\ Simples /\ Reloads
  BY DEF IEmissions
<1>1. stack = <<>> /\ calls = <<>> /\ source = <<>>
  BY DEF Init
<1>2. Sources = {} /\ DOMAIN stack = {} /\ DOMAIN calls = {}
  BY <1>1 DEF Sources
<1>3. Turned(stack) /\ Unvisited /\ FirstAnswer /\ Emitting
  BY <1>1, <1>2 DEF Turned, Unvisited, FirstAnswer, Emitting, Running
<1>4. Reloading /\ (\A n \in Sources : Told(source[n])) /\ Reloaded /\ AllFetching /\ DatabaseLoop
  BY <1>1, <1>2 DEF Reloading, Reloaded, AllFetching, DatabaseLoop, Running
<1> QED  BY <1>3, <1>4 DEF Simples, Reloads

LEMMA EmissionsKept == IInv /\ IEmissions /\ [Next]_vars => IEmissions'
<1> SUFFICES ASSUME IInv, IEmissions, [Next]_vars
             PROVE  IEmissions'
  OBVIOUS
<1>1. CASE UNCHANGED vars
  BY <1>1 DEF vars, setting, data, notices, entries, observers, people, IEmissions, Turned, Simples,
              Reloads, Unvisited, FirstAnswer, Emitting, Reloading, Told, Reloaded, LoopRuns,
              AllFetching, DatabaseLoop, Running, Top, Below, Sources, Matching
<1>2. CASE Next /\ synchronous
  <2>1. synchronous' = synchronous
    <3>1. CASE Ordinary
      BY <3>1, OrdinarySteps
    <3>2. CASE ~Ordinary
      BY <1>2, <3>2, LeavingSteps, SourceMadeForAll, SourceMadeForOne
         DEF Next, Ordinary, Subscribed, Subscribe, setting
    <3> QED  BY <3>1, <3>2
  <2> QED  BY <1>2, <2>1 DEF IEmissions
<1>3. CASE Next /\ ~synchronous
  BY <1>3, EmissionsStep
<1> QED  BY <1>1, <1>2, <1>3

(* With an adapter that answers later, an observer emits at most once for  *)
(* a change that is committed or notified of: a simple observer, when the  *)
(* collection's loop comes to it; a reloading one, with the answer; one    *)
(* with columns leaves a changed column to the fetch that is under way.    *)
THEOREM EmitsOncePerChange == Spec => OneEmissionPerChange
<1>1. IInv /\ IEmissions /\ [Next]_vars
        => [~synchronous => \A n \in Sources : Emits(n) => source[n].news]_vars
  BY EmissionsStep
<1>2. Spec => []IEmissions
  BY IInvariant, EmissionsInit, EmissionsKept, PTL DEF Spec
<1> QED  BY <1>1, <1>2, IInvariant, PTL DEF Spec, OneEmissionPerChange
=============================================================================
