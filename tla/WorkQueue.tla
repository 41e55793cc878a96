------------------------------ MODULE WorkQueue ------------------------------
(***************************************************************************)
(* The queue of reader and writer blocks behind database.read() and        *)
(* database.write(): src/src/Database/WorkQueue.js.                        *)
(*                                                                         *)
(* JavaScript runs one piece of code at a time and gives up control only   *)
(* where it awaits or returns, so a step is a piece of code without an     *)
(* await. The one place where the order inside such a piece matters is     *)
(* subAction(): it raises a flag, calls back into the application, and     *)
(* looks at the flag again. The calls of subAction() that are on the       *)
(* stack are therefore a variable, and while there are any only the code   *)
(* of the innermost callback runs.                                         *)
(*                                                                         *)
(* What the application does with the queue is free, except for the ways   *)
(* of using it that the documentation rules out or leaves open: each of    *)
(* them is a member of Habits that a model may include or leave out.       *)
(*                                                                         *)
(* A definition named Fault... is a wrong version of the one that follows  *)
(* it, for checking that the properties would notice.                      *)
(***************************************************************************)
EXTENDS Naturals, Sequences, FiniteSets

CONSTANTS
  Writers,    \* blocks passed to database.write()
  Readers,    \* blocks passed to database.read()
  App,        \* code that runs outside of every block
  NoItem,     \* "this block has not been started"
  Habits,     \* what the application allows itself, see HabitKinds
  MaxDepth    \* bound on nested calls of subAction()

Work == Writers \union Readers

HabitKinds ==
  { "awaitDirect",    \* a block awaits another it enqueued without callWriter
    "detachedSub",    \* a block does not await the sub-action it called
    "leakedCall",     \* an interface is used after its block's promise settled
    "strayCall" }     \* Model.callWriter(), or a reset, from outside of blocks

ASSUME WorkAssumption ==
  /\ Writers \cap Readers = {}
  /\ App \notin Work
  /\ NoItem \notin Work \union {App}

ASSUME BoundAssumption == MaxDepth \in Nat \ {0} /\ Habits \subseteq HabitKinds

VARIABLES
  queue,              \* _queue
  subActionIncoming,  \* _subActionIncoming
  stack,              \* callers of the subAction() calls on the stack
  timers,             \* pending setTimeout(() => this._executeNext(), 0)
  phase,              \* how far each block has come
  item,               \* the work item whose interface a block was given
  awaits              \* the blocks whose promises each block awaits

vars == <<queue, subActionIncoming, stack, timers, phase, item, awaits>>

Started == {"running", "settled"}
Over    == {"done", "aborted", "refused"}
Phase   == {"idle", "queued"} \union Started \union Over

TypeOK ==
  /\ queue \in Seq(Work)
  /\ subActionIncoming \in BOOLEAN
  /\ stack \in Seq(Work \union {App})
  /\ timers \in Nat
  /\ phase \in [Work -> Phase]
  /\ item \in [Work -> Work \union {NoItem}]
  /\ awaits \in [Work -> SUBSET Work]

Init ==
  /\ queue = <<>>
  /\ subActionIncoming = FALSE
  /\ stack = <<>>
  /\ timers = 0
  /\ phase = [w \in Work |-> "idle"]
  /\ item = [w \in Work |-> NoItem]
  /\ awaits = [w \in Work |-> {}]

-----------------------------------------------------------------------------
IsWriter(w) == w \in Writers

\* get isWriterRunning(): the kind of the first item, started or not.
isWriterRunning == queue # <<>> /\ IsWriter(Head(queue))

\* A block that runs as a work item of its own, not inside another.
IsItem(w) == item[w] = w

\* The code of c can run now: it is the innermost callback if there is one.
HasControl(c) ==
  /\ stack # <<>> => c = stack[Len(stack)]
  /\ c \in Work => \/ phase[c] = "running"
                   \/ phase[c] \in {"settled", "done"} /\ "leakedCall" \in Habits

\* Caller c decides whether to await w.
Await(c, w, awaited) ==
  awaits' = IF awaited /\ c \in Work
            THEN [awaits EXCEPT ![c] = @ \union {w}]
            ELSE awaits

-----------------------------------------------------------------------------
\* A new block goes to the end of the queue (l.154).
FaultWithNext(w) == IF queue = <<>> THEN <<w>> ELSE <<Head(queue), w>> \o Tail(queue)
QueueWith(w) == Append(queue, w)

\* It starts within enqueue() if it is the only one (l.156).
FaultReaderStartsAtOnce(w) == queue = <<>> \/ ~IsWriter(w)
StartsAtOnce(w) == queue = <<>>

(* enqueue() with the flag down: the block joins the queue, and starts at  *)
(* once if the queue was empty.                                            *)
Enqueue(c, w, awaited) ==
  /\ HasControl(c)
  /\ ~subActionIncoming
  /\ phase[w] = "idle"
  /\ awaited => c = App \/ "awaitDirect" \in Habits
  /\ queue' = QueueWith(w)
  /\ IF StartsAtOnce(w)
     THEN /\ phase' = [phase EXCEPT ![w] = "running"]
          /\ item' = [item EXCEPT ![w] = w]
     ELSE /\ phase' = [phase EXCEPT ![w] = "queued"]
          /\ UNCHANGED item
  /\ Await(c, w, awaited)
  /\ UNCHANGED <<subActionIncoming, stack, timers>>

(* subAction(): c passes a callback to callReader() or callWriter(). The   *)
(* interface of a block first checks that its item is at the head          *)
(* (__validateQueue); Model.callReader() and Model.callWriter() do not.    *)
ValidateQueue(c) == c \in Work /\ queue # <<>> /\ Head(queue) = item[c]

SubAction(c) ==
  /\ HasControl(c)
  /\ Len(stack) < MaxDepth
  /\ ValidateQueue(c) \/ "strayCall" \in Habits
  /\ subActionIncoming' = TRUE
  /\ stack' = Append(stack, c)
  /\ UNCHANGED <<queue, timers, phase, item, awaits>>

(* enqueue() with the flag up: the block skips the line and runs on behalf *)
(* of the first item. It throws when there is no first item, and when a    *)
(* writer would run inside a reader.                                       *)
SkipLine(w, awaited) ==
  LET c == stack[Len(stack)] IN
  /\ stack # <<>>
  /\ subActionIncoming
  /\ phase[w] = "idle"
  /\ c \in Work /\ ~awaited => "detachedSub" \in Habits
  /\ subActionIncoming' = FALSE
  /\ IF queue # <<>> /\ (IsWriter(w) => isWriterRunning)
     THEN /\ phase' = [phase EXCEPT ![w] = "running"]
          /\ item' = [item EXCEPT ![w] = Head(queue)]
     ELSE /\ phase' = [phase EXCEPT ![w] = "refused"]
          /\ UNCHANGED item
  /\ Await(c, w, awaited)
  /\ UNCHANGED <<queue, stack, timers>>

\* The flag after a call of subAction(), which is put down even if nothing
\* took it (l.166, 172).
FaultFlagLeftUp == subActionIncoming
FlagAfterSubAction == FALSE

(* subAction() after its callback returned or threw: if the flag is still  *)
(* up no reader or writer was called synchronously, and the call fails.    *)
SubActionReturns ==
  /\ stack # <<>>
  /\ stack' = SubSeq(stack, 1, Len(stack) - 1)
  /\ subActionIncoming' = FlagAfterSubAction
  /\ UNCHANGED <<queue, timers, phase, item, awaits>>

-----------------------------------------------------------------------------
(* The promise of block w settles, either way: all it awaited is over. For *)
(* a sub-action this is the promise its caller got.                        *)
CanSettle(w) ==
  /\ phase[w] = "running"
  /\ \A v \in awaits[w] : phase[v] \in Over

Settle(w) ==
  /\ stack = <<>>
  /\ CanSettle(w)
  /\ phase' = [phase EXCEPT ![w] = IF IsItem(w) THEN "settled" ELSE "done"]
  /\ UNCHANGED <<queue, subActionIncoming, stack, timers, item, awaits>>

\* A timer is set if an item remains after the shift (l.204-206).
FaultTimerForEmptyQueue == timers + 1
FaultTimerForWritersOnly ==
  IF Len(queue) > 1 /\ IsWriter(queue[2]) THEN timers + 1 ELSE timers
FaultTimerClearedTwice == IF Len(queue) > 1 THEN timers + 1 ELSE timers - 1
TimersAfterShift == IF Len(queue) > 1 THEN timers + 1 ELSE timers

(* The rest of _executeNext(), after await workPromise: the promise given  *)
(* to the application is settled and the first item leaves the queue.      *)
ExecuteNextResumes(w) ==
  /\ stack = <<>>
  /\ IsItem(w) /\ phase[w] = "settled"
  /\ phase' = [phase EXCEPT ![w] = "done"]
  /\ queue' = Tail(queue)
  /\ timers' = TimersAfterShift
  /\ UNCHANGED <<subActionIncoming, stack, item, awaits>>

(* The timer fires: _executeNext() starts the first item.                  *)
ExecuteNext ==
  /\ stack = <<>>
  /\ timers > 0
  /\ timers' = timers - 1
  /\ phase' = [phase EXCEPT ![Head(queue)] = "running"]
  /\ item' = [item EXCEPT ![Head(queue)] = Head(queue)]
  /\ UNCHANGED <<queue, subActionIncoming, stack, awaits>>

\* splice(1) leaves the first item (l.211) and the others are rejected.
FaultNothingIsLeft == <<>>
LeftByAbort == <<Head(queue)>>

FaultPromisesLeftPending == phase
PhaseAfterAbort ==
  [w \in Work |-> IF \E i \in 2 .. Len(queue) : queue[i] = w THEN "aborted" ELSE phase[w]]

(* _abortPendingWork(), called first thing by unsafeResetDatabase() after  *)
(* it made sure of isWriterRunning: all but the first item are rejected.   *)
AbortPendingWork(c) ==
  /\ HasControl(c)
  /\ c = App => "strayCall" \in Habits
  /\ isWriterRunning
  /\ queue' = LeftByAbort
  /\ phase' = PhaseAfterAbort
  /\ UNCHANGED <<subActionIncoming, stack, timers, item, awaits>>

Next ==
  \/ \E c \in Work \union {App}, w \in Work, awaited \in BOOLEAN : Enqueue(c, w, awaited)
  \/ \E c \in Work \union {App} : SubAction(c)
  \/ \E w \in Work, awaited \in BOOLEAN : SkipLine(w, awaited)
  \/ SubActionReturns
  \/ \E w \in Work : Settle(w)
  \/ \E w \in Work : ExecuteNextResumes(w)
  \/ ExecuteNext
  \/ \E c \in Work \union {App} : AbortPendingWork(c)

Spec == Init /\ [][Next]_vars

(* The event loop runs what is ready: callbacks return, promises that can   *)
(* settle do, their reactions run, timers fire. Application code may come  *)
(* in between any number of times, but it always gives control back, hence *)
(* strong fairness. The application owes nothing else.                     *)
Fairness ==
  /\ WF_vars(SubActionReturns)
  /\ SF_vars(ExecuteNext)
  /\ \A w \in Work : SF_vars(Settle(w)) /\ SF_vars(ExecuteNextResumes(w))

FairSpec == Spec /\ Fairness

-----------------------------------------------------------------------------
(* A timer is pending exactly while the first item waits to be started,    *)
(* and never a second one: _executeNext() never finds the queue empty and  *)
(* never starts an item twice, whatever was aborted or enqueued between    *)
(* the shift and the timer (enqueue() l.154-158, _executeNext() l.202-206, *)
(* _abortPendingWork() l.209-215).                                         *)
OneTimerForUnstartedHead ==
  /\ timers > 0 => queue # <<>> /\ phase[Head(queue)] = "queued"
  /\ queue # <<>> /\ phase[Head(queue)] = "queued" => timers = 1

(* At most one work item runs at a time, and it is the first of the queue. *)
(* isWriterRunning, __validateQueue and the item that enqueue() gives to   *)
(* sub-actions all read queue[0] and rely on it.                           *)
OnlyHeadRuns ==
  \A w \in Work : IsItem(w) /\ phase[w] \in Started => queue # <<>> /\ w = Head(queue)

(* The flag is up only while a callback of subAction() is on the stack: no *)
(* unrelated database.write() can take the place of a sub-action and skip  *)
(* the line.                                                               *)
FlagOnlyInsideSubAction == subActionIncoming => stack # <<>>

(* What runs together runs on behalf of one work item: while a writer is   *)
(* active no other reader or writer is, sub-actions of its own excepted    *)
(* (Database.write(): "you're guaranteed that no other Writer is           *)
(* simultaneously executing"; Database.read(): "no Writer is running").    *)
Isolation ==
  \A v, w \in Work : phase[v] = "running" /\ phase[w] = "running" => item[v] = item[w]

(* When nothing can go on although blocks are waiting, the cause is a      *)
(* block of the first item that itself awaits a waiting block: the queue   *)
(* never wedges by its own doing.                                          *)
Stalled ==
  /\ queue # <<>> /\ stack = <<>> /\ timers = 0
  /\ \A w \in Work : ~CanSettle(w) /\ ~(IsItem(w) /\ phase[w] = "settled")

StallIsSelfInflicted ==
  Stalled => \E w, v \in Work : /\ phase[w] = "running" /\ item[w] = Head(queue)
                                /\ v \in awaits[w] /\ phase[v] = "queued"

(* A block that waits in the queue is run to its end or aborted, provided  *)
(* no block awaits one it should have called with callWriter().            *)
EveryBlockEnds == \A w \in Work : phase[w] = "queued" ~> phase[w] \in Over

(* While its code runs, a block is not pushed out: the first item stays    *)
(* first until its promise has settled, even if the queue is aborted.      *)
HeadStaysUntilSettled ==
  [][queue # <<>> /\ (queue' = <<>> \/ Head(queue') # Head(queue))
       => phase[Head(queue)] = "settled" /\ phase'[Head(queue)] = "done"]_vars

-----------------------------------------------------------------------------
(* The queue implements a serial executor: its current piece is the first  *)
(* item once it has been started.                                          *)
HeadStarted == queue # <<>> /\ phase[Head(queue)] \in Started

Serial == INSTANCE SerialExecutor WITH
  Idle    <- NoItem,
  waiting <- IF HeadStarted THEN Tail(queue) ELSE queue,
  current <- IF HeadStarted THEN Head(queue) ELSE NoItem,
  ended   <- {w \in Work : IsItem(w) /\ phase[w] = "done"},
  aborted <- {w \in Work : phase[w] = "aborted"}

SerialSpec == Serial!Spec
=============================================================================
