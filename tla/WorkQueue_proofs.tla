--------------------------- MODULE WorkQueue_proofs ---------------------------
(***************************************************************************)
(* For any number of blocks and any use of the queue: its type invariant,  *)
(* the invariants of timer, head and flag, that it implements              *)
(* SerialExecutor, and what a stall comes from; and that blocks which      *)
(* await their sub-actions are isolated.                                   *)
(***************************************************************************)
EXTENDS WorkQueue, SequenceTheorems, TLAPS

(* What the queue looks like between two steps. Only the first item can    *)
(* have been started; no block is in the queue twice, and a block that is  *)
(* waiting has not been touched. This is what makes the shift remove the   *)
(* item whose work has ended.                                              *)
QueueShape ==
  /\ \A i, j \in 1 .. Len(queue) : queue[i] = queue[j] => i = j
  /\ \A i \in 2 .. Len(queue) : phase[queue[i]] = "queued"
  /\ queue # <<>> => phase[queue[1]] \in {"queued"} \union Started
  /\ queue # <<>> /\ phase[queue[1]] \in Started => IsItem(queue[1])

IdleHasNoItem == \A w \in Work : phase[w] = "idle" => item[w] = NoItem

IInv ==
  /\ TypeOK
  /\ QueueShape
  /\ IdleHasNoItem
  /\ OneTimerForUnstartedHead
  /\ OnlyHeadRuns
  /\ FlagOnlyInsideSubAction

-----------------------------------------------------------------------------
(* The initial states satisfy the invariant.                               *)
LEMMA InitEstablishes == Init => IInv
<1> SUFFICES ASSUME Init PROVE IInv
  OBVIOUS
<1> USE DEF Init
<1>1. subActionIncoming \in BOOLEAN
  OBVIOUS
<1>2. queue \in Seq(Work) /\ stack \in Seq(Work \union {App})
  BY EmptySeq
<1>3. TypeOK
  BY <1>1, <1>2 DEF TypeOK, Phase
<1>4. QueueShape
  BY DEF QueueShape
<1>5. IdleHasNoItem /\ OneTimerForUnstartedHead /\ FlagOnlyInsideSubAction
  BY DEF IdleHasNoItem, OneTimerForUnstartedHead, FlagOnlyInsideSubAction
<1>6. OnlyHeadRuns
  BY DEF OnlyHeadRuns, Started
<1> QED BY <1>3, <1>4, <1>5, <1>6 DEF IInv

(* A step keeps the types. Taking the head of the queue and its tail need  *)
(* the invariant: the queue is not empty when a timer fires or an item     *)
(* ends.                                                                   *)
LEMMA StepKeepsTypes ==
  ASSUME IInv, [Next]_vars
  PROVE  TypeOK'
<1> TypeOK
  BY DEF IInv
<1> USE DEF TypeOK, Phase, Started, Over
<1>1. ASSUME NEW c \in Work \union {App}, NEW w \in Work, NEW awaited \in BOOLEAN,
             Enqueue(c, w, awaited)
      PROVE  TypeOK'
  <2>1. subActionIncoming' \in BOOLEAN /\ stack' \in Seq(Work \union {App}) /\ timers' \in Nat
    BY <1>1 DEF Enqueue, QueueWith, StartsAtOnce
  <2>2. queue' \in Seq(Work)
    BY <1>1, AppendProperties DEF Enqueue, QueueWith, StartsAtOnce
  <2>3. phase' \in [Work -> Phase] /\ item' \in [Work -> Work \union {NoItem}]
    BY <1>1 DEF Enqueue, QueueWith, StartsAtOnce
  <2>4. awaits' \in [Work -> SUBSET Work]
    BY <1>1 DEF Enqueue, QueueWith, StartsAtOnce, Await
  <2> QED BY <2>1, <2>2, <2>3, <2>4
<1>2. ASSUME NEW c \in Work \union {App}, SubAction(c) PROVE TypeOK'
  BY <1>2 DEF SubAction
<1>3. ASSUME NEW w \in Work, NEW awaited \in BOOLEAN, SkipLine(w, awaited) PROVE TypeOK'
  <2>1. queue' \in Seq(Work) /\ stack' \in Seq(Work \union {App}) /\ timers' \in Nat
    BY <1>3 DEF SkipLine
  <2>2. subActionIncoming' \in BOOLEAN
    BY <1>3 DEF SkipLine
  <2>3. phase' \in [Work -> Phase]
    BY <1>3 DEF SkipLine
  <2>4. queue # <<>> => Head(queue) \in Work
    BY HeadTailProperties
  <2>5. item' \in [Work -> Work \union {NoItem}]
    BY <1>3, <2>4 DEF SkipLine
  <2>6. awaits' \in [Work -> SUBSET Work]
    BY <1>3 DEF SkipLine, Await
  <2> QED BY <2>1, <2>2, <2>3, <2>5, <2>6
<1>4. CASE SubActionReturns
  <2>1. subActionIncoming' \in BOOLEAN
    BY <1>4 DEF SubActionReturns, FlagAfterSubAction
  <2>2. stack' \in Seq(Work \union {App})
    BY <1>4 DEF SubActionReturns, FlagAfterSubAction
  <2> QED BY <1>4, <2>1, <2>2 DEF SubActionReturns, FlagAfterSubAction
<1>5. ASSUME NEW w \in Work, Settle(w) PROVE TypeOK'
  BY <1>5 DEF Settle
<1>6. ASSUME NEW w \in Work, ExecuteNextResumes(w) PROVE TypeOK'
  <2>1. subActionIncoming' \in BOOLEAN /\ stack' \in Seq(Work \union {App}) 
        /\ item' \in [Work -> Work \union {NoItem}] /\ awaits' \in [Work -> SUBSET Work]
    BY <1>6 DEF ExecuteNextResumes, TimersAfterShift
  <2>2. queue' \in Seq(Work)
    BY <1>6, HeadTailProperties DEF ExecuteNextResumes, TimersAfterShift, IInv, OnlyHeadRuns
  <2>3. timers' \in Nat /\ phase' \in [Work -> Phase]
    BY <1>6 DEF ExecuteNextResumes, TimersAfterShift
  <2> QED BY <2>1, <2>2, <2>3
<1>7. CASE ExecuteNext
  <2>1. queue # <<>> /\ Head(queue) \in Work
    BY <1>7, HeadTailProperties DEF ExecuteNext, IInv, OneTimerForUnstartedHead
  <2> QED BY <1>7, <2>1 DEF ExecuteNext
<1>8. ASSUME NEW c \in Work \union {App}, AbortPendingWork(c) PROVE TypeOK'
  BY <1>8 DEF AbortPendingWork, LeftByAbort, PhaseAfterAbort, isWriterRunning
<1>9. CASE UNCHANGED vars
  BY <1>9 DEF vars
<1> QED BY <1>1, <1>2, <1>3, <1>4, <1>5, <1>6, <1>7, <1>8, <1>9 DEF Next

(* A step keeps the rest of the invariant.                                 *)
Rest == QueueShape /\ IdleHasNoItem /\ OneTimerForUnstartedHead /\ OnlyHeadRuns

LEMMA StepKeepsFlag ==
  ASSUME IInv, [Next]_vars
  PROVE  FlagOnlyInsideSubAction'
<1> USE DEF IInv, TypeOK, FlagOnlyInsideSubAction
<1>1. ASSUME NEW c \in Work \union {App}, SubAction(c) PROVE stack' # <<>>
  BY <1>1, AppendProperties DEF SubAction
<1>2. CASE SubActionReturns
  BY <1>2 DEF SubActionReturns, FlagAfterSubAction
<1>3. ASSUME NEW w \in Work, NEW awaited \in BOOLEAN, SkipLine(w, awaited)
      PROVE  ~subActionIncoming'
  BY <1>3 DEF SkipLine
<1>4. CASE UNCHANGED <<subActionIncoming, stack>>
  BY <1>4
<1> QED
  BY <1>1, <1>2, <1>3, <1>4
  DEF Next, vars, Enqueue, Settle, ExecuteNextResumes, ExecuteNext, AbortPendingWork

LEMMA StepKeepsRest ==
  ASSUME IInv, [Next]_vars
  PROVE  Rest'
<1>0. [Next]_vars
  OBVIOUS
<1> TypeOK /\ QueueShape /\ IdleHasNoItem /\ OneTimerForUnstartedHead /\ OnlyHeadRuns
  BY DEF IInv
<1> USE DEF TypeOK, QueueShape, IdleHasNoItem, OneTimerForUnstartedHead, OnlyHeadRuns,
            IsItem, Started
<1>a. queue # <<>> => /\ Head(queue) = queue[1] /\ Len(queue) \in Nat \ {0}
                      /\ \A i \in 1 .. Len(queue) : queue[i] \in Work
  BY EmptySeq, ElementOfSeq
<1>b. NoItem \notin Work
  BY WorkAssumption
<1>1. ASSUME NEW c \in Work \union {App}, NEW w \in Work, NEW awaited \in BOOLEAN,
             Enqueue(c, w, awaited)
      PROVE  Rest'
  <2>1. CASE queue = <<>>
    BY <1>1, <1>a, <1>b, <2>1 DEF Enqueue, QueueWith, StartsAtOnce, Rest
  <2>2. CASE queue # <<>>
    BY <1>1, <1>a, <1>b, <2>2 DEF Enqueue, QueueWith, StartsAtOnce, Rest
  <2> QED BY <2>1, <2>2
<1>2. ASSUME NEW c \in Work \union {App}, SubAction(c) PROVE Rest'
  BY <1>2 DEF SubAction, Rest
<1>3. ASSUME NEW w \in Work, NEW awaited \in BOOLEAN, SkipLine(w, awaited) PROVE Rest'
  BY <1>3, <1>a, <1>b DEF SkipLine, Rest
<1>4. CASE SubActionReturns
  BY <1>4 DEF SubActionReturns, FlagAfterSubAction, Rest
<1>5. ASSUME NEW w \in Work, Settle(w) PROVE Rest'
  BY <1>5, <1>a DEF Settle, CanSettle, Rest
<1>6. ASSUME NEW w \in Work, ExecuteNextResumes(w) PROVE Rest'
  <2>1. w = queue[1] /\ queue # <<>> /\ phase' = [phase EXCEPT ![queue[1]] = "done"]
    BY <1>6, <1>a DEF ExecuteNextResumes, TimersAfterShift
  <2>2. /\ queue' \in Seq(Work) /\ Len(queue') = Len(queue) - 1
        /\ \A i \in 1 .. Len(queue') : queue'[i] = queue[i + 1] /\ i + 1 \in 2 .. Len(queue)
    BY <1>6, <1>a, <2>1, HeadTailProperties DEF ExecuteNextResumes, TimersAfterShift
  <2>3. \A i \in 2 .. Len(queue) : queue[i] # queue[1] /\ phase'[queue[i]] = "queued"
    BY <2>1, <1>a
  <2>4. item' = item /\ timers' = IF Len(queue) > 1 THEN timers + 1 ELSE timers
    BY <1>6 DEF ExecuteNextResumes, TimersAfterShift
  <2>5. QueueShape'
    <3>1. \A i, j \in 1 .. Len(queue') : queue'[i] = queue'[j] => i = j
      BY <2>2, <1>a, <2>1
    <3>2. \A i \in 1 .. Len(queue') : phase'[queue'[i]] = "queued"
      BY <2>2, <2>3
    <3>3. queue' # <<>> => Len(queue') \in Nat \ {0}
      BY <2>2, EmptySeq
    <3> QED BY <3>1, <3>2, <3>3
  <2>6. timers = 0
    BY <1>6, <1>a, <2>1 DEF ExecuteNextResumes, TimersAfterShift
  <2>7. OneTimerForUnstartedHead'
    <3>1. CASE Len(queue) > 1
      <4>1. queue' # <<>> /\ Head(queue') = queue[2] /\ timers' = 1
        BY <3>1, <2>2, <2>4, <2>6, <1>a, <2>1
      <4> QED BY <4>1, <2>3, <3>1
    <3>2. CASE ~(Len(queue) > 1)
      BY <3>2, <2>2, <2>4, <2>6, <1>a, <2>1, EmptySeq
    <3> QED BY <3>1, <3>2
  <2>8. OnlyHeadRuns' /\ IdleHasNoItem'
    BY <2>1, <2>4, <1>a
  <2> QED BY <2>5, <2>7, <2>8 DEF Rest
<1>7. CASE ExecuteNext
  BY <1>7, <1>a, <1>b DEF ExecuteNext, Rest
<1>8. ASSUME NEW c \in Work \union {App}, AbortPendingWork(c) PROVE Rest'
  BY <1>8, <1>a DEF AbortPendingWork, LeftByAbort, PhaseAfterAbort, isWriterRunning, Rest
<1>9. CASE UNCHANGED vars
  BY <1>9 DEF vars, Rest
<1> QED BY ONLY <1>0, <1>1, <1>2, <1>3, <1>4, <1>5, <1>6, <1>7, <1>8, <1>9 DEF Next

-----------------------------------------------------------------------------
(* The invariant holds in every reachable state, for any set of blocks and *)
(* any habits of the application.                                          *)
THEOREM Invariance == Spec => []IInv
<1>1. IInv /\ [Next]_vars => IInv'
  BY StepKeepsTypes, StepKeepsFlag, StepKeepsRest DEF IInv, Rest
<1> QED BY InitEstablishes, <1>1, PTL DEF Spec

(* The variables keep their types.                                         *)
THEOREM TypeCorrect == Spec => []TypeOK
<1>1. IInv => TypeOK
  BY DEF IInv
<1> QED BY <1>1, Invariance, PTL

(* At most one work item runs, the one that queue[0] names.                *)
THEOREM HeadOnly == Spec => []OnlyHeadRuns
<1>1. IInv => OnlyHeadRuns
  BY DEF IInv
<1> QED BY <1>1, Invariance, PTL

(* _executeNext() always finds an item that has not been started, and an   *)
(* item that has not been started always has its timer.                    *)
THEOREM TimerDiscipline == Spec => []OneTimerForUnstartedHead
<1>1. IInv => OneTimerForUnstartedHead
  BY DEF IInv
<1> QED BY <1>1, Invariance, PTL

(* The flag of subAction() cannot be taken by code outside its callback.   *)
THEOREM FlagConfined == Spec => []FlagOnlyInsideSubAction
<1>1. IInv => FlagOnlyInsideSubAction
  BY DEF IInv
<1> QED BY <1>1, Invariance, PTL

(* The first item leaves the queue only after its promise has settled.     *)
THEOREM HeadStays == Spec => HeadStaysUntilSettled
<1> DEFINE Stays == queue # <<>> /\ (queue' = <<>> \/ Head(queue') # Head(queue))
                      => phase[Head(queue)] = "settled" /\ phase'[Head(queue)] = "done"
<1>1. ASSUME IInv, [Next]_vars PROVE [Stays]_vars
  <2>0. [Next]_vars
    BY <1>1
  <2> TypeOK /\ OnlyHeadRuns
    BY <1>1 DEF IInv
  <2> USE DEF TypeOK
  <2>1. ASSUME NEW c \in Work \union {App}, NEW w \in Work, NEW awaited \in BOOLEAN,
               Enqueue(c, w, awaited)
        PROVE  Stays
    BY <2>1, HeadTailAppend, AppendProperties DEF Enqueue, QueueWith, StartsAtOnce
  <2>2. ASSUME NEW w \in Work, ExecuteNextResumes(w) PROVE Stays
    BY <2>2 DEF ExecuteNextResumes, TimersAfterShift, OnlyHeadRuns, IsItem, Started
  <2>3. ASSUME NEW c \in Work \union {App}, AbortPendingWork(c) PROVE Stays
    BY <2>3 DEF AbortPendingWork, LeftByAbort, PhaseAfterAbort
  <2>4. CASE UNCHANGED queue
    BY <2>4
  <2> QED
    BY ONLY <2>0, <2>1, <2>2, <2>3, <2>4
    DEF Next, vars, SubAction, SkipLine, SubActionReturns, Settle, ExecuteNext
<1> QED BY <1>1, Invariance, PTL DEF Spec, HeadStaysUntilSettled

-----------------------------------------------------------------------------
(* Every step of the queue is a step of a serial executor or invisible to  *)
(* it: an item that was enqueued is started at most once, alone, in order. *)
THEOREM Refinement == Spec => SerialSpec
<1> USE DEF Serial!vars, HeadStarted, Started
<1>1. Init => Serial!Init
  BY DEF Init, Serial!Init, IsItem
<1>2. ASSUME IInv, IInv', [Next]_vars PROVE [Serial!Next]_(Serial!vars)
  <2>0. [Next]_vars
    BY <1>2
  <2> TypeOK /\ QueueShape /\ IdleHasNoItem /\ OneTimerForUnstartedHead /\ OnlyHeadRuns
    BY <1>2 DEF IInv
  <2> QueueShape'
    BY <1>2 DEF IInv
  <2> USE DEF TypeOK, IsItem
  <2>a. queue # <<>> => /\ Head(queue) = queue[1] /\ Len(queue) \in Nat \ {0}
                        /\ \A i \in 1 .. Len(queue) : queue[i] \in Work
                        /\ Tail(queue) \in Seq(Work) /\ Len(Tail(queue)) = Len(queue) - 1
                        /\ \A i \in 1 .. Len(queue) - 1 : Tail(queue)[i] = queue[i + 1]
    BY EmptySeq, ElementOfSeq, HeadTailProperties
  <2>b. NoItem \notin Work
    BY WorkAssumption
  <2>1. ASSUME NEW c \in Work \union {App}, NEW w \in Work, NEW awaited \in BOOLEAN,
               Enqueue(c, w, awaited)
        PROVE  Serial!Submit(w)
    <3>1. \A i \in 1 .. Len(queue) : queue[i] # w
      BY <2>1, <2>a DEF Enqueue, QueueWith, StartsAtOnce, QueueShape
    <3>2. CASE queue = <<>>
      BY <2>1, <2>a, <2>b, <3>1, <3>2
      DEF Enqueue, QueueWith, StartsAtOnce, IdleHasNoItem, Serial!Submit, Serial!Waiting
    <3>3. CASE queue # <<>>
      BY <2>1, <2>a, <2>b, <3>1, <3>3
      DEF Enqueue, QueueWith, StartsAtOnce, IdleHasNoItem, Serial!Submit, Serial!Waiting
    <3> QED BY <3>2, <3>3
  <2>2. ASSUME NEW c \in Work \union {App}, SubAction(c) PROVE UNCHANGED Serial!vars
    BY <2>2 DEF SubAction
  <2>3. ASSUME NEW w \in Work, NEW awaited \in BOOLEAN, SkipLine(w, awaited)
        PROVE  UNCHANGED Serial!vars
    BY <2>3, <2>a, <2>b DEF SkipLine, QueueShape, IdleHasNoItem
  <2>4. CASE SubActionReturns
    BY <2>4 DEF SubActionReturns, FlagAfterSubAction
  <2>5. ASSUME NEW w \in Work, Settle(w) PROVE UNCHANGED Serial!vars
    BY <2>5, <2>a DEF Settle, CanSettle, OnlyHeadRuns, QueueShape
  <2>6. ASSUME NEW w \in Work, ExecuteNextResumes(w) PROVE Serial!End
    <3>1. w = Head(queue) /\ queue # <<>> /\ HeadStarted
      BY <2>6 DEF ExecuteNextResumes, TimersAfterShift, OnlyHeadRuns
    <3>2. queue' = Tail(queue) /\ phase' = [phase EXCEPT ![w] = "done"] /\ item' = item
      BY <2>6 DEF ExecuteNextResumes, TimersAfterShift
    <3>3. queue' # <<>> => Head(queue') = queue[2] /\ 2 \in 2 .. Len(queue)
      BY <3>1, <3>2, <2>a, EmptySeq
    <3>4. ~HeadStarted'
      BY <3>1, <3>2, <3>3, <2>a DEF QueueShape
    <3>5. {v \in Work : item'[v] = v /\ phase'[v] = "done"}
            = {v \in Work : item[v] = v /\ phase[v] = "done"} \union {w}
      BY <2>6, <3>2 DEF ExecuteNextResumes, TimersAfterShift
    <3>6. {v \in Work : phase'[v] = "aborted"} = {v \in Work : phase[v] = "aborted"}
      BY <2>6, <3>2 DEF ExecuteNextResumes, TimersAfterShift
    <3>7. w # NoItem
      BY <2>b
    <3> QED BY <3>1, <3>2, <3>4, <3>5, <3>6, <3>7 DEF Serial!End
  <2>7. ASSUME ExecuteNext PROVE Serial!Start
    <3>1. queue # <<>> /\ Head(queue) \in Work /\ phase[Head(queue)] = "queued"
      BY <2>7, <2>a DEF ExecuteNext, OneTimerForUnstartedHead
    <3>2. /\ queue' = queue /\ phase' = [phase EXCEPT ![Head(queue)] = "running"]
          /\ item' = [item EXCEPT ![Head(queue)] = Head(queue)]
      BY <2>7 DEF ExecuteNext
    <3>3. ~HeadStarted /\ HeadStarted'
      BY <3>1, <3>2
    <3>4. ASSUME NEW v \in Work
          PROVE  /\ (item'[v] = v /\ phase'[v] = "done") <=> (item[v] = v /\ phase[v] = "done")
                 /\ (phase'[v] = "aborted") <=> (phase[v] = "aborted")
      BY <3>1, <3>2
    <3>5. /\ {v \in Work : item'[v] = v /\ phase'[v] = "done"}
               = {v \in Work : item[v] = v /\ phase[v] = "done"}
          /\ {v \in Work : phase'[v] = "aborted"} = {v \in Work : phase[v] = "aborted"}
      BY <3>4
    <3> QED BY <3>1, <3>2, <3>3, <3>5 DEF Serial!Start
  <2>8. ASSUME NEW c \in Work \union {App}, AbortPendingWork(c) PROVE Serial!Abort
    <3> DEFINE Rejected == {v \in Work : \E i \in 2 .. Len(queue) : queue[i] = v}
    <3>1. queue # <<>> /\ queue' = <<Head(queue)>> /\ item' = item
      BY <2>8 DEF AbortPendingWork, LeftByAbort, PhaseAfterAbort, isWriterRunning
    <3>2. phase' = [v \in Work |-> IF v \in Rejected THEN "aborted" ELSE phase[v]]
      BY <2>8 DEF AbortPendingWork, LeftByAbort, PhaseAfterAbort
    <3>3. \A v \in Rejected : phase[v] = "queued"
      BY DEF QueueShape
    <3>4. queue[1] \notin Rejected /\ queue[1] \in Work
      BY <3>1, <2>a DEF QueueShape
    <3>5. HeadStarted' <=> HeadStarted
      BY <3>1, <3>2, <3>4, <2>a
    <3>6. {v \in Work : item'[v] = v /\ phase'[v] = "done"}
            = {v \in Work : item[v] = v /\ phase[v] = "done"}
      BY <3>1, <3>2, <3>3
    <3>7. {v \in Work : phase'[v] = "aborted"} = {v \in Work : phase[v] = "aborted"} \union Rejected
      BY <3>2, <3>3
    <3>8. CASE HeadStarted
      <4>1. Rejected = {v \in Work : \E i \in DOMAIN Tail(queue) : Tail(queue)[i] = v}
        <5>1. ASSUME NEW i \in 2 .. Len(queue)
              PROVE  \E j \in DOMAIN Tail(queue) : Tail(queue)[j] = queue[i]
          <6>1. i - 1 \in DOMAIN Tail(queue) /\ Tail(queue)[i - 1] = queue[i]
            BY <2>a, <3>1
          <6> QED BY <6>1
        <5>2. ASSUME NEW i \in DOMAIN Tail(queue)
              PROVE  i + 1 \in 2 .. Len(queue) /\ queue[i + 1] = Tail(queue)[i]
          BY <2>a, <3>1
        <5> QED BY <5>1, <5>2
      <4>2. Tail(queue') = <<>> /\ Head(queue') = Head(queue) /\ Head(queue) # NoItem
        BY <3>1, <2>a, <2>b, <3>4
      <4> QED BY <3>1, <3>5, <3>6, <3>7, <3>8, <4>1, <4>2 DEF Serial!Abort, Serial!Waiting
    <3>9. CASE ~HeadStarted
      <4>1. Rejected = {v \in Work : (\E i \in DOMAIN queue : queue[i] = v) /\ v # Head(queue)}
        BY <3>1, <2>a DEF QueueShape
      <4> QED BY <3>1, <3>5, <3>6, <3>7, <3>9, <4>1 DEF Serial!Abort, Serial!Waiting
    <3> QED BY <3>8, <3>9
  <2>9. CASE UNCHANGED vars
    BY <2>9 DEF vars
  <2> QED
    BY ONLY <2>0, <2>1, <2>2, <2>3, <2>4, <2>5, <2>6, <2>7, <2>8, <2>9 DEF Next, Serial!Next
<1> QED BY <1>1, <1>2, Invariance, PTL DEF Spec, SerialSpec, Serial!Spec
-----------------------------------------------------------------------------
(* Who awaits whom. A block awaits nothing before it has started and only  *)
(* blocks that were handed to the queue after it, so no set of blocks      *)
(* await each other in a circle: in every set there is one that awaits     *)
(* nothing of the set, and one that nothing of the set awaits.             *)
NoCircle ==
  \A T \in SUBSET Work : T # {} => \E w \in T : awaits[w] \cap T = {}

NoOuterCircle ==
  \A T \in SUBSET Work : T # {} /\ (\A w \in T : phase[w] # "idle")
                           => \E w \in T : \A v \in T : w \notin awaits[v]

HasStarted(c) == c \in Work => phase[c] \notin {"idle", "queued"}

Awaiting ==
  /\ \A i \in 1 .. Len(stack) : HasStarted(stack[i])
  /\ \A w \in Work : phase[w] \in {"idle", "queued"} => awaits[w] = {}
  /\ \A w \in Work : \A v \in awaits[w] : phase[v] # "idle"
  /\ NoCircle
  /\ NoOuterCircle

(* A step leaves the awaited blocks alone, or a block that has started     *)
(* awaits one that was idle.                                               *)
LEMMA AwaitStep ==
  ASSUME IInv, [Next]_vars, \A i \in 1 .. Len(stack) : HasStarted(stack[i])
  PROVE  /\ \A w \in Work : phase[w] # "idle" => phase'[w] # "idle"
         /\ \A w \in Work : phase'[w] \in {"idle", "queued"} /\ phase[w] # phase'[w] => phase[w] = "idle"
         /\ \/ awaits' = awaits
            \/ \E c, w \in Work :
                 /\ phase[c] \notin {"idle", "queued"} /\ phase[w] = "idle" /\ phase'[w] # "idle"
                 /\ awaits' = [awaits EXCEPT ![c] = @ \union {w}]
<1> [Next]_vars /\ TypeOK /\ FlagOnlyInsideSubAction /\ QueueShape /\ OneTimerForUnstartedHead
  BY DEF IInv
<1> USE DEF TypeOK
<1>a. queue # <<>> => /\ Head(queue) = queue[1] /\ Len(queue) \in Nat \ {0}
                      /\ \A i \in 1 .. Len(queue) : queue[i] \in Work
  BY EmptySeq, ElementOfSeq
<1> DEFINE Goal ==
         /\ \A w \in Work : phase[w] # "idle" => phase'[w] # "idle"
         /\ \A w \in Work : phase'[w] \in {"idle", "queued"} /\ phase[w] # phase'[w] => phase[w] = "idle"
         /\ \/ awaits' = awaits
            \/ \E c, w \in Work :
                 /\ phase[c] \notin {"idle", "queued"} /\ phase[w] = "idle" /\ phase'[w] # "idle"
                 /\ awaits' = [awaits EXCEPT ![c] = @ \union {w}]
<1>1. ASSUME NEW c \in Work \union {App}, NEW w \in Work, NEW awaited \in BOOLEAN,
             Enqueue(c, w, awaited)
      PROVE  Goal
  BY <1>1 DEF Enqueue, QueueWith, StartsAtOnce, Await, HasControl
<1>2. ASSUME NEW c \in Work \union {App}, SubAction(c) PROVE Goal
  BY <1>2 DEF SubAction
<1>3. ASSUME NEW w \in Work, NEW awaited \in BOOLEAN, SkipLine(w, awaited) PROVE Goal
  <2>1. stack # <<>> => Len(stack) \in 1 .. Len(stack)
    BY EmptySeq
  <2> QED BY <1>3, <2>1 DEF SkipLine, Await, HasStarted
<1>4. CASE SubActionReturns
  BY <1>4 DEF SubActionReturns, FlagAfterSubAction
<1>5. ASSUME NEW w \in Work, Settle(w) PROVE Goal
  BY <1>5 DEF Settle, CanSettle
<1>6. ASSUME NEW w \in Work, ExecuteNextResumes(w) PROVE Goal
  BY <1>6 DEF ExecuteNextResumes, TimersAfterShift
<1>7. CASE ExecuteNext
  BY <1>7, <1>a DEF ExecuteNext, OneTimerForUnstartedHead
<1>8. ASSUME NEW c \in Work \union {App}, AbortPendingWork(c) PROVE Goal
  BY <1>8, <1>a DEF AbortPendingWork, LeftByAbort, PhaseAfterAbort, QueueShape
<1>9. CASE UNCHANGED vars
  BY <1>9 DEF vars
<1> QED BY <1>1, <1>2, <1>3, <1>4, <1>5, <1>6, <1>7, <1>8, <1>9 DEF Next
LEMMA StackStep ==
  ASSUME TypeOK, [Next]_vars
  PROVE  \/ stack' = stack
         \/ \E c \in Work \union {App} : HasControl(c) /\ stack' = Append(stack, c)
         \/ stack # <<>> /\ stack' = SubSeq(stack, 1, Len(stack) - 1)
BY DEF Next, vars, Enqueue, SubAction, SkipLine, SubActionReturns, Settle, ExecuteNextResumes,
       ExecuteNext, AbortPendingWork

LEMMA StackItems ==
  ASSUME TypeOK, [Next]_vars
  PROVE  \A i \in 1 .. Len(stack') :
           \/ i \in 1 .. Len(stack) /\ stack'[i] = stack[i]
           \/ stack'[i] \in Work \union {App} /\ HasControl(stack'[i])
<1> stack \in Seq(Work \union {App})
  BY DEF TypeOK
<1>1. CASE stack' = stack
  BY <1>1
<1>2. ASSUME NEW c \in Work \union {App}, HasControl(c), stack' = Append(stack, c)
      PROVE  \A i \in 1 .. Len(stack') :
               \/ i \in 1 .. Len(stack) /\ stack'[i] = stack[i]
               \/ stack'[i] \in Work \union {App} /\ HasControl(stack'[i])
  BY <1>2, AppendProperties
<1>3. CASE stack # <<>> /\ stack' = SubSeq(stack, 1, Len(stack) - 1)
  BY <1>3, EmptySeq, SubSeqProperties
<1> QED BY <1>1, <1>2, <1>3, StackStep

LEMMA AwaitingKept ==
  ASSUME IInv, Awaiting, [Next]_vars
  PROVE  Awaiting'
<1> TypeOK /\ TypeOK'
  BY StepKeepsTypes DEF IInv
<1>1. /\ \A w \in Work : phase[w] # "idle" => phase'[w] # "idle"
      /\ \A w \in Work : phase'[w] \in {"idle", "queued"} /\ phase[w] # phase'[w] => phase[w] = "idle"
      /\ \/ awaits' = awaits
         \/ \E c, w \in Work :
              /\ phase[c] \notin {"idle", "queued"} /\ phase[w] = "idle" /\ phase'[w] # "idle"
              /\ awaits' = [awaits EXCEPT ![c] = @ \union {w}]
  BY AwaitStep DEF Awaiting
<1>2. \A i \in 1 .. Len(stack') : HasStarted(stack[i])'
  <2>1. ASSUME NEW i \in 1 .. Len(stack') PROVE HasStarted(stack'[i])
    BY StackItems DEF Awaiting, HasStarted, HasControl
  <2>2. \A c \in Work : phase[c] \notin {"idle", "queued"} => phase'[c] \notin {"idle", "queued"}
    BY <1>1
  <2> QED BY <2>1, <2>2 DEF HasStarted
<1>3. CASE awaits' = awaits
  <2>1. NoCircle'
    BY <1>3 DEF Awaiting, NoCircle
  <2>2. NoOuterCircle'
    <3> SUFFICES ASSUME NEW T \in SUBSET Work, T # {}, \A w \in T : phase'[w] # "idle"
                 PROVE  \E w \in T : \A v \in T : w \notin awaits[v]
      BY <1>3 DEF NoOuterCircle
    <3> DEFINE S == {w \in T : phase[w] # "idle"}
    <3>1. CASE S = {}
      BY <3>1 DEF Awaiting
    <3>2. CASE S # {}
      <4>1. PICK w \in S : \A v \in S : w \notin awaits[v]
        BY <3>2 DEF Awaiting, NoOuterCircle
      <4>2. \A v \in T \ S : awaits[v] = {}
        BY DEF Awaiting
      <4> QED BY <4>1, <4>2
    <3> QED BY <3>1, <3>2
  <2>3. \A w \in Work : \A v \in awaits'[w] : v \in Work /\ phase'[v] # "idle"
    BY <1>1, <1>3 DEF Awaiting, TypeOK
  <2>4. \A w \in Work : phase'[w] \in {"idle", "queued"} => awaits'[w] = {}
    BY <1>1, <1>3 DEF Awaiting
  <2> QED BY <1>2, <2>1, <2>2, <2>3, <2>4 DEF Awaiting
<1>4. ASSUME NEW c \in Work, NEW w \in Work,
             phase[c] \notin {"idle", "queued"}, phase[w] = "idle", phase'[w] # "idle",
             awaits' = [awaits EXCEPT ![c] = @ \union {w}]
      PROVE  Awaiting'
  <2>1. /\ c # w /\ awaits[w] = {} /\ awaits'[w] = {} /\ awaits'[c] = awaits[c] \union {w}
        /\ \A v \in Work \ {c} : awaits'[v] = awaits[v]
        /\ \A v \in Work : w \notin awaits[v]
    BY <1>4 DEF TypeOK, Awaiting
  <2>2. NoCircle'
    <3> SUFFICES ASSUME NEW T \in SUBSET Work, T # {}
                 PROVE  \E v \in T : awaits'[v] \cap T = {}
      BY DEF NoCircle
    <3>1. CASE w \in T
      BY <3>1, <2>1
    <3>2. CASE w \notin T
      BY <3>2, <2>1 DEF Awaiting, NoCircle
    <3> QED BY <3>1, <3>2
  <2>3. NoOuterCircle'
    <3> SUFFICES ASSUME NEW T \in SUBSET Work, T # {}, \A v \in T : phase'[v] # "idle"
                 PROVE  \E v \in T : \A u \in T : v \notin awaits'[u]
      BY DEF NoOuterCircle
    <3> DEFINE S == {v \in T : phase[v] # "idle"}
    <3>1. \A v \in T \ S : awaits'[v] = {} /\ v # c
      BY <2>1, <1>4 DEF Awaiting
    <3>2. CASE S = {}
      BY <3>1, <3>2
    <3>3. CASE S # {}
      <4>1. PICK v \in S : \A u \in S : v \notin awaits[u]
        BY <3>3 DEF Awaiting, NoOuterCircle
      <4>2. v # w
        BY <1>4
      <4> QED BY <4>1, <4>2, <3>1, <2>1
    <3> QED BY <3>2, <3>3
  <2>4. \A v \in Work : phase'[v] \in {"idle", "queued"} => awaits'[v] = {}
    BY <1>1, <1>4, <2>1 DEF Awaiting
  <2>5. ASSUME NEW v \in Work, NEW u \in awaits'[v] PROVE phase'[u] # "idle"
    <3>1. u \in Work /\ u \in awaits[v] \union {w}
      BY <2>1 DEF TypeOK
    <3> QED BY <1>1, <1>4, <3>1 DEF Awaiting
  <2> QED BY <1>2, <2>2, <2>3, <2>4, <2>5 DEF Awaiting
<1> QED BY <1>1, <1>3, <1>4
-----------------------------------------------------------------------------
(* On whose behalf blocks run: the item that a block was given is the      *)
(* first one, or done; and what a running block awaits runs as an item of  *)
(* its own or on behalf of the same item, if that is not done.             *)
OnBehalf ==
  /\ \A w \in Work : phase[w] = "settled" => IsItem(w)
  /\ \A w \in Work : phase[w] = "running" => item[w] # NoItem
  /\ \A w \in Work : item[w] # NoItem =>
       phase[item[w]] = "done" \/ (queue # <<>> /\ item[w] = Head(queue))
  /\ \A w, v \in Work :
       phase[w] = "running" /\ v \in awaits[w] /\ phase[v] = "running" =>
         IsItem(v) \/ item[v] = item[w] \/ phase[item[w]] = "done"

LEMMA OnBehalfKept ==
  ASSUME IInv, Awaiting, OnBehalf, [Next]_vars
  PROVE  OnBehalf'
<1>0. [Next]_vars
  OBVIOUS
<1> /\ TypeOK /\ QueueShape /\ IdleHasNoItem /\ OneTimerForUnstartedHead /\ OnlyHeadRuns
    /\ OnBehalf /\ Awaiting
  BY DEF IInv
<1>a. queue # <<>> => /\ Head(queue) = queue[1] /\ Len(queue) \in Nat \ {0}
                      /\ \A i \in 1 .. Len(queue) : queue[i] \in Work
  BY EmptySeq, ElementOfSeq DEF TypeOK
<1>b. NoItem \notin Work
  BY WorkAssumption
<1> USE DEF TypeOK, OnBehalf, IsItem
<1>1. ASSUME NEW c \in Work \union {App}, NEW w \in Work, NEW awaited \in BOOLEAN,
             Enqueue(c, w, awaited)
      PROVE  OnBehalf'
  <2>1. /\ phase[w] = "idle" /\ item[w] = NoItem /\ queue' = Append(queue, w)
        /\ \A v \in Work \ {w} : phase'[v] = phase[v] /\ item'[v] = item[v]
        /\ IF queue = <<>> THEN phase'[w] = "running" /\ item'[w] = w
                           ELSE phase'[w] = "queued" /\ item'[w] = NoItem
        /\ \A v \in Work : awaits'[v] \subseteq awaits[v] \union {w}
        /\ awaits'[w] = awaits[w]
    BY <1>1 DEF Enqueue, QueueWith, StartsAtOnce, Await, IdleHasNoItem, HasControl
  <2>2. queue' # <<>> /\ Head(queue') = IF queue = <<>> THEN w ELSE Head(queue)
    BY <2>1, HeadTailAppend, AppendProperties
  <2>3. \A v \in Work : item[v] # w
    BY <1>a, <1>b, <2>1 DEF QueueShape, Started
  <2>4. \A v \in Work : item[v] # NoItem => item[v] \in Work /\ phase'[item[v]] = phase[item[v]]
    BY <2>1, <2>3
  <2>5. \A v, u \in Work : phase'[v] = "running" /\ u \in awaits'[v] /\ phase'[u] = "running"
                             => IF u = w THEN item'[u] = u ELSE v # w /\ u \in awaits[v]
    BY <2>1 DEF Awaiting
  <2> QED BY <1>b, <2>1, <2>2, <2>3, <2>4, <2>5
<1>2. ASSUME NEW c \in Work \union {App}, SubAction(c) PROVE OnBehalf'
  BY <1>2 DEF SubAction
<1>3. ASSUME NEW w \in Work, NEW awaited \in BOOLEAN, SkipLine(w, awaited) PROVE OnBehalf'
  <2>1. /\ phase[w] = "idle" /\ item[w] = NoItem /\ queue' = queue /\ awaits[w] = {}
        /\ \A v \in Work \ {w} : phase'[v] = phase[v] /\ item'[v] = item[v]
        /\ \/ phase'[w] = "running" /\ item'[w] = Head(queue) /\ queue # <<>>
           \/ phase'[w] = "refused" /\ item'[w] = NoItem
        /\ \A v \in Work : awaits'[v] \subseteq awaits[v] \union {w}
        /\ \A v \in Work : w \notin awaits[v]
    BY <1>3 DEF SkipLine, Await, IdleHasNoItem, Awaiting
  <2>2. awaits'[w] = {}
    <3>1. stack # <<>> => Len(stack) \in 1 .. Len(stack)
      BY EmptySeq
    <3> QED BY <1>3, <2>1, <3>1 DEF SkipLine, Await, Awaiting, HasStarted
  <2>3. queue # <<>> => Head(queue) # w
    BY <1>a, <2>1 DEF QueueShape, Started
  <2>4. \A v \in Work : item[v] # w
    BY <1>b, <2>1, <2>3
  <2>5. \A v \in Work : item[v] # NoItem => item[v] \in Work /\ phase'[item[v]] = phase[item[v]]
    BY <2>1, <2>4
  <2>6. \A v \in Work : item'[v] # NoItem =>
          phase'[item'[v]] = "done" \/ (queue # <<>> /\ item'[v] = Head(queue))
    BY <2>1, <2>5
  <2>7. ASSUME NEW v \in Work, NEW u \in Work,
               phase'[v] = "running", u \in awaits'[v], phase'[u] = "running"
        PROVE  IsItem(u)' \/ item'[u] = item'[v] \/ phase'[item'[v]] = "done"
    <3>1. CASE u = w
      BY <2>1, <2>2, <2>5, <2>7, <3>1
    <3>2. CASE u # w
      BY <2>1, <2>2, <2>5, <2>7, <3>2
    <3> QED BY <3>1, <3>2
  <2>8. \A v \in Work : phase'[v] = "settled" => IsItem(v)'
    BY <2>1
  <2>9. \A v \in Work : phase'[v] = "running" => item'[v] # NoItem
    BY <1>a, <1>b, <2>1
  <2> QED BY <2>1, <2>6, <2>7, <2>8, <2>9
<1>4. CASE SubActionReturns
  BY <1>4 DEF SubActionReturns, FlagAfterSubAction
<1>5. ASSUME NEW w \in Work, Settle(w) PROVE OnBehalf'
  BY <1>5 DEF Settle, CanSettle
<1>6. ASSUME NEW w \in Work, ExecuteNextResumes(w) PROVE OnBehalf'
  BY <1>6, <1>a DEF ExecuteNextResumes, TimersAfterShift, OnlyHeadRuns, Started
<1>7. CASE ExecuteNext
  BY <1>7, <1>a, <1>b DEF ExecuteNext, OneTimerForUnstartedHead, Awaiting
<1>8. ASSUME NEW c \in Work \union {App}, AbortPendingWork(c) PROVE OnBehalf'
  BY <1>8, <1>a DEF AbortPendingWork, LeftByAbort, PhaseAfterAbort, isWriterRunning, QueueShape
<1>9. CASE UNCHANGED vars
  BY <1>9 DEF vars
<1> QED BY ONLY <1>0, <1>1, <1>2, <1>3, <1>4, <1>5, <1>6, <1>7, <1>8, <1>9 DEF Next

LEMMA InitAwaits == Init => Awaiting /\ OnBehalf
<1> SUFFICES ASSUME Init PROVE Awaiting /\ OnBehalf
  OBVIOUS
<1> USE DEF Init
<1>1. NoCircle /\ NoOuterCircle
  BY DEF NoCircle, NoOuterCircle
<1> QED BY <1>1 DEF Awaiting, OnBehalf, HasStarted

LEMMA AwaitsInvariant == Spec => [](IInv /\ Awaiting /\ OnBehalf)
<1>1. IInv /\ Awaiting /\ OnBehalf /\ [Next]_vars => (Awaiting /\ OnBehalf)'
  BY AwaitingKept, OnBehalfKept
<1> QED BY <1>1, InitAwaits, Invariance, PTL DEF Spec

(* When nothing can go on, a block of the first item awaits one that waits *)
(* in the queue: follow the awaits of blocks that run on behalf of the     *)
(* first item to one that awaits none of these.                            *)
THEOREM StallExplained == Spec => []StallIsSelfInflicted
<1>1. ASSUME IInv, Awaiting, OnBehalf, Stalled
      PROVE  \E w, v \in Work : /\ phase[w] = "running" /\ item[w] = Head(queue)
                                /\ v \in awaits[w] /\ phase[v] = "queued"
  <2> DEFINE head == Head(queue)
             T    == {w \in Work : phase[w] = "running" /\ item[w] = head}
  <2>1. TypeOK /\ QueueShape /\ OneTimerForUnstartedHead /\ OnlyHeadRuns /\ Stalled
    BY <1>1 DEF IInv
  <2>2. queue # <<>> /\ head = queue[1] /\ head \in Work
    BY <2>1, EmptySeq, ElementOfSeq DEF Stalled, TypeOK
  <2>3. head \in T
    BY <2>1, <2>2 DEF Stalled, QueueShape, OneTimerForUnstartedHead, Started, IsItem
  <2>4. PICK w \in T : awaits[w] \cap T = {}
    <3>1. T \in SUBSET Work /\ T # {}
      BY <2>3
    <3> QED BY <1>1, <3>1 DEF Awaiting, NoCircle
  <2>5. PICK v \in awaits[w] : phase[v] \notin Over
    BY <2>1, <2>4 DEF Stalled, CanSettle
  <2>6. v \in Work /\ phase[v] \in {"queued", "running", "settled"}
    BY <1>1, <2>1, <2>4, <2>5 DEF TypeOK, Phase, Started, Over, Awaiting
  <2>7. phase[v] # "settled"
    BY <1>1, <2>1, <2>6 DEF OnBehalf, Stalled
  <2>8. ASSUME phase[v] = "running" PROVE FALSE
    <3>1. IsItem(v) \/ item[v] = head
      BY <1>1, <2>3, <2>4, <2>5, <2>6, <2>8 DEF OnBehalf
    <3>2. item[v] = head
      BY <2>1, <2>6, <2>8, <3>1 DEF OnlyHeadRuns, Started, IsItem
    <3> QED BY <2>4, <2>5, <2>6, <2>8, <3>2
  <2> QED BY <2>4, <2>5, <2>6, <2>7, <2>8
<1>2. IInv /\ Awaiting /\ OnBehalf => StallIsSelfInflicted
  BY <1>1 DEF StallIsSelfInflicted
<1> QED BY <1>2, AwaitsInvariant, PTL

-----------------------------------------------------------------------------
(* The application that awaits its sub-actions and uses no interface after *)
(* its block or from outside of blocks. It may await other blocks.         *)
Disciplined == {"detachedSub", "leakedCall", "strayCall"} \cap Habits = {}

(* Then what runs, runs on behalf of the first item; the code of callbacks *)
(* is that of running blocks; and every running sub-action is awaited by a *)
(* running block.                                                          *)
AllAwaited ==
  /\ \A i \in 1 .. Len(stack) : stack[i] \in Work /\ phase[stack[i]] = "running"
  /\ \A w \in Work : phase[w] = "running" => queue # <<>> /\ item[w] = Head(queue)
  /\ \A w \in Work : phase[w] = "running" /\ ~IsItem(w) =>
       \E v \in Work : phase[v] = "running" /\ w \in awaits[v]

(* The first item awaits its sub-actions, directly or not: while there are *)
(* any, it runs and awaits one.                                            *)
LEMMA FirstItemWaits ==
  ASSUME IInv, Awaiting, AllAwaited, NEW w \in Work, phase[w] = "running", ~IsItem(w)
  PROVE  /\ queue # <<>> /\ Head(queue) \in Work /\ phase[Head(queue)] = "running"
         /\ \E v \in awaits[Head(queue)] : phase[v] = "running"
<1> DEFINE T == {v \in Work : phase[v] = "running" /\ ~IsItem(v)}
<1>1. PICK v \in T : \A u \in T : v \notin awaits[u]
  <2>1. T \in SUBSET Work /\ T # {} /\ \A v \in T : phase[v] # "idle"
    OBVIOUS
  <2> QED BY <2>1 DEF Awaiting, NoOuterCircle
<1>2. PICK u \in Work : phase[u] = "running" /\ v \in awaits[u]
  BY <1>1 DEF AllAwaited
<1>3. IsItem(u)
  BY <1>1, <1>2
<1>4. u = Head(queue) /\ queue # <<>>
  BY <1>2, <1>3 DEF IInv, OnlyHeadRuns, Started
<1> QED BY <1>1, <1>2, <1>4

LEMMA AllAwaitedKept ==
  ASSUME IInv, Awaiting, AllAwaited, Disciplined, [Next]_vars
  PROVE  AllAwaited'
<1>0. [Next]_vars
  OBVIOUS
<1> /\ TypeOK /\ QueueShape /\ IdleHasNoItem /\ OneTimerForUnstartedHead /\ OnlyHeadRuns
    /\ AllAwaited /\ Awaiting /\ Disciplined
  BY DEF IInv
<1>a. queue # <<>> => /\ Head(queue) = queue[1] /\ Len(queue) \in Nat \ {0}
                      /\ \A i \in 1 .. Len(queue) : queue[i] \in Work
  BY EmptySeq, ElementOfSeq DEF TypeOK
<1>b. App \notin Work
  BY WorkAssumption
<1>c. stack # <<>> => Len(stack) \in 1 .. Len(stack)
  BY EmptySeq DEF TypeOK
<1> USE DEF TypeOK, AllAwaited, IsItem
<1>1. ASSUME NEW c \in Work \union {App}, NEW w \in Work, NEW awaited \in BOOLEAN,
             Enqueue(c, w, awaited)
      PROVE  AllAwaited'
  <2>1. /\ phase[w] = "idle" /\ queue' = Append(queue, w) /\ stack' = stack
        /\ \A v \in Work \ {w} : phase'[v] = phase[v] /\ item'[v] = item[v]
        /\ IF queue = <<>> THEN phase'[w] = "running" /\ item'[w] = w ELSE phase'[w] = "queued"
        /\ \A v \in Work : awaits[v] \subseteq awaits'[v]
    BY <1>1 DEF Enqueue, QueueWith, StartsAtOnce, Await
  <2>2. queue' # <<>> /\ Head(queue') = IF queue = <<>> THEN w ELSE Head(queue)
    BY <2>1, HeadTailAppend, AppendProperties
  <2> QED BY <2>1, <2>2
<1>2. ASSUME NEW c \in Work \union {App}, SubAction(c) PROVE AllAwaited'
  <2>1. c \in Work /\ phase[c] = "running"
    BY <1>2 DEF SubAction, HasControl, ValidateQueue, Disciplined
  <2> QED BY <1>2, <2>1, AppendProperties DEF SubAction
<1>3. ASSUME NEW w \in Work, NEW awaited \in BOOLEAN, SkipLine(w, awaited) PROVE AllAwaited'
  <2> DEFINE c == stack[Len(stack)]
  <2>1. c \in Work /\ phase[c] = "running" /\ awaited
    BY <1>3, <1>c DEF SkipLine, Disciplined
  <2>2. /\ phase[w] = "idle" /\ UNCHANGED <<queue, stack>>
        /\ \A v \in Work \ {w} : phase'[v] = phase[v] /\ item'[v] = item[v]
        /\ phase'[w] = "running" => queue # <<>> /\ item'[w] = Head(queue)
        /\ \A v \in Work : awaits[v] \subseteq awaits'[v]
        /\ w \in awaits'[c]
    BY <1>3, <2>1 DEF SkipLine, Await
  <2> QED BY <2>1, <2>2
<1>4. CASE SubActionReturns
  BY <1>4, EmptySeq, SubSeqProperties DEF SubActionReturns, FlagAfterSubAction
<1>5. ASSUME NEW w \in Work, Settle(w) PROVE AllAwaited'
  <2>1. /\ phase[w] = "running" /\ \A v \in awaits[w] : phase[v] # "running"
        /\ phase'[w] # "running" /\ \A v \in Work \ {w} : phase'[v] = phase[v]
        /\ UNCHANGED <<queue, item, awaits>> /\ stack = <<>> /\ stack' = <<>>
    BY <1>5 DEF Settle, CanSettle, Over
  <2> QED BY <2>1
<1>6. ASSUME NEW w \in Work, ExecuteNextResumes(w) PROVE AllAwaited'
  <2>1. /\ w = Head(queue) /\ queue # <<>> /\ phase[w] = "settled" /\ phase'[w] = "done"
        /\ \A v \in Work \ {w} : phase'[v] = phase[v]
        /\ item' = item /\ stack = <<>> /\ stack' = <<>>
    BY <1>6 DEF ExecuteNextResumes, TimersAfterShift, OnlyHeadRuns, Started
  <2>2. \A v \in Work : phase[v] # "running"
    BY <2>1, FirstItemWaits DEF OnlyHeadRuns, Started
  <2> QED BY <2>1, <2>2
<1>7. CASE ExecuteNext
  BY <1>7, <1>a DEF ExecuteNext, OneTimerForUnstartedHead
<1>8. ASSUME NEW c \in Work \union {App}, AbortPendingWork(c) PROVE AllAwaited'
  <2>1. /\ queue # <<>> /\ queue' = <<Head(queue)>> /\ UNCHANGED <<stack, item, awaits>>
        /\ \A v \in Work : phase'[v] # phase[v] => phase[v] = "queued" /\ phase'[v] = "aborted"
    BY <1>8, <1>a DEF AbortPendingWork, LeftByAbort, PhaseAfterAbort, isWriterRunning, QueueShape
  <2>2. queue' # <<>> /\ Head(queue') = Head(queue)
    BY <2>1
  <2>3. \A v \in Work : phase'[v] = "running" <=> phase[v] = "running"
    BY <2>1
  <2> QED BY <2>1, <2>2, <2>3
<1>9. CASE UNCHANGED vars
  BY <1>9 DEF vars
<1> QED BY ONLY <1>0, <1>1, <1>2, <1>3, <1>4, <1>5, <1>6, <1>7, <1>8, <1>9 DEF Next

(* What runs together runs on behalf of one item, as long as sub-actions   *)
(* are awaited and interfaces used only inside of their blocks.            *)
THEOREM IsolationUnderDiscipline ==
  ASSUME Disciplined
  PROVE  Spec => []Isolation
<1>1. Init => AllAwaited
  BY DEF Init, AllAwaited
<1>2. IInv /\ Awaiting /\ OnBehalf /\ AllAwaited /\ [Next]_vars => AllAwaited'
  BY AllAwaitedKept
<1>3. AllAwaited => Isolation
  BY DEF AllAwaited, Isolation
<1> QED BY <1>1, <1>2, <1>3, AwaitsInvariant, PTL DEF Spec
=============================================================================
