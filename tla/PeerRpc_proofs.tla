--------------------------- MODULE PeerRpc_proofs ----------------------------
(***************************************************************************)
(* For any number of calls and deliveries: the type invariant of PeerRpc,  *)
(* that pending requests, timers and open promises are the same calls,     *)
(* that closing settles all of them, and that it implements PeerCall.      *)
(***************************************************************************)
EXTENDS PeerRpc, TLAPS

(* A call has a promise from the moment its request is made; a call that   *)
(* threw has no open promise.                                              *)
StageFitsPromise ==
  \A c \in Calls : /\ stage[c] = "none" => promise[c] = "none"
                   /\ promise[c] = "none" => stage[c] \in {"none", "threw"}
                   /\ stage[c] = "threw" => promise[c] # "open"

(* What the server works on, and says, is about calls that were made, and  *)
(* an answer that is not an error comes from a run that took place.        *)
Credible(id, verdict, run) == stage[id] # "none" /\ (verdict = "ok" => run \in 1 .. runs[id])

AnswersAreCredible ==
  /\ \A m \in wire : stage[m.id] # "none"
  /\ \A m \in wire \union decoding : m.type = "response" => Credible(m.id, m.verdict, m.run)
  /\ \A job \in jobs : /\ Credible(job.id, job.verdict, job.run)
                       /\ job.stage = "running" => job.run \in 1 .. runs[job.id]
  /\ \A c \in Calls : promise[c] = "resolved" => result[c] \in 1 .. runs[c]

IInv ==
  /\ TypeOK
  /\ PendingIsOpen
  /\ ClosedIsSettled
  /\ StageFitsPromise
  /\ AnswersAreCredible

-----------------------------------------------------------------------------
(* The initial states satisfy the invariant.                               *)
LEMMA InitEstablishes == Init => IInv
<1> SUFFICES ASSUME Init PROVE IInv
  OBVIOUS
<1>1. TypeOK
  BY DEF Init, TypeOK, Stages, Promises
<1>2. PendingIsOpen /\ ClosedIsSettled /\ StageFitsPromise /\ AnswersAreCredible
  BY DEF Init, PendingIsOpen, ClosedIsSettled, StageFitsPromise, AnswersAreCredible, Credible
<1> QED BY <1>1, <1>2 DEF IInv

(* A step keeps the types.                                                 *)
LEMMA StepKeepsTypes ==
  ASSUME TypeOK, [Next]_vars
  PROVE  TypeOK'
<1> USE DEF TypeOK, Stages, Promises, Verdicts, Messages, Jobs
<1>1. ASSUME NEW c \in Calls, SendRequest(c) PROVE TypeOK'
  BY <1>1 DEF SendRequest, clientVars, serverVars
<1>2. ASSUME NEW c \in Calls, Encoded(c) PROVE TypeOK'
  BY <1>2 DEF Encoded, Request, clientVars, serverVars
<1>3. ASSUME NEW c \in Calls, EncodeFails(c) PROVE TypeOK'
  BY <1>3 DEF EncodeFails, Clear, Reject, clientVars, serverVars
<1>4. ASSUME NEW c \in Calls, Sent(c) PROVE TypeOK'
  BY <1>4 DEF Sent, clientVars, serverVars
<1>5. ASSUME NEW c \in Calls, SendFails(c) PROVE TypeOK'
  BY <1>5 DEF SendFails, Clear, Reject, clientVars, serverVars
<1>6. ASSUME NEW c \in Calls, TimeOut(c) PROVE TypeOK'
  BY <1>6 DEF TimeOut, timeIsUp, Clear, Reject, clientVars, serverVars
<1>7. ASSUME NEW m \in decoding, Decoded(m) PROVE TypeOK'
  BY <1>7 DEF Decoded, requestFor, Clear, Reject, clientVars, serverVars
<1>8. CASE DecodeFails
  BY <1>8 DEF DecodeFails, rejectAllRequests, Clear, Reject, clientVars, serverVars
<1>9. CASE Close
  BY <1>9 DEF Close, endsRequests, rejectAllRequests, Clear, Reject, clientVars, serverVars
<1>10. ASSUME NEW m \in wire, ClientHears(m) PROVE TypeOK'
  BY <1>10 DEF ClientHears, clientVars, serverVars
<1>11. ASSUME NEW m \in wire, ServerHears(m) PROVE TypeOK'
  BY <1>11 DEF ServerHears, clientVars, serverVars
<1>12. ASSUME NEW job \in jobs, Refuse(job) PROVE TypeOK'
  BY <1>12 DEF Refuse, Becomes, clientVars, serverVars
<1>13. ASSUME NEW job \in jobs, CallHandler(job) PROVE TypeOK'
  <2> DEFINE next == [job EXCEPT !.stage = "running", !.run = runs[job.id] + 1]
  <2>1. job.id \in Calls /\ runs[job.id] + 1 \in Nat
    OBVIOUS
  <2>2. next \in Jobs
    BY <2>1
  <2>3. jobs' = (jobs \ {job}) \union {next}
    BY <1>13 DEF CallHandler, Becomes
  <2>4. jobs' \subseteq Jobs
    BY <2>2, <2>3
  <2>5. runs' \in [Calls -> Nat]
    BY <1>13, <2>1 DEF CallHandler
  <2> QED BY <1>13, <2>4, <2>5 DEF CallHandler, clientVars
<1>14. ASSUME NEW job \in jobs, NEW end \in Ends, HandlerEnds(job, end) PROVE TypeOK'
  BY <1>14 DEF HandlerEnds, Becomes, verdictOf, Ends, clientVars, serverVars
<1>15. ASSUME NEW job \in jobs, Answer(job) PROVE TypeOK'
  BY <1>15 DEF Answer, Response, clientVars, serverVars
<1>16. ASSUME NEW job \in jobs, Drop(job) PROVE TypeOK'
  BY <1>16 DEF Drop, clientVars, serverVars
<1>17. CASE Stop
  BY <1>17 DEF Stop, clientVars, serverVars
<1>18. CASE UNCHANGED vars
  BY <1>18 DEF vars, clientVars, serverVars
<1> QED
  BY ONLY [Next]_vars, <1>1, <1>2, <1>3, <1>4, <1>5, <1>6, <1>7, <1>8, <1>9, <1>10, <1>11, <1>12, <1>13, <1>14, <1>15, <1>16, <1>17, <1>18
  DEF Next, ClientStep, TransportStep, ServerStep, LocalStep

(* A step keeps pending requests, timers, open promises and the stages of  *)
(* the calls in agreement.                                                 *)
LEMMA StepKeepsCalls ==
  ASSUME TypeOK, PendingIsOpen, ClosedIsSettled, StageFitsPromise, [Next]_vars
  PROVE  (PendingIsOpen /\ ClosedIsSettled /\ StageFitsPromise)'
<1> USE DEF TypeOK, Stages, Promises, Messages, PendingIsOpen, ClosedIsSettled, StageFitsPromise
<1>1. ASSUME NEW c \in Calls, SendRequest(c) PROVE (PendingIsOpen /\ ClosedIsSettled /\ StageFitsPromise)'
  BY <1>1 DEF SendRequest, clientVars, serverVars
<1>2. ASSUME NEW c \in Calls, Encoded(c) PROVE (PendingIsOpen /\ ClosedIsSettled /\ StageFitsPromise)'
  BY <1>2 DEF Encoded, Request, clientVars, serverVars
<1>3. ASSUME NEW c \in Calls, EncodeFails(c) PROVE (PendingIsOpen /\ ClosedIsSettled /\ StageFitsPromise)'
  BY <1>3 DEF EncodeFails, Clear, Reject, clientVars, serverVars
<1>4. ASSUME NEW c \in Calls, Sent(c) PROVE (PendingIsOpen /\ ClosedIsSettled /\ StageFitsPromise)'
  BY <1>4 DEF Sent, clientVars, serverVars
<1>5. ASSUME NEW c \in Calls, SendFails(c) PROVE (PendingIsOpen /\ ClosedIsSettled /\ StageFitsPromise)'
  BY <1>5 DEF SendFails, Clear, Reject, clientVars, serverVars
<1>6. ASSUME NEW c \in Calls, TimeOut(c) PROVE (PendingIsOpen /\ ClosedIsSettled /\ StageFitsPromise)'
  BY <1>6 DEF TimeOut, timeIsUp, Clear, Reject, clientVars, serverVars
<1>7. ASSUME NEW m \in decoding, Decoded(m) PROVE (PendingIsOpen /\ ClosedIsSettled /\ StageFitsPromise)'
  BY <1>7 DEF Decoded, requestFor, Clear, Reject, clientVars, serverVars
<1>8. CASE DecodeFails
  BY <1>8 DEF DecodeFails, rejectAllRequests, Clear, Reject, clientVars, serverVars
<1>9. CASE Close
  BY <1>9 DEF Close, endsRequests, rejectAllRequests, Clear, Reject, clientVars, serverVars
<1>10. ASSUME NEW m \in wire, ClientHears(m) PROVE (PendingIsOpen /\ ClosedIsSettled /\ StageFitsPromise)'
  BY <1>10 DEF ClientHears, clientVars, serverVars
<1>11. ASSUME NEW m \in wire, ServerHears(m) PROVE (PendingIsOpen /\ ClosedIsSettled /\ StageFitsPromise)'
  BY <1>11 DEF ServerHears, clientVars, serverVars
<1>12. ASSUME NEW job \in jobs, Refuse(job) PROVE (PendingIsOpen /\ ClosedIsSettled /\ StageFitsPromise)'
  BY <1>12 DEF Refuse, Becomes, clientVars, serverVars
<1>13. ASSUME NEW job \in jobs, CallHandler(job) PROVE (PendingIsOpen /\ ClosedIsSettled /\ StageFitsPromise)'
  BY <1>13 DEF CallHandler, Becomes, clientVars, serverVars
<1>14. ASSUME NEW job \in jobs, NEW end \in Ends, HandlerEnds(job, end) PROVE (PendingIsOpen /\ ClosedIsSettled /\ StageFitsPromise)'
  BY <1>14 DEF HandlerEnds, Becomes, verdictOf, Ends, clientVars, serverVars
<1>15. ASSUME NEW job \in jobs, Answer(job) PROVE (PendingIsOpen /\ ClosedIsSettled /\ StageFitsPromise)'
  BY <1>15 DEF Answer, Response, clientVars, serverVars
<1>16. ASSUME NEW job \in jobs, Drop(job) PROVE (PendingIsOpen /\ ClosedIsSettled /\ StageFitsPromise)'
  BY <1>16 DEF Drop, clientVars, serverVars
<1>17. CASE Stop
  BY <1>17 DEF Stop, clientVars, serverVars
<1>18. CASE UNCHANGED vars
  BY <1>18 DEF vars, clientVars, serverVars
<1> QED
  BY ONLY [Next]_vars, <1>1, <1>2, <1>3, <1>4, <1>5, <1>6, <1>7, <1>8, <1>9, <1>10, <1>11, <1>12, <1>13, <1>14, <1>15, <1>16, <1>17, <1>18
  DEF Next, ClientStep, TransportStep, ServerStep, LocalStep

(* A step keeps answers credible: runs are only added, and a result is     *)
(* taken from a credible answer.                                           *)
LEMMA StepKeepsAnswers ==
  ASSUME IInv, [Next]_vars
  PROVE  AnswersAreCredible'
<1> TypeOK /\ PendingIsOpen /\ StageFitsPromise /\ AnswersAreCredible
  BY DEF IInv
<1> USE DEF TypeOK, Stages, Promises, Verdicts, Messages, Jobs, PendingIsOpen, AnswersAreCredible, Credible
<1>1. ASSUME NEW c \in Calls, SendRequest(c) PROVE AnswersAreCredible'
  BY <1>1 DEF SendRequest, clientVars, serverVars
<1>2. ASSUME NEW c \in Calls, Encoded(c) PROVE AnswersAreCredible'
  BY <1>2 DEF Encoded, Request, clientVars, serverVars
<1>3. ASSUME NEW c \in Calls, EncodeFails(c) PROVE AnswersAreCredible'
  BY <1>3 DEF EncodeFails, Clear, Reject, clientVars, serverVars
<1>4. ASSUME NEW c \in Calls, Sent(c) PROVE AnswersAreCredible'
  BY <1>4 DEF Sent, clientVars, serverVars
<1>5. ASSUME NEW c \in Calls, SendFails(c) PROVE AnswersAreCredible'
  BY <1>5 DEF SendFails, Clear, Reject, clientVars, serverVars
<1>6. ASSUME NEW c \in Calls, TimeOut(c) PROVE AnswersAreCredible'
  BY <1>6 DEF TimeOut, timeIsUp, Clear, Reject, clientVars, serverVars
<1>7. ASSUME NEW m \in decoding, Decoded(m) PROVE AnswersAreCredible'
  BY <1>7 DEF Decoded, requestFor, Clear, Reject, clientVars, serverVars
<1>8. CASE DecodeFails
  BY <1>8 DEF DecodeFails, rejectAllRequests, Clear, Reject, clientVars, serverVars
<1>9. CASE Close
  BY <1>9 DEF Close, endsRequests, rejectAllRequests, Clear, Reject, clientVars, serverVars
<1>10. ASSUME NEW m \in wire, ClientHears(m) PROVE AnswersAreCredible'
  BY <1>10 DEF ClientHears, clientVars, serverVars
<1>11. ASSUME NEW m \in wire, ServerHears(m) PROVE AnswersAreCredible'
  BY <1>11 DEF ServerHears, clientVars, serverVars
<1>12. ASSUME NEW job \in jobs, Refuse(job) PROVE AnswersAreCredible'
  BY <1>12 DEF Refuse, Becomes, clientVars, serverVars
<1>13. ASSUME NEW job \in jobs, CallHandler(job) PROVE AnswersAreCredible'
  <2>1. job.id \in Calls /\ runs[job.id] \in Nat /\ stage[job.id] # "none"
    OBVIOUS
  <2>2. \A c \in Calls : runs'[c] \in Nat /\ runs[c] <= runs'[c]
    BY <1>13, <2>1 DEF CallHandler
  <2>3. runs'[job.id] = runs[job.id] + 1
    BY <1>13, <2>1 DEF CallHandler
  <2>4. /\ \A c \in Calls : stage'[c] = stage[c] /\ promise'[c] = promise[c] /\ result'[c] = result[c]
        /\ wire' = wire /\ decoding' = decoding
    BY <1>13 DEF CallHandler, clientVars
  <2>5. ASSUME NEW k \in jobs'
        PROVE  Credible(k.id, k.verdict, k.run)' /\ (k.stage = "running" => k.run \in 1 .. runs'[k.id])
    <3>1. CASE k \in jobs
      BY <3>1, <2>2, <2>4
    <3>2. CASE k = [job EXCEPT !.stage = "running", !.run = runs[job.id] + 1]
      <4>1. k.id = job.id /\ k.run = runs[job.id] + 1
        BY <3>2
      <4> QED BY <4>1, <2>1, <2>3, <2>4
    <3> QED BY <1>13, <3>1, <3>2 DEF CallHandler, Becomes
  <2>6. \A m \in wire' \union decoding' : m.type = "response" => Credible(m.id, m.verdict, m.run)'
    BY <2>2, <2>4
  <2> QED BY <2>2, <2>4, <2>5, <2>6
<1>14. ASSUME NEW job \in jobs, NEW end \in Ends, HandlerEnds(job, end) PROVE AnswersAreCredible'
  <2>1. UNCHANGED <<stage, promise, result, wire, decoding, runs>>
    BY <1>14 DEF HandlerEnds, clientVars
  <2>2. ASSUME NEW k \in jobs'
        PROVE  Credible(k.id, k.verdict, k.run)' /\ (k.stage = "running" => k.run \in 1 .. runs'[k.id])
    <3>1. CASE k \in jobs
      BY <3>1, <2>1
    <3>2. CASE k = [job EXCEPT !.stage = "answering", !.verdict = verdictOf(end)]
      <4>1. k.id = job.id /\ k.run = job.run /\ k.stage = "answering"
        BY <3>2
      <4> QED BY <1>14, <4>1, <2>1 DEF HandlerEnds
    <3> QED BY <1>14, <3>1, <3>2 DEF HandlerEnds, Becomes
  <2> QED BY <2>1, <2>2
<1>15. ASSUME NEW job \in jobs, Answer(job) PROVE AnswersAreCredible'
  BY <1>15 DEF Answer, Response, clientVars, serverVars
<1>16. ASSUME NEW job \in jobs, Drop(job) PROVE AnswersAreCredible'
  BY <1>16 DEF Drop, clientVars, serverVars
<1>17. CASE Stop
  BY <1>17 DEF Stop, clientVars, serverVars
<1>18. CASE UNCHANGED vars
  BY <1>18 DEF vars, clientVars, serverVars
<1> QED
  BY ONLY [Next]_vars, <1>1, <1>2, <1>3, <1>4, <1>5, <1>6, <1>7, <1>8, <1>9, <1>10, <1>11, <1>12, <1>13, <1>14, <1>15, <1>16, <1>17, <1>18
  DEF Next, ClientStep, TransportStep, ServerStep, LocalStep

-----------------------------------------------------------------------------
(* The invariant is one.                                                   *)
THEOREM Invariance == Spec => []IInv
<1>1. Init => IInv
  BY InitEstablishes
<1>2. IInv /\ [Next]_vars => IInv'
  BY StepKeepsTypes, StepKeepsCalls, StepKeepsAnswers DEF IInv
<1> QED BY <1>1, <1>2, PTL DEF Spec

(* Types, for any number of calls.                                         *)
THEOREM TypeCorrect == Spec => []TypeOK
<1>1. IInv => TypeOK
  BY DEF IInv
<1> QED BY <1>1, Invariance, PTL

(* No request stays pending, and no timer set, when its call is settled,   *)
(* and the other way round.                                                *)
THEOREM PendingIsOpenAlways == Spec => []PendingIsOpen
<1>1. IInv => PendingIsOpen
  BY DEF IInv
<1> QED BY <1>1, Invariance, PTL

(* Once close() has run no call is open.                                   *)
THEOREM ClosedIsSettledAlways == Spec => []ClosedIsSettled
<1>1. IInv => ClosedIsSettled
  BY DEF IInv
<1> QED BY <1>1, Invariance, PTL

-----------------------------------------------------------------------------
(* What callers see changes as PeerCall lets it: a call's outcome is read  *)
(* off its stage and its promise, so a step of a promise is seen at once   *)
(* by a caller that awaits it, and later by one whose request is not sent. *)
Made   == {c \in Calls : stage[c] # "none"}
Seen   == [c \in Calls |-> Outcome(c)]
Result == [c \in Calls |-> IF Outcome(c) = "returned" THEN result[c] ELSE 0]

(* The calls in cs throw, the others stay as they are.                     *)
LEMMA SomeThrow ==
  ASSUME NEW cs \in SUBSET Calls, Made' = Made, UNCHANGED runs,
         \A c \in cs : stage[c] # "none" /\ Outcome(c) = "none" /\ Outcome(c)' = "threw",
         \A c \in Calls \ cs : Outcome(c)' = Outcome(c),
         \A c \in Calls : Outcome(c)' = "returned" => result'[c] = result[c]
  PROVE  Promised!Next
<1>1. cs \subseteq {c \in Made : Seen[c] = "none"}
  BY DEF Made, Seen
<1>2. Seen' = [c \in Calls |-> IF c \in cs THEN "threw" ELSE Seen[c]]
  BY DEF Seen
<1>3. Result' = Result
  BY DEF Result
<1>4. Promised!Throw(cs)
  BY <1>1, <1>2, <1>3 DEF Promised!Throw, Made, Seen, Result
<1> QED BY <1>4 DEF Promised!Next

(* The call c is resolved, the others stay as they are.                    *)
LEMMA OneReturns ==
  ASSUME NEW c \in Calls, Made' = Made, UNCHANGED runs,
         stage[c] # "none", Outcome(c) = "none", Outcome(c)' = "returned",
         result'[c] \in 1 .. runs[c],
         \A d \in Calls \ {c} : Outcome(d)' = Outcome(d) /\ result'[d] = result[d]
  PROVE  Promised!Next
<1>1. c \in Made /\ Seen[c] = "none"
  BY DEF Made, Seen
<1>2. Seen' = [Seen EXCEPT ![c] = "returned"]
  BY DEF Seen
<1>3. Result' = [Result EXCEPT ![c] = result'[c]]
  BY DEF Result
<1>4. Promised!Return(c)
  BY <1>1, <1>2, <1>3 DEF Promised!Return, Made, Seen, Result
<1> QED BY <1>4 DEF Promised!Next

(* PeerRpc implements PeerCall.                                            *)
THEOREM Refinement == Spec => KeepsPromise
<1>1. Init => Promised!Init
  BY DEF Init, Promised!Init, Outcome
<1>2. ASSUME IInv, IInv', [Next]_vars PROVE [Promised!Next]_(Promised!vars)
  <2> [Next]_vars
    BY <1>2
  <2> TypeOK /\ PendingIsOpen /\ StageFitsPromise /\ AnswersAreCredible
    BY <1>2 DEF IInv
  <2>a. \A c \in Calls : promise'[c] = "resolved" => result'[c] \in 1 .. runs'[c]
    BY <1>2 DEF IInv, AnswersAreCredible
  <2> USE DEF TypeOK, Stages, Promises
  <2>1. ASSUME NEW c \in Calls, SendRequest(c) PROVE Promised!Next
    <3>1. Made' = Made \union {c} /\ c \notin Made /\ UNCHANGED <<runs, result>>
      BY <2>1 DEF SendRequest, Made, serverVars
    <3>2. Outcome(c) = "none" /\ Outcome(c)' \in {"none", "threw"}
      BY <2>1 DEF SendRequest, Outcome
    <3>3. \A d \in Calls \ {c} : Outcome(d)' = Outcome(d)
      BY <2>1 DEF SendRequest, Outcome
    <3>4. Seen' \in {Seen, [Seen EXCEPT ![c] = "threw"]}
      BY <3>2, <3>3 DEF Seen
    <3>5. Result' = Result
      BY <3>1, <3>2, <3>3 DEF Result
    <3>6. Promised!Make(c)
      BY <3>1, <3>4, <3>5 DEF Promised!Make, Made, Seen, Result
    <3> QED BY <3>6 DEF Promised!Next
  <2>2. ASSUME NEW c \in Calls, Encoded(c) PROVE Promised!Next
    BY <2>2, SomeThrow, {} \in SUBSET Calls DEF Encoded, Outcome, Made, serverVars
  <2>3. ASSUME NEW c \in Calls, EncodeFails(c) PROVE Promised!Next
    <3>1. Made' = Made /\ UNCHANGED <<runs, result>>
      BY <2>3 DEF EncodeFails, Made, serverVars
    <3>2. stage[c] # "none" /\ Outcome(c) = "none" /\ Outcome(c)' = "threw"
      BY <2>3 DEF EncodeFails, Outcome
    <3>3. \A d \in Calls \ {c} : Outcome(d)' = Outcome(d)
      BY <2>3 DEF EncodeFails, Outcome, Reject
    <3> QED BY <3>1, <3>2, <3>3, SomeThrow, {c} \in SUBSET Calls
  <2>4. ASSUME NEW c \in Calls, Sent(c) PROVE Promised!Next
    <3>1. Made' = Made /\ UNCHANGED <<runs, result, promise>> /\ stage[c] = "sending"
      BY <2>4 DEF Sent, Made, serverVars
    <3>2. stage'[c] = "awaiting" /\ \A d \in Calls \ {c} : Outcome(d)' = Outcome(d)
      BY <2>4 DEF Sent, Outcome
    <3>3. CASE promise[c] = "resolved"
      <4>1. Outcome(c) = "none" /\ Outcome(c)' = "returned" /\ result'[c] \in 1 .. runs[c]
        BY <3>1, <3>2, <3>3, <2>a DEF Outcome
      <4> QED BY <3>1, <3>2, <4>1, OneReturns
    <3>4. CASE promise[c] = "rejected"
      <4>1. Outcome(c) = "none" /\ Outcome(c)' = "threw"
        BY <3>1, <3>2, <3>4 DEF Outcome
      <4> QED BY <3>1, <3>2, <4>1, SomeThrow, {c} \in SUBSET Calls
    <3>5. CASE promise[c] \notin {"resolved", "rejected"}
      <4>1. Outcome(c)' = Outcome(c)
        BY <3>1, <3>2, <3>5 DEF Outcome
      <4> QED BY <3>1, <3>2, <4>1, SomeThrow, {} \in SUBSET Calls
    <3> QED BY <3>3, <3>4, <3>5
  <2>b. ASSUME NEW cs \in SUBSET pending, Reject(cs), UNCHANGED <<stage, result, runs>>
        PROVE  Promised!Next
    <3> DEFINE awaiting == {c \in cs : stage[c] = "awaiting"}
    <3>1. \A c \in cs : c \in Calls /\ promise[c] = "open" /\ promise'[c] = "rejected"
      BY <2>b DEF PendingIsOpen, Reject
    <3>2. \A c \in awaiting : stage[c] # "none" /\ Outcome(c) = "none" /\ Outcome(c)' = "threw"
      BY <2>b, <3>1 DEF Outcome
    <3>3. \A c \in Calls \ awaiting : Outcome(c)' = Outcome(c)
      BY <2>b, <3>1 DEF Outcome, Reject
    <3>4. Made' = Made /\ awaiting \in SUBSET Calls
      BY <2>b, <3>1 DEF Made
    <3> HIDE DEF awaiting
    <3> QED BY <2>b, <3>2, <3>3, <3>4, SomeThrow
  <2>5. ASSUME NEW c \in Calls, SendFails(c) PROVE Promised!Next
    <3>1. Made' = Made /\ UNCHANGED <<runs, result>> /\ stage[c] = "sending"
      BY <2>5 DEF SendFails, Made, serverVars
    <3>2. stage'[c] = "awaiting" /\ \A d \in Calls \ {c} : Outcome(d)' = Outcome(d)
      BY <2>5 DEF SendFails, Outcome, Reject
    <3>3. Outcome(c) = "none" /\ Outcome(c)' \in {"none", "returned", "threw"}
      BY <3>1 DEF Outcome
    <3>4. CASE Outcome(c)' = "returned"
      <4>1. result'[c] \in 1 .. runs[c]
        BY <3>1, <3>2, <3>4, <2>a DEF Outcome
      <4> QED BY <3>1, <3>2, <3>3, <3>4, <4>1, OneReturns
    <3>5. CASE Outcome(c)' = "threw"
      BY <3>1, <3>2, <3>3, <3>5, SomeThrow, {c} \in SUBSET Calls
    <3>6. CASE Outcome(c)' = "none"
      BY <3>1, <3>2, <3>3, <3>6, SomeThrow, {} \in SUBSET Calls
    <3> QED BY <3>3, <3>4, <3>5, <3>6
  <2>6. ASSUME NEW c \in Calls, TimeOut(c) PROVE Promised!Next
    <3>1. {c} \in SUBSET pending /\ Reject({c}) /\ UNCHANGED <<stage, result, runs>>
      BY <2>6 DEF TimeOut, timeIsUp, PendingIsOpen, serverVars
    <3> QED BY <3>1, <2>b
  <2>7. ASSUME NEW m \in decoding, Decoded(m) PROVE Promised!Next
    <3> DEFINE cs == IF m.verdict = "malformed" THEN {} ELSE {m.id} \cap pending
    <3>1. cs \in SUBSET pending /\ UNCHANGED <<stage, runs>>
      BY <2>7 DEF Decoded, serverVars
    <3>2. CASE m.verdict # "ok"
      <4>1. Reject(cs) /\ UNCHANGED result
        BY <2>7, <3>2 DEF Decoded, requestFor
      <4> QED BY <3>1, <4>1, <2>b
    <3>3. CASE m.verdict = "ok" /\ cs = {}
      <4>1. UNCHANGED <<result, promise>>
        BY <2>7, <3>3 DEF Decoded, requestFor
      <4>2. Made' = Made /\ \A c \in Calls : Outcome(c)' = Outcome(c)
        BY <3>1, <4>1 DEF Made, Outcome
      <4> QED BY <3>1, <4>1, <4>2, SomeThrow, {} \in SUBSET Calls
    <3>4. CASE m.verdict = "ok" /\ cs # {}
      <4>1. m.id \in Calls /\ cs = {m.id} /\ promise[m.id] = "open"
        BY <3>4 DEF PendingIsOpen
      <4>2. /\ promise' = [c \in Calls |-> IF c \in {m.id} THEN "resolved" ELSE promise[c]]
            /\ result' = [c \in Calls |-> IF c \in {m.id} THEN m.run ELSE result[c]]
        BY <2>7, <3>4, <4>1 DEF Decoded, requestFor
      <4>3. \A c \in Calls \ {m.id} : Outcome(c)' = Outcome(c) /\ result'[c] = result[c]
        BY <3>1, <4>2 DEF Outcome
      <4>4. Made' = Made /\ Outcome(m.id) = "none" /\ stage[m.id] # "none"
        BY <3>1, <4>1 DEF Made, Outcome, StageFitsPromise
      <4>5. CASE stage[m.id] = "awaiting"
        <5>1. Outcome(m.id)' = "returned" /\ result'[m.id] \in 1 .. runs[m.id]
          BY <3>1, <4>1, <4>2, <4>5, <2>a DEF Outcome
        <5> QED BY <3>1, <4>1, <4>3, <4>4, <5>1, OneReturns
      <4>6. CASE stage[m.id] # "awaiting"
        <5>1. Outcome(m.id)' = "none"
          BY <3>1, <4>1, <4>4, <4>6 DEF Outcome, StageFitsPromise
        <5> QED BY <3>1, <4>3, <4>4, <5>1, SomeThrow, {} \in SUBSET Calls
      <4> QED BY <4>5, <4>6
    <3> QED BY <3>2, <3>3, <3>4
  <2>8. CASE DecodeFails
    <3>1. pending \in SUBSET pending /\ Reject(pending) /\ UNCHANGED <<stage, result, runs>>
      BY <2>8 DEF DecodeFails, rejectAllRequests, serverVars
    <3> QED BY <3>1, <2>b
  <2>9. CASE Close
    <3>1. pending \in SUBSET pending /\ Reject(pending) /\ UNCHANGED <<stage, result, runs>>
      BY <2>9 DEF Close, endsRequests, rejectAllRequests, serverVars
    <3> QED BY <3>1, <2>b
  <2>10. ASSUME NEW job \in jobs, CallHandler(job) PROVE Promised!Next
    <3>1. UNCHANGED clientVars /\ runs' = [runs EXCEPT ![job.id] = @ + 1]
      BY <2>10 DEF CallHandler
    <3>2. job.id \in Calls /\ job.id \in Made
      BY DEF Jobs, AnswersAreCredible, Credible, Made
    <3>3. Made' = Made /\ Seen' = Seen /\ Result' = Result
      BY <3>1 DEF clientVars, Made, Seen, Result, Outcome
    <3>4. Promised!Run(job.id)
      BY <3>1, <3>2, <3>3 DEF Promised!Run, Made, Seen, Result
    <3> QED BY <3>2, <3>4 DEF Promised!Next
  <2>c. ASSUME UNCHANGED <<stage, promise, result, runs>> PROVE UNCHANGED Promised!vars
    BY <2>c DEF Promised!vars, Outcome
  <2>11. ASSUME NEW m \in wire, ClientHears(m) \/ ServerHears(m) PROVE UNCHANGED Promised!vars
    BY <2>11, <2>c DEF ClientHears, ServerHears, clientVars, serverVars
  <2>12. ASSUME NEW job \in jobs,
                Refuse(job) \/ Answer(job) \/ Drop(job) \/ \E end \in Ends : HandlerEnds(job, end)
         PROVE  UNCHANGED Promised!vars
    BY <2>12, <2>c DEF Refuse, Answer, Drop, HandlerEnds, clientVars
  <2>13. CASE Stop \/ UNCHANGED vars
    BY <2>13, <2>c DEF Stop, vars, clientVars, serverVars
  <2> QED
    BY ONLY [Next]_vars, <2>1, <2>2, <2>3, <2>4, <2>5, <2>6, <2>7, <2>8, <2>9, <2>10, <2>11,
            <2>12, <2>13
    DEF Next, ClientStep, TransportStep, ServerStep, LocalStep
<1> QED BY <1>1, <1>2, Invariance, PTL DEF Spec, KeepsPromise, Promised!Spec
=============================================================================
