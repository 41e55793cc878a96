------------------------------ MODULE PeerRpc -------------------------------
(***************************************************************************)
(* Peer sync, src/src/sync/peer/index.js: a client whose pullChanges() and *)
(* pushChanges() are requests over a transport, and a server that answers  *)
(* them with handlers of the application.                                  *)
(*                                                                         *)
(* The transport and the codec are the application's. A message may be     *)
(* lost, delivered late, in another order, or more than once. Encoding,    *)
(* decoding and sending are asynchronous: a client waits for the codec and *)
(* for send() while answers arrive, time runs out, or it is closed.        *)
(* Methods, parameters and tokens are left out: a result is the number of  *)
(* the run of the handler that it came from.                               *)
(*                                                                         *)
(* A definition named Fault... is a wrong version of the one that follows  *)
(* it, for checking that the properties would notice.                      *)
(***************************************************************************)
EXTENDS Naturals

CONSTANTS
  Calls,          \* calls of the client; each gets an id never used before
  MaxDeliveries   \* bound on how many requests reach the server

ASSUME PeerRpcAssumption == MaxDeliveries \in Nat \ {0}

VARIABLES
  stage,       \* where sendRequest() is, for each call
  promise,     \* responsePromise of each call
  result,      \* the run whose result it was resolved with
  pending,     \* pendingRequests, by call
  timers,      \* the calls whose timer is set
  closed,      \* the client has been closed
  wire,        \* messages that were sent
  decoding,    \* responses that the client's codec decodes
  jobs,        \* requests that the server works on
  deliveries,  \* how many requests reached the server
  runs,        \* how often a handler was called for a request
  stopped      \* the server was stopped

clientVars == <<stage, promise, result, pending, timers, closed, decoding>>
serverVars == <<jobs, deliveries, runs, stopped>>
vars == <<clientVars, wire, serverVars>>

Stages   == {"none", "encoding", "sending", "awaiting", "threw"}
Promises == {"none", "open", "resolved", "rejected"}

\* What an answer says: "malformed" is one that isPeerSyncResponse() refuses.
Verdicts == {"ok", "error", "malformed"}

Request(c)          == [type |-> "request", id |-> c]
Response(c, how, n) == [type |-> "response", id |-> c, verdict |-> how, run |-> n]

Messages ==
  [type : {"request"}, id : Calls]
    \union [type : {"response"}, id : Calls, verdict : Verdicts, run : Nat]

\* The nth request to arrive, and the run of the handler it led to, if any.
Jobs == [id : Calls, nth : Nat, stage : {"authorizing", "running", "answering"},
         verdict : Verdicts, run : Nat]

Init ==
  /\ stage = [c \in Calls |-> "none"] /\ promise = [c \in Calls |-> "none"]
  /\ result = [c \in Calls |-> 0]
  /\ pending = {} /\ timers = {} /\ closed = FALSE
  /\ wire = {} /\ decoding = {} /\ jobs = {} /\ stopped = FALSE
  /\ deliveries = 0 /\ runs = [c \in Calls |-> 0]

-----------------------------------------------------------------------------
(***************************************************************************)
(* The client. Requests leave pendingRequests together with their timers,  *)
(* and only then is the promise of such a request settled.                 *)
(***************************************************************************)
FaultLeavesPending(cs) == timers' = timers \ cs /\ pending' = pending

\* clearRequest()
Clear(cs) == timers' = timers \ cs /\ pending' = pending \ cs

Reject(cs) == promise' = [c \in Calls |-> IF c \in cs THEN "rejected" ELSE promise[c]]

rejectAllRequests == Clear(pending) /\ Reject(pending)

SendRequest(c) ==
  /\ stage[c] = "none"
  /\ IF closed
     THEN stage' = [stage EXCEPT ![c] = "threw"] /\ UNCHANGED <<promise, pending, timers>>
     ELSE /\ stage' = [stage EXCEPT ![c] = "encoding"]
          /\ promise' = [promise EXCEPT ![c] = "open"]
          /\ pending' = pending \union {c} /\ timers' = timers \union {c}
  /\ UNCHANGED <<result, closed, decoding, wire, serverVars>>

\* The request is sent whether or not it is still pending.
Encoded(c) ==
  /\ stage[c] = "encoding" /\ stage' = [stage EXCEPT ![c] = "sending"]
  /\ wire' = wire \union {Request(c)}
  /\ UNCHANGED <<promise, result, pending, timers, closed, decoding, serverVars>>

EncodeFails(c) ==
  /\ stage[c] = "encoding" /\ stage' = [stage EXCEPT ![c] = "threw"]
  /\ Clear({c} \cap pending) /\ Reject({c} \cap pending)
  /\ UNCHANGED <<result, closed, decoding, wire, serverVars>>

Sent(c) ==
  /\ stage[c] = "sending" /\ stage' = [stage EXCEPT ![c] = "awaiting"]
  /\ UNCHANGED <<promise, result, pending, timers, closed, decoding, wire, serverVars>>

\* send() rejects; the message may have been sent all the same.
SendFails(c) ==
  /\ stage[c] = "sending" /\ stage' = [stage EXCEPT ![c] = "awaiting"]
  /\ Clear({c} \cap pending) /\ Reject({c} \cap pending)
  /\ UNCHANGED <<result, closed, decoding, wire, serverVars>>

FaultOnlyWhileAwaited(c) == c \in timers /\ stage[c] # "awaiting"

timeIsUp(c) == c \in timers

TimeOut(c) ==
  /\ timeIsUp(c) /\ Clear({c}) /\ Reject({c})
  /\ UNCHANGED <<stage, result, closed, decoding, wire, serverVars>>

FaultAnyPending(m) == IF m.id \in pending THEN pending ELSE {}

\* The pending request that a response is for, none if it came too late.
requestFor(m) == {m.id} \cap pending

\* onMessage(), after decoding
Decoded(m) ==
  LET cs == IF m.verdict = "malformed" THEN {} ELSE requestFor(m)
  IN /\ m \in decoding /\ decoding' = decoding \ {m}
     /\ Clear(cs)
     /\ IF m.verdict = "ok"
        THEN /\ promise' = [c \in Calls |-> IF c \in cs THEN "resolved" ELSE promise[c]]
             /\ result' = [c \in Calls |-> IF c \in cs THEN m.run ELSE result[c]]
        ELSE Reject(cs) /\ UNCHANGED result
     /\ UNCHANGED <<stage, closed, wire, serverVars>>

\* Any message that cannot be decoded, a response or not.
DecodeFails ==
  /\ rejectAllRequests
  /\ \E ms \in {{}} \union {{m} : m \in decoding} : decoding' = decoding \ ms
  /\ UNCHANGED <<stage, result, closed, wire, serverVars>>

FaultOnlyUnsubscribes == UNCHANGED <<pending, timers, promise>>

endsRequests == rejectAllRequests

Close ==
  /\ ~closed /\ closed' = TRUE
  /\ endsRequests
  /\ UNCHANGED <<stage, result, decoding, wire, serverVars>>

-----------------------------------------------------------------------------
(***************************************************************************)
(* The transport. A message may be delivered again and again, and is lost  *)
(* when it is never delivered. A client that was closed and a server that  *)
(* was stopped have unsubscribed.                                          *)
(***************************************************************************)
ClientHears(m) ==
  /\ m \in wire /\ m.type = "response" /\ ~closed
  /\ decoding' = decoding \union {m}
  /\ UNCHANGED <<stage, promise, result, pending, timers, closed, wire, serverVars>>

ServerHears(m) ==
  /\ m \in wire /\ m.type = "request" /\ ~stopped
  /\ deliveries < MaxDeliveries /\ deliveries' = deliveries + 1
  /\ jobs' = jobs \union {[id |-> m.id, nth |-> deliveries, stage |-> "authorizing",
                           verdict |-> "error", run |-> 0]}
  /\ UNCHANGED <<clientVars, wire, runs, stopped>>

-----------------------------------------------------------------------------
(***************************************************************************)
(* The server: decode, authorize, call the handler, encode and send the    *)
(* answer. Requests are worked on side by side.                            *)
(***************************************************************************)
Becomes(job, next) == jobs' = (jobs \ {job}) \union {next}

Refuse(job) ==
  /\ job \in jobs /\ job.stage = "authorizing"
  /\ Becomes(job, [job EXCEPT !.stage = "answering"])
  /\ UNCHANGED <<clientVars, wire, deliveries, runs, stopped>>

CallHandler(job) ==
  /\ job \in jobs /\ job.stage = "authorizing"
  /\ runs' = [runs EXCEPT ![job.id] = @ + 1]
  /\ Becomes(job, [job EXCEPT !.stage = "running", !.run = runs[job.id] + 1])
  /\ UNCHANGED <<clientVars, wire, deliveries, stopped>>

\* How a handler ends: it resolves with an object, a falsy value or another
\* value, or it rejects. A falsy result is answered as an empty object.
Ends == {"object", "nothing", "other", "rejection"}

FaultNoDefault(end) == IF end = "object" THEN "ok" ELSE end

verdictOf(end) == CASE end \in {"object", "nothing"} -> "ok"
                    [] end = "other" -> "malformed"
                    [] end = "rejection" -> "error"

HandlerEnds(job, end) ==
  /\ job \in jobs /\ job.stage = "running"
  /\ Becomes(job, [job EXCEPT !.stage = "answering", !.verdict = verdictOf(end)])
  /\ UNCHANGED <<clientVars, wire, deliveries, runs, stopped>>

Answer(job) ==
  /\ job \in jobs /\ job.stage = "answering"
  /\ jobs' = jobs \ {job}
  /\ wire' = wire \union {Response(job.id, job.verdict, job.run)}
  /\ UNCHANGED <<clientVars, deliveries, runs, stopped>>

\* The request could not be decoded, or the answer not be encoded or sent.
Drop(job) ==
  /\ job \in jobs /\ job.stage \in {"authorizing", "answering"}
  /\ jobs' = jobs \ {job}
  /\ UNCHANGED <<clientVars, wire, deliveries, runs, stopped>>

Stop ==
  /\ ~stopped /\ stopped' = TRUE
  /\ UNCHANGED <<clientVars, wire, jobs, deliveries, runs>>

-----------------------------------------------------------------------------
\* The codec and the transport's send() answer, one way or the other.
LocalStep(c) == Encoded(c) \/ EncodeFails(c) \/ Sent(c) \/ SendFails(c)

ClientStep ==
  \/ \E c \in Calls : SendRequest(c) \/ LocalStep(c) \/ TimeOut(c)
  \/ \E m \in decoding : Decoded(m)
  \/ DecodeFails \/ Close

TransportStep == \E m \in wire : ClientHears(m) \/ ServerHears(m)

ServerStep ==
  \/ \E job \in jobs : \/ Refuse(job) \/ CallHandler(job) \/ Answer(job) \/ Drop(job)
                       \/ \E end \in Ends : HandlerEnds(job, end)
  \/ Stop

Next == ClientStep \/ TransportStep \/ ServerStep

Spec == Init /\ [][Next]_vars

\* Timers go off. Neither the server nor the transport owes anything.
TimerSpec == Spec /\ \A c \in Calls : WF_vars(TimeOut(c))
\* And the codec and send() settle the promises they return.
FairSpec == TimerSpec /\ \A c \in Calls : WF_vars(LocalStep(c))

-----------------------------------------------------------------------------
TypeOK ==
  /\ stage \in [Calls -> Stages] /\ promise \in [Calls -> Promises]
  /\ result \in [Calls -> Nat]
  /\ pending \subseteq Calls /\ timers \subseteq Calls /\ closed \in BOOLEAN
  /\ wire \subseteq Messages /\ decoding \subseteq {m \in Messages : m.type = "response"}
  /\ jobs \subseteq Jobs /\ stopped \in BOOLEAN
  /\ deliveries \in Nat /\ runs \in [Calls -> Nat]

\* A request is pending, and its timer set, exactly while its promise is
\* open: no call is left waiting with nothing to end it, and no timer or
\* answer reaches a call that has been settled (index.js:151-209).
PendingIsOpen == pending = {c \in Calls : promise[c] = "open"} /\ timers = pending

\* Closing settles every call, one being encoded or sent included, and no
\* call opens after it (index.js:198, 236-245).
ClosedIsSettled == closed => \A c \in Calls : promise[c] # "open"

\* What the caller of pullChanges() or pushChanges() sees.
Outcome(c) ==
  CASE stage[c] = "threw" -> "threw"
    [] stage[c] = "awaiting" /\ promise[c] = "resolved" -> "returned"
    [] stage[c] = "awaiting" /\ promise[c] = "rejected" -> "threw"
    [] OTHER -> "none"

\* A call returns or throws once, and returns what a run of its own gave,
\* whatever the transport loses, repeats or reorders (index.js:169-234).
Promised == INSTANCE PeerCall WITH
  made    <- {c \in Calls : stage[c] # "none"},
  outcome <- [c \in Calls |-> Outcome(c)],
  result  <- [c \in Calls |-> IF Outcome(c) = "returned" THEN result[c] ELSE 0]

KeepsPromise == Promised!Spec

\* Every call ends, for the timer sees to it (index.js:206-209).
EveryCallEnds == \A c \in Calls : stage[c] # "none" ~> Outcome(c) # "none"
=============================================================================
