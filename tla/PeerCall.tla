------------------------------ MODULE PeerCall ------------------------------
(***************************************************************************)
(* What a caller of pullChanges() or pushChanges() of a peer sync client   *)
(* may rely on (src/src/sync/peer): a call that was made is carried out by *)
(* the other side any number of times, also when it has already failed for *)
(* its caller; it returns once, with the result of a run of its own, or    *)
(* throws once. Several calls may throw together.                          *)
(***************************************************************************)
EXTENDS Naturals

CONSTANT Calls

VARIABLES
  made,     \* the calls that were made
  runs,     \* how often the other side carried a call out
  outcome,  \* what became of a call: "none", "returned" or "threw"
  result    \* the run whose result was returned, 0 before

vars == <<made, runs, outcome, result>>

Init ==
  /\ made = {}
  /\ runs = [c \in Calls |-> 0] /\ result = [c \in Calls |-> 0]
  /\ outcome = [c \in Calls |-> "none"]

\* A call to a client that cannot make it throws at once.
Make(c) ==
  /\ c \notin made /\ made' = made \union {c}
  /\ outcome' \in {outcome, [outcome EXCEPT ![c] = "threw"]}
  /\ UNCHANGED <<runs, result>>

Run(c) ==
  /\ c \in made /\ runs' = [runs EXCEPT ![c] = @ + 1]
  /\ UNCHANGED <<made, outcome, result>>

Return(c) ==
  /\ c \in made /\ outcome[c] = "none"
  /\ outcome' = [outcome EXCEPT ![c] = "returned"]
  /\ \E n \in 1 .. runs[c] : result' = [result EXCEPT ![c] = n]
  /\ UNCHANGED <<made, runs>>

Throw(cs) ==
  /\ cs \subseteq {c \in made : outcome[c] = "none"}
  /\ outcome' = [c \in Calls |-> IF c \in cs THEN "threw" ELSE outcome[c]]
  /\ UNCHANGED <<made, runs, result>>

Next == (\E c \in Calls : Make(c) \/ Run(c) \/ Return(c)) \/ (\E cs \in SUBSET Calls : Throw(cs))

Spec == Init /\ [][Next]_vars
=============================================================================
