---------------------------- MODULE DurableStore ----------------------------
(***************************************************************************)
(* What the native driver promises of the database file: it is changed by  *)
(* whole calls only, each on what all calls before it left, whatever fails *)
(* in between and whenever the process ends. The one exception is named:   *)
(* a reset erases the file first and sets up the schema after, so that an  *)
(* empty file of version 0 may be found between the two.                   *)
(***************************************************************************)
EXTENDS SqlStatements

VARIABLE store  \* what the file holds

Init == store \in FoundContents

\* One call's statements, all of them, on a store on which each of them runs.
Run(s) == Runs(s, store) /\ store' = Effect(s, store)

Next ==
  \/ store' = Erased
  \/ \E s \in Calls : Run(s)

Spec == Init /\ [][Next]_store
=============================================================================
