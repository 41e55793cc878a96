-------------------------- MODULE MCSubscriptions ---------------------------
(* Subscriptions, with what may be exchanged: records, callers of observe(). *)
EXTENDS Subscriptions, TLC

Symmetry == Permutations(Subscribers \ Columns) \cup Permutations(Records)
=============================================================================
