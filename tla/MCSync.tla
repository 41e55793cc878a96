------------------------------- MODULE MCSync -------------------------------
(* Sync on one or two records.                                             *)
EXTENDS Sync, TLC

CallSymmetry == Permutations(Sessions)
=============================================================================
