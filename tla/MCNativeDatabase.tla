-------------------------- MODULE MCNativeDatabase --------------------------
(* NativeDatabase, two ids and two Databases on one file; the second one   *)
(* is of a bridge that is set up while the first is still at work.         *)
EXTENDS NativeDatabase, TLC
=============================================================================
