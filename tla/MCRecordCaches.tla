--------------------------- MODULE MCRecordCaches ---------------------------
(* RecordCaches with a few records, none of them special.                  *)
EXTENDS RecordCaches, TLC

IdSymmetry == Permutations(Ids)
=============================================================================
