----------------------------- MODULE MCWorkQueue -----------------------------
(* WorkQueue with two or three writers and a reader. Blocks of one kind    *)
(* are interchangeable.                                                    *)
EXTENDS WorkQueue, TLC

BlockSymmetry == Permutations(Writers) \union Permutations(Readers)
=============================================================================
