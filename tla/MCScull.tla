------------------------------ MODULE MCScull ------------------------------
(* Scull for TLC: quanta of two bytes and sets of two quanta, so that a    *)
(* write of six bytes takes a second set.                                  *)
EXTENDS Scull, TLC

Interchangeable == Permutations(Writers) \cup Permutations(Readers)
=============================================================================
