---------------------------- MODULE MCSerialLink ----------------------------
(***************************************************************************)
(* SerialLink for TLC: two programs on each end, so that calls overlap.    *)
(***************************************************************************)
EXTENDS SerialLink, TLC

Interchangeable == Permutations(Writers) \cup Permutations(Readers)
=============================================================================
