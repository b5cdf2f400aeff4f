---------------------------- MODULE MCPipeMulti ----------------------------
(* PipeMulti for TLC: small rings, so that calls wrap after a few bytes.   *)
EXTENDS PipeMulti, TLC

Interchangeable == Permutations(Writers) \cup Permutations(Readers)
=============================================================================
