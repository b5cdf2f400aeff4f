----------------------------- MODULE MCPipeByte -----------------------------
(***************************************************************************)
(* PipeByte for TLC.  A ring of three bytes, of which two are used, is     *)
(* enough for a write to find it full, to wrap and to lap the reader.      *)
(***************************************************************************)
EXTENDS PipeByte, TLC

(* Files opened in one mode are interchangeable.                           *)
Interchangeable == Permutations(Writers) \cup Permutations(Readers)
=============================================================================
