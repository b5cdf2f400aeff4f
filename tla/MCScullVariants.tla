-------------------------- MODULE MCScullVariants --------------------------
(***************************************************************************)
(* ScullVariants for TLC: quanta of three bytes, so that an end may be one *)
(* or two short of a quantum, and sets of two.                             *)
(***************************************************************************)
EXTENDS ScullVariants, TLC

Interchangeable == Permutations(Procs)
=============================================================================
