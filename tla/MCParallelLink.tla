--------------------------- MODULE MCParallelLink ---------------------------
(***************************************************************************)
(* ParallelLink for TLC.  Two readers share the busy line; two writes      *)
(* let a read span both of them and begin after one was over.              *)
(***************************************************************************)
EXTENDS ParallelLink
=============================================================================
