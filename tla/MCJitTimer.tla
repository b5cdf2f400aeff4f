----------------------------- MODULE MCJitTimer -----------------------------
(***************************************************************************)
(* JitTimer for TLC: two programs, or one that reads twice while the timer *)
(* of its first record is still about; the buffer is too full for the      *)
(* second part, for its last line, or not.                                 *)
(***************************************************************************)
EXTENDS JitTimer
=============================================================================
