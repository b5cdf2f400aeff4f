------------------------------ MODULE MCSbull ------------------------------
(* Sbull for TLC.  Three programs: one may hold the disk open while two    *)
(* others open and release it.                                             *)
EXTENDS Sbull, TLC
=============================================================================
