---------------------------- MODULE MCCounters -----------------------------
(* Counters that wrap after three instructions. *)
EXTENDS Counters
=============================================================================
