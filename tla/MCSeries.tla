----------------------------- MODULE MCSeries -----------------------------
(* Two rounds after one warm-up, two attempts at a series, and two builds. *)
EXTENDS Series, TLC

CONSTANTS b1, b2
MCBuilders == {b1, b2}
MCDrivers == {"boot", "coremark", "optimization", "counters"}
Symmetry == Permutations(MCBuilders)
===========================================================================
