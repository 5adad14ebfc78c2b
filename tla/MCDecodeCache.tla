--------------------------- MODULE MCDecodeCache ---------------------------
(* Two address spaces with different programs, of which user mode may run    *)
(* only one, two pcs that share the single entry, and an epoch that wraps    *)
(* after three flushes.                                                      *)
EXTENDS DecodeCache

CONSTANTS s1, s2, i1, i2

Programs ==
  [s \in {s1, s2} |-> [p \in {0, 3} |-> [a \in {0, 1} |->
     IF p = 0 /\ s = s1 THEN Fault
     ELSE IF (s = s1) = (a = 0) THEN i1 ELSE i2]]]
Changing == {<<s1, 3, 0>>, <<s2, 0, 0>>}
=============================================================================
