------------------------------- MODULE Bits -------------------------------
(* The bitwise operations of the machine, on the nonnegative integers that     *)
(* registers hold.                                                             *)
EXTENDS Integers

CONSTANTS BitAnd(_, _), BitOr(_, _), BitXor(_, _)
=============================================================================
