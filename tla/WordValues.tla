---------------------------- MODULE WordValues ----------------------------
(* The values that the atomic instructions of oxyspike (oxyspike/src/lib.rs)   *)
(* compute with: a register holds two words, and an instruction on one word    *)
(* works on its sign extension.                                                *)
EXTENDS Bits

CONSTANT Word     \* 2^32

Doubles == 0 .. Word * Word - 1

ASSUME WordAssumption ==
  /\ Word \in Nat \ {0, 1}
  /\ \A x, y \in Doubles : {BitAnd(x, y), BitOr(x, y), BitXor(x, y)} \subseteq Doubles

\* The words of a register value, the lower first, and a value sign-extended.
UntruncatedWordOf(value, i) == IF i = 0 THEN value ELSE (value \div Word) % Word
WordOf(value, i) == IF i = 0 THEN value % Word ELSE (value \div Word) % Word
zext_word(value) == value
sext_word(value) == IF 2 * value >= Word THEN value + Word * Word - Word ELSE value
Extended(value, n) == IF n = 1 THEN sext_word(value % Word) ELSE value
Signed(value) == IF 2 * value >= Word * Word THEN value - Word * Word ELSE value

AmoResult(op, old, rhs) ==
  CASE op = "add" -> (old + rhs) % (Word * Word)
    [] op = "swap" -> rhs
    [] op = "xor" -> BitXor(old, rhs)
    [] op = "or" -> BitOr(old, rhs)
    [] op = "and" -> BitAnd(old, rhs)
    [] op = "min" -> IF Signed(old) < Signed(rhs) THEN old ELSE rhs
    [] op = "max" -> IF Signed(old) > Signed(rhs) THEN old ELSE rhs
    [] op = "minu" -> IF old < rhs THEN old ELSE rhs
    [] OTHER -> IF old > rhs THEN old ELSE rhs

-----------------------------------------------------------------------------
(* The operations on words, as the ISA has them *)

SignedWord(v) == IF 2 * v >= Word THEN v - Word ELSE v
WordResult(op, x, y) ==
  CASE op = "add" -> (x + y) % Word
    [] op = "swap" -> y
    [] op = "min" -> IF SignedWord(x) < SignedWord(y) THEN x ELSE y
    [] op = "max" -> IF SignedWord(x) < SignedWord(y) THEN y ELSE x
    [] op = "minu" -> IF x < y THEN x ELSE y
    [] op = "maxu" -> IF x < y THEN y ELSE x
    [] OTHER -> AmoResult(op, x, y)

\* An AMO of a word is the operation on words, signed or not, although the code
\* computes it on sign-extended values.
AmoIsOnWords(x, y) ==
  \A op \in {"add", "swap", "xor", "or", "and", "min", "max", "minu", "maxu"} :
    AmoResult(op, sext_word(x), sext_word(y)) % Word = WordResult(op, x, y)
=============================================================================
