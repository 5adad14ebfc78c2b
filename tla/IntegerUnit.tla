---------------------------- MODULE IntegerUnit ----------------------------
(***************************************************************************)
(* What the integer instructions of oxyspike compute: the original         *)
(* executor (oxyspike/src/lib.rs and bitmanip.rs) and the one that works   *)
(* on predecoded operations (oxyspike/src/fast.rs), for registers of XLEN  *)
(* bits.  A word, a half and a byte keep their order and not their sizes.  *)
(***************************************************************************)
EXTENDS Bits, FiniteSetsExt

CONSTANTS XLEN, WORD, HALF, BYTE      \* 64, 32, 16, 8

ASSUME WidthAssumption ==
  /\ {XLEN, WORD, HALF, BYTE} \subseteq Nat \ {0}
  /\ BYTE < HALF /\ HALF < WORD /\ XLEN = 2 * WORD /\ XLEN % BYTE = 0

Values == 0 .. 2^XLEN - 1
Ones == 2^XLEN - 1

\* What the provers do not know of powers.
ASSUME PowersAssumption ==
  \A m, n \in 0 .. XLEN : 2^n > 0 /\ 2^(m + n) = 2^m * 2^n

\* The operations on registers, each bit on its own; numbers without a bit in common add up.
Bit(x, n) == (x \div 2^n) % 2
ASSUME BitsAssumption ==
  /\ \A u, v \in Values :
       LET conj == BitAnd(u, v)
           disj == BitOr(u, v)
           excl == BitXor(u, v)
       IN /\ {conj, disj, excl} \subseteq Values
          /\ \A n \in 0 .. XLEN - 1 :
               /\ Bit(conj, n) = Bit(u, n) * Bit(v, n)
               /\ Bit(disj, n) = IF Bit(u, n) = 1 THEN 1 ELSE Bit(v, n)
               /\ Bit(excl, n) = IF Bit(u, n) = Bit(v, n) THEN 0 ELSE 1
  /\ \A n \in 0 .. XLEN - 1 : \A u \in 0 .. 2^n - 1, v \in Values : BitOr(u, v * 2^n) = u + v * 2^n

-----------------------------------------------------------------------------
(* The arithmetic of machine integers *)

wrap(x) == x % 2^XLEN
word(x) == x % 2^WORD
as_signed(x, w) == LET low == x % 2^w IN IF low >= 2^(w - 1) THEN low - 2^w ELSE low
sext(x, w) == wrap(as_signed(x, w))
not(x) == Ones - x
shift_left(x, n) == wrap(x * 2^n)

rotate_left(x, n, w) == (x * 2^n + x \div 2^(w - n)) % 2^w
rotate_right(x, n, w) == (x \div 2^n + x * 2^(w - n)) % 2^w
leading_zeros(x, w) == Cardinality({n \in 0 .. w - 1 : x < 2^n})
trailing_zeros(x, w) == Cardinality({n \in 1 .. w : x % 2^n = 0})
count_ones(x) == Cardinality({n \in 0 .. XLEN - 1 : Bit(x, n) = 1})
ByteShifts == {BYTE * i : i \in 0 .. XLEN \div BYTE - 1}
byte_at(x, n) == (x \div 2^n) % 2^BYTE
of_bytes(f) == CHOOSE v \in Values : \A n \in ByteShifts : byte_at(v, n) = f[n]
swap_bytes(x) ==
  CHOOSE v \in Values : \A n \in ByteShifts : byte_at(v, XLEN - BYTE - n) = byte_at(x, n)

\* Signed division truncates; its one overflow wraps.
Magnitude(x) == IF x < 0 THEN -x ELSE x
wrapping_div(x, y) ==
  LET q == Magnitude(x) \div Magnitude(y) IN wrap(IF (x < 0) = (y < 0) THEN q ELSE -q)
floor_rem(x, y) ==
  LET r == Magnitude(x) % Magnitude(y) IN wrap(IF y < 0 THEN -r ELSE r)
wrapping_rem(x, y) ==
  LET r == Magnitude(x) % Magnitude(y) IN wrap(IF x < 0 THEN -r ELSE r)

-----------------------------------------------------------------------------
(* The original executor *)

\* The operation that each word form applies to words.
OfWord ==
  [mulw |-> "mul", divw |-> "div", divuw |-> "divu", remw |-> "rem", remuw |-> "remu",
   addw |-> "add", subw |-> "sub", sllw |-> "sll", srlw |-> "srl", sraw |-> "sra"]
IsWord(op) == op \in DOMAIN OfWord
Operation(op) == IF IsWord(op) THEN OfWord[op] ELSE op

MultiplyOps == {"mul", "mulh", "mulhsu", "mulhu", "div", "divu", "rem", "remu"}
multiply(op, ra, rb, w) ==
  LET a == IF w THEN sext(ra, WORD) ELSE ra
      b == IF w THEN sext(rb, WORD) ELSE rb
      ua == IF w THEN word(ra) ELSE ra
      ub == IF w THEN word(rb) ELSE rb
      sa == as_signed(a, XLEN)
      sb == as_signed(b, XLEN)
  IN CASE op = "mul" -> wrap(a * b)
       [] op = "mulh" -> wrap((sa * sb) \div 2^XLEN)
       [] op = "mulhsu" -> wrap((sa * b) \div 2^XLEN)
       [] op = "mulhu" -> (a * b) \div 2^XLEN
       [] op = "div" -> IF b = 0 THEN Ones ELSE wrapping_div(sa, sb)
       [] op = "divu" -> IF ub = 0 THEN Ones ELSE ua \div ub
       [] op = "rem" -> IF b = 0 THEN a ELSE wrapping_rem(sa, sb)
       [] op = "remu" -> IF ub = 0 THEN ua ELSE ua % ub

\* The immediate forms compute the same, with the immediate for b.
BaseOps == {"add", "sub", "sll", "slt", "sltu", "xor", "or", "and", "srl", "sra"}
base(op, a, b, w) ==
  LET n == b % (IF w THEN WORD ELSE XLEN) IN
  CASE op = "add" -> wrap(a + b)
    [] op = "sub" -> wrap(a - b)
    [] op = "sll" -> shift_left(a, n)
    [] op = "slt" -> IF as_signed(a, XLEN) < as_signed(b, XLEN) THEN 1 ELSE 0
    [] op = "sltu" -> IF a < b THEN 1 ELSE 0
    [] op = "xor" -> BitXor(a, b)
    [] op = "or" -> BitOr(a, b)
    [] op = "and" -> BitAnd(a, b)
    [] op = "srl" -> (IF w THEN word(a) ELSE a) \div 2^n
    [] op = "sra" -> wrap(as_signed(a, IF w THEN WORD ELSE XLEN) \div 2^n)

\* Zba, Zbb and Zbs; n is the amount of the immediate forms.
ShiftAdd == [sh1add |-> 1, sh2add |-> 2, sh3add |-> 3]
WordShiftAdd ==
  [op \in {"sh1add.uw", "sh2add.uw", "sh3add.uw"} |->
     IF op = "sh1add.uw" THEN 1 ELSE IF op = "sh2add.uw" THEN 2 ELSE 3]
bitmanip(op, a, b, n) ==
  CASE op \in DOMAIN ShiftAdd -> wrap(shift_left(a, ShiftAdd[op]) + b)
    [] op \in DOMAIN WordShiftAdd -> wrap(shift_left(word(a), WordShiftAdd[op]) + b)
    [] op = "add.uw" -> wrap(word(a) + b)
    [] op = "slli.uw" -> shift_left(word(a), n)
    [] op = "xnor" -> BitXor(a, not(b))
    [] op = "orn" -> BitOr(a, not(b))
    [] op = "andn" -> BitAnd(a, not(b))
    [] op = "min" -> IF as_signed(a, XLEN) < as_signed(b, XLEN) THEN a ELSE b
    [] op = "max" -> IF as_signed(a, XLEN) > as_signed(b, XLEN) THEN a ELSE b
    [] op = "minu" -> IF a < b THEN a ELSE b
    [] op = "maxu" -> IF a > b THEN a ELSE b
    [] op = "rol" -> rotate_left(a, b % XLEN, XLEN)
    [] op = "ror" -> rotate_right(a, b % XLEN, XLEN)
    [] op = "rori" -> rotate_right(a, n, XLEN)
    [] op = "rolw" -> sext(rotate_left(word(a), b % WORD, WORD), WORD)
    [] op = "rorw" -> sext(rotate_right(word(a), b % WORD, WORD), WORD)
    [] op = "roriw" -> sext(rotate_right(word(a), n, WORD), WORD)
    [] op = "clz" -> leading_zeros(a, XLEN)
    [] op = "ctz" -> trailing_zeros(a, XLEN)
    [] op = "cpop" -> count_ones(a)
    [] op = "clzw" -> leading_zeros(word(a), WORD)
    [] op = "ctzw" -> trailing_zeros(word(a), WORD)
    [] op = "cpopw" -> count_ones(word(a))
    [] op = "sext.b" -> sext(a, BYTE)
    [] op = "sext.h" -> sext(a, HALF)
    [] op = "zext.h" -> a % 2^HALF
    [] op = "orc.b" ->
         of_bytes([k \in ByteShifts |-> IF byte_at(a, k) # 0 THEN 2^BYTE - 1 ELSE 0])
    [] op = "rev8" -> swap_bytes(a)
    [] op = "bset" -> BitOr(a, 2^(b % XLEN))
    [] op = "bclr" -> BitAnd(a, not(2^(b % XLEN)))
    [] op = "binv" -> BitXor(a, 2^(b % XLEN))
    [] op = "bext" -> Bit(a, b % XLEN)
    [] op = "bseti" -> BitOr(a, 2^n)
    [] op = "bclri" -> BitAnd(a, not(2^n))
    [] op = "binvi" -> BitXor(a, 2^n)
    [] op = "bexti" -> Bit(a, n)

execute(op, a, b, n) ==
  IF Operation(op) \notin MultiplyOps \cup BaseOps THEN bitmanip(op, a, b, n)
  ELSE LET v == IF Operation(op) \in MultiplyOps
                THEN multiply(Operation(op), a, b, IsWord(op))
                ELSE base(Operation(op), a, b, IsWord(op))
       IN IF IsWord(op) THEN sext(v, WORD) ELSE v

-----------------------------------------------------------------------------
(* The operations on registers that Decoded::new predecodes *)

PlainFast == BaseOps \cup {"mul"}
WordFast == {op \in DOMAIN OfWord : OfWord[op] \in {"add", "sub", "sll", "srl", "sra", "mul"}}
FastOps == PlainFast \cup WordFast \cup {"sh1add.uw", "sh2add.uw", "zext.h"}

ZeroExtendingDecoded(op, a, b) ==
  IF op = "srlw" THEN word(a) \div 2^(b % WORD) ELSE execute(op, a, b, 0)
execute_decoded(op, a, b) ==
  CASE op = "mul" -> wrap(a * b)
    [] op \in BaseOps -> base(op, a, b, FALSE)
    [] op = "mulw" -> sext(a * b, WORD)
    [] op = "addw" -> sext(a + b, WORD)
    [] op = "subw" -> sext(a - b, WORD)
    [] op = "sllw" -> sext(a * 2^(b % WORD), WORD)
    [] op = "srlw" -> sext(word(a) \div 2^(b % WORD), WORD)
    [] op = "sraw" -> wrap(as_signed(a, WORD) \div 2^(b % WORD))
    [] op = "sh1add.uw" -> wrap(word(a) * 2 + b)
    [] op = "sh2add.uw" -> wrap(word(a) * 4 + b)
    [] op = "zext.h" -> a % 2^HALF

\* One instruction: both operands are read before the destination, which is not x0,
\* is written.
Result(op, a, b, n) == IF op \in FastOps THEN execute_decoded(op, a, b) ELSE execute(op, a, b, n)
Executed(x, op, rd, rs1, rs2, n) ==
  IF rd = "zero" THEN x ELSE [x EXCEPT ![rd] = Result(op, x[rs1], x[rs2], n)]
=============================================================================
