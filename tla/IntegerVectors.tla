--------------------------- MODULE IntegerVectors ---------------------------
(***************************************************************************)
(* scripts/test-oxyspike-integer.py: a guest program that executes every   *)
(* M, Zba, Zbb and Zbs instruction on vectors of operands, in layouts of   *)
(* registers that overlap, and compares each result with an oracle written *)
(* in Python; the script runs it on Spike and then on OxySpike.            *)
(*                                                                         *)
(* The guest is one loop per instruction and layout.  Each loop sets every *)
(* register it reads, so one of them, any of them, stands for the program. *)
(***************************************************************************)
EXTENDS IntegerUnit, Sequences

CONSTANTS Edges, RandomPairs    \* sequences: operands, and pairs of operands

ASSUME VectorsAssumption ==
  Edges \in Seq(Values) /\ Len(Edges) > 0 /\ RandomPairs \in Seq(Values \X Values)

-----------------------------------------------------------------------------
(* The oracle, on Python's unbounded integers *)

signed(value, width) ==
  LET v == value % 2^width IN IF v \div 2^(width - 1) # 0 THEN v - 2^width ELSE v
quotient(a, b) ==
  IF b = 0 THEN -1
  ELSE LET q == Magnitude(a) \div Magnitude(b) IN IF (a < 0) # (b < 0) THEN -q ELSE q
rotate(value, amount, width, left) ==
  LET a == value % 2^width
      b == IF left THEN (-(amount % width)) % width ELSE amount % width
  IN BitOr(a \div 2^b, a * 2^((width - b) % width)) % 2^width
bit_length(x) == CHOOSE n \in 0 .. XLEN : x < 2^n /\ (n = 0 \/ x >= 2^(n - 1))

\* The six groups that exist for both widths, and wrap of the 32-bit ones.
Ranged(name, a, b, width) ==
  LET m == 2^width - 1
      sa == signed(a, width)
      sb == signed(b, width)
      ua == a % 2^width
      ub == b % 2^width
  IN CASE name = "mul" -> a * b
       [] name = "div" -> quotient(sa, sb)
       [] name = "divu" -> IF ub # 0 THEN ua \div ub ELSE m
       [] name = "rem" -> IF sb = 0 THEN sa ELSE sa - quotient(sa, sb) * sb
       [] name = "remu" -> IF ub # 0 THEN ua % ub ELSE ua
       [] name = "rol" -> rotate(a, b, width, TRUE)
       [] name = "ror" -> rotate(a, b, width, FALSE)
RangedOps == {"mul", "div", "divu", "rem", "remu", "rol", "ror"}
RangedWords ==
  [mulw |-> "mul", divw |-> "div", divuw |-> "divu", remw |-> "rem", remuw |-> "remu",
   rolw |-> "rol", rorw |-> "ror"]

Counted(name, a, width) ==
  CASE name = "clz" -> width - bit_length(a % 2^width)
    [] name = "ctz" -> IF a % 2^width # 0 THEN bit_length(BitAnd(a, 2^XLEN - a)) - 1 ELSE width
    [] name = "cpop" -> Cardinality({n \in 0 .. width - 1 : (a \div 2^n) % 2 = 1})
CountedWords == [clzw |-> "clz", ctzw |-> "ctz", cpopw |-> "cpop"]

OtherRegs ==
  {"mulh", "mulhu", "mulhsu", "add.uw", "andn", "orn", "xnor", "min", "max", "minu", "maxu",
   "bset", "bclr", "binv", "bext"} \cup DOMAIN ShiftAdd \cup DOMAIN WordShiftAdd
OtherUnaries == {"sext.b", "sext.h", "zext.h", "rev8", "orc.b"}
Immediates == {"rori", "slli.uw", "bseti", "bclri", "binvi", "bexti"}

\* a & ~b of nonnegative numbers.
Without(a, b) == a - BitAnd(a, b)
BitOps(name, a, k) ==
  CASE name \in {"bset", "bseti"} -> BitOr(a, 2^k)
    [] name \in {"bclr", "bclri"} -> Without(a, 2^k)
    [] name \in {"binv", "binvi"} -> BitXor(a, 2^k)
    [] name \in {"bext", "bexti"} -> (a \div 2^k) % 2
Others(name, a, b, n) ==
  CASE name = "mulh" -> (signed(a, XLEN) * signed(b, XLEN)) \div 2^XLEN
    [] name = "mulhu" -> (a * b) \div 2^XLEN
    [] name = "mulhsu" -> (signed(a, XLEN) * b) \div 2^XLEN
    [] name \in DOMAIN ShiftAdd -> a * 2^ShiftAdd[name] + b
    [] name \in DOMAIN WordShiftAdd -> (a % 2^WORD) * 2^WordShiftAdd[name] + b
    [] name = "add.uw" -> (a % 2^WORD) + b
    [] name = "andn" -> Without(a, b)
    [] name = "orn" -> -1 - Without(b, a)
    [] name = "xnor" -> -1 - BitXor(a, b)
    [] name = "min" -> Min({signed(a, XLEN), signed(b, XLEN)})
    [] name = "max" -> Max({signed(a, XLEN), signed(b, XLEN)})
    [] name = "minu" -> Min({a, b})
    [] name = "maxu" -> Max({a, b})
    [] name \in {"bset", "bclr", "binv", "bext"} -> BitOps(name, a, b % XLEN)
    [] name = "sext.b" -> signed(a, BYTE)
    [] name = "sext.h" -> signed(a, HALF)
    [] name = "zext.h" -> a % 2^HALF
    [] name = "rev8" ->
         of_bytes([k \in ByteShifts |-> (a \div 2^(XLEN - BYTE - k)) % 2^BYTE])
    [] name = "orc.b" ->
         of_bytes([k \in ByteShifts |-> IF (a \div 2^k) % 2^BYTE # 0 THEN 2^BYTE - 1 ELSE 0])
    [] name = "rori" -> rotate(a, n, XLEN, FALSE)
    [] name = "roriw" -> signed(rotate(a, n, WORD, FALSE), WORD)
    [] name = "slli.uw" -> (a % 2^WORD) * 2^n
    [] name \in {"bseti", "bclri", "binvi", "bexti"} -> BitOps(name, a, n)

oracle(name, a, b, n) ==
  CASE name \in RangedOps -> Ranged(name, a, b, XLEN)
    [] name \in DOMAIN RangedWords -> signed(Ranged(RangedWords[name], a, b, WORD), WORD)
    [] name \in {"clz", "ctz", "cpop"} -> Counted(name, a, XLEN)
    [] name \in DOMAIN CountedWords -> Counted(CountedWords[name], a, WORD)
    [] OTHER -> Others(name, a, b, n)

-----------------------------------------------------------------------------
(* The groups, and the layouts of their registers *)

Groups ==
  {[name |-> op, form |-> "reg", shift |-> 0] :
     op \in RangedOps \cup DOMAIN RangedWords \cup OtherRegs}
  \cup {[name |-> op, form |-> "unary", shift |-> 0] :
          op \in {"clz", "ctz", "cpop"} \cup DOMAIN CountedWords \cup OtherUnaries}
  \cup {[name |-> op, form |-> "imm", shift |-> n] : op \in Immediates, n \in 0 .. XLEN - 1}
  \cup {[name |-> "roriw", form |-> "imm", shift |-> n] : n \in 0 .. WORD - 1}

\* The registers of a layout, rs2 being t1 where the instruction has none.
Layouts ==
  {"plain", "rd-rs1", "rd-zero", "rs1-zero", "rd-rs2", "rs1-rs2", "all-same", "rs2-zero"}
Registers ==
  [layout \in Layouts |->
     CASE layout = "plain" -> <<"t2", "t0", "t1">>
       [] layout = "rd-rs1" -> <<"t0", "t0", "t1">>
       [] layout = "rd-zero" -> <<"zero", "t0", "t1">>
       [] layout = "rs1-zero" -> <<"t2", "zero", "t1">>
       [] layout = "rd-rs2" -> <<"t1", "t0", "t1">>
       [] layout = "rs1-rs2" -> <<"t2", "t0", "t0">>
       [] layout = "all-same" -> <<"t0", "t0", "t0">>
       [] layout = "rs2-zero" -> <<"t2", "t0", "zero">>]
LayoutsOf(form) ==
  IF form = "reg" THEN Layouts ELSE {"plain", "rd-rs1", "rd-zero", "rs1-zero"}
register_layouts ==
  {t \in [group : Groups, layout : Layouts] : t.layout \in LayoutsOf(t.group.form)}

\* What the script writes next to the operands of a vector.
Expected(t, a, b) ==
  LET fn(x, y) == oracle(t.group.name, x, y, t.group.shift) IN
  (CASE t.layout = "rd-zero" -> 0
     [] t.layout = "rs1-zero" -> fn(0, b)
     [] t.layout \in {"rs1-rs2", "all-same"} -> fn(a, a)
     [] t.layout = "rs2-zero" -> fn(a, 0)
     [] OTHER -> fn(a, b)) % 2^XLEN

-----------------------------------------------------------------------------
(* The guest's loop and the script that runs it *)

VARIABLES
  test,         \* the instruction and its layout
  command,      \* of the script: "spike", "oxyspike", "passed" or "failed"
  pc,           \* of the guest on OxySpike
  s0, s1,       \* the next vector, and how many are left
  x,            \* the registers the vector uses
  tohost

scriptVars == <<test, command, pc, s0, s1, x, tohost>>

Count == Len(Edges) * Len(Edges) + Len(RandomPairs)
Pair(k) ==
  IF k < Len(Edges) * Len(Edges)
  THEN <<Edges[k \div Len(Edges) + 1], Edges[(k % Len(Edges)) + 1]>>
  ELSE RandomPairs[k - Len(Edges) * Len(Edges) + 1]

rd == Registers[test.layout][1]

ScriptInit ==
  /\ test \in register_layouts
  /\ command = "spike"
  /\ pc = "load" /\ s0 = 0 /\ s1 = Count
  /\ x = [r \in {"zero", "t0", "t1", "t2", "t3"} |-> 0]
  /\ tohost = 0

\* Spike, which is not modelled, passes or does not.
RunSpike ==
  /\ command = "spike"
  /\ command' \in {"oxyspike", "failed"}
  /\ UNCHANGED <<test, pc, s0, s1, x, tohost>>

LoadVector ==
  /\ command = "oxyspike" /\ pc = "load"
  /\ LET p == Pair(s0) IN
     x' = [x EXCEPT !["t0"] = p[1], !["t1"] = p[2], !["t3"] = Expected(test, p[1], p[2])]
  /\ pc' = "execute"
  /\ UNCHANGED <<test, command, s0, s1, tohost>>

Execute ==
  /\ pc = "execute"
  /\ x' = Executed(x, test.group.name, rd, Registers[test.layout][2], Registers[test.layout][3],
                   test.group.shift)
  /\ pc' = "compare"
  /\ UNCHANGED <<test, command, s0, s1, tohost>>

\* bne to fail; addi s0, addi s1, bnez s1.
AgainBefore(left) == left > 1
Again(left) == left > 0
Compare ==
  /\ pc = "compare"
  /\ \/ x[rd] # x["t3"] /\ pc' = "fail" /\ UNCHANGED <<s0, s1>>
     \/ /\ x[rd] = x["t3"]
        /\ s0' = s0 + 1 /\ s1' = s1 - 1
        /\ pc' = IF Again(s1') THEN "load" ELSE "exit"
  /\ UNCHANGED <<test, command, x, tohost>>

Exit ==
  /\ pc \in {"exit", "fail"}
  /\ tohost' = IF pc = "exit" THEN 1 ELSE 3
  /\ pc' = "spin"
  /\ UNCHANGED <<test, command, s0, s1, x>>

\* A nonzero return code, or a command that takes too long, raises; else the record is written.
Judge ==
  /\ command = "oxyspike" /\ pc = "spin"
  /\ command' = IF tohost = 1 THEN "passed" ELSE "failed"
  /\ UNCHANGED <<test, pc, s0, s1, x, tohost>>
TimeOut ==
  /\ command = "oxyspike" /\ pc # "spin"
  /\ command' = "failed" /\ pc' = "spin"
  /\ UNCHANGED <<test, s0, s1, x, tohost>>

ScriptNext == RunSpike \/ LoadVector \/ Execute \/ Compare \/ Exit \/ Judge \/ TimeOut
ScriptSpec == ScriptInit /\ [][ScriptNext]_scriptVars

-----------------------------------------------------------------------------
(* Properties *)

\* The Rust executors compute what the Python oracle does, for every instruction, also
\* where its registers overlap or are x0: the guest never reports a mismatch.
OxySpikeAgrees == pc # "fail" /\ tohost # 3

\* The script records success only after the guest has compared every vector.
EveryVectorIsCompared == command = "passed" => s0 = Count

\* A predecoded operation computes what the original executor does.
DecodedAgrees ==
  pc = "execute" /\ test.layout = "plain" =>
    \A op \in FastOps :
      execute_decoded(op, x["t0"], x["t1"]) = execute(op, x["t0"], x["t1"], 0)

\* An AMO on a word is that operation on words, although it is computed on registers.
Amo == INSTANCE WordValues WITH Word <- 2^WORD
AmosAreOnWords ==
  pc = "execute" /\ test.layout = "plain" => Amo!AmoIsOnWords(word(x["t0"]), word(x["t1"]))
=============================================================================
