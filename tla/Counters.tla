----------------------------- MODULE Counters ------------------------------
(***************************************************************************)
(* The cycle and instret counters of oxyspike: a step executes and then    *)
(* counts (oxyspike/src/lib.rs, step); CSR instructions read, write and    *)
(* inhibit the counters and open them to lower modes                       *)
(* (oxyspike/src/privileged.rs).                                           *)
(*                                                                         *)
(* written and completed are history: the last value software wrote to a   *)
(* counter, and the instructions since that it should have counted.        *)
(***************************************************************************)
EXTENDS Integers

CONSTANTS
  CounterSpan,      \* 2^64
  CounterWrites     \* the values software writes to a counter

USER == 0
SUPERVISOR == 1
MACHINE == 3
Privileges == {USER, SUPERVISOR, MACHINE}
Counters == {"cycle", "instret"}
Values == 0 .. CounterSpan - 1

ASSUME SpanAssumption == CounterSpan \in Nat \ {0} /\ CounterWrites \subseteq Values

VARIABLES
  phase,            \* where in a step the hart is
  count,            \* cycles and retired
  inhibited,        \* the step's reading of mcountinhibit
  counter_written,  \* the counters the instruction has written
  mcountinhibit, mcounteren, scounteren,
  privilege,
  written, completed

vars == <<phase, count, inhibited, counter_written, mcountinhibit, mcounteren, scounteren,
          privilege, written, completed>>
enables == <<mcounteren, scounteren>>

-----------------------------------------------------------------------------
(* Execution *)

Wrapped(value) == (value + 1) % CounterSpan

\* An instruction that executes and writes the counters in writes: those it does not
\* write should count it, but where they were inhibited when it began.
Executes(writes) ==
  /\ phase = "execute" /\ phase' = "count"
  /\ inhibited' = mcountinhibit
  /\ counter_written' = counter_written \cup writes
  /\ completed' = [k \in Counters |->
                     IF k \in writes THEN 0
                     ELSE IF k \in mcountinhibit THEN completed[k]
                     ELSE Wrapped(completed[k])]
ExecutesPlain == Executes({}) /\ UNCHANGED <<count, written>>

\* The user's counters may be read if every mode above enables them.
MayRead(k) ==
  privilege = MACHINE \/ (k \in mcounteren /\ (privilege = SUPERVISOR \/ k \in scounteren))
ReadCounter(k) ==
  MayRead(k) /\ UNCHANGED <<mcountinhibit, enables, privilege>> /\ ExecutesPlain

WriteCounter(k, value) ==
  /\ privilege = MACHINE
  /\ UNCHANGED <<mcountinhibit, enables, privilege>>
  /\ Executes({k})
  /\ count' = [count EXCEPT ![k] = value]
  /\ written' = [written EXCEPT ![k] = value]

WriteInhibit(inhibits) ==
  /\ privilege = MACHINE
  /\ mcountinhibit' = inhibits
  /\ ExecutesPlain /\ UNCHANGED <<enables, privilege>>

WriteEnable ==
  /\ \/ privilege = MACHINE /\ mcounteren' \in SUBSET Counters /\ UNCHANGED scounteren
     \/ privilege # USER /\ scounteren' \in SUBSET Counters /\ UNCHANGED mcounteren
  /\ UNCHANGED <<mcountinhibit, privilege>> /\ ExecutesPlain

\* Any other instruction; MRET and SRET may lower the privilege.
OtherInstruction ==
  /\ \E p \in Privileges : p <= privilege /\ privilege' = p
  /\ UNCHANGED <<mcountinhibit, enables>> /\ ExecutesPlain

\* An instruction that fails, as a denied read does, and an interrupt are not counted.
Trap ==
  /\ phase = "execute"
  /\ \E p \in Privileges : p >= privilege /\ privilege' = p
  /\ UNCHANGED <<phase, count, inhibited, counter_written, mcountinhibit, enables,
                 written, completed>>

-----------------------------------------------------------------------------
(* The end of a step *)

KeepWritten == counter_written
ClearWritten == {}
Count ==
  /\ phase = "count" /\ phase' = "execute"
  /\ count' = [k \in Counters |->
                 IF k \in inhibited \cup counter_written THEN count[k] ELSE Wrapped(count[k])]
  /\ counter_written' = ClearWritten
  /\ UNCHANGED <<inhibited, mcountinhibit, enables, privilege, written, completed>>

Init ==
  /\ phase = "execute"
  /\ count = [k \in Counters |-> 0]
  /\ inhibited = {} /\ counter_written = {} /\ mcountinhibit = {}
  /\ mcounteren = {} /\ scounteren = {}
  /\ privilege = MACHINE
  /\ written = [k \in Counters |-> 0] /\ completed = [k \in Counters |-> 0]

Next ==
  \/ \E k \in Counters : ReadCounter(k) \/ (\E value \in CounterWrites : WriteCounter(k, value))
  \/ \E inhibits \in SUBSET Counters : WriteInhibit(inhibits)
  \/ WriteEnable \/ OtherInstruction \/ Trap \/ Count

Spec == Init /\ [][Next]_vars

-----------------------------------------------------------------------------
(* Properties *)

\* Every variable has its type; the counters wrap.
TypeOK ==
  /\ phase \in {"execute", "count"}
  /\ count \in [Counters -> Values]
  /\ inhibited \subseteq Counters /\ counter_written \subseteq Counters
  /\ mcountinhibit \subseteq Counters
  /\ mcounteren \subseteq Counters /\ scounteren \subseteq Counters
  /\ privilege \in Privileges
  /\ written \in [Counters -> Values] /\ completed \in [Counters -> Values]

\* When an instruction executes, each counter is the value last written to it plus the
\* instructions completed since, without those it was inhibited for: the instruction
\* that writes a counter is not counted there, and inhibition starts with the next one.
Expected(k) == (written[k] + completed[k]) % CounterSpan
CountsInstructions ==
  phase = "execute" => \A k \in Counters : count[k] = Expected(k)

\* The inductive form: between execution and counting, a counter still owes the step
\* exactly if nothing suppresses it.
CountsOwed ==
  /\ phase = "execute" => counter_written = {}
  /\ \A k \in Counters :
       Expected(k) = IF phase = "execute" \/ k \in inhibited \cup counter_written
                     THEN count[k] ELSE Wrapped(count[k])
=============================================================================
