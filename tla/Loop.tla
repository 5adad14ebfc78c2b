-------------------------------- MODULE Loop --------------------------------
(***************************************************************************)
(* The hart driven by the platform loop (oxyspike/src/main.rs, run): a     *)
(* turn advances time at a tick, polls for an interrupt, and runs one      *)
(* instruction unless the poll took one.  The console, which the turn ends *)
(* with, reads and writes nothing of the hart and is the module Htif.      *)
(***************************************************************************)
EXTENDS Hart

CONSTANT ATTEMPTS_PER_TICK    \* 100

ASSUME TickAssumption == ATTEMPTS_PER_TICK \in Nat \ {0}

VARIABLES
  phase,        \* what the turn does next
  until_tick

loop == <<vars, phase, until_tick>>

LateReset == IF until_tick = 0 THEN ATTEMPTS_PER_TICK ELSE until_tick - 1
TurnsLeft == IF until_tick = 1 THEN ATTEMPTS_PER_TICK ELSE until_tick - 1
Tick ==
  /\ phase = "tick" /\ phase' = "poll"
  /\ until_tick' = TurnsLeft
  /\ IF until_tick = 1 THEN advance_time(1) ELSE UNCHANGED vars

\* An interrupt takes the place of the instruction.
AfterPoll == IF interrupt_dirty /\ Eligible(Refreshed) # {} THEN "tick" ELSE "step"
Poll ==
  /\ phase = "poll" /\ phase' = AfterPoll
  /\ poll_interrupt
  /\ UNCHANGED until_tick

\* A failed step traps, unless the guest has no vector for it yet.
NoVector == csrs.mtvec = [base |-> 0, mode |-> 0]
Step ==
  /\ phase = "step"
  /\ \/ Instruction /\ phase' = "tick"
     \/ ~ NoVector /\ (\E code \in Codes : Exception(code)) /\ phase' = "tick"
     \/ NoVector /\ Codes # {} /\ UNCHANGED vars /\ phase' = "halted"
  /\ UNCHANGED until_tick

LoopInit == Init /\ phase = "tick" /\ until_tick = ATTEMPTS_PER_TICK
LoopNext == Tick \/ Poll \/ Step

\* The operating system runs the simulator.
LoopSpec == LoopInit /\ [][LoopNext]_loop /\ WF_loop(LoopNext)

-----------------------------------------------------------------------------
(* Properties *)

\* Every variable has its type.
LoopTypeOK ==
  /\ TypeOK
  /\ phase \in {"tick", "poll", "step", "halted"}
  /\ until_tick \in 1 .. ATTEMPTS_PER_TICK

\* Interrupts are precise: when an instruction runs, no interrupt is enabled and
\* pending that it should have waited for, counting the timer and the software
\* interrupt as the CLINT has them now, and the mip it can read shows both.
PreciseInterrupts ==
  phase = "step" => Eligible(Refreshed) = {} /\ csrs = Refreshed

\* An armed timer fires: once software stores no more to the timer registers, an
\* enabled timer interrupt does not stay enabled for ever; it, or another for
\* machine mode, is taken, or software disables it.
Armed == MTI \in csrs.mie /\ EnabledAt(csrs, MTI)
TimerStore == mtimecmp' # mtimecmp \/ (mtime' # mtime /\ phase = "step")
TimerFires ==
  <>[][~ TimerStore]_loop => (Armed ~> ~ Armed \/ phase = "halted")
=============================================================================
