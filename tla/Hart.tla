-------------------------------- MODULE Hart --------------------------------
(***************************************************************************)
(* Interrupts, traps and the interrupt CSRs of one oxyspike hart           *)
(* (oxyspike/src/privileged.rs) over the CLINT of its Memory               *)
(* (oxyspike/src/memory.rs).                                               *)
(*                                                                         *)
(* A bit mask of the code is the set of its bit numbers: & is \cap, | is   *)
(* \cup, & ! is \ and << n adds n to every member.  The actions are the    *)
(* calls a host makes of Cpu, in any order: one instruction of step(),     *)
(* the take_trap() that follows a failed step(), poll_interrupt(),         *)
(* interrupt() and Memory::advance_time().                                 *)
(*                                                                         *)
(* Left out: the cause and tval registers (only the guest reads them), the *)
(* mstatus bits of the MMU and of floating point (FS, SUM, MXR, TVM), the  *)
(* LR/SC reservation and the counters.  Addresses are numbered by 4-byte   *)
(* slots, so that clearing the low bits of a vector or an epc is implicit. *)
(***************************************************************************)
EXTENDS Integers

CONSTANTS
  PcSlots,      \* pc and the epc and tvec bases are in 0 .. PcSlots-1
  Unit, Units,  \* a timer register is Units digits of base Unit (8 bytes)
  TimeSpan,     \* 2^64 in the code: Unit^Units
  Codes,        \* the exception codes instructions raise
  Writes,       \* register name -> the operands guests write to it
  MsipStores,   \* the values guests store to msip
  ClintStores   \* the <<offset, size>> of the stores to a timer register

USER == 0
SUPERVISOR == 1
MACHINE == 3
Privileges == {USER, SUPERVISOR, MACHINE}

PC == 0 .. PcSlots - 1
Time == 0 .. TimeSpan - 1

\* Interrupt numbers, highest priority first.
MEI == 11
MSI == 3
MTI == 7
SEI == 9
SSI == 1
STI == 5
Interrupts == {MEI, MSI, MTI, SEI, SSI, STI}
Rank == [n \in Interrupts |->
           CASE n = MEI -> 1 [] n = MSI -> 2 [] n = MTI -> 3
             [] n = SEI -> 4 [] n = SSI -> 5 [] n = STI -> 6]
Delegable == {SSI, STI, SEI}      \* 0x222
Wired == {MSI, MTI}               \* 0x88, follow the CLINT

\* Bits of mstatus.
SIE == 1
MIE == 3
SPIE == 5
MPIE == 7
SPP == 8
MPP == {11, 12}
MPRV == 17
TW == 21
TSR == 22
STATUS_WRITE == {SIE, MIE, SPIE, MPIE, SPP, MPRV, TW, TSR} \cup MPP
WIDE_SSTATUS_MASK == {SIE, MIE, SPIE, SPP}
SSTATUS_MASK == {SIE, SPIE, SPP}

Tvecs == [base : PC, mode : 0 .. 3]
SetRegs == {"mstatus", "sstatus", "mie", "sie", "mip", "sip", "mideleg", "medeleg"}
EpcRegs == {"mepc", "sepc"}
TvecRegs == {"mtvec", "stvec"}
Regs == SetRegs \cup EpcRegs \cup TvecRegs
SupervisorRegs == {"sstatus", "sie", "sip", "sepc", "stvec"}

ASSUME ConstantsAssumption ==
  /\ PcSlots \in Nat \ {0}
  /\ TimeSpan \in Nat \ {0}
  /\ Codes \subseteq 0 .. 15
  /\ MsipStores \subseteq {0, 1}

ASSUME WritesAssumption ==
  /\ \A reg \in SetRegs : Writes[reg] \subseteq SUBSET (0 .. 63)
  /\ \A reg \in EpcRegs : Writes[reg] \subseteq PC
  /\ \A reg \in TvecRegs : Writes[reg] \subseteq Tvecs

VARIABLES
  mtime, mtimecmp, msip,   \* Memory's CLINT registers
  interrupt_dirty,         \* Memory: something the check reads has changed
  privilege,
  csrs,                    \* the interrupt and trap CSRs, by name
  pc

clint == <<mtime, mtimecmp, msip>>
vars == <<mtime, mtimecmp, msip, interrupt_dirty, privilege, csrs, pc>>

Csrs == [mstatus : SUBSET STATUS_WRITE,
         mie : SUBSET Interrupts,
         mip : SUBSET (Delegable \cup Wired),
         mideleg : SUBSET Delegable,
         medeleg : SUBSET (0 .. 15),
         mepc : PC, sepc : PC,
         mtvec : Tvecs, stvec : Tvecs]

-----------------------------------------------------------------------------
(* Operators on the CSR file *)

Shift(bits, n) == {b + n : b \in bits}

\* The encoding of a privilege, and the MPP and SPP fields decoded.
PrivilegeBits == [p \in Privileges |->
                    CASE p = USER -> {} [] p = SUPERVISOR -> {0} [] p = MACHINE -> {0, 1}]
MppOf(s) == IF 12 \in s THEN MACHINE ELSE IF 11 \in s THEN SUPERVISOR ELSE USER
SppOf(s) == IF SPP \in s THEN SUPERVISOR ELSE USER

csr_read(reg) ==
  CASE reg = "sstatus" -> csrs.mstatus \cap SSTATUS_MASK
    [] reg = "sie" -> csrs.mie \cap csrs.mideleg
    [] reg = "sip" -> csrs.mip \cap csrs.mideleg
    [] OTHER -> csrs[reg]

\* MPP = 2 is no privilege: the field reads 0 instead.
LegalStatus(s) == IF 12 \in s /\ 11 \notin s THEN s \ MPP ELSE s
StatusWritten(s, v) == LegalStatus((s \ STATUS_WRITE) \cup (v \cap STATUS_WRITE))
TvecWritten(v) == [base |-> v.base, mode |-> IF v.mode = 1 THEN 1 ELSE 0]

\* The CSR file after csr_write(reg, v).
csr_write(reg, v) ==
  CASE reg = "mstatus" -> [csrs EXCEPT !.mstatus = StatusWritten(@, v)]
    [] reg = "sstatus" ->
         [csrs EXCEPT !.mstatus =
            StatusWritten(@, (@ \ SSTATUS_MASK) \cup (v \cap SSTATUS_MASK))]
    [] reg = "mie" -> [csrs EXCEPT !.mie = v \cap Interrupts]
    [] reg = "sie" ->
         [csrs EXCEPT !.mie = (@ \ csrs.mideleg) \cup (v \cap csrs.mideleg \cap Delegable)]
    [] reg = "mip" -> [csrs EXCEPT !.mip = (@ \ Delegable) \cup (v \cap Delegable)]
    [] reg = "sip" -> [csrs EXCEPT !.mip = (@ \ {SSI}) \cup (v \cap csrs.mideleg \cap {SSI})]
    [] reg = "mideleg" -> [csrs EXCEPT !.mideleg = v \cap Delegable]
    [] reg = "medeleg" -> [csrs EXCEPT !.medeleg = v \cap ((0 .. 9) \cup {12, 13, 15})]
    [] reg = "mtvec" -> [csrs EXCEPT !.mtvec = TvecWritten(v)]
    [] reg = "stvec" -> [csrs EXCEPT !.stvec = TvecWritten(v)]
    [] reg = "mepc" -> [csrs EXCEPT !.mepc = v]
    [] reg = "sepc" -> [csrs EXCEPT !.sepc = v]

\* Where a trap of a kind and code enters: only interrupts are vectored.
Entry(tvec, kind, code) ==
  (tvec.base + IF kind = "interrupt" /\ tvec.mode = 1 THEN code ELSE 0) % PcSlots

-----------------------------------------------------------------------------
(* Traps and interrupts *)

\* Whether a trap is handled in supervisor mode.
DelegatedFromAnyMode(c, kind, code) ==
  code \in IF kind = "interrupt" THEN c.mideleg ELSE c.medeleg
Delegated(c, kind, code) ==
  /\ privilege < MACHINE
  /\ code \in IF kind = "interrupt" THEN c.mideleg ELSE c.medeleg

\* mstatus after entry to a mode: its interrupt enable moves to the previous
\* enable and is cleared, the privilege moves to the previous privilege.
SieKeptEntry(s) ==
  (s \ {SPIE, SPP}) \cup Shift(s \cap {SIE}, 4) \cup Shift(PrivilegeBits[privilege], 8)
SupervisorEntry(s) ==
  (s \ {SIE, SPIE, SPP}) \cup Shift(s \cap {SIE}, 4) \cup Shift(PrivilegeBits[privilege], 8)
StaleMpieEntry(s) ==
  (s \ ({MIE} \cup MPP)) \cup Shift(s \cap {MIE}, 4) \cup Shift(PrivilegeBits[privilege], 11)
MachineEntry(s) ==
  (s \ ({MIE, MPIE} \cup MPP)) \cup Shift(s \cap {MIE}, 4)
    \cup Shift(PrivilegeBits[privilege], 11)

\* take_trap, from the CSR file c.
take_trap(c, kind, code) ==
  /\ interrupt_dirty' = TRUE
  /\ \/ /\ Delegated(c, kind, code)
        /\ csrs' = [c EXCEPT
             !.sepc = pc,
             !.mstatus = SupervisorEntry(@)]
        /\ privilege' = SUPERVISOR
        /\ pc' = Entry(c.stvec, kind, code)
     \/ /\ ~ Delegated(c, kind, code)
        /\ csrs' = [c EXCEPT
             !.mepc = pc,
             !.mstatus = MachineEntry(@)]
        /\ privilege' = MACHINE
        /\ pc' = Entry(c.mtvec, kind, code)

\* The mip bits that follow the CLINT, and mip as interrupt() refreshes it.
LevelsAfter == (IF msip = 1 THEN {MSI} ELSE {}) \cup (IF mtime > mtimecmp THEN {MTI} ELSE {})
Levels == (IF msip = 1 THEN {MSI} ELSE {}) \cup (IF mtime >= mtimecmp THEN {MTI} ELSE {})
Refreshed == [csrs EXCEPT !.mip = (@ \ Wired) \cup Levels]

\* The interrupts interrupt() may take with the CSR file c.
EnabledAt(c, n) ==
  IF n \in c.mideleg
  THEN privilege = USER \/ (privilege = SUPERVISOR /\ SIE \in c.mstatus)
  ELSE privilege < MACHINE \/ MIE \in c.mstatus
Eligible(c) == {n \in c.mip \cap c.mie : EnabledAt(c, n)}

TakeInterrupt(n) ==
  /\ n \in Eligible(Refreshed)
  /\ \A m \in Eligible(Refreshed) : Rank[n] <= Rank[m]
  /\ take_trap(Refreshed, "interrupt", n)

\* interrupt(), called with the dirty flag at dirty.
CheckInterrupt(dirty) ==
  /\ UNCHANGED clint
  /\ \/ /\ Eligible(Refreshed) = {}
        /\ csrs' = Refreshed
        /\ interrupt_dirty' = dirty
        /\ UNCHANGED <<privilege, pc>>
     \/ \E n \in Interrupts : TakeInterrupt(n)

interrupt == CheckInterrupt(interrupt_dirty)

poll_interrupt ==
  \/ ~ interrupt_dirty /\ UNCHANGED vars
  \/ interrupt_dirty /\ CheckInterrupt(FALSE)

-----------------------------------------------------------------------------
(* Instructions *)

NextPc == (pc + 1) % PcSlots

\* CSRRW, CSRRS and CSRRC.  A CSR the privilege does not reach is an illegal
\* instruction: an Exception.
Operand(reg, op, v) ==
  CASE op = "write" -> v
    [] op = "set" -> csr_read(reg) \cup v
    [] op = "clear" -> csr_read(reg) \ v
CsrInstruction(reg, op, v) ==
  /\ privilege = MACHINE \/ (privilege = SUPERVISOR /\ reg \in SupervisorRegs)
  /\ op = "write" \/ reg \in SetRegs
  /\ interrupt_dirty' = TRUE
  /\ csrs' = csr_write(reg, Operand(reg, op, v))
  /\ pc' = NextPc
  /\ UNCHANGED <<mtime, mtimecmp, msip, privilege>>

MRET_NotDirty ==
  /\ privilege = MACHINE
  /\ privilege' = MppOf(csrs.mstatus)
  /\ csrs' = [csrs EXCEPT !.mstatus =
       (@ \ ({MIE, MPIE} \cup MPP \cup IF MppOf(@) = MACHINE THEN {} ELSE {MPRV}))
         \cup Shift(@ \cap {MPIE}, -4) \cup {MPIE}]
  /\ pc' = csrs.mepc
  /\ UNCHANGED <<mtime, mtimecmp, msip, interrupt_dirty>>
MRET ==
  /\ privilege = MACHINE
  /\ interrupt_dirty' = TRUE
  /\ privilege' = MppOf(csrs.mstatus)
  /\ csrs' = [csrs EXCEPT !.mstatus =
       (@ \ ({MIE, MPIE} \cup MPP \cup IF MppOf(@) = MACHINE THEN {} ELSE {MPRV}))
         \cup Shift(@ \cap {MPIE}, -4) \cup {MPIE}]
  /\ pc' = csrs.mepc
  /\ UNCHANGED clint

SRET ==
  /\ privilege = MACHINE \/ (privilege = SUPERVISOR /\ TSR \notin csrs.mstatus)
  /\ interrupt_dirty' = TRUE
  /\ privilege' = SppOf(csrs.mstatus)
  /\ csrs' = [csrs EXCEPT !.mstatus =
       (@ \ {SIE, SPIE, SPP, MPRV}) \cup Shift(@ \cap {SPIE}, -4) \cup {SPIE}]
  /\ pc' = csrs.sepc
  /\ UNCHANGED clint

WFI ==
  /\ privilege = MACHINE \/ (privilege = SUPERVISOR /\ TW \notin csrs.mstatus)
  /\ interrupt_dirty' = TRUE
  /\ pc' = NextPc
  /\ UNCHANGED <<mtime, mtimecmp, msip, privilege, csrs>>

\* A store to the CLINT.  A store to a timer register replaces size digits
\* from offset on, wrapping inside the register; msip keeps bit 0; the upper
\* msip bytes and the registers of absent harts ignore the store.
Digit(t, k) == (t \div Unit^k) % Unit
Spliced(reg, offset, size, v) ==
  {t \in Time : \A k \in 0 .. Units - 1 :
     Digit(t, k) = LET n == (k - offset) % Units
                   IN IF n < size THEN Digit(v, n) ELSE Digit(reg, k)}

StoreTimerWholeDirty(offset, size, v) ==
  /\ \/ mtimecmp' \in Spliced(mtimecmp, offset, size, v) /\ UNCHANGED mtime
     \/ mtime' \in Spliced(mtime, offset, size, v) /\ UNCHANGED mtimecmp
  /\ interrupt_dirty' = (interrupt_dirty \/ size = Units)
  /\ pc' = NextPc
  /\ UNCHANGED <<msip, privilege, csrs>>
StoreTimer(offset, size, v) ==
  /\ \/ mtimecmp' \in Spliced(mtimecmp, offset, size, v) /\ UNCHANGED mtime
     \/ mtime' \in Spliced(mtime, offset, size, v) /\ UNCHANGED mtimecmp
  /\ interrupt_dirty' = TRUE
  /\ pc' = NextPc
  /\ UNCHANGED <<msip, privilege, csrs>>
StoreMsip(v) ==
  /\ msip' = v
  /\ interrupt_dirty' = TRUE
  /\ pc' = NextPc
  /\ UNCHANGED <<mtime, mtimecmp, privilege, csrs>>

\* Any other instruction: it ends anywhere and changes nothing modelled here.
Ordinary(target) ==
  /\ pc' = target
  /\ UNCHANGED <<mtime, mtimecmp, msip, interrupt_dirty, privilege, csrs>>

\* step() fails and the host passes the trap to take_trap().
EnvironmentCalls == {8, 9, 11}
Exception(code) ==
  /\ code \in EnvironmentCalls => code = 8 + privilege
  /\ take_trap(csrs, "exception", code)
  /\ UNCHANGED clint

advance_time(ticks) ==
  /\ mtime' = (mtime + ticks) % TimeSpan
  /\ interrupt_dirty' = TRUE
  /\ UNCHANGED <<mtimecmp, msip, privilege, csrs, pc>>

-----------------------------------------------------------------------------

\* Memory::new and Cpu::new: mtime = mtimecmp = 0, so the timer is pending.
Init ==
  /\ mtime = 0
  /\ mtimecmp = 0
  /\ msip = 0
  /\ interrupt_dirty = TRUE
  /\ privilege = MACHINE
  /\ pc = 0
  /\ csrs = [mstatus |-> {}, mie |-> {}, mip |-> {MTI}, mideleg |-> {}, medeleg |-> {},
             mepc |-> 0, sepc |-> 0,
             mtvec |-> [base |-> 0, mode |-> 0], stvec |-> [base |-> 0, mode |-> 0]]

Instruction ==
  \/ \E reg \in Regs, op \in {"write", "set", "clear"} :
       \E v \in Writes[reg] : CsrInstruction(reg, op, v)
  \/ MRET
  \/ SRET
  \/ WFI
  \/ \E range \in ClintStores, v \in Time : StoreTimer(range[1], range[2], v)
  \/ \E v \in MsipStores : StoreMsip(v)
  \/ \E target \in PC : Ordinary(target)

Next ==
  \/ Instruction
  \/ \E code \in Codes : Exception(code)
  \/ interrupt
  \/ poll_interrupt
  \/ advance_time(1)

Spec == Init /\ [][Next]_vars

-----------------------------------------------------------------------------
(* Properties *)

\* Every variable has its type; in particular the legalising writes keep every
\* CSR in its WARL range and MPP never holds the reserved privilege.
TypeOK ==
  /\ mtime \in Time /\ mtimecmp \in Time /\ msip \in {0, 1}
  /\ interrupt_dirty \in BOOLEAN
  /\ privilege \in Privileges
  /\ csrs \in Csrs
  /\ 12 \in csrs.mstatus => 11 \in csrs.mstatus
  /\ pc \in PC

\* While the dirty flag is down an eager check would change nothing: mip already
\* shows the CLINT levels and no enabled interrupt is pending.  This is what lets
\* poll_interrupt return early (tests/privileged.rs compares the two at random).
CleanPollIsEager ==
  ~ interrupt_dirty => Refreshed = csrs /\ Eligible(csrs) = {}

\* A trap saves what its return restores: after take_trap the return instruction
\* of the mode entered would go back to the privilege, the pc and the interrupt
\* enable of the moment of the trap.
Saved ==
  IF privilege = MACHINE
  THEN <<MppOf(csrs.mstatus), csrs.mepc, MPIE \in csrs.mstatus, MIE \in csrs.mstatus>>
  ELSE <<SppOf(csrs.mstatus), csrs.sepc, SPIE \in csrs.mstatus, SIE \in csrs.mstatus>>
TrapStep == (\E code \in Codes : Exception(code)) \/ (\E n \in Interrupts : TakeInterrupt(n))
TrapSavesContext ==
  [][TrapStep =>
       Saved' = <<privilege, pc,
                  (IF privilege' = MACHINE THEN MIE ELSE SIE) \in csrs.mstatus, FALSE>>]_vars

\* No trap lowers the privilege, whatever is delegated: a trap in machine mode
\* is handled there.
TrapsNeverLowerPrivilege == [][TrapStep => privilege' >= privilege]_vars

\* An interrupt masks the interrupts of the mode it enters: what is still
\* eligible after it can only go from supervisor to machine mode.
InterruptNestsUpward ==
  [][(\E n \in Interrupts : TakeInterrupt(n)) =>
       (Eligible(csrs) # {} => privilege = SUPERVISOR /\ Eligible(csrs) \cap csrs.mideleg = {})']_vars

\* Software below machine mode cannot change what machine mode set up: the
\* enables, delegations and vectors, its saved context, the controls TW and TSR,
\* nor raise MPRV.  sstatus, sie and sip reach only what is delegated, except
\* that a write to sip clears mip.SSI even when it is not delegated.
MachineState ==
  <<csrs.mie \ csrs.mideleg, csrs.mideleg, csrs.medeleg, csrs.mtvec, csrs.mepc,
    csrs.mstatus \cap ({MIE, MPIE, TW, TSR} \cup MPP), csrs.mip \ (csrs.mideleg \cup Wired \cup {SSI})>>
SupervisorConfined ==
  [][privilege < MACHINE /\ privilege' < MACHINE =>
       /\ MachineState' = MachineState
       /\ MPRV \in csrs'.mstatus => MPRV \in csrs.mstatus]_vars
=============================================================================
