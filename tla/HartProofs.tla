----------------------------- MODULE HartProofs -----------------------------
(***************************************************************************)
(* What TLAPS proves of Hart for every address range, timer width, operand *)
(* set and exception set; and of the platform loop that drives it, for     *)
(* every period of the tick and every guest.                               *)
(***************************************************************************)
EXTENDS Loop, TLAPS

\* The part of TypeOK that speaks of a CSR file.
TypedFile(c) == c \in Csrs /\ (12 \in c.mstatus => 11 \in c.mstatus)

-----------------------------------------------------------------------------
(* Type correctness *)

\* A remainder is an address.
LEMMA ModPc ==
  ASSUME NEW n \in Nat
  PROVE  n % PcSlots \in PC
  BY ConstantsAssumption DEF PC

\* A trap entry's address is an address.
LEMMA EntryTyped ==
  ASSUME NEW tvec \in Tvecs, NEW kind, NEW code \in Nat
  PROVE  Entry(tvec, kind, code) \in PC
<1>1. tvec.base \in Nat
  BY DEF Tvecs, PC
<1>2. tvec.base + (IF kind = "interrupt" /\ tvec.mode = 1 THEN code ELSE 0) \in Nat
  BY <1>1
<1>3. QED
  BY <1>2, ModPc DEF Entry

\* Moving the enable and privilege fields keeps mstatus within its bits and MPP
\* within the privileges.
LEMMA EntryStatusTyped ==
  ASSUME NEW s \in SUBSET STATUS_WRITE, 12 \in s => 11 \in s, privilege \in Privileges
  PROVE  /\ MachineEntry(s) \in SUBSET STATUS_WRITE
         /\ 12 \in MachineEntry(s) => 11 \in MachineEntry(s)
         /\ privilege < MACHINE => /\ SupervisorEntry(s) \in SUBSET STATUS_WRITE
                                   /\ 12 \in SupervisorEntry(s) => 11 \in SupervisorEntry(s)
<1> USE DEF STATUS_WRITE, MPP, SIE, MIE, SPIE, MPIE, SPP, MPRV, TW, TSR
<1> DEFINE ie == Shift(s \cap {MIE}, 4)
           se == Shift(s \cap {SIE}, 4)
           up == Shift(PrivilegeBits[privilege], 11)
           low == Shift(PrivilegeBits[privilege], 8)
<1>1. PrivilegeBits[privilege] =
        IF privilege = MACHINE THEN {0, 1} ELSE IF privilege = SUPERVISOR THEN {0} ELSE {}
  BY DEF PrivilegeBits, Privileges, USER, SUPERVISOR, MACHINE
<1>2. ie \subseteq {MPIE} /\ se \subseteq {SPIE}
  BY DEF Shift
<1>3. /\ up \subseteq MPP /\ (12 \in up => 11 \in up)
      /\ privilege < MACHINE => low \subseteq {SPP}
  <2>1. CASE privilege = MACHINE
    <3>1. PrivilegeBits[privilege] = {0, 1} /\ ~ (privilege < MACHINE)
      BY <1>1, <2>1 DEF MACHINE
    <3>2. up = {11, 12}
      BY <3>1 DEF Shift
    <3>3. QED
      BY <3>1, <3>2
  <2>2. CASE privilege = SUPERVISOR
    <3>1. PrivilegeBits[privilege] = {0}
      BY <1>1, <2>2 DEF SUPERVISOR, MACHINE
    <3>2. up = {11} /\ low = {SPP}
      BY <3>1 DEF Shift
    <3>3. QED
      BY <3>2
  <2>3. CASE privilege = USER
    <3>1. PrivilegeBits[privilege] = {}
      BY <1>1, <2>3 DEF USER, SUPERVISOR, MACHINE
    <3>2. up = {} /\ low = {}
      BY <3>1 DEF Shift
    <3>3. QED
      BY <3>2
  <2>4. QED
    BY <2>1, <2>2, <2>3 DEF Privileges
<1>4. /\ MachineEntry(s) = (s \ ({MIE, MPIE} \cup MPP)) \cup ie \cup up
      /\ SupervisorEntry(s) = (s \ {SIE, SPIE, SPP}) \cup se \cup low
  BY DEF MachineEntry, SupervisorEntry
<1> HIDE DEF ie, se, up, low
<1>5. MachineEntry(s) \in SUBSET STATUS_WRITE
      /\ (12 \in MachineEntry(s) => 11 \in MachineEntry(s))
  BY <1>2, <1>3, <1>4
<1>6. privilege < MACHINE => /\ SupervisorEntry(s) \in SUBSET STATUS_WRITE
                             /\ 12 \in SupervisorEntry(s) => 11 \in SupervisorEntry(s)
  <2> SUFFICES ASSUME privilege < MACHINE
               PROVE  /\ SupervisorEntry(s) \in SUBSET STATUS_WRITE
                      /\ 12 \in SupervisorEntry(s) => 11 \in SupervisorEntry(s)
    OBVIOUS
  <2>1. se \subseteq {SPIE} /\ low \subseteq {SPP}
    BY <1>2, <1>3
  <2>2. QED
    BY <2>1, <1>4
<1>7. QED
  BY <1>5, <1>6

\* take_trap keeps every type.
LEMMA TrapTyped ==
  ASSUME TypeOK, NEW c, TypedFile(c), NEW kind, NEW code \in Nat,
         take_trap(c, kind, code), UNCHANGED clint
  PROVE  TypeOK'
<1>1. c.mstatus \in SUBSET STATUS_WRITE /\ c.stvec \in Tvecs /\ c.mtvec \in Tvecs
  BY DEF TypedFile, Csrs
<1>2. privilege \in Privileges /\ pc \in PC
  BY DEF TypeOK
<1>3. CASE Delegated(c, kind, code)
  <2>1. /\ csrs' = [c EXCEPT !.sepc = pc, !.mstatus = SupervisorEntry(c.mstatus)]
        /\ privilege' = SUPERVISOR /\ pc' = Entry(c.stvec, kind, code)
        /\ interrupt_dirty' = TRUE
    BY <1>3 DEF take_trap
  <2>2. /\ SupervisorEntry(c.mstatus) \in SUBSET STATUS_WRITE
        /\ 12 \in SupervisorEntry(c.mstatus) => 11 \in SupervisorEntry(c.mstatus)
    BY <1>1, <1>2, <1>3, EntryStatusTyped DEF TypedFile, Delegated
  <2>3. csrs' \in Csrs /\ csrs'.mstatus = SupervisorEntry(c.mstatus)
    BY <1>1, <1>2, <2>1, <2>2 DEF TypedFile, Csrs
  <2>4. pc' \in PC
    BY <1>1, <2>1, EntryTyped
  <2>5. QED
    BY <2>1, <2>2, <2>3, <2>4 DEF TypeOK, clint, Privileges
<1>4. CASE ~ Delegated(c, kind, code)
  <2>1. /\ csrs' = [c EXCEPT !.mepc = pc, !.mstatus = MachineEntry(c.mstatus)]
        /\ privilege' = MACHINE /\ pc' = Entry(c.mtvec, kind, code)
        /\ interrupt_dirty' = TRUE
    BY <1>4 DEF take_trap
  <2>2. /\ MachineEntry(c.mstatus) \in SUBSET STATUS_WRITE
        /\ 12 \in MachineEntry(c.mstatus) => 11 \in MachineEntry(c.mstatus)
    BY <1>1, <1>2, EntryStatusTyped DEF TypedFile
  <2>3. csrs' \in Csrs /\ csrs'.mstatus = MachineEntry(c.mstatus)
    BY <1>1, <1>2, <2>1, <2>2 DEF TypedFile, Csrs
  <2>4. pc' \in PC
    BY <1>1, <2>1, EntryTyped
  <2>5. QED
    BY <2>1, <2>2, <2>3, <2>4 DEF TypeOK, clint, Privileges
<1>5. QED
  BY <1>3, <1>4

\* Refreshing mip from the CLINT keeps the CSR file typed.
LEMMA RefreshedTyped ==
  ASSUME TypeOK
  PROVE  TypedFile(Refreshed)
  BY DEF TypeOK, TypedFile, Refreshed, Levels, Csrs, Wired

\* csr_write legalises: whatever the operand, the CSR file stays typed.
LEMMA WriteTyped ==
  ASSUME TypeOK, NEW reg \in Regs, NEW v,
         reg \in EpcRegs => v \in PC, reg \in TvecRegs => v \in Tvecs
  PROVE  TypedFile(csr_write(reg, v))
<1>1. TypedFile(csrs)
  BY DEF TypeOK, TypedFile
<1>2. ASSUME NEW w
      PROVE  /\ StatusWritten(csrs.mstatus, w) \in SUBSET STATUS_WRITE
             /\ 12 \in StatusWritten(csrs.mstatus, w) => 11 \in StatusWritten(csrs.mstatus, w)
  BY <1>1 DEF TypedFile, Csrs, StatusWritten, LegalStatus, MPP
<1>3. CASE reg = "mstatus"
  BY <1>1, <1>2, <1>3 DEF csr_write, TypedFile, Csrs
<1>4. CASE reg = "sstatus"
  BY <1>1, <1>2, <1>4 DEF csr_write, TypedFile, Csrs
<1>5. CASE reg = "mie"
  BY <1>1, <1>5 DEF csr_write, TypedFile, Csrs
<1>6. CASE reg = "sie"
  BY <1>1, <1>6 DEF csr_write, TypedFile, Csrs, Delegable, Interrupts
<1>7. CASE reg = "mip"
  BY <1>1, <1>7 DEF csr_write, TypedFile, Csrs
<1>8. CASE reg = "sip"
  BY <1>1, <1>8 DEF csr_write, TypedFile, Csrs, Delegable
<1>9. CASE reg = "mideleg"
  BY <1>1, <1>9 DEF csr_write, TypedFile, Csrs
<1>10. CASE reg = "medeleg"
  BY <1>1, <1>10 DEF csr_write, TypedFile, Csrs
<1>11. CASE reg \in TvecRegs
  <2>1. TvecWritten(v) \in Tvecs
    BY <1>11 DEF TvecWritten, Tvecs
  <2>2. QED
    BY <1>1, <1>11, <2>1 DEF csr_write, TypedFile, Csrs, TvecRegs
<1>12. CASE reg \in EpcRegs
  BY <1>1, <1>12 DEF csr_write, TypedFile, Csrs, EpcRegs
<1>13. QED
  BY <1>3, <1>4, <1>5, <1>6, <1>7, <1>8, <1>9, <1>10, <1>11, <1>12 DEF Regs, SetRegs

\* Every step keeps the types.
LEMMA StepTyped ==
  ASSUME TypeOK, Next
  PROVE  TypeOK'
<1>1. TypedFile(csrs)
  BY DEF TypeOK, TypedFile
<1>2. NextPc \in PC
  BY ModPc DEF NextPc, TypeOK, PC
<1>3. ASSUME NEW dirty \in BOOLEAN, CheckInterrupt(dirty)
      PROVE  TypeOK'
  <2>1. CASE \E n \in Interrupts : TakeInterrupt(n)
    <3>1. PICK n \in Interrupts : take_trap(Refreshed, "interrupt", n)
      BY <2>1 DEF TakeInterrupt
    <3>2. n \in Nat
      BY DEF Interrupts, MEI, MSI, MTI, SEI, SSI, STI
    <3>3. QED
      BY <1>3, <3>1, <3>2, RefreshedTyped, TrapTyped DEF CheckInterrupt
  <2>2. CASE csrs' = Refreshed /\ interrupt_dirty' = dirty /\ UNCHANGED <<privilege, pc>>
    BY <1>3, <2>2, RefreshedTyped DEF CheckInterrupt, TypedFile, TypeOK, clint
  <2>3. QED
    BY <1>3, <2>1, <2>2 DEF CheckInterrupt
<1>4. ASSUME NEW reg \in Regs, NEW op \in {"write", "set", "clear"}, NEW v \in Writes[reg],
             CsrInstruction(reg, op, v)
      PROVE  TypeOK'
  <2>1. /\ reg \in EpcRegs => Operand(reg, op, v) \in PC
        /\ reg \in TvecRegs => Operand(reg, op, v) \in Tvecs
    BY <1>4, WritesAssumption DEF Operand, CsrInstruction, SetRegs, EpcRegs, TvecRegs
  <2>2. TypedFile(csrs')
    BY <1>4, <2>1, WriteTyped DEF CsrInstruction
  <2>3. QED
    BY <1>2, <1>4, <2>2 DEF CsrInstruction, TypedFile, TypeOK
<1>5. CASE MRET
  <2>1. privilege' \in Privileges
    BY <1>5 DEF MRET, MppOf, Privileges
  <2>2. TypedFile(csrs')
    BY <1>1, <1>5 DEF MRET, TypedFile, Csrs, STATUS_WRITE, Shift,
         SIE, MIE, SPIE, MPIE, SPP, MPP, MPRV, TW, TSR
  <2>3. pc' \in PC
    BY <1>1, <1>5 DEF MRET, TypedFile, Csrs
  <2>4. QED
    BY <1>5, <2>1, <2>2, <2>3 DEF MRET, TypedFile, TypeOK, clint
<1>6. CASE SRET
  <2>1. privilege' \in Privileges
    BY <1>6 DEF SRET, SppOf, Privileges
  <2>2. TypedFile(csrs')
    BY <1>1, <1>6 DEF SRET, TypedFile, Csrs, STATUS_WRITE, Shift,
         SIE, MIE, SPIE, MPIE, SPP, MPP, MPRV, TW, TSR
  <2>3. pc' \in PC
    BY <1>1, <1>6 DEF SRET, TypedFile, Csrs
  <2>4. QED
    BY <1>6, <2>1, <2>2, <2>3 DEF SRET, TypedFile, TypeOK, clint
<1>7. CASE WFI
  BY <1>2, <1>7 DEF WFI, TypeOK
<1>8. ASSUME NEW offset, NEW size, NEW v \in Time, StoreTimer(offset, size, v)
      PROVE  TypeOK'
  <2>1. mtime' \in Time /\ mtimecmp' \in Time
    BY <1>8 DEF StoreTimer, Spliced, TypeOK
  <2>2. QED
    BY <1>2, <1>8, <2>1 DEF StoreTimer, TypeOK
<1>9. ASSUME NEW v \in MsipStores, StoreMsip(v)
      PROVE  TypeOK'
  BY <1>2, <1>9, ConstantsAssumption DEF StoreMsip, TypeOK
<1>10. ASSUME NEW target \in PC, Ordinary(target)
       PROVE  TypeOK'
  BY <1>10 DEF Ordinary, TypeOK
<1>11. ASSUME NEW code \in Codes, Exception(code)
       PROVE  TypeOK'
  BY <1>1, <1>11, ConstantsAssumption, TrapTyped DEF Exception
<1>12. CASE advance_time(1)
  <2>1. mtime' \in Time
    BY <1>12, ConstantsAssumption DEF advance_time, TypeOK, Time
  <2>2. QED
    BY <1>12, <2>1 DEF advance_time, TypeOK
<1>13. CASE poll_interrupt
  <2>1. CASE UNCHANGED vars
    BY <2>1 DEF vars, TypeOK
  <2>2. CASE CheckInterrupt(FALSE)
    BY <2>2, <1>3
  <2>3. QED
    BY <1>13, <2>1, <2>2 DEF poll_interrupt
<1>14. CASE interrupt
  BY <1>14, <1>3 DEF interrupt, TypeOK
<1>15. CASE Instruction
  BY <1>15, <1>4, <1>5, <1>6, <1>7, <1>8, <1>9, <1>10 DEF Instruction
<1>16. QED
  BY <1>11, <1>12, <1>13, <1>14, <1>15 DEF Next

\* The hart keeps every CSR in its legal range and every other variable in its
\* type, whatever software writes: in particular MPP never names the reserved
\* privilege that MRET would enter.
THEOREM TypeCorrect == Spec => []TypeOK
<1>1. Init => TypeOK
  BY ConstantsAssumption DEF Init, TypeOK, Time, PC, Csrs, Tvecs, Privileges, Wired, MTI
<1>2. TypeOK /\ [Next]_vars => TypeOK'
  <2>1. TypeOK /\ UNCHANGED vars => TypeOK'
    BY DEF TypeOK, vars
  <2>2. QED
    BY <2>1, StepTyped
<1>3. QED
  BY <1>1, <1>2, PTL DEF Spec

-----------------------------------------------------------------------------
(* The event-driven poll *)

\* Refreshing twice is refreshing once.
LEMMA RefreshedAgain ==
  ASSUME TypeOK, csrs' = Refreshed, UNCHANGED clint
  PROVE  Refreshed' = csrs'
<1>1. Levels' = Levels
  BY DEF clint, Levels
<1>2. Refreshed' = [Refreshed EXCEPT !.mip = (@ \ Wired) \cup Levels]
  BY <1>1 DEF Refreshed
<1>3. csrs \in [mstatus : SUBSET STATUS_WRITE, mie : SUBSET Interrupts,
                mip : SUBSET (Delegable \cup Wired), mideleg : SUBSET Delegable,
                medeleg : SUBSET (0 .. 15), mepc : PC, sepc : PC,
                mtvec : Tvecs, stvec : Tvecs]
  BY DEF TypeOK, Csrs
<1>4. Refreshed.mip = (csrs.mip \ Wired) \cup Levels
  BY <1>3 DEF Refreshed
<1>5. (Refreshed.mip \ Wired) \cup Levels = Refreshed.mip
  BY <1>4
<1>6. QED
  BY <1>2, <1>3, <1>5 DEF Refreshed

\* A check that takes nothing leaves nothing to take.
LEMMA QuietCheck ==
  ASSUME TypeOK, UNCHANGED clint, Eligible(Refreshed) = {}, csrs' = Refreshed,
         UNCHANGED privilege
  PROVE  (Refreshed = csrs /\ Eligible(csrs) = {})'
<1>1. Refreshed' = csrs'
  BY RefreshedAgain
<1>2. Eligible(csrs)' = Eligible(Refreshed)
  BY DEF Eligible, EnabledAt
<1>3. QED
  BY <1>1, <1>2

\* poll_interrupt may return early: while interrupt_dirty is down, mip shows the
\* CLINT and no enabled interrupt is pending, so the check it skips would have
\* changed nothing.  Every way to change what the check reads raises the flag.
THEOREM CleanPoll == Spec => []CleanPollIsEager
<1>1. Init => CleanPollIsEager
  BY DEF Init, CleanPollIsEager
<1>2. ASSUME TypeOK, CleanPollIsEager, [Next]_vars
      PROVE  CleanPollIsEager'
  <2>1. ASSUME UNCHANGED <<mtime, mtimecmp, msip, interrupt_dirty, privilege, csrs>>
        PROVE  CleanPollIsEager'
    BY <1>2, <2>1 DEF CleanPollIsEager, Refreshed, Levels, Eligible, EnabledAt
  <2>2. ASSUME interrupt_dirty' = TRUE
        PROVE  CleanPollIsEager'
    BY <2>2 DEF CleanPollIsEager
  <2>3. ASSUME NEW dirty \in BOOLEAN, CheckInterrupt(dirty)
        PROVE  CleanPollIsEager'
    <3>1. CASE \E n \in Interrupts : TakeInterrupt(n)
      BY <2>2, <3>1 DEF TakeInterrupt, take_trap
    <3>2. CASE /\ Eligible(Refreshed) = {} /\ csrs' = Refreshed
               /\ UNCHANGED <<privilege, pc>>
      BY <1>2, <2>3, <3>2, QuietCheck DEF CheckInterrupt, CleanPollIsEager
    <3>3. QED
      BY <2>3, <3>1, <3>2 DEF CheckInterrupt
  <2>4. CASE Instruction
    BY <2>1, <2>2, <2>4
       DEF Instruction, CsrInstruction, MRET, SRET, WFI, StoreTimer, StoreMsip, Ordinary
  <2>5. CASE \E code \in Codes : Exception(code)
    BY <2>2, <2>5 DEF Exception, take_trap
  <2>6. CASE interrupt
    BY <1>2, <2>3, <2>6 DEF interrupt, TypeOK
  <2>7. CASE poll_interrupt
    <3>1. CASE UNCHANGED vars
      BY <2>1, <3>1 DEF vars
    <3>2. QED
      BY <2>3, <2>7, <3>1 DEF poll_interrupt
  <2>8. CASE advance_time(1)
    BY <2>2, <2>8 DEF advance_time
  <2>9. CASE UNCHANGED vars
    BY <2>1, <2>9 DEF vars
  <2>10. QED
    BY <1>2, <2>4, <2>5, <2>6, <2>7, <2>8, <2>9 DEF Next
<1>3. QED
  BY <1>1, <1>2, TypeCorrect, PTL DEF Spec

-----------------------------------------------------------------------------
(* Privilege separation *)

MachineBits == {MIE, MPIE, TW, TSR} \cup MPP

\* The CSR file c leaves alone what machine mode set up.
Keeps(c) ==
  /\ c.mideleg = csrs.mideleg /\ c.medeleg = csrs.medeleg
  /\ c.mtvec = csrs.mtvec /\ c.mepc = csrs.mepc
  /\ c.mie \ csrs.mideleg = csrs.mie \ csrs.mideleg
  /\ c.mip \ (csrs.mideleg \cup Wired \cup {SSI}) = csrs.mip \ (csrs.mideleg \cup Wired \cup {SSI})
  /\ c.mstatus \cap MachineBits = csrs.mstatus \cap MachineBits
  /\ MPRV \in c.mstatus => MPRV \in csrs.mstatus

\* Entering supervisor mode moves only the supervisor's bits.
LEMMA SupervisorEntryKeeps ==
  ASSUME NEW s \in SUBSET STATUS_WRITE, privilege \in Privileges, privilege < MACHINE
  PROVE  /\ SupervisorEntry(s) \cap MachineBits = s \cap MachineBits
         /\ MPRV \in SupervisorEntry(s) => MPRV \in s
<1> DEFINE se == Shift(s \cap {SIE}, 4)
           low == Shift(PrivilegeBits[privilege], 8)
<1>1. se \subseteq {SPIE}
  BY DEF Shift, SIE, SPIE
<1>2. PrivilegeBits[privilege] \subseteq {0}
  BY DEF PrivilegeBits, Privileges, USER, SUPERVISOR, MACHINE
<1>3. low \subseteq {SPP}
  BY <1>2 DEF Shift, SPP
<1>4. SupervisorEntry(s) = (s \ {SIE, SPIE, SPP}) \cup se \cup low
  BY DEF SupervisorEntry
<1> HIDE DEF se, low
<1>5. QED
  BY <1>1, <1>3, <1>4 DEF MachineBits, MPP, SIE, MIE, SPIE, MPIE, SPP, MPRV, TW, TSR

\* A trap handled below machine mode, from a CSR file that keeps the machine's
\* state, keeps it.
LEMMA DelegatedTrapKeeps ==
  ASSUME TypeOK, NEW c, TypedFile(c), Keeps(c), NEW kind, NEW code,
         take_trap(c, kind, code), privilege' < MACHINE
  PROVE  Keeps(csrs')
<1>1. Delegated(c, kind, code)
  BY DEF take_trap, MACHINE
<1>2. csrs' = [c EXCEPT !.sepc = pc, !.mstatus = SupervisorEntry(c.mstatus)]
  BY <1>1 DEF take_trap
<1>3. /\ SupervisorEntry(c.mstatus) \cap MachineBits = c.mstatus \cap MachineBits
      /\ MPRV \in SupervisorEntry(c.mstatus) => MPRV \in c.mstatus
  BY <1>1, SupervisorEntryKeeps DEF TypedFile, Csrs, TypeOK, Delegated
<1>4. /\ csrs'.mideleg = c.mideleg /\ csrs'.medeleg = c.medeleg /\ csrs'.mtvec = c.mtvec
      /\ csrs'.mepc = c.mepc /\ csrs'.mie = c.mie /\ csrs'.mip = c.mip
      /\ csrs'.mstatus = SupervisorEntry(c.mstatus)
  BY <1>2 DEF TypedFile, Csrs
<1>5. QED
  BY <1>3, <1>4 DEF Keeps

\* The CSRs a supervisor can write show it only its own share.
LEMMA SupervisorWriteKeeps ==
  ASSUME TypeOK, NEW reg \in SupervisorRegs, NEW v
  PROVE  Keeps(csr_write(reg, v))
<1> USE DEF Keeps, csr_write
<1>1. /\ csrs \in Csrs
      /\ csrs.mstatus \in SUBSET STATUS_WRITE
      /\ 12 \in csrs.mstatus => 11 \in csrs.mstatus
  BY DEF TypeOK, Csrs
<1>2. CASE reg = "sstatus"
  <2> DEFINE w == (csrs.mstatus \ SSTATUS_MASK) \cup (v \cap SSTATUS_MASK)
             new == StatusWritten(csrs.mstatus, w)
  <2>1. new = LegalStatus(w \cap STATUS_WRITE)
    BY <1>1 DEF StatusWritten
  <2>2. w \cap STATUS_WRITE = w
    BY <1>1 DEF STATUS_WRITE, SSTATUS_MASK
  <2>3. LegalStatus(w) = w
    BY <1>1 DEF LegalStatus, SSTATUS_MASK, SIE, SPIE, SPP
  <2>4. new \cap MachineBits = csrs.mstatus \cap MachineBits
        /\ (MPRV \in new => MPRV \in csrs.mstatus)
    BY <2>1, <2>2, <2>3
       DEF SSTATUS_MASK, MachineBits, MPP, SIE, MIE, SPIE, MPIE, SPP, MPRV, TW, TSR
  <2> HIDE DEF new
  <2>5. csr_write(reg, v) = [csrs EXCEPT !.mstatus = new]
    BY <1>2 DEF new
  <2>6. QED
    BY <1>1, <2>4, <2>5 DEF Csrs
<1>3. CASE reg = "sie"
  BY <1>1, <1>3 DEF Csrs
<1>4. CASE reg = "sip"
  BY <1>1, <1>4 DEF Csrs
<1>5. CASE reg = "sepc"
  BY <1>1, <1>5 DEF Csrs
<1>6. CASE reg = "stvec"
  BY <1>1, <1>6 DEF Csrs
<1>7. QED
  BY <1>2, <1>3, <1>4, <1>5, <1>6 DEF SupervisorRegs

\* Software below machine mode, trapping and returning only among supervisor
\* and user mode, cannot change the machine's enables, delegations, vector,
\* saved context or TW/TSR controls, lose it a pending interrupt other than SSI,
\* or set MPRV.
THEOREM SupervisorIsConfined == Spec => SupervisorConfined
<1>1. ASSUME TypeOK, [Next]_vars, privilege < MACHINE, privilege' < MACHINE
      PROVE  Keeps(csrs')
  <2>1. csrs \in Csrs /\ TypedFile(csrs) /\ Keeps(csrs)
    BY <1>1 DEF TypeOK, TypedFile, Keeps
  <2>2. ~ (privilege = MACHINE)
    BY <1>1 DEF TypeOK, Privileges, USER, SUPERVISOR, MACHINE
  <2>3. ASSUME UNCHANGED csrs
        PROVE  Keeps(csrs')
    BY <2>3 DEF Keeps
  <2>4. Keeps(Refreshed)
    BY <2>1 DEF Keeps, Refreshed, Levels, Wired, Csrs
  <2>5. ASSUME NEW dirty, CheckInterrupt(dirty)
        PROVE  Keeps(csrs')
    <3>1. CASE \E n \in Interrupts : TakeInterrupt(n)
      BY <1>1, <2>4, <3>1, RefreshedTyped, DelegatedTrapKeeps DEF TakeInterrupt
    <3>2. CASE csrs' = Refreshed
      BY <2>4, <3>2
    <3>3. QED
      BY <2>5, <3>1, <3>2 DEF CheckInterrupt
  <2>6. ASSUME NEW reg \in Regs, NEW op, NEW v, CsrInstruction(reg, op, v)
        PROVE  Keeps(csrs')
    BY <1>1, <2>2, <2>6, SupervisorWriteKeeps DEF CsrInstruction
  <2>7. CASE MRET
    BY <2>2, <2>7 DEF MRET
  <2>8. CASE SRET
    <3> DEFINE back == Shift(csrs.mstatus \cap {SPIE}, -4)
    <3>1. back \subseteq {SIE}
      BY DEF Shift, SPIE, SIE
    <3>2. csrs' = [csrs EXCEPT !.mstatus = (@ \ {SIE, SPIE, SPP, MPRV}) \cup back \cup {SPIE}]
      BY <2>8 DEF SRET
    <3> HIDE DEF back
    <3>3. QED
      BY <2>1, <3>1, <3>2
         DEF Keeps, Csrs, MachineBits, MPP, SIE, MIE, SPIE, MPIE, SPP, MPRV, TW, TSR
  <2>9. CASE WFI \/ (\E o, size, v : StoreTimer(o, size, v)) \/ (\E v : StoreMsip(v))
             \/ (\E target : Ordinary(target)) \/ advance_time(1) \/ UNCHANGED vars
    BY <2>3, <2>9 DEF WFI, StoreTimer, StoreMsip, Ordinary, advance_time, vars
  <2>10. CASE \E code \in Codes : Exception(code)
    BY <1>1, <2>1, <2>10, DelegatedTrapKeeps DEF Exception
  <2>11. CASE interrupt \/ poll_interrupt
    BY <2>3, <2>5, <2>11 DEF interrupt, poll_interrupt, vars
  <2>12. CASE Instruction
    BY <2>6, <2>7, <2>8, <2>9, <2>12 DEF Instruction
  <2>13. QED
    BY <1>1, <2>9, <2>10, <2>11, <2>12 DEF Next
<1>2. ASSUME TypeOK, [Next]_vars
      PROVE  [privilege < MACHINE /\ privilege' < MACHINE =>
                /\ MachineState' = MachineState
                /\ MPRV \in csrs'.mstatus => MPRV \in csrs.mstatus]_vars
  BY <1>1, <1>2 DEF Keeps, MachineState, MachineBits
<1>3. QED
  BY <1>2, TypeCorrect, PTL DEF Spec, SupervisorConfined

-----------------------------------------------------------------------------
(* Entering a trap *)

\* Entry to machine mode: the fields of mstatus it moves, and what they held.
LEMMA MachineEntryFields ==
  ASSUME NEW s, privilege \in Privileges
  PROVE  /\ MppOf(MachineEntry(s)) = privilege
         /\ MPIE \in MachineEntry(s) <=> MIE \in s
         /\ MIE \notin MachineEntry(s)
<1> DEFINE ie == Shift(s \cap {MIE}, 4)
           up == Shift(PrivilegeBits[privilege], 11)
<1>1. ie \subseteq {MPIE} /\ (MPIE \in ie <=> MIE \in s)
  BY DEF Shift, MIE, MPIE
<1>2. /\ up \subseteq MPP
      /\ 12 \in up <=> privilege = MACHINE
      /\ 11 \in up <=> privilege # USER
  <2>1. PrivilegeBits[privilege] =
          IF privilege = MACHINE THEN {0, 1} ELSE IF privilege = SUPERVISOR THEN {0} ELSE {}
    BY DEF PrivilegeBits, Privileges, USER, SUPERVISOR, MACHINE
  <2>2. CASE privilege = MACHINE
    <3>1. PrivilegeBits[privilege] = {0, 1}
      BY <2>1, <2>2
    <3>2. up = {11, 12}
      BY <3>1 DEF Shift
    <3> HIDE DEF up
    <3>3. QED
      BY <2>2, <3>2 DEF MPP, USER, MACHINE
  <2>3. CASE privilege = SUPERVISOR
    <3>1. PrivilegeBits[privilege] = {0}
      BY <2>1, <2>3 DEF SUPERVISOR, MACHINE
    <3>2. up = {11}
      BY <3>1 DEF Shift
    <3> HIDE DEF up
    <3>3. QED
      BY <2>3, <3>2 DEF MPP, USER, SUPERVISOR, MACHINE
  <2>4. CASE privilege = USER
    <3>1. PrivilegeBits[privilege] = {}
      BY <2>1, <2>4 DEF USER, SUPERVISOR, MACHINE
    <3>2. up = {}
      BY <3>1 DEF Shift
    <3> HIDE DEF up
    <3>3. QED
      BY <2>4, <3>2 DEF USER, MACHINE
  <2>5. QED
    BY <2>2, <2>3, <2>4 DEF Privileges
<1>3. MachineEntry(s) = (s \ ({MIE, MPIE} \cup MPP)) \cup ie \cup up
  BY DEF MachineEntry
<1> HIDE DEF ie, up
<1>4. /\ 12 \in MachineEntry(s) <=> privilege = MACHINE
      /\ 11 \in MachineEntry(s) <=> privilege # USER
      /\ MPIE \in MachineEntry(s) <=> MIE \in s
      /\ MIE \notin MachineEntry(s)
  BY <1>1, <1>2, <1>3 DEF MPP, MIE, MPIE
<1>5. QED
  BY <1>4 DEF MppOf, Privileges

\* Entry to supervisor mode, from supervisor or user mode.
LEMMA SupervisorEntryFields ==
  ASSUME NEW s, privilege \in Privileges, privilege < MACHINE
  PROVE  /\ SppOf(SupervisorEntry(s)) = privilege
         /\ SPIE \in SupervisorEntry(s) <=> SIE \in s
         /\ SIE \notin SupervisorEntry(s)
<1> DEFINE ie == Shift(s \cap {SIE}, 4)
           low == Shift(PrivilegeBits[privilege], 8)
<1>1. ie \subseteq {SPIE} /\ (SPIE \in ie <=> SIE \in s)
  BY DEF Shift, SIE, SPIE
<1>2. low \subseteq {SPP} /\ (SPP \in low <=> privilege = SUPERVISOR)
  <2>1. PrivilegeBits[privilege] = IF privilege = SUPERVISOR THEN {0} ELSE {}
    BY DEF PrivilegeBits, Privileges, USER, SUPERVISOR, MACHINE
  <2>2. low = IF privilege = SUPERVISOR THEN {SPP} ELSE {}
    BY <2>1 DEF Shift, SPP
  <2> HIDE DEF low
  <2>3. QED
    BY <2>2
<1>3. SupervisorEntry(s) = (s \ {SIE, SPIE, SPP}) \cup ie \cup low
  BY DEF SupervisorEntry
<1> HIDE DEF ie, low
<1>4. /\ SPP \in SupervisorEntry(s) <=> privilege = SUPERVISOR
      /\ SPIE \in SupervisorEntry(s) <=> SIE \in s
      /\ SIE \notin SupervisorEntry(s)
  BY <1>1, <1>2, <1>3 DEF SIE, SPIE, SPP
<1>5. QED
  BY <1>4 DEF SppOf, Privileges, USER, SUPERVISOR, MACHINE

\* What a trap taken from the CSR file c leaves behind, in either mode.
LEMMA TrapContext ==
  ASSUME TypeOK, NEW c, TypedFile(c), NEW kind, NEW code, take_trap(c, kind, code)
  PROVE  /\ Saved' = <<privilege, pc,
                       (IF privilege' = MACHINE THEN MIE ELSE SIE) \in c.mstatus, FALSE>>
         /\ privilege' >= privilege
         /\ \/ privilege' = MACHINE /\ MIE \notin csrs'.mstatus
            \/ privilege' = SUPERVISOR /\ SIE \notin csrs'.mstatus
<1> USE DEF TypedFile, Csrs
<1>1. privilege \in Privileges
  BY DEF TypeOK
<1>2. CASE Delegated(c, kind, code)
  <2>1. privilege < MACHINE /\ privilege' = SUPERVISOR /\ ~ (privilege' = MACHINE)
    BY <1>2 DEF take_trap, Delegated, SUPERVISOR, MACHINE
  <2>2. csrs'.mstatus = SupervisorEntry(c.mstatus) /\ csrs'.sepc = pc
    BY <1>2 DEF take_trap
  <2>3. /\ SppOf(csrs'.mstatus) = privilege
        /\ SPIE \in csrs'.mstatus <=> SIE \in c.mstatus
        /\ SIE \notin csrs'.mstatus
    BY <1>1, <2>1, <2>2, SupervisorEntryFields
  <2>4. Saved' = <<privilege, pc, SIE \in c.mstatus, FALSE>>
    <3>1. Saved' = <<SppOf(csrs'.mstatus), csrs'.sepc, SPIE \in csrs'.mstatus,
                     SIE \in csrs'.mstatus>>
      BY <2>1 DEF Saved, SppOf
    <3>2. /\ (SPIE \in csrs'.mstatus) = (SIE \in c.mstatus)
          /\ (SIE \in csrs'.mstatus) = FALSE
      BY <2>3
    <3>3. QED
      BY <2>2, <2>3, <3>1, <3>2, Zenon
  <2>5. privilege' >= privilege
    BY <1>1, <2>1 DEF Privileges, USER, SUPERVISOR, MACHINE
  <2>6. QED
    BY <2>1, <2>3, <2>4, <2>5
<1>3. CASE ~ Delegated(c, kind, code)
  <2>1. privilege' = MACHINE
    BY <1>3 DEF take_trap
  <2>2. csrs'.mstatus = MachineEntry(c.mstatus) /\ csrs'.mepc = pc
    BY <1>3 DEF take_trap
  <2>3. /\ MppOf(csrs'.mstatus) = privilege
        /\ MPIE \in csrs'.mstatus <=> MIE \in c.mstatus
        /\ MIE \notin csrs'.mstatus
    BY <1>1, <2>2, MachineEntryFields
  <2>4. Saved' = <<privilege, pc, MIE \in c.mstatus, FALSE>>
    <3>1. Saved' = <<MppOf(csrs'.mstatus), csrs'.mepc, MPIE \in csrs'.mstatus,
                     MIE \in csrs'.mstatus>>
      BY <2>1 DEF Saved, MppOf
    <3>2. /\ (MPIE \in csrs'.mstatus) = (MIE \in c.mstatus)
          /\ (MIE \in csrs'.mstatus) = FALSE
      BY <2>3
    <3>3. QED
      BY <2>2, <2>3, <3>1, <3>2, Zenon
  <2>5. privilege' >= privilege
    BY <1>1, <2>1 DEF Privileges, USER, SUPERVISOR, MACHINE
  <2>6. QED
    BY <2>1, <2>3, <2>4, <2>5
<1>4. QED
  BY <1>2, <1>3

\* An exception starts from csrs and an interrupt from the refreshed CSR file;
\* mstatus is the same in both.
LEMMA TrapStepContext ==
  ASSUME TypeOK, TrapStep
  PROVE  /\ Saved' = <<privilege, pc,
                       (IF privilege' = MACHINE THEN MIE ELSE SIE) \in csrs.mstatus, FALSE>>
         /\ privilege' >= privilege
<1>1. TypedFile(csrs) /\ TypedFile(Refreshed)
  BY RefreshedTyped DEF TypeOK, TypedFile
<1>2. Refreshed.mstatus = csrs.mstatus
  BY DEF Refreshed, TypeOK, Csrs
<1>3. CASE \E code \in Codes : Exception(code)
  BY <1>1, <1>3, TrapContext DEF Exception
<1>4. CASE \E n \in Interrupts : TakeInterrupt(n)
  <2>1. PICK n \in Interrupts : take_trap(Refreshed, "interrupt", n)
    BY <1>4 DEF TakeInterrupt
  <2>2. /\ Saved' = <<privilege, pc,
                      (IF privilege' = MACHINE THEN MIE ELSE SIE) \in Refreshed.mstatus, FALSE>>
        /\ privilege' >= privilege
    BY <1>1, <2>1, TrapContext
  <2>3. QED
    BY <1>2, <2>2
<1>5. QED
  BY <1>3, <1>4 DEF TrapStep

\* take_trap saves what MRET or SRET of the mode entered restores: the pc, the
\* privilege and the interrupt enable of the moment of the trap, whether the
\* trap is an exception or an interrupt and whichever mode handles it.
THEOREM TrapsSaveContext == Spec => TrapSavesContext
<1>1. ASSUME TypeOK, [Next]_vars
      PROVE  [TrapStep =>
                Saved' = <<privilege, pc,
                           (IF privilege' = MACHINE THEN MIE ELSE SIE) \in csrs.mstatus,
                           FALSE>>]_vars
  BY <1>1, TrapStepContext
<1>2. QED
  BY <1>1, TypeCorrect, PTL DEF Spec, TrapSavesContext

\* Delegation never sends a trap of machine mode down to supervisor mode.
THEOREM TrapsKeepPrivilege == Spec => TrapsNeverLowerPrivilege
<1>1. ASSUME TypeOK, [Next]_vars
      PROVE  [TrapStep => privilege' >= privilege]_vars
  BY <1>1, TrapStepContext
<1>2. QED
  BY <1>1, TypeCorrect, PTL DEF Spec, TrapsNeverLowerPrivilege

\* Right after an interrupt is taken, none is eligible in machine mode, and in
\* supervisor mode only those machine mode did not delegate.
THEOREM InterruptsNestUpward == Spec => InterruptNestsUpward
<1>1. ASSUME TypeOK, \E n \in Interrupts : TakeInterrupt(n)
      PROVE  (Eligible(csrs) # {} =>
                privilege = SUPERVISOR /\ Eligible(csrs) \cap csrs.mideleg = {})'
  <2>1. PICK n \in Interrupts : take_trap(Refreshed, "interrupt", n)
    BY <1>1 DEF TakeInterrupt
  <2>2. \/ privilege' = MACHINE /\ MIE \notin csrs'.mstatus
        \/ privilege' = SUPERVISOR /\ SIE \notin csrs'.mstatus
    BY <1>1, <2>1, RefreshedTyped, TrapContext
  <2>3. QED
    BY <2>2 DEF Eligible, EnabledAt, USER, SUPERVISOR, MACHINE
<1>2. ASSUME TypeOK, [Next]_vars
      PROVE  [(\E n \in Interrupts : TakeInterrupt(n)) =>
                (Eligible(csrs) # {} =>
                   privilege = SUPERVISOR /\ Eligible(csrs) \cap csrs.mideleg = {})']_vars
  BY <1>1, <1>2
<1>3. QED
  BY <1>2, TypeCorrect, PTL DEF Spec, InterruptNestsUpward

-----------------------------------------------------------------------------
(* The platform loop *)

\* The loop calls the hart only in ways any host may: what holds of Hart holds of it.
THEOREM LoopRunsTheHart == LoopSpec => Spec
<1>1. LoopInit => Init
  BY DEF LoopInit
<1>2. [LoopNext]_loop => [Next]_vars
  BY DEF LoopNext, Tick, Poll, Step, Next, loop
<1> QED
  BY <1>1, <1>2, PTL DEF LoopSpec, Spec

\* The hart, the phase and the ticks keep their types.
THEOREM LoopTypeCorrect == LoopSpec => []LoopTypeOK
<1> DEFINE Turn == /\ phase \in {"tick", "poll", "step", "halted"}
                   /\ until_tick \in 1 .. ATTEMPTS_PER_TICK
<1>1. LoopInit => Turn
  BY TickAssumption DEF LoopInit
<1>2. Turn /\ [LoopNext]_loop => Turn'
  BY TickAssumption DEF LoopNext, Tick, TurnsLeft, Poll, AfterPoll, Step, loop
<1>3. TypeOK /\ Turn => LoopTypeOK
  BY DEF LoopTypeOK
<1> QED
  BY <1>1, <1>2, <1>3, LoopRunsTheHart, TypeCorrect, PTL DEF LoopSpec

\* A poll that lets the instruction run has left nothing it should have taken.
LEMMA QuietPoll ==
  ASSUME TypeOK, CleanPollIsEager, Poll, phase' = "step"
  PROVE  (Refreshed = csrs /\ Eligible(csrs) = {})'
<1>1. CASE ~ interrupt_dirty
  <2>1. UNCHANGED vars
    BY <1>1 DEF Poll, poll_interrupt
  <2>2. Refreshed = csrs /\ Eligible(csrs) = {}
    BY <1>1 DEF CleanPollIsEager
  <2> QED
    BY <2>1, <2>2 DEF vars, Refreshed, Levels, Eligible, EnabledAt
<1>2. CASE interrupt_dirty
  <2>1. Eligible(Refreshed) = {}
    BY <1>2 DEF Poll, AfterPoll
  <2>2. CheckInterrupt(FALSE)
    BY <1>2 DEF Poll, poll_interrupt
  <2>3. ~ \E n \in Interrupts : TakeInterrupt(n)
    BY <2>1 DEF TakeInterrupt
  <2>4. UNCHANGED clint /\ csrs' = Refreshed /\ UNCHANGED privilege
    BY <2>2, <2>3 DEF CheckInterrupt
  <2> QED
    BY <2>1, <2>4, QuietCheck
<1> QED
  BY <1>1, <1>2

\* When an instruction runs, no interrupt is due and the mip it reads is current.
THEOREM InterruptsArePrecise == LoopSpec => []PreciseInterrupts
<1>1. LoopInit => PreciseInterrupts
  BY DEF LoopInit, PreciseInterrupts
<1>2. ASSUME TypeOK, CleanPollIsEager, PreciseInterrupts, [LoopNext]_loop
      PROVE  PreciseInterrupts'
  <2>1. CASE Poll
    <3> SUFFICES ASSUME phase' = "step" PROVE (Eligible(Refreshed) = {} /\ csrs = Refreshed)'
      BY DEF PreciseInterrupts
    <3>1. Refreshed' = csrs' /\ Eligible(csrs)' = {}
      BY <1>2, <2>1, QuietPoll
    <3>2. Eligible(Refreshed)' = Eligible(csrs)'
      BY <3>1 DEF Eligible, EnabledAt
    <3> QED
      BY <3>1, <3>2
  <2>2. CASE Tick \/ Step
    BY <2>2 DEF Tick, Step, PreciseInterrupts
  <2>3. CASE UNCHANGED loop
    BY <1>2, <2>3 DEF loop, vars, PreciseInterrupts, Refreshed, Levels, Eligible, EnabledAt
  <2> QED
    BY <1>2, <2>1, <2>2, <2>3 DEF LoopNext
<1> QED
  BY <1>1, <1>2, LoopRunsTheHart, TypeCorrect, CleanPoll, PTL DEF LoopSpec
=============================================================================
