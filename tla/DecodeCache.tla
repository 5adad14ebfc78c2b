---------------------------- MODULE DecodeCache ----------------------------
(***************************************************************************)
(* The decoded-instruction cache of oxyspike (oxyspike/src/decode_cache.rs)*)
(* with the events that flush it (mmu.rs, privileged.rs, lib.rs).          *)
(*                                                                         *)
(* What load_virtual(pc, FETCH) would find is a function of the address     *)
(* space and the privilege: code[satp][p][pc] is the instruction, or Fault *)
(* when the walk, the PMP or the decoder refuses it.  Anything that moves  *)
(* it (a store to instructions or to page tables, a PMP or PBMTE write, a  *)
(* translation entering or leaving the fetch TLB) is a change of code.     *)
(* An epoch is a counter of EpochMod values (2^64 in the code) that a      *)
(* flush steps instead of clearing the cache.                              *)
(*                                                                         *)
(* fetchable is history: what each fetch could have found since the last   *)
(* fence.  An action of the cache is one lookup; what the instruction then  *)
(* does to the state modelled here is one of the events below.             *)
(***************************************************************************)
EXTENDS Integers

CONSTANTS
  Pcs,          \* instruction addresses
  ENTRIES,      \* number of cache entries; 65536 in the code
  EpochMod,     \* epochs are 0 .. EpochMod-1
  Satps,        \* values of satp
  Satp0,        \* its reset value
  Privileges,   \* a subset of {0, 1, 3}
  Insns,
  Fault,
  InitialCode,  \* the loaded image
  Writable      \* the <<satp, privilege, pc>> whose fetch results change

USER == 0
MACHINE == 3
Views == [Satps -> [Privileges -> [Pcs -> Insns \cup {Fault}]]]
Histories == [Satps -> [Privileges -> [Pcs -> SUBSET (Insns \cup {Fault})]]]

ASSUME SizesAssumption ==
  /\ Pcs \subseteq Nat /\ 0 \in Pcs
  /\ ENTRIES \in Nat \ {0}
  /\ EpochMod \in Nat /\ EpochMod > 1

ASSUME ValuesAssumption ==
  /\ Satp0 \in Satps
  /\ Privileges \subseteq {0, 1, 3} /\ {USER, MACHINE} \subseteq Privileges
  /\ Insns # {} /\ Fault \notin Insns
  /\ InitialCode \in Views
  /\ Writable \subseteq Satps \X Privileges \X Pcs

VARIABLES
  code,          \* what a fetch would find
  satp,          \* csrs[SATP]
  privilege,
  pc,
  decoded,       \* the entries
  decode_epoch,
  decode_satp,   \* the satp of the entries of this epoch
  fetchable

vars == <<code, satp, privilege, pc, decoded, decode_epoch, decode_satp, fetchable>>

Epochs == 0 .. EpochMod - 1
Entry == [insn : Insns, pc : Nat, epoch : Epochs, privilege : Privileges]
Indices == 0 .. ENTRIES - 1

\* Entry::default(): pc 0, epoch 0, privilege U; its instruction is any.
SomeInsn == CHOOSE i \in Insns : TRUE
Default == [insn |-> SomeInsn, pc |-> 0, epoch |-> 0, privilege |-> USER]

\* The history of a fence: a fetch finds what it finds now.
Only(view) == [s \in Satps |-> [p \in Privileges |-> [a \in Pcs |-> {view[s][p][a]}]]]

IndexOf(a) == a % ENTRIES

TypeOK ==
  /\ code \in Views
  /\ satp \in Satps /\ decode_satp \in Satps
  /\ privilege \in Privileges
  /\ pc \in Pcs
  /\ decoded \in [Indices -> Entry]
  /\ decode_epoch \in Epochs
  /\ fetchable \in Histories

-----------------------------------------------------------------------------
(* flush_instruction, from the entries es and epoch e at address space s *)

Epoch1(e) == (e + 1) % EpochMod
WrapKeepsEntries(es, e) == es
EntriesAfterFlush(es, e) ==
  IF Epoch1(e) = 0 THEN [i \in Indices |-> Default] ELSE es
EpochAfterFlush(e) == IF Epoch1(e) = 0 THEN 1 ELSE Epoch1(e)

flush_instruction ==
  /\ decode_satp' = satp
  /\ decode_epoch' = EpochAfterFlush(decode_epoch)
  /\ decoded' = EntriesAfterFlush(decoded, decode_epoch)

-----------------------------------------------------------------------------
(* execute_cached *)

\* The cache as the lookup sees it: a satp the entries do not have flushes it.
NeverMoved == FALSE
SatpMoved == decode_satp # satp
EpochNow == IF SatpMoved THEN EpochAfterFlush(decode_epoch) ELSE decode_epoch
EntriesNow == IF SatpMoved THEN EntriesAfterFlush(decoded, decode_epoch) ELSE decoded

Hit(e) == e.pc = pc /\ e.epoch = EpochNow /\ e.privilege = privilege

Observe ==
  /\ decode_satp' = satp
  /\ decode_epoch' = EpochNow

\* A hit runs the entry's instruction without fetching.
ExecuteHit ==
  /\ Hit(EntriesNow[IndexOf(pc)])
  /\ Observe
  /\ decoded' = EntriesNow

\* A miss fetches and decodes, and replaces the entry only when that succeeds.
ExecuteMiss ==
  LET found == code[satp][privilege][pc] IN
  /\ ~ Hit(EntriesNow[IndexOf(pc)])
  /\ Observe
  /\ \/ /\ found = Fault
        /\ decoded' = EntriesNow
     \/ /\ found # Fault
        /\ decoded' = [EntriesNow EXCEPT ![IndexOf(pc)] =
                         [insn |-> found, pc |-> pc, epoch |-> EpochNow,
                          privilege |-> privilege]]

\* The instruction then moves the pc, or traps and moves the privilege too.
Execute ==
  /\ ExecuteHit \/ ExecuteMiss
  /\ pc' \in Pcs
  /\ UNCHANGED <<code, satp, privilege, fetchable>>

-----------------------------------------------------------------------------
(* Events around it *)

\* A trap or a return.
SetPrivilege(p) ==
  /\ privilege' = p
  /\ pc' \in Pcs
  /\ UNCHANGED <<code, satp, decoded, decode_epoch, decode_satp, fetchable>>

\* csr_write(SATP), or a host writing csrs[SATP]: no flush of its own.
WriteSatp(s) ==
  /\ satp' = s
  /\ UNCHANGED <<code, privilege, pc, decoded, decode_epoch, decode_satp, fetchable>>

\* A store to instructions or page tables: visible to fetches not before a fence.
Store(s, p, a, found) ==
  /\ code' = [code EXCEPT ![s][p][a] = found]
  /\ fetchable' = [fetchable EXCEPT ![s][p][a] = @ \cup {found}]
  /\ UNCHANGED <<satp, privilege, pc, decoded, decode_epoch, decode_satp>>

\* FENCE.I.
FenceI ==
  /\ flush_instruction
  /\ fetchable' = Only(code)
  /\ UNCHANGED <<code, satp, privilege, pc>>

\* flush_translation, after a PMP or menvcfg.PBMTE write changed what fetches
\* find, or from SFENCE.VMA or SINVAL.VMA, which drop the fetch TLB.
FlushTranslation(s, p, a, found) ==
  /\ code' = [code EXCEPT ![s][p][a] = found]
  /\ fetchable' = Only(code')
  /\ flush_instruction
  /\ UNCHANGED <<satp, privilege, pc>>

-----------------------------------------------------------------------------

Init ==
  /\ code = InitialCode
  /\ satp = Satp0 /\ decode_satp = Satp0
  /\ privilege = MACHINE
  /\ pc = 0
  /\ decoded = [i \in Indices |-> Default]
  /\ decode_epoch = 1
  /\ fetchable = Only(code)

Next ==
  \/ Execute
  \/ \E p \in Privileges : SetPrivilege(p)
  \/ \E s \in Satps : WriteSatp(s)
  \/ \E cell \in Writable, found \in Insns \cup {Fault} :
       \/ Store(cell[1], cell[2], cell[3], found)
       \/ FlushTranslation(cell[1], cell[2], cell[3], found)
  \/ FenceI

Spec == Init /\ [][Next]_vars

-----------------------------------------------------------------------------
(* Properties *)

\* Whatever the cache would run without fetching is what a fetch at this pc, in
\* this address space and privilege, could have found since the last fence:
\* neither an address-space switch, nor a privilege change, nor a PMP change, nor
\* the wrap of the epoch counter brings back an instruction from before.
HitIsFetchable ==
  LET e == EntriesNow[IndexOf(pc)] IN
  Hit(e) => e.insn \in fetchable[satp][privilege][pc]

\* The invariant behind it.  Every entry of the current epoch was fetched in the
\* address space decode_satp since the last fence, and no entry carries an epoch
\* still to come, or one that a reset of the counter would meet again.
EntriesAreFetchable ==
  /\ decode_epoch > 0
  /\ \A i \in Indices :
       LET e == decoded[i] IN
       /\ e.epoch <= decode_epoch
       /\ e.epoch = decode_epoch =>
            e.pc \in Pcs /\ e.insn \in fetchable[decode_satp][e.privilege][e.pc]
=============================================================================
