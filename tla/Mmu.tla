-------------------------------- MODULE Mmu --------------------------------
(***************************************************************************)
(* Address translation of oxyspike (oxyspike/src/mmu.rs): the page-table   *)
(* walk, physical memory protection and the three translation caches, with *)
(* the CSR writes that bear on them (oxyspike/src/privileged.rs).          *)
(*                                                                         *)
(* Physical addresses count 4-byte granules, the unit of PMP bounds; a     *)
(* page has PageSize granules, a page-table entry two of them, and a table *)
(* Radix entries.  A virtual page is its number; those a walk cannot index *)
(* are not canonical.  satp is Bare or the page of the root table.         *)
(*                                                                         *)
(* tables is history: the page-table memories since the last flush of the  *)
(* translations, which is what a hardware TLB may still reflect.           *)
(***************************************************************************)
EXTENDS Integers, FiniteSets

CONSTANTS
  Radix, Levels,      \* 512 and 3
  LevelPages,         \* pages a leaf of each level maps: 1, 512 and 512^2
  Pages,              \* pages of RAM
  VirtualPages,       \* the virtual pages software uses
  TLB_ENTRIES,        \* 1024
  PmpEntries,         \* 16
  Accesses,           \* the access kinds software uses
  InitialTables,      \* page-table memory when the program starts
  PteStores,          \* the <<page, index, pte>> software stores
  Roots,              \* the values of satp software writes
  PmpCfgWrites,       \* the values software writes to the cfg registers
  PmpAddrWrites,      \* the <<n, value>> software writes to address registers
  PbmteWrites,        \* and to menvcfg.PBMTE
  StatusWrites        \* the values of the mstatus fields software writes

USER == 0
SUPERVISOR == 1
MACHINE == 3
Privileges == {USER, SUPERVISOR, MACHINE}

FETCH == 0
LOAD == 1
STORE == 2

PageSize == 2 * Radix
Indices == 0 .. Radix - 1
Pmps == 0 .. PmpEntries - 1
Bare == -1

\* Bits of a page-table entry, of a PMP configuration, and PMP address modes.
PteBits == {"valid", "read", "write", "execute", "user", "accessed", "dirty", "reserved"}
Pte == [bits : SUBSET PteBits, pbmt : 0 .. 3, ppn : Nat]
Perms == {"read", "write", "execute"}
OFF == 0
TOR == 1
NA4 == 2
NAPOT == 3
PmpCfg == [mode : OFF .. NAPOT, perms : SUBSET Perms, lock : BOOLEAN]
Status == [SUM : BOOLEAN, MXR : BOOLEAN, MPRV : BOOLEAN, MPP : Privileges]
Tables == [Pages -> [Indices -> Pte]]

ASSUME SizesAssumption ==
  /\ Radix \in Nat \ {0} /\ Levels \in Nat \ {0}
  /\ LevelPages \in [0 .. Levels - 1 -> Nat \ {0}]
  /\ LevelPages[0] = 1
  /\ \A level \in 1 .. Levels - 1 : LevelPages[level] = Radix * LevelPages[level - 1]
  /\ TLB_ENTRIES \in Nat \ {0} /\ PmpEntries \in Nat
  /\ Pages \subseteq Nat /\ VirtualPages \subseteq Nat
  /\ Accesses \subseteq {FETCH, LOAD, STORE}

ASSUME InputsAssumption ==
  /\ InitialTables \in Tables
  /\ PteStores \subseteq Pages \X Indices \X Pte
  /\ Roots \subseteq Nat \cup {Bare}
  /\ PmpCfgWrites \subseteq [Pmps -> PmpCfg]
  /\ PmpAddrWrites \subseteq Pmps \X Nat
  /\ PbmteWrites \subseteq BOOLEAN
  /\ StatusWrites \subseteq Status

VARIABLES
  mem,         \* page-table memory
  satp,
  status,      \* the mstatus fields that bear on translation
  pbmte,       \* menvcfg.PBMTE
  privilege,
  pmpcfg, pmpaddr,
  tlb,         \* access -> index -> entry
  tables

vars == <<mem, satp, status, pbmte, privilege, pmpcfg, pmpaddr, tlb, tables>>
context == <<satp, status, pbmte, privilege, pmpcfg, pmpaddr>>

-----------------------------------------------------------------------------
(* Physical memory protection *)

\* The granules [lo, hi) entry n names.  NAPOT encodes the size in the trailing
\* ones of the address, which are cleared for the base.
TrailingOnes(a) == Cardinality({k \in 0 .. a : a % 2^(k + 1) = 2^(k + 1) - 1})
Low(n) ==
  CASE pmpcfg[n].mode = TOR -> IF n = 0 THEN 0 ELSE pmpaddr[n - 1]
    [] pmpcfg[n].mode = NAPOT -> pmpaddr[n] - (2^TrailingOnes(pmpaddr[n]) - 1)
    [] OTHER -> pmpaddr[n]
High(n) ==
  CASE pmpcfg[n].mode = TOR -> pmpaddr[n]
    [] pmpcfg[n].mode = NAPOT -> Low(n) + 2^(TrailingOnes(pmpaddr[n]) + 1)
    [] OTHER -> pmpaddr[n] + 1

Needed(access) == CASE access = FETCH -> "execute" [] access = LOAD -> "read" [] OTHER -> "write"

\* The entries that overlap an access; the first decides, and only if it holds
\* the whole access.
Matching(addr, size) ==
  {n \in Pmps : pmpcfg[n].mode # OFF /\ addr < High(n) /\ addr + size > Low(n)}
Decider(addr, size) ==
  CHOOSE n \in Matching(addr, size) : \A m \in Matching(addr, size) : n <= m
Permits(n, access, p) ==
  (p = MACHINE /\ ~ pmpcfg[n].lock) \/ Needed(access) \in pmpcfg[n].perms
pmp_check(addr, size, access, p) ==
  IF Matching(addr, size) = {} THEN p = MACHINE
  ELSE LET n == Decider(addr, size) IN
       addr >= Low(n) /\ addr + size <= High(n) /\ Permits(n, access, p)

-----------------------------------------------------------------------------
(* The page-table walk over the memory m in a context c: a virtual page, the  *)
(* effective privilege and the CSR fields the walk reads                       *)

effective_privilege(access) ==
  IF access # FETCH /\ privilege = MACHINE /\ status.MPRV THEN status.MPP ELSE privilege
Context(vp, access) ==
  [vp |-> vp, privilege |-> effective_privilege(access), SUM |-> status.SUM,
   MXR |-> status.MXR, satp |-> satp]

Ok(page) == [fault |-> "none", page |-> page]
PageFault == [fault |-> "page", page |-> 0]
AccessFault == [fault |-> "access", page |-> 0]
Descend == [fault |-> "descend", page |-> 0]

\* The virtual page number's digit that indexes the table of a level.
VpnIndex(vp, level) == (vp \div LevelPages[level]) % Radix

NoPte == [bits |-> {}, pbmt |-> 0, ppn |-> 0]
PteAt(m, page, index) == IF page \in Pages THEN m[page][index] ELSE NoPte

\* The page of the table of each level, from the root down.
TableOf(m, c) ==
  LET table[level \in 0 .. Levels - 1] ==
        IF level = Levels - 1 THEN c.satp
        ELSE PteAt(m, table[level + 1], VpnIndex(c.vp, level + 1)).ppn
  IN table

Malformed(pte) ==
  \/ "valid" \notin pte.bits
  \/ "write" \in pte.bits /\ "read" \notin pte.bits
  \/ "reserved" \in pte.bits
  \/ pte.pbmt = 3
  \/ pte.pbmt # 0 /\ ~ pbmte
IsLeaf(pte) == pte.bits \cap {"read", "execute"} # {}
\* A pointer to the next table must leave the bits of a leaf clear.
Marked(pte) == pte.bits \cap {"user", "accessed", "dirty"} # {} \/ pte.pbmt # 0
WrongMode(pte, c, access) ==
  \/ c.privilege = USER /\ "user" \notin pte.bits
  \/ c.privilege = SUPERVISOR /\ "user" \in pte.bits /\ (access = FETCH \/ ~ c.SUM)
Allowed(pte, c, access) ==
  CASE access = FETCH -> "execute" \in pte.bits
    [] access = LOAD -> "read" \in pte.bits \/ ("execute" \in pte.bits /\ c.MXR)
    [] OTHER -> "write" \in pte.bits
\* Svade: the walk never sets the accessed and dirty bits.
Unmarked(pte, access) ==
  "accessed" \notin pte.bits \/ (access = STORE /\ "dirty" \notin pte.bits)

\* What the walk does with a leaf, and at one level.
Leaf(pte, level, c, access) ==
  IF \/ WrongMode(pte, c, access)
     \/ ~ Allowed(pte, c, access)
     \/ pte.ppn % LevelPages[level] # 0
     \/ Unmarked(pte, access)
  THEN PageFault
  ELSE Ok(pte.ppn + (c.vp % LevelPages[level]))
Examine(m, table, level, c, access) ==
  LET index == VpnIndex(c.vp, level)
      pte == PteAt(m, table, index)
      readable == pmp_check(table * PageSize + 2 * index, 2, LOAD, SUPERVISOR)
  IN CASE ~ readable \/ table \notin Pages -> AccessFault
       [] OTHER ->
            IF Malformed(pte) THEN PageFault
            ELSE IF IsLeaf(pte) THEN Leaf(pte, level, c, access)
            ELSE IF Marked(pte) THEN PageFault
            ELSE Descend

\* The walk ends at the first level, from the root, that does not descend.
Walk(m, c, access) ==
  LET table == TableOf(m, c)
      seen(level) == Examine(m, table[level], level, c, access)
      ends == {level \in 0 .. Levels - 1 : seen(level) # Descend}
  IN IF c.vp >= Radix * LevelPages[Levels - 1] \/ ends = {} THEN PageFault
     ELSE seen(CHOOSE top \in ends : \A level \in ends : level <= top)

\* translate: the walk, then PMP for the size granules at offset in the page.
Found(m, c, access) ==
  IF c.privilege = MACHINE \/ c.satp = Bare THEN Ok(c.vp) ELSE Walk(m, c, access)
translate(m, c, offset, size, access) ==
  LET found == Found(m, c, access) IN
  IF found.fault # "none" THEN found
  ELSE IF pmp_check(found.page * PageSize + offset, size, access, c.privilege) THEN found
  ELSE AccessFault

-----------------------------------------------------------------------------
(* The translation caches *)

Empty == [tag |-> [vp |-> -1, privilege |-> MACHINE, SUM |-> FALSE, MXR |-> FALSE,
                   satp |-> Bare],
          page |-> 0]

\* The tag of a lookup; machine mode ignores satp.
TagWithoutSum(vp, access) ==
  LET p == effective_privilege(access) IN
  [vp |-> vp, privilege |-> p, SUM |-> FALSE, MXR |-> status.MXR,
   satp |-> IF p = MACHINE THEN Bare ELSE satp]
Tag(vp, access) ==
  LET p == effective_privilege(access) IN
  [vp |-> vp, privilege |-> p, SUM |-> status.SUM, MXR |-> status.MXR,
   satp |-> IF p = MACHINE THEN Bare ELSE satp]
WithPage(tag, page) == [tag |-> tag, page |-> page]

TlbIndex(vp) == vp % TLB_ENTRIES
EntryFor(cache, vp, access) == cache[access][TlbIndex(vp)]
Hit(cache, vp, access) ==
  EntryFor(cache, vp, access).tag = Tag(vp, access)

\* A translation is kept only if PMP treats its page as one.
AlwaysWholePage(page, access) == TRUE
WholePage(page, access) ==
  pmp_check(page * PageSize, PageSize, access, effective_privilege(access))

\* cached_translate, for the size granules at offset of vp: its answer, and the
\* cache it leaves.
Answer(cache, vp, offset, size, access) ==
  IF Hit(cache, vp, access) THEN Ok(EntryFor(cache, vp, access).page)
  ELSE translate(mem, Context(vp, access), offset, size, access)
cached_translate(cache, vp, offset, size, access) ==
  LET found == translate(mem, Context(vp, access), offset, size, access) IN
  IF ~ Hit(cache, vp, access) /\ found.fault = "none" /\ WholePage(found.page, access)
  THEN [cache EXCEPT ![access][TlbIndex(vp)] = WithPage(Tag(vp, access), found.page)]
  ELSE cache

EmptyTlb == [access \in {FETCH, LOAD, STORE} |-> [i \in 0 .. TLB_ENTRIES - 1 |-> Empty]]
flush_translation ==
  /\ tlb' = EmptyTlb
  /\ tables' = {mem}

-----------------------------------------------------------------------------
(* Memory accesses *)

\* load_virtual and store_virtual within one page.
Access(vp, offset, size, access) ==
  /\ offset + size <= PageSize
  /\ tlb' = cached_translate(tlb, vp, offset, size, access)
  /\ UNCHANGED <<mem, context, tables>>

\* load_split_pages: the last size granules of vp, then the first rest of the
\* next page, unless the first half fails.  A fault of the second half leaves
\* the first in the cache.
LoadSplit(vp, size, rest, access) ==
  LET half == Answer(tlb, vp, PageSize - size, size, access)
      first == cached_translate(tlb, vp, PageSize - size, size, access)
  IN /\ access # STORE
     /\ tlb' = IF half.fault = "none" /\ half.page \in Pages
               THEN cached_translate(first, vp + 1, 0, rest, access)
               ELSE first
     /\ UNCHANGED <<mem, context, tables>>

\* A store of a page-table entry: a walk sees it, a cached translation may not.
StorePte(page, index, pte) ==
  /\ mem' = [mem EXCEPT ![page][index] = pte]
  /\ tables' = tables \cup {mem'}
  /\ UNCHANGED <<tlb, context>>

-----------------------------------------------------------------------------
(* Instructions and traps *)

\* SFENCE.VMA and SINVAL.VMA, which flush whatever their operands name.
SFENCE ==
  /\ privilege >= SUPERVISOR
  /\ flush_translation
  /\ UNCHANGED <<mem, context>>

\* csr_write: SATP has no flush of its own, modes other than 0 and 8 are
\* dropped.
WriteSatp(root) ==
  /\ privilege >= SUPERVISOR
  /\ satp' = root
  /\ UNCHANGED <<mem, status, pbmte, privilege, pmpcfg, pmpaddr, tlb, tables>>

\* Writes of mstatus, and of sstatus, which reaches SUM and MXR only.
WriteStatus(s) ==
  /\ \/ privilege = MACHINE
     \/ privilege = SUPERVISOR /\ s.MPRV = status.MPRV /\ s.MPP = status.MPP
  /\ status' = s
  /\ UNCHANGED <<mem, satp, pbmte, privilege, pmpcfg, pmpaddr, tlb, tables>>

\* menvcfg: a change of PBMTE flushes.
WriteMenvcfg_NoFlush(b) ==
  /\ privilege = MACHINE
  /\ pbmte' = b
  /\ UNCHANGED <<mem, satp, status, privilege, pmpcfg, pmpaddr, tlb, tables>>
WriteMenvcfg(b) ==
  /\ privilege = MACHINE
  /\ pbmte' = b
  /\ IF b # pbmte THEN flush_translation ELSE UNCHANGED <<tlb, tables>>
  /\ UNCHANGED <<mem, satp, status, privilege, pmpcfg, pmpaddr>>

\* Locked entries keep their configuration; W without R loses W.
KeptLegal(cfg) == cfg
Legal(cfg) ==
  IF "write" \in cfg.perms /\ "read" \notin cfg.perms
  THEN [cfg EXCEPT !.perms = @ \ {"write"}] ELSE cfg
WritePmpCfg(new) ==
  /\ privilege = MACHINE
  /\ pmpcfg' = [n \in Pmps |-> IF pmpcfg[n].lock THEN pmpcfg[n] ELSE Legal(new[n])]
  /\ flush_translation
  /\ UNCHANGED <<mem, satp, status, pbmte, privilege, pmpaddr>>

\* An address is locked with its entry, and with the next one if that is TOR:
\* it is then the bottom of a locked region.
LockedByItself(n) == pmpcfg[n].lock
AddressLocked(n) ==
  \/ pmpcfg[n].lock
  \/ n + 1 \in Pmps /\ pmpcfg[n + 1].lock /\ pmpcfg[n + 1].mode = TOR
WritePmpAddr(n, a) ==
  /\ privilege = MACHINE
  /\ pmpaddr' = IF AddressLocked(n) THEN pmpaddr ELSE [pmpaddr EXCEPT ![n] = a]
  /\ flush_translation
  /\ UNCHANGED <<mem, satp, status, pbmte, privilege, pmpcfg>>

\* take_trap, MRET and SRET, for what they do to the fields modelled here.
Trap(p) ==
  /\ p \in {SUPERVISOR, MACHINE} /\ p >= privilege
  /\ privilege' = p
  /\ status' = IF p = MACHINE THEN [status EXCEPT !.MPP = privilege] ELSE status
  /\ UNCHANGED <<mem, satp, pbmte, pmpcfg, pmpaddr, tlb, tables>>
MRET ==
  /\ privilege = MACHINE
  /\ privilege' = status.MPP
  /\ status' = [status EXCEPT !.MPP = USER, !.MPRV = @ /\ status.MPP = MACHINE]
  /\ UNCHANGED <<mem, satp, pbmte, pmpcfg, pmpaddr, tlb, tables>>
SRET(p) ==
  /\ privilege >= SUPERVISOR /\ p \in {USER, SUPERVISOR}
  /\ privilege' = p
  /\ status' = [status EXCEPT !.MPRV = FALSE]
  /\ UNCHANGED <<mem, satp, pbmte, pmpcfg, pmpaddr, tlb, tables>>

-----------------------------------------------------------------------------

Init ==
  /\ mem = InitialTables /\ tables = {InitialTables}
  /\ satp = Bare
  /\ status = [SUM |-> FALSE, MXR |-> FALSE, MPRV |-> FALSE, MPP |-> USER]
  /\ pbmte = FALSE
  /\ privilege = MACHINE
  /\ pmpcfg = [n \in Pmps |-> [mode |-> OFF, perms |-> {}, lock |-> FALSE]]
  /\ pmpaddr = [n \in Pmps |-> 0]
  /\ tlb = EmptyTlb

Next ==
  \/ \E vp \in VirtualPages, access \in Accesses :
       \/ \E offset \in 0 .. PageSize - 1, size \in 1 .. 2 : Access(vp, offset, size, access)
       \/ LoadSplit(vp, 1, 1, access)
  \/ \E s \in PteStores : StorePte(s[1], s[2], s[3])
  \/ SFENCE
  \/ \E root \in Roots : WriteSatp(root)
  \/ \E s \in StatusWrites : WriteStatus(s)
  \/ \E b \in PbmteWrites : WriteMenvcfg(b)
  \/ \E new \in PmpCfgWrites : WritePmpCfg(new)
  \/ \E w \in PmpAddrWrites : WritePmpAddr(w[1], w[2])
  \/ \E p \in Privileges : Trap(p) \/ SRET(p)
  \/ MRET

Spec == Init /\ [][Next]_vars

-----------------------------------------------------------------------------
(* Properties *)

Contexts ==
  [vp : Int, privilege : Privileges, SUM : BOOLEAN, MXR : BOOLEAN, satp : Nat \cup {Bare}]
TlbEntry == [tag : Contexts, page : Nat]
\* Every variable has its type; a PMP entry is never writable without being
\* readable.
TypeOK ==
  /\ mem \in Tables /\ tables \subseteq Tables
  /\ satp \in Nat \cup {Bare}
  /\ status \in Status
  /\ pbmte \in BOOLEAN
  /\ privilege \in Privileges
  /\ pmpcfg \in [Pmps -> PmpCfg] /\ pmpaddr \in [Pmps -> Nat]
  /\ tlb \in [{FETCH, LOAD, STORE} -> [0 .. TLB_ENTRIES - 1 -> TlbEntry]]
  /\ \A n \in Pmps : "write" \in pmpcfg[n].perms => "read" \in pmpcfg[n].perms

\* What a cached translation answers without walking is what a walk would,
\* checks of permissions and of PMP included, for every access within the page,
\* in the present address space, privilege and mode, over page tables in memory
\* at some time since the last flush.
TlbCoherent ==
  \A vp \in VirtualPages, access \in Accesses :
    Hit(tlb, vp, access) =>
      \E m \in tables : \A offset \in 0 .. PageSize - 1 : \A size \in 1 .. PageSize - offset :
        translate(m, Context(vp, access), offset, size, access)
          = Ok(EntryFor(tlb, vp, access).page)

\* The invariant behind it: every entry, of whatever address space, privilege and
\* mode, still answers for its whole page in the context of its tag.
Answers(e, access) ==
  \E m \in tables : \A offset \in 0 .. PageSize - 1 : \A size \in 1 .. PageSize - offset :
    translate(m, e.tag, offset, size, access) = Ok(e.page)
EntriesAnswer ==
  /\ mem \in tables
  /\ \A access \in {FETCH, LOAD, STORE}, i \in 0 .. TLB_ENTRIES - 1 :
       tlb[access][i] # Empty => Answers(tlb[access][i], access)

\* A locked PMP entry guards the same granules with the same permissions for
\* good: neither its own registers nor the address of the entry below, which is
\* the bottom of a TOR region, can move.
LockedPmpImmutable ==
  [][\A n \in Pmps : pmpcfg[n].lock =>
       pmpcfg'[n] = pmpcfg[n] /\ Low(n)' = Low(n) /\ High(n)' = High(n)]_vars
=============================================================================
