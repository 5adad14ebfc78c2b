----------------------------- MODULE MmuProofs -----------------------------
(***************************************************************************)
(* Proofs about address translation, for every page-table shape, number of *)
(* PMP entries and size of the caches.                                     *)
(***************************************************************************)
EXTENDS Mmu, FiniteSetTheorems, WellFoundedInduction, TLAPS

\* A nonempty set of naturals has a least element, and a bounded one a greatest.
LEMMA Least ==
  ASSUME NEW S \in SUBSET Nat, S # {}
  PROVE  \E n \in S : \A m \in S : n <= m
<1>1. \E x \in S : \A y \in S : ~ (<<y, x>> \in OpToRel(<, Nat))
  BY NatLessThanWellFounded, WFMin
<1>2. PICK x \in S : \A y \in S : ~ (<<y, x>> \in OpToRel(<, Nat))
  BY <1>1
<1>3. \A y \in S : ~ (y < x)
  BY <1>2 DEF OpToRel
<1> QED
  BY <1>3

LEMMA Greatest ==
  ASSUME NEW b \in Nat, NEW S \in SUBSET (0 .. b), S # {}
  PROVE  \E n \in S : \A m \in S : m <= n
<1> DEFINE T == {d \in Nat : b - d \in S}
<1>1. T \in SUBSET Nat
  OBVIOUS
<1>2. PICK s \in S : TRUE
  OBVIOUS
<1>3. b - (b - s) = s /\ b - s \in Nat
  OBVIOUS
<1>4. b - s \in T
  BY <1>2, <1>3
<1> HIDE DEF T
<1>5. PICK n \in T : \A m \in T : n <= m
  BY <1>1, <1>4, Least
<1> USE DEF T
<1>6. b - n \in S
  BY <1>5
<1>7. \A m \in S : b - m \in T
  OBVIOUS
<1> QED
  BY <1>5, <1>6, <1>7

-----------------------------------------------------------------------------
(* Physical memory protection *)

\* Regions are bounded by integers.
PmpTyped == pmpcfg \in [Pmps -> PmpCfg] /\ pmpaddr \in [Pmps -> Nat]

LEMMA OnesAreNatural ==
  ASSUME NEW a \in Nat
  PROVE  TrailingOnes(a) \in Nat
<1> DEFINE S == {k \in 0 .. a : a % 2^(k + 1) = 2^(k + 1) - 1}
<1>1. S \subseteq 0 .. a
  OBVIOUS
<1>2. IsFiniteSet(0 .. a)
  BY FS_Interval
<1> HIDE DEF S
<1>3. Cardinality(S) \in Nat
  BY <1>1, <1>2, FS_Subset, FS_CardinalityType
<1> QED
  BY <1>3 DEF S, TrailingOnes

LEMMA RegionsAreIntegers ==
  ASSUME PmpTyped, NEW n \in Pmps
  PROVE  Low(n) \in Int /\ High(n) \in Int
<1> DEFINE Ones == 2^TrailingOnes(pmpaddr[n])
           Size == 2^(TrailingOnes(pmpaddr[n]) + 1)
<1>1. pmpaddr[n] \in Nat /\ (n # 0 => pmpaddr[n - 1] \in Nat)
  BY SizesAssumption DEF PmpTyped, Pmps
<1>2. TrailingOnes(pmpaddr[n]) \in Nat
  BY <1>1, OnesAreNatural
<1>3. Ones \in Int /\ Size \in Int
  BY <1>2, SMT
<1>4. Low(n) \in Int
  BY <1>1, <1>3 DEF Low
<1> QED
  BY <1>1, <1>3, <1>4 DEF High

\* The deciding entry exists, overlaps the access and precedes the others.
LEMMA DeciderDecides ==
  ASSUME NEW addr, NEW size, Matching(addr, size) # {}
  PROVE  /\ Decider(addr, size) \in Matching(addr, size)
         /\ \A m \in Matching(addr, size) : Decider(addr, size) <= m
<1>1. Matching(addr, size) \in SUBSET Nat
  BY SizesAssumption DEF Matching, Pmps
<1>2. \E n \in Matching(addr, size) : \A m \in Matching(addr, size) : n <= m
  BY <1>1, Least
<1> QED
  BY <1>2 DEF Decider

\* What PMP allows on a range, it allows on every part of it: the check of a whole
\* page that cached_translate makes speaks for all the accesses within it.
LEMMA PmpOfPart ==
  ASSUME PmpTyped,
         NEW base \in Int, NEW len \in Int, NEW addr \in Int, NEW size \in Int,
         base <= addr, addr + size <= base + len, 0 < size,
         NEW access, NEW p, pmp_check(base, len, access, p)
  PROVE  pmp_check(addr, size, access, p)
<1>1. \A n \in Pmps : Low(n) \in Int /\ High(n) \in Int
  BY RegionsAreIntegers
<1>2. Matching(addr, size) \subseteq Matching(base, len)
  BY <1>1 DEF Matching
<1>3. CASE Matching(base, len) = {}
  BY <1>2, <1>3 DEF pmp_check
<1>4. CASE Matching(base, len) # {}
  <2> DEFINE n == Decider(base, len)
  <2>1. /\ n \in Matching(base, len)
        /\ \A m \in Matching(base, len) : n <= m
    BY <1>4, DeciderDecides
  <2>2. n \in Pmps /\ pmpcfg[n].mode # OFF
    BY <2>1 DEF Matching
  <2>3. base >= Low(n) /\ base + len <= High(n) /\ Permits(n, access, p)
    BY <1>4 DEF pmp_check
  <2> HIDE DEF n
  <2>4. addr >= Low(n) /\ addr + size <= High(n)
    BY <1>1, <2>2, <2>3
  <2>5. n \in Matching(addr, size)
    BY <1>1, <2>2, <2>4 DEF Matching
  <2>6. Decider(addr, size) \in Matching(addr, size)
        /\ \A m \in Matching(addr, size) : Decider(addr, size) <= m
    BY <2>5, DeciderDecides
  <2>7. Decider(addr, size) = n
    BY <1>2, <2>1, <2>5, <2>6, SizesAssumption DEF Matching, Pmps
  <2> QED
    BY <2>3, <2>4, <2>5, <2>7 DEF pmp_check
<1> QED
  BY <1>3, <1>4

-----------------------------------------------------------------------------
(* The walk *)

\* A page-table entry read by a walk is one, and a page it leads to is a page.
LEMMA WalkFindsPages ==
  ASSUME NEW m \in Tables, NEW c \in Contexts, NEW access, c.vp \in Nat
  PROVE  /\ Found(m, c, access).fault = "none" => Found(m, c, access).page \in Nat
         /\ Found(m, c, access) = [fault |-> Found(m, c, access).fault,
                                  page |-> Found(m, c, access).page]
<1> DEFINE seen(level) == Examine(m, TableOf(m, c)[level], level, c, access)
           ends == {level \in 0 .. Levels - 1 : seen(level) # Descend}
           top == CHOOSE t \in ends : \A level \in ends : level <= t
           Good(r) == r = [fault |-> r.fault, page |-> r.page] /\ r.page \in Nat
<1>1. ASSUME NEW level \in 0 .. Levels - 1, NEW table
      PROVE  Good(Examine(m, table, level, c, access))
  <2> DEFINE index == VpnIndex(c.vp, level)
             pte == PteAt(m, table, index)
  <2>1. LevelPages[level] \in Nat \ {0}
    BY SizesAssumption
  <2>2. index \in Indices
    <3> DEFINE digits == c.vp \div LevelPages[level]
    <3>1. digits \in Int
      BY <2>1
    <3> HIDE DEF digits
    <3>2. digits % Radix \in 0 .. Radix - 1
      BY <3>1, SizesAssumption
    <3> QED
      BY <3>2 DEF digits, VpnIndex, Indices
  <2>3. pte.ppn \in Nat
    BY <2>2 DEF PteAt, Tables, Pte, NoPte
  <2>4. pte.ppn + (c.vp % LevelPages[level]) \in Nat
    BY <2>1, <2>3
  <2> HIDE DEF pte, index
  <2>5. Good(Leaf(pte, level, c, access))
    BY <2>4 DEF Leaf, PageFault, Ok
  <2>6. Good(AccessFault) /\ Good(PageFault) /\ Good(Descend)
    BY DEF AccessFault, PageFault, Descend
  <2> HIDE DEF Good
  <2> QED
    BY <2>5, <2>6 DEF Examine, pte, index
<1>2. ends # {} => top \in ends
  <2>1. SUFFICES ASSUME ends # {} PROVE top \in ends
    OBVIOUS
  <2>2. ends \in SUBSET (0 .. Levels - 1) /\ Levels - 1 \in Nat
    BY SizesAssumption
  <2> HIDE DEF ends
  <2>3. \E t \in ends : \A level \in ends : level <= t
    BY <2>1, <2>2, Greatest
  <2> QED
    BY <2>3
<1>3. Good(Walk(m, c, access))
  <2>1. Good(PageFault)
    BY DEF PageFault
  <2>2. ends # {} => Good(seen(top))
    <3>1. ends # {} => top \in 0 .. Levels - 1
      BY <1>2
    <3> HIDE DEF top, ends, Good
    <3> QED
      BY <3>1, <1>1
  <2> HIDE DEF Good
  <2> QED
    BY <2>1, <2>2 DEF Walk
<1>4. Good(Ok(c.vp))
  BY DEF Ok
<1> QED
  BY <1>3, <1>4 DEF Found

\* A tag stands for the context it was made in: machine mode does not read satp.
LEMMA TagStandsForContext ==
  ASSUME NEW m, NEW vp, NEW access, NEW offset, NEW size
  PROVE  translate(m, Tag(vp, access), offset, size, access)
           = translate(m, Context(vp, access), offset, size, access)
<1>1. CASE effective_privilege(access) = MACHINE
  BY <1>1 DEF translate, Found, Tag, Context
<1>2. CASE effective_privilege(access) # MACHINE
  <2>1. Tag(vp, access) = Context(vp, access)
    BY <1>2 DEF Tag, Context
  <2> QED
    BY <2>1
<1> QED
  BY <1>1, <1>2

-----------------------------------------------------------------------------
(* A lookup keeps the cache sound *)

TlbType == [{FETCH, LOAD, STORE} -> [0 .. TLB_ENTRIES - 1 -> TlbEntry]]
CacheAnswers(cache) ==
  \A access \in {FETCH, LOAD, STORE}, i \in 0 .. TLB_ENTRIES - 1 :
    cache[access][i] # Empty => Answers(cache[access][i], access)

LEMMA ContextsAreTyped ==
  ASSUME TypeOK, NEW vp \in Nat, NEW access
  PROVE  Context(vp, access) \in Contexts /\ Tag(vp, access) \in Contexts
<1>1. effective_privilege(access) \in Privileges
  BY DEF TypeOK, Status, effective_privilege
<1>2. status.SUM \in BOOLEAN /\ status.MXR \in BOOLEAN /\ satp \in Nat \cup {Bare}
  BY DEF TypeOK, Status
<1> QED
  BY <1>1, <1>2 DEF Context, Tag, Contexts

\* A translation of any part of a page PMP treats as one holds for every part.
LEMMA PageAnswersForParts ==
  ASSUME TypeOK, mem \in tables, NEW vp \in Nat, NEW access, NEW offset, NEW size,
         translate(mem, Context(vp, access), offset, size, access).fault = "none",
         WholePage(translate(mem, Context(vp, access), offset, size, access).page, access)
  PROVE  LET e == WithPage(Tag(vp, access),
                    translate(mem, Context(vp, access), offset, size, access).page)
         IN Answers(e, access) /\ e \in TlbEntry
<1> DEFINE c == Context(vp, access)
           f == Found(mem, c, access)
           found == translate(mem, c, offset, size, access)
           e == WithPage(Tag(vp, access), found.page)
<1>1. c \in Contexts /\ c.vp = vp /\ c.privilege = effective_privilege(access)
  BY ContextsAreTyped DEF Context
<1>2. mem \in Tables
  BY DEF TypeOK
<1>3. found = f /\ f.fault = "none"
  BY DEF translate, AccessFault
<1>4. f.page \in Nat /\ f = [fault |-> f.fault, page |-> f.page]
  BY <1>1, <1>2, <1>3, WalkFindsPages
<1>5. f = Ok(f.page)
  BY <1>3, <1>4 DEF Ok
<1>6. pmp_check(f.page * PageSize, PageSize, access, c.privilege)
  BY <1>1, <1>3 DEF WholePage
<1>7. PmpTyped /\ PageSize \in Nat
  BY SizesAssumption DEF TypeOK, PmpTyped, PageSize
<1>8. e.tag = Tag(vp, access) /\ e.page = f.page
  BY <1>3 DEF WithPage
<1> HIDE DEF c, f, found, e
<1>9. ASSUME NEW o \in 0 .. PageSize - 1, NEW s \in 1 .. PageSize - o
      PROVE  translate(mem, e.tag, o, s, access) = Ok(e.page)
  <2> DEFINE base == f.page * PageSize
  <2>1. base \in Int
    BY <1>4, <1>7
  <2>2. pmp_check(base, PageSize, access, c.privilege)
    BY <1>6
  <2> HIDE DEF base
  <2>3. pmp_check(base + o, s, access, c.privilege)
    BY <2>1, <2>2, <1>7, PmpOfPart
  <2>4. translate(mem, c, o, s, access) = f
    BY <2>3, <1>3 DEF translate, base, f
  <2> QED
    BY <2>4, <1>5, <1>8, TagStandsForContext DEF c
<1>10. Answers(e, access)
  BY <1>9 DEF Answers
<1>11. e \in TlbEntry
  BY <1>4, <1>8, ContextsAreTyped DEF TlbEntry, e, WithPage
<1> QED
  BY <1>10, <1>11 DEF e, found, c

LEMMA LookupKeepsAnswers ==
  ASSUME TypeOK, mem \in tables, NEW cache \in TlbType, CacheAnswers(cache),
         NEW vp \in Nat, NEW access \in {FETCH, LOAD, STORE}, NEW offset, NEW size
  PROVE  /\ cached_translate(cache, vp, offset, size, access) \in TlbType
         /\ CacheAnswers(cached_translate(cache, vp, offset, size, access))
<1> DEFINE found == translate(mem, Context(vp, access), offset, size, access)
           e == WithPage(Tag(vp, access), found.page)
           i == TlbIndex(vp)
           filled == [cache EXCEPT ![access][i] = e]
<1>1. CASE found.fault = "none" /\ WholePage(found.page, access)
  <2>1. Answers(e, access) /\ e \in TlbEntry
    BY <1>1, PageAnswersForParts
  <2>2. i \in 0 .. TLB_ENTRIES - 1
    BY SizesAssumption DEF TlbIndex
  <2> HIDE DEF e, i, found
  <2>3. filled \in TlbType
    BY <2>1, <2>2 DEF TlbType
  <2>4. CacheAnswers(filled)
    BY <2>1, <2>2 DEF CacheAnswers, TlbType
  <2>5. cached_translate(cache, vp, offset, size, access) \in {cache, filled}
    BY DEF cached_translate, e, i, found
  <2> QED
    BY <2>3, <2>4, <2>5
<1>2. CASE ~ (found.fault = "none" /\ WholePage(found.page, access))
  BY <1>2 DEF cached_translate
<1> QED
  BY <1>1, <1>2

-----------------------------------------------------------------------------
(* What a step changes *)

\* PMP and the walk depend on the PMP registers and on PBMTE, and otherwise on the
\* page tables and the context alone.
LEMMA TranslationStable ==
  ASSUME UNCHANGED <<pbmte, pmpcfg, pmpaddr>>,
         NEW m, NEW c, NEW offset, NEW size, NEW access
  PROVE  translate(m, c, offset, size, access)' = translate(m, c, offset, size, access)
<1>1. \A n : Low(n)' = Low(n) /\ High(n)' = High(n)
  BY DEF Low, High
<1>2. \A a, s : Matching(a, s)' = Matching(a, s)
  BY <1>1 DEF Matching
<1>3. \A a, s : Decider(a, s)' = Decider(a, s)
  BY <1>2 DEF Decider
<1>4. \A n, x, p : Permits(n, x, p)' <=> Permits(n, x, p)
  BY DEF Permits
<1>5. \A a, s, x, p : pmp_check(a, s, x, p)' <=> pmp_check(a, s, x, p)
  BY <1>1, <1>2, <1>3, <1>4 DEF pmp_check
<1>6. \A pte : Malformed(pte)' <=> Malformed(pte)
  BY DEF Malformed
<1>7. \A table, level : Examine(m, table, level, c, access)' = Examine(m, table, level, c, access)
  BY <1>5, <1>6 DEF Examine
<1>8. Walk(m, c, access)' = Walk(m, c, access)
  BY <1>7 DEF Walk
<1>9. Found(m, c, access)' = Found(m, c, access)
  BY <1>8 DEF Found
<1> QED
  BY <1>5, <1>9 DEF translate

\* A cache goes on answering while nothing moves the walk's registers: stores of
\* page-table entries only add to the tables it may reflect.
LEMMA AnswersStable ==
  ASSUME UNCHANGED <<pbmte, pmpcfg, pmpaddr>>, tables \subseteq tables',
         NEW cache, CacheAnswers(cache)
  PROVE  CacheAnswers(cache)'
<1>1. \A m, c, offset, size, access :
        translate(m, c, offset, size, access)' = translate(m, c, offset, size, access)
  BY TranslationStable
<1>2. ASSUME NEW e, NEW access, Answers(e, access)
      PROVE  Answers(e, access)'
  BY <1>1, <1>2 DEF Answers
<1> QED
  BY <1>2 DEF CacheAnswers

\* A flush leaves nothing to answer.
LEMMA FlushedCacheAnswers ==
  ASSUME flush_translation
  PROVE  tlb' \in TlbType /\ CacheAnswers(tlb)' /\ tables' = {mem}
<1>1. Empty \in TlbEntry
  BY DEF Empty, TlbEntry, Contexts, Privileges, USER, SUPERVISOR, MACHINE, Bare
<1>2. tlb' \in TlbType
  BY <1>1 DEF flush_translation, EmptyTlb, TlbType
<1>3. \A access \in {FETCH, LOAD, STORE}, i \in 0 .. TLB_ENTRIES - 1 : tlb'[access][i] = Empty
  BY DEF flush_translation, EmptyTlb
<1> QED
  BY <1>2, <1>3 DEF flush_translation, CacheAnswers

-----------------------------------------------------------------------------
(* The invariants *)

Invariant == TypeOK /\ EntriesAnswer

\* TypeOK but for the cache and the history, which each step keeps for its own
\* reasons.
RegistersTyped ==
  /\ mem \in Tables
  /\ satp \in Nat \cup {Bare} /\ status \in Status /\ pbmte \in BOOLEAN
  /\ privilege \in Privileges
  /\ pmpcfg \in [Pmps -> PmpCfg] /\ pmpaddr \in [Pmps -> Nat]
  /\ \A n \in Pmps : "write" \in pmpcfg[n].perms => "read" \in pmpcfg[n].perms
CacheSound ==
  /\ tables \subseteq Tables /\ mem \in tables
  /\ tlb \in TlbType /\ CacheAnswers(tlb)

LEMMA Parts == Invariant <=> RegistersTyped /\ CacheSound
  BY DEF Invariant, TypeOK, EntriesAnswer, RegistersTyped, CacheSound, TlbType, CacheAnswers

LEMMA InitInvariant == Init => Invariant
<1> SUFFICES ASSUME Init PROVE Invariant
  OBVIOUS
<1>1. RegistersTyped
  <2>1. status \in Status /\ privilege \in Privileges
    BY DEF Init, Status, Privileges, USER
  <2>2. [mode |-> OFF, perms |-> {}, lock |-> FALSE] \in PmpCfg
    BY DEF PmpCfg, OFF, NAPOT
  <2>3. \A n \in Pmps : pmpcfg[n].perms = {}
    BY DEF Init
  <2> QED
    BY <2>1, <2>2, <2>3, InputsAssumption DEF Init, RegistersTyped
<1>2. Empty \in TlbEntry
  BY DEF Empty, TlbEntry, Contexts, Privileges, USER, SUPERVISOR, MACHINE, Bare
<1>3. tlb \in TlbType /\ CacheAnswers(tlb)
  BY <1>2 DEF Init, EmptyTlb, TlbType, CacheAnswers
<1>4. tables \subseteq Tables /\ mem \in tables
  BY InputsAssumption DEF Init
<1> QED
  BY <1>1, <1>3, <1>4, Parts DEF CacheSound

\* The registers keep their types whatever software does.
LEMMA StepRegisters ==
  ASSUME RegistersTyped, [Next]_vars
  PROVE  RegistersTyped'
<1> USE DEF RegistersTyped
<1>1. CASE \E vp \in VirtualPages, access \in Accesses :
             \/ \E offset \in 0 .. PageSize - 1, size \in 1 .. 2 : Access(vp, offset, size, access)
             \/ LoadSplit(vp, 1, 1, access)
  BY <1>1 DEF Access, LoadSplit, context
<1>2. CASE \E s \in PteStores : StorePte(s[1], s[2], s[3])
  BY <1>2, InputsAssumption DEF StorePte, context, Tables
<1>3. CASE SFENCE
  BY <1>3 DEF SFENCE, context
<1>4. CASE \E root \in Roots : WriteSatp(root)
  BY <1>4, InputsAssumption DEF WriteSatp
<1>5. CASE \E s \in StatusWrites : WriteStatus(s)
  BY <1>5, InputsAssumption DEF WriteStatus
<1>6. CASE \E b \in PbmteWrites : WriteMenvcfg(b)
  BY <1>6, InputsAssumption DEF WriteMenvcfg
<1>7. CASE \E new \in PmpCfgWrites : WritePmpCfg(new)
  <2>1. PICK new \in PmpCfgWrites : WritePmpCfg(new)
    BY <1>7
  <2>2. new \in [Pmps -> PmpCfg]
    BY <2>1, InputsAssumption
  <2>3. ASSUME NEW cfg \in PmpCfg
        PROVE  /\ Legal(cfg) \in PmpCfg
               /\ "write" \in Legal(cfg).perms => "read" \in Legal(cfg).perms
    BY DEF Legal, PmpCfg
  <2> QED
    BY <2>1, <2>2, <2>3 DEF WritePmpCfg
<1>8. CASE \E w \in PmpAddrWrites : WritePmpAddr(w[1], w[2])
  BY <1>8, InputsAssumption DEF WritePmpAddr
<1>9. CASE \E p \in Privileges : Trap(p) \/ SRET(p)
  BY <1>9 DEF Trap, SRET, Status, Privileges
<1>10. CASE MRET
  BY <1>10 DEF MRET, Status, Privileges
<1>11. CASE UNCHANGED vars
  BY <1>11 DEF vars
<1> QED
  BY <1>1, <1>2, <1>3, <1>4, <1>5, <1>6, <1>7, <1>8, <1>9, <1>10, <1>11 DEF Next

\* Every lookup fills the cache soundly, and everything that could unsettle what it
\* holds, other than a store of a page-table entry, flushes it.
LEMMA StepCache ==
  ASSUME Invariant, [Next]_vars
  PROVE  CacheSound'
<1> USE Parts DEF CacheSound
<1>typed. TypeOK /\ mem \in tables /\ mem \in Tables
  BY DEF Invariant, EntriesAnswer, TypeOK
<1>still. ASSUME UNCHANGED <<mem, pbmte, pmpcfg, pmpaddr, tables>>,
                 tlb' \in TlbType, CacheAnswers(tlb')
          PROVE  CacheSound'
  <2> DEFINE cache == tlb'
  <2>1. CacheAnswers(cache)
    BY <1>still
  <2>2. \A e, access : Answers(e, access) => Answers(e, access)'
    <3>1. \A m, c, offset, size, access :
            translate(m, c, offset, size, access)' = translate(m, c, offset, size, access)
      BY <1>still, TranslationStable
    <3> QED
      BY <3>1, <1>still DEF Answers
  <2>3. CacheAnswers(tlb)'
    BY <2>1, <2>2 DEF CacheAnswers
  <2> QED
    BY <1>still, <2>3
<1>flushed. ASSUME flush_translation, mem' = mem PROVE CacheSound'
  BY <1>flushed, <1>typed, FlushedCacheAnswers
<1>1. ASSUME NEW vp \in VirtualPages, NEW access \in Accesses, NEW offset, NEW size,
             Access(vp, offset, size, access)
      PROVE  CacheSound'
  <2>1. vp \in Nat /\ access \in {FETCH, LOAD, STORE}
    BY SizesAssumption
  <2>2. tlb' \in TlbType /\ CacheAnswers(tlb')
    BY <1>1, <1>typed, <2>1, LookupKeepsAnswers DEF Access
  <2> QED
    BY <1>1, <2>2, <1>still DEF Access, context
<1>2. ASSUME NEW vp \in VirtualPages, NEW access \in Accesses, LoadSplit(vp, 1, 1, access)
      PROVE  CacheSound'
  <2> DEFINE first == cached_translate(tlb, vp, PageSize - 1, 1, access)
             second == cached_translate(first, vp + 1, 0, 1, access)
  <2>1. vp \in Nat /\ vp + 1 \in Nat /\ access \in {FETCH, LOAD, STORE}
    BY SizesAssumption
  <2>2. first \in TlbType /\ CacheAnswers(first)
    BY <1>typed, <2>1, LookupKeepsAnswers
  <2>3. tlb' \in {first, second}
    BY <1>2 DEF LoadSplit
  <2> HIDE DEF first
  <2>4. second \in TlbType /\ CacheAnswers(second)
    BY <1>typed, <2>1, <2>2, LookupKeepsAnswers
  <2> HIDE DEF second
  <2>5. tlb' \in TlbType /\ CacheAnswers(tlb')
    BY <2>2, <2>3, <2>4
  <2> QED
    BY <1>2, <2>5, <1>still DEF LoadSplit, context
<1>3. CASE \E s \in PteStores : StorePte(s[1], s[2], s[3])
  <2>1. UNCHANGED <<tlb, pbmte, pmpcfg, pmpaddr>> /\ tables' = tables \cup {mem'}
    BY <1>3 DEF StorePte, context
  <2>2. mem' \in Tables
    BY <1>3, <1>typed, InputsAssumption DEF StorePte, Tables
  <2>3. CacheAnswers(tlb)'
    BY <2>1, AnswersStable DEF CacheAnswers
  <2> QED
    BY <2>1, <2>2, <2>3
<1>4. CASE SFENCE
  BY <1>4, <1>flushed DEF SFENCE
<1>5. CASE \E root \in Roots : WriteSatp(root)
  BY <1>5, <1>still DEF WriteSatp
<1>6. CASE \E s \in StatusWrites : WriteStatus(s)
  BY <1>6, <1>still DEF WriteStatus
<1>7. CASE \E b \in PbmteWrites : WriteMenvcfg(b)
  BY <1>7, <1>still, <1>flushed DEF WriteMenvcfg
<1>8. CASE \E new \in PmpCfgWrites : WritePmpCfg(new)
  BY <1>8, <1>flushed DEF WritePmpCfg
<1>9. CASE \E w \in PmpAddrWrites : WritePmpAddr(w[1], w[2])
  BY <1>9, <1>flushed DEF WritePmpAddr
<1>10. CASE \E p \in Privileges : Trap(p) \/ SRET(p)
  BY <1>10, <1>still DEF Trap, SRET
<1>11. CASE MRET
  BY <1>11, <1>still DEF MRET
<1>12. CASE UNCHANGED vars
  BY <1>12, <1>still DEF vars
<1> QED
  BY <1>1, <1>2, <1>3, <1>4, <1>5, <1>6, <1>7, <1>8, <1>9, <1>10, <1>11, <1>12 DEF Next

LEMMA AlwaysInvariant == Spec => []Invariant
<1>1. Invariant /\ [Next]_vars => RegistersTyped' /\ CacheSound'
  BY Parts, StepRegisters, StepCache
<1>2. RegistersTyped' /\ CacheSound' => Invariant'
  BY DEF Invariant, TypeOK, EntriesAnswer, RegistersTyped, CacheSound, TlbType, CacheAnswers
<1> QED
  BY <1>1, <1>2, InitInvariant, PTL DEF Spec

\* Every register, table and cache entry keeps its type, and no PMP entry becomes
\* writable without being readable.
THEOREM TypeCorrect == Spec => []TypeOK
<1>1. Invariant => TypeOK
  BY DEF Invariant
<1> QED
  BY <1>1, AlwaysInvariant, PTL

\* Every cached translation, of whatever context, answers for its whole page as a
\* walk of page tables in memory since the last flush would.
THEOREM EntriesStayCorrect == Spec => []EntriesAnswer
<1>1. Invariant => EntriesAnswer
  BY DEF Invariant
<1> QED
  BY <1>1, AlwaysInvariant, PTL

\* So what a hit answers without walking is what the walk and PMP allow.
THEOREM TlbIsCoherent == Spec => []TlbCoherent
<1>1. ASSUME TypeOK, EntriesAnswer PROVE TlbCoherent
  <2> SUFFICES ASSUME NEW vp \in VirtualPages, NEW access \in Accesses, Hit(tlb, vp, access)
               PROVE  \E m \in tables :
                        \A offset \in 0 .. PageSize - 1 : \A size \in 1 .. PageSize - offset :
                          translate(m, Context(vp, access), offset, size, access)
                            = Ok(EntryFor(tlb, vp, access).page)
    BY DEF TlbCoherent
  <2> DEFINE e == EntryFor(tlb, vp, access)
  <2>1. vp \in Nat /\ access \in {FETCH, LOAD, STORE}
    BY SizesAssumption
  <2>2. TlbIndex(vp) \in 0 .. TLB_ENTRIES - 1
    BY <2>1, SizesAssumption DEF TlbIndex
  <2>3. e.tag = Tag(vp, access)
    BY DEF Hit
  <2>4. e # Empty
    BY <2>1, <2>3 DEF Tag, Empty
  <2>5. Answers(e, access)
    BY <1>1, <2>1, <2>2, <2>4 DEF EntriesAnswer, EntryFor
  <2> QED
    BY <2>3, <2>5, TagStandsForContext DEF Answers
<1> QED
  BY <1>1, TypeCorrect, EntriesStayCorrect, PTL

\* A locked PMP entry guards its region for good.
THEOREM LockedPmpStays == Spec => LockedPmpImmutable
<1> DEFINE Stays == \A n \in Pmps : pmpcfg[n].lock =>
                      pmpcfg'[n] = pmpcfg[n] /\ Low(n)' = Low(n) /\ High(n)' = High(n)
<1>1. ASSUME TypeOK, [Next]_vars PROVE [Stays]_vars
  <2>1. CASE UNCHANGED <<pmpcfg, pmpaddr>>
    BY <2>1 DEF Low, High
  <2>2. ASSUME NEW new \in PmpCfgWrites, WritePmpCfg(new) PROVE Stays
    BY <2>2, <1>1 DEF WritePmpCfg, TypeOK, Low, High
  <2>3. ASSUME NEW w \in PmpAddrWrites, WritePmpAddr(w[1], w[2]) PROVE Stays
    <3> SUFFICES ASSUME NEW n \in Pmps, pmpcfg[n].lock
                 PROVE  pmpcfg'[n] = pmpcfg[n] /\ Low(n)' = Low(n) /\ High(n)' = High(n)
      OBVIOUS
    <3>1. pmpcfg' = pmpcfg /\ pmpaddr'[n] = pmpaddr[n]
      BY <2>3, <1>1 DEF WritePmpAddr, AddressLocked, TypeOK
    <3>2. pmpcfg[n].mode = TOR /\ n # 0 => pmpaddr'[n - 1] = pmpaddr[n - 1]
      BY <2>3, <1>1, SizesAssumption DEF WritePmpAddr, AddressLocked, TypeOK, Pmps
    <3>3. Low(n)' = Low(n)
      BY <3>1, <3>2 DEF Low
    <3> QED
      BY <3>1, <3>3 DEF High
  <2> QED
    BY <2>1, <2>2, <2>3, <1>1 DEF Next, Access, LoadSplit, StorePte, SFENCE, WriteSatp,
       WriteStatus, WriteMenvcfg, Trap, SRET, MRET, context, vars
<1> QED
  BY <1>1, TypeCorrect, PTL DEF Spec, LockedPmpImmutable
=============================================================================
