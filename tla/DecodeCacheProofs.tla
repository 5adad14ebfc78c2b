-------------------------- MODULE DecodeCacheProofs --------------------------
(* What TLAPS proves of DecodeCache for every number of entries, every width *)
(* of the epoch counter and every program.                                   *)
EXTENDS DecodeCache, TLAPS

\* What a fetch finds now is in its history.
PresentInHistory ==
  \A s \in Satps, p \in Privileges, a \in Pcs : code[s][p][a] \in fetchable[s][p][a]

IInv == TypeOK /\ EntriesAreFetchable /\ PresentInHistory

\* A flush steps to the next epoch, or clears the entries and starts at 1.
LEMMA FlushEpoch ==
  ASSUME NEW es, NEW e \in Epochs
  PROVE  \/ /\ e + 1 < EpochMod
            /\ EpochAfterFlush(e) = e + 1 /\ EntriesAfterFlush(es, e) = es
         \/ /\ EpochAfterFlush(e) = 1
            /\ EntriesAfterFlush(es, e) = [i \in Indices |-> Default]
<1>1. (e + 1) % EpochMod = IF e + 1 = EpochMod THEN 0 ELSE e + 1
  BY SizesAssumption DEF Epochs
<1>2. e + 1 # 0 /\ e + 1 <= EpochMod
  BY SizesAssumption DEF Epochs
<1>3. QED
  BY <1>1, <1>2, SizesAssumption DEF EpochAfterFlush, EntriesAfterFlush, Epoch1, Epochs

LEMMA DefaultEntry == Default \in Entry /\ Default.epoch = 0
<1>1. SomeInsn \in Insns
  BY ValuesAssumption DEF SomeInsn
<1>2. QED
  BY <1>1, SizesAssumption, ValuesAssumption DEF Default, Entry, Epochs

\* After a flush no entry is of the current epoch.
LEMMA FlushEmpties ==
  ASSUME IInv
  PROVE  LET es == EntriesAfterFlush(decoded, decode_epoch)
             e == EpochAfterFlush(decode_epoch)
         IN /\ e \in Epochs /\ e > 0
            /\ es \in [Indices -> Entry]
            /\ \A i \in Indices : es[i].epoch < e
<1>1. decode_epoch \in Epochs /\ decoded \in [Indices -> Entry] /\ decode_epoch > 0
  BY DEF IInv, TypeOK, EntriesAreFetchable
<1>2. \A i \in Indices : decoded[i].epoch <= decode_epoch /\ decoded[i].epoch \in Epochs
  BY <1>1 DEF IInv, EntriesAreFetchable, Entry
<1>3. CASE /\ decode_epoch + 1 < EpochMod
           /\ EpochAfterFlush(decode_epoch) = decode_epoch + 1
           /\ EntriesAfterFlush(decoded, decode_epoch) = decoded
  BY <1>1, <1>2, <1>3, SizesAssumption DEF Epochs
<1>4. CASE /\ EpochAfterFlush(decode_epoch) = 1
           /\ EntriesAfterFlush(decoded, decode_epoch) = [i \in Indices |-> Default]
  BY <1>4, DefaultEntry, SizesAssumption DEF Epochs
<1>5. QED
  BY <1>1, <1>3, <1>4, FlushEpoch

\* What the lookup sees after observing satp is typed, and every entry of its
\* epoch was fetched in the current address space.
LEMMA LookupView ==
  ASSUME IInv
  PROVE  /\ EpochNow \in Epochs /\ EpochNow > 0
         /\ EntriesNow \in [Indices -> Entry]
         /\ \A i \in Indices :
              /\ EntriesNow[i].epoch <= EpochNow
              /\ EntriesNow[i].epoch = EpochNow =>
                   /\ EntriesNow[i].pc \in Pcs
                   /\ EntriesNow[i].insn
                        \in fetchable[satp][EntriesNow[i].privilege][EntriesNow[i].pc]
<1>1. CASE SatpMoved
  <2>1. /\ EpochNow = EpochAfterFlush(decode_epoch)
        /\ EntriesNow = EntriesAfterFlush(decoded, decode_epoch)
    BY <1>1 DEF EpochNow, EntriesNow
  <2>2. /\ EpochNow \in Epochs /\ EpochNow > 0
        /\ EntriesNow \in [Indices -> Entry]
        /\ \A i \in Indices : EntriesNow[i].epoch < EpochNow
    BY <2>1, FlushEmpties
  <2>3. QED
    BY <2>2 DEF Entry, Epochs
<1>2. CASE ~ SatpMoved
  <2>1. EpochNow = decode_epoch /\ EntriesNow = decoded /\ decode_satp = satp
    BY <1>2 DEF EpochNow, EntriesNow, SatpMoved
  <2>2. QED
    BY <2>1 DEF IInv, TypeOK, EntriesAreFetchable
<1>3. QED
  BY <1>1, <1>2

LEMMA IndexTyped == pc \in Pcs => IndexOf(pc) \in Indices
  BY SizesAssumption DEF IndexOf, Indices

\* Restricting the history to the present keeps its type.
LEMMA OnlyTyped ==
  ASSUME NEW view \in Views
  PROVE  Only(view) \in Histories
  BY DEF Only, Views, Histories

\* One cell of code or of its history changes in type.
LEMMA CodeTyped ==
  ASSUME TypeOK, NEW cell \in Writable, NEW found \in Insns \cup {Fault}
  PROVE  /\ [code EXCEPT ![cell[1]][cell[2]][cell[3]] = found] \in Views
         /\ [fetchable EXCEPT ![cell[1]][cell[2]][cell[3]] = @ \cup {found}] \in Histories
<1>1. cell[1] \in Satps /\ cell[2] \in Privileges /\ cell[3] \in Pcs
  BY ValuesAssumption
<1>2. QED
  BY <1>1 DEF TypeOK, Views, Histories

\* A flush leaves no entry that the lookup could hit, so any history will do.
LEMMA FlushKeepsInv ==
  ASSUME IInv, flush_instruction
  PROVE  /\ decoded' \in [Indices -> Entry] /\ decode_epoch' \in Epochs
         /\ EntriesAreFetchable'
<1>1. /\ decode_epoch' = EpochAfterFlush(decode_epoch)
      /\ decoded' = EntriesAfterFlush(decoded, decode_epoch)
  BY DEF flush_instruction
<1>2. /\ decode_epoch' \in Epochs /\ decode_epoch' > 0
      /\ decoded' \in [Indices -> Entry]
      /\ \A i \in Indices : decoded'[i].epoch < decode_epoch'
  BY <1>1, FlushEmpties
<1>3. QED
  BY <1>2 DEF EntriesAreFetchable, Entry, Epochs

LEMMA ExecuteKeepsInv ==
  ASSUME IInv, Execute
  PROVE  IInv'
<1>1. /\ decode_satp' = satp /\ decode_epoch' = EpochNow
      /\ UNCHANGED <<code, satp, privilege, fetchable>> /\ pc' \in Pcs
  BY DEF Execute, ExecuteHit, ExecuteMiss, Observe
<1>2. IndexOf(pc) \in Indices /\ pc \in Pcs /\ privilege \in Privileges /\ satp \in Satps
  BY IndexTyped DEF IInv, TypeOK
<1>3. CASE decoded' = EntriesNow
  BY <1>1, <1>3, LookupView DEF IInv, TypeOK, EntriesAreFetchable, PresentInHistory
<1>4. CASE LET found == code[satp][privilege][pc] IN
           /\ found # Fault
           /\ decoded' = [EntriesNow EXCEPT ![IndexOf(pc)] =
                [insn |-> found, pc |-> pc, epoch |-> EpochNow, privilege |-> privilege]]
  <2> DEFINE new == [insn |-> code[satp][privilege][pc], pc |-> pc,
                     epoch |-> EpochNow, privilege |-> privilege]
  <2>1. code[satp][privilege][pc] \in Insns
    BY <1>2, <1>4 DEF IInv, TypeOK, Views
  <2>2. new \in Entry /\ new.epoch = EpochNow /\ new.pc = pc
        /\ new.privilege = privilege /\ new.insn = code[satp][privilege][pc]
    BY <1>2, <2>1, LookupView, SizesAssumption DEF Entry
  <2>3. new.insn \in fetchable[satp][new.privilege][new.pc]
    BY <1>2, <2>2 DEF IInv, PresentInHistory
  <2>4. decoded' = [EntriesNow EXCEPT ![IndexOf(pc)] = new]
    BY <1>4
  <2> HIDE DEF new
  <2>5. /\ decoded' \in [Indices -> Entry]
        /\ \A i \in Indices : decoded'[i] = IF i = IndexOf(pc) THEN new ELSE EntriesNow[i]
    BY <1>2, <2>2, <2>4, LookupView
  <2>6. EntriesAreFetchable'
    BY <1>1, <1>2, <2>2, <2>3, <2>5, LookupView DEF EntriesAreFetchable, Epochs
  <2>7. QED
    BY <1>1, <2>5, <2>6, LookupView DEF IInv, TypeOK, PresentInHistory
<1>5. QED
  BY <1>3, <1>4 DEF Execute, ExecuteHit, ExecuteMiss

\* The strengthened invariant is inductive.
LEMMA Inductive ==
  ASSUME IInv, [Next]_vars
  PROVE  IInv'
<1>1. CASE Execute
  BY <1>1, ExecuteKeepsInv
<1>2. CASE \E p \in Privileges : SetPrivilege(p)
  BY <1>2 DEF SetPrivilege, IInv, TypeOK, EntriesAreFetchable, PresentInHistory
<1>3. CASE \E s \in Satps : WriteSatp(s)
  BY <1>3 DEF WriteSatp, IInv, TypeOK, EntriesAreFetchable, PresentInHistory
<1>4. ASSUME NEW cell \in Writable, NEW found \in Insns \cup {Fault},
             Store(cell[1], cell[2], cell[3], found)
      PROVE  IInv'
  <2>1. TypeOK'
    BY <1>4, CodeTyped DEF Store, IInv, TypeOK
  <2>2. cell[1] \in Satps /\ cell[2] \in Privileges /\ cell[3] \in Pcs
    BY ValuesAssumption
  <2>3. \A s \in Satps, p \in Privileges, a \in Pcs :
          /\ fetchable[s][p][a] \subseteq fetchable'[s][p][a]
          /\ code'[s][p][a] \in fetchable'[s][p][a]
    BY <1>4, <2>2 DEF Store, IInv, TypeOK, PresentInHistory, Views, Histories
  <2>4. EntriesAreFetchable'
    BY <1>4, <2>3 DEF Store, IInv, TypeOK, EntriesAreFetchable, Entry
  <2>5. QED
    BY <2>1, <2>3, <2>4 DEF IInv, PresentInHistory
<1>5. CASE FenceI
  BY <1>5, FlushKeepsInv, OnlyTyped DEF FenceI, flush_instruction, IInv, TypeOK, PresentInHistory, Only
<1>6. ASSUME NEW cell \in Writable, NEW found \in Insns \cup {Fault},
             FlushTranslation(cell[1], cell[2], cell[3], found)
      PROVE  IInv'
  <2>1. code' \in Views /\ fetchable' = Only(code)'
    BY <1>6, CodeTyped DEF FlushTranslation, IInv
  <2>2. fetchable' \in Histories /\ PresentInHistory'
    BY <2>1, OnlyTyped DEF PresentInHistory, Only
  <2>3. QED
    BY <1>6, <2>1, <2>2, FlushKeepsInv DEF FlushTranslation, flush_instruction, IInv, TypeOK
<1>7. CASE UNCHANGED vars
  BY <1>7 DEF vars, IInv, TypeOK, EntriesAreFetchable, PresentInHistory
<1>8. QED
  BY <1>1, <1>2, <1>3, <1>4, <1>5, <1>6, <1>7 DEF Next

\* The reset entries are of epoch 0, which is never current.
LEMMA Initial == Init => IInv
<1>1. SUFFICES ASSUME Init PROVE IInv
  OBVIOUS
<1>2. TypeOK
  BY <1>1, DefaultEntry, OnlyTyped, SizesAssumption, ValuesAssumption
     DEF Init, TypeOK, Epochs
<1>3. EntriesAreFetchable
  BY <1>1, DefaultEntry DEF Init, EntriesAreFetchable
<1>4. PresentInHistory
  BY <1>1 DEF Init, PresentInHistory, Only
<1>5. QED
  BY <1>2, <1>3, <1>4 DEF IInv

\* The types of the cache, its epoch counter among them, hold whatever the guest does
\* (decode_cache.rs: the counter is an integer that wraps and is never 0 when used).
THEOREM TypeCorrect == Spec => []TypeOK
<1>1. IInv => TypeOK
  BY DEF IInv
<1>2. QED
  BY <1>1, Initial, Inductive, PTL DEF Spec

\* No entry of the current epoch is older than the last fence or of another
\* address space, and no entry waits for an epoch to come round again.
THEOREM EntriesStayFetchable == Spec => []EntriesAreFetchable
<1>1. IInv => EntriesAreFetchable
  BY DEF IInv
<1>2. QED
  BY <1>1, Initial, Inductive, PTL DEF Spec

\* The cache never runs an instruction that a fetch could not have found since
\* the last fence, for any number of entries and any width of the epoch counter.
THEOREM CacheIsCoherent == Spec => []HitIsFetchable
<1>1. IInv => HitIsFetchable
  BY LookupView, IndexTyped DEF HitIsFetchable, Hit, IInv, TypeOK
<1>2. QED
  BY <1>1, Initial, Inductive, PTL DEF Spec
=============================================================================
