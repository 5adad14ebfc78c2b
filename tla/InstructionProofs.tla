------------------------- MODULE InstructionProofs -------------------------
(***************************************************************************)
(* Proofs about the instructions: what atomics and stores do to memory,    *)
(* for every memory, word size, mapping and set of threads (Atomics), and  *)
(* what the integer executors compute and how the script validates them,   *)
(* for every register width and every set of vectors (IntegerVectors).     *)
(***************************************************************************)
EXTENDS Atomics, IntegerVectors, FiniteSetTheorems, WellFoundedInduction, TLAPS

-----------------------------------------------------------------------------
(* Values of memory *)

LEMMA Squares == Word * Word \in Nat /\ Word * Word >= 2 * Word
BY WordAssumption

LEMMA WordOfType ==
  ASSUME NEW v \in Int, NEW i
  PROVE  WordOf(v, i) \in 0 .. Word - 1
BY WordAssumption DEF WordOf

LEMMA SextType ==
  ASSUME NEW z \in 0 .. Word - 1
  PROVE  sext_word(z) \in Doubles
BY Squares, WordAssumption DEF sext_word, Doubles

LEMMA ExtendedType ==
  ASSUME NEW v \in Doubles, NEW n
  PROVE  Extended(v, n) \in Doubles
<1>1. v % Word \in 0 .. Word - 1
  BY WordAssumption, Squares DEF Doubles
<1> QED
  BY <1>1, SextType DEF Extended

LEMMA PairType ==
  ASSUME NEW z \in 0 .. Word - 1, NEW y \in 0 .. Word - 1
  PROVE  z \in Doubles /\ z + Word * y \in Doubles
<1>1. Word * y \in Nat /\ Word * y <= Word * (Word - 1)
  BY WordAssumption
<1>2. Word * (Word - 1) = Word * Word - Word
  BY WordAssumption
<1> QED
  BY <1>1, <1>2, Squares, WordAssumption DEF Doubles

\* The result of an AMO is a register value.
LEMMA AmoResultType ==
  ASSUME NEW op, NEW old \in Doubles, NEW rhs \in Doubles
  PROVE  AmoResult(op, old, rhs) \in Doubles
<1>1. (old + rhs) % (Word * Word) \in Doubles
  BY Squares, WordAssumption DEF Doubles
<1>2. {BitAnd(old, rhs), BitOr(old, rhs), BitXor(old, rhs)} \subseteq Doubles
  BY WordAssumption
<1> QED
  BY <1>1, <1>2 DEF AmoResult

-----------------------------------------------------------------------------
(* Memory *)

Memories == [Ram -> 0 .. Word - 1]

\* Storing a register value leaves words in memory.
LEMMA StoredType ==
  ASSUME NEW m \in Memories, NEW w, NEW n, NEW v \in Int
  PROVE  Stored(m, w, n, v) \in Memories
<1>1. \A z \in Ram : WordOf(v, z[2] - w[2]) \in 0 .. Word - 1
  BY WordOfType
<1> QED
  BY <1>1 DEF Stored, With, Memories

\* The first word of a place in RAM is a word of it.
LEMMA FirstInRam ==
  ASSUME NEW w \in Pages \X Int, NEW n \in Sizes, reservable(w, n)
  PROVE  w \in Ram /\ (n = 2 => <<w[1], w[2] + 1>> \in Ram)
<1>1. 0 \in 0 .. n - 1 /\ (n = 2 => 1 \in 0 .. n - 1)
  BY DEF Sizes
<1>2. w = <<w[1], w[2] + 0>>
  OBVIOUS
<1> QED
  BY <1>1, <1>2 DEF reservable, Span

LEMMA LoadsType ==
  ASSUME ram \in Memories, NEW w \in Pages \X Int, NEW n \in Sizes, Served(w, n),
         NEW value \in Loads(w, n)
  PROVE  value \in Doubles
<1>1. CASE w \in Clint
  <2>1. 0 .. Word - 1 \subseteq Doubles
    BY PairType
  <2> QED
    BY <1>1, <2>1 DEF Loads
<1>2. CASE w \notin Clint
  <2>1. w \in Ram /\ (n = 2 => <<w[1], w[2] + 1>> \in Ram)
    BY <1>2, FirstInRam DEF Served
  <2>2. ram[w] \in 0 .. Word - 1 /\ (n = 2 => ram[<<w[1], w[2] + 1>>] \in 0 .. Word - 1)
    BY <2>1 DEF Memories
  <2> QED
    BY <1>2, <2>2, PairType DEF Loads, ValueAt, Sizes
<1> QED
  BY <1>1, <1>2

\* An access that is permitted has a physical place.
LEMMA PhysicalPlace ==
  ASSUME TypeOK, NEW a \in (VirtualPages \cup Pages) \X Int, NEW n, NEW access,
         Permitted(a, n, access)
  PROVE  Physical(a) \in Pages \X Int /\ Physical(a)[2] = a[2]
<1>1. CASE running = Handler
  BY <1>1 DEF Permitted, Physical
<1>2. CASE running # Handler
  <2>1. maps[running][a[1]] \in Mapping
    BY <1>2 DEF TypeOK, Contexts, Permitted
  <2> QED
    BY <1>2, <2>1 DEF Physical, Mapping
<1> QED
  BY <1>1, <1>2

-----------------------------------------------------------------------------
(* The types *)

LEMMA LinksType ==
  ASSUME TypeOK, NEW written
  PROVE  LinksAfter(written) \in [Contexts -> Places \cup {None}]
BY DEF TypeOK, LinksAfter

LEMMA TrapType ==
  ASSUME TypeOK, NEW m \in Memories, NEW written, Trap(m, written)
  PROVE  TypeOK'
BY LinksType DEF Trap, AfterTrap, TypeOK, Memories, Contexts, software

LEMMA FaultType ==
  ASSUME TypeOK, Fault
  PROVE  TypeOK'
BY TrapType DEF Fault, TypeOK, Memories

LEMMA StoreType ==
  ASSUME TypeOK, NEW a \in Addresses, NEW n \in Sizes, NEW v \in Operands,
         NEW dropped \in Places \cup {None}, store_virtual(a, n, v, dropped)
  PROVE  TypeOK'
<1> DEFINE First == Stored(ram, Physical(a), 1, WordOf(v, 0))
<1>1. v \in Int /\ ram \in Memories
  BY SoftwareAssumption, Squares DEF TypeOK, Memories, Doubles
<1>2. \A i : WordOf(v, i) \in Int
  BY <1>1, WordOfType
<1>3. First \in Memories
  BY <1>1, <1>2, StoredType
<1>4. SplitStored(a, v) \in Memories
  BY <1>2, <1>3, StoredType DEF SplitStored
<1>5. Stored(ram, Physical(a), n, v) \in Memories
  BY <1>1, StoredType
<1>6. CASE \E m \in Memories : \E written :
             ram' = m /\ links' = LinksAfter(written) /\ reservation' = dropped /\ Retire(Done)
  BY <1>6, LinksType DEF TypeOK, Memories, Retire, software
<1>7. CASE Trap(First, {Physical(a)})
  BY <1>3, <1>7, TrapType
<1>8. CASE Fault
  BY <1>8, FaultType
<1> QED
  BY <1>4, <1>5, <1>6, <1>7, <1>8 DEF store_virtual

LEMMA LrType ==
  ASSUME TypeOK, NEW a \in Addresses, NEW n \in Sizes, LR(a, n)
  PROVE  TypeOK'
<1>1. CASE Fault
  BY <1>1, FaultType
<1>2. CASE ~ Fault
  <2>1. Permitted(a, n, "read") /\ reservable(Physical(a), n)
    BY <1>2 DEF LR
  <2>2. Physical(a) \in Pages \X Int
    BY <2>1, PhysicalPlace DEF Addresses, Offsets
  <2>3. Physical(a) \in Ram
    BY <2>1, <2>2, FirstInRam
  <2>4. <<Physical(a), n>> \in Places
    BY <2>3, MemoryAssumption DEF Places
  <2>5. ram \in Memories
    BY DEF TypeOK, Memories
  <2>6. ValueAt(Physical(a), n) \in Doubles
    <3>1. ram[Physical(a)] \in 0 .. Word - 1
      BY <2>3, <2>5 DEF Memories
    <3>2. CASE n = 1
      BY <3>1, <3>2, PairType DEF ValueAt
    <3>3. CASE n = 2
      <4>1. <<Physical(a)[1], Physical(a)[2] + 1>> \in Ram
        BY <2>1, <2>2, <3>3, FirstInRam
      <4>2. ram[<<Physical(a)[1], Physical(a)[2] + 1>>] \in 0 .. Word - 1
        BY <2>5, <4>1 DEF Memories
      <4> QED
        BY <3>1, <3>3, <4>2, PairType DEF ValueAt
    <3> QED
      BY <3>2, <3>3 DEF Sizes
  <2>7. Extended(ValueAt(Physical(a), n), n) \in Doubles
    BY <2>6, ExtendedType
  <2> QED
    BY <1>2, <2>4, <2>7 DEF LR, TypeOK, Retire, software
<1> QED
  BY <1>1, <1>2

LEMMA ScType ==
  ASSUME TypeOK, NEW a \in Addresses, NEW n \in Sizes, NEW v \in Operands, SC(a, n, v)
  PROVE  TypeOK'
<1>1. CASE Fault
  BY <1>1, FaultType
<1>2. CASE ~ Fault
  <2>1. With(ram, Physical(a), n, v) \in Memories
    <3>1. v \in Int
      BY SoftwareAssumption, Squares DEF Doubles
    <3>2. \A i : WordOf(v, i) \in 0 .. Word - 1
      BY <3>1, WordOfType
    <3> QED
      BY <3>2 DEF With, Memories, TypeOK
  <2>2. {0, 1} \subseteq Doubles
    BY Squares, WordAssumption DEF Doubles
  <2> QED
    BY <1>2, <2>1, <2>2, LinksType DEF SC, TypeOK, Memories, Retire, software
<1> QED
  BY <1>1, <1>2

LEMMA AmoType ==
  ASSUME TypeOK, NEW op, NEW a \in Addresses, NEW n \in Sizes, NEW v \in Operands,
         AMO(op, a, n, v)
  PROVE  TypeOK'
<1>1. CASE Fault
  BY <1>1, FaultType
<1>2. CASE ~ Fault
  <2>1. Permitted(a, n, "write") /\ Served(Physical(a), n)
    BY <1>2 DEF AMO
  <2>2. Physical(a) \in Pages \X Int
    BY <2>1, PhysicalPlace DEF Addresses, Offsets
  <2>3. PICK loaded \in Loads(Physical(a), n) :
          LET old == Extended(loaded, n)
              new == AmoResult(op, old, Extended(v, n))
          IN /\ ram' = Stored(ram, Physical(a), n, new)
             /\ reservation' = None
             /\ links' = LinksAfter(Span(Physical(a), n))
             /\ Retire(old)
    BY <1>2 DEF AMO
  <2> DEFINE old == Extended(loaded, n)
             new == AmoResult(op, old, Extended(v, n))
  <2>4. ram \in Memories
    BY DEF TypeOK, Memories
  <2>5. old \in Doubles
    BY <2>1, <2>2, <2>3, <2>4, LoadsType, ExtendedType
  <2>6. Extended(v, n) \in Doubles
    BY SoftwareAssumption, ExtendedType
  <2>7. new \in Int
    BY <2>5, <2>6, AmoResultType, Squares DEF Doubles
  <2>8. Stored(ram, Physical(a), n, new) \in Memories
    BY <2>4, <2>7, StoredType
  <2> HIDE DEF old, new
  <2>9. ram' \in Memories /\ reservation' = None /\ Retire(old)
    BY <2>3, <2>8 DEF old, new
  <2>10. links' \in [Contexts -> Places \cup {None}]
    BY <2>3, LinksType
  <2> QED
    BY <2>5, <2>9, <2>10 DEF TypeOK, Memories, Retire, software
<1> QED
  BY <1>1, <1>2

LEMMA CboType ==
  ASSUME TypeOK, NEW op, NEW a, CBO(op, a)
  PROVE  TypeOK'
<1>1. CASE Fault
  BY <1>1, FaultType
<1>2. CASE ~ Fault
  <2>1. \A zeroed : [z \in Ram |-> IF z \in zeroed THEN 0 ELSE ram[z]] \in Memories
    BY MemoryAssumption, WordAssumption DEF TypeOK, Memories
  <2> QED
    BY <1>2, <2>1, LinksType DEF CBO, TypeOK, Memories, Retire, software
<1> QED
  BY <1>1, <1>2

LEMMA ResumeType ==
  ASSUME TypeOK, NEW c \in Threads, Resume(c)
  PROVE  TypeOK'
BY DEF Resume, TypeOK, Contexts, software

LEMMA HandlerType ==
  ASSUME TypeOK, HandlerWrites
  PROVE  TypeOK'
<1>1. maps' \in [Threads -> [VirtualPages -> Mapping]]
  <2>1. CASE \E c \in Threads, vp \in VirtualPages, m \in Mappings :
               maps' = [maps EXCEPT ![c][vp] = m]
    <3> PICK c \in Threads, vp \in VirtualPages, m \in Mappings :
               maps' = [maps EXCEPT ![c][vp] = m]
      BY <2>1
    <3>1. [maps[c] EXCEPT ![vp] = m] \in [VirtualPages -> Mapping]
      BY SoftwareAssumption DEF TypeOK
    <3> QED
      BY <3>1 DEF TypeOK
  <2> QED
    BY <2>1 DEF HandlerWrites, TypeOK
<1>2. menvcfg' \subseteq CboOps /\ senvcfg' \subseteq CboOps
  BY SoftwareAssumption DEF HandlerWrites, TypeOK
<1> QED
  BY <1>1, <1>2 DEF HandlerWrites, TypeOK

\* Every variable keeps its type; memory holds words whatever is stored.
THEOREM TypeCorrect == Spec => []TypeOK
<1>1. Init => TypeOK
  BY MemoryAssumption, WordAssumption, SoftwareAssumption DEF Init, TypeOK, Contexts
<1>2. TypeOK /\ [Next]_vars => TypeOK'
  <2> SUFFICES ASSUME TypeOK, [Next]_vars PROVE TypeOK'
    OBVIOUS
  <2>1. CASE Instruction
    <3> SUFFICES ASSUME NEW a \in Addresses,
                        \/ \E n \in Sizes : LR(a, n)
                        \/ \E n \in Sizes, v \in Operands :
                             \/ SC(a, n, v)
                             \/ \E op \in AmoOps : AMO(op, a, n, v)
                             \/ IntegerStore(a, n, v)
                             \/ FloatingStore(a, n, v)
                        \/ \E op \in CboOps : CBO(op, a)
                 PROVE  TypeOK'
      BY <2>1 DEF Instruction
    <3>1. reservation \in Places \cup {None} /\ None \in Places \cup {None}
      BY DEF TypeOK
    <3> QED
      BY <3>1, LrType, ScType, AmoType, StoreType, CboType DEF IntegerStore, FloatingStore
  <2>2. CASE Fault \/ (\E c \in Threads : Resume(c)) \/ HandlerWrites
    BY <2>2, FaultType, ResumeType, HandlerType
  <2>3. CASE UNCHANGED vars
    BY <2>3 DEF vars, TypeOK
  <2> QED
    BY <2>1, <2>2, <2>3 DEF Next
<1> QED
  BY <1>1, <1>2, PTL DEF Spec

-----------------------------------------------------------------------------
(* Links *)

\* A reservation is the running context's own, and unbroken.
ReservationIsOwn == reservation # None => links[running] = reservation

LEMMA OwnLinkStays ==
  ASSUME TypeOK, NEW written
  PROVE  LinksAfter(written)[running] = links[running]
BY DEF TypeOK, LinksAfter

LEMMA StoreKeepsOwn ==
  ASSUME TypeOK, ReservationIsOwn, NEW a, NEW n, NEW v, NEW dropped \in {None, reservation},
         store_virtual(a, n, v, dropped)
  PROVE  ReservationIsOwn'
<1>1. CASE reservation' = None
  BY <1>1 DEF ReservationIsOwn
<1>2. CASE reservation' = dropped /\ UNCHANGED running
           /\ \E written : links' = LinksAfter(written)
  BY <1>2, OwnLinkStays DEF ReservationIsOwn
<1> QED
  BY <1>1, <1>2 DEF store_virtual, Retire, Fault, Trap, AfterTrap

\* The reservation is always that of an LR the running context has not concluded, to a
\* place no other context has written since.
THEOREM ReservationsAreOwn == Spec => []ReservationIsOwn
<1>1. Init => ReservationIsOwn
  BY DEF Init, ReservationIsOwn
<1>2. TypeOK /\ ReservationIsOwn /\ [Next]_vars => ReservationIsOwn'
  <2> SUFFICES ASSUME TypeOK, ReservationIsOwn, [Next]_vars PROVE ReservationIsOwn'
    OBVIOUS
  <2>1. ASSUME Fault PROVE ReservationIsOwn'
    BY <2>1 DEF Fault, Trap, AfterTrap, ReservationIsOwn
  <2>2. ASSUME NEW a, NEW n, LR(a, n) PROVE ReservationIsOwn'
    BY <2>1, <2>2 DEF LR, Retire, ReservationIsOwn, TypeOK
  <2>3. ASSUME NEW a, NEW n, NEW v, SC(a, n, v) PROVE ReservationIsOwn'
    BY <2>1, <2>3 DEF SC, ReservationIsOwn
  <2>4. ASSUME NEW op, NEW a, NEW n, NEW v, AMO(op, a, n, v) PROVE ReservationIsOwn'
    BY <2>1, <2>4 DEF AMO, ReservationIsOwn
  <2>5. ASSUME NEW a, NEW n, NEW v, IntegerStore(a, n, v) \/ FloatingStore(a, n, v)
        PROVE  ReservationIsOwn'
    BY <2>5, StoreKeepsOwn DEF IntegerStore, FloatingStore
  <2>6. ASSUME NEW op, NEW a, CBO(op, a) PROVE ReservationIsOwn'
    BY <2>1, <2>6, OwnLinkStays DEF CBO, Retire, ReservationIsOwn
  <2>7. ASSUME NEW c \in Threads, Resume(c) PROVE ReservationIsOwn'
    BY <2>7 DEF Resume, ReservationIsOwn
  <2>8. ASSUME HandlerWrites PROVE ReservationIsOwn'
    BY <2>8 DEF HandlerWrites, ReservationIsOwn
  <2>9. ASSUME UNCHANGED vars PROVE ReservationIsOwn'
    BY <2>9 DEF vars, ReservationIsOwn
  <2> QED
    BY <2>1, <2>2, <2>3, <2>4, <2>5, <2>6, <2>7, <2>8, <2>9 DEF Next, Instruction
<1> QED
  BY <1>1, <1>2, TypeCorrect, PTL DEF Spec

\* An SC that succeeds ends an LR of its own context with nothing of others in between.
THEOREM ScSucceedsOnOwnLr == Spec => ScPairsWithOwnLr
<1>1. ReservationIsOwn /\ [Next]_vars =>
        [\A a \in Addresses, n \in Sizes, v \in Operands :
           outcome' = 0 /\ SC(a, n, v) => links[running] = <<Physical(a), n>>]_vars
  <2> SUFFICES ASSUME ReservationIsOwn, NEW a \in Addresses, NEW n \in Sizes, NEW v \in Operands,
                      outcome' = 0, SC(a, n, v)
               PROVE  links[running] = <<Physical(a), n>>
    OBVIOUS
  <2>1. Reserved(a, n)
    BY DEF SC, Retire, Fault, Trap, Trapped
  <2> QED
    BY <2>1 DEF Reserved, ReservationIsOwn, None
<1> QED
  BY <1>1, ReservationsAreOwn, PTL DEF Spec, ScPairsWithOwnLr

-----------------------------------------------------------------------------
(* Writes *)

\* Storing touches no word outside the place.
LEMMA StoredElsewhere ==
  ASSUME NEW m \in Memories, NEW w, NEW n, NEW v, NEW z \in Ram, z \notin Span(w, n)
  PROVE  Stored(m, w, n, v)[z] = m[z]
BY DEF Stored, With

\* A context may write every word of a place it has translated for a write.
LEMMA PermittedMayWrite ==
  ASSUME TypeOK, NEW a \in Addresses, NEW n, Permitted(a, n, "write"),
         NEW z \in Span(Physical(a), n)
  PROVE  MayWrite(z)
<1>1. CASE running = Handler
  BY <1>1 DEF MayWrite
<1>2. CASE running # Handler
  <2>1. a[1] \in VirtualPages /\ {a[2] + i : i \in 0 .. n - 1} \subseteq maps[running][a[1]].write
    BY <1>2 DEF Permitted
  <2>2. PICK i \in 0 .. n - 1 : z = <<maps[running][a[1]].page, a[2] + i>>
    BY <1>2 DEF Span, Physical
  <2> QED
    BY <2>1, <2>2 DEF MayWrite
<1> QED
  BY <1>1, <1>2

Changes(z) == ram'[z] # ram[z]

LEMMA StoreWrites ==
  ASSUME TypeOK, NEW a \in Addresses, NEW n \in Sizes, NEW v \in Operands, NEW dropped,
         store_virtual(a, n, v, dropped), NEW z \in Ram, Changes(z)
  PROVE  MayWrite(z)
<1> DEFINE First == Stored(ram, Physical(a), 1, WordOf(v, 0))
<1>1. v \in Int /\ ram \in Memories
  BY SoftwareAssumption, Squares DEF TypeOK, Memories, Doubles
<1>2. WordOf(v, 0) \in Int
  BY <1>1, WordOfType
<1>3. First \in Memories
  BY <1>1, <1>2, StoredType
<1>4. ~ (UNCHANGED ram)
  BY DEF Changes
<1>5. CASE MayStore(a, n) /\ ram' = Stored(ram, Physical(a), n, v)
  <2>1. z \in Span(Physical(a), n)
    BY <1>1, <1>5, StoredElsewhere DEF Changes
  <2> QED
    BY <1>5, <2>1, PermittedMayWrite DEF MayStore
<1>6. CASE MayStore(a, 1) /\ ram' = First
  <2>1. z \in Span(Physical(a), 1)
    BY <1>1, <1>6, StoredElsewhere DEF Changes
  <2> QED
    BY <1>6, <2>1, PermittedMayWrite DEF MayStore
<1>7. CASE MayStore(a, 1) /\ MayStore(NextPage(a), 1) /\ ram' = SplitStored(a, v)
  <2>1. z \in Span(Physical(a), 1) \cup Span(Physical(NextPage(a)), 1)
    <3> SUFFICES ASSUME z \notin Span(Physical(a), 1), z \notin Span(Physical(NextPage(a)), 1)
                 PROVE  FALSE
      OBVIOUS
    <3>1. First[z] = ram[z]
      BY <1>1, StoredElsewhere
    <3>2. SplitStored(a, v)[z] = First[z]
      BY <1>3, StoredElsewhere DEF SplitStored
    <3> QED
      BY <1>7, <3>1, <3>2 DEF Changes
  <2>2. NextPage(a) \in Addresses
    BY <1>7, MemoryAssumption DEF NextPage, MayStore, Permitted, Addresses, Offsets
  <2> QED
    BY <1>7, <2>1, <2>2, PermittedMayWrite DEF MayStore
<1> QED
  BY <1>4, <1>5, <1>6, <1>7 DEF store_virtual, Fault, Trap

LEMMA CboWrites ==
  ASSUME TypeOK, NEW op, NEW a \in Addresses, CBO(op, a), NEW z \in Ram, Changes(z)
  PROVE  ram'[z] = 0 /\ \E y \in Block(z) : MayWrite(y)
<1>1. ~ Fault
  BY DEF Fault, Trap, Changes
<1>2. op = "zero" /\ z \in Block(Physical(a)) /\ ram'[z] = 0
  BY <1>1 DEF CBO, TypeOK, Changes
<1>3. Permitted(a, 1, "write")
  BY <1>1, <1>2 DEF CBO, CboAccess
<1>4. Physical(a) \in Pages \X Int /\ Physical(a)[2] = a[2]
  BY <1>3, PhysicalPlace DEF Addresses, Offsets
<1>5. Physical(a) \in Block(z)
  <2>1. PICK o \in Offsets : z = <<Physical(a)[1], o>> /\ o \div BlockWords = Physical(a)[2] \div BlockWords
    BY <1>2 DEF Block
  <2>2. Physical(a)[2] \in Offsets
    BY <1>4 DEF Addresses
  <2>3. Physical(a) = <<z[1], Physical(a)[2]>>
    BY <1>4, <2>1
  <2>4. z[2] = o
    BY <2>1
  <2> QED
    BY <2>1, <2>2, <2>3, <2>4 DEF Block
<1>6. Physical(a) \in Span(Physical(a), 1)
  <2>1. Physical(a) = <<Physical(a)[1], Physical(a)[2] + 0>>
    BY <1>4
  <2> QED
    BY <2>1 DEF Span
<1> QED
  BY <1>2, <1>3, <1>5, <1>6, PermittedMayWrite

\* A thread changes only what it may write, and the blocks of such words.
THEOREM WritesArePermitted == Spec => WritesPermitted
<1>1. TypeOK /\ [Next]_vars =>
        [\A w \in Ram :
           ram'[w] # ram[w] =>
             MayWrite(w) \/ (ram'[w] = 0 /\ \E z \in Block(w) : MayWrite(z))]_vars
  <2> SUFFICES ASSUME TypeOK, Next, NEW w \in Ram, Changes(w)
               PROVE  MayWrite(w) \/ (ram'[w] = 0 /\ \E z \in Block(w) : MayWrite(z))
    BY DEF Changes
  <2>1. ram \in Memories
    BY DEF TypeOK, Memories
  <2>2. ~ Fault
    BY DEF Fault, Trap, Changes
  <2>3. ASSUME NEW a, NEW n, LR(a, n) PROVE FALSE
    BY <2>2, <2>3 DEF LR, Changes
  <2>4. ASSUME NEW a \in Addresses, NEW n, NEW v, SC(a, n, v) PROVE MayWrite(w)
    <3>1. Permitted(a, n, "write") /\ ram' = With(ram, Physical(a), n, v)
      BY <2>2, <2>4 DEF SC, Changes
    <3>2. w \in Span(Physical(a), n)
      BY <3>1 DEF With, Changes
    <3> QED
      BY <3>1, <3>2, PermittedMayWrite
  <2>5. ASSUME NEW op, NEW a \in Addresses, NEW n, NEW v, AMO(op, a, n, v) PROVE MayWrite(w)
    <3>1. Permitted(a, n, "write") /\ \E new : ram' = Stored(ram, Physical(a), n, new)
      BY <2>2, <2>5 DEF AMO
    <3>2. w \in Span(Physical(a), n)
      BY <2>1, <3>1, StoredElsewhere DEF Changes
    <3> QED
      BY <3>1, <3>2, PermittedMayWrite
  <2>6. ASSUME NEW a \in Addresses, NEW n \in Sizes, NEW v \in Operands,
               IntegerStore(a, n, v) \/ FloatingStore(a, n, v)
        PROVE  MayWrite(w)
    BY <2>6, StoreWrites DEF IntegerStore, FloatingStore
  <2>7. ASSUME NEW op, NEW a \in Addresses, CBO(op, a)
        PROVE  ram'[w] = 0 /\ \E z \in Block(w) : MayWrite(z)
    BY <2>7, CboWrites
  <2>8. ~ (\E c \in Threads : Resume(c)) /\ ~ HandlerWrites
    BY DEF Resume, HandlerWrites, Changes
  <2> QED
    BY <2>2, <2>3, <2>4, <2>5, <2>6, <2>7, <2>8 DEF Next, Instruction
<1> QED
  BY <1>1, TypeCorrect, PTL DEF Spec, WritesPermitted

-----------------------------------------------------------------------------
(* Stores that retire *)

\* What a place holds after it is stored to.
LEMMA StoredThere ==
  ASSUME NEW m, NEW w \in Pages \X Int, w \notin Clint, NEW n \in Nat, NEW v,
         NEW i \in 0 .. n - 1, <<w[1], w[2] + i>> \in Ram
  PROVE  Stored(m, w, n, v)[<<w[1], w[2] + i>>] = WordOf(v, i)
<1>1. <<w[1], w[2] + i>> \in Span(w, n)
  BY DEF Span
<1>2. <<w[1], w[2] + i>>[2] - w[2] = i
  OBVIOUS
<1> QED
  BY <1>1, <1>2 DEF Stored, With

LEMMA StoredFirst ==
  ASSUME NEW m, NEW w \in Pages \X Int, w \in Ram, w \notin Clint, NEW v
  PROVE  Stored(m, w, 1, v)[w] = WordOf(v, 0)
<1>1. w = <<w[1], w[2] + 0>> /\ w[2] - w[2] = 0
  OBVIOUS
<1>2. w \in Span(w, 1)
  BY <1>1 DEF Span
<1> QED
  BY <1>1, <1>2 DEF Stored, With

\* Within a page a permitted access is contiguous in memory.
LEMMA Contiguous ==
  ASSUME TypeOK, NEW a \in Addresses, NEW n \in Sizes, NEW access, Permitted(a, n, access),
         NEW i \in 0 .. n - 1
  PROVE  Physical(<<a[1], a[2] + i>>) = <<Physical(a)[1], Physical(a)[2] + i>>
BY DEF Physical, Addresses

LEMMA TruncatedTwice ==
  ASSUME NEW v \in Int, NEW i
  PROVE  WordOf(WordOf(v, i), 0) = WordOf(v, i)
<1>1. WordOf(v, i) \in 0 .. Word - 1
  BY WordOfType
<1> QED
  BY <1>1, WordAssumption DEF WordOf

\* The word of virtual memory an operand's word i goes to.
Target(a, i) == Physical(IF a[2] + i < PageWords THEN <<a[1], a[2] + i>> ELSE NextPage(a))

LEMMA WholeStore ==
  ASSUME TypeOK, NEW a \in Addresses, NEW n \in Sizes, NEW v \in Operands, NEW i \in 0 .. n - 1,
         ~ Crosses(a, n), MayStore(a, n), Target(a, i) \in Ram
  PROVE  Stored(ram, Physical(a), n, v)[Target(a, i)] = WordOf(v, i)
<1>1. Permitted(a, n, "write")
  BY DEF MayStore
<1>2. Physical(a) \in Pages \X Int
  BY <1>1, PhysicalPlace DEF Addresses, Offsets
<1>3. Target(a, i) = <<Physical(a)[1], Physical(a)[2] + i>>
  <2>1. a[2] + i < PageWords
    BY MemoryAssumption DEF Crosses, Addresses, Offsets, Sizes
  <2> QED
    BY <1>1, <2>1, Contiguous DEF Target
<1>4. Physical(a) \notin Clint
  BY <1>3, MemoryAssumption
<1>5. n \in Nat
  BY DEF Sizes
<1> QED
  BY <1>2, <1>3, <1>4, <1>5, StoredThere

LEMMA SplitStore ==
  ASSUME TypeOK, NEW a \in Addresses, NEW n \in Sizes, NEW v \in Operands, NEW i \in 0 .. n - 1,
         Crosses(a, n), MayStore(a, 1), MayStore(NextPage(a), 1), Target(a, i) \in Ram
  PROVE  SplitStored(a, v)[Target(a, i)] = WordOf(v, i)
<1> DEFINE P == Physical(a)
           Q == Physical(NextPage(a))
           First == Stored(ram, P, 1, WordOf(v, 0))
<1>1. n = 2 /\ a[2] = PageWords - 1 /\ i \in {0, 1}
  BY MemoryAssumption DEF Crosses, Addresses, Offsets, Sizes
<1>2. v \in Int /\ ram \in Memories
  BY SoftwareAssumption, Squares DEF TypeOK, Memories, Doubles
<1>3. P \in Pages \X Int /\ P[2] = PageWords - 1
  BY <1>1, PhysicalPlace DEF MayStore, Addresses, Offsets
<1>4. NextPage(a) \in Addresses /\ NextPage(a)[2] = 0
  BY MemoryAssumption DEF NextPage, MayStore, Permitted, Addresses, Offsets
<1>5. Q \in Pages \X Int /\ Q[2] = 0
  <2>1. Permitted(NextPage(a), 1, "write")
    BY DEF MayStore
  <2>2. NextPage(a) \in (VirtualPages \cup Pages) \X Int
    BY <1>4 DEF Addresses, Offsets
  <2> QED
    BY <1>4, <2>1, <2>2, PhysicalPlace
<1> HIDE DEF P, Q
<1>7. CASE i = 0
  <2>1. Target(a, 0) = P
    <3>1. a = <<a[1], a[2] + 0>> /\ a[2] + 0 < PageWords
      BY <1>1, MemoryAssumption DEF Addresses, Offsets
    <3> QED
      BY <3>1 DEF Target, P
  <2>2. P \notin Clint /\ P \in Ram
    BY <1>7, <2>1, MemoryAssumption
  <2>3. First[P] = WordOf(v, 0)
    <3>1. First[P] = WordOf(WordOf(v, 0), 0)
      BY <1>3, <2>2, StoredFirst
    <3> QED
      BY <1>2, <3>1, TruncatedTwice
  <2>4. P \notin Span(Q, 1)
    BY <1>3, <1>5, MemoryAssumption DEF Span
  <2>5. First \in Memories
    BY <1>2, WordOfType, StoredType
  <2>6. Stored(First, Q, 1, WordOf(v, 1))[P] = First[P]
    BY <2>2, <2>4, <2>5, StoredElsewhere
  <2> QED
    BY <1>7, <2>1, <2>3, <2>6 DEF SplitStored, P, Q
<1>8. CASE i = 1
  <2>1. Target(a, 1) = Q
    BY <1>1, MemoryAssumption DEF Target, Q
  <2>2. Q \notin Clint /\ Q \in Ram
    BY <1>8, <2>1, MemoryAssumption
  <2>3. Stored(First, Q, 1, WordOf(v, 1))[Q] = WordOf(WordOf(v, 1), 0)
    BY <1>5, <2>2, StoredFirst
  <2> QED
    BY <1>2, <1>8, <2>1, <2>3, TruncatedTwice DEF SplitStored, P, Q
<1> QED
  BY <1>1, <1>7, <1>8

\* A store that retires is in memory, whole, where its context would read it.
THEOREM StoresComplete == Spec => StoresAreComplete
<1>1. TypeOK /\ [Next]_vars =>
        [\A a \in Addresses, n \in Sizes, v \in Operands, i \in {0, 1} :
           /\ outcome' = Done /\ i < n
           /\ IntegerStore(a, n, v) \/ FloatingStore(a, n, v)
           => LET w == Physical(IF a[2] + i < PageWords THEN <<a[1], a[2] + i>> ELSE NextPage(a)) IN
              w \in Ram => ram'[w] = WordOf(v, i)]_vars
  <2> SUFFICES ASSUME TypeOK, NEW a \in Addresses, NEW n \in Sizes, NEW v \in Operands,
                      NEW i \in {0, 1}, outcome' = Done, i < n,
                      IntegerStore(a, n, v) \/ FloatingStore(a, n, v),
                      Target(a, i) \in Ram
               PROVE  ram'[Target(a, i)] = WordOf(v, i)
    BY DEF Target
  <2>1. i \in 0 .. n - 1
    BY DEF Sizes
  <2>2. \/ ~ Crosses(a, n) /\ MayStore(a, n) /\ ram' = Stored(ram, Physical(a), n, v)
        \/ /\ Crosses(a, n) /\ MayStore(a, 1) /\ MayStore(NextPage(a), 1)
           /\ ram' = SplitStored(a, v)
    BY DEF IntegerStore, FloatingStore, store_virtual, Fault, Trap, Done, Trapped
  <2> QED
    BY <2>1, <2>2, WholeStore, SplitStore
<1> QED
  BY <1>1, TypeCorrect, PTL DEF Spec, StoresAreComplete

-----------------------------------------------------------------------------
(* Remainders *)

\* What a multiple of the modulus leaves is the remainder.
LEMMA RemainderOf ==
  ASSUME NEW r \in Int, NEW q \in Int, NEW m \in Nat, 0 <= r, r < m
  PROVE  (r + q * m) % m = r
OBVIOUS

LEMMA RemainderOfLess ==
  ASSUME NEW r \in Int, NEW m \in Nat, 0 <= r, r < m
  PROVE  r % m = r
<1>1. r = r + 0 * m
  OBVIOUS
<1> QED
  BY <1>1, RemainderOf

LEMMA Divided ==
  ASSUME NEW u \in Int, NEW m \in Nat, m > 0
  PROVE  u \div m \in Int /\ u % m \in Int /\ 0 <= u % m /\ u % m < m /\ u = (u % m) + (u \div m) * m
OBVIOUS

\* Multiples of the modulus do not change a remainder.
LEMMA MultiplesVanish ==
  ASSUME NEW u \in Int, NEW q \in Int, NEW m \in Nat, m > 0
  PROVE  (u + q * m) % m = u % m
<1> DEFINE r == u % m
           p == u \div m
<1>1. r \in Int /\ p \in Int /\ 0 <= r /\ r < m /\ u = r + p * m
  BY Divided
<1> HIDE DEF r, p
<1> DEFINE s == p + q
<1>2. u + q * m = r + s * m /\ s \in Int
  BY <1>1
<1> HIDE DEF s
<1>3. (r + s * m) % m = r
  BY <1>1, <1>2, RemainderOf
<1> QED
  BY <1>2, <1>3 DEF r

\* Numbers with one remainder differ by a multiple.
LEMMA Congruent ==
  ASSUME NEW u \in Int, NEW v \in Int, NEW m \in Nat, m > 0, u % m = v % m
  PROVE  \E q \in Int : u = v + q * m
<1>1. /\ u \div m \in Int /\ v \div m \in Int /\ u % m \in Int
      /\ u = (u % m) + (u \div m) * m /\ v = (u % m) + (v \div m) * m
  BY Divided
<1> DEFINE a == u \div m
           b == v \div m
           r == u % m
<1> HIDE DEF a, b, r
<1>2. a \in Int /\ b \in Int /\ r \in Int /\ u = r + a * m /\ v = r + b * m
  BY <1>1 DEF a, b, r
<1>3. u = v + (a - b) * m /\ a - b \in Int
  BY <1>2
<1> QED
  BY <1>3

-----------------------------------------------------------------------------
(* Words of registers *)

Register == 2^XLEN
WordSize == 2^WORD
HalfWord == 2^(WORD - 1)

\* The sizes of a register, of a word and of half a word.
LEMMA SizesOf ==
  /\ Register \in Nat /\ WordSize \in Nat /\ HalfWord \in Nat
  /\ HalfWord > 0 /\ WordSize = 2 * HalfWord /\ Register = WordSize * WordSize
  /\ \A n \in 0 .. XLEN : 2^n \in Nat /\ 2^n > 0
<1>1. WORD \in 0 .. XLEN /\ WORD - 1 \in 0 .. XLEN /\ 1 \in 0 .. XLEN /\ XLEN \in 0 .. XLEN
      /\ 1 + (WORD - 1) = WORD /\ XLEN = WORD + WORD /\ XLEN \in Nat
  BY WidthAssumption
<1>2. \A n \in 0 .. XLEN : 2^n \in Int /\ 2^n > 0
  BY <1>1, PowersAssumption
<1>3. 2^WORD = 2^1 * 2^(WORD - 1) /\ 2^XLEN = 2^WORD * 2^WORD
  BY <1>1, PowersAssumption
<1>4. 2^1 = 2
  OBVIOUS
<1> QED
  BY <1>1, <1>2, <1>3, <1>4 DEF Register, WordSize, HalfWord

\* A register and its lower word have the word in common.
LEMMA WordOfWrapped ==
  ASSUME NEW u \in Int
  PROVE  wrap(u) \in Int /\ wrap(u) % WordSize = u % WordSize
<1>1. Register > 0
  BY SizesOf
<1> DEFINE q == u \div Register
<1>2. wrap(u) \in Int /\ q \in Int /\ u = wrap(u) + q * Register
  BY <1>1, SizesOf, Divided DEF wrap, Register
<1> HIDE DEF q
<1> DEFINE p == q * WordSize
<1>3. u = wrap(u) + p * WordSize /\ p \in Int
  BY <1>2, SizesOf
<1>4. WordSize \in Nat /\ WordSize > 0
  BY SizesOf
<1> HIDE DEF p
<1>5. (wrap(u) + p * WordSize) % WordSize = wrap(u) % WordSize
  BY <1>2, <1>3, <1>4, MultiplesVanish
<1> QED
  BY <1>2, <1>3, <1>5

\* A word taken as signed: it is in the range of words, and the word it was.
LEMMA SignedWordOf ==
  ASSUME NEW u \in Int
  PROVE  /\ as_signed(u, WORD) \in Int /\ as_signed(u, WORD) % WordSize = u % WordSize
         /\ - HalfWord <= as_signed(u, WORD) /\ as_signed(u, WORD) < HalfWord
         /\ - HalfWord <= u /\ u < HalfWord => as_signed(u, WORD) = u
<1> DEFINE r == u % WordSize
           s == as_signed(u, WORD)
<1>0. WordSize \in Nat /\ WordSize > 0
  BY SizesOf
<1>1. r \in Int /\ 0 <= r /\ r < WordSize
  BY <1>0, Divided
<1>2. s = IF r >= HalfWord THEN r - WordSize ELSE r
  BY DEF as_signed, WordSize, HalfWord
<1> HIDE DEF r, s
<1>3. s \in Int /\ - HalfWord <= s /\ s < HalfWord
  BY <1>1, <1>2, SizesOf
<1>4. s % WordSize = r
  <2>1. r % WordSize = r
    BY <1>0, <1>1, RemainderOfLess
  <2>2. (r + (-1) * WordSize) % WordSize = r % WordSize
    BY <1>0, <1>1, MultiplesVanish
  <2>3. r - WordSize = r + (-1) * WordSize
    BY <1>0, <1>1
  <2> QED
    BY <1>2, <2>1, <2>2, <2>3
<1>5. ASSUME - HalfWord <= u, u < HalfWord PROVE s = u
  <2>1. CASE u >= 0
    <3>1. r = u
      BY <1>0, <1>5, <2>1, SizesOf, RemainderOfLess DEF r
    <3> QED
      BY <1>2, <1>5, <3>1, SizesOf
  <2>2. CASE u < 0
    <3>1. r = u + WordSize
      <4> PICK one \in Int : one = 1
        OBVIOUS
      <4>1. (u + one * WordSize) % WordSize = r
        BY <1>0, MultiplesVanish DEF r
      <4>2. u + one * WordSize = u + WordSize /\ 0 <= u + WordSize /\ u + WordSize < WordSize
        BY <1>0, <1>5, <2>2, SizesOf
      <4> QED
        BY <1>0, <4>1, <4>2, RemainderOfLess
    <3> QED
      BY <1>2, <1>5, <3>1, SizesOf
  <2> QED
    BY <2>1, <2>2
<1> QED
  BY <1>3, <1>4, <1>5 DEF r, s

\* A sign-extended word depends on the word only.
LEMMA ExtensionOfWord ==
  ASSUME NEW u \in Int, NEW v \in Int, u % WordSize = v % WordSize
  PROVE  sext(u, WORD) = sext(v, WORD)
BY DEF sext, as_signed, WordSize

\* A register whose word is sign-extended holds that word.
LEMMA WordOfExtension ==
  ASSUME NEW u \in Int
  PROVE  sext(u, WORD) \in Int /\ sext(u, WORD) % WordSize = u % WordSize
BY SignedWordOf, WordOfWrapped DEF sext

\* The wrap of a register does not show in a word.
LEMMA ExtensionOfWrapped ==
  ASSUME NEW u \in Int
  PROVE  sext(wrap(u), WORD) = sext(u, WORD)
BY WordOfWrapped, ExtensionOfWord

-----------------------------------------------------------------------------
(* The two executors *)

WordOps == {"mulw", "addw", "subw", "sllw", "srlw", "sraw"}

\* The operations that are predecoded.
LEMMA FastCases == FastOps = BaseOps \cup {"mul"} \cup WordOps \cup {"sh1add.uw", "sh2add.uw", "zext.h"}
<1>1. /\ DOMAIN OfWord = {"mulw", "divw", "divuw", "remw", "remuw", "addw", "subw", "sllw", "srlw", "sraw"}
      /\ OfWord["mulw"] = "mul" /\ OfWord["addw"] = "add" /\ OfWord["subw"] = "sub"
      /\ OfWord["sllw"] = "sll" /\ OfWord["srlw"] = "srl" /\ OfWord["sraw"] = "sra"
      /\ OfWord["divw"] = "div" /\ OfWord["divuw"] = "divu" /\ OfWord["remw"] = "rem"
      /\ OfWord["remuw"] = "remu"
  BY DEF OfWord
<1>2. WordFast = WordOps
  BY <1>1 DEF WordFast, WordOps
<1> QED
  BY <1>2 DEF FastOps, PlainFast

\* The original executor dispatches on the operation, and extends what a word form gives.
LEMMA DispatchBase ==
  ASSUME NEW op \in BaseOps, NEW a, NEW b
  PROVE  execute(op, a, b, 0) = base(op, a, b, FALSE)
<1>1. Operation(op) = op /\ IsWord(op) = FALSE
  BY DEF Operation, IsWord, BaseOps, OfWord
<1>2. Operation(op) \in MultiplyOps \cup BaseOps /\ Operation(op) \notin MultiplyOps
  BY <1>1 DEF BaseOps, MultiplyOps
<1> QED
  BY <1>1, <1>2, Zenon DEF execute

LEMMA DispatchMul ==
  ASSUME NEW a, NEW b
  PROVE  /\ execute("mul", a, b, 0) = multiply("mul", a, b, FALSE)
         /\ execute("mulw", a, b, 0) = sext(multiply("mul", a, b, TRUE), WORD)
<1>1. /\ Operation("mul") = "mul" /\ IsWord("mul") = FALSE
      /\ Operation("mulw") = "mul" /\ IsWord("mulw") = TRUE
  BY DEF Operation, IsWord, OfWord
<1>2. "mul" \in MultiplyOps \cup BaseOps /\ "mul" \in MultiplyOps
  BY DEF MultiplyOps
<1> QED
  BY <1>1, <1>2, Zenon DEF execute

LEMMA DispatchWord ==
  ASSUME NEW op \in WordOps \ {"mulw"}, NEW a, NEW b
  PROVE  execute(op, a, b, 0) = sext(base(OfWord[op], a, b, TRUE), WORD)
<1>1. Operation(op) = OfWord[op] /\ IsWord(op) = TRUE /\ OfWord[op] \in {"add", "sub", "sll", "srl", "sra"}
  BY DEF Operation, IsWord, OfWord, WordOps
<1>2. Operation(op) \in MultiplyOps \cup BaseOps /\ Operation(op) \notin MultiplyOps
  BY <1>1 DEF MultiplyOps, BaseOps
<1> QED
  BY <1>1, <1>2, Zenon DEF execute

LEMMA DispatchBitmanip ==
  ASSUME NEW op \in {"sh1add.uw", "sh2add.uw", "zext.h"}, NEW a, NEW b
  PROVE  execute(op, a, b, 0) = bitmanip(op, a, b, 0)
<1>1. Operation(op) = op
  BY DEF Operation, IsWord, OfWord
<1>2. Operation(op) \notin MultiplyOps \cup BaseOps
  BY <1>1 DEF MultiplyOps, BaseOps
<1> QED
  BY <1>2, Zenon DEF execute

\* The shifts of words, whose amount is less than a word is wide.
LEMMA WordShift ==
  ASSUME NEW b \in Int
  PROVE  b % WORD \in 0 .. XLEN /\ 2^(b % WORD) \in Nat /\ 2^(b % WORD) > 0
<1>1. WORD \in Nat /\ WORD > 0 /\ XLEN = 2 * WORD
  BY WidthAssumption
<1>2. b % WORD \in Int /\ 0 <= b % WORD /\ b % WORD < WORD
  BY <1>1, Divided
<1>3. b % WORD \in 0 .. XLEN
  BY <1>1, <1>2
<1> QED
  BY <1>3, SizesOf

\* Dividing a number near zero leaves it as near.
LEMMA DividedStays ==
  ASSUME NEW u \in Int, NEW h \in Nat, NEW d \in Nat, d > 0, -h <= u, u < h
  PROVE  u \div d \in Int /\ -h <= u \div d /\ u \div d < h
<1> DEFINE q == u \div d
           r == u % d
<1>1. q \in Int /\ r \in Int /\ 0 <= r /\ r < d /\ u = r + q * d
  BY Divided
<1> HIDE DEF q, r
<1>2. -h <= q
  <2> SUFFICES ASSUME q <= -h - 1 PROVE FALSE
    BY <1>1
  <2>1. q * d <= (-h - 1) * d
    BY <1>1
  <2>2. (-h - 1) * d = - (h * d) - d /\ h * d >= h
    OBVIOUS
  <2>3. q * d \in Int /\ h * d \in Int
    BY <1>1
  <2> QED
    BY <1>1, <2>1, <2>2, <2>3
<1>3. q < h
  <2> SUFFICES ASSUME q >= h PROVE FALSE
    BY <1>1
  <2>1. q * d >= h
    BY <1>1
  <2>2. q * d \in Int
    BY <1>1
  <2> QED
    BY <1>1, <2>1, <2>2
<1> QED
  BY <1>1, <1>2, <1>3 DEF q

LEMMA MulwAgrees ==
  ASSUME NEW a \in Int, NEW b \in Int
  PROVE  execute_decoded("mulw", a, b) = execute("mulw", a, b, 0)
<1> DEFINE c == sext(a, WORD)
           d == sext(b, WORD)
<1>1. c \in Int /\ d \in Int /\ c % WordSize = a % WordSize /\ d % WordSize = b % WordSize
  BY WordOfExtension
<1>2. multiply("mul", a, b, TRUE) = wrap(c * d)
  BY Zenon DEF multiply
<1> HIDE DEF c, d
<1>3. (c * d) % WordSize = (a * b) % WordSize
  <2>1. WordSize \in Nat /\ WordSize > 0
    BY SizesOf
  <2>2. PICK p \in Int : c = a + p * WordSize
    BY <1>1, <2>1, Congruent
  <2>3. PICK q \in Int : d = b + q * WordSize
    BY <1>1, <2>1, Congruent
  <2> DEFINE z == a * q + p * b + p * q * WordSize
             e == a * b
  <2>4. c * d = e + z * WordSize /\ z \in Int /\ e \in Int
    BY <2>1, <2>2, <2>3
  <2> HIDE DEF z, e
  <2>5. (e + z * WordSize) % WordSize = e % WordSize
    BY <2>1, <2>4, MultiplesVanish
  <2> QED
    BY <2>4, <2>5 DEF e
<1>4. c * d \in Int /\ a * b \in Int
  BY <1>1
<1>5. sext(wrap(c * d), WORD) = sext(a * b, WORD)
  BY <1>3, <1>4, ExtensionOfWrapped, ExtensionOfWord
<1>6. "mulw" \notin BaseOps
  BY DEF BaseOps
<1>7. execute_decoded("mulw", a, b) = sext(a * b, WORD)
  BY <1>6, Zenon DEF execute_decoded
<1> QED
  BY <1>2, <1>5, <1>7, DispatchMul

LEMMA AddwAgrees ==
  ASSUME NEW a \in Int, NEW b \in Int
  PROVE  /\ execute_decoded("addw", a, b) = execute("addw", a, b, 0)
         /\ execute_decoded("subw", a, b) = execute("subw", a, b, 0)
<1>1. base("add", a, b, TRUE) = wrap(a + b) /\ base("sub", a, b, TRUE) = wrap(a - b)
  BY Zenon DEF base
<1>2. /\ "addw" \in WordOps \ {"mulw"} /\ "subw" \in WordOps \ {"mulw"}
      /\ OfWord["addw"] = "add" /\ OfWord["subw"] = "sub"
      /\ "addw" \notin BaseOps /\ "subw" \notin BaseOps
  BY DEF WordOps, OfWord, BaseOps
<1>3. /\ execute_decoded("addw", a, b) = sext(a + b, WORD)
      /\ execute_decoded("subw", a, b) = sext(a - b, WORD)
  BY <1>2, Zenon DEF execute_decoded
<1>4. /\ execute("addw", a, b, 0) = sext(wrap(a + b), WORD)
      /\ execute("subw", a, b, 0) = sext(wrap(a - b), WORD)
  <2>1. /\ execute("addw", a, b, 0) = sext(base(OfWord["addw"], a, b, TRUE), WORD)
        /\ execute("subw", a, b, 0) = sext(base(OfWord["subw"], a, b, TRUE), WORD)
    BY <1>2, DispatchWord
  <2> QED
    BY <1>1, <1>2, <2>1
<1>5. a + b \in Int /\ a - b \in Int
  OBVIOUS
<1> QED
  BY <1>3, <1>4, <1>5, ExtensionOfWrapped

LEMMA ShiftsAgree ==
  ASSUME NEW a \in Int, NEW b \in Int
  PROVE  /\ execute_decoded("sllw", a, b) = execute("sllw", a, b, 0)
         /\ execute_decoded("srlw", a, b) = execute("srlw", a, b, 0)
         /\ execute_decoded("sraw", a, b) = execute("sraw", a, b, 0)
<1> DEFINE d == 2^(b % WORD)
           t == as_signed(a, WORD)
           q == t \div d
<1>1. /\ base("sll", a, b, TRUE) = wrap(a * d)
      /\ base("srl", a, b, TRUE) = word(a) \div d
      /\ base("sra", a, b, TRUE) = wrap(q)
  BY Zenon DEF base, shift_left
<1>2. /\ {"sllw", "srlw", "sraw"} \subseteq WordOps \ {"mulw"}
      /\ OfWord["sllw"] = "sll" /\ OfWord["srlw"] = "srl" /\ OfWord["sraw"] = "sra"
      /\ "sllw" \notin BaseOps /\ "srlw" \notin BaseOps /\ "sraw" \notin BaseOps
  BY DEF WordOps, OfWord, BaseOps
<1>3. /\ execute_decoded("sllw", a, b) = sext(a * d, WORD)
      /\ execute_decoded("srlw", a, b) = sext(word(a) \div d, WORD)
      /\ execute_decoded("sraw", a, b) = wrap(q)
  BY <1>2, Zenon DEF execute_decoded
<1>4. d \in Nat /\ d > 0
  BY WordShift
<1>5. q \in Int /\ -HalfWord <= q /\ q < HalfWord
  BY <1>4, SizesOf, SignedWordOf, DividedStays
<1>6. /\ execute("sllw", a, b, 0) = sext(wrap(a * d), WORD)
      /\ execute("srlw", a, b, 0) = sext(word(a) \div d, WORD)
      /\ execute("sraw", a, b, 0) = sext(wrap(q), WORD)
  <2>1. /\ execute("sllw", a, b, 0) = sext(base(OfWord["sllw"], a, b, TRUE), WORD)
        /\ execute("srlw", a, b, 0) = sext(base(OfWord["srlw"], a, b, TRUE), WORD)
        /\ execute("sraw", a, b, 0) = sext(base(OfWord["sraw"], a, b, TRUE), WORD)
    BY <1>2, DispatchWord
  <2> QED
    BY <1>1, <1>2, <2>1
<1> HIDE DEF d, t, q
<1>7. sext(wrap(a * d), WORD) = sext(a * d, WORD)
  <2>1. a * d \in Int
    BY <1>4
  <2> QED
    BY <2>1, ExtensionOfWrapped
<1>8. sext(wrap(q), WORD) = wrap(q)
  <2>1. sext(wrap(q), WORD) = sext(q, WORD)
    BY <1>5, ExtensionOfWrapped
  <2>2. as_signed(q, WORD) = q
    BY <1>5, SignedWordOf
  <2> QED
    BY <2>1, <2>2 DEF sext
<1> QED
  BY <1>3, <1>6, <1>7, <1>8

LEMMA ZbaAgrees ==
  ASSUME NEW a \in Int, NEW b \in Int
  PROVE  /\ execute_decoded("sh1add.uw", a, b) = execute("sh1add.uw", a, b, 0)
         /\ execute_decoded("sh2add.uw", a, b) = execute("sh2add.uw", a, b, 0)
         /\ execute_decoded("zext.h", a, b) = execute("zext.h", a, b, 0)
<1>1. /\ DOMAIN ShiftAdd = {"sh1add", "sh2add", "sh3add"}
      /\ DOMAIN WordShiftAdd = {"sh1add.uw", "sh2add.uw", "sh3add.uw"}
      /\ WordShiftAdd["sh1add.uw"] = 1 /\ WordShiftAdd["sh2add.uw"] = 2
  BY DEF ShiftAdd, WordShiftAdd
<1>2. /\ "sh1add.uw" \notin DOMAIN ShiftAdd /\ "sh1add.uw" \in DOMAIN WordShiftAdd
      /\ "sh2add.uw" \notin DOMAIN ShiftAdd /\ "sh2add.uw" \in DOMAIN WordShiftAdd
      /\ "zext.h" \notin DOMAIN ShiftAdd /\ "zext.h" \notin DOMAIN WordShiftAdd
      /\ "sh1add.uw" \notin BaseOps /\ "sh2add.uw" \notin BaseOps /\ "zext.h" \notin BaseOps
  BY <1>1 DEF BaseOps
<1>3. bitmanip("sh1add.uw", a, b, 0) = wrap(shift_left(word(a), WordShiftAdd["sh1add.uw"]) + b)
  BY <1>2, Zenon DEF bitmanip
<1>4. bitmanip("sh2add.uw", a, b, 0) = wrap(shift_left(word(a), WordShiftAdd["sh2add.uw"]) + b)
  BY <1>2, Zenon DEF bitmanip
<1>5. bitmanip("zext.h", a, b, 0) = a % 2^HALF
  BY <1>2, Zenon DEF bitmanip
<1>6. /\ execute_decoded("sh1add.uw", a, b) = wrap(word(a) * 2 + b)
      /\ execute_decoded("sh2add.uw", a, b) = wrap(word(a) * 4 + b)
      /\ execute_decoded("zext.h", a, b) = a % 2^HALF
  BY <1>2, Zenon DEF execute_decoded
<1>7. 2^1 = 2 /\ 2^2 = 4
  OBVIOUS
<1>8. word(a) \in Int
  BY SizesOf, Divided DEF word, WordSize
<1>9. ASSUME NEW u \in Int PROVE wrap(wrap(u) + b) = wrap(u + b)
  <2>1. Register \in Nat /\ Register > 0
    BY SizesOf
  <2>2. PICK q \in Int : u = wrap(u) + q * Register
    BY <2>1, Divided DEF wrap, Register
  <2>3. wrap(u) \in Int
    BY <2>1, Divided DEF wrap, Register
  <2> DEFINE v == wrap(u) + b
  <2>4. u + b = v + q * Register /\ v \in Int
    BY <2>1, <2>2, <2>3
  <2> HIDE DEF v
  <2>5. (v + q * Register) % Register = v % Register
    BY <2>1, <2>4, MultiplesVanish
  <2>6. (u + b) % Register = v % Register
    BY <2>4, <2>5
  <2> QED
    BY <2>6 DEF v, wrap, Register
<1>10. /\ bitmanip("sh1add.uw", a, b, 0) = wrap(word(a) * 2 + b)
       /\ bitmanip("sh2add.uw", a, b, 0) = wrap(word(a) * 4 + b)
  <2>1. word(a) * 2 \in Int /\ word(a) * 4 \in Int
    BY <1>8
  <2>2. /\ shift_left(word(a), 1) = wrap(word(a) * 2)
        /\ shift_left(word(a), 2) = wrap(word(a) * 4)
    BY <1>7 DEF shift_left
  <2> QED
    BY <1>1, <1>3, <1>4, <1>9, <2>1, <2>2
<1> QED
  BY <1>5, <1>6, <1>10, DispatchBitmanip

\* What the predecoded executor does for the operations of the base.
LEMMA DecodedCases ==
  ASSUME NEW op \in BaseOps, NEW a, NEW b, op # "mul"
  PROVE  execute_decoded(op, a, b) = base(op, a, b, FALSE)
<1>1. op \notin {"mulw", "addw", "subw", "sllw", "srlw", "sraw", "sh1add.uw", "sh2add.uw", "zext.h"}
  BY DEF BaseOps
<1> QED
  BY <1>1, Zenon DEF execute_decoded

LEMMA BaseAgrees ==
  ASSUME NEW op \in BaseOps \cup {"mul"}, NEW a, NEW b
  PROVE  execute_decoded(op, a, b) = execute(op, a, b, 0)
<1>1. CASE op = "mul"
  <2>1. "mul" \notin BaseOps
    BY DEF BaseOps
  <2>2. execute_decoded("mul", a, b) = wrap(a * b)
    BY <2>1, Zenon DEF execute_decoded
  <2>3. multiply("mul", a, b, FALSE) = wrap(a * b)
    BY Zenon DEF multiply
  <2> QED
    BY <1>1, <2>2, <2>3, DispatchMul
<1>2. CASE op \in BaseOps
  <2>1. op # "mul"
    BY <1>2 DEF BaseOps
  <2>2. execute_decoded(op, a, b) = base(op, a, b, FALSE)
    BY <1>2, <2>1, DecodedCases
  <2> QED
    BY <1>2, <2>2, DispatchBase
<1> QED
  BY <1>1, <1>2

\* A predecoded operation computes what the original executor does.
LEMMA ExecutorsAgree ==
  ASSUME NEW a \in Int, NEW b \in Int, NEW op \in FastOps
  PROVE  execute_decoded(op, a, b) = execute(op, a, b, 0)
<1>1. op \in BaseOps \cup {"mul"} \/ op \in WordOps \/ op \in {"sh1add.uw", "sh2add.uw", "zext.h"}
  BY FastCases
<1>2. CASE op \in BaseOps \cup {"mul"}
  BY <1>2, BaseAgrees
<1>3. CASE op \in WordOps
  BY <1>3, MulwAgrees, AddwAgrees, ShiftsAgree DEF WordOps
<1>4. CASE op \in {"sh1add.uw", "sh2add.uw", "zext.h"}
  BY <1>4, ZbaAgrees
<1> QED
  BY <1>1, <1>2, <1>3, <1>4

-----------------------------------------------------------------------------
(* Powers of two, and the bits of numbers *)

\* A nonempty set of natural numbers has a least element.
LEMMA LeastOf ==
  ASSUME NEW S \in SUBSET Nat, S # {}
  PROVE  \E n \in S : \A m \in S : n <= m
<1>1. \E u \in S : \A v \in S : ~ (<<v, u>> \in OpToRel(<, Nat))
  BY NatLessThanWellFounded, WFMin
<1>2. PICK u \in S : \A v \in S : ~ (<<v, u>> \in OpToRel(<, Nat))
  BY <1>1
<1>3. \A v \in S : ~ (v < u)
  BY <1>2 DEF OpToRel
<1> QED
  BY <1>3

\* A set that holds 0, and with each number the next, holds every natural number.
LEMMA InductionOnSets ==
  ASSUME NEW S, 0 \in S, \A n \in Nat : n \in S => n + 1 \in S
  PROVE  Nat \subseteq S
<1> DEFINE T == Nat \ S
<1> SUFFICES ASSUME T # {} PROVE FALSE
  OBVIOUS
<1>1. T \in SUBSET Nat
  OBVIOUS
<1> HIDE DEF T
<1>2. PICK n \in T : \A m \in T : n <= m
  BY <1>1, LeastOf
<1> USE DEF T
<1>3. n \in Nat /\ n # 0
  BY <1>2
<1>4. n - 1 \in Nat /\ n - 1 \notin T /\ (n - 1) + 1 = n
  BY <1>2, <1>3
<1> QED
  BY <1>2, <1>4

\* The powers that a register's bits have, in the form the proofs use.
LEMMA PowersOf ==
  /\ XLEN \in Nat /\ XLEN > 0 /\ WORD \in Nat /\ WORD > 0 /\ WORD < XLEN /\ 2^0 = 1 /\ 2^1 = 2
  /\ \A n \in 0 .. XLEN : 2^n \in Nat /\ 2^n > 0
  /\ \A n \in 0 .. XLEN - 1 : 2^(n + 1) = 2 * 2^n
  /\ \A m, n \in 0 .. XLEN : m <= n => n - m \in 0 .. XLEN /\ 2^n = 2^(n - m) * 2^m /\ 2^m <= 2^n
<1>1. XLEN \in Nat /\ XLEN > 0 /\ WORD \in Nat /\ WORD > 0 /\ WORD < XLEN
  BY WidthAssumption
<1>2. 2^0 = 1 /\ 2^1 = 2
  OBVIOUS
<1>3. \A n \in 0 .. XLEN : 2^n \in Nat /\ 2^n > 0
  BY SizesOf
<1>4. ASSUME NEW n \in 0 .. XLEN - 1 PROVE 2^(n + 1) = 2 * 2^n
  <2>1. n \in 0 .. XLEN /\ 1 \in 0 .. XLEN
    BY <1>1
  <2>2. 2^(1 + n) = 2^1 * 2^n
    BY <2>1, PowersAssumption
  <2>3. 1 + n = n + 1
    BY <2>1
  <2> QED
    BY <1>2, <2>2, <2>3
<1>5. ASSUME NEW m \in 0 .. XLEN, NEW n \in 0 .. XLEN, m <= n
      PROVE  n - m \in 0 .. XLEN /\ 2^n = 2^(n - m) * 2^m /\ 2^m <= 2^n
  <2> DEFINE k == n - m
  <2>1. k \in 0 .. XLEN /\ k + m = n
    BY <1>1, <1>5
  <2>2. 2^(k + m) = 2^k * 2^m
    BY <2>1, PowersAssumption
  <2> DEFINE c == 2^k
             d == 2^m
  <2>3. c \in Nat /\ c > 0 /\ d \in Nat
    BY <1>3, <2>1
  <2>4. d <= c * d
    <3> HIDE DEF c, d
    <3> QED
      BY <2>3
  <2> QED
    BY <2>1, <2>2, <2>4
<1> QED
  BY <1>1, <1>2, <1>3, <1>4, <1>5

\* A number below the width of a register fits into one.
LEMMA BelowPower ==
  ASSUME NEW n \in 0 .. XLEN
  PROVE  n < 2^n
<1> DEFINE S == {k \in Nat : k <= XLEN => k < 2^k}
<1>1. 0 \in S
  BY PowersOf
<1>2. ASSUME NEW k \in Nat, k \in S PROVE k + 1 \in S
  <2> SUFFICES ASSUME k + 1 <= XLEN PROVE k + 1 < 2^(k + 1)
    OBVIOUS
  <2>1. k < 2^k /\ k \in 0 .. XLEN /\ k \in 0 .. XLEN - 1
    BY <1>2, PowersOf
  <2>2. 2^k \in Nat /\ 2^(k + 1) = 2 * 2^k
    BY <2>1, PowersOf
  <2> QED
    BY <2>1, <2>2
<1>3. Nat \subseteq S
  <2> HIDE DEF S
  <2> QED
    BY <1>1, <1>2, InductionOnSets
<1> QED
  BY <1>3

LEMMA DividedOf ==
  ASSUME NEW r \in Int, NEW q \in Int, NEW m \in Nat, 0 <= r, r < m
  PROVE  (r + q * m) \div m = q
OBVIOUS

\* A register's value and its remainders.
LEMMA ValuesAre ==
  ASSUME NEW a \in Values
  PROVE  /\ a \in Int /\ 0 <= a /\ a < Register /\ a % Register = a /\ a % 2^XLEN = a
         /\ Register \in Nat /\ Register > 0 /\ wrap(a) = a /\ Register = 2^XLEN /\ XLEN \in 0 .. XLEN
<1>1. Register \in Nat /\ Register > 0 /\ XLEN \in Nat
  BY SizesOf, PowersOf
<1>2. a \in Int /\ 0 <= a /\ a < Register
  BY <1>1 DEF Values, Register
<1>3. a % Register = a
  BY <1>1, <1>2, RemainderOfLess
<1> QED
  BY <1>1, <1>2, <1>3 DEF Register, wrap

\* A remainder of a remainder.
LEMMA LowOfLow ==
  ASSUME NEW a \in Int, NEW m \in 0 .. XLEN, NEW n \in 0 .. XLEN, m <= n
  PROVE  (a % 2^n) % 2^m = a % 2^m
<1> DEFINE d == 2^m
           e == 2^n
           c == 2^(n - m)
           q == a \div e
           r == a % e
<1>1. d \in Nat /\ d > 0 /\ e \in Nat /\ e > 0 /\ c \in Nat /\ e = c * d
  BY PowersOf
<1>2. q \in Int /\ r \in Int /\ a = r + q * e
  <2> HIDE DEF e
  <2> QED BY <1>1, Divided
<1> HIDE DEF d, e, c, q, r
<1> DEFINE p == q * c
<1>3. a = r + p * d /\ p \in Int
  BY <1>1, <1>2
<1> HIDE DEF p
<1>4. (r + p * d) % d = r % d
  BY <1>1, <1>2, <1>3, MultiplesVanish
<1> QED
  BY <1>3, <1>4 DEF d, e, r

LEMMA NoBit ==
  ASSUME NEW a, NEW n, a \div 2^n = 0
  PROVE  Bit(a, n) = 0
<1> DEFINE q == a \div 2^n
<1>1. Bit(a, n) = q % 2 /\ q = 0
  BY DEF Bit
<1> HIDE DEF q
<1> QED
  BY <1>1

LEMMA BitType ==
  ASSUME NEW a \in Int, NEW n \in 0 .. XLEN
  PROVE  Bit(a, n) \in {0, 1}
<1> DEFINE q == a \div 2^n
<1>1. 2^n \in Nat /\ 2^n > 0
  BY PowersOf
<1>2. q \in Int
  BY <1>1, Divided
<1> HIDE DEF q
<1>3. q % 2 \in {0, 1}
  BY <1>2
<1> QED
  BY <1>3 DEF Bit, q

\* One bit more of a number.
LEMMA LowBits ==
  ASSUME NEW a \in Int, NEW n \in 0 .. XLEN - 1
  PROVE  a % 2^(n + 1) = (a % 2^n) + Bit(a, n) * 2^n
<1> DEFINE d == 2^n
           e == 2^(n + 1)
           q == a \div d
           r == a % d
           p == q \div 2
           b == q % 2
<1>1. d \in Nat /\ d > 0 /\ e = 2 * d /\ e \in Nat
  BY PowersOf
<1>2. Bit(a, n) = b
  BY DEF Bit
<1>3. r \in Int /\ q \in Int /\ 0 <= r /\ r < d /\ a = r + q * d
  <2> HIDE DEF d
  <2> QED
    BY <1>1, Divided
<1> HIDE DEF d, e, q, r
<1>4. p \in Int /\ b \in Int /\ 0 <= b /\ b < 2 /\ q = b + p * 2
  BY <1>3
<1> HIDE DEF p, b
<1> DEFINE s == r + b * d
<1>5. b = 0 \/ b = 1
  BY <1>4
<1>6. s \in Int /\ 0 <= s /\ s < e
  BY <1>1, <1>3, <1>5
<1>7. q * d = b * d + p * e
  BY <1>1, <1>3, <1>4
<1>8. a = s + p * e
  <2>1. b * d \in Int /\ p * e \in Int
    BY <1>1, <1>4
  <2> QED
    BY <1>3, <1>7, <2>1
<1> HIDE DEF s
<1>9. (s + p * e) % e = s
  BY <1>1, <1>4, <1>6, RemainderOf
<1> QED
  BY <1>2, <1>8, <1>9 DEF s, e, d, r

\* Numbers whose bits add up without a carry add up.
LEMMA SumsOfBits ==
  ASSUME NEW a \in Int, NEW b \in Int, NEW c \in Int, NEW w \in 0 .. XLEN,
         \A n \in 0 .. w - 1 : Bit(a, n) + Bit(b, n) = Bit(c, n)
  PROVE  (a % 2^w) + (b % 2^w) = c % 2^w
<1> DEFINE S == {n \in Nat : n <= w => (a % 2^n) + (b % 2^n) = c % 2^n}
<1>1. 0 \in S
  <2>1. a % 1 = 0 /\ b % 1 = 0 /\ c % 1 = 0
    OBVIOUS
  <2> QED
    BY <2>1, PowersOf
<1>2. ASSUME NEW n \in Nat, n \in S PROVE n + 1 \in S
  <2> SUFFICES ASSUME n + 1 <= w PROVE (a % 2^(n + 1)) + (b % 2^(n + 1)) = c % 2^(n + 1)
    OBVIOUS
  <2>1. n \in 0 .. XLEN - 1 /\ n \in 0 .. w - 1 /\ n \in 0 .. XLEN /\ n <= w
    BY PowersOf
  <2>2. /\ a % 2^(n + 1) = (a % 2^n) + Bit(a, n) * 2^n
        /\ b % 2^(n + 1) = (b % 2^n) + Bit(b, n) * 2^n
        /\ c % 2^(n + 1) = (c % 2^n) + Bit(c, n) * 2^n
    BY <2>1, LowBits
  <2>3. (a % 2^n) + (b % 2^n) = c % 2^n
    BY <1>2, <2>1
  <2>4. Bit(a, n) + Bit(b, n) = Bit(c, n) /\ {Bit(a, n), Bit(b, n), Bit(c, n)} \subseteq {0, 1}
    BY <2>1, BitType
  <2>5. 2^n \in Nat /\ 2^n > 0
    BY <2>1, PowersOf
  <2>6. a % 2^n \in Int /\ b % 2^n \in Int /\ c % 2^n \in Int
    BY <2>5, Divided
  <2> DEFINE d == 2^n
  <2> HIDE DEF d
  <2>7. Bit(a, n) * d + Bit(b, n) * d = Bit(c, n) * d /\ d \in Int
    BY <2>4, <2>5 DEF d
  <2>8. Bit(a, n) * d \in Int /\ Bit(b, n) * d \in Int /\ Bit(c, n) * d \in Int
    BY <2>4, <2>7
  <2> QED
    BY <2>2, <2>3, <2>6, <2>7, <2>8 DEF d
<1>3. Nat \subseteq S
  <2> HIDE DEF S
  <2> QED
    BY <1>1, <1>2, InductionOnSets
<1> QED
  BY <1>3

LEMMA BitOfZero ==
  ASSUME NEW n \in 0 .. XLEN
  PROVE  Bit(0, n) = 0
<1> DEFINE d == 2^n
<1>1. d \in Nat /\ d > 0
  BY PowersOf
<1>2. 0 \div d = 0
  <2> HIDE DEF d
  <2>1. 0 = 0 + 0 * d
    BY <1>1
  <2> QED
    BY <1>1, <2>1, DividedOf
<1> QED
  BY <1>2, NoBit

\* Numbers with the same lower bits have the same lower part.
LEMMA SameBits ==
  ASSUME NEW a \in Int, NEW c \in Int, NEW w \in 0 .. XLEN,
         \A n \in 0 .. w - 1 : Bit(a, n) = Bit(c, n)
  PROVE  a % 2^w = c % 2^w
<1> PICK zero \in Int : zero = 0
  OBVIOUS
<1>1. ASSUME NEW n \in 0 .. w - 1 PROVE Bit(a, n) + Bit(zero, n) = Bit(c, n)
  <2>1. n \in 0 .. XLEN
    BY PowersOf
  <2>2. Bit(zero, n) = 0 /\ Bit(a, n) \in {0, 1}
    BY <2>1, BitOfZero, BitType
  <2>3. Bit(a, n) = Bit(c, n)
    BY <1>1
  <2> QED
    BY <2>2, <2>3
<1>2. (a % 2^w) + (zero % 2^w) = c % 2^w
  BY <1>1, SumsOfBits
<1> DEFINE d == 2^w
<1>3. d \in Nat /\ d > 0
  BY PowersOf
<1> HIDE DEF d
<1>4. zero % d = 0 /\ a % d \in Int
  BY <1>3, Divided, RemainderOfLess
<1> QED
  BY <1>2, <1>4 DEF d

\* A value is what its bits are.
LEMMA SameValues ==
  ASSUME NEW a \in Values, NEW c \in Values, \A n \in 0 .. XLEN - 1 : Bit(a, n) = Bit(c, n)
  PROVE  a = c
BY SameBits, ValuesAre

\* Where no bit is carried, the bits of a sum are the sums of bits.
LEMMA SumOfValues ==
  ASSUME NEW a \in Values, NEW b \in Values, NEW c \in Values,
         \A n \in 0 .. XLEN - 1 : Bit(a, n) + Bit(b, n) = Bit(c, n)
  PROVE  a + b = c
BY SumsOfBits, ValuesAre

\* The bits of the lower part of a number.
LEMMA BitsOfLow ==
  ASSUME NEW a \in Int, NEW w \in 0 .. XLEN, NEW n \in 0 .. XLEN - 1
  PROVE  Bit(a % 2^w, n) = IF n < w THEN Bit(a, n) ELSE 0
<1> DEFINE r == a % 2^w
<1>0. 2^w \in Nat /\ 2^w > 0 /\ n \in 0 .. XLEN /\ 2^n \in Nat /\ 2^n > 0
  BY PowersOf
<1>1. r \in Int /\ 0 <= r /\ r < 2^w
  BY <1>0, Divided
<1>2. CASE n < w
  <2>1. n + 1 \in 0 .. XLEN /\ n + 1 <= w /\ n <= w
    BY <1>2, PowersOf
  <2>2. r % 2^(n + 1) = a % 2^(n + 1) /\ r % 2^n = a % 2^n
    BY <1>0, <2>1, LowOfLow
  <2>3. /\ a % 2^(n + 1) = (a % 2^n) + Bit(a, n) * 2^n
        /\ r % 2^(n + 1) = (r % 2^n) + Bit(r, n) * 2^n
    BY <1>1, LowBits
  <2>4. Bit(a, n) \in {0, 1} /\ Bit(r, n) \in {0, 1} /\ a % 2^n \in Int
    BY <1>0, <1>1, BitType, Divided
  <2> HIDE DEF r
  <2> QED
    BY <1>0, <1>2, <2>2, <2>3, <2>4 DEF r
<1>3. CASE ~ (n < w)
  <2>1. w <= n
    BY <1>3, PowersOf
  <2>2. 2^w <= 2^n
    BY <1>0, <2>1, PowersOf
  <2>3. r < 2^n
    BY <1>0, <1>1, <2>2
  <2> DEFINE d == 2^n
  <2>4. r \div d = 0
    <3> HIDE DEF r, d
    <3>1. r \in Int /\ 0 <= r /\ r < d /\ d \in Nat
      BY <1>0, <1>1, <2>3 DEF d
    <3>2. r = r + 0 * d
      BY <3>1
    <3> QED
      BY <3>1, <3>2, DividedOf
  <2>5. Bit(r, n) = 0
    BY <2>4, NoBit
  <2> QED
    BY <1>3, <2>5
<1> QED
  BY <1>2, <1>3

\* What is assumed of the operations on bits, one bit at a time.
LEMMA OperationsOnBits ==
  ASSUME NEW u \in Values, NEW v \in Values
  PROVE  /\ BitAnd(u, v) \in Values /\ BitOr(u, v) \in Values /\ BitXor(u, v) \in Values
         /\ \A n \in 0 .. XLEN - 1 :
              /\ Bit(BitAnd(u, v), n) = Bit(u, n) * Bit(v, n)
              /\ Bit(BitOr(u, v), n) = IF Bit(u, n) = 1 THEN 1 ELSE Bit(v, n)
              /\ Bit(BitXor(u, v), n) = IF Bit(u, n) = Bit(v, n) THEN 0 ELSE 1
BY BitsAssumption, Zenon

\* The type of a bit, and the places of bits.
LEMMA BitOfValue ==
  ASSUME NEW a \in Values, NEW n \in 0 .. XLEN - 1
  PROVE  Bit(a, n) \in {0, 1} /\ n \in 0 .. XLEN /\ n \in Nat
<1>1. n \in 0 .. XLEN /\ n \in Nat
  BY PowersOf
<1> QED
  BY <1>1, ValuesAre, BitType

\* Numbers in the place of a register's values.
LEMMA InValues ==
  ASSUME NEW a \in Int
  PROVE  /\ 0 <= a /\ a < Register => a \in Values
         /\ a % Register \in Values /\ a % 2^XLEN \in Values
<1>1. Register \in Nat /\ Register > 0
  BY SizesOf
<1>2. a % Register \in Int /\ 0 <= a % Register /\ a % Register < Register
  BY <1>1, Divided
<1> QED
  BY <1>1, <1>2 DEF Values, Register

\* not turns every bit over.
LEMMA BitsOfNot ==
  ASSUME NEW b \in Values
  PROVE  not(b) \in Values /\ \A n \in 0 .. XLEN - 1 : Bit(not(b), n) = 1 - Bit(b, n)
<1>1. not(b) \in Values /\ not(b) = Register - 1 - b
  BY ValuesAre, InValues DEF not, Ones, Register
<1>2. ASSUME NEW n \in 0 .. XLEN - 1 PROVE Bit(not(b), n) = 1 - Bit(b, n)
  <2> DEFINE d == 2^n
             c == 2^(XLEN - (n + 1))
             q == b \div d
             r == b % d
             s == d - 1 - r
             p == q \div 2
             f == q % 2
  <2>1. n \in 0 .. XLEN /\ n + 1 \in 0 .. XLEN /\ n + 1 <= XLEN
    BY PowersOf
  <2>2. d \in Nat /\ d > 0
    BY <2>1, PowersOf
  <2>3. 2^(n + 1) = 2 * d
    BY PowersOf
  <2>4. Register = c * 2^(n + 1) /\ c \in Nat
    BY <2>1, PowersOf, ValuesAre DEF Register
  <2>5. b \in Int
    BY ValuesAre
  <2>6. q \in Int /\ r \in Int /\ 0 <= r /\ r < d /\ b = r + q * d
    <3> HIDE DEF d
    <3> QED
      BY <2>2, <2>5, Divided
  <2> HIDE DEF q, r
  <2>7. p \in Int /\ f \in Int /\ 0 <= f /\ f < 2 /\ q = f + p * 2
    BY <2>6
  <2> HIDE DEF p, f, c, d
  <2> DEFINE t == 2 * c - 1 - q
             e == c - 1 - p
  <2>8. Register = c * (2 * d)
    BY <2>3, <2>4
  <2>9. not(b) = s + t * d /\ t \in Int
    <3>1. t * d = 2 * c * d - d - q * d
      BY <2>2, <2>4, <2>6
    <3>2. c * (2 * d) = 2 * c * d /\ 2 * c * d \in Int /\ q * d \in Int
      BY <2>2, <2>4, <2>6
    <3> QED
      BY <1>1, <2>2, <2>4, <2>6, <2>8, <3>1, <3>2
  <2>10. s \in Int /\ 0 <= s /\ s < d
    BY <2>2, <2>6
  <2>11. t = (1 - f) + e * 2 /\ e \in Int /\ 1 - f \in Int /\ 0 <= 1 - f /\ 1 - f < 2
    BY <2>4, <2>7
  <2> HIDE DEF s, t, e
  <2>12. (s + t * d) \div d = t
    BY <2>2, <2>9, <2>10, DividedOf
  <2>13. t % 2 = 1 - f
    BY <2>11
  <2>14. Bit(b, n) = f
    BY DEF Bit, f, q, d
  <2>15. not(b) \div d = t
    BY <2>9, <2>12
  <2>16. Bit(not(b), n) = t % 2
    BY <2>15 DEF Bit, d
  <2> QED
    BY <2>13, <2>14, <2>16
<1> QED
  BY <1>1, <1>2

\* a number without another's bits, in the two ways.
LEMMA WithoutBits ==
  ASSUME NEW a \in Values, NEW b \in Values
  PROVE  BitAnd(a, not(b)) = Without(a, b) /\ Without(a, b) \in Values
<1> DEFINE c == BitAnd(a, not(b))
           d == BitAnd(a, b)
<1>1. not(b) \in Values
  BY BitsOfNot
<1>2. c \in Values /\ d \in Values
  BY <1>1, OperationsOnBits
<1>3. ASSUME NEW n \in 0 .. XLEN - 1 PROVE Bit(c, n) + Bit(d, n) = Bit(a, n)
  <2>1. Bit(c, n) = Bit(a, n) * Bit(not(b), n) /\ Bit(d, n) = Bit(a, n) * Bit(b, n)
    BY <1>1, OperationsOnBits
  <2>2. Bit(not(b), n) = 1 - Bit(b, n)
    BY BitsOfNot
  <2>3. Bit(a, n) \in {0, 1} /\ Bit(b, n) \in {0, 1}
    BY BitOfValue
  <2> HIDE DEF c, d
  <2> QED
    BY <2>1, <2>2, <2>3
<1> HIDE DEF c, d
<1>4. c + d = a
  BY <1>2, <1>3, SumOfValues
<1> QED
  BY <1>2, <1>4, ValuesAre DEF c, d, Without

\* a | ~b and a ^ ~b in a register, as the complements that the oracle takes.
LEMMA OrNot ==
  ASSUME NEW a \in Values, NEW b \in Values
  PROVE  BitOr(a, not(b)) = not(Without(b, a))
<1> DEFINE c == BitOr(a, not(b))
           e == BitAnd(b, not(a))
           d == not(e)
<1>1. not(a) \in Values /\ not(b) \in Values
  BY BitsOfNot
<1>2. c \in Values /\ e \in Values
  BY <1>1, OperationsOnBits
<1>3. d \in Values
  BY <1>2, BitsOfNot
<1>4. ASSUME NEW n \in 0 .. XLEN - 1 PROVE Bit(c, n) = Bit(d, n)
  <2>1. /\ Bit(c, n) = IF Bit(a, n) = 1 THEN 1 ELSE Bit(not(b), n)
        /\ Bit(e, n) = Bit(b, n) * Bit(not(a), n)
    BY <1>1, OperationsOnBits
  <2>2. Bit(not(b), n) = 1 - Bit(b, n) /\ Bit(not(a), n) = 1 - Bit(a, n)
    BY BitsOfNot
  <2>3. Bit(d, n) = 1 - Bit(e, n)
    BY <1>2, BitsOfNot
  <2>4. Bit(a, n) \in {0, 1} /\ Bit(b, n) \in {0, 1}
    BY BitOfValue
  <2> HIDE DEF c, d, e
  <2> QED
    BY <2>1, <2>2, <2>3, <2>4
<1> HIDE DEF c, d
<1>5. c = d
  BY <1>2, <1>3, <1>4, SameValues
<1>6. e = Without(b, a)
  BY WithoutBits
<1> QED
  BY <1>5, <1>6 DEF c, d

LEMMA XorNot ==
  ASSUME NEW a \in Values, NEW b \in Values
  PROVE  BitXor(a, not(b)) = not(BitXor(a, b))
<1> DEFINE c == BitXor(a, not(b))
           e == BitXor(a, b)
           d == not(e)
<1>1. not(b) \in Values
  BY BitsOfNot
<1>2. c \in Values /\ e \in Values
  BY <1>1, OperationsOnBits
<1>3. d \in Values
  BY <1>2, BitsOfNot
<1>4. ASSUME NEW n \in 0 .. XLEN - 1 PROVE Bit(c, n) = Bit(d, n)
  <2>1. /\ Bit(c, n) = IF Bit(a, n) = Bit(not(b), n) THEN 0 ELSE 1
        /\ Bit(e, n) = IF Bit(a, n) = Bit(b, n) THEN 0 ELSE 1
    BY <1>1, OperationsOnBits
  <2>2. Bit(not(b), n) = 1 - Bit(b, n)
    BY BitsOfNot
  <2>3. Bit(d, n) = 1 - Bit(e, n)
    BY <1>2, BitsOfNot
  <2>4. Bit(a, n) \in {0, 1} /\ Bit(b, n) \in {0, 1}
    BY BitOfValue
  <2> HIDE DEF c, d, e
  <2> QED
    BY <2>1, <2>2, <2>3, <2>4
<1> HIDE DEF c, d
<1>5. c = d
  BY <1>2, <1>3, <1>4, SameValues
<1> QED
  BY <1>5 DEF c, d

\* Python's ~v, wrapped to a register.
LEMMA WrappedNot ==
  ASSUME NEW v \in Values
  PROVE  (-1 - v) % 2^XLEN = not(v)
<1> PICK k \in Int : k = -1
  OBVIOUS
<1>1. not(v) \in Values /\ not(v) = Register - 1 - v
  BY BitsOfNot DEF not, Ones, Register
<1>2. not(v) \in Int /\ 0 <= not(v) /\ not(v) < Register /\ Register \in Nat /\ v \in Int
  BY <1>1, ValuesAre
<1>3. not(v) + k * Register = -1 - v
  BY <1>1, <1>2
<1>4. (not(v) + k * Register) % Register = not(v)
  BY <1>2, RemainderOf
<1> QED
  BY <1>3, <1>4 DEF Register

\* A word of a result depends on the words only.
LEMMA WordsOfBits ==
  ASSUME NEW u \in Values, NEW v \in Values
  PROVE  /\ BitAnd(u, v) % WordSize = BitAnd(u % WordSize, v % WordSize)
         /\ BitOr(u, v) % WordSize = BitOr(u % WordSize, v % WordSize)
         /\ BitXor(u, v) % WordSize = BitXor(u % WordSize, v % WordSize)
<1> DEFINE c == u % WordSize
           d == v % WordSize
<1>0. WORD \in 0 .. XLEN /\ WordSize = 2^WORD /\ WordSize \in Nat /\ WordSize > 0 /\ WordSize <= Register
  BY PowersOf, SizesOf DEF WordSize, Register
<1>1. c \in Values /\ d \in Values
  <2>1. c \in Int /\ 0 <= c /\ c < WordSize /\ d \in Int /\ 0 <= d /\ d < WordSize
    BY <1>0, ValuesAre, Divided
  <2> QED
    BY <1>0, <2>1, ValuesAre, InValues
<1>2. ASSUME NEW n \in 0 .. XLEN - 1
      PROVE  /\ Bit(c, n) = IF n < WORD THEN Bit(u, n) ELSE 0
             /\ Bit(d, n) = IF n < WORD THEN Bit(v, n) ELSE 0
             /\ \A e \in Values : Bit(e % WordSize, n) = IF n < WORD THEN Bit(e, n) ELSE 0
  BY <1>0, ValuesAre, BitsOfLow
<1> HIDE DEF c, d
<1>3. ASSUME NEW e \in Values, NEW f \in Values,
             \A n \in 0 .. XLEN - 1 : Bit(f, n) = IF n < WORD THEN Bit(e, n) ELSE 0
      PROVE  e % WordSize = f
  <2>1. e % WordSize \in Values
    <3>1. e % WordSize \in Int /\ 0 <= e % WordSize /\ e % WordSize < WordSize
      BY <1>0, ValuesAre, Divided
    <3> QED
      BY <1>0, <3>1, ValuesAre, InValues
  <2>2. \A n \in 0 .. XLEN - 1 : Bit(e % WordSize, n) = Bit(f, n)
    BY <1>2, <1>3
  <2> QED
    BY <2>1, <2>2, SameValues
<1>4. BitAnd(u, v) % WordSize = BitAnd(c, d)
  <2>1. BitAnd(u, v) \in Values /\ BitAnd(c, d) \in Values
    BY <1>1, OperationsOnBits
  <2>2. ASSUME NEW n \in 0 .. XLEN - 1
        PROVE Bit(BitAnd(c, d), n) = IF n < WORD THEN Bit(BitAnd(u, v), n) ELSE 0
    <3>1. Bit(BitAnd(c, d), n) = Bit(c, n) * Bit(d, n) /\ Bit(BitAnd(u, v), n) = Bit(u, n) * Bit(v, n)
      BY <1>1, OperationsOnBits
    <3> QED
      BY <1>2, <3>1
  <2> QED
    BY <1>3, <2>1, <2>2
<1>5. BitOr(u, v) % WordSize = BitOr(c, d)
  <2>1. BitOr(u, v) \in Values /\ BitOr(c, d) \in Values
    BY <1>1, OperationsOnBits
  <2>2. ASSUME NEW n \in 0 .. XLEN - 1
        PROVE Bit(BitOr(c, d), n) = IF n < WORD THEN Bit(BitOr(u, v), n) ELSE 0
    <3>1. /\ Bit(BitOr(c, d), n) = IF Bit(c, n) = 1 THEN 1 ELSE Bit(d, n)
          /\ Bit(BitOr(u, v), n) = IF Bit(u, n) = 1 THEN 1 ELSE Bit(v, n)
      BY <1>1, OperationsOnBits
    <3> QED
      BY <1>2, <3>1
  <2> QED
    BY <1>3, <2>1, <2>2
<1>6. BitXor(u, v) % WordSize = BitXor(c, d)
  <2>1. BitXor(u, v) \in Values /\ BitXor(c, d) \in Values
    BY <1>1, OperationsOnBits
  <2>2. ASSUME NEW n \in 0 .. XLEN - 1
        PROVE Bit(BitXor(c, d), n) = IF n < WORD THEN Bit(BitXor(u, v), n) ELSE 0
    <3>1. /\ Bit(BitXor(c, d), n) = IF Bit(c, n) = Bit(d, n) THEN 0 ELSE 1
          /\ Bit(BitXor(u, v), n) = IF Bit(u, n) = Bit(v, n) THEN 0 ELSE 1
      BY <1>1, OperationsOnBits
    <3> QED
      BY <1>2, <3>1
  <2> QED
    BY <1>3, <2>1, <2>2
<1> QED
  BY <1>4, <1>5, <1>6 DEF c, d

\* A power has one bit.
LEMMA BitsOfPower ==
  ASSUME NEW k \in 0 .. XLEN - 1
  PROVE  2^k \in Values /\ \A n \in 0 .. XLEN - 1 : Bit(2^k, n) = IF n = k THEN 1 ELSE 0
<1>0. k \in 0 .. XLEN /\ k + 1 \in 0 .. XLEN /\ k + 1 <= XLEN /\ 2^k \in Nat /\ 2^k > 0 /\ 2^(k + 1) = 2 * 2^k
  BY PowersOf
<1>1. 2^k \in Values
  <2>1. 2^(k + 1) <= Register
    BY <1>0, PowersOf DEF Register
  <2> QED
    BY <1>0, <2>1, SizesOf, InValues
<1>2. ASSUME NEW n \in 0 .. XLEN - 1 PROVE Bit(2^k, n) = IF n = k THEN 1 ELSE 0
  <2> DEFINE d == 2^n
             e == 2^k
  <2>0. n \in 0 .. XLEN /\ d \in Nat /\ d > 0 /\ 2^(n + 1) = 2 * d /\ n + 1 \in 0 .. XLEN
    BY PowersOf
  <2>1. CASE n = k
    <3> PICK one \in Int : one = 1
      OBVIOUS
    <3>1. d = 0 + one * d
      BY <2>0
    <3>2. (0 + one * d) \div d = one
      <4> HIDE DEF d
      <4> QED
        BY <2>0
    <3>3. d \div d = one
      BY <3>1, <3>2
    <3>4. Bit(d, n) = one % 2
      BY <3>3 DEF Bit
    <3> QED
      BY <2>1, <3>4
  <2>2. CASE n > k
    <3>1. k + 1 <= n
      BY <2>2
    <3>2. 2^(k + 1) <= d
      BY <1>0, <2>0, <3>1, PowersOf
    <3>3. 0 <= e /\ e < d
      BY <1>0, <3>2
    <3>4. e \div d = 0
      <4> HIDE DEF d, e
      <4>1. e \in Int /\ e = e + 0 * d
        BY <1>0, <2>0 DEF e
      <4> QED
        BY <2>0, <3>3, <4>1, DividedOf
    <3>5. Bit(e, n) = 0
      BY <3>4, NoBit
    <3> QED
      BY <2>2, <3>5
  <2>3. CASE n < k
    <3>1. n + 1 <= k
      BY <2>3
    <3> DEFINE c == 2^(k - (n + 1))
    <3>2. c \in Nat /\ e = c * 2^(n + 1)
      BY <1>0, <2>0, <3>1, PowersOf
    <3> HIDE DEF c, d, e
    <3>3. e = 0 + (2 * c) * d
      BY <2>0, <3>2
    <3> DEFINE q == 2 * c
    <3>4. q \in Int /\ q % 2 = 0
      BY <3>2
    <3> HIDE DEF q
    <3>5. (0 + q * d) \div d = q
      BY <2>0, <3>4
    <3>6. e \div d = q
      BY <3>3, <3>5 DEF q
    <3>7. Bit(e, n) = q % 2
      BY <3>6 DEF Bit, d
    <3> QED
      BY <2>3, <3>4, <3>7 DEF e
  <2> QED
    BY <2>1, <2>2, <2>3
<1> QED
  BY <1>1, <1>2

-----------------------------------------------------------------------------
(* Atomic operations on words *)

LEMMA ExtendedWords ==
  ASSUME NEW v \in 0 .. WordSize - 1
  PROVE  /\ Amo!sext_word(v) \in Values /\ Amo!sext_word(v) % WordSize = v
         /\ Amo!sext_word(v) = IF 2 * v >= WordSize THEN v + WordSize * WordSize - WordSize ELSE v
         /\ Amo!Signed(Amo!sext_word(v)) = Amo!SignedWord(v)
<1> DEFINE W == WordSize
           WW == W * W
           e == Amo!sext_word(v)
<1>1. W \in Nat /\ W >= 2 /\ WW \in Nat /\ Values = 0 .. WW - 1 /\ WW >= 2 * W
  <2>1. W \in Nat /\ W >= 2
    BY SizesOf
  <2>2. W * W >= 2 * W /\ W * W \in Nat
    BY <2>1
  <2> QED
    BY <2>1, <2>2, SizesOf DEF Values, Register
<1>2. e = IF 2 * v >= W THEN v + WW - W ELSE v
  BY DEF Amo!sext_word, WordSize
<1>3. Amo!Signed(e) = (IF 2 * e >= WW THEN e - WW ELSE e) /\ Amo!SignedWord(v) = IF 2 * v >= W THEN v - W ELSE v
  BY DEF Amo!Signed, Amo!SignedWord, WordSize
<1>4. W - 1 \in Int /\ v \in Int /\ 0 <= v /\ v < W /\ v + (W - 1) * W = v + WW - W
  BY <1>1
<1>5. v % W = v /\ (v + (W - 1) * W) % W = v % W
  <2> DEFINE k == W - 1
  <2> HIDE DEF k, W
  <2>1. k \in Int /\ v \in Int /\ W \in Nat /\ W > 0
    BY <1>1, <1>4 DEF k
  <2>2. (v + k * W) % W = v % W
    BY <2>1, MultiplesVanish
  <2> QED
    BY <1>1, <1>4, <2>2, RemainderOfLess DEF k
<1> HIDE DEF W, WW, e
<1>6. e \in Values /\ e % W = v /\ Amo!Signed(e) = Amo!SignedWord(v)
  BY <1>1, <1>2, <1>3, <1>4, <1>5
<1> QED
  BY <1>2, <1>6 DEF W, WW, e

LEMMA AmosOnWords ==
  ASSUME NEW u \in 0 .. WordSize - 1, NEW v \in 0 .. WordSize - 1
  PROVE  Amo!AmoIsOnWords(u, v)
<1> DEFINE c == Amo!sext_word(u)
           d == Amo!sext_word(v)
           Ops == {"add", "swap", "xor", "or", "and", "min", "max", "minu", "maxu"}
<1>0. WordSize \in Nat /\ WordSize >= 2 /\ Register = WordSize * WordSize /\ Register \in Nat /\ Register >= WordSize
  BY SizesOf
<1>1. /\ c \in Values /\ c % WordSize = u /\ Amo!Signed(c) = Amo!SignedWord(u)
      /\ d \in Values /\ d % WordSize = v /\ Amo!Signed(d) = Amo!SignedWord(v)
      /\ c = (IF 2 * u >= WordSize THEN u + Register - WordSize ELSE u)
      /\ d = (IF 2 * v >= WordSize THEN v + Register - WordSize ELSE v)
  BY <1>0, ExtendedWords
<1>2. c \in Int /\ d \in Int /\ u \in Int /\ v \in Int
  BY <1>1, <1>0 DEF Values, Register
<1> HIDE DEF c, d
<1>3. c < d <=> u < v
  BY <1>0, <1>1, <1>2
<1>4. /\ Amo!SignedWord(u) \in Int /\ Amo!SignedWord(v) \in Int
      /\ Amo!SignedWord(u) = Amo!SignedWord(v) => u = v
  BY <1>0, <1>2 DEF Amo!SignedWord, WordSize
<1>5. Amo!AmoResult("add", c, d) % WordSize = Amo!WordResult("add", u, v)
  <2> DEFINE s == c + d
             f == IF 2 * u >= WordSize THEN 1 ELSE 0
             g == IF 2 * v >= WordSize THEN 1 ELSE 0
             k == (f + g) * (WordSize - 1)
  <2>1. Amo!AmoResult("add", c, d) = s % (WordSize * WordSize) /\ Amo!WordResult("add", u, v) = (u + v) % WordSize
    BY Zenon DEF Amo!AmoResult, Amo!WordResult, WordSize
  <2>2. s \in Int /\ wrap(s) = s % (WordSize * WordSize)
    BY <1>0, <1>2 DEF wrap, Register
  <2>3. s = (u + v) + k * WordSize
    BY <1>0, <1>1, <1>2
  <2>4. k \in Int
    BY <1>0
  <2> HIDE DEF s, f, g, k
  <2>5. (u + v + k * WordSize) % WordSize = (u + v) % WordSize
    <3> DEFINE w == u + v
    <3>1. w \in Int /\ k \in Int /\ WordSize \in Nat /\ WordSize > 0
      BY <1>0, <1>2, <2>4
    <3> HIDE DEF w
    <3>2. (w + k * WordSize) % WordSize = w % WordSize
      BY <3>1, MultiplesVanish
    <3> QED
      BY <3>2 DEF w
  <2>6. wrap(s) % WordSize = s % WordSize
    BY <2>2, WordOfWrapped
  <2> QED
    BY <2>1, <2>2, <2>3, <2>5, <2>6
<1>6. Amo!AmoResult("swap", c, d) % WordSize = Amo!WordResult("swap", u, v)
  <2>1. Amo!AmoResult("swap", c, d) = d /\ Amo!WordResult("swap", u, v) = v
    BY Zenon DEF Amo!AmoResult, Amo!WordResult
  <2> QED
    BY <1>1, <2>1
<1>7. ASSUME NEW op \in {"xor", "or", "and"}
      PROVE  Amo!AmoResult(op, c, d) % WordSize = Amo!WordResult(op, u, v)
  <2>1. /\ BitAnd(c, d) % WordSize = BitAnd(u, v)
        /\ BitOr(c, d) % WordSize = BitOr(u, v)
        /\ BitXor(c, d) % WordSize = BitXor(u, v)
    BY <1>1, WordsOfBits
  <2>2. \A n \in Int, m \in Int :
          /\ Amo!AmoResult("xor", n, m) = BitXor(n, m)
          /\ Amo!AmoResult("or", n, m) = BitOr(n, m)
          /\ Amo!AmoResult("and", n, m) = BitAnd(n, m)
    BY Zenon DEF Amo!AmoResult
  <2>3. /\ Amo!WordResult("xor", u, v) = Amo!AmoResult("xor", u, v)
        /\ Amo!WordResult("or", u, v) = Amo!AmoResult("or", u, v)
        /\ Amo!WordResult("and", u, v) = Amo!AmoResult("and", u, v)
    BY Zenon DEF Amo!WordResult
  <2> QED
    BY <1>2, <2>1, <2>2, <2>3
<1>8. ASSUME NEW op \in {"min", "max"}
      PROVE  Amo!AmoResult(op, c, d) % WordSize = Amo!WordResult(op, u, v)
  <2>1. /\ Amo!AmoResult("min", c, d) = IF Amo!Signed(c) < Amo!Signed(d) THEN c ELSE d
        /\ Amo!AmoResult("max", c, d) = IF Amo!Signed(c) > Amo!Signed(d) THEN c ELSE d
    BY Zenon DEF Amo!AmoResult
  <2>2. /\ Amo!WordResult("min", u, v) = IF Amo!SignedWord(u) < Amo!SignedWord(v) THEN u ELSE v
        /\ Amo!WordResult("max", u, v) = IF Amo!SignedWord(u) < Amo!SignedWord(v) THEN v ELSE u
    BY Zenon DEF Amo!WordResult
  <2> QED
    BY <1>1, <1>4, <2>1, <2>2
<1>9. ASSUME NEW op \in {"minu", "maxu"}
      PROVE  Amo!AmoResult(op, c, d) % WordSize = Amo!WordResult(op, u, v)
  <2>1. /\ Amo!AmoResult("minu", c, d) = IF c < d THEN c ELSE d
        /\ Amo!AmoResult("maxu", c, d) = IF c > d THEN c ELSE d
    BY Zenon DEF Amo!AmoResult
  <2>2. /\ Amo!WordResult("minu", u, v) = IF u < v THEN u ELSE v
        /\ Amo!WordResult("maxu", u, v) = IF u < v THEN v ELSE u
    BY Zenon DEF Amo!WordResult
  <2>3. c = d => u = v
    BY <1>1
  <2> QED
    BY <1>1, <1>2, <1>3, <2>1, <2>2, <2>3
<1>10. \A op \in Ops : Amo!AmoResult(op, c, d) % WordSize = Amo!WordResult(op, u, v)
  BY <1>5, <1>6, <1>7, <1>8, <1>9
<1> QED
  BY <1>10 DEF c, d, Amo!AmoIsOnWords, WordSize

-----------------------------------------------------------------------------
(* Counting bits *)

\* A count of bits fits into a register.
LEMMA CountsFit ==
  ASSUME NEW k \in 0 .. XLEN
  PROVE  k \in Values /\ k % 2^XLEN = k
<1>1. XLEN \in 0 .. XLEN
  BY PowersOf
<1>2. XLEN < Register
  BY <1>1, BelowPower DEF Register
<1>3. k \in Int /\ 0 <= k /\ k < Register
  BY <1>2, PowersOf, SizesOf
<1>4. k \in Values
  BY <1>3, InValues
<1> QED
  BY <1>4, ValuesAre

\* The bit length is the place of the least power that is greater.
LEMMA BitLengths ==
  ASSUME NEW a \in Values
  PROVE  /\ bit_length(a) \in 0 .. XLEN
         /\ \A n \in 0 .. XLEN : a < 2^n <=> bit_length(a) <= n
<1> DEFINE Bounds(n) == a < 2^n /\ (n = 0 \/ a >= 2^(n - 1))
           T == {n \in Nat : n <= XLEN /\ a < 2^n}
           k == bit_length(a)
<1>0. a \in Int /\ XLEN \in Nat
  BY ValuesAre, PowersOf
<1>1. XLEN \in T
  BY <1>0, ValuesAre
<1>2. \E n \in 0 .. XLEN : Bounds(n)
  <2>1. T \in SUBSET Nat
    OBVIOUS
  <2> HIDE DEF T
  <2>2. PICK n \in T : \A m \in T : n <= m
    BY <1>1, <2>1, LeastOf
  <2> USE DEF T
  <2>3. n \in 0 .. XLEN /\ a < 2^n
    BY <1>0, <2>2
  <2>4. n = 0 \/ a >= 2^(n - 1)
    <3> SUFFICES ASSUME n # 0 PROVE a >= 2^(n - 1)
      OBVIOUS
    <3>1. n - 1 \in 0 .. XLEN /\ n - 1 \in Nat /\ ~(n <= n - 1)
      BY <1>0, <2>3
    <3>2. n - 1 \notin T
      BY <2>2, <3>1
    <3>3. ~(a < 2^(n - 1)) /\ 2^(n - 1) \in Nat
      BY <3>1, <3>2, PowersOf
    <3> QED
      BY <1>0, <3>3
  <2> QED
    BY <2>3, <2>4
<1>3. k \in 0 .. XLEN /\ Bounds(k)
  <2>1. k = CHOOSE n \in 0 .. XLEN : Bounds(n)
    BY DEF bit_length
  <2> HIDE DEF k, Bounds
  <2> QED
    BY <1>2, <2>1, Zenon
<1> HIDE DEF k
<1>4. ASSUME NEW n \in 0 .. XLEN PROVE a < 2^n <=> k <= n
  <2>1. CASE k <= n
    <3>1. 2^k <= 2^n /\ 2^k \in Nat /\ 2^n \in Nat
      BY <1>3, <2>1, PowersOf
    <3> QED
      BY <1>0, <1>3, <2>1, <3>1
  <2>2. CASE ~(k <= n)
    <3>1. n <= k - 1 /\ k - 1 \in 0 .. XLEN /\ k # 0
      BY <1>3, <2>2, <1>0
    <3>2. 2^n <= 2^(k - 1) /\ 2^(k - 1) \in Nat /\ 2^n \in Nat
      BY <3>1, PowersOf
    <3> QED
      BY <1>0, <1>3, <2>2, <3>1, <3>2
  <2> QED
    BY <2>1, <2>2
<1> QED
  BY <1>3, <1>4 DEF k

LEMMA BitLengthOfPower ==
  ASSUME NEW k \in 0 .. XLEN - 1
  PROVE  bit_length(2^k) = k + 1
<1>1. k \in 0 .. XLEN /\ k + 1 \in 0 .. XLEN /\ 2^k \in Nat /\ 2^k > 0 /\ 2^(k + 1) = 2 * 2^k
  BY PowersOf
<1>2. bit_length(2^k) \in 0 .. XLEN /\ \A n \in 0 .. XLEN : 2^k < 2^n <=> bit_length(2^k) <= n
  BY BitsOfPower, BitLengths
<1>3. 2^k < 2^(k + 1) /\ ~(2^k < 2^k)
  BY <1>1
<1>4. bit_length(2^k) <= k + 1 /\ ~(bit_length(2^k) <= k)
  BY <1>1, <1>2, <1>3
<1> QED
  BY <1>1, <1>2, <1>4

\* The powers that are greater than a number, counted, are what its bit length leaves.
LEMMA LeadingZeros ==
  ASSUME NEW a \in Values, NEW w \in 0 .. XLEN, a < 2^w
  PROVE  leading_zeros(a, w) = w - bit_length(a) /\ leading_zeros(a, w) \in 0 .. XLEN
<1> DEFINE k == bit_length(a)
           S == {n \in 0 .. w - 1 : a < 2^n}
<1>1. k \in 0 .. XLEN /\ \A n \in 0 .. XLEN : a < 2^n <=> k <= n
  BY BitLengths
<1>2. leading_zeros(a, w) = Cardinality(S)
  BY DEF leading_zeros
<1> HIDE DEF k
<1>3. k <= w /\ w \in Nat /\ k \in Nat /\ XLEN \in Nat /\ w <= XLEN
  BY <1>1, PowersOf
<1>4. S = k .. w - 1
  <2>1. w \in Nat /\ w <= XLEN /\ k \in Nat /\ XLEN \in Nat
    BY <1>1, PowersOf
  <2>2. \A n \in 0 .. w - 1 : n \in 0 .. XLEN /\ (a < 2^n <=> k <= n)
    BY <1>1, <2>1
  <2>3. \A n : n \in S <=> n \in 0 .. w - 1 /\ k <= n
    BY <2>2
  <2> HIDE DEF S
  <2>4. \A n : n \in S <=> n \in k .. w - 1
    BY <2>1, <2>3
  <2> QED
    BY <2>4, Zenon
<1>5. Cardinality(k .. w - 1) = IF k > w - 1 THEN 0 ELSE (w - 1) - k + 1
  BY <1>1, FS_Interval
<1>6. leading_zeros(a, w) = w - k
  <2> HIDE DEF S
  <2> QED
    BY <1>2, <1>3, <1>4, <1>5
<1> QED
  BY <1>3, <1>6 DEF k

\* The lowest bit of a number.
LEMMA LowestBit ==
  ASSUME NEW a \in Int, NEW w \in 0 .. XLEN, a % 2^w # 0
  PROVE  \E k \in 0 .. w - 1 : a % 2^k = 0 /\ Bit(a, k) = 1 /\ a % 2^(k + 1) # 0
<1> DEFINE T == {n \in Nat : n < w /\ a % 2^(n + 1) # 0}
<1>0. a % 1 = 0
  OBVIOUS
<1>1. w # 0 /\ w \in Nat /\ w <= XLEN
  BY <1>0, PowersOf
<1>2. w - 1 \in Nat /\ (w - 1) + 1 = w /\ w - 1 < w
  BY <1>1
<1>3. w - 1 \in T
  BY <1>2
<1>4. T \in SUBSET Nat
  OBVIOUS
<1> HIDE DEF T
<1>5. PICK n \in T : \A m \in T : n <= m
  BY <1>3, <1>4, LeastOf
<1> USE DEF T
<1>6. n \in 0 .. w - 1 /\ a % 2^(n + 1) # 0 /\ n \in 0 .. XLEN - 1 /\ n \in 0 .. XLEN
  BY <1>1, <1>5, PowersOf
<1>7. a % 2^n = 0
  <2>1. CASE n = 0
    BY <1>0, <2>1, PowersOf
  <2>2. CASE n # 0
    <3>1. n - 1 \in Nat /\ n - 1 < w /\ (n - 1) + 1 = n /\ ~(n <= n - 1)
      BY <1>1, <1>6, <2>2
    <3>2. n - 1 \notin T
      BY <1>5, <3>1
    <3> QED
      BY <3>1, <3>2
  <2> QED
    BY <2>1, <2>2
<1>8. Bit(a, n) = 1
  <2>1. a % 2^(n + 1) = (a % 2^n) + Bit(a, n) * 2^n
    BY <1>6, LowBits
  <2>2. Bit(a, n) \in {0, 1} /\ 2^n \in Nat
    BY <1>6, BitType, PowersOf
  <2>3. Bit(a, n) # 0
    BY <1>6, <1>7, <2>1, <2>2
  <2> QED
    BY <2>2, <2>3
<1> QED
  BY <1>6, <1>7, <1>8

\* Below the lowest bit a number is zero, and above it it is not.
LEMMA ZerosBelow ==
  ASSUME NEW a \in Int, NEW k \in 0 .. XLEN - 1, a % 2^k = 0, a % 2^(k + 1) # 0, NEW n \in 0 .. XLEN
  PROVE  a % 2^n = 0 <=> n <= k
<1> PICK zero \in Int : zero = 0
  OBVIOUS
<1>1. k \in 0 .. XLEN /\ k + 1 \in 0 .. XLEN
  BY PowersOf
<1>2. \A m \in 0 .. XLEN : zero % 2^m = 0
  <2> SUFFICES ASSUME NEW m \in 0 .. XLEN PROVE zero % 2^m = 0
    OBVIOUS
  <2>1. 2^m \in Nat /\ 2^m > 0
    BY PowersOf
  <2> QED
    BY <2>1, RemainderOfLess
<1>3. CASE n <= k
  <2>1. (a % 2^k) % 2^n = a % 2^n
    BY <1>1, <1>3, LowOfLow
  <2> QED
    BY <1>2, <1>3, <2>1
<1>4. CASE ~(n <= k)
  <2>1. k + 1 <= n
    BY <1>4
  <2>2. (a % 2^n) % 2^(k + 1) = a % 2^(k + 1)
    BY <1>1, <2>1, LowOfLow
  <2> QED
    BY <1>1, <1>2, <1>4, <2>2
<1> QED
  BY <1>3, <1>4

\* The powers that divide a number, counted, are the place of its lowest bit.
LEMMA TrailingZeros ==
  ASSUME NEW a \in Int, NEW w \in 0 .. XLEN
  PROVE  /\ a % 2^w = 0 => trailing_zeros(a, w) = w
         /\ \A k \in 0 .. w - 1 : a % 2^k = 0 /\ a % 2^(k + 1) # 0 => trailing_zeros(a, w) = k
<1> DEFINE S == {n \in 1 .. w : a % 2^n = 0}
<1> PICK one \in Int : one = 1
  OBVIOUS
<1> PICK zero \in Int : zero = 0
  OBVIOUS
<1>1. trailing_zeros(a, w) = Cardinality(S)
  BY DEF trailing_zeros
<1>2. \A k \in Nat : Cardinality(1 .. k) = k
  <2> SUFFICES ASSUME NEW k \in Nat PROVE Cardinality(1 .. k) = k
    OBVIOUS
  <2>1. Cardinality(one .. k) = IF one > k THEN 0 ELSE k - one + 1
    BY FS_Interval
  <2> QED
    BY <2>1
<1>3. w \in Nat /\ w <= XLEN /\ XLEN \in Nat
  BY PowersOf
<1>4. ASSUME a % 2^w = 0 PROVE S = 1 .. w
  <2>1. \A n \in 1 .. w : a % 2^n = 0
    <3> SUFFICES ASSUME NEW n \in 1 .. w PROVE a % 2^n = 0
      OBVIOUS
    <3>1. n \in 0 .. XLEN /\ n <= w
      BY <1>3
    <3>2. (a % 2^w) % 2^n = a % 2^n /\ 2^n \in Nat /\ 2^n > 0
      BY <3>1, LowOfLow, PowersOf
    <3>3. zero % 2^n = 0
      BY <3>2, RemainderOfLess
    <3> QED
      BY <1>4, <3>2, <3>3
  <2>2. \A n : n \in S <=> n \in 1 .. w
    BY <2>1
  <2> HIDE DEF S
  <2> QED
    BY <2>2, Zenon
<1>5. ASSUME NEW k \in 0 .. w - 1, a % 2^k = 0, a % 2^(k + 1) # 0 PROVE S = 1 .. k
  <2>1. k \in 0 .. XLEN - 1
    BY <1>3
  <2>2. \A n \in 0 .. XLEN : a % 2^n = 0 <=> n <= k
    BY <1>5, <2>1, ZerosBelow
  <2>3. \A n \in 1 .. w : a % 2^n = 0 <=> n <= k
    BY <1>3, <2>2
  <2>4. \A n : n \in S <=> n \in 1 .. w /\ n <= k
    BY <2>3
  <2> HIDE DEF S
  <2>5. \A n : n \in S <=> n \in 1 .. k
    BY <1>3, <2>4
  <2> QED
    BY <2>5, Zenon
<1> HIDE DEF S
<1>6. ASSUME NEW k \in 0 .. w - 1, a % 2^k = 0, a % 2^(k + 1) # 0 PROVE trailing_zeros(a, w) = k
  BY <1>1, <1>2, <1>5, <1>6
<1>7. ASSUME a % 2^w = 0 PROVE trailing_zeros(a, w) = w
  BY <1>1, <1>2, <1>3, <1>4, <1>7
<1> QED
  BY <1>6, <1>7

\* A number and its negation have the lowest bit in common.
LEMMA LowestBitAlone ==
  ASSUME NEW a \in Values, NEW k \in 0 .. XLEN - 1, a % 2^k = 0, Bit(a, k) = 1
  PROVE  2^XLEN - a \in Values /\ BitAnd(a, 2^XLEN - a) = 2^k
<1> DEFINE d == 2^k
           e == 2^(k + 1)
           q == a \div e
           b == a - 1
           m == Register - a
<1>0. /\ k \in 0 .. XLEN /\ k + 1 \in 0 .. XLEN /\ d \in Nat /\ d > 0 /\ e \in Nat /\ e > 0 /\ e = 2 * d
      /\ k \in Nat
  BY PowersOf
<1>1. a % e = d
  <2>1. a % e = (a % d) + Bit(a, k) * d
    BY ValuesAre, LowBits
  <2>2. a % d = 0 /\ Bit(a, k) = 1
    OBVIOUS
  <2> HIDE DEF d, e
  <2> QED
    BY <1>0, <2>1, <2>2
<1>2. a \in Int /\ q \in Int /\ a = d + q * e
  <2> HIDE DEF e
  <2>1. a \in Int
    BY ValuesAre
  <2> QED
    BY <1>0, <1>1, <2>1, Divided
<1>3. a > 0 /\ b \in Values
  <2>1. a # 0
    <3> SUFFICES ASSUME a = 0 PROVE FALSE
      OBVIOUS
    <3>1. 0 % e = 0
      <4> HIDE DEF e
      <4> QED
        BY <1>0, RemainderOfLess
    <3> QED
      BY <1>0, <1>1, <3>1
  <2> QED
    BY <2>1, ValuesAre, InValues
<1>4. m = not(b) /\ m \in Values
  BY <1>3, BitsOfNot, ValuesAre DEF not, Ones, Register
<1>5. ASSUME NEW n \in 0 .. XLEN - 1
      PROVE  /\ n > k => Bit(b, n) = Bit(a, n)
             /\ n = k => Bit(b, n) = 0
             /\ n < k => Bit(a, n) = 0
  <2>0. n \in 0 .. XLEN /\ n + 1 \in 0 .. XLEN /\ n \in Nat /\ b \in Int
    BY <1>2, PowersOf
  <2>1. b = (d - 1) + q * e
    BY <1>0, <1>2
  <2>2. CASE n > k
    <3> DEFINE c == 2^(n - (k + 1))
               f == 2^n
               p == q \div c
               r == q % c
               s == d + r * e
               t == (d - 1) + r * e
    <3>1. k + 1 <= n
      BY <2>2, <2>0, <1>0
    <3>2. n - (k + 1) \in 0 .. XLEN /\ c \in Nat /\ c > 0 /\ f = c * e /\ f \in Nat
      BY <1>0, <2>0, <3>1, PowersOf
    <3> HIDE DEF c, f, d, e, q, b
    <3>3. p \in Int /\ r \in Int /\ 0 <= r /\ r < c /\ q = r + p * c
      BY <1>2, <3>2, Divided
    <3> HIDE DEF p, r
    <3>4. r * e \in Int /\ 0 <= r * e /\ r * e <= c * e - e
      <4>1. r <= c - 1 /\ c - 1 \in Int
        BY <3>2, <3>3
      <4>2. r * e <= (c - 1) * e
        BY <1>0, <3>3, <4>1
      <4>3. (c - 1) * e = c * e - e
        BY <1>0, <3>2
      <4> QED
        BY <1>0, <3>3, <4>2, <4>3
    <3>5. q * e = r * e + p * f /\ p * f \in Int
      BY <1>0, <1>2, <3>2, <3>3
    <3>6. a = s + p * f /\ b = t + p * f
      BY <1>0, <1>2, <2>1, <3>4, <3>5
    <3>7. s \in Int /\ t \in Int /\ 0 <= s /\ s < f /\ 0 <= t /\ t < f
      BY <1>0, <3>2, <3>4
    <3> HIDE DEF s, t
    <3>8. (s + p * f) \div f = p /\ (t + p * f) \div f = p
      BY <3>2, <3>3, <3>7, DividedOf
    <3>9. a \div f = p /\ b \div f = p
      BY <3>6, <3>8
    <3> QED
      BY <2>2, <3>9 DEF Bit, f
  <2>3. CASE n = k
    <3>1. d - 1 \in Int /\ 0 <= d - 1 /\ d - 1 < e /\ d - 1 < d
      BY <1>0
    <3> DEFINE c == d - 1
               p == 2 * q
    <3>2. b = c + p * d
      BY <1>0, <1>2, <2>1
    <3>3. p \in Int /\ p % 2 = 0 /\ c \in Int /\ 0 <= c /\ c < d
      BY <1>0, <1>2
    <3> HIDE DEF c, p, b
    <3>4. (c + p * d) \div d = p
      BY <1>0, <3>3, DividedOf
    <3>5. b \div d = p
      BY <3>2, <3>4
    <3>6. Bit(b, k) = p % 2
      BY <3>5 DEF Bit
    <3> QED
      BY <2>3, <3>3, <3>6
  <2>4. CASE n < k
    <3>1. n + 1 <= k /\ n <= k
      BY <2>4, <2>0, <1>0
    <3>2. Bit(a % 2^k, n) = Bit(a, n)
      BY <1>0, <1>2, <2>4, BitsOfLow
    <3>3. Bit(0, n) = 0
      BY <2>0, BitOfZero
    <3> QED
      BY <2>4, <3>2, <3>3
  <2> QED
    BY <1>0, <2>0, <2>2, <2>3, <2>4
<1>6. d \in Values /\ BitAnd(a, m) \in Values
  BY <1>4, BitsOfPower, OperationsOnBits
<1>7. ASSUME NEW n \in 0 .. XLEN - 1 PROVE Bit(BitAnd(a, m), n) = Bit(d, n)
  <2>1. Bit(BitAnd(a, m), n) = Bit(a, n) * Bit(m, n)
    BY <1>4, OperationsOnBits
  <2>2. Bit(m, n) = 1 - Bit(b, n)
    BY <1>3, <1>4, BitsOfNot
  <2>3. Bit(d, n) = IF n = k THEN 1 ELSE 0
    BY BitsOfPower
  <2>4. Bit(a, n) \in {0, 1} /\ n \in Nat
    BY BitOfValue
  <2> HIDE DEF m, b, d
  <2>5. CASE n > k
    <3>1. Bit(b, n) = Bit(a, n) /\ n # k
      BY <1>0, <1>5, <2>4, <2>5
    <3> QED
      BY <2>1, <2>2, <2>3, <2>4, <3>1
  <2>6. CASE n = k
    <3>1. Bit(b, n) = 0 /\ Bit(a, n) = 1
      BY <1>5, <2>6
    <3> QED
      BY <2>1, <2>2, <2>3, <2>6, <3>1
  <2>7. CASE n < k
    <3>1. Bit(a, n) = 0 /\ n # k
      BY <1>0, <1>5, <2>4, <2>7
    <3>2. Bit(b, n) \in {0, 1}
      BY <1>3, BitOfValue DEF b
    <3> QED
      BY <2>1, <2>2, <2>3, <3>1, <3>2
  <2> QED
    BY <1>0, <2>4, <2>5, <2>6, <2>7
<1>8. BitAnd(a, m) = d
  <2> HIDE DEF m, d
  <2> QED
    BY <1>6, <1>7, SameValues
<1> QED
  BY <1>4, <1>8 DEF Register

\* A word has no bit beyond its own to count.
LEMMA PopulationOf ==
  ASSUME NEW a \in Values
  PROVE  /\ count_ones(a) = Cardinality({n \in 0 .. XLEN - 1 : (a \div 2^n) % 2 = 1})
         /\ count_ones(word(a)) = Cardinality({n \in 0 .. WORD - 1 : (a \div 2^n) % 2 = 1})
         /\ count_ones(a) \in 0 .. XLEN /\ count_ones(word(a)) \in 0 .. XLEN
<1> DEFINE Set(v) == {n \in 0 .. XLEN - 1 : Bit(v, n) = 1}
<1> PICK zero \in Int : zero = 0
  OBVIOUS
<1>1. \A v : count_ones(v) = Cardinality(Set(v))
  BY DEF count_ones
<1>2. ASSUME NEW v PROVE Cardinality(Set(v)) \in 0 .. XLEN
  <2>1. IsFiniteSet(zero .. XLEN - 1) /\ Cardinality(zero .. XLEN - 1) = XLEN
    <3>1. XLEN - 1 \in Int /\ XLEN > 0 /\ XLEN \in Int
      BY PowersOf
    <3> QED
      BY <3>1, FS_Interval
  <2>2. Set(v) \in SUBSET (zero .. XLEN - 1)
    OBVIOUS
  <2> HIDE DEF Set
  <2>3. IsFiniteSet(Set(v)) /\ Cardinality(Set(v)) <= XLEN
    BY <2>1, <2>2, FS_Subset
  <2>4. Cardinality(Set(v)) \in Nat
    BY <2>3, FS_CardinalityType
  <2> QED
    BY <2>3, <2>4, PowersOf
<1>3. Set(word(a)) = {n \in 0 .. WORD - 1 : (a \div 2^n) % 2 = 1}
  <2>1. ASSUME NEW n \in 0 .. XLEN - 1 PROVE Bit(word(a), n) = IF n < WORD THEN Bit(a, n) ELSE 0
    <3>1. WORD \in 0 .. XLEN /\ a \in Int
      BY PowersOf, ValuesAre
    <3> QED
      BY <3>1, BitsOfLow DEF word
  <2>2. \A n : n \in 0 .. WORD - 1 <=> n \in 0 .. XLEN - 1 /\ n < WORD
    BY PowersOf
  <2>3. \A n : Bit(a, n) = (a \div 2^n) % 2
    BY Zenon DEF Bit
  <2>4. \A n : n \in Set(word(a)) <=> n \in 0 .. WORD - 1 /\ Bit(a, n) = 1
    BY <2>1, <2>2
  <2>5. \A n : n \in Set(word(a)) <=> n \in 0 .. WORD - 1 /\ (a \div 2^n) % 2 = 1
    BY <2>3, <2>4, Zenon
  <2> HIDE DEF Set
  <2> QED
    BY <2>5, Zenon
<1>4. Set(a) = {n \in 0 .. XLEN - 1 : (a \div 2^n) % 2 = 1}
  BY Zenon DEF Bit
<1> HIDE DEF Set
<1> QED
  BY <1>1, <1>2, <1>3, <1>4

-----------------------------------------------------------------------------
(* Signed values *)

\* A number taken as signed in w bits, by the executor and by the oracle: it is in the
\* range of w bits, and in them the number it was.
LEMMA SignedOf ==
  ASSUME NEW u \in Int, NEW w \in 1 .. XLEN
  PROVE  /\ as_signed(u, w) \in Int /\ as_signed(u, w) % 2^w = u % 2^w
         /\ - 2^(w - 1) <= as_signed(u, w) /\ as_signed(u, w) < 2^(w - 1)
         /\ - 2^(w - 1) <= u /\ u < 2^(w - 1) => as_signed(u, w) = u
         /\ signed(u, w) = as_signed(u, w)
<1> DEFINE m == 2^w
           h == 2^(w - 1)
           r == u % m
           s == as_signed(u, w)
<1>0. /\ w \in 0 .. XLEN /\ w - 1 \in 0 .. XLEN /\ m \in Nat /\ m > 0 /\ h \in Nat /\ h > 0
      /\ m = 2 * h
  <2>1. w - 1 \in 0 .. XLEN - 1 /\ w \in 0 .. XLEN /\ w - 1 \in 0 .. XLEN /\ (w - 1) + 1 = w
    BY PowersOf
  <2> QED
    BY <2>1, PowersOf
<1>1. r \in Int /\ 0 <= r /\ r < m
  BY <1>0, Divided
<1>2. s = IF r >= h THEN r - m ELSE r
  BY DEF as_signed
<1>3. signed(u, w) = IF r \div h # 0 THEN r - m ELSE r
  BY DEF signed
<1> HIDE DEF r, s, m, h
<1>4. s \in Int /\ - h <= s /\ s < h
  BY <1>0, <1>1, <1>2
<1>5. s % m = r
  <2>1. r % m = r
    BY <1>0, <1>1, RemainderOfLess
  <2>2. (r + (-1) * m) % m = r % m
    BY <1>0, <1>1, MultiplesVanish
  <2>3. r - m = r + (-1) * m
    BY <1>0, <1>1
  <2> QED
    BY <1>2, <2>1, <2>2, <2>3
<1>6. ASSUME - h <= u, u < h PROVE s = u
  <2>1. CASE u >= 0
    <3>1. r = u
      BY <1>0, <1>6, <2>1, RemainderOfLess DEF r
    <3> QED
      BY <1>0, <1>2, <1>6, <3>1
  <2>2. CASE u < 0
    <3>1. r = u + m
      <4> PICK one \in Int : one = 1
        OBVIOUS
      <4>1. (u + one * m) % m = r
        BY <1>0, MultiplesVanish DEF r
      <4>2. u + one * m = u + m /\ 0 <= u + m /\ u + m < m
        BY <1>0, <1>6, <2>2
      <4> QED
        BY <1>0, <4>1, <4>2, RemainderOfLess
    <3> QED
      BY <1>0, <1>2, <1>6, <2>2, <3>1
  <2> QED
    BY <2>1, <2>2
<1>7. r \div h # 0 <=> r >= h
  <2> DEFINE q == r \div h
             t == r % h
  <2>1. q \in Int /\ t \in Int /\ 0 <= t /\ t < h /\ r = t + q * h
    BY <1>0, <1>1, Divided
  <2>2. CASE r < h
    <3>1. r = r + 0 * h
      BY <1>0, <1>1
    <3>2. q = 0
      BY <1>0, <1>1, <2>2, <3>1, DividedOf
    <3> QED
      BY <1>0, <1>1, <2>2, <3>2
  <2>3. CASE r >= h
    <3> HIDE DEF q, t
    <3>1. q # 0
      BY <1>0, <2>1, <2>3
    <3> QED
      BY <2>3, <3>1 DEF q
  <2> QED
    BY <1>0, <1>1, <2>2, <2>3
<1>8. signed(u, w) = s
  BY <1>2, <1>3, <1>7
<1> QED
  BY <1>4, <1>5, <1>6, <1>8 DEF s, m, h, r

\* A register taken as signed.
LEMMA SignedRegister ==
  ASSUME NEW a \in Values
  PROVE  /\ as_signed(a, XLEN) \in Int /\ as_signed(a, XLEN) % 2^XLEN = a
         /\ signed(a, XLEN) = as_signed(a, XLEN)
         /\ as_signed(a, XLEN) = 0 <=> a = 0
<1>1. XLEN \in 1 .. XLEN /\ a \in Int /\ a % 2^XLEN = a
  BY PowersOf, ValuesAre
<1>2. /\ as_signed(a, XLEN) \in Int /\ as_signed(a, XLEN) % 2^XLEN = a
      /\ signed(a, XLEN) = as_signed(a, XLEN)
  BY <1>1, SignedOf
<1>3. as_signed(a, XLEN) = IF a >= 2^(XLEN - 1) THEN a - 2^XLEN ELSE a
  BY <1>1 DEF as_signed
<1>4. as_signed(a, XLEN) = 0 <=> a = 0
  <2>1. a < 2^XLEN /\ 2^XLEN \in Nat /\ 0 <= a
    BY ValuesAre
  <2>2. XLEN - 1 \in 0 .. XLEN /\ 2^(XLEN - 1) \in Nat /\ 2^(XLEN - 1) > 0
    BY PowersOf
  <2> QED
    BY <1>1, <1>3, <2>1, <2>2
<1> QED
  BY <1>2, <1>4

\* What the oracle takes as a signed word is what the executor sign-extends.
LEMMA SignedWordWrapped ==
  ASSUME NEW u \in Int
  PROVE  signed(u, WORD) % 2^XLEN = sext(u, WORD) /\ signed(u, WORD) = as_signed(u, WORD)
<1>1. WORD \in 1 .. XLEN
  BY PowersOf
<1> QED
  BY <1>1, SignedOf DEF sext, wrap

\* A sign-extended word, taken as signed, is the word taken as signed.
LEMMA SignedExtension ==
  ASSUME NEW a \in Int
  PROVE  sext(a, WORD) \in Values /\ as_signed(sext(a, WORD), XLEN) = as_signed(a, WORD)
<1> DEFINE s == as_signed(a, WORD)
           e == sext(a, WORD)
<1>1. WORD \in 1 .. XLEN /\ XLEN \in 1 .. XLEN /\ WORD - 1 \in 0 .. XLEN /\ XLEN - 1 \in 0 .. XLEN /\ WORD - 1 <= XLEN - 1
  BY PowersOf
<1>2. s \in Int /\ - 2^(WORD - 1) <= s /\ s < 2^(WORD - 1)
  BY <1>1, SignedOf
<1>3. 2^(WORD - 1) <= 2^(XLEN - 1) /\ 2^(WORD - 1) \in Nat /\ 2^(XLEN - 1) \in Nat
  BY <1>1, PowersOf
<1> HIDE DEF s
<1>4. as_signed(s, XLEN) = s
  <2>1. - 2^(XLEN - 1) <= s /\ s < 2^(XLEN - 1)
    BY <1>2, <1>3
  <2> QED
    BY <1>1, <1>2, <2>1, SignedOf
<1>5. e = s % 2^XLEN /\ e \in Values
  BY <1>2, InValues DEF e, s, sext, wrap
<1>6. e % 2^XLEN = s % 2^XLEN
  BY <1>5, ValuesAre
<1>7. as_signed(e, XLEN) = as_signed(s, XLEN)
  BY <1>6 DEF as_signed
<1> QED
  BY <1>4, <1>5, <1>7 DEF s, e

-----------------------------------------------------------------------------
(* Rotations *)

\* A rotation by parts that do not overlap is one by a sum, and one to the left is one to
\* the right by what is left of the width.
LEMMA Rotations ==
  ASSUME NEW w \in {WORD, XLEN}, NEW a \in Int, 0 <= a, a < 2^w, NEW n \in 0 .. w - 1
  PROVE  /\ BitOr(a \div 2^n, a * 2^((w - n) % w)) % 2^w = rotate_right(a, n, w)
         /\ rotate_right(a, (-n) % w, w) = rotate_left(a, n, w)
         /\ (-n) % w \in 0 .. w - 1
<1> DEFINE m == 2^w
<1>0. w \in Nat /\ w > 0 /\ w \in 0 .. XLEN /\ m \in Nat /\ m > 0 /\ m <= Register /\ n \in Int
      /\ Register \in Nat
  BY PowersOf, SizesOf DEF Register
<1>1. a \in Values
  BY <1>0, InValues
<1>2. CASE n = 0
  <2> PICK zero \in Int : zero = 0
    OBVIOUS
  <2> PICK one \in Int : one = 1
    OBVIOUS
  <2>1. w % w = 0
    <3>1. w = zero + one * w
      BY <1>0
    <3>2. (zero + one * w) % w = zero
      BY <1>0, RemainderOf
    <3> QED
      BY <3>1, <3>2
  <2>2. zero % w = zero /\ (-n) = zero /\ w - n = w
    <3>1. \A i, j \in Int : j + i = 0 => (-i) = j
      OBVIOUS
    <3>3. w - n = w
      BY <1>0, <1>2
    <3>2. zero % w = zero
      BY <1>0, RemainderOfLess
    <3>4. zero + n = 0
      BY <1>2
    <3>5. (-n) = zero
      BY <1>0, <3>1, <3>4
    <3> QED
      BY <3>2, <3>3, <3>5
  <2>3. 2^0 = 1 /\ a \div 1 = a /\ a * 1 = a
    <3>1. a \div 1 = a /\ a * 1 = a
      OBVIOUS
    <3> QED
      BY <3>1, PowersOf
  <2>4. BitOr(a, a) = a
    <3>1. BitOr(a, a) \in Values
      BY <1>1, OperationsOnBits
    <3>2. \A k \in 0 .. XLEN - 1 : Bit(BitOr(a, a), k) = Bit(a, k)
      BY <1>1, OperationsOnBits, BitOfValue
    <3> QED
      BY <1>1, <3>1, <3>2, SameValues
  <2>5. a % m = a
    BY <1>0, RemainderOfLess
  <2>6. BitOr(a \div 2^n, a * 2^((w - n) % w)) = a
    BY <1>2, <2>1, <2>2, <2>3, <2>4
  <2>7. rotate_right(a, 0, w) = (a + a * m) % m
    BY <2>2, <2>3, <1>2 DEF rotate_right
  <2>8. rotate_left(a, 0, w) = (a + a \div m) % m
    BY <2>2, <2>3, <1>2 DEF rotate_left
  <2> HIDE DEF m
  <2>9. (a + a * m) % m = a
    BY <1>0, <2>5, MultiplesVanish
  <2>10. a \div m = 0
    <3>1. a = a + 0 * m /\ a < m
      BY <1>0 DEF m
    <3> QED
      BY <1>0, <3>1, DividedOf
  <2>11. (a + a \div m) % m = a
    BY <2>5, <2>10
  <2> QED
    BY <1>0, <1>2, <2>2, <2>5, <2>6, <2>7, <2>8, <2>9, <2>11 DEF m
<1>3. CASE n # 0
  <2> DEFINE k == w - n
             d == 2^n
             e == 2^k
             u == a \div d
  <2>1. k \in 1 .. w - 1 /\ n \in 0 .. XLEN /\ k \in 0 .. XLEN /\ k \in 0 .. XLEN - 1 /\ n <= w
    BY <1>0, <1>3, PowersOf
  <2>2. k % w = k
    BY <1>0, <2>1, RemainderOfLess
  <2>3. (-n) % w = k
    <3> PICK one \in Int : one = 1
      OBVIOUS
    <3> DEFINE j == -n
    <3>1. j \in Int /\ j + one * w = k
      BY <1>0
    <3> HIDE DEF j
    <3>2. (j + one * w) % w = j % w
      BY <1>0, <3>1, MultiplesVanish
    <3> QED
      BY <2>2, <3>1, <3>2 DEF j
  <2>4. m = e * d /\ d \in Nat /\ d > 0 /\ e \in Nat /\ e > 0
    BY <1>0, <2>1, PowersOf
  <2>5. u \in 0 .. e - 1
    <3> DEFINE r == a % d
    <3> HIDE DEF d, e, m
    <3>1. u \in Int /\ r \in Int /\ 0 <= r /\ r < d /\ a = r + u * d
      BY <2>4, Divided
    <3>2. a < e * d
      BY <2>4 DEF m
    <3> HIDE DEF u, r
    <3>3. u >= 0
      <4> SUFFICES ASSUME u <= -1 PROVE FALSE
        BY <3>1
      <4>1. u * d <= (-1) * d
        BY <2>4, <3>1
      <4>2. u * d \in Int
        BY <2>4, <3>1
      <4> QED
        BY <2>4, <3>1, <4>1, <4>2
    <3>4. u <= e - 1
      <4> SUFFICES ASSUME u >= e PROVE FALSE
        BY <2>4, <3>1
      <4>1. u * d >= e * d
        BY <2>4, <3>1
      <4>2. u * d \in Int /\ e * d \in Int
        BY <2>4, <3>1
      <4> QED
        BY <2>4, <3>1, <3>2, <4>1, <4>2
    <3> QED
      BY <2>4, <3>1, <3>3, <3>4
  <2>6. BitOr(u, a * e) = u + a * e
    BY <1>1, <2>1, <2>5, BitsAssumption
  <2>7. rotate_right(a, n, w) = (u + a * e) % m
    BY DEF rotate_right
  <2>8. /\ BitOr(a \div 2^n, a * 2^((w - n) % w)) % 2^w = rotate_right(a, n, w)
    BY <2>2, <2>6, <2>7
  <2>9. rotate_left(a, n, w) = (a * d + a \div e) % m
    BY DEF rotate_left
  <2>10. w - k = n
    BY <1>0
  <2>11. rotate_right(a, k, w) = (a \div e + a * d) % m
    BY <2>10 DEF rotate_right
  <2>12. a * d + a \div e = a \div e + a * d
    <3>1. a \div e \in Int /\ a * d \in Int
      <4> HIDE DEF d, e
      <4> QED
        BY <2>4, Divided
    <3> QED
      BY <3>1
  <2>13. k \in 0 .. w - 1
    BY <1>0, <2>1
  <2> QED
    BY <2>3, <2>8, <2>9, <2>11, <2>12, <2>13
<1> QED
  BY <1>2, <1>3

-----------------------------------------------------------------------------
(* Multiplication and division *)

\* What the executor does for one operation, on registers and on words.
LEMMA MultiplyCases ==
  ASSUME NEW a, NEW b
  PROVE  /\ multiply("mul", a, b, FALSE) = wrap(a * b)
         /\ multiply("mulh", a, b, FALSE) = wrap((as_signed(a, XLEN) * as_signed(b, XLEN)) \div 2^XLEN)
         /\ multiply("mulhsu", a, b, FALSE) = wrap((as_signed(a, XLEN) * b) \div 2^XLEN)
         /\ multiply("mulhu", a, b, FALSE) = (a * b) \div 2^XLEN
         /\ multiply("div", a, b, FALSE) =
              IF b = 0 THEN Ones ELSE wrapping_div(as_signed(a, XLEN), as_signed(b, XLEN))
         /\ multiply("divu", a, b, FALSE) = IF b = 0 THEN Ones ELSE a \div b
         /\ multiply("rem", a, b, FALSE) =
              IF b = 0 THEN a ELSE wrapping_rem(as_signed(a, XLEN), as_signed(b, XLEN))
         /\ multiply("remu", a, b, FALSE) = IF b = 0 THEN a ELSE a % b
BY Zenon DEF multiply

LEMMA MultiplyWordCases ==
  ASSUME NEW a, NEW b
  PROVE  LET c == sext(a, WORD)
             d == sext(b, WORD)
         IN /\ multiply("mul", a, b, TRUE) = wrap(c * d)
            /\ multiply("div", a, b, TRUE) =
                 IF d = 0 THEN Ones ELSE wrapping_div(as_signed(c, XLEN), as_signed(d, XLEN))
            /\ multiply("divu", a, b, TRUE) = IF word(b) = 0 THEN Ones ELSE word(a) \div word(b)
            /\ multiply("rem", a, b, TRUE) =
                 IF d = 0 THEN c ELSE wrapping_rem(as_signed(c, XLEN), as_signed(d, XLEN))
            /\ multiply("remu", a, b, TRUE) = IF word(b) = 0 THEN word(a) ELSE word(a) % word(b)
BY Zenon DEF multiply

\* Division truncates in both: by the signs of the operands.
LEMMA Truncation ==
  ASSUME NEW a \in Int, NEW b \in Int, b # 0
  PROVE  /\ quotient(a, b) \in Int
         /\ wrapping_div(a, b) = wrap(quotient(a, b))
         /\ wrapping_rem(a, b) = wrap(a - quotient(a, b) * b)
<1> DEFINE c == Magnitude(a)
           d == Magnitude(b)
           q == c \div d
           r == c % d
           s == quotient(a, b)
<1>1. c \in Nat /\ d \in Nat /\ d > 0
  BY DEF Magnitude
<1>2. /\ c = (IF a < 0 THEN -a ELSE a)
      /\ d = (IF b < 0 THEN -b ELSE b)
  BY DEF Magnitude
<1>3. q \in Int /\ r \in Int /\ c = r + q * d
  <2> HIDE DEF c, d
  <2> QED
    BY <1>1, Divided
<1>4. s = IF (a < 0) # (b < 0) THEN -q ELSE q
  BY DEF quotient
<1>5. wrapping_div(a, b) = wrap(IF (a < 0) = (b < 0) THEN q ELSE -q)
  BY DEF wrapping_div
<1>6. wrapping_rem(a, b) = wrap(IF a < 0 THEN -r ELSE r)
  BY DEF wrapping_rem
<1> HIDE DEF c, d, q, r, s
<1>7. s = IF (a < 0) = (b < 0) THEN q ELSE -q
  BY <1>4
<1>8. s \in Int
  BY <1>3, <1>7
<1>9. a - s * b = IF a < 0 THEN -r ELSE r
  <2>1. CASE a < 0 /\ b < 0
    <3>1. s = q /\ a = -c /\ b = -d
      BY <1>1, <1>2, <1>7, <2>1
    <3>2. s * b = -(q * d) /\ q * d \in Int
      BY <1>1, <1>3, <3>1
    <3> QED
      BY <1>1, <1>3, <2>1, <3>1, <3>2
  <2>2. CASE a < 0 /\ ~(b < 0)
    <3>1. s = -q /\ a = -c /\ b = d
      BY <1>1, <1>2, <1>7, <2>2
    <3>2. s * b = -(q * d) /\ q * d \in Int
      BY <1>1, <1>3, <3>1
    <3> QED
      BY <1>1, <1>3, <2>2, <3>1, <3>2
  <2>3. CASE ~(a < 0) /\ b < 0
    <3>1. s = -q /\ a = c /\ b = -d
      BY <1>1, <1>2, <1>7, <2>3
    <3>2. s * b = q * d /\ q * d \in Int
      BY <1>1, <1>3, <3>1
    <3> QED
      BY <1>1, <1>3, <2>3, <3>1, <3>2
  <2>4. CASE ~(a < 0) /\ ~(b < 0)
    <3>1. s = q /\ a = c /\ b = d
      BY <1>1, <1>2, <1>7, <2>4
    <3>2. s * b = q * d /\ q * d \in Int
      BY <1>1, <1>3, <3>1
    <3> QED
      BY <1>1, <1>3, <2>4, <3>1, <3>2
  <2> QED
    BY <2>1, <2>2, <2>3, <2>4
<1>10. wrapping_div(a, b) = wrap(s)
  BY <1>5, <1>7
<1> QED
  BY <1>6, <1>8, <1>9, <1>10 DEF s

\* The quotient and the remainder of natural numbers are no larger than they are.
LEMMA QuotientsFit ==
  ASSUME NEW a \in Nat, NEW b \in Nat, b > 0
  PROVE  a \div b \in Int /\ 0 <= a \div b /\ a \div b <= a /\ a % b \in Int /\ 0 <= a % b /\ a % b <= a
<1> DEFINE q == a \div b
           r == a % b
<1>1. q \in Int /\ r \in Int /\ 0 <= r /\ r < b /\ a = r + q * b
  BY Divided
<1> HIDE DEF q, r
<1>2. q >= 0
  <2> SUFFICES ASSUME q <= -1 PROVE FALSE
    BY <1>1
  <2>1. q * b <= (-1) * b /\ q * b \in Int
    BY <1>1
  <2> QED
    BY <1>1, <2>1
<1>3. q * b >= q /\ q * b \in Int
  BY <1>1, <1>2
<1> QED
  BY <1>1, <1>2, <1>3 DEF q, r

\* All ones, of a register and of a word.
LEMMA OnesOf ==
  /\ Ones \in Values /\ Ones % 2^XLEN = Ones /\ (-1) % 2^XLEN = Ones
  /\ Ones % WordSize = (2^WORD - 1) % WordSize /\ wrap(-1) = Ones
<1> PICK zero \in Int : zero = 0
  OBVIOUS
<1>1. Register \in Nat /\ Register > 0 /\ WordSize \in Nat /\ WordSize > 0 /\ Register = WordSize * WordSize
  BY SizesOf
<1>2. Ones = Register - 1 /\ Ones \in Int
  BY <1>1 DEF Ones, Register
<1>3. Ones \in Values
  BY <1>1, <1>2, InValues
<1>4. zero \in Values
  BY <1>1, InValues
<1>5. (-1 - zero) % 2^XLEN = not(zero)
  BY <1>4, WrappedNot
<1>6. not(zero) = Ones
  BY <1>2 DEF not
<1>7. (-1) % 2^XLEN = Ones
  BY <1>5, <1>6
<1>8. Ones % WordSize = (2^WORD - 1) % WordSize
  <2> DEFINE q == WordSize - 1
  <2>1. Ones = q + q * WordSize /\ q \in Int /\ 2^WORD - 1 = q
    BY <1>1, <1>2 DEF WordSize
  <2> HIDE DEF q
  <2>2. (q + q * WordSize) % WordSize = q % WordSize
    BY <1>1, <2>1, MultiplesVanish
  <2> QED
    BY <2>1, <2>2
<1> QED
  BY <1>3, <1>7, <1>8, ValuesAre DEF wrap

\* Multiplication and division of registers: Rust's truncating division of wrapped numbers,
\* with its one overflow, is Python's of unbounded ones, wrapped.
LEMMA DivisionAgrees ==
  ASSUME NEW a \in Values, NEW b \in Values, NEW op \in {"mul", "div", "divu", "rem", "remu"}
  PROVE  multiply(op, a, b, FALSE) = Ranged(op, a, b, XLEN) % 2^XLEN
<1> DEFINE sa == as_signed(a, XLEN)
           sb == as_signed(b, XLEN)
<1>0. /\ a \in Nat /\ b \in Nat /\ a % 2^XLEN = a /\ b % 2^XLEN = b
      /\ a < Register /\ b < Register /\ Register \in Nat
  BY ValuesAre
<1>1. /\ sa \in Int /\ sb \in Int /\ sa % 2^XLEN = a /\ (sb = 0 <=> b = 0)
      /\ signed(a, XLEN) = sa /\ signed(b, XLEN) = sb
  BY SignedRegister
<1> HIDE DEF sa, sb
<1>2. CASE op = "mul"
  <2>1. multiply("mul", a, b, FALSE) = wrap(a * b) /\ Ranged("mul", a, b, XLEN) = a * b
    <3>1. multiply("mul", a, b, FALSE) = wrap(a * b)
      BY MultiplyCases
    <3>2. Ranged("mul", a, b, XLEN) = a * b
      BY Zenon DEF Ranged
    <3> QED
      BY <3>1, <3>2
  <2> QED
    BY <1>2, <2>1 DEF wrap
<1>3. CASE op = "div"
  <2>1. /\ multiply("div", a, b, FALSE) = IF b = 0 THEN Ones ELSE wrapping_div(sa, sb)
        /\ Ranged("div", a, b, XLEN) = quotient(sa, sb)
    <3>1. multiply("div", a, b, FALSE) = IF b = 0 THEN Ones ELSE wrapping_div(sa, sb)
      BY MultiplyCases DEF sa, sb
    <3>2. Ranged("div", a, b, XLEN) =
         quotient(signed(a, XLEN), signed(b, XLEN))
      BY Zenon DEF Ranged
    <3>3. Ranged("div", a, b, XLEN) = quotient(sa, sb)
      BY <1>1, <3>2
    <3> QED
      BY <3>1, <3>3
  <2>2. CASE b = 0
    <3>1. quotient(sa, sb) = -1
      BY <1>1, <2>2 DEF quotient
    <3> QED
      BY <1>3, <2>1, <2>2, <3>1, OnesOf
  <2>3. CASE b # 0
    <3>1. wrapping_div(sa, sb) = wrap(quotient(sa, sb))
      BY <1>1, <2>3, Truncation
    <3> QED
      BY <1>3, <2>1, <2>3, <3>1 DEF wrap
  <2> QED
    BY <2>2, <2>3
<1>4. CASE op = "divu"
  <2>1. /\ multiply("divu", a, b, FALSE) = IF b = 0 THEN Ones ELSE a \div b
        /\ Ranged("divu", a, b, XLEN) = IF b # 0 THEN a \div b ELSE Ones
    <3>1. multiply("divu", a, b, FALSE) = IF b = 0 THEN Ones ELSE a \div b
      BY MultiplyCases DEF Ones
    <3>2. Ranged("divu", a, b, XLEN) =
         IF b % 2^XLEN # 0 THEN (a % 2^XLEN) \div (b % 2^XLEN) ELSE 2^XLEN - 1
      BY Zenon DEF Ranged
    <3>3. Ranged("divu", a, b, XLEN) = IF b # 0 THEN a \div b ELSE Ones
      BY <1>0, <3>2 DEF Ones
    <3> QED
      BY <3>1, <3>3
  <2>2. CASE b = 0
    BY <1>4, <2>1, <2>2, OnesOf
  <2>3. CASE b # 0
    <3>1. a \div b \in Int /\ 0 <= a \div b /\ a \div b <= a
      BY <1>0, <2>3, QuotientsFit
    <3>2. a \div b \in Values
      BY <1>0, <3>1, InValues
    <3> QED
      BY <1>4, <2>1, <2>3, <3>2, ValuesAre
  <2> QED
    BY <2>2, <2>3
<1>5. CASE op = "rem"
  <2>1. /\ multiply("rem", a, b, FALSE) = IF b = 0 THEN a ELSE wrapping_rem(sa, sb)
        /\ Ranged("rem", a, b, XLEN) = IF sb = 0 THEN sa ELSE sa - quotient(sa, sb) * sb
    <3>1. multiply("rem", a, b, FALSE) = IF b = 0 THEN a ELSE wrapping_rem(sa, sb)
      BY MultiplyCases DEF sa, sb
    <3>2. Ranged("rem", a, b, XLEN) =
         IF signed(b, XLEN) = 0 THEN signed(a, XLEN)
         ELSE signed(a, XLEN) - quotient(signed(a, XLEN), signed(b, XLEN)) * signed(b, XLEN)
      BY Zenon DEF Ranged
    <3>3. Ranged("rem", a, b, XLEN) = IF sb = 0 THEN sa ELSE sa - quotient(sa, sb) * sb
      BY <1>1, <3>2
    <3> QED
      BY <3>1, <3>3
  <2>2. CASE b = 0
    BY <1>1, <1>5, <2>1, <2>2
  <2>3. CASE b # 0
    BY <1>1, <1>5, <2>1, <2>3, Truncation DEF wrap
  <2> QED
    BY <2>2, <2>3
<1>6. CASE op = "remu"
  <2>1. /\ multiply("remu", a, b, FALSE) = IF b = 0 THEN a ELSE a % b
        /\ Ranged("remu", a, b, XLEN) = IF b # 0 THEN a % b ELSE a
    <3>1. multiply("remu", a, b, FALSE) = IF b = 0 THEN a ELSE a % b
      BY MultiplyCases
    <3>2. Ranged("remu", a, b, XLEN) =
         IF b % 2^XLEN # 0 THEN (a % 2^XLEN) % (b % 2^XLEN) ELSE a % 2^XLEN
      BY Zenon DEF Ranged
    <3>3. Ranged("remu", a, b, XLEN) = IF b # 0 THEN a % b ELSE a
      BY <1>0, <3>2
    <3> QED
      BY <3>1, <3>3
  <2>2. CASE b = 0
    BY <1>0, <1>6, <2>1, <2>2
  <2>3. CASE b # 0
    <3>1. a % b \in Int /\ 0 <= a % b /\ a % b <= a
      BY <1>0, <2>3, QuotientsFit
    <3>2. a % b \in Values
      BY <1>0, <3>1, InValues
    <3> QED
      BY <1>6, <2>1, <2>3, <3>2, ValuesAre
  <2> QED
    BY <2>2, <2>3
<1> QED
  BY <1>2, <1>3, <1>4, <1>5, <1>6

\* The same of words, which the executor extends to registers before and after.
LEMMA WordDivisionAgrees ==
  ASSUME NEW a \in Values, NEW b \in Values, NEW op \in {"mul", "div", "divu", "rem", "remu"}
  PROVE  sext(multiply(op, a, b, TRUE), WORD) = sext(Ranged(op, a, b, WORD), WORD)
<1> DEFINE c == sext(a, WORD)
           d == sext(b, WORD)
           sa == as_signed(a, WORD)
           sb == as_signed(b, WORD)
<1>0. a \in Int /\ b \in Int
  BY ValuesAre
<1>1. /\ c \in Values /\ d \in Values /\ as_signed(c, XLEN) = sa /\ as_signed(d, XLEN) = sb
      /\ signed(a, WORD) = sa /\ signed(b, WORD) = sb
  BY <1>0, SignedExtension, SignedWordWrapped
<1>2. sa \in Int /\ sb \in Int /\ (sb = 0 <=> d = 0)
  BY <1>1, SignedRegister
<1>3. c = wrap(sa) /\ c % WordSize = a % WordSize /\ d % WordSize = b % WordSize /\ c \in Int /\ d \in Int
  BY <1>0, WordOfExtension DEF sext
<1>4. word(a) = a % 2^WORD /\ word(b) = b % 2^WORD
  BY DEF word
<1> HIDE DEF c, d, sa, sb
<1>5. CASE op = "mul"
  <2>1. multiply("mul", a, b, TRUE) = wrap(c * d) /\ Ranged("mul", a, b, WORD) = a * b
    <3>1. multiply("mul", a, b, TRUE) = wrap(c * d)
      BY MultiplyWordCases DEF c, d
    <3>2. Ranged("mul", a, b, WORD) = a * b
      BY Zenon DEF Ranged
    <3> QED
      BY <3>1, <3>2
  <2>2. execute_decoded("mulw", a, b) = execute("mulw", a, b, 0)
    BY <1>0, MulwAgrees
  <2>3. execute("mulw", a, b, 0) = sext(multiply("mul", a, b, TRUE), WORD)
    BY DispatchMul
  <2>4. "mulw" \notin BaseOps
    BY DEF BaseOps
  <2>5. execute_decoded("mulw", a, b) = sext(a * b, WORD)
    BY <2>4, Zenon DEF execute_decoded
  <2> QED
    BY <1>5, <2>1, <2>2, <2>3, <2>5
<1>6. CASE op = "div"
  <2>1. /\ multiply("div", a, b, TRUE) = IF d = 0 THEN Ones ELSE wrapping_div(sa, sb)
        /\ Ranged("div", a, b, WORD) = quotient(sa, sb)
    <3>1. multiply("div", a, b, TRUE) = IF d = 0 THEN Ones ELSE wrapping_div(sa, sb)
      BY <1>1, MultiplyWordCases DEF c, d
    <3>2. Ranged("div", a, b, WORD) =
         quotient(signed(a, WORD), signed(b, WORD))
      BY Zenon DEF Ranged
    <3>3. Ranged("div", a, b, WORD) = quotient(sa, sb)
      BY <1>1, <3>2
    <3> QED
      BY <3>1, <3>3
  <2>2. multiply("div", a, b, TRUE) = wrap(quotient(sa, sb)) /\ quotient(sa, sb) \in Int
    <3>0. -1 \in Int
      OBVIOUS
    <3>1. CASE d = 0
      <4>1. quotient(sa, sb) = -1
        BY <1>2, <3>1 DEF quotient
      <4> QED
        BY <2>1, <3>0, <3>1, <4>1, OnesOf, Zenon
    <3>2. CASE d # 0
      BY <1>2, <2>1, <3>2, Truncation
    <3> QED
      BY <3>1, <3>2
  <2> QED
    BY <1>6, <2>1, <2>2, ExtensionOfWrapped
<1>7. CASE op = "divu"
  <2>1. /\ multiply("divu", a, b, TRUE) = IF word(b) = 0 THEN Ones ELSE word(a) \div word(b)
        /\ Ranged("divu", a, b, WORD) = IF word(b) # 0 THEN word(a) \div word(b) ELSE 2^WORD - 1
    <3>1. multiply("divu", a, b, TRUE) = IF word(b) = 0 THEN Ones ELSE word(a) \div word(b)
      BY MultiplyWordCases
    <3>2. Ranged("divu", a, b, WORD) =
         IF b % 2^WORD # 0 THEN (a % 2^WORD) \div (b % 2^WORD) ELSE 2^WORD - 1
      BY Zenon DEF Ranged
    <3>3. Ranged("divu", a, b, WORD) = IF word(b) # 0 THEN word(a) \div word(b) ELSE 2^WORD - 1
      BY <1>4, <3>2
    <3> QED
      BY <3>1, <3>3
  <2>2. CASE word(b) = 0
    <3>1. Ones \in Int /\ 2^WORD - 1 \in Int
      BY OnesOf, ValuesAre, SizesOf DEF WordSize
    <3> QED
      BY <1>7, <2>1, <2>2, <3>1, OnesOf, ExtensionOfWord
  <2>3. CASE word(b) # 0
    BY <1>7, <2>1, <2>3
  <2> QED
    BY <2>2, <2>3
<1>8. CASE op = "rem"
  <2>1. /\ multiply("rem", a, b, TRUE) = IF d = 0 THEN c ELSE wrapping_rem(sa, sb)
        /\ Ranged("rem", a, b, WORD) = IF sb = 0 THEN sa ELSE sa - quotient(sa, sb) * sb
    <3>1. multiply("rem", a, b, TRUE) = IF d = 0 THEN c ELSE wrapping_rem(sa, sb)
      BY <1>1, MultiplyWordCases DEF c, d
    <3>2. Ranged("rem", a, b, WORD) =
         IF signed(b, WORD) = 0 THEN signed(a, WORD)
         ELSE signed(a, WORD) - quotient(signed(a, WORD), signed(b, WORD)) * signed(b, WORD)
      BY Zenon DEF Ranged
    <3>3. Ranged("rem", a, b, WORD) = IF sb = 0 THEN sa ELSE sa - quotient(sa, sb) * sb
      BY <1>1, <3>2
    <3> QED
      BY <3>1, <3>3
  <2>2. CASE d = 0
    BY <1>2, <1>3, <1>8, <2>1, <2>2, ExtensionOfWrapped
  <2>3. CASE d # 0
    <3>1. quotient(sa, sb) \in Int /\ wrapping_rem(sa, sb) = wrap(sa - quotient(sa, sb) * sb)
      BY <1>2, <2>3, Truncation
    <3> DEFINE t == sa - quotient(sa, sb) * sb
    <3>2. t \in Int
      BY <1>2, <3>1
    <3> HIDE DEF t
    <3>3. sext(wrap(t), WORD) = sext(t, WORD)
      BY <3>2, ExtensionOfWrapped
    <3> QED
      BY <1>2, <1>8, <2>1, <2>3, <3>1, <3>3 DEF t
  <2> QED
    BY <2>2, <2>3
<1>9. CASE op = "remu"
  <2>1. /\ multiply("remu", a, b, TRUE) = IF word(b) = 0 THEN word(a) ELSE word(a) % word(b)
        /\ Ranged("remu", a, b, WORD) = IF word(b) # 0 THEN word(a) % word(b) ELSE word(a)
    <3>1. multiply("remu", a, b, TRUE) = IF word(b) = 0 THEN word(a) ELSE word(a) % word(b)
      BY MultiplyWordCases
    <3>2. Ranged("remu", a, b, WORD) =
         IF b % 2^WORD # 0 THEN (a % 2^WORD) % (b % 2^WORD) ELSE a % 2^WORD
      BY Zenon DEF Ranged
    <3>3. Ranged("remu", a, b, WORD) = IF word(b) # 0 THEN word(a) % word(b) ELSE word(a)
      BY <1>4, <3>2
    <3> QED
      BY <3>1, <3>3
  <2> QED
    BY <1>9, <2>1
<1> QED
  BY <1>5, <1>6, <1>7, <1>8, <1>9

-----------------------------------------------------------------------------
(* Bytes of registers *)

BytesOf == XLEN \div BYTE

\* The places of a register's bytes.
LEMMA BytesAre ==
  /\ BytesOf \in Nat /\ BYTE \in 0 .. XLEN /\ BYTE \in Nat /\ BYTE * BytesOf = XLEN
  /\ 2^BYTE \in Nat /\ 2^BYTE > 0 /\ 2^BYTE <= Register
  /\ \A i \in 0 .. BytesOf : BYTE * i \in 0 .. XLEN
  /\ \A i \in 0 .. BytesOf - 1 : BYTE * (i + 1) = BYTE * i + BYTE /\ BYTE * i \in ByteShifts
  /\ \A i \in 0 .. BytesOf : \A j \in 0 .. i - 1 : BYTE * j + BYTE <= BYTE * i
  /\ \A n \in ByteShifts : /\ n \in 0 .. XLEN /\ n + BYTE \in 0 .. XLEN
                           /\ XLEN - BYTE - n \in ByteShifts
                           /\ \E i \in 0 .. BytesOf - 1 : n = BYTE * i
<1> DEFINE k == BytesOf
<1>1. BYTE \in Nat /\ BYTE > 0 /\ XLEN \in Nat /\ XLEN % BYTE = 0 /\ BYTE < XLEN
  BY WidthAssumption
<1>2. k \in Int /\ XLEN = k * BYTE
  <2>1. k \in Int /\ XLEN = (XLEN % BYTE) + k * BYTE
    BY <1>1, Divided DEF BytesOf
  <2> HIDE DEF k
  <2>2. k * BYTE \in Int
    BY <1>1, <2>1
  <2> QED
    BY <1>1, <2>1, <2>2
<1> HIDE DEF k
<1>3. k > 0
  <2> SUFFICES ASSUME k <= 0 PROVE FALSE
    BY <1>2
  <2>1. k * BYTE <= 0
    BY <1>1, <1>2
  <2> QED
    BY <1>1, <1>2, <2>1
<1>4. BYTE \in 0 .. XLEN /\ 2^BYTE \in Nat /\ 2^BYTE > 0 /\ 2^BYTE <= Register
  <2>1. BYTE \in 0 .. XLEN /\ XLEN \in 0 .. XLEN /\ BYTE <= XLEN
    BY <1>1
  <2> QED
    BY <2>1, PowersOf DEF Register
<1>5. ASSUME NEW i \in Int, NEW j \in Int, i <= j PROVE BYTE * i <= BYTE * j /\ BYTE * i \in Int
  BY <1>1, <1>5
<1>6. BYTE * 0 = 0 /\ BYTE * k = XLEN
  BY <1>1, <1>2
<1>7. ASSUME NEW i \in 0 .. k PROVE BYTE * i \in 0 .. XLEN
  <2>1. BYTE * 0 <= BYTE * i /\ BYTE * i <= BYTE * k /\ BYTE * i \in Int
    BY <1>2, <1>5
  <2> QED
    BY <1>1, <1>6, <2>1
<1>8. ASSUME NEW i \in Int PROVE BYTE * (i + 1) = BYTE * i + BYTE
  BY <1>1
<1>9. ASSUME NEW i \in 0 .. k, NEW j \in 0 .. i - 1 PROVE BYTE * j + BYTE <= BYTE * i
  <2>1. j + 1 <= i /\ j + 1 \in Int /\ i \in Int /\ j \in Int
    BY <1>2
  <2>2. BYTE * (j + 1) <= BYTE * i
    BY <1>5, <2>1
  <2> QED
    BY <1>8, <2>1, <2>2
<1>10. ByteShifts = {BYTE * i : i \in 0 .. k - 1}
  BY DEF ByteShifts, k, BytesOf
<1>11. ASSUME NEW n \in ByteShifts
       PROVE  /\ n \in 0 .. XLEN /\ n + BYTE \in 0 .. XLEN
              /\ XLEN - BYTE - n \in ByteShifts
              /\ \E i \in 0 .. k - 1 : n = BYTE * i
  <2>1. PICK i \in 0 .. k - 1 : n = BYTE * i
    BY <1>10
  <2>2. i \in 0 .. k /\ i + 1 \in 0 .. k /\ i \in Int /\ (k - 1) - i \in 0 .. k - 1
    BY <1>2
  <2>3. n \in 0 .. XLEN /\ n + BYTE \in 0 .. XLEN
    <3>1. BYTE * i \in 0 .. XLEN /\ BYTE * (i + 1) \in 0 .. XLEN
      BY <1>7, <2>2
    <3> QED
      BY <1>8, <2>1, <2>2, <3>1
  <2>4. BYTE * ((k - 1) - i) = XLEN - BYTE - n
    <3>1. BYTE * ((k - 1) - i) = BYTE * k - BYTE - BYTE * i
      BY <1>1, <1>2, <2>2
    <3> QED
      BY <1>6, <2>1, <3>1
  <2> QED
    BY <1>10, <2>1, <2>2, <2>3, <2>4
<1>12. \A i \in 0 .. k - 1 : BYTE * i \in ByteShifts
  BY <1>10
<1>13. \A i \in 0 .. k - 1 : BYTE * (i + 1) = BYTE * i + BYTE
  BY <1>2, <1>8
<1>14. k \in Nat
  BY <1>2, <1>3
<1> QED
  BY <1>1, <1>4, <1>6, <1>7, <1>9, <1>11, <1>12, <1>13, <1>14 DEF k

\* The bytes of the lower part of a number.
LEMMA BytesOfLow ==
  ASSUME NEW a \in Int, NEW m \in 0 .. XLEN, NEW n \in 0 .. XLEN, n + BYTE <= m
  PROVE  byte_at(a % 2^m, n) = byte_at(a, n)
<1> DEFINE e == 2^m
           d == 2^n
           b == 2^BYTE
           c == 2^(m - (n + BYTE))
           q == a \div e
           r == a % e
           p == r \div d
           t == r % d
           y == q * c
<1>0. BYTE \in 0 .. XLEN /\ BYTE \in Nat /\ XLEN \in Nat
  BY BytesAre, PowersOf
<1>1. n + BYTE \in 0 .. XLEN
  BY <1>0
<1>2. 2^(n + BYTE) = d * b
  BY <1>0, PowersAssumption
<1>3. e = c * 2^(n + BYTE) /\ c \in Nat
  <2>1. m - (n + BYTE) \in 0 .. XLEN /\ e = c * 2^(n + BYTE)
    BY <1>1, PowersOf
  <2> QED
    BY <2>1, PowersOf
<1>4. e \in Nat /\ e > 0 /\ d \in Nat /\ d > 0 /\ b \in Nat /\ b > 0
  BY <1>0, PowersOf
<1>5. byte_at(a, n) = (a \div d) % b /\ byte_at(r, n) = p % b
  BY DEF byte_at
<1> HIDE DEF e, d, b, c
<1>6. q \in Int /\ r \in Int /\ a = r + q * e
  BY <1>4, Divided
<1> HIDE DEF q, r
<1>7. p \in Int /\ t \in Int /\ 0 <= t /\ t < d /\ r = t + p * d
  BY <1>4, <1>6, Divided
<1> HIDE DEF p, t
<1>8. y \in Int /\ q * e = y * b * d
  BY <1>2, <1>3, <1>4, <1>6
<1> HIDE DEF y
<1> DEFINE s == p + y * b
<1>9. s \in Int /\ a = t + s * d
  <2>1. y * b \in Int /\ y * b * d \in Int /\ p * d \in Int
    BY <1>4, <1>7, <1>8
  <2>2. s \in Int /\ s * d = p * d + y * b * d
    BY <1>4, <1>7, <2>1
  <2> HIDE DEF s
  <2> QED
    BY <1>6, <1>7, <1>8, <2>1, <2>2
<1>10. s % b = p % b
  BY <1>4, <1>7, <1>8, MultiplesVanish
<1> HIDE DEF s
<1>11. (t + s * d) \div d = s
  BY <1>4, <1>7, <1>9, DividedOf
<1> QED
  BY <1>5, <1>9, <1>10, <1>11 DEF r, e

\* There is a number with any bytes.
LEMMA NumberWithBytes ==
  ASSUME NEW f, \A n \in ByteShifts : f[n] \in 0 .. 2^BYTE - 1
  PROVE  \E v \in Values : \A n \in ByteShifts : byte_at(v, n) = f[n]
<1> DEFINE k == BytesOf
           b == 2^BYTE
           Holds(v, i) == /\ v \in Int /\ 0 <= v /\ v < 2^(BYTE * i)
                          /\ \A j \in 0 .. i - 1 : byte_at(v, BYTE * j) = f[BYTE * j]
           S == {i \in Nat : i <= k => \E v \in Int : Holds(v, i)}
<1>0. k \in Nat /\ b \in Nat /\ b > 0 /\ BYTE \in Nat /\ XLEN \in Nat
  BY BytesAre, PowersOf
<1>1. 0 \in S
  <2>1. BYTE * 0 = 0 /\ 2^0 = 1
    BY <1>0, PowersOf
  <2> PICK zero \in Int : zero = 0
    OBVIOUS
  <2>2. \A j \in 0 .. 0 - 1 : FALSE
    OBVIOUS
  <2>3. 2^(BYTE * 0) = 1
    BY <2>1
  <2>4. zero < 2^(BYTE * 0)
    BY <2>3
  <2>5. Holds(zero, 0)
    BY <2>2, <2>4
  <2> QED
    BY <2>5
<1>2. ASSUME NEW i \in Nat, i \in S PROVE i + 1 \in S
  <2> SUFFICES ASSUME i + 1 <= k PROVE \E v \in Int : Holds(v, i + 1)
    OBVIOUS
  <2>1. i \in 0 .. k /\ i \in 0 .. k - 1 /\ i + 1 \in 0 .. k
    BY <1>0
  <2>2. PICK v \in Int : Holds(v, i)
    BY <1>2, <2>1
  <2> DEFINE n == BYTE * i
             d == 2^n
             z == f[n]
             u == v + z * d
  <2>3. n \in 0 .. XLEN /\ BYTE * (i + 1) = n + BYTE /\ n + BYTE \in 0 .. XLEN /\ n \in ByteShifts
    <3>1. n \in 0 .. XLEN /\ BYTE * (i + 1) \in 0 .. XLEN
      BY <2>1, BytesAre
    <3>2. BYTE * (i + 1) = n + BYTE /\ n \in ByteShifts
      BY <2>1, BytesAre
    <3> QED
      BY <3>1, <3>2
  <2>4. d \in Nat /\ d > 0 /\ 2^(n + BYTE) = d * b
    <3>1. BYTE \in 0 .. XLEN
      BY BytesAre
    <3> HIDE DEF n
    <3> QED
      BY <2>3, <3>1, PowersOf, PowersAssumption
  <2>5. z \in Int /\ 0 <= z /\ z <= b - 1
    BY <1>0, <2>3
  <2>6. 0 <= v /\ v < d
    BY <2>2
  <2>7. ASSUME NEW j \in 0 .. i - 1 PROVE byte_at(v, BYTE * j) = f[BYTE * j]
    BY <2>2
  <2>8. 2^(BYTE * (i + 1)) = d * b
    BY <2>3, <2>4
  <2> HIDE DEF n, d, z, b
  <2>9. u \in Int /\ 0 <= u /\ u < d * b
    <3>1. z * d \in Int /\ 0 <= z * d
      BY <2>4, <2>5
    <3>2. z * d <= (b - 1) * d
      BY <1>0, <2>4, <2>5
    <3>3. (b - 1) * d = d * b - d /\ d * b \in Int
      BY <1>0, <2>4
    <3> QED
      BY <2>4, <2>6, <3>1, <3>2, <3>3
  <2>10. u % d = v /\ u \div d = z
    BY <2>4, <2>5, <2>6, RemainderOf, DividedOf
  <2> HIDE DEF u
  <2>11. byte_at(u, n) = f[n]
    <3>1. z % b = z
      BY <1>0, <2>5, RemainderOfLess
    <3> QED
      BY <2>10, <3>1 DEF byte_at, d, b, z
  <2>12. ASSUME NEW j \in 0 .. i PROVE byte_at(u, BYTE * j) = f[BYTE * j]
    <3>1. CASE j = i
      BY <2>11, <3>1 DEF n
    <3>2. CASE j # i
      <4>1. j \in 0 .. i - 1 /\ j \in 0 .. k
        BY <1>0, <2>1, <3>2
      <4>2. BYTE * j + BYTE <= n /\ BYTE * j \in 0 .. XLEN
        BY <2>1, <4>1, BytesAre DEF n
      <4>3. byte_at(u % 2^n, BYTE * j) = byte_at(u, BYTE * j)
        BY <2>3, <2>9, <4>2, BytesOfLow
      <4> QED
        BY <2>7, <2>10, <4>1, <4>3 DEF d
    <3> QED
      BY <3>1, <3>2
  <2>13. Holds(u, i + 1)
    <3>1. (i + 1) - 1 = i
      OBVIOUS
    <3> QED
      BY <2>8, <2>9, <2>12, <3>1
  <2> QED
    BY <2>9, <2>13
<1>3. Nat \subseteq S
  <2> HIDE DEF S
  <2> QED
    BY <1>1, <1>2, InductionOnSets
<1>4. PICK v \in Int : Holds(v, k)
  <2> HIDE DEF k, Holds
  <2>1. k \in S
    BY <1>0, <1>3, Zenon
  <2>2. k <= k
    BY <1>0
  <2> QED
    BY <2>1, <2>2
<1>5. v \in Values
  <2>1. BYTE * k = XLEN
    BY BytesAre
  <2> QED
    BY <1>4, <2>1, InValues DEF Register
<1>6. ASSUME NEW n \in ByteShifts PROVE byte_at(v, n) = f[n]
  <2>1. PICK i \in 0 .. k - 1 : n = BYTE * i
    BY BytesAre
  <2> QED
    BY <1>4, <2>1
<1> QED
  BY <1>5, <1>6

\* What is made of bytes is a register's value.
LEMMA OfBytesType ==
  ASSUME NEW f, \A n \in ByteShifts : f[n] \in 0 .. 2^BYTE - 1
  PROVE  of_bytes(f) \in Values
<1>1. \E v \in Values : \A n \in ByteShifts : byte_at(v, n) = f[n]
  BY NumberWithBytes
<1> QED
  BY <1>1, Zenon DEF of_bytes

LEMMA ByteType ==
  ASSUME NEW a \in Values, NEW n \in ByteShifts
  PROVE  byte_at(a, n) \in 0 .. 2^BYTE - 1
<1> DEFINE q == a \div 2^n
           b == 2^BYTE
<1>1. n \in 0 .. XLEN /\ b \in Nat /\ b > 0
  BY BytesAre
<1>2. 2^n \in Nat /\ 2^n > 0
  BY <1>1, PowersOf
<1>3. q \in Int
  BY <1>2, ValuesAre, Divided
<1> HIDE DEF q, b
<1>4. q % b \in Int /\ 0 <= q % b /\ q % b < b
  BY <1>1, <1>3, Divided
<1> QED
  BY <1>1, <1>4 DEF byte_at, q, b

\* Swapping the bytes of a register, and reading them from the other end.
LEMMA SwappedBytes ==
  ASSUME NEW a \in Values
  PROVE  LET f == [k \in ByteShifts |-> (a \div 2^(XLEN - BYTE - k)) % 2^BYTE]
         IN swap_bytes(a) = of_bytes(f) /\ of_bytes(f) \in Values
<1> DEFINE f == [k \in ByteShifts |-> (a \div 2^(XLEN - BYTE - k)) % 2^BYTE]
           g(n) == XLEN - BYTE - n
<1>1. \A n \in ByteShifts : f[n] = byte_at(a, g(n))
  BY DEF byte_at
<1>2. \A n \in ByteShifts : g(n) \in ByteShifts /\ g(g(n)) = n
  <2> SUFFICES ASSUME NEW n \in ByteShifts PROVE g(n) \in ByteShifts /\ g(g(n)) = n
    OBVIOUS
  <2>1. n \in 0 .. XLEN /\ g(n) \in ByteShifts /\ XLEN \in Nat /\ BYTE \in Nat
    BY BytesAre, PowersOf
  <2> QED
    BY <2>1
<1>3. of_bytes(f) \in Values
  <2>1. \A n \in ByteShifts : f[n] \in 0 .. 2^BYTE - 1
    BY <1>1, <1>2, ByteType
  <2> HIDE DEF f
  <2> QED
    BY <2>1, OfBytesType
<1>4. swap_bytes(a) = CHOOSE v \in Values : \A n \in ByteShifts : byte_at(v, g(n)) = byte_at(a, n)
  BY DEF swap_bytes
<1>5. of_bytes(f) = CHOOSE v \in Values : \A n \in ByteShifts : byte_at(v, n) = f[n]
  BY DEF of_bytes
<1> HIDE DEF f, g
<1>6. ASSUME NEW v PROVE (\A n \in ByteShifts : byte_at(v, g(n)) = byte_at(a, n)) <=>
                         (\A n \in ByteShifts : byte_at(v, n) = f[n])
  <2>1. ASSUME \A n \in ByteShifts : byte_at(v, g(n)) = byte_at(a, n), NEW n \in ByteShifts
        PROVE  byte_at(v, n) = f[n]
    <3>1. g(n) \in ByteShifts /\ g(g(n)) = n
      BY <1>2
    <3>2. byte_at(v, g(g(n))) = byte_at(a, g(n))
      BY <2>1, <3>1
    <3> QED
      BY <1>1, <3>1, <3>2
  <2>2. ASSUME \A n \in ByteShifts : byte_at(v, n) = f[n], NEW n \in ByteShifts
        PROVE  byte_at(v, g(n)) = byte_at(a, n)
    <3>1. g(n) \in ByteShifts /\ g(g(n)) = n
      BY <1>2
    <3>2. byte_at(v, g(n)) = f[g(n)] /\ f[g(n)] = byte_at(a, g(g(n)))
      BY <1>1, <2>2, <3>1
    <3> QED
      BY <3>1, <3>2
  <2> QED
    BY <2>1, <2>2
<1>7. swap_bytes(a) = of_bytes(f)
  BY <1>4, <1>5, <1>6, Zenon
<1> QED
  BY <1>3, <1>7 DEF f

-----------------------------------------------------------------------------
(* The dispatch on an instruction's name *)

ShiftAdds == {"sh1add", "sh2add", "sh3add"}
WordShiftAdds == {"sh1add.uw", "sh2add.uw", "sh3add.uw"}
Divisions == {"mul", "div", "divu", "rem", "remu"}
WordDivisions == {"mulw", "divw", "divuw", "remw", "remuw"}
Highs == {"mulh", "mulhsu", "mulhu"}
Bitmanips ==
  {"add.uw", "slli.uw", "xnor", "orn", "andn", "min", "max", "minu", "maxu", "rol", "ror",
   "rori", "rolw", "rorw", "roriw", "clz", "ctz", "cpop", "clzw", "ctzw", "cpopw", "sext.b",
   "sext.h", "zext.h", "orc.b", "rev8", "bset", "bclr", "binv", "bext", "bseti", "bclri",
   "binvi", "bexti"}

\* The names in the tables of the executor and of the oracle.
LEMMA Domains ==
  /\ DOMAIN ShiftAdd = ShiftAdds /\ DOMAIN WordShiftAdd = WordShiftAdds
  /\ DOMAIN RangedWords = WordDivisions \cup {"rolw", "rorw"}
  /\ DOMAIN CountedWords = {"clzw", "ctzw", "cpopw"}
  /\ RangedOps = Divisions \cup {"rol", "ror"}
BY DEF ShiftAdd, WordShiftAdd, RangedWords, CountedWords, RangedOps, ShiftAdds, WordShiftAdds,
       Divisions, WordDivisions

\* Which part of the executor an instruction reaches.
LEMMA DispatchMultiply ==
  ASSUME NEW op \in MultiplyOps, NEW a, NEW b, NEW n
  PROVE  execute(op, a, b, n) = multiply(op, a, b, FALSE)
<1>1. Operation(op) = op /\ IsWord(op) = FALSE
  BY DEF Operation, IsWord, MultiplyOps, OfWord
<1> QED
  BY <1>1, Zenon DEF execute

LEMMA DispatchMultiplyWord ==
  ASSUME NEW op \in WordDivisions, NEW a, NEW b, NEW n
  PROVE  execute(op, a, b, n) = sext(multiply(OfWord[op], a, b, TRUE), WORD)
<1>1. Operation(op) = OfWord[op] /\ IsWord(op) = TRUE /\ OfWord[op] \in MultiplyOps
  BY DEF Operation, IsWord, MultiplyOps, OfWord, WordDivisions
<1> QED
  BY <1>1, Zenon DEF execute

LEMMA DispatchBits ==
  ASSUME NEW op \in Bitmanips \cup ShiftAdds \cup WordShiftAdds, NEW a, NEW b, NEW n
  PROVE  execute(op, a, b, n) = bitmanip(op, a, b, n)
<1>1. Operation(op) = op
  BY DEF Operation, IsWord, OfWord, Bitmanips, ShiftAdds, WordShiftAdds
<1>2. Operation(op) \notin MultiplyOps \cup BaseOps
  BY <1>1 DEF MultiplyOps, BaseOps, Bitmanips, ShiftAdds, WordShiftAdds
<1> QED
  BY <1>2, Zenon DEF execute

\* The names of one kind are not those of another.
LEMMA Kinds ==
  /\ \A op \in ShiftAdds : op \in DOMAIN ShiftAdd /\ op \notin DOMAIN WordShiftAdd
  /\ \A op \in WordShiftAdds : op \notin DOMAIN ShiftAdd /\ op \in DOMAIN WordShiftAdd
  /\ \A op \in Bitmanips \cup Highs : op \notin DOMAIN ShiftAdd /\ op \notin DOMAIN WordShiftAdd
BY Domains DEF ShiftAdds, WordShiftAdds, Bitmanips, Highs

\* What the oracle does: first by kind of instruction, then by name.
OtherOps ==
  Highs \cup ShiftAdds \cup WordShiftAdds \cup
    (Bitmanips \ {"rol", "ror", "rolw", "rorw", "clz", "ctz", "cpop", "clzw", "ctzw", "cpopw"})

LEMMA OracleRanged ==
  ASSUME NEW op \in RangedOps, NEW a, NEW b, NEW n
  PROVE  oracle(op, a, b, n) = Ranged(op, a, b, XLEN)
<1>1. op \notin DOMAIN RangedWords /\ op \notin {"clz", "ctz", "cpop"} /\ op \notin DOMAIN CountedWords
  BY Domains DEF Divisions, WordDivisions
<1> QED
  BY <1>1, Zenon DEF oracle

LEMMA OracleWords ==
  ASSUME NEW op \in DOMAIN RangedWords, NEW a, NEW b, NEW n
  PROVE  oracle(op, a, b, n) = signed(Ranged(RangedWords[op], a, b, WORD), WORD)
<1>1. op \notin RangedOps /\ op \notin {"clz", "ctz", "cpop"} /\ op \notin DOMAIN CountedWords
  BY Domains DEF Divisions, WordDivisions
<1> QED
  BY <1>1, Zenon DEF oracle

LEMMA OracleCounts ==
  ASSUME NEW op \in {"clz", "ctz", "cpop"}, NEW a, NEW b, NEW n
  PROVE  oracle(op, a, b, n) = Counted(op, a, XLEN)
<1>1. op \notin RangedOps /\ op \notin DOMAIN RangedWords /\ op \notin DOMAIN CountedWords
  BY Domains DEF Divisions, WordDivisions
<1> QED
  BY <1>1, Zenon DEF oracle

LEMMA OracleWordCounts ==
  ASSUME NEW op \in DOMAIN CountedWords, NEW a, NEW b, NEW n
  PROVE  oracle(op, a, b, n) = Counted(CountedWords[op], a, WORD)
<1>1. op \notin RangedOps /\ op \notin DOMAIN RangedWords /\ op \notin {"clz", "ctz", "cpop"}
  BY Domains DEF Divisions, WordDivisions
<1> QED
  BY <1>1, Zenon DEF oracle

LEMMA OracleOthers ==
  ASSUME NEW op \in OtherOps, NEW a, NEW b, NEW n
  PROVE  oracle(op, a, b, n) = Others(op, a, b, n)
<1>1. /\ op \notin RangedOps /\ op \notin DOMAIN RangedWords /\ op \notin {"clz", "ctz", "cpop"}
      /\ op \notin DOMAIN CountedWords
  BY Domains DEF OtherOps, Highs, ShiftAdds, WordShiftAdds, Bitmanips, Divisions, WordDivisions
<1> QED
  BY <1>1, Zenon DEF oracle

\* The executor and the oracle on an instruction that both find by its name.
LEMMA DispatchOthers ==
  ASSUME NEW op \in OtherOps \ Highs, NEW a, NEW b, NEW n
  PROVE  execute(op, a, b, n) = bitmanip(op, a, b, n) /\ oracle(op, a, b, n) = Others(op, a, b, n)
<1>1. op \in Bitmanips \cup ShiftAdds \cup WordShiftAdds /\ op \in OtherOps
  BY DEF OtherOps
<1> QED
  BY <1>1, DispatchBits, OracleOthers

-----------------------------------------------------------------------------
(* The executor and the oracle *)

Agree(op, a, b, n) == execute(op, a, b, n) = oracle(op, a, b, n) % 2^XLEN

\* The executor gives what the oracle does: mul, div, divu, rem and remu of registers.
LEMMA DivisionsAgree ==
  ASSUME NEW a \in Values, NEW b \in Values, NEW op \in Divisions, NEW n
  PROVE  Agree(op, a, b, n)
<1>1. op \in MultiplyOps /\ op \in RangedOps
  BY Domains DEF Divisions, MultiplyOps
<1>2. execute(op, a, b, n) = multiply(op, a, b, FALSE)
  BY <1>1, DispatchMultiply
<1>3. oracle(op, a, b, n) = Ranged(op, a, b, XLEN)
  BY <1>1, OracleRanged
<1>4. multiply(op, a, b, FALSE) = Ranged(op, a, b, XLEN) % 2^XLEN
  BY DivisionAgrees DEF Divisions
<1> QED
  BY <1>2, <1>3, <1>4 DEF Agree

\* What the operations on ranges give is an integer.
LEMMA RangedType ==
  ASSUME NEW a \in Values, NEW b \in Values, NEW op \in Divisions
  PROVE  Ranged(op, a, b, WORD) \in Int
<1> DEFINE sa == signed(a, WORD)
           sb == signed(b, WORD)
           ua == a % 2^WORD
           ub == b % 2^WORD
<1>1. a \in Int /\ b \in Int /\ 2^WORD \in Nat /\ 2^WORD > 0
  BY ValuesAre, PowersOf
<1>2. sa \in Int /\ sb \in Int
  <2>1. WORD \in 1 .. XLEN
    BY PowersOf
  <2> QED
    BY <1>1, <2>1, SignedOf
<1>3. ua \in Nat /\ ub \in Nat
  BY <1>1, Divided
<1>4. /\ Ranged("mul", a, b, WORD) = a * b
      /\ Ranged("div", a, b, WORD) = quotient(sa, sb)
      /\ Ranged("divu", a, b, WORD) = IF ub # 0 THEN ua \div ub ELSE 2^WORD - 1
      /\ Ranged("rem", a, b, WORD) = IF sb = 0 THEN sa ELSE sa - quotient(sa, sb) * sb
      /\ Ranged("remu", a, b, WORD) = IF ub # 0 THEN ua % ub ELSE ua
  BY Zenon DEF Ranged
<1> HIDE DEF sa, sb, ua, ub
<1>5. quotient(sa, sb) \in Int
  <2>1. sb = 0 => quotient(sa, sb) = -1
    BY DEF quotient
  <2> QED
    BY <1>2, <2>1, Truncation
<1>6. sa - quotient(sa, sb) * sb \in Int
  BY <1>2, <1>5
<1>7. ub # 0 => ua \div ub \in Int /\ ua % ub \in Int
  BY <1>3, QuotientsFit
<1>8. a * b \in Int
  BY <1>1
<1> QED
  BY <1>1, <1>2, <1>3, <1>4, <1>5, <1>6, <1>7, <1>8 DEF Divisions

\* mulw, divw, divuw, remw and remuw.
LEMMA WordDivisionsAgree ==
  ASSUME NEW a \in Values, NEW b \in Values, NEW op \in WordDivisions, NEW n
  PROVE  Agree(op, a, b, n)
<1> DEFINE f == OfWord[op]
<1>1. f \in Divisions /\ RangedWords[op] = f /\ op \in DOMAIN RangedWords
  BY Domains DEF WordDivisions, Divisions, OfWord, RangedWords
<1>2. execute(op, a, b, n) = sext(multiply(f, a, b, TRUE), WORD)
  BY DispatchMultiplyWord
<1>3. oracle(op, a, b, n) = signed(Ranged(f, a, b, WORD), WORD)
  BY <1>1, OracleWords
<1> HIDE DEF f
<1>4. sext(multiply(f, a, b, TRUE), WORD) = sext(Ranged(f, a, b, WORD), WORD)
  BY <1>1, WordDivisionAgrees DEF Divisions
<1>5. signed(Ranged(f, a, b, WORD), WORD) % 2^XLEN = sext(Ranged(f, a, b, WORD), WORD)
  BY <1>1, RangedType, SignedWordWrapped
<1> QED
  BY <1>2, <1>3, <1>4, <1>5 DEF Agree

\* mulh, mulhsu and mulhu.
LEMMA HighsAgree ==
  ASSUME NEW a \in Values, NEW b \in Values, NEW op \in Highs, NEW n
  PROVE  Agree(op, a, b, n)
<1>1. /\ execute(op, a, b, n) = multiply(op, a, b, FALSE)
      /\ oracle(op, a, b, n) = Others(op, a, b, n)
  <2>1. op \in MultiplyOps /\ op \in OtherOps
    BY DEF Highs, MultiplyOps, OtherOps
  <2> QED
    BY <2>1, DispatchMultiply, OracleOthers
<1>2. signed(a, XLEN) = as_signed(a, XLEN) /\ signed(b, XLEN) = as_signed(b, XLEN)
  BY SignedRegister
<1>3. CASE op = "mulh"
  <2>1. multiply("mulh", a, b, FALSE) = wrap((as_signed(a, XLEN) * as_signed(b, XLEN)) \div 2^XLEN)
    BY Zenon DEF multiply
  <2>2. Others("mulh", a, b, n) = (signed(a, XLEN) * signed(b, XLEN)) \div 2^XLEN
    BY Kinds, Zenon DEF Others, Highs
  <2> QED
    BY <1>1, <1>2, <1>3, <2>1, <2>2 DEF Agree, wrap
<1>4. CASE op = "mulhsu"
  <2>1. multiply("mulhsu", a, b, FALSE) = wrap((as_signed(a, XLEN) * b) \div 2^XLEN)
    BY Zenon DEF multiply
  <2>2. Others("mulhsu", a, b, n) = (signed(a, XLEN) * b) \div 2^XLEN
    BY Kinds, Zenon DEF Others, Highs
  <2> QED
    BY <1>1, <1>2, <1>4, <2>1, <2>2 DEF Agree, wrap
<1>5. CASE op = "mulhu"
  <2> DEFINE p == a * b
             q == p \div Register
             r == p % Register
  <2>1. multiply("mulhu", a, b, FALSE) = q /\ Others("mulhu", a, b, n) = q
    BY Kinds, Zenon DEF multiply, Others, Highs, Register
  <2>2. a \in Nat /\ b \in Nat /\ a < Register /\ b < Register /\ Register \in Nat /\ Register > 0
    BY ValuesAre
  <2>3. p \in Int /\ 0 <= p
    BY <2>2
  <2>4. p < Register * Register /\ Register * Register \in Int
    <3>1. a * b <= a * Register /\ a * Register <= (Register - 1) * Register
      BY <2>2
    <3>2. (Register - 1) * Register = Register * Register - Register /\ a * Register \in Int
          /\ Register * Register \in Int
      BY <2>2
    <3> QED
      BY <2>2, <2>3, <3>1, <3>2
  <2> HIDE DEF p
  <2>5. q \in Int /\ r \in Int /\ 0 <= r /\ r < Register /\ p = r + q * Register
    BY <2>2, <2>3, Divided
  <2> HIDE DEF q, r
  <2>6. q >= 0
    <3> SUFFICES ASSUME q <= -1 PROVE FALSE
      BY <2>5
    <3>1. q * Register <= (-1) * Register /\ q * Register \in Int
      BY <2>2, <2>5
    <3> QED
      BY <2>2, <2>3, <2>5, <3>1
  <2>7. q < Register
    <3> SUFFICES ASSUME q >= Register PROVE FALSE
      BY <2>2, <2>5
    <3>1. q * Register >= Register * Register /\ q * Register \in Int
      BY <2>2, <2>5
    <3> QED
      BY <2>3, <2>4, <2>5, <3>1
  <2>8. q \in Values
    BY <2>5, <2>6, <2>7, InValues
  <2>9. q % 2^XLEN = q
    BY <2>8, ValuesAre
  <2> QED
    BY <1>1, <1>5, <2>1, <2>9 DEF Agree
<1> QED
  BY <1>3, <1>4, <1>5 DEF Highs

\* A sum that is wrapped, of what was wrapped before.
LEMMA WrappedSum ==
  ASSUME NEW u \in Int, NEW b \in Int
  PROVE  wrap(wrap(u) + b) = (u + b) % 2^XLEN
<1>1. Register \in Nat /\ Register > 0
  BY SizesOf
<1>2. PICK q \in Int : u = wrap(u) + q * Register
  BY <1>1, Divided DEF wrap, Register
<1>3. wrap(u) \in Int
  BY <1>1, Divided DEF wrap, Register
<1> DEFINE v == wrap(u) + b
<1>4. u + b = v + q * Register /\ v \in Int
  BY <1>1, <1>2, <1>3
<1> HIDE DEF v
<1>5. (v + q * Register) % Register = v % Register
  BY <1>1, <1>4, MultiplesVanish
<1>6. (u + b) % Register = v % Register
  BY <1>4, <1>5
<1> QED
  BY <1>6 DEF v, wrap, Register

\* The shifts with addition, of registers and of words, and add.uw.
LEMMA ShiftAddsAgree ==
  ASSUME NEW a \in Values, NEW b \in Values, NEW n,
         NEW op \in ShiftAdds \cup WordShiftAdds \cup {"add.uw"}
  PROVE  Agree(op, a, b, n)
<1>1. /\ execute(op, a, b, n) = bitmanip(op, a, b, n)
      /\ oracle(op, a, b, n) = Others(op, a, b, n)
  <2>1. op \in OtherOps \ Highs
    BY DEF OtherOps, Highs, ShiftAdds, WordShiftAdds, Bitmanips
  <2> QED
    BY <2>1, DispatchOthers
<1>2. a \in Int /\ b \in Int /\ word(a) \in Int /\ word(a) = a % 2^WORD
  <2>1. WordSize \in Nat /\ WordSize > 0
    BY SizesOf
  <2> QED
    BY <2>1, ValuesAre, Divided DEF word, WordSize
<1>3. ASSUME NEW k \in {1, 2, 3}, NEW u \in Int
      PROVE  wrap(shift_left(u, k) + b) = (u * 2^k + b) % 2^XLEN
  <2>1. 2^1 = 2 /\ 2^2 = 4 /\ 2^3 = 8
    OBVIOUS
  <2>2. 2^k \in Int
    BY <2>1
  <2>3. u * 2^k \in Int
    BY <2>2
  <2> QED
    BY <1>2, <2>3, WrappedSum DEF shift_left
<1>4. CASE op \in ShiftAdds
  <2>1. ShiftAdd[op] \in {1, 2, 3}
    BY <1>4 DEF ShiftAdd, ShiftAdds
  <2>2. op \in DOMAIN ShiftAdd /\ op \notin DOMAIN WordShiftAdd
    BY <1>4, Kinds
  <2>3. /\ bitmanip(op, a, b, n) = wrap(shift_left(a, ShiftAdd[op]) + b)
        /\ Others(op, a, b, n) = a * 2^ShiftAdd[op] + b
    <3> USE Kinds DEF bitmanip, Others
    <3>1. CASE op = "sh1add"
      BY <2>2, <3>1, Zenon
    <3>2. CASE op = "sh2add"
      BY <2>2, <3>2, Zenon
    <3>3. CASE op = "sh3add"
      BY <2>2, <3>3, Zenon
    <3> QED
      BY <1>4, <3>1, <3>2, <3>3, Zenon DEF ShiftAdds
  <2> QED
    BY <1>1, <1>2, <1>3, <2>1, <2>2, <2>3 DEF Agree
<1>5. CASE op \in WordShiftAdds
  <2>1. WordShiftAdd[op] \in {1, 2, 3}
    BY <1>5 DEF WordShiftAdd, WordShiftAdds
  <2>2. op \notin DOMAIN ShiftAdd /\ op \in DOMAIN WordShiftAdd
    BY <1>5, Kinds
  <2>3. /\ bitmanip(op, a, b, n) = wrap(shift_left(word(a), WordShiftAdd[op]) + b)
        /\ Others(op, a, b, n) = (a % 2^WORD) * 2^WordShiftAdd[op] + b
    <3> USE Kinds DEF bitmanip, Others
    <3>1. CASE op = "sh1add.uw"
      BY <2>2, <3>1, Zenon
    <3>2. CASE op = "sh2add.uw"
      BY <2>2, <3>2, Zenon
    <3>3. CASE op = "sh3add.uw"
      BY <2>2, <3>3, Zenon
    <3> QED
      BY <1>5, <3>1, <3>2, <3>3, Zenon DEF WordShiftAdds
  <2> QED
    BY <1>1, <1>2, <1>3, <2>1, <2>2, <2>3 DEF Agree
<1>6. CASE op = "add.uw"
  <2>1. bitmanip("add.uw", a, b, n) = wrap(word(a) + b) /\ Others("add.uw", a, b, n) = (a % 2^WORD) + b
    BY Kinds, Zenon DEF bitmanip, Others, Bitmanips
  <2> QED
    BY <1>1, <1>2, <1>6, <2>1 DEF Agree, wrap
<1> QED
  BY <1>4, <1>5, <1>6

\* The place of a bit that an instruction names.
LEMMA ShiftAmount ==
  ASSUME NEW b \in Int
  PROVE  /\ b % XLEN \in 0 .. XLEN - 1 /\ b % WORD \in 0 .. WORD - 1
         /\ (b % XLEN) % XLEN = b % XLEN
<1>1. XLEN \in Nat /\ XLEN > 0 /\ WORD \in Nat /\ WORD > 0
  BY PowersOf
<1>2. b % XLEN \in Int /\ 0 <= b % XLEN /\ b % XLEN < XLEN /\ b % WORD \in Int /\ 0 <= b % WORD /\ b % WORD < WORD
  BY <1>1, Divided
<1> QED
  BY <1>1, <1>2, RemainderOfLess

\* Complements and single bits, whose bit is an operand's or the immediate's, and slli.uw.
LEMMA BitsAgree ==
  ASSUME NEW a \in Values, NEW b \in Values, NEW n \in 0 .. XLEN - 1,
         NEW op \in {"andn", "orn", "xnor", "bset", "bclr", "binv", "bext",
                     "bseti", "bclri", "binvi", "bexti", "slli.uw"}
  PROVE  Agree(op, a, b, n)
<1>1. /\ execute(op, a, b, n) = bitmanip(op, a, b, n)
      /\ oracle(op, a, b, n) = Others(op, a, b, n)
  <2>1. op \in OtherOps \ Highs
    BY DEF OtherOps, Highs, Bitmanips
  <2> QED
    BY <2>1, DispatchOthers
<1>2. \A v \in Values : v % 2^XLEN = v
  BY ValuesAre
<1>3. ASSUME NEW k \in 0 .. XLEN - 1
      PROVE  /\ BitOr(a, 2^k) % 2^XLEN = BitOr(a, 2^k)
             /\ BitAnd(a, not(2^k)) = Without(a, 2^k) % 2^XLEN
             /\ BitXor(a, 2^k) % 2^XLEN = BitXor(a, 2^k)
             /\ Bit(a, k) % 2^XLEN = Bit(a, k)
  <2>1. 2^k \in Values
    BY BitsOfPower
  <2>2. BitOr(a, 2^k) \in Values /\ BitXor(a, 2^k) \in Values
    BY <2>1, OperationsOnBits
  <2>3. BitAnd(a, not(2^k)) = Without(a, 2^k) /\ Without(a, 2^k) \in Values
    BY <2>1, WithoutBits
  <2>4. Bit(a, k) \in 0 .. XLEN
    BY BitOfValue, PowersOf
  <2> QED
    BY <1>2, <2>2, <2>3, <2>4, CountsFit
<1>4. b % XLEN \in 0 .. XLEN - 1
  BY ValuesAre, ShiftAmount
<1>5. CASE op \in {"bset", "bclr", "binv", "bext"}
  <2> DEFINE k == b % XLEN
  <2>1. /\ bitmanip("bset", a, b, n) = BitOr(a, 2^k) /\ Others("bset", a, b, n) = BitOr(a, 2^k)
        /\ bitmanip("bclr", a, b, n) = BitAnd(a, not(2^k)) /\ Others("bclr", a, b, n) = Without(a, 2^k)
        /\ bitmanip("binv", a, b, n) = BitXor(a, 2^k) /\ Others("binv", a, b, n) = BitXor(a, 2^k)
        /\ bitmanip("bext", a, b, n) = Bit(a, k) /\ Others("bext", a, b, n) = Bit(a, k)
    BY Kinds, Zenon DEF bitmanip, Others, BitOps, Bit, Bitmanips
  <2> HIDE DEF k
  <2>2. k \in 0 .. XLEN - 1
    BY <1>4 DEF k
  <2> QED
    BY <1>1, <1>3, <1>5, <2>1, <2>2 DEF Agree
<1>6. CASE op \in {"bseti", "bclri", "binvi", "bexti"}
  <2>1. /\ bitmanip("bseti", a, b, n) = BitOr(a, 2^n) /\ Others("bseti", a, b, n) = BitOr(a, 2^n)
        /\ bitmanip("bclri", a, b, n) = BitAnd(a, not(2^n)) /\ Others("bclri", a, b, n) = Without(a, 2^n)
        /\ bitmanip("binvi", a, b, n) = BitXor(a, 2^n) /\ Others("binvi", a, b, n) = BitXor(a, 2^n)
        /\ bitmanip("bexti", a, b, n) = Bit(a, n) /\ Others("bexti", a, b, n) = Bit(a, n)
    BY Kinds, Zenon DEF bitmanip, Others, BitOps, Bit, Bitmanips
  <2> QED
    BY <1>1, <1>3, <1>6, <2>1 DEF Agree
<1>7. CASE op = "andn"
  <2>1. bitmanip("andn", a, b, n) = BitAnd(a, not(b)) /\ Others("andn", a, b, n) = Without(a, b)
    BY Kinds, Zenon DEF bitmanip, Others, BitOps, Bit, Bitmanips
  <2> QED
    BY <1>1, <1>2, <1>7, <2>1, WithoutBits DEF Agree
<1>8. CASE op = "orn"
  <2>1. bitmanip("orn", a, b, n) = BitOr(a, not(b)) /\ Others("orn", a, b, n) = -1 - Without(b, a)
    BY Kinds, Zenon DEF bitmanip, Others, BitOps, Bit, Bitmanips
  <2>2. Without(b, a) \in Values
    BY WithoutBits
  <2> QED
    BY <1>1, <1>8, <2>1, <2>2, OrNot, WrappedNot DEF Agree
<1>9. CASE op = "xnor"
  <2>1. bitmanip("xnor", a, b, n) = BitXor(a, not(b)) /\ Others("xnor", a, b, n) = -1 - BitXor(a, b)
    BY Kinds, Zenon DEF bitmanip, Others, BitOps, Bit, Bitmanips
  <2>2. BitXor(a, b) \in Values
    BY OperationsOnBits
  <2> QED
    BY <1>1, <1>9, <2>1, <2>2, XorNot, WrappedNot DEF Agree
<1>10. CASE op = "slli.uw"
  <2>1. bitmanip("slli.uw", a, b, n) = shift_left(word(a), n) /\ Others("slli.uw", a, b, n) = (a % 2^WORD) * 2^n
    BY Kinds, Zenon DEF bitmanip, Others, BitOps, Bit, Bitmanips
  <2> QED
    BY <1>1, <1>10, <2>1 DEF Agree, shift_left, word, wrap
<1> QED
  BY <1>5, <1>6, <1>7, <1>8, <1>9, <1>10

\* The least and the greatest of two numbers.
LEMMA LeastAndGreatest ==
  ASSUME NEW i \in Int, NEW j \in Int
  PROVE  /\ Min({i, j}) = IF i < j THEN i ELSE j
         /\ Max({i, j}) = IF i > j THEN i ELSE j
<1>1. Min({i, j}) = IF i < j THEN i ELSE j
  <2> DEFINE m == IF i < j THEN i ELSE j
  <2>1. m \in {i, j} /\ \A u \in {i, j} : m <= u
    OBVIOUS
  <2>2. \A v \in {i, j} : (\A u \in {i, j} : v <= u) => v = m
    OBVIOUS
  <2> HIDE DEF m
  <2>3. Min({i, j}) = m
    BY <2>1, <2>2, Zenon DEF Min
  <2> QED
    BY <2>3 DEF m
<1>2. Max({i, j}) = IF i > j THEN i ELSE j
  <2> DEFINE m == IF i > j THEN i ELSE j
  <2>1. m \in {i, j} /\ \A u \in {i, j} : m >= u
    OBVIOUS
  <2>2. \A v \in {i, j} : (\A u \in {i, j} : v >= u) => v = m
    OBVIOUS
  <2> HIDE DEF m
  <2>3. Max({i, j}) = m
    BY <2>1, <2>2, Zenon DEF Max
  <2> QED
    BY <2>3 DEF m
<1> QED
  BY <1>1, <1>2

\* min, max, minu and maxu.
LEMMA MinMaxAgree ==
  ASSUME NEW a \in Values, NEW b \in Values, NEW n, NEW op \in {"min", "max", "minu", "maxu"}
  PROVE  Agree(op, a, b, n)
<1> DEFINE sa == as_signed(a, XLEN)
           sb == as_signed(b, XLEN)
<1>1. /\ execute(op, a, b, n) = bitmanip(op, a, b, n)
      /\ oracle(op, a, b, n) = Others(op, a, b, n)
  <2>1. op \in OtherOps \ Highs
    BY DEF OtherOps, Highs, Bitmanips
  <2> QED
    BY <2>1, DispatchOthers
<1>2. /\ a \in Int /\ b \in Int /\ a % 2^XLEN = a /\ b % 2^XLEN = b
  BY ValuesAre
<1>3. /\ sa \in Int /\ sb \in Int /\ sa % 2^XLEN = a /\ sb % 2^XLEN = b
      /\ signed(a, XLEN) = sa /\ signed(b, XLEN) = sb
  BY SignedRegister
<1>4. /\ bitmanip("min", a, b, n) = IF sa < sb THEN a ELSE b
      /\ bitmanip("max", a, b, n) = IF sa > sb THEN a ELSE b
      /\ bitmanip("minu", a, b, n) = IF a < b THEN a ELSE b
      /\ bitmanip("maxu", a, b, n) = IF a > b THEN a ELSE b
      /\ Others("min", a, b, n) = Min({signed(a, XLEN), signed(b, XLEN)})
      /\ Others("max", a, b, n) = Max({signed(a, XLEN), signed(b, XLEN)})
      /\ Others("minu", a, b, n) = Min({a, b})
      /\ Others("maxu", a, b, n) = Max({a, b})
  BY Kinds, Zenon DEF bitmanip, Others, Bitmanips
<1> HIDE DEF sa, sb
<1>5. /\ Min({sa, sb}) = IF sa < sb THEN sa ELSE sb
      /\ Max({sa, sb}) = IF sa > sb THEN sa ELSE sb
      /\ Min({a, b}) = IF a < b THEN a ELSE b
      /\ Max({a, b}) = IF a > b THEN a ELSE b
  BY <1>2, <1>3, LeastAndGreatest
<1> QED
  BY <1>1, <1>2, <1>3, <1>4, <1>5 DEF Agree

\* What a rotation gives is a value of its width.
LEMMA RotationType ==
  ASSUME NEW w \in {WORD, XLEN}, NEW u \in Int, 0 <= u, u < 2^w, NEW n \in 0 .. w - 1
  PROVE  /\ rotate_right(u, n, w) \in Int /\ 0 <= rotate_right(u, n, w) /\ rotate_right(u, n, w) < 2^w
         /\ rotate_left(u, n, w) \in Int /\ 0 <= rotate_left(u, n, w) /\ rotate_left(u, n, w) < 2^w
<1>1. WORD \in Nat /\ XLEN \in Nat /\ WORD <= XLEN
  BY PowersOf
<1>2. n \in 0 .. XLEN /\ w - n \in 0 .. XLEN /\ w \in 0 .. XLEN
  BY <1>1
<1>3. 2^n \in Nat /\ 2^n > 0 /\ 2^(w - n) \in Nat /\ 2^(w - n) > 0 /\ 2^w \in Nat /\ 2^w > 0
  BY <1>2, PowersOf
<1>4. u \div 2^n \in Int /\ u \div 2^(w - n) \in Int
  BY <1>3, Divided
<1> DEFINE r == u \div 2^n + u * 2^(w - n)
           l == u * 2^n + u \div 2^(w - n)
<1>5. r \in Int /\ l \in Int
  BY <1>3, <1>4
<1>6. rotate_right(u, n, w) = r % 2^w /\ rotate_left(u, n, w) = l % 2^w
  BY DEF rotate_right, rotate_left
<1> HIDE DEF r, l
<1> QED
  BY <1>3, <1>5, <1>6, Divided

\* The oracle's rotations are the executor's.
LEMMA RotatesAre ==
  ASSUME NEW w \in {WORD, XLEN}, NEW a \in Values, NEW b \in Int
  PROVE  LET u == a % 2^w
             n == b % w
         IN /\ rotate(a, b, w, FALSE) = rotate_right(u, n, w)
            /\ rotate(a, b, w, TRUE) = rotate_left(u, n, w)
<1> DEFINE u == a % 2^w
           n == b % w
           k == (-n) % w
<1>1. WORD \in Nat /\ XLEN \in Nat /\ w \in 0 .. XLEN /\ w > 0
  BY PowersOf
<1>2. u \in Int /\ 0 <= u /\ u < 2^w
  BY <1>1, PowersOf, ValuesAre, Divided
<1>3. n \in 0 .. w - 1
  BY <1>1, Divided
<1>4. /\ rotate(a, b, w, FALSE) = BitOr(u \div 2^n, u * 2^((w - n) % w)) % 2^w
      /\ rotate(a, b, w, TRUE) = BitOr(u \div 2^k, u * 2^((w - k) % w)) % 2^w
  BY DEF rotate
<1> HIDE DEF u, n
<1>5. k \in 0 .. w - 1 /\ rotate_right(u, k, w) = rotate_left(u, n, w)
  BY <1>2, <1>3, Rotations
<1> HIDE DEF k
<1>6. /\ BitOr(u \div 2^n, u * 2^((w - n) % w)) % 2^w = rotate_right(u, n, w)
      /\ BitOr(u \div 2^k, u * 2^((w - k) % w)) % 2^w = rotate_right(u, k, w)
  BY <1>2, <1>3, <1>5, Rotations
<1>7. rotate(a, b, w, FALSE) = rotate_right(u, n, w) /\ rotate(a, b, w, TRUE) = rotate_left(u, n, w)
  BY <1>4, <1>5, <1>6
<1> QED
  BY <1>7 DEF u, n

\* Rotations of registers and of words; the immediate of a word's is below its width.
LEMMA RotatesAgree ==
  ASSUME NEW a \in Values, NEW b \in Values, NEW n \in 0 .. XLEN - 1,
         NEW op \in {"rol", "ror", "rori", "rolw", "rorw", "roriw"},
         op = "roriw" => n < WORD
  PROVE  Agree(op, a, b, n)
<1> DEFINE u == word(a)
           i == b % XLEN
           j == b % WORD
<1>0. WORD \in Nat /\ XLEN \in Nat /\ WORD > 0 /\ XLEN > 0
  BY PowersOf
<1>1. a \in Int /\ b \in Int /\ a % 2^XLEN = a /\ \A v \in Values : v % 2^XLEN = v
  BY ValuesAre
<1>2. execute(op, a, b, n) = bitmanip(op, a, b, n)
  BY DispatchBits DEF Bitmanips
<1>3. i \in 0 .. XLEN - 1 /\ j \in 0 .. WORD - 1
  BY <1>1, ShiftAmount
<1>4. /\ rotate(a, b, XLEN, FALSE) = rotate_right(a, i, XLEN)
      /\ rotate(a, b, XLEN, TRUE) = rotate_left(a, i, XLEN)
  BY <1>1, RotatesAre
<1>5. /\ rotate(a, b, WORD, FALSE) = rotate_right(u, j, WORD)
      /\ rotate(a, b, WORD, TRUE) = rotate_left(u, j, WORD)
  BY <1>1, RotatesAre DEF word
<1>6. rotate(a, n, XLEN, FALSE) = rotate_right(a, n, XLEN)
  <2>1. n % XLEN = n
    BY <1>0, RemainderOfLess
  <2>2. n \in Int
    BY <1>0
  <2>3. rotate(a, n, XLEN, FALSE) = rotate_right(a % 2^XLEN, n % XLEN, XLEN)
    BY <2>2, RotatesAre
  <2> QED
    BY <1>1, <2>1, <2>3
<1>7. n < WORD => rotate(a, n, WORD, FALSE) = rotate_right(u, n, WORD)
  <2>1. n < WORD => n % WORD = n
    BY <1>0, RemainderOfLess
  <2>2. n \in Int
    BY <1>0
  <2>3. rotate(a, n, WORD, FALSE) = rotate_right(u, n % WORD, WORD)
    BY <2>2, RotatesAre DEF word
  <2> QED
    BY <2>1, <2>3
<1>8. u \in Int /\ 0 <= u /\ u < 2^WORD
  BY <1>0, <1>1, PowersOf, Divided DEF word
<1>9. /\ bitmanip("rol", a, b, n) = rotate_left(a, i, XLEN)
      /\ bitmanip("ror", a, b, n) = rotate_right(a, i, XLEN)
      /\ bitmanip("rori", a, b, n) = rotate_right(a, n, XLEN)
      /\ bitmanip("rolw", a, b, n) = sext(rotate_left(u, j, WORD), WORD)
      /\ bitmanip("rorw", a, b, n) = sext(rotate_right(u, j, WORD), WORD)
      /\ bitmanip("roriw", a, b, n) = sext(rotate_right(u, n, WORD), WORD)
  BY Kinds, Zenon DEF bitmanip, Bitmanips
<1> HIDE DEF u, i, j
<1>10. ASSUME NEW k \in 0 .. XLEN - 1
       PROVE  rotate_right(a, k, XLEN) % 2^XLEN = rotate_right(a, k, XLEN)
              /\ rotate_left(a, k, XLEN) % 2^XLEN = rotate_left(a, k, XLEN)
  <2>1. 0 <= a /\ a < 2^XLEN
    BY ValuesAre DEF Register
  <2> QED
    BY <1>1, <2>1, RotationType, InValues DEF Register
<1>11. ASSUME NEW k \in 0 .. WORD - 1
       PROVE  /\ signed(rotate_right(u, k, WORD), WORD) % 2^XLEN = sext(rotate_right(u, k, WORD), WORD)
              /\ signed(rotate_left(u, k, WORD), WORD) % 2^XLEN = sext(rotate_left(u, k, WORD), WORD)
  BY <1>8, RotationType, SignedWordWrapped
<1>12. CASE op \in {"rol", "ror"}
  <2>1. oracle(op, a, b, n) = Ranged(op, a, b, XLEN)
    BY <1>12, OracleRanged DEF RangedOps
  <2>2. /\ Ranged("rol", a, b, XLEN) = rotate(a, b, XLEN, TRUE)
        /\ Ranged("ror", a, b, XLEN) = rotate(a, b, XLEN, FALSE)
    BY Zenon DEF Ranged
  <2> QED
    BY <1>2, <1>3, <1>4, <1>9, <1>10, <1>12, <2>1, <2>2 DEF Agree
<1>13. CASE op \in {"rolw", "rorw"}
  <2>1. oracle(op, a, b, n) = signed(Ranged(RangedWords[op], a, b, WORD), WORD)
    BY <1>13, OracleWords, Domains
  <2>2. /\ Ranged("rol", a, b, WORD) = rotate(a, b, WORD, TRUE)
        /\ Ranged("ror", a, b, WORD) = rotate(a, b, WORD, FALSE)
    BY Zenon DEF Ranged
  <2>3. RangedWords["rolw"] = "rol" /\ RangedWords["rorw"] = "ror"
    BY DEF RangedWords
  <2> QED
    BY <1>2, <1>3, <1>5, <1>9, <1>11, <1>13, <2>1, <2>2, <2>3 DEF Agree
<1>14. CASE op = "rori"
  <2>1. oracle(op, a, b, n) = Others(op, a, b, n)
    BY <1>14, DispatchOthers DEF OtherOps, Bitmanips, Highs
  <2>2. Others("rori", a, b, n) = rotate(a, n, XLEN, FALSE)
    BY Kinds, Zenon DEF Others, Bitmanips
  <2> QED
    BY <1>2, <1>6, <1>9, <1>10, <1>14, <2>1, <2>2 DEF Agree
<1>15. CASE op = "roriw"
  <2>1. oracle(op, a, b, n) = Others(op, a, b, n)
    BY <1>15, DispatchOthers DEF OtherOps, Bitmanips, Highs
  <2>2. Others("roriw", a, b, n) = signed(rotate(a, n, WORD, FALSE), WORD)
    BY Kinds, Zenon DEF Others, Bitmanips
  <2>3. n \in 0 .. WORD - 1
    BY <1>0, <1>15
  <2> QED
    BY <1>2, <1>7, <1>9, <1>11, <1>15, <2>1, <2>2, <2>3 DEF Agree
<1> QED
  BY <1>12, <1>13, <1>14, <1>15

\* The zeros below the lowest bit, found by the executor and by the oracle.
LEMMA ZerosCounted ==
  ASSUME NEW w \in {WORD, XLEN}, NEW a \in Values
  PROVE  /\ trailing_zeros(a % 2^w, w) = Counted("ctz", a, w)
         /\ trailing_zeros(a % 2^w, w) \in 0 .. XLEN
<1> DEFINE u == a % 2^w
<1>0. WORD \in Nat /\ XLEN \in Nat /\ w \in 0 .. XLEN /\ w <= XLEN /\ w > 0 /\ w \in Int
  BY PowersOf
<1>1. a \in Int /\ u \in Int /\ 2^w \in Nat /\ 2^w > 0
  BY <1>0, ValuesAre, PowersOf, Divided
<1>2. u % 2^w = u
  BY <1>0, <1>1, LowOfLow
<1>3. Counted("ctz", a, w) = IF u # 0 THEN bit_length(BitAnd(a, 2^XLEN - a)) - 1 ELSE w
  BY Zenon DEF Counted
<1>4. CASE u = 0
  <2>1. trailing_zeros(u, w) = w
    BY <1>0, <1>1, <1>2, <1>4, TrailingZeros
  <2> QED
    BY <1>0, <1>3, <1>4, <2>1
<1>5. CASE u # 0
  <2>1. PICK k \in 0 .. w - 1 : a % 2^k = 0 /\ Bit(a, k) = 1 /\ a % 2^(k + 1) # 0
    BY <1>0, <1>1, <1>5, LowestBit
  <2>2. k \in 0 .. XLEN - 1 /\ k \in 0 .. XLEN /\ k + 1 \in 0 .. XLEN /\ k <= w /\ k + 1 <= w
    BY <1>0
  <2>3. u % 2^k = a % 2^k /\ u % 2^(k + 1) = a % 2^(k + 1)
    BY <1>0, <1>1, <2>2, LowOfLow
  <2> HIDE DEF u
  <2>4. trailing_zeros(u, w) = k
    BY <1>0, <1>1, <2>1, <2>3, TrailingZeros
  <2>5. BitAnd(a, 2^XLEN - a) = 2^k
    BY <2>1, <2>2, LowestBitAlone
  <2>6. bit_length(2^k) = k + 1
    BY <2>2, BitLengthOfPower
  <2> QED
    BY <1>0, <1>3, <1>5, <2>2, <2>4, <2>5, <2>6 DEF u
<1> QED
  BY <1>4, <1>5

\* Leading zeros, trailing zeros and ones, of registers and of words.
LEMMA CountsAgree ==
  ASSUME NEW a \in Values, NEW b, NEW n,
         NEW op \in {"clz", "ctz", "cpop", "clzw", "ctzw", "cpopw"}
  PROVE  Agree(op, a, b, n)
<1>0. /\ WORD \in 0 .. XLEN /\ XLEN \in 0 .. XLEN /\ \A k \in 0 .. XLEN : k % 2^XLEN = k
  <2>1. \A k \in 0 .. XLEN : k % 2^XLEN = k
    BY CountsFit
  <2>2. XLEN \in Nat /\ WORD \in Nat /\ WORD < XLEN
    BY PowersOf
  <2> QED
    BY <2>1, <2>2
<1>1. a \in Int /\ a % 2^XLEN = a /\ a < 2^XLEN
  BY ValuesAre
<1>2. word(a) \in Values /\ word(a) < 2^WORD /\ word(a) = a % 2^WORD
  <2>1. 2^WORD \in Nat /\ 2^WORD > 0 /\ 2^WORD <= Register
    BY <1>0, PowersOf DEF Register
  <2>2. word(a) \in Int /\ 0 <= word(a) /\ word(a) < 2^WORD
    BY <1>1, <2>1, Divided DEF word
  <2> QED
    BY <2>1, <2>2, InValues, SizesOf DEF word
<1>3. execute(op, a, b, n) = bitmanip(op, a, b, n)
  BY DispatchBits DEF Bitmanips
<1>4. /\ bitmanip("clz", a, b, n) = leading_zeros(a, XLEN)
      /\ bitmanip("ctz", a, b, n) = trailing_zeros(a, XLEN)
      /\ bitmanip("cpop", a, b, n) = count_ones(a)
      /\ bitmanip("clzw", a, b, n) = leading_zeros(word(a), WORD)
      /\ bitmanip("ctzw", a, b, n) = trailing_zeros(word(a), WORD)
      /\ bitmanip("cpopw", a, b, n) = count_ones(word(a))
  BY Kinds, Zenon DEF bitmanip, Bitmanips
<1>5. \A w : /\ Counted("clz", a, w) = w - bit_length(a % 2^w)
             /\ Counted("cpop", a, w) = Cardinality({i \in 0 .. w - 1 : (a \div 2^i) % 2 = 1})
  BY Zenon DEF Counted
<1>6. /\ op \in {"clz", "ctz", "cpop"} => oracle(op, a, b, n) = Counted(op, a, XLEN)
      /\ op \in {"clzw", "ctzw", "cpopw"} => oracle(op, a, b, n) = Counted(CountedWords[op], a, WORD)
  BY Domains, OracleCounts, OracleWordCounts
<1>7. CountedWords["clzw"] = "clz" /\ CountedWords["ctzw"] = "ctz" /\ CountedWords["cpopw"] = "cpop"
  BY DEF CountedWords
<1>8. CASE op \in {"clz", "clzw"}
  <2>1. /\ leading_zeros(a, XLEN) = XLEN - bit_length(a) /\ leading_zeros(a, XLEN) \in 0 .. XLEN
        /\ leading_zeros(word(a), WORD) = WORD - bit_length(word(a))
        /\ leading_zeros(word(a), WORD) \in 0 .. XLEN
    BY <1>0, <1>1, <1>2, LeadingZeros
  <2> QED
    BY <1>0, <1>1, <1>2, <1>3, <1>4, <1>5, <1>6, <1>7, <1>8, <2>1 DEF Agree
<1>9. CASE op \in {"ctz", "ctzw"}
  <2>1. /\ trailing_zeros(a % 2^XLEN, XLEN) = Counted("ctz", a, XLEN)
        /\ trailing_zeros(a % 2^XLEN, XLEN) \in 0 .. XLEN
        /\ trailing_zeros(a % 2^WORD, WORD) = Counted("ctz", a, WORD)
        /\ trailing_zeros(a % 2^WORD, WORD) \in 0 .. XLEN
    BY ZerosCounted
  <2> QED
    BY <1>0, <1>1, <1>2, <1>3, <1>4, <1>6, <1>7, <1>9, <2>1 DEF Agree
<1>10. CASE op \in {"cpop", "cpopw"}
  <2>1. /\ count_ones(a) = Counted("cpop", a, XLEN) /\ count_ones(a) \in 0 .. XLEN
        /\ count_ones(word(a)) = Counted("cpop", a, WORD) /\ count_ones(word(a)) \in 0 .. XLEN
    BY <1>5, PopulationOf
  <2> QED
    BY <1>0, <1>3, <1>4, <1>6, <1>7, <1>10, <2>1 DEF Agree
<1> QED
  BY <1>8, <1>9, <1>10

\* Extensions of bytes and halves, and what is done byte by byte.
LEMMA ExtensionsAgree ==
  ASSUME NEW a \in Values, NEW b, NEW n, NEW op \in OtherUnaries
  PROVE  Agree(op, a, b, n)
<1>0. op \in {"sext.b", "sext.h", "zext.h", "rev8", "orc.b"}
  BY DEF OtherUnaries
<1>1. /\ execute(op, a, b, n) = bitmanip(op, a, b, n)
      /\ oracle(op, a, b, n) = Others(op, a, b, n)
  <2>1. op \in OtherOps \ Highs
    BY <1>0 DEF OtherOps, Highs, Bitmanips
  <2> QED
    BY <2>1, DispatchOthers
<1>2. a \in Int /\ a % 2^XLEN = a /\ \A v \in Values : v % 2^XLEN = v
  BY ValuesAre
<1>3. BYTE \in 1 .. XLEN /\ HALF \in 1 .. XLEN /\ HALF \in 0 .. XLEN /\ XLEN \in 0 .. XLEN /\ HALF <= XLEN
  BY PowersOf, WidthAssumption
<1>4. CASE op \in {"sext.b", "sext.h"}
  <2>1. /\ bitmanip("sext.b", a, b, n) = sext(a, BYTE) /\ Others("sext.b", a, b, n) = signed(a, BYTE)
        /\ bitmanip("sext.h", a, b, n) = sext(a, HALF) /\ Others("sext.h", a, b, n) = signed(a, HALF)
    BY Kinds, Zenon DEF bitmanip, Others, Bitmanips
  <2>2. signed(a, BYTE) = as_signed(a, BYTE) /\ signed(a, HALF) = as_signed(a, HALF)
    BY <1>2, <1>3, SignedOf
  <2> QED
    BY <1>1, <1>4, <2>1, <2>2 DEF Agree, sext, wrap
<1>5. CASE op = "zext.h"
  <2>1. bitmanip("zext.h", a, b, n) = a % 2^HALF /\ Others("zext.h", a, b, n) = a % 2^HALF
    BY Kinds, Zenon DEF bitmanip, Others, Bitmanips
  <2>2. 2^HALF \in Nat /\ 2^HALF > 0 /\ 2^HALF <= Register /\ Register \in Nat
    BY <1>3, PowersOf, SizesOf DEF Register
  <2>3. a % 2^HALF \in Int /\ 0 <= a % 2^HALF /\ a % 2^HALF < 2^HALF
    BY <1>2, <2>2, Divided
  <2>4. a % 2^HALF \in Values
    BY <2>2, <2>3, InValues
  <2> QED
    BY <1>1, <1>2, <1>5, <2>1, <2>4 DEF Agree
<1>6. CASE op = "rev8"
  <2> DEFINE f == [k \in ByteShifts |-> (a \div 2^(XLEN - BYTE - k)) % 2^BYTE]
  <2>1. bitmanip("rev8", a, b, n) = swap_bytes(a) /\ Others("rev8", a, b, n) = of_bytes(f)
    BY Kinds, Zenon DEF bitmanip, Others, Bitmanips
  <2>2. swap_bytes(a) = of_bytes(f) /\ of_bytes(f) \in Values
    BY SwappedBytes
  <2> HIDE DEF f
  <2> QED
    BY <1>1, <1>2, <1>6, <2>1, <2>2 DEF Agree
<1>7. CASE op = "orc.b"
  <2> DEFINE f == [k \in ByteShifts |-> IF byte_at(a, k) # 0 THEN 2^BYTE - 1 ELSE 0]
  <2>1. bitmanip("orc.b", a, b, n) = of_bytes(f)
    BY Kinds, Zenon DEF bitmanip, Bitmanips
  <2>2. Others("orc.b", a, b, n) = of_bytes(f)
    BY Kinds, Zenon DEF Others, Bitmanips, byte_at
  <2>3. \A k \in ByteShifts : f[k] \in 0 .. 2^BYTE - 1
    <3>1. 2^BYTE \in Nat /\ 2^BYTE > 0
      BY BytesAre
    <3> QED
      BY <3>1
  <2> HIDE DEF f
  <2>4. of_bytes(f) \in Values
    BY <2>3, OfBytesType
  <2> QED
    BY <1>1, <1>2, <1>7, <2>1, <2>2, <2>4 DEF Agree
<1> QED
  BY <1>0, <1>4, <1>5, <1>6, <1>7

\* The instructions of the test, and the immediates they come with.
LEMMA GroupsAre ==
  ASSUME NEW g \in Groups
  PROVE  /\ g.shift \in 0 .. XLEN - 1
         /\ g.name = "roriw" => g.shift < WORD
         /\ g.name \notin Immediates \cup {"roriw"} => g.shift = 0
         /\ g.name \in Divisions \cup {"rol", "ror"} \cup WordDivisions \cup {"rolw", "rorw"} \cup OtherRegs
                       \cup {"clz", "ctz", "cpop", "clzw", "ctzw", "cpopw"} \cup OtherUnaries
                       \cup Immediates \cup {"roriw"}
<1>1. XLEN \in Nat /\ WORD \in Nat /\ XLEN > 0 /\ WORD < XLEN
  BY PowersOf
<1>2. CASE g \in {[name |-> op, form |-> "reg", shift |-> 0] :
                    op \in RangedOps \cup DOMAIN RangedWords \cup OtherRegs}
  <2>1. PICK op \in RangedOps \cup DOMAIN RangedWords \cup OtherRegs :
          g = [name |-> op, form |-> "reg", shift |-> 0]
    BY <1>2
  <2>2. op \notin {"roriw"}
    BY <2>1, Domains DEF OtherRegs, Divisions, WordDivisions, ShiftAdds, WordShiftAdds
  <2> QED
    BY <1>1, <2>1, <2>2, Domains
<1>3. CASE g \in {[name |-> op, form |-> "unary", shift |-> 0] :
                    op \in {"clz", "ctz", "cpop"} \cup DOMAIN CountedWords \cup OtherUnaries}
  <2>1. PICK op \in {"clz", "ctz", "cpop"} \cup DOMAIN CountedWords \cup OtherUnaries :
          g = [name |-> op, form |-> "unary", shift |-> 0]
    BY <1>3
  <2>2. op \notin {"roriw"}
    BY <2>1, Domains DEF OtherUnaries
  <2> QED
    BY <1>1, <2>1, <2>2, Domains
<1>4. CASE g \in {[name |-> op, form |-> "imm", shift |-> n] : op \in Immediates, n \in 0 .. XLEN - 1}
  <2>1. PICK op \in Immediates, n \in 0 .. XLEN - 1 : g = [name |-> op, form |-> "imm", shift |-> n]
    BY <1>4
  <2>2. op # "roriw"
    BY DEF Immediates
  <2> QED
    BY <1>1, <2>1, <2>2
<1>5. CASE g \in {[name |-> "roriw", form |-> "imm", shift |-> n] : n \in 0 .. WORD - 1}
  <2>1. PICK n \in 0 .. WORD - 1 : g = [name |-> "roriw", form |-> "imm", shift |-> n]
    BY <1>5
  <2> QED
    BY <1>1, <2>1
<1> QED
  BY <1>2, <1>3, <1>4, <1>5 DEF Groups

\* Every instruction of the test, by the groups above.
LEMMA EveryGroupAgrees ==
  ASSUME NEW g \in Groups, NEW a \in Values, NEW b \in Values
  PROVE  Agree(g.name, a, b, g.shift)
<1> DEFINE op == g.name
           n == g.shift
<1> SUFFICES Agree(op, a, b, n)
  OBVIOUS
<1>1. /\ n \in 0 .. XLEN - 1
      /\ op = "roriw" => n < WORD
      /\ op \in Divisions \cup {"rol", "ror"} \cup WordDivisions \cup {"rolw", "rorw"} \cup OtherRegs
                \cup {"clz", "ctz", "cpop", "clzw", "ctzw", "cpopw"} \cup OtherUnaries
                \cup Immediates \cup {"roriw"}
  BY GroupsAre
<1> HIDE DEF op, n
<1>2. OtherRegs = Highs \cup {"add.uw", "andn", "orn", "xnor", "min", "max", "minu", "maxu",
                              "bset", "bclr", "binv", "bext"} \cup ShiftAdds \cup WordShiftAdds
  BY Domains DEF OtherRegs, Highs
<1>3. CASE op \in Divisions
  BY <1>3, DivisionsAgree
<1>4. CASE op \in WordDivisions
  BY <1>4, WordDivisionsAgree
<1>5. CASE op \in Highs
  BY <1>5, HighsAgree
<1>6. CASE op \in ShiftAdds \cup WordShiftAdds \cup {"add.uw"}
  BY <1>6, ShiftAddsAgree
<1>7. CASE op \in {"andn", "orn", "xnor", "bset", "bclr", "binv", "bext",
                   "bseti", "bclri", "binvi", "bexti", "slli.uw"}
  BY <1>1, <1>7, BitsAgree
<1>8. CASE op \in {"min", "max", "minu", "maxu"}
  BY <1>8, MinMaxAgree
<1>9. CASE op \in {"rol", "ror", "rori", "rolw", "rorw", "roriw"}
  BY <1>1, <1>9, RotatesAgree
<1>10. CASE op \in {"clz", "ctz", "cpop", "clzw", "ctzw", "cpopw"}
  BY <1>10, CountsAgree
<1>11. CASE op \in OtherUnaries
  BY <1>11, ExtensionsAgree
<1> QED
  BY <1>1, <1>2, <1>3, <1>4, <1>5, <1>6, <1>7, <1>8, <1>9, <1>10, <1>11 DEF Immediates

\* What either executor computes for an instruction of the test is what the oracle does.
LEMMA EveryResultAgrees ==
  ASSUME NEW g \in Groups, NEW a \in Values, NEW b \in Values
  PROVE  Result(g.name, a, b, g.shift) = oracle(g.name, a, b, g.shift) % 2^XLEN
<1>1. execute(g.name, a, b, g.shift) = oracle(g.name, a, b, g.shift) % 2^XLEN
  BY EveryGroupAgrees DEF Agree
<1>2. CASE g.name \in FastOps
  <2>1. g.shift = 0
    <3>1. FastOps \cap (Immediates \cup {"roriw"}) = {}
      BY FastCases DEF BaseOps, WordOps, Immediates
    <3> QED
      BY <1>2, <3>1, GroupsAre
  <2>2. execute_decoded(g.name, a, b) = execute(g.name, a, b, 0)
    BY <1>2, ValuesAre, ExecutorsAgree
  <2> QED
    BY <1>1, <1>2, <2>1, <2>2 DEF Result
<1>3. CASE g.name \notin FastOps
  BY <1>1, <1>3 DEF Result
<1> QED
  BY <1>2, <1>3

-----------------------------------------------------------------------------
(* The script and the guest *)

RegisterNames == {"zero", "t0", "t1", "t2", "t3"}

\* Vectors compared and left add up; the guest leaves its loop only when none is left, and
\* the script passes it only on what it then reports.
ScriptInv ==
  /\ s0 \in Nat /\ s1 \in Nat /\ s0 + s1 = Count
  /\ DOMAIN x = RegisterNames
  /\ pc \in {"load", "execute", "compare"} => s1 > 0
  /\ pc = "execute" => x["t0"] \in Values /\ x["t1"] \in Values
  /\ pc = "exit" => s1 = 0
  /\ pc # "spin" => tohost = 0
  /\ tohost = 1 => s1 = 0
  /\ command = "passed" => tohost = 1

\* There are vectors, and every one is a pair of register values.
LEMMA VectorsAre ==
  /\ Count \in Nat /\ Count > 0
  /\ \A k \in Nat : k < Count => Pair(k)[1] \in Values /\ Pair(k)[2] \in Values
<1> DEFINE L == Len(Edges)
           S == L * L
           R == Len(RandomPairs)
<1>1. /\ L \in Nat /\ L > 0 /\ R \in Nat
      /\ \A i \in 1 .. L : Edges[i] \in Values
      /\ \A i \in 1 .. R : RandomPairs[i] \in Values \X Values
  BY VectorsAssumption
<1>2. S \in Nat /\ S > 0
  <2> HIDE DEF L
  <2> QED
    BY <1>1
<1>3. ASSUME NEW k \in Nat, k < Count PROVE Pair(k)[1] \in Values /\ Pair(k)[2] \in Values
  <2>1. CASE k < S
    <3>1. k \div L \in Int /\ 0 <= k \div L /\ k \div L < L /\ k % L \in Int /\ 0 <= k % L /\ k % L < L
      <4> DEFINE q == k \div L
                 r == k % L
      <4> HIDE DEF L
      <4>1. q \in Int /\ r \in Int /\ 0 <= r /\ r < L /\ k = r + q * L
        BY <1>1, Divided
      <4> HIDE DEF q, r
      <4>2. 0 <= q
        <5> SUFFICES ASSUME q <= -1 PROVE FALSE
          BY <4>1
        <5>1. q * L <= (-1) * L
          BY <1>1, <4>1
        <5> QED
          BY <1>1, <4>1, <5>1
      <4>3. q < L
        <5> SUFFICES ASSUME q >= L PROVE FALSE
          BY <1>1, <4>1
        <5>1. q * L >= L * L
          BY <1>1, <4>1
        <5> QED
          BY <1>1, <2>1, <4>1, <5>1
      <4> QED
        BY <4>1, <4>2, <4>3 DEF q, r
    <3>2. Pair(k) = <<Edges[k \div L + 1], Edges[(k % L) + 1]>>
      BY <2>1 DEF Pair
    <3>3. k \div L + 1 \in 1 .. L /\ (k % L) + 1 \in 1 .. L
      BY <1>1, <3>1
    <3> QED
      BY <1>1, <3>2, <3>3
  <2>2. CASE ~(k < S)
    <3>1. Pair(k) = RandomPairs[k - S + 1]
      BY <2>2 DEF Pair
    <3>2. Count = S + R
      BY DEF Count
    <3> HIDE DEF S, R
    <3>3. k - S + 1 \in 1 .. R
      BY <1>1, <1>2, <1>3, <2>2, <3>2
    <3>4. RandomPairs[k - S + 1] \in Values \X Values
      BY <1>1, <3>3 DEF R
    <3> QED
      BY <3>1, <3>4
  <2> QED
    BY <2>1, <2>2
<1>4. Count = S + R
  BY DEF Count
<1> HIDE DEF S, R
<1> QED
  BY <1>1, <1>2, <1>3, <1>4

LEMMA ScriptInitInv == ScriptInit => ScriptInv
BY VectorsAre DEF ScriptInit, ScriptInv, RegisterNames

LEMMA ScriptStepInv == ScriptInv /\ [ScriptNext]_scriptVars => ScriptInv'
<1> SUFFICES ASSUME ScriptInv, [ScriptNext]_scriptVars PROVE ScriptInv'
  OBVIOUS
<1>0. Count \in Nat /\ Count' = Count
  BY VectorsAre DEF Count
<1>1. CASE RunSpike
  BY <1>0, <1>1 DEF ScriptInv, RunSpike
<1>2. CASE LoadVector
  <2>1. s0 < Count /\ s0 \in Nat
    BY <1>0, <1>2 DEF ScriptInv, LoadVector
  <2>2. Pair(s0)[1] \in Values /\ Pair(s0)[2] \in Values
    BY <2>1, VectorsAre
  <2>3. x' = [x EXCEPT !["t0"] = Pair(s0)[1], !["t1"] = Pair(s0)[2],
                        !["t3"] = Expected(test, Pair(s0)[1], Pair(s0)[2])]
    BY <1>2, Zenon DEF LoadVector
  <2>4. DOMAIN x' = RegisterNames /\ x'["t0"] \in Values /\ x'["t1"] \in Values
    BY <2>2, <2>3 DEF ScriptInv, RegisterNames
  <2>5. pc' = "execute" /\ pc = "load" /\ UNCHANGED <<command, s0, s1, tohost>>
    BY <1>2 DEF LoadVector
  <2> QED
    BY <1>0, <2>4, <2>5 DEF ScriptInv, Values
<1>3. CASE Execute
  <2>1. DOMAIN x' = RegisterNames
    BY <1>3 DEF ScriptInv, Execute, Executed
  <2>2. pc' = "compare" /\ pc = "execute" /\ UNCHANGED <<command, s0, s1, tohost>>
    BY <1>3 DEF Execute
  <2> QED
    BY <1>0, <2>1, <2>2 DEF ScriptInv
<1>4. CASE Compare
  <2>1. CASE pc' = "fail" /\ UNCHANGED <<s0, s1>>
    BY <1>0, <1>4, <2>1 DEF ScriptInv, Compare
  <2>2. CASE s0' = s0 + 1 /\ s1' = s1 - 1 /\ pc' = IF Again(s1') THEN "load" ELSE "exit"
    BY <1>0, <1>4, <2>2 DEF ScriptInv, Compare, Again
  <2> QED
    BY <1>4, <2>1, <2>2 DEF Compare
<1>5. CASE Exit
  BY <1>0, <1>5 DEF ScriptInv, Exit
<1>6. CASE Judge
  BY <1>0, <1>6 DEF ScriptInv, Judge
<1>7. CASE TimeOut
  BY <1>0, <1>7 DEF ScriptInv, TimeOut
<1>8. CASE UNCHANGED scriptVars
  BY <1>0, <1>8 DEF ScriptInv, scriptVars
<1> QED
  BY <1>1, <1>2, <1>3, <1>4, <1>5, <1>6, <1>7, <1>8 DEF ScriptNext

LEMMA ScriptInvariant == ScriptSpec => []ScriptInv
<1> QED
  BY ScriptInitInv, ScriptStepInv, PTL DEF ScriptSpec

\* Success is recorded only after every vector has been compared: the guest leaves its loop
\* with none left, a time limit ends it without an answer, and no other answer passes.
THEOREM SuccessComparesEveryVector == ScriptSpec => []EveryVectorIsCompared
<1>1. ScriptInv => EveryVectorIsCompared
  BY VectorsAre DEF ScriptInv, EveryVectorIsCompared
<1> QED
  BY <1>1, ScriptInvariant, PTL

\* The two executors of OxySpike agree on every predecoded operation and every vector, for
\* registers, words and halves of any width.
THEOREM ExecutorsAgreeOnVectors == ScriptSpec => []DecodedAgrees
<1>1. ScriptInv => DecodedAgrees
  <2> SUFFICES ASSUME ScriptInv, pc = "execute", NEW op \in FastOps
               PROVE  execute_decoded(op, x["t0"], x["t1"]) = execute(op, x["t0"], x["t1"], 0)
    BY DEF DecodedAgrees
  <2>1. x["t0"] \in Int /\ x["t1"] \in Int
    BY SizesOf DEF ScriptInv, Values, Register
  <2> QED
    BY <2>1, ExecutorsAgree
<1> QED
  BY <1>1, ScriptInvariant, PTL

\* Computing an AMO of words on sign-extended registers gives the operation on words,
\* signed and unsigned, for every operation and every width.
THEOREM AmosOfRegistersAreOnWords == ScriptSpec => []AmosAreOnWords
<1>1. ScriptInv => AmosAreOnWords
  <2> SUFFICES ASSUME ScriptInv, pc = "execute"
               PROVE  Amo!AmoIsOnWords(word(x["t0"]), word(x["t1"]))
    BY DEF AmosAreOnWords
  <2>1. x["t0"] \in Int /\ x["t1"] \in Int
    BY SizesOf DEF ScriptInv, Values, Register
  <2>2. word(x["t0"]) \in 0 .. WordSize - 1 /\ word(x["t1"]) \in 0 .. WordSize - 1
    BY <2>1, SizesOf, Divided DEF word, WordSize
  <2> QED
    BY <2>2, AmosOnWords
<1> QED
  BY <1>1, ScriptInvariant, PTL

\* The destination and the sources of each layout.
LEMMA RegistersOf ==
  /\ DOMAIN Registers = Layouts
  /\ Registers["plain"] = <<"t2", "t0", "t1">> /\ Registers["rd-rs1"] = <<"t0", "t0", "t1">>
  /\ Registers["rd-zero"] = <<"zero", "t0", "t1">> /\ Registers["rs1-zero"] = <<"t2", "zero", "t1">>
  /\ Registers["rd-rs2"] = <<"t1", "t0", "t1">> /\ Registers["rs1-rs2"] = <<"t2", "t0", "t0">>
  /\ Registers["all-same"] = <<"t0", "t0", "t0">> /\ Registers["rs2-zero"] = <<"t2", "t0", "zero">>
BY DEF Registers, Layouts

\* One vector: the instruction, on the registers of its layout, leaves in its destination
\* what the script expects there, x0 as it was, and the expected value where it is.
LEMMA VectorAgrees ==
  ASSUME NEW t \in register_layouts, NEW r, NEW e, DOMAIN r = RegisterNames, r["zero"] = 0,
         r["t0"] \in Values, r["t1"] \in Values, r["t3"] = Expected(t, r["t0"], r["t1"]),
         e = Executed(r, t.group.name, Registers[t.layout][1], Registers[t.layout][2],
                      Registers[t.layout][3], t.group.shift)
  PROVE  e[Registers[t.layout][1]] = e["t3"] /\ e["zero"] = 0
<1> DEFINE g == t.group
           fn(u, v) == oracle(g.name, u, v, g.shift)
           a == r["t0"]
           b == r["t1"]
           result(u, v) == Result(g.name, u, v, g.shift)
<1>1. g \in Groups /\ t.layout \in Layouts
  BY RegistersOf DEF register_layouts
<1>2. 0 \in Values /\ 0 % 2^XLEN = 0 /\ a \in Values /\ b \in Values
  BY CountsFit, PowersOf
<1>3. \A u, v \in Values : result(u, v) = fn(u, v) % 2^XLEN
  BY <1>1, EveryResultAgrees
<1>4. r["t3"] = (CASE t.layout = "rd-zero" -> 0
                   [] t.layout = "rs1-zero" -> fn(0, b)
                   [] t.layout \in {"rs1-rs2", "all-same"} -> fn(a, a)
                   [] t.layout = "rs2-zero" -> fn(a, 0)
                   [] OTHER -> fn(a, b)) % 2^XLEN
  BY Zenon DEF Expected
<1> DEFINE d == Registers[t.layout][1]
           p == Registers[t.layout][2]
           q == Registers[t.layout][3]
<1>5. e = IF d = "zero" THEN r ELSE [r EXCEPT ![d] = result(r[p], r[q])]
  BY Zenon DEF Executed
<1>6. d = "zero" => e[d] = 0 /\ e["t3"] = r["t3"] /\ e["zero"] = 0
  BY <1>5
<1>7. d \in RegisterNames \ {"zero", "t3"} =>
        e[d] = result(r[p], r[q]) /\ e["t3"] = r["t3"] /\ e["zero"] = 0
  BY <1>5 DEF RegisterNames
<1> HIDE DEF fn, result, d, p, q, g, a, b
<1>8. CASE t.layout = "rd-zero"
  BY <1>2, <1>4, <1>6, <1>8, RegistersOf DEF d
<1>9. CASE t.layout = "rs1-zero"
  <2>1. d = "t2" /\ r[p] = 0 /\ r[q] = b
    BY <1>9, RegistersOf DEF d, p, q, b
  <2>2. r["t3"] = fn(0, b) % 2^XLEN
    BY <1>4, <1>9, Zenon
  <2> QED
    BY <1>2, <1>3, <1>7, <2>1, <2>2 DEF d, RegisterNames
<1>10. CASE t.layout \in {"rs1-rs2", "all-same"}
  <2>1. d \in {"t0", "t2"} /\ r[p] = a /\ r[q] = a
    BY <1>10, RegistersOf DEF d, p, q, a
  <2>2. r["t3"] = fn(a, a) % 2^XLEN
    BY <1>4, <1>10, Zenon
  <2> QED
    BY <1>2, <1>3, <1>7, <2>1, <2>2 DEF d, RegisterNames
<1>11. CASE t.layout = "rs2-zero"
  <2>1. d = "t2" /\ r[p] = a /\ r[q] = 0
    BY <1>11, RegistersOf DEF d, p, q, a
  <2>2. r["t3"] = fn(a, 0) % 2^XLEN
    BY <1>4, <1>11, Zenon
  <2> QED
    BY <1>2, <1>3, <1>7, <2>1, <2>2 DEF d, RegisterNames
<1>12. CASE t.layout \in {"plain", "rd-rs1", "rd-rs2"}
  <2>1. d \in {"t0", "t1", "t2"} /\ r[p] = a /\ r[q] = b
    BY <1>12, RegistersOf DEF d, p, q, a, b
  <2>2. r["t3"] = fn(a, b) % 2^XLEN
    BY <1>4, <1>12, Zenon
  <2> QED
    BY <1>2, <1>3, <1>7, <2>1, <2>2 DEF d, RegisterNames
<1> QED
  BY <1>1, <1>8, <1>9, <1>10, <1>11, <1>12 DEF Layouts

\* The expected value is that of the operands until the instruction has run, and then what
\* its destination holds: the guest finds no difference.
AgreeInv ==
  /\ test \in register_layouts
  /\ x["zero"] = 0
  /\ pc = "execute" => x["t3"] = Expected(test, x["t0"], x["t1"])
  /\ pc = "compare" => x[rd] = x["t3"]
  /\ OxySpikeAgrees

LEMMA AgreeInitInv == ScriptInit => AgreeInv
BY DEF ScriptInit, AgreeInv, OxySpikeAgrees

LEMMA AgreeStepInv == ScriptInv /\ AgreeInv /\ [ScriptNext]_scriptVars => AgreeInv'
<1> SUFFICES ASSUME ScriptInv, AgreeInv, [ScriptNext]_scriptVars PROVE AgreeInv'
  OBVIOUS
<1>0. /\ test \in register_layouts /\ x["zero"] = 0 /\ pc # "fail" /\ tohost # 3
      /\ pc = "compare" => x[Registers[test.layout][1]] = x["t3"]
      /\ DOMAIN x = RegisterNames
  BY DEF AgreeInv, OxySpikeAgrees, rd, ScriptInv
<1>1. CASE LoadVector
  <2> DEFINE p == Pair(s0)
  <2>1. x' = [x EXCEPT !["t0"] = p[1], !["t1"] = p[2], !["t3"] = Expected(test, p[1], p[2])]
    BY <1>1, Zenon DEF LoadVector
  <2>2. pc' = "execute" /\ test' = test /\ tohost' = tohost
    BY <1>1 DEF LoadVector
  <2> HIDE DEF p
  <2>3. /\ x'["zero"] = 0 /\ x'["t0"] = p[1] /\ x'["t1"] = p[2]
        /\ x'["t3"] = Expected(test, p[1], p[2])
    BY <1>0, <2>1 DEF RegisterNames
  <2>4. x'["t3"] = Expected(test', x'["t0"], x'["t1"])
    BY <2>2, <2>3
  <2>5. /\ test' \in register_layouts /\ pc' # "fail" /\ tohost' # 3
    BY <1>0, <2>2
  <2>6. pc' # "compare"
    BY <2>2
  <2> QED
    BY <2>3, <2>4, <2>5, <2>6, Zenon DEF AgreeInv, OxySpikeAgrees
<1>2. CASE Execute
  <2>1. x' = Executed(x, test.group.name, Registers[test.layout][1], Registers[test.layout][2],
                      Registers[test.layout][3], test.group.shift)
    BY <1>2, Zenon DEF Execute, rd
  <2>2. pc = "execute" /\ pc' = "compare" /\ test' = test /\ tohost' = tohost
    BY <1>2 DEF Execute
  <2>3. x["t3"] = Expected(test, x["t0"], x["t1"]) /\ x["t0"] \in Values /\ x["t1"] \in Values
    BY <2>2 DEF AgreeInv, ScriptInv
  <2>4. x'[Registers[test.layout][1]] = x'["t3"] /\ x'["zero"] = 0
    BY <1>0, <2>1, <2>3, VectorAgrees
  <2>5. x'[Registers[test'.layout][1]] = x'["t3"] /\ pc' # "execute" /\ pc' # "fail"
    BY <2>2, <2>4
  <2> QED
    BY <1>0, <2>2, <2>4, <2>5, Zenon DEF AgreeInv, OxySpikeAgrees, rd
<1>3. CASE Compare
  <2>1. pc = "compare" /\ UNCHANGED <<test, x, tohost>>
    BY <1>3 DEF Compare
  <2>2. pc' \in {"load", "exit"}
    BY <1>0, <1>3, <2>1 DEF Compare, rd
  <2> QED
    BY <1>0, <2>1, <2>2 DEF AgreeInv, OxySpikeAgrees
<1>4. CASE Exit
  BY <1>0, <1>4 DEF Exit, AgreeInv, OxySpikeAgrees
<1>5. CASE RunSpike \/ Judge \/ UNCHANGED scriptVars
  <2>1. UNCHANGED <<test, pc, x, tohost>>
    BY <1>5 DEF RunSpike, Judge, scriptVars
  <2>2. UNCHANGED rd
    BY <2>1 DEF rd
  <2>3. Expected(test', x'["t0"], x'["t1"]) = Expected(test, x["t0"], x["t1"])
    BY <2>1
  <2> QED
    BY <2>1, <2>2, <2>3, Zenon DEF AgreeInv, OxySpikeAgrees
<1>6. CASE TimeOut
  <2>1. pc' = "spin" /\ UNCHANGED <<test, x, tohost>>
    BY <1>6 DEF TimeOut
  <2> QED
    BY <1>0, <2>1 DEF AgreeInv, OxySpikeAgrees
<1> QED
  BY <1>1, <1>2, <1>3, <1>4, <1>5, <1>6 DEF ScriptNext

\* OxySpike's executors compute what the script's oracle does, for every instruction of the
\* test, every layout of its registers and every vector, with registers of any width: the
\* guest never reports a difference.
THEOREM ExecutorsAgreeWithTheOracle == ScriptSpec => []OxySpikeAgrees
<1>1. AgreeInv => OxySpikeAgrees
  BY DEF AgreeInv
<1>2. ScriptSpec => []AgreeInv
  BY AgreeInitInv, AgreeStepInv, ScriptInvariant, PTL DEF ScriptSpec
<1> QED
  BY <1>1, <1>2, PTL
=============================================================================
