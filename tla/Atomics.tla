------------------------------ MODULE Atomics ------------------------------
(***************************************************************************)
(* The instructions of oxyspike that write memory: LR, SC and AMOs, cache  *)
(* block operations, integer and floating-point stores, and the store that *)
(* crosses a page (oxyspike/src/lib.rs, mmu.rs and memory.rs), executed by *)
(* contexts that one hart switches between.                                *)
(*                                                                         *)
(* Memory is made of 4-byte words, a word being named by its page and its  *)
(* offset there; an operand has one or two.  A mapping gives a virtual     *)
(* page its page and the offsets the context may read and write, as page   *)
(* tables and PMP together decide (the module Mmu); what the handler does  *)
(* to a mapping includes the fence.                                        *)
(*                                                                         *)
(* links is history: where the last LR of each context that it has not     *)
(* concluded with an SC was, until another context writes there.           *)
(***************************************************************************)
EXTENDS WordValues

CONSTANTS
  Threads, Handler,     \* the contexts: threads, and the machine-mode handler
  PrivilegeOf,          \* of a thread: USER or SUPERVISOR
  Pages,                \* physical pages
  VirtualPages,         \* of the threads; the handler's are Pages
  PageWords,            \* 1024
  BlockWords,           \* 16
  Ram, Clint,           \* the words of each
  Operands,             \* the 64-bit register values software uses
  AmoOps, CboOps,       \* the operations software uses
  InitialMaps,
  Mappings,             \* what the handler may map a page to
  EnvcfgWrites          \* and write to menvcfg and senvcfg

USER == 0
SUPERVISOR == 1
Contexts == Threads \cup {Handler}
Offsets == 0 .. PageWords - 1
Words == Pages \X Offsets
Sizes == {1, 2}
Mapping == [page : Pages, read : SUBSET Offsets, write : SUBSET Offsets]
Addresses == (VirtualPages \cup Pages) \X Offsets

ASSUME MemoryAssumption ==
  /\ PageWords \in Nat \ {0, 1} /\ BlockWords \in Nat \ {0}
  /\ Pages \subseteq Nat /\ VirtualPages \subseteq Nat
  /\ Ram \subseteq Words /\ Clint \subseteq Words
  /\ \A x \in Ram, y \in Clint : x[1] # y[1]

ASSUME ContextsAssumption ==
  /\ Handler \notin Threads
  /\ PrivilegeOf \in [Threads -> {USER, SUPERVISOR}]

ASSUME SoftwareAssumption ==
  /\ Operands \subseteq Doubles
  /\ AmoOps \subseteq {"add", "swap", "xor", "or", "and", "min", "max", "minu", "maxu"}
  /\ CboOps \subseteq {"inval", "clean", "zero"}
  /\ InitialMaps \in [Threads -> [VirtualPages -> Mapping]]
  /\ Mappings \subseteq Mapping
  /\ EnvcfgWrites \subseteq SUBSET CboOps

VARIABLES
  ram,
  reservation,        \* the place of an LR, or None
  running,            \* the context that executes
  maps,
  menvcfg, senvcfg,   \* the block operations each enables
  outcome,            \* what the last step wrote to rd: a value, Done or Trapped
  links

vars == <<ram, reservation, running, maps, menvcfg, senvcfg, outcome, links>>
software == <<maps, menvcfg, senvcfg>>

\* A place is the word it begins with, and its size.
None == <<>>
Places == Words \X Sizes
Done == -1
Trapped == -2

-----------------------------------------------------------------------------
(* Memory *)

Span(a, n) == {<<a[1], a[2] + i>> : i \in 0 .. n - 1}
ValueAt(w, n) == IF n = 1 THEN ram[w] ELSE ram[w] + Word * ram[<<w[1], w[2] + 1>>]
With(m, w, n, value) ==
  [x \in Ram |-> IF x \in Span(w, n) THEN WordOf(value, x[2] - w[2]) ELSE m[x]]

\* The CLINT, which answers any word, serves loads and stores but no reservation.
reservable(w, n) == Span(w, n) \subseteq Ram
Served(w, n) == w \in Clint \/ reservable(w, n)
Loads(w, n) ==
  IF w \in Clint THEN IF n = 1 THEN 0 .. Word - 1 ELSE Doubles ELSE {ValueAt(w, n)}
Stored(m, w, n, value) == IF w \in Clint THEN m ELSE With(m, w, n, value)

\* translate: the handler's addresses are physical.
Permitted(a, n, access) ==
  IF running = Handler THEN a[1] \in Pages
  ELSE a[1] \in VirtualPages /\ {a[2] + i : i \in 0 .. n - 1} \subseteq maps[running][a[1]][access]
Physical(a) == IF running = Handler THEN a ELSE <<maps[running][a[1]].page, a[2]>>

-----------------------------------------------------------------------------
(* Steps *)

\* Another context's link breaks where the running one writes.
LinksAfter(written) ==
  [c \in Contexts |->
     IF c # running /\ links[c] # None /\ Span(links[c][1], links[c][2]) \cap written # {}
     THEN None ELSE links[c]]

\* The trap of a step that failed, or an interrupt; memory is what the step left.
KeptByTrap == reservation
AfterTrap == None
Trap(m, written) ==
  /\ ram' = m
  /\ reservation' = AfterTrap
  /\ running' = Handler
  /\ outcome' = Trapped
  /\ links' = LinksAfter(written)
  /\ UNCHANGED software
Fault == Trap(ram, {})
Retire(result) == outcome' = result /\ UNCHANGED <<running, software>>

Aligned(a, n) == a[2] % n = 0

LR(a, n) ==
  IF Aligned(a, n) /\ Permitted(a, n, "read") /\ reservable(Physical(a), n)
  THEN /\ reservation' = <<Physical(a), n>>
       /\ links' = [links EXCEPT ![running] = <<Physical(a), n>>]
       /\ Retire(Extended(ValueAt(Physical(a), n), n))
       /\ UNCHANGED ram
  ELSE Fault

\* An SC ends its reservation whether it succeeds or not.
Reserved(a, n) == reservation = <<Physical(a), n>>
SC(a, n, value) ==
  IF Aligned(a, n) /\ Permitted(a, n, "write") /\ reservable(Physical(a), n)
  THEN LET written == IF Reserved(a, n) THEN Span(Physical(a), n) ELSE {} IN
       /\ ram' = IF Reserved(a, n) THEN With(ram, Physical(a), n, value) ELSE ram
       /\ reservation' = None
       /\ links' = [LinksAfter(written) EXCEPT ![running] = None]
       /\ Retire(IF Reserved(a, n) THEN 0 ELSE 1)
  ELSE Fault

AMO(op, a, n, rhs) ==
  IF Aligned(a, n) /\ Permitted(a, n, "write") /\ Served(Physical(a), n)
  THEN \E loaded \in Loads(Physical(a), n) :
       LET old == Extended(loaded, n)
           new == AmoResult(op, old, Extended(rhs, n))
       IN /\ ram' = Stored(ram, Physical(a), n, new)
          /\ reservation' = None
          /\ links' = LinksAfter(Span(Physical(a), n))
          /\ Retire(old)
  ELSE Fault

\* A store that crosses a page translates and commits the two parts in turn: when
\* the second faults, the first stays.
Crosses(a, n) == a[2] + n > PageWords
NextPage(a) == <<a[1] + 1, 0>>
MayStore(a, n) == Permitted(a, n, "write") /\ Served(Physical(a), n)
UnshiftedSplitStored(a, value) ==
  Stored(Stored(ram, Physical(a), 1, WordOf(value, 0)), Physical(NextPage(a)), 1, WordOf(value, 0))
SplitStored(a, value) ==
  Stored(Stored(ram, Physical(a), 1, WordOf(value, 0)), Physical(NextPage(a)), 1, WordOf(value, 1))
store_virtual(a, n, value, dropped) ==
  \/ /\ ~ Crosses(a, n) /\ MayStore(a, n)
     /\ ram' = Stored(ram, Physical(a), n, value)
     /\ links' = LinksAfter(Span(Physical(a), n))
     /\ reservation' = dropped /\ Retire(Done)
  \/ /\ Crosses(a, n) /\ MayStore(a, 1) /\ MayStore(NextPage(a), 1)
     /\ ram' = SplitStored(a, value)
     /\ links' = LinksAfter({Physical(a), Physical(NextPage(a))})
     /\ reservation' = dropped /\ Retire(Done)
  \/ /\ Crosses(a, n) /\ MayStore(a, 1) /\ ~ MayStore(NextPage(a), 1)
     /\ Trap(Stored(ram, Physical(a), 1, WordOf(value, 0)), {Physical(a)})
  \/ ~ MayStore(a, IF Crosses(a, n) THEN 1 ELSE n) /\ Fault

\* Only integer stores drop the reservation.
IntegerStore(a, n, value) == store_virtual(a, n, value, None)
FloatingStore(a, n, value) == store_virtual(a, n, value, reservation)

\* A block operation translates the addressed byte, then acts on the whole block;
\* clean and invalidate have nothing to do.
EnabledHere(op) ==
  \/ running = Handler
  \/ op \in menvcfg /\ (PrivilegeOf[running] = SUPERVISOR \/ op \in senvcfg)
Block(w) == {<<w[1], o>> : o \in {p \in Offsets : p \div BlockWords = w[2] \div BlockWords}}
CboAlwaysReads(op) == "read"
CboAccess(op) == IF op = "zero" THEN "write" ELSE "read"
CBO(op, a) ==
  LET block == Block(Physical(a))
      zeroed == IF op = "zero" THEN block ELSE {}
  IN IF EnabledHere(op) /\ Permitted(a, 1, CboAccess(op)) /\ block \subseteq Ram
     THEN /\ ram' = [x \in Ram |-> IF x \in zeroed THEN 0 ELSE ram[x]]
          /\ links' = LinksAfter(zeroed)
          /\ Retire(Done)
          /\ UNCHANGED reservation
     ELSE Fault

\* The handler resumes a context, once it has concluded its own LRs: software's part
\* of the convention, as Linux's SC before each return.  xRET itself keeps the
\* reservation.
Resume(c) ==
  /\ running = Handler /\ links[Handler] = None
  /\ running' = c /\ outcome' = Done
  /\ UNCHANGED <<ram, reservation, software, links>>

\* The handler stands for all software that maps pages and enables block operations.
HandlerWrites ==
  /\ running = Handler /\ outcome' = Done
  /\ \/ \E c \in Threads, vp \in VirtualPages, m \in Mappings :
           maps' = [maps EXCEPT ![c][vp] = m] /\ UNCHANGED <<menvcfg, senvcfg>>
     \/ \E ops \in EnvcfgWrites : menvcfg' = ops /\ UNCHANGED <<maps, senvcfg>>
     \/ \E ops \in EnvcfgWrites : senvcfg' = ops /\ UNCHANGED <<maps, menvcfg>>
  /\ UNCHANGED <<ram, reservation, running, links>>

Init ==
  /\ ram = [w \in Ram |-> 0]
  /\ reservation = None
  /\ running = Handler
  /\ maps = InitialMaps
  /\ menvcfg = {} /\ senvcfg = {}
  /\ outcome = Done
  /\ links = [c \in Contexts |-> None]

Instruction ==
  \E a \in Addresses :
    \/ \E n \in Sizes : LR(a, n)
    \/ \E n \in Sizes, v \in Operands :
         \/ SC(a, n, v)
         \/ \E op \in AmoOps : AMO(op, a, n, v)
         \/ IntegerStore(a, n, v)
         \/ FloatingStore(a, n, v)
    \/ \E op \in CboOps : CBO(op, a)

Next == Instruction \/ Fault \/ (\E c \in Threads : Resume(c)) \/ HandlerWrites

Spec == Init /\ [][Next]_vars

-----------------------------------------------------------------------------
(* Properties *)

\* Every variable has its type; in particular memory holds words.
TypeOK ==
  /\ ram \in [Ram -> 0 .. Word - 1]
  /\ reservation \in Places \cup {None}
  /\ running \in Contexts
  /\ maps \in [Threads -> [VirtualPages -> Mapping]]
  /\ menvcfg \subseteq CboOps /\ senvcfg \subseteq CboOps
  /\ outcome \in Doubles \cup {Done, Trapped}
  /\ links \in [Contexts -> Places \cup {None}]

\* An SC succeeds only for the context whose own LR of the same place came before it,
\* and if no other context wrote there in between.
ScPairsWithOwnLr ==
  [][\A a \in Addresses, n \in Sizes, v \in Operands :
       outcome' = 0 /\ SC(a, n, v) => links[running] = <<Physical(a), n>>]_vars

\* What a thread changes it may write, but for the block of a word it may write,
\* which cbo.zero clears: no other step writes beyond its translation.
MayWrite(w) ==
  \/ running = Handler
  \/ \E vp \in VirtualPages :
       maps[running][vp].page = w[1] /\ w[2] \in maps[running][vp].write
WritesPermitted ==
  [][\A w \in Ram :
       ram'[w] # ram[w] =>
         MayWrite(w) \/ (ram'[w] = 0 /\ \E z \in Block(w) : MayWrite(z))]_vars

\* A store that retires is in memory, both parts of it, where its own context reads it.
StoresAreComplete ==
  [][\A a \in Addresses, n \in Sizes, v \in Operands, i \in {0, 1} :
       /\ outcome' = Done /\ i < n
       /\ IntegerStore(a, n, v) \/ FloatingStore(a, n, v)
       => LET w == Physical(IF a[2] + i < PageWords THEN <<a[1], a[2] + i>> ELSE NextPage(a)) IN
          w \in Ram => ram'[w] = WordOf(v, i)]_vars
=============================================================================
