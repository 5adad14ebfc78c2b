------------------------------- MODULE MCMmu -------------------------------
(* Two-level tables of two entries.  Root 0 maps virtual page 0 to page 2,     *)
(* page 1 to page 3 and pages 2 and 3, a superpage, to 4 and 5; root 2, whose  *)
(* page is also page 0 of the first space, maps 0 and 1 to 4 and 5.            *)
EXTENDS Mmu, TLC

Full == {"valid", "read", "write", "execute", "accessed", "dirty"}
LeafTo(p, bits) == [bits |-> bits, pbmt |-> 0, ppn |-> p]
Pointer(p) == LeafTo(p, {"valid"})
Zero == LeafTo(0, {})
Table(first, second) == 0 :> first @@ 1 :> second

TwoLevels == 0 :> 1 @@ 1 :> 2
MCPages == 0 .. 5
MCTables ==
  [p \in MCPages |->
     CASE p = 0 -> Table(Pointer(1), LeafTo(4, Full))
       [] p = 1 -> Table(LeafTo(2, Full \cup {"user"}), LeafTo(3, {"valid", "execute", "accessed"}))
       [] p = 2 -> Table(LeafTo(4, Full), Zero)
       [] OTHER -> Table(Zero, Zero)]

OneSpace == {0}
TwoSpaces == {Bare, 0, 2}

Anywhere == [mode |-> NAPOT, perms |-> Perms, lock |-> FALSE]
Off == [mode |-> OFF, perms |-> {}, lock |-> FALSE]
Cfgs(first, second) == 0 :> first @@ 1 :> second

\* Contexts: two spaces, all of mstatus, an entry remapped; PMP opens all pages.
ContextPtes == {<<1, 0, LeafTo(3, Full)>>}
ContextCfgs == {Cfgs(Anywhere, Off)}
ContextAddrs == {<<0, 15>>}
ContextStatus ==
  {s \in [SUM : BOOLEAN, MXR : BOOLEAN, MPRV : BOOLEAN, MPP : {USER}] : s.MXR => s.SUM}

\* PMP: regions that end within a page, deny, are locked, or move.
Region(mode, perms, lock) == [mode |-> mode, perms |-> perms, lock |-> lock]
PmpCfgs ==
  {Cfgs(Off, Anywhere),
   Cfgs(Region(NA4, {"read"}, FALSE), Anywhere),
   Cfgs(Region(NA4, {"read"}, FALSE), Region(TOR, {"read", "write"}, FALSE)),
   Cfgs(Off, Region(TOR, {"read", "write"}, TRUE)),
   Cfgs(Region(TOR, {"write"}, TRUE), Anywhere)}
PmpAddrs == {<<0, 10>>, <<0, 8>>, <<1, 15>>, <<1, 24>>}
PmpStatus == {[SUM |-> TRUE, MXR |-> FALSE, MPRV |-> FALSE, MPP |-> SUPERVISOR]}

\* Page-based memory types: an entry that faults unless menvcfg.PBMTE is set.
OnePte == {<<1, 0, [LeafTo(2, Full) EXCEPT !.pbmt = 1]>>}
=============================================================================
