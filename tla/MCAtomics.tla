----------------------------- MODULE MCAtomics -----------------------------
(* A thread and the handler, on RAM that ends within the second page, and so     *)
(* within a block; pages are not mapped, read-only, or writable in part.         *)
EXTENDS Atomics, Bitwise, TLC

CONSTANT t1

Whole == Offsets
MapTo(p, read, write) == [page |-> p, read |-> read, write |-> write]
Unmapped == MapTo(0, {}, {})

\* The bit operations of registers.
AndOf(x, y) == x & y
OrOf(x, y) == x | y
XorOf(x, y) == x ^^ y

OneUser == t1 :> USER
HalfAPage == {<<0, 0>>, <<0, 1>>, <<1, 0>>}
NoWords == {}
PrivateMaps == t1 :> (0 :> MapTo(0, Whole, {1}) @@ 1 :> Unmapped)
StoreMappings == {MapTo(0, Whole, {}), MapTo(1, Whole, {0})}
ZeroOnly == {{"zero"}}
=============================================================================
