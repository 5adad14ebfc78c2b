------------------------- MODULE MCIntegerVectors -------------------------
(* Registers of eight bits, of two words and four bytes: the edges of the      *)
(* script, scaled, and three pairs for its random ones.                        *)
EXTENDS IntegerVectors, Bitwise

AndOf(a, b) == a & b
OrOf(a, b) == a | b
XorOf(a, b) == a ^^ b

EdgeValues == <<0, 1, 2, 3, 4, 5, 7, 8, 9, 15, 16, 17, 63, 64, 127, 128, 129, 240, 254, 255>>
SomePairs == <<<<100, 11>>, <<213, 90>>, <<77, 182>>>>
=============================================================================
