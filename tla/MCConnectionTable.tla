-------------------------- MODULE MCConnectionTable --------------------------
(* ConnectionTable on a table of three slots.                               *)
EXTENDS ConnectionTable, TLC

CONSTANTS s1, s2
MCSessions == {s1, s2}
Symmetry == Permutations(MCSessions)
=============================================================================
