-------------------------- MODULE MCContentionDemo --------------------------
(* The demo and one more call, of the same wedding or of another.          *)
EXTENDS ContentionDemo, TLC

CONSTANTS other

MCCall == {first, second, final, other}
Symmetry == Permutations(Wedding) \cup Permutations(Vendor)
=============================================================================
