------------------------- MODULE MCConnectionTable -------------------------
(* ConnectionTable for TLC: addresses are interchangeable. *)
EXTENDS ConnectionTable, TLC

ConnSymmetry == Permutations(Conns)
=============================================================================
