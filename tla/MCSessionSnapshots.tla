------------------------- MODULE MCSessionSnapshots -------------------------
(* Small instances of SessionSnapshots.                                    *)
EXTENDS SessionSnapshots, TLC

CONSTANTS s1, s2, u1, u2, b1, b2

Symmetry == Permutations(Sandboxes) \cup Permutations(Users) \cup Permutations(Repos)
=============================================================================
