----------------------------- MODULE MCAccounts -----------------------------
(* A few accounts, whose names are used again.                             *)
EXTENDS Accounts, TLC

CONSTANTS u1, u2, u3, admin, bob, pw1, pw2, t1, t2, h1, h2, p1, p2

Symmetry == Permutations(Ids) \cup Permutations(Tokens) \cup Permutations(Handlers)
                \cup Permutations(Replicas)
=============================================================================
