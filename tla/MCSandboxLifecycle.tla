------------------------- MODULE MCSandboxLifecycle -------------------------
(* Small instances of SandboxLifecycle.                                    *)
EXTENDS SandboxLifecycle, TLC

CONSTANTS r1, r2, p1, p2

\* Requests differ in name only, and so do pods: sound for the safety runs.
Symmetry == Permutations(Sandboxes) \cup Permutations(Pods)
=============================================================================
