--------------------------- MODULE MCSessionSetup ---------------------------
(* Small instances of SessionSetup: what is enough for an edit, a snapshot  *)
(* with its result, and a session that resumes it after another edit.       *)
EXTENDS SessionSetup, TLC

\* Names, edits and sessions are interchangeable.
Symmetry == Permutations(Names) \cup Permutations(Edits) \cup Permutations(Sessions)
=============================================================================
