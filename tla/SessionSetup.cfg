\* Two names, two edits and two sessions, of which the second resumes the first.
SPECIFICATION Spec
CONSTANTS
    Names = {n1, n2}
    Edits = {e1, e2}
    Sessions = {s1, s2}
    None = None
SYMMETRY Symmetry
INVARIANTS
    SessionsAreCurrent
    LoneKeysReplace
    SecretsAreKept
    TextsKeepTheirNames
\* Edits and sessions are finitely many: when they are over nothing is left to do.
CHECK_DEADLOCK FALSE
