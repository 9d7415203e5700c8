\* Two sandboxes of one user or of two, on one branch or on two; two notes each.
SPECIFICATION Spec
CONSTANTS
    s1 = s1
    s2 = s2
    u1 = u1
    u2 = u2
    b1 = b1
    b2 = b2
    Sandboxes = {s1, s2}
    Users = {u1, u2}
    Repos = {b1, b2}
    MaxNotes = 2
    MaxStops = 1
    Limit = 3
    MaxTorn = 1
\* Sandboxes and notes are finitely many: when the pods are over nothing is left to do.
CHECK_DEADLOCK FALSE
SYMMETRY Symmetry
INVARIANTS
    KeysDoNotMix
    DeletedUsersLeaveNothing
    SnapshotsAreSessions
PROPERTIES
    OnlyOvertakenWritesLower
