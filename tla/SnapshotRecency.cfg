\* One sandbox that is stopped while its harness exits; nothing is cut.
SPECIFICATION Spec
CONSTANTS
    s1 = s1
    s2 = s2
    u1 = u1
    u2 = u2
    b1 = b1
    b2 = b2
    Sandboxes = {s1}
    Users = {u1}
    Repos = {b1}
    MaxNotes = 2
    MaxStops = 1
    Limit = 4
    MaxTorn = 0
\* Sandboxes and notes are finitely many: when the pods are over nothing is left to do.
CHECK_DEADLOCK FALSE
PROPERTIES
    MostRecentWins
