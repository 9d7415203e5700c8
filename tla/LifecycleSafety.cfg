\* Two sandboxes, one stop each, one failed call, disconnect, restart and deletion
\* of a user each.
SPECIFICATION Safety
CONSTANTS
    r1 = r1
    r2 = r2
    p1 = p1
    p2 = p2
    NoPod = NoPod
    Sandboxes = {r1, r2}
    Pods = {p1, p2}
    MaxStops = 1
    MaxFaults = 1
    MaxHangups = 1
    MaxCrashes = 1
    MaxDeletions = 1
\* Requests are finitely many: when all are answered and no row runs, nothing is left to do.
CHECK_DEADLOCK FALSE
SYMMETRY Symmetry
INVARIANTS
    RowHasItsPod
    LeaksAreAccountedFor
    StopsAreAccountedFor
PROPERTIES
    ImplementsContract
