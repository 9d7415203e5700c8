\* One disconnect is enough for a stop to leave its claim behind.
SPECIFICATION Safety
CONSTANTS
    r1 = r1
    r2 = r2
    p1 = p1
    p2 = p2
    NoPod = NoPod
    Sandboxes = {r1, r2}
    Pods = {p1, p2}
    MaxStops = 1
    MaxFaults = 0
    MaxHangups = 1
    MaxCrashes = 0
    MaxDeletions = 0
\* Requests are finitely many: when all are answered and no row runs, nothing is left to do.
CHECK_DEADLOCK FALSE
INVARIANTS
    StopDeletesTheClaim
