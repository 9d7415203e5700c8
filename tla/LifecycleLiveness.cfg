\* Requests end and dead rows are retired across a failed call, a disconnect and
\* a restart of the control plane; one pod.
SPECIFICATION Spec
CONSTANTS
    r1 = r1
    r2 = r2
    p1 = p1
    p2 = p2
    NoPod = NoPod
    Sandboxes = {r1, r2}
    Pods = {p1}
    MaxStops = 1
    MaxFaults = 1
    MaxHangups = 1
    MaxCrashes = 1
    MaxDeletions = 0
\* Requests are finitely many: when all are answered and no row runs, nothing is left to do.
CHECK_DEADLOCK FALSE
PROPERTIES
    EveryRequestEnds
    AbandonedRequestsEnd
    DeadRowsAreRetired
