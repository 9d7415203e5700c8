\* Every command, its signals, and texts of up to four bytes in reads of up to three;
\* three pages of up to two repositories or branches, of which two pages are read of
\* the repositories, with two changes on GitHub and two git commands that fail.
SPECIFICATION RunSpec
CONSTANTS
    x = x
    CtrlB = CtrlB
    D = D
    Other = {x}
    MaxRead = 3
    MaxTyped = 4
    r1 = r1
    r2 = r2
    r3 = r3
    r4 = r4
    r5 = r5
    dev = dev
    fix = fix
    Repos = {r1, r2, r3, r4, r5}
    Default = main
    Branches = {main, dev, fix}
    Unknown = unknown
    PageSize = 2
    MaxPages = 2
    MaxChanges = 2
    MaxFailures = 2
    WithRepo = {"create -d"}
\* The process ends: nothing is left to do.
CHECK_DEADLOCK FALSE
INVARIANTS
    DetachIsNeverSent
    NothingIsLost
    RmCleansUp
    TerminalIsGivenBack
    BranchIsCheckedOut
PROPERTIES
    SessionsEnd
    NoneIsMissed
    ReadsDoNotMatter
