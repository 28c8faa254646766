\* Progress: every ready thread runs, every pending reap collects.
SPECIFICATION FairSpec
CONSTANTS
    c0 = c0
    c1 = c1
    i0 = i0
    i1 = i1
    Cpus = {c0, c1}
    BootCpu = c0
    Boot = boot
    Worker = worker
    Users = {u1}
    None = none
    IdleOf <- MCIdleOf
    InitRing <- MCRing
    MaxCount = 1
    CloseMaySleep = FALSE
PROPERTIES
    ReadyRuns
    ReapCollects
CHECK_DEADLOCK FALSE
