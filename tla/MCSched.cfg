\* Safety of switching, sleeping and reaping on two processors.
SPECIFICATION Spec
CONSTANTS
    c0 = c0
    c1 = c1
    i0 = i0
    i1 = i1
    Cpus = {c0, c1}
    BootCpu = c0
    Boot = boot
    Worker = worker
    Users = {u1, u2}
    None = none
    IdleOf <- MCIdleOf
    InitRing <- MCRing
    MaxCount = 2
    CloseMaySleep = TRUE
SYMMETRY MCSymmetry
INVARIANTS
    OneStackPerCpu
    ResumeSaved
    NoFreeUnderfoot
    NoLostWakeup
    BlockedIsQueued
CHECK_DEADLOCK FALSE
