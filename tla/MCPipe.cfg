\* A pipe shared by three threads, one of which may not sleep.
SPECIFICATION FairSpec
CONSTANTS
    t1 = t1
    Threads = {t1, t2, t3}
    CannotSleep = {t3}
    PROCESS_FDS_MAX = 2
    PIPE_CAPACITY = 2
    ReadLens = {1}
    WriteLens = {2}
    MaxOpens = 1
    None = none
INVARIANTS
    LifeFollowsUse
    SleepersHaveReason
PROPERTIES
    IsStream
    CloseReleasesT1
CHECK_DEADLOCK FALSE
