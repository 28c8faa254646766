\* Three levels of two slots, tick counts of five bits, and two contexts that
\* turn the wheel.
SPECIFICATION TimerSpec
CONSTANTS
    Timers = {t1, t2}
    Turners = {p, q}
    WHEEL_BITS = 1
    WHEEL_LEVELS = 3
    TickBits = 5
    Delays = {0, 1, 3, 5, 7}
    MaxLag = 2
    CancelRaces = FALSE
    Nowhere = Nowhere
INVARIANTS
    NeverPassed
    NoneLost
PROPERTIES
    NeverEarly
    AllRun
