\* A cancel between two callbacks of one slot.
SPECIFICATION TimerSpec
CONSTANTS
    Timers = {t1, t2, t3}
    Turners = {p}
    WHEEL_BITS = 1
    WHEEL_LEVELS = 3
    TickBits = 5
    Delays = {1, 2}
    MaxLag = 2
    CancelRaces = TRUE
    Nowhere = Nowhere
PROPERTY CancelStops
