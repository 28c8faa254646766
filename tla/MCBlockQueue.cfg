\* Three callers, one of which cannot sleep, on a driver that offers discard;
\* requests of up to two blocks that the device takes one at a time.
SPECIFICATION Spec
CONSTANTS
    Threads = {a, b, c}
    CannotSleep = {c}
    Blocks = {0, 1}
    MaxCount = 2
    max_blocks_per_request = 1
    seek_is_free = FALSE
    Discards = TRUE
    MaxAsks = 4
    Nobody = Nobody
INVARIANTS
    FlushApart
    SomebodyComes
    FrameStands
    NoLostCompletion
    OkMeansAllMoved
PROPERTY Answered
\* Every caller may have made its last request.
CHECK_DEADLOCK FALSE
