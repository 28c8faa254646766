\* A device whose driver offers discard.
SPECIFICATION Spec
CONSTANTS
    Threads = {a, b}
    CannotSleep = {}
    Blocks = {0}
    MaxCount = 1
    max_blocks_per_request = 0
    seek_is_free = TRUE
    Discards = TRUE
    MaxAsks = 2
    Nobody = Nobody
INVARIANT OneInDriver
CHECK_DEADLOCK FALSE
