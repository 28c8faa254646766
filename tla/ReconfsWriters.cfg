\* Two threads with transactions open at once, which nothing prevents.
SPECIFICATION Spec
CONSTANTS
    Writers = {w1, w2}
    FirstBlock = 1
    TotalBlocks = 12
    per_leaf = 6
    TXN_FREED = 4
    LateFailures = FALSE
    MaxTxns = 2
    MaxCrashes = 0
    Nothing = Nothing
INVARIANT NoLiveOverwrite
CHECK_DEADLOCK FALSE
