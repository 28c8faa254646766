\* One writer, on a volume small enough to fill.
SPECIFICATION Spec
CONSTANTS
    Writers = {w}
    FirstBlock = 1
    TotalBlocks = 10
    per_leaf = 6
    TXN_FREED = 4
    LateFailures = FALSE
    MaxTxns = 2
    MaxCrashes = 1
    Nothing = Nothing
INVARIANTS
    NoLiveOverwrite
    TableIsTrue
    TreeIsWhole
PROPERTY AtomicCommit
\* The transactions of the run may all have been made.
CHECK_DEADLOCK FALSE
