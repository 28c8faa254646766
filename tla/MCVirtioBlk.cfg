\* An interrupt may be lost, and the device may stay silent, or answer a
\* request that was given up.
SPECIFICATION Spec
CONSTANTS
    QueueSize = 4
    Lengths = {2}
    IdxSpace = 8
    GenSpace = 3
    LateAnswers = TRUE
    Fresh = FALSE
    None = None
INVARIANTS
    EveryDescriptorOnce
    NoMissedCompletion
PROPERTY AlwaysReturns
