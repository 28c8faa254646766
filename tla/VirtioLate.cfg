\* The device answers a request that was given up.
SPECIFICATION Spec
CONSTANTS
    QueueSize = 4
    Lengths = {2, 3}
    IdxSpace = 8
    GenSpace = 3
    LateAnswers = TRUE
    Fresh = FALSE
    None = None
PROPERTY OkMeansCarriedOut
