\* The second call is the smallest that can find the leftovers of the first.
CONSTANTS
    FifoDepth = 2
    EarlyEmpty = FALSE
    Chunk = 2
    MaxPolls = 2
    MaxLen = 3
    MaxCalls = 2
SPECIFICATION Spec
INVARIANTS LenMeansSuccess
