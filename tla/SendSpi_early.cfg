\* Two chunks per transfer at most, and three calls: one that fails, one that
\* closes the broken transaction, one that opens a new one.
CONSTANTS
    FifoDepth = 2
    EarlyEmpty = TRUE
    Chunk = 2
    MaxPolls = 2
    MaxLen = 4
    MaxCalls = 3
SPECIFICATION Spec
INVARIANTS TypeOK InFlight RepliesDelivered SourceIntact OpenBetweenCalls
PROPERTIES CleanDeselect CallReturns ExchangeSpec
