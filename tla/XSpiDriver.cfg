\* Three bytes need the FIFO twice; one transfer of three may be hit by an
\* error event or a reset, and the ones after it find what that left.
CONSTANTS
    Wrap = 256
    FifoDepth = 2
    EarlyEmpty = TRUE
    MaxLen = 3
    MaxTransfers = 2
    MaxEvents = 1
    MaxResets = 1
SPECIFICATION Spec
INVARIANTS DoneMeansDelivered QuietBetweenTransfers
 
\* A transfer whose TX_EMPTY was swallowed waits for ever.
CHECK_DEADLOCK FALSE
