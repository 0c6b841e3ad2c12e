\* The second send finds the FIFO filled by the handler for the first.
SPECIFICATION Spec
CONSTANTS
    FifoSize = 1
    MaxLen = 2
    MaxCalls = 2
    MaxArrivals = 2
INVARIANTS DoneMeansSent
