\* A core that raises TX_EMPTY only when the last byte is out, with a FIFO
\* deeper than the chunk: what is left of it is never used.
CONSTANTS
    FifoDepth = 3
    EarlyEmpty = FALSE
    Chunk = 2
    MaxPolls = 1
    MaxLen = 4
    MaxCalls = 3
SPECIFICATION Spec
INVARIANTS NoUnderflow InFlight IInv
PROPERTIES CleanDeselect
