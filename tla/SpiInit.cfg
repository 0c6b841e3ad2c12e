\* The FIFO holds the three bytes of the dummy read and leftovers of two.
CONSTANTS
    FifoDepth = 3
    EarlyEmpty = TRUE
SPECIFICATION Spec
INVARIANTS InitReady FlashNotAddressed
PROPERTIES InitSettles
\* init_spi() is run once.
CHECK_DEADLOCK FALSE
