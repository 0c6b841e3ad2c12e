\* A buffer of two bytes does not fit the FIFO, so the handler goes on with it;
\* the second send may replace the first anywhere.
SPECIFICATION Spec
CONSTANTS
    FifoSize = 1
    MaxLen = 2
    MaxCalls = 2
    MaxArrivals = 2
INVARIANTS SentInOrder ReceivedGenuine DoneMeansOut
PROPERTIES SendCompletes
