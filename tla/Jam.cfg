\* The packet has 8 words and the buffer 6 bytes.  The length the flash answers
\* fits or not; a byte that is not its answer may be 0, fit exactly, or be one
\* too long.
CONSTANTS
    BufLen = 6
    UidLengths = {3, 8}
    OtherLengths = {0, 6, 7}
    PktWords = 8
    MaxPolls = 3
SPECIFICATION Spec
INVARIANTS ShownGenuine OverrunOnlyByUid
PROPERTIES LoopReached
