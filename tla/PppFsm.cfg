\* One call, one loss, one early timeout and two shortages of memory may meet in
\* one negotiation; identifiers wrap after four requests.
SPECIFICATION Spec
CONSTANTS
    A = A
    B = B
    Peers <- MCPeers
    Accepts <- MCAccepts
    Flags <- MCFlags
    MaxConfReqs = 3
    MaxTermReqs = 1
    MaxNakLoops = 2
    Ids = 4
    MaxCalls = 1
    MaxLosses = 1
    MaxEarly = 1
    MaxFailures = 2
INVARIANTS TimerIffWaiting UpIffOpened Agreement
PROPERTIES Settles ComesUp
\* Both machines may come to rest.
CHECK_DEADLOCK FALSE
