\* The clock wraps after two milliseconds and again fourteen later; the pool is
\* full with each of the three timers set once.
SPECIFICATION Spec
CONSTANTS
    Shots = {S1}
    Delays = {1,2}
    Interval = 3
    TcpInterval = 2
    PoolSize = 3
    Wrap = 14
    StartTime = 12
    MaxCalls = 3
    MaxLag = 1
INVARIANTS ListExact NeverEarly TcpTimed
PROPERTIES Called
