\* An input of the edge kind before the timer's; three events and expiries let
\* one come while another is served and a third while a call is under way.
SPECIFICATION Spec
CONSTANTS
    Edge = {0}
    Timer = 1
    MaxEvents = 3
INVARIANTS EventHeld NoneUnhandled SwitchesKept
PROPERTIES Served
