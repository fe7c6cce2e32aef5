CONSTANTS
    None = None
    w1 = w1  w2 = w2
    Stream = {"s", "t"}
    Start = "s"
    MaxRetries = 2
    MaxSwitches = 1
    MaxChecks = 1
    Circumstances <- Cases
SPECIFICATION StreamingSpec
INVARIANTS
    FailoverSound
PROPERTIES
    RequestsHeeded
    StreamsResolved
    Settles
CHECK_DEADLOCK FALSE
