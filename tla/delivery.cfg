CONSTANTS
    a = a  b = b
    c1 = c1  c2 = c2
    Worker = {a, b}
    Client = {c1, c2}
    WorkerOf <- OneOnEach
    Owner = a
    Reads = {5}
    MaxIndex = 3
    MaxStream = 2
    MaxFetch = 2
    NearHead = 2
SPECIFICATION OneReaderSpec
INVARIANTS
    DeliverySound
PROPERTIES
    ReadsForward
    OwnerCatchesUp
CHECK_DEADLOCK FALSE
