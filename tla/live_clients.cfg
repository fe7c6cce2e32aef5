CONSTANTS
    None = None
    a = a  b = b
    c1 = c1  c2 = c2
    Worker = {a, b}
    Client = {c1, c2}
    WorkerOf <- OneOnEach
    Ttl = 1
    GhostTimeout = 0
    StreamLimit = 1
    MayCrash = {b}
    Timely = TRUE
    Patient = TRUE
SPECIFICATION FairSpec
INVARIANTS
    PresenceSound
PROPERTIES
    GhostsLeave
CHECK_DEADLOCK FALSE
