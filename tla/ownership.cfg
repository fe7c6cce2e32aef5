CONSTANTS
    None = None
    a = a  b = b
    ra = ra  rb = rb  ba = ba  bb = bb
    Worker = {a, b}
    Greenlet = {ra, rb, ba, bb}
    Home <- TwoEach
    Ops <- ViewOps
    Serial = TRUE
    Faults = {"stream", "start", "crash", "slow"}
SPECIFICATION CrashSpec
INVARIANTS
    TypeOK
    LocalTogether
    ProvidersOwn
    NothingLeft
PROPERTIES
    OrphansCleared
CHECK_DEADLOCK FALSE
