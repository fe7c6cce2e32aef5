CONSTANTS
    None = None
    a = a  b = b
    ra = ra  rb = rb  ba = ba  bb = bb
    Worker = {a, b}
    Greenlet = {ra, rb, ba}
    Home <- TwoAndOne
    Ops <- CycleOps
    Serial = FALSE
    Faults = {}
SPECIFICATION RaceSpec
PROPERTIES
    NoTakeover
    LeaseSettles
CHECK_DEADLOCK FALSE
