SPECIFICATION PlaybackSpec
CONSTANTS
    None = None
    v = v  w = w
    r1 = r1  r2 = r2  r3 = r3
    Session = {"x", "y"}
    Request = {r1, r2, r3}
    SessionOf <- OneAndOther
    Limit = 1
    Troubles = {"overlap", "hurry", "fails", "range", "contention"}
SYMMETRY Alike
INVARIANTS
    VodSound
    RulesSchedule
PROPERTIES
    RulesKeepMade
    RecordingKept
CHECK_DEADLOCK FALSE
