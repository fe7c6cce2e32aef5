CONSTANTS
    None = None
    r1 = r1  r2 = r2  r3 = r3
    c1 = c1  c2 = c2  c3 = c3
    s1 = s1  s2 = s2  s3 = s3  s4 = s4
    p1 = p1  p2 = p2
    Request = {r1, r2, r3}
    Channel = {c1, c2, c3}
    Stream = {s1, s2, s3}
    Profile = {p1, p2}
    ChanOf <- SerialChanOf
    Candidates <- SerialCandidates
    MaxStreams <- OneSlotEach
    RedirectChannels = {c3}
    Ops = {"play", "stop", "leave"}
    MaxAttempts = 1
SPECIFICATION SlotsSpec
INVARIANTS
    SerialSound
    SwitchSound
PROPERTIES
    PoolSpec
CHECK_DEADLOCK FALSE
