CONSTANTS
    None = None
    w1 = w1  w2 = w2  g1 = g1  g2 = g2
    r1 = r1  r2 = r2  r3 = r3
    c1 = c1  c2 = c2  c3 = c3
    s1 = s1  s2 = s2  s3 = s3  s4 = s4
    p1 = p1  p2 = p2
    Request = {r1, r2}
    Channel = {c1}
    Stream = {s1}
    Profile = {p1, p2}
    ChanOf <- SharedChanOf
    Candidates <- SoloCandidates
    MaxStreams <- OneSlotEach
    RedirectChannels = {}
    Ops = {"play", "stop", "leave"}
    MaxAttempts = 2
SPECIFICATION RacesSpec
INVARIANTS
    CountWithinLimit
    LocalsPresent
PROPERTIES
    RequestsFinish
    RefreshSettles
CHECK_DEADLOCK FALSE
