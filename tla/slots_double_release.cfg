CONSTANTS
    None = None
    r1 = r1  r2 = r2  r3 = r3
    c1 = c1  c2 = c2  c3 = c3
    s1 = s1  s2 = s2  s3 = s3  s4 = s4
    p1 = p1  p2 = p2
    Request = {r1, r2, r3}
    Channel = {c1, c2}
    Stream = {s1, s2}
    Profile = {p1}
    ChanOf <- MixedChanOf
    Candidates <- TwoChannels
    MaxStreams <- TwoSlotsEach
    RedirectChannels = {}
    Ops = {"play", "stop"}
    MaxAttempts = 1
SPECIFICATION Spec
INVARIANTS
    CountCoversHolders
