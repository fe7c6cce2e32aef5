SPECIFICATION ImportsSpec
CONSTANTS
    None = None
    w1 = w1  w2 = w2  g1 = g1  g2 = g2
    Worker = {w1, w2}
    Stream = {1, 2, 3}
    Group = {g1, g2}
    GroupOf <- TwoGroups
    Chno <- Clash
    Listings <- Changing
    Manual = {1}
    Retention = 1
    Channel = {1, 2, 3, 4}
    Accounts <- SomeAccounts
    Troubles = {"outage", "batch", "leak", "crash", "deactivate", "toggle"}
    MaxScans = 2
SYMMETRY Workers
INVARIANTS
    OneRefresh
    RefreshTakesOver
    ScanTakesOver
PROPERTIES
    IdentityKept
    StreamsKept
CHECK_DEADLOCK FALSE
