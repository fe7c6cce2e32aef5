SPECIFICATION LibrarySpec
CONSTANTS
    None = None
    w1 = w1  w2 = w2  r1 = r1  r2 = r2
    Worker = {w1, w2}
    Request = {r1, r2}
    Channel = {"news"}
    Entry = {"a", "b"}
    Guides = {{"a", "b"}, {"b"}}
    Sources = {TRUE, FALSE}
    MaxRefreshes = 2
    MaxMaps = 1
    MaxCrashes = 0
SYMMETRY Symmetric
INVARIANTS
    GuideHeals
    RecordsRight
    EditsStand
    PluginsSound
PROPERTIES
    GuideKept
    ReorderPlaces
    MatchRespects
CHECK_DEADLOCK FALSE
