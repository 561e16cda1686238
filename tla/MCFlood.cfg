CONSTANTS
    Superpeer = {"a", "b", "c", "d"}
    Asked = "a"
    Overlays <- MCOverlays
    TTL = 3
    RequestTTL = 0
    MaxAsks = 1
    MaxChanges = 1
SPECIFICATION FloodSpec
INVARIANTS AllReached
PROPERTIES FloodEnds
CHECK_DEADLOCK FALSE
