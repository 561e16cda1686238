CONSTANTS
    Peer = {p1, p2, p3, p4}
    Nil = Nil
    Rate = {1, 2}
    MaxPCount = 3
SPECIFICATION Spec
INVARIANTS TypeOK CapacityKept SilentDelisted
PROPERTIES DelistedOnlyAfterSilence
CHECK_DEADLOCK FALSE
