CONSTANTS
    Addr = {a1, a2, a3}
    Nil = Nil
    Junk = Junk
    AddrToSend = 2
SPECIFICATION Spec
INVARIANTS TypeOK ListConsistent SilentDelisted
PROPERTIES DelistedOnlyAfterSilence LeaseImplemented RoundRobin
CHECK_DEADLOCK FALSE
