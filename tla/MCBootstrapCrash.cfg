CONSTANTS
    Addr = {a1, a2}
    Nil = Nil
    Junk = Junk
    AddrToSend = 2
SPECIFICATION Spec
INVARIANT JoinAnswered
CHECK_DEADLOCK FALSE
