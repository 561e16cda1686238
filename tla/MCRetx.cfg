CONSTANTS
    MaxPackets = 2
    MaxRetx = 6
    Index = {i1, i2}
SPECIFICATION Spec
INVARIANTS TypeOK EffortBounded ReportJustified
PROPERTIES FinishedIsFinal BacksOff Resolved
CHECK_DEADLOCK FALSE
