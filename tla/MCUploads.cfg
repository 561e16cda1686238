CONSTANTS
    MaxUpload = 2
    MaxConns = 4
    MaxSpurious = 1
SPECIFICATION Spec
INVARIANTS CountExact
PROPERTIES SleepsAgain
CHECK_DEADLOCK FALSE
