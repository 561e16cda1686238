CONSTANTS
    Fd = {1, 2, 3}
    Addr = {11, 12}
    MaxTcpSock = 2
    Room = 2
    MaxConns = 3
SPECIFICATION Spec
INVARIANTS TableExact
PROPERTIES NeighbourDropped
CHECK_DEADLOCK FALSE
