SPECIFICATION Spec
CONSTANTS
    Conn = {c1, c2}
    NoConn = NoConn
    Fd = {f1}
    NoFd = NoFd
    Usage = {"cancel"}
    MaxOp = 2
    MaxPipe = 3
SYMMETRY Symmetry
CHECK_DEADLOCK FALSE
INVARIANTS TypeOK NoLostWakeup  ExecutedOnce
PROPERTIES Answered
