SPECIFICATION Spec
CONSTANTS
    PeerKinds <- AnyPeer
    StopWhen = {}
    Fast = {FALSE}
    MaxAddr = 1
    MaxRun = 2
    MaxObj = 4
    MaxRx = 2
CHECK_DEADLOCK FALSE
INVARIANTS TypeOK ClosedAfterRun
PROPERTIES MatrixKept
