SPECIFICATION FairSpec
CONSTANTS
    Buf = {b1}
    NoBuf = NoBuf
    TimerId = {"t"}
    PeerObj = {"x"}
    MaxRun = 1
    MaxRx = 2
CHECK_DEADLOCK FALSE
PROPERTIES StopUnblocks
