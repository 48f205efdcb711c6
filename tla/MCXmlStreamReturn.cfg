SPECIFICATION FairSpec
CONSTANTS
    Buf = {b1}
    NoBuf = NoBuf
    TimerId = {}
    PeerObj = {"x"}
    MaxRun = 1
    MaxRx = 1
CHECK_DEADLOCK FALSE
PROPERTIES ReturnsAfterStop
