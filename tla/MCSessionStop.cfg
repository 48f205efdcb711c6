SPECIFICATION FairSpec
CONSTANTS
    PeerKinds <- AnyPeer
    StopWhen = {"negotiating", "bound"}
    Fast = {FALSE, TRUE}
    MaxAddr = 1
    MaxRun = 1
    MaxObj = 3
    MaxRx = 1
CHECK_DEADLOCK FALSE
PROPERTIES StopEnds
