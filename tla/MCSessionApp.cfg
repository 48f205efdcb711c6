SPECIFICATION Spec
CONSTANTS
    PeerKinds <- CorePeer
    StopWhen = {"connecting", "negotiating", "bound"}
    Fast = {FALSE}
    MaxAddr = 1
    MaxRun = 2
    MaxObj = 2
    MaxRx = 1
CHECK_DEADLOCK FALSE
INVARIANTS ConnectedStates
