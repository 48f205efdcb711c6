SPECIFICATION Spec
CONSTANTS
    Buf = {b1, b2}
    NoBuf = NoBuf
    TimerId = {"t"}
    PeerObj = {"x"}
    MaxRun = 2
    MaxRx = 2
SYMMETRY BufSymmetry
CHECK_DEADLOCK FALSE
INVARIANTS TypeOK BuffersAlive QuietWhenStopped ThreadLifetime BoundedReads
PROPERTIES NeverDeafSilently LifecycleSpec
