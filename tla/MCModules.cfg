SPECIFICATION Spec
CONSTANTS
    Setups <- AllSetups
    Features = {"session", "disco"}
    AppKinds <- AllKinds
    CallbackKinds <- Again
    Given <- GivenIds
    Overlap = FALSE
    Jids = {"a", "b"}
    Addresses <- BareAndFull
    Texters <- TextSetups
    Together = FALSE
    AlwaysReceipt = FALSE
    MaxPart = 1023
    PeerRequests <- PeerAny
    Rosters <- FewRosters
    MaxAsk = 2
    MaxCall = 3
    MaxChange = 1
    MaxPeer = 1
    MaxText = 3
    MaxSession = 2
    MaxRx = 2
CHECK_DEADLOCK FALSE
INVARIANTS TypeOK EachAnsweredOnce RosterFollowsServer KeepAliveLives CorrectsTheLast
