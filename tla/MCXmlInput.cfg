SPECIFICATION Spec
CONSTANTS
    Calls <- AllCalls
    MaxCall = 2
    MaxDepth = 4
    Headers <- AnyHeader
    Foreign <- SomeForeign
    Junk <- JunkTokens
    Inside <- SomeInside
    MaxSay = 2
    MaxInsert = 1
    MaxReset = 1
    Overlap = FALSE
CHECK_DEADLOCK FALSE
INVARIANTS TypeOK HeardAsSaid AllHeard ReadAsMeant InternalFromInside ErrorIsLast
