SPECIFICATION Spec
CONSTANTS
    Worlds <- AllWorlds
    Locals <- Bound
    MaxRun = 2
    MaxProceed = 1
    Late = FALSE
CHECK_DEADLOCK FALSE
INVARIANTS TypeOK AddressOrder AnswerOfAttempt
PROPERTIES OpenedConnected ResetEncrypted WaitsEnd
