SPECIFICATION FairSpec
CONSTANTS
    None = None
    Partial = Partial
    MaxChanges = 2
    MaxEpochs = 3
    MaxFaults = 1
INVARIANT IdsUnused
INVARIANT NothingUnrecoverable
INVARIANT ShutdownHonoured
PROPERTY FileMovesForward
CHECK_DEADLOCK FALSE
PROPERTY ChangesReachTheFile
