CONSTANTS
    Entries = {e1, e2}
    MaxWrites = 1
    Faults = 1
    Files = {e1, e2}
    MaxChanges = 2
    Attempts = 3
    Losses = 2
SPECIFICATION MCSpec
SYMMETRY Interchangeable
CHECK_DEADLOCK FALSE
INVARIANTS
    FinishedIsWhole
    NothingIsLost
    VerifiedIsFinished
    ServesLatestState
