SPECIFICATION FairSpec
CONSTANTS
    Images = {good, bad}
    Bad = {bad}
    MaxUpdates = 4
    MaxUpsets = 4
    FlashFaults = FALSE
    UpdateDuringTrial = FALSE
INVARIANTS ProvenFallback
PROPERTIES RollbackOnlyOwnPanic TrialSettles BadImageAbandoned
CHECK_DEADLOCK FALSE
