SPECIFICATION Spec
CONSTANTS
    Images = {good, bad}
    Bad = {bad}
    MaxUpdates = 4
    MaxUpsets = 4
    FlashFaults = TRUE
    UpdateDuringTrial = TRUE
PROPERTIES ProvenNeverRolledBack RollbackKeepsReport FallbackGivenUp
CHECK_DEADLOCK FALSE
