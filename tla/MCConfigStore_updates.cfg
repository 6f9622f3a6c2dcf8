SPECIFICATION Spec
CONSTANTS
    Values = {0, 1}
    Workers = {w1, w2}
    Ble = ble
    Puts <- SomePuts
    NoPatch = nopatch
    None = none
    Absent = absent
    Torn = torn
    TornWrites = TRUE
    MaxRequests = 3
    MaxUpsets = 1
SYMMETRY WorkerSymmetry
INVARIANTS TypeOK NoLostUpdate WifiFollowsSettings
PROPERTIES AtomicRegister
CHECK_DEADLOCK FALSE
