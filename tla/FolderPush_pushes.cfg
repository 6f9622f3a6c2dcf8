SPECIFICATION Spec
CONSTANTS
    None = None
    Absent = Absent
    Torn = Torn
    Folders = {x, y}
    Files = {a}
    MaxFile = 2
    InboxCap = 2
    MaxTransfers = 2
    MaxUpsets = 2
    MaxTraffic = 2
    x = x
    y = y
    a = a
INVARIANTS LandedIsOnCard NothingForeign UndisturbedAccepted
PROPERTIES DeliversInTurn
CHECK_DEADLOCK FALSE
