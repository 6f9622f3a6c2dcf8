SPECIFICATION FairSpec
CONSTANTS
    LockTicks = 2
    TrackRelease = 2
    StartleHold = 2
    ListenSustain = 2
    ListenRelease = 2
    PetSustain = 2
    MaxHold = 2
INVARIANTS
    TypeOK
    AttentionHasOwner
    IntentHasOwner
    OperatorHasTheHead
PROPERTY Settles
