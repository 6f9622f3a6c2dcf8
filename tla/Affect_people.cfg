SPECIFICATION Spec
CONSTANTS
    ManualHold = 2
    GestureHold = 2
    WakeHold = 2
    StartleHold = 1
    SleepHold = 2
    Sustain = 2
    Dwell = 1
    CycleLength = 2
    MaxHold = 2
    OpEmotions = {"Sad"}
    Inputs = {"operator", "tap", "clap", "light", "body", "motion"}
INVARIANTS
    TypeOK
    OperatorShows
PROPERTY
    ExplicitKept
