SPECIFICATION FairSpec
CONSTANTS
    ManualHold = 3
    GestureHold = 2
    WakeHold = 2
    StartleHold = 1
    SleepHold = 2
    Sustain = 2
    Dwell = 2
    CycleLength = 5
    MaxHold = 2
    OpEmotions = {"Sad"}
    Inputs = {"voice", "light", "battery"}
PROPERTIES
    VoiceWakes
    MoodSettles
