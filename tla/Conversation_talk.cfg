SPECIFICATION FairSpec
CONSTANTS
    QueueSize = 2
    SpeechSize = 2
    MaxHold = 2
INVARIANTS
    NeverHeldUp
    OneFace
    NothingCutOff
PROPERTIES
    PressServed
    ReplyHeard
    FaceComesBack
