SPECIFICATION FairSpec
CONSTANTS
    None = None
    Command = Command
    Ack = Ack
    Touches = {{}, {"left"}, {"right"}, {"left", "right"}, {"left", "centre"}}
    TapWindow = 3
    Latch = 5
    Delay = 2
    InboxCap = 2
    MaxPrompts = 2
    MaxDrops = 1
    MaxBursts = 1
INVARIANTS AnsweredOnce NoGhostPrompt
PROPERTIES TwoTapsDecide GhostHeals PromptReturns
CHECK_DEADLOCK FALSE
