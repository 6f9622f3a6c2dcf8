SPECIFICATION FairSpec
CONSTANTS
    Ssids = {home, other}
    Psks = {key, tiny}
    Home = home
    Key = key
    Scrap = scrap
    Tiny = {tiny}
    Long = {key}
    Huge = {other}
    Rejected = {scrap}
    PskCap = 3
    SsidCap = 2
    Backoffs = 2
    MaxDoubts = 1
INVARIANTS
    StagedAsSent
PROPERTIES
    JoinsTheLast
    PhoneLearns
