SPECIFICATION FairSpec
CONSTANTS
    s1 = s1
    s2 = s2
    NoSession = NoSession
    Sessions <- MCSessions
    MaxThreads = 2
    MaxPosts = 3
    MaxClock = 1
INVARIANTS
    TypeOK
    OpeningPost
    ActivityOfLastPost
    OpenThreadLoads
    ConnHeldInTx
PROPERTIES
    AtomicSpec
    DatabaseAnswers
