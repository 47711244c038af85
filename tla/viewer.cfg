SPECIFICATION Spec
CONSTANTS
    InitialThreads <- MCThreads
    OtherPosts <- MCOthers
    MaxPosts = 3
    Widths = {9, 12}
    Heights = {8, 10}
    Digits = {0, 2}
    MaxDigits = 2
    maxMessageChars = 5
    MaxExcess = 2
INVARIANTS
    TypeOK
    NoBlankPage
    TextFits
    OnlyLastLost
    LinesFit
PROPERTIES
    PagesTurn
    ReplyShown
