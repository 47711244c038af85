SPECIFICATION FairSpec
CONSTANTS
    Clients <- MCClients
    Windows <- MCWindows
    TermName <- MCTermName
    Keys <- MCKeys
    DoorMessages <- MCDoorMessages
INVARIANTS
    TypeOK
    MessagesIntact
    Outcome
    SizeFollows
    DoorRendering
PROPERTY
    Settles
