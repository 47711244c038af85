SPECIFICATION Spec
CONSTANTS
    Clients <- MCClients
    Windows <- MCWindows
    TermName <- MCTermName
    Keys <- MCKeys
    DoorMessages <- MCDoorMessages
INVARIANT
    PreambleHolds
