SPECIFICATION FairSpec
CONSTANTS
    Bytes <- MCBytes
    Readers <- MCReaders
    MaxTyped = 4
    MaxVisits = 2
INVARIANTS
    TypeOK
    NoLostWakeup
    InputInOrder
    NothingTypedIsLost
    RemotePumpConfined
PROPERTIES
    LinkDownEndsAll
    DoorHangupReturns
    CtrlDReturns
