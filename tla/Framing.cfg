SPECIFICATION FairSpec
CONSTANTS
    own = own
    other = other
    Senders = {own, other}
    Scripts <- MixedScripts
    Base = 2
    SendMax = 3
    RecvMax = 2
    PipeSize = 6
    NoSender = NoSender
INVARIANT
    TooLargeIsReal
PROPERTIES
    ImplementsChannel
    EverythingArrives
CHECK_DEADLOCK FALSE
