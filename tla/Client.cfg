SPECIFICATION FairSpec
CONSTANTS
    Users = {alice, bob}
    NoUser = NoUser
    MaxFlight = 2
INVARIANTS
    TypeOK
    InSync
    ShownMeansSession
PROPERTIES
    RunReturns
    CloseIsNoticed
    UnattendedEnds
CHECK_DEADLOCK FALSE
