SPECIFICATION FairSpec
CONSTANTS
    alice = alice
    bob = bob
    Users = {alice}
    Handlers = {h1, h2}
    NoUser = NoUser
    InitStatus <- AllRegistered
    InitRole <- AliceModerates
    IntMax = 1
    MaxIds = 3
    Commands = {"LOGIN", "LOGOUT", "MESSAGE", "KICK"}
    CommitsInDoubt = FALSE
    PeersStall = TRUE
    MaxClients = 2
    ProcessDies = FALSE
    NewRoles = {}
PROPERTIES
    CommandsFinish
    KickedLeaves
CHECK_DEADLOCK FALSE
