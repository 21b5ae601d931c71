SPECIFICATION Spec
CONSTANTS
    alice = alice
    bob = bob
    Users = {alice, bob}
    Handlers = {h1, h2}
    NoUser = NoUser
    InitStatus <- AllRegistered
    InitRole <- AliceModerates
    IntMax = 1
    MaxIds = 2
    Commands = {"LOGIN", "BAN"}
    CommitsInDoubt = FALSE
    PeersStall = FALSE
    MaxClients = 2
    ProcessDies = FALSE
    NewRoles = {}
INVARIANT
    BanTakesEffect
