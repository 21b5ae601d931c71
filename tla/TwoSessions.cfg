SPECIFICATION Spec
CONSTANTS
    alice = alice
    bob = bob
    Users = {alice, bob}
    Handlers = {h1, h2}
    NoUser = NoUser
    InitStatus <- AllRegistered
    InitRole <- PlainRoles
    IntMax = 1
    MaxIds = 2
    Commands = {"LOGIN", "LOGOUT"}
    CommitsInDoubt = FALSE
    PeersStall = FALSE
    MaxClients = 2
    ProcessDies = FALSE
    NewRoles = {}
INVARIANT
    SessionIsOnline
