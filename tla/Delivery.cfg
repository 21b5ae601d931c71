SPECIFICATION Spec
CONSTANTS
    alice = alice
    bob = bob
    Users = {alice, bob}
    Handlers = {h1, h2, h3}
    NoUser = NoUser
    InitStatus <- AllRegistered
    InitRole <- PlainRoles
    IntMax = 1
    MaxIds = 2
    Commands = {"LOGIN", "MESSAGE"}
    CommitsInDoubt = TRUE
    PeersStall = FALSE
    MaxClients = 3
    ProcessDies = FALSE
    NewRoles = {}
SYMMETRY HandlerSymmetry
INVARIANTS
    DeliveredToAllActive
    DeliveredIsStored
