SPECIFICATION Spec
CONSTANTS
    alice = alice
    bob = bob
    Users = {alice, bob}
    Handlers = {h1, h2, h3}
    NoUser = NoUser
    InitStatus <- BobAbsent
    InitRole <- AliceModerates
    IntMax = 1
    MaxIds = 1
    Commands = {"REGISTER", "LOGIN", "LOGOUT", "BAN", "UNBAN", "KICK"}
    CommitsInDoubt = TRUE
    PeersStall = FALSE
    MaxClients = 2
    ProcessDies = TRUE
    NewRoles = {"user"}
SYMMETRY HandlerSymmetry
INVARIANTS
    TypeOK
    RegistryExact
    NoGhostOnline
    ClientLimit
    ModeratorsOnly
PROPERTY
    BanOutlivesSessions
