SPECIFICATION FairSpec
CONSTANTS
    bob = bob
    admin = admin
    Users = {admin, bob}
    Conns = {c1, c2}
    NoConn = NoConn
    MaxInFlight = 1
INVARIANTS
    TypeOK
    BanColumnRight
PROPERTY
    GuiReturns
