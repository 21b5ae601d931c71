SPECIFICATION FairSpec
CONSTANTS
    Numbers <- Written_
    Defaults <- SmallDefaults
    IntMax = 7
    SizeMod = 32
    PortMod = 4
    MinFrameSize = 2
    ConnLimit = 3
INVARIANTS
    ServesAsWritten
    ReadyWhenListening
PROPERTY
    StartupEnds
CHECK_DEADLOCK FALSE
