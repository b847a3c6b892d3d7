SPECIFICATION FairSpec
CONSTANTS
    w1 = w1
    w2 = w2
    herb = herb
    NoClient = NoClient
    NoName = NoName
    Clients <- Wizards
    Names = {"harry"}
    RoleOf <- AllWizards
    MaxClients = 2
    Timeout = 1
    MaxTyped = 1
    MaxPending = 1
    MaxFailures = 1
    MaxLine = 2
    LastLine <- OneX
    BytesTried = {"x", "nl", "cr"}
    MaxStream = 0
    Initial <- OneHerb
    Lines <- Queries
INVARIANT
    ConnectionsTracked
PROPERTIES
    EveryClientEnds
    ShutdownEnds
