SPECIFICATION Spec
CONSTANTS
    w1 = w1
    w2 = w2
    herb = herb
    NoClient = NoClient
    NoName = NoName
    Clients <- Wizards
    Names = {"harry", "ron"}
    RoleOf <- AllWizards
    MaxClients = 2
    Timeout = 1
    MaxTyped = 2
    MaxPending = 2
    MaxFailures = 0
    MaxLine = 2
    LastLine <- OneX
    BytesTried = {"x", "nl", "cr"}
    MaxStream = 7
    Initial <- OneHerb
    Lines <- Potions
SYMMETRY WizardSymmetry
INVARIANTS
    StockCoversSpellbooks
    NamesAreUnique
    RecvNeverBlocks
    AnsweredOnce
    LinesReassembled
