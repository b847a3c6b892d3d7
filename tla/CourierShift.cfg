SPECIFICATION FairSpec
CONSTANTS
    NumCouriers = 3
    MaxOrders = 3
    Inputs <- OrderFiles
INVARIANTS
    OrdersConserved
    WaitersWillBeWoken
    SummaryAccountsForAll
PROPERTIES
    MostUrgentFirst
    ShiftEnds
