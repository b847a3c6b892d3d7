SPECIFICATION Spec
CONSTANTS
    NumFloors = 2
    NumWords = 2
    Length <- TwoAndOne
    SortingFloor <- AcrossFloors
    WordCarriers = 1
    LetterCarriers = 1
    SortersPerFloor = 1
    MaxWordsPerFloor = 1
    Capacity <- Pairs
    c1 = c1
    c2 = c2
    c3 = c3
    Carriers <- ThreeCarriers
    Interruptible = TRUE
SYMMETRY CarrierSymmetry
INVARIANTS
    LettersConserved
    CapacityRespected
    NoFloorForgotten
    WaitersAreServed
    OutputIsComplete
CHECK_DEADLOCK FALSE
