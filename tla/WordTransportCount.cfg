SPECIFICATION FairSpec
CONSTANTS
    c1 = c1
    c2 = c2
    c3 = c3
    NumFloors = 2
    NumWords = 2
    Length <- OneEach
    SortingFloor <- AcrossFloors
    WordCarriers = 1
    LetterCarriers = 1
    SortersPerFloor = 1
    MaxWordsPerFloor = 1
    Capacity <- Pairs
    Carriers <- TwoCarriers
    Interruptible = FALSE
PROPERTY CompletionEndsRun
CHECK_DEADLOCK FALSE
