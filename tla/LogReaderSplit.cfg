SPECIFICATION FairSpec
CONSTANTS
    NumThreads = 3
    Capacity = 2
    NumLevels = 2
    MaxFileSize = 7
INVARIANTS
    EveryLineReadOnce
    NoWakeupLost
PROPERTIES
    ImplementsLineStream
    ReaderCompletes
