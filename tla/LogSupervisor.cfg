SPECIFICATION FairSpec
CONSTANTS
    NumChildren = 4
    Hangs <- DownstreamHangs
    MaxSigints = 2
INVARIANTS
    SignalsHitChildren
    RegionsOutliveChildren
PROPERTIES
    ParentEnds
CHECK_DEADLOCK FALSE
