SPECIFICATION FairSpec
CONSTANTS
    Trees <- SmallTrees
    MaxWorkers = 3
    RootFiles <- P
    StatusRange = 3
    MaxMatches = 3
    MaxFaults = 1
    PatternChars = {"a", "b", "+"}
    NameChars = {"a", "B", ".", "_"}
    MaxPattern = 4
    MaxName = 4
INVARIANTS
    ReportIsExact
    LeavesNothingBehind
    BacktrackingMatchIsExact
    GreedyMatchIsSound
PROPERTY
    SearchEnds
CHECK_DEADLOCK FALSE
