SPECIFICATION Spec
CONSTANTS
    r1 = r1
    r2 = r2
    w1 = w1
    w2 = w2
    a = a
    b = b
    NoLine = NoLine
    Readers <- TwoFiles
    NumLevels = 2
    Workers = {w1, w2}
    Lines <- ThreeLines
    ReaderOf <- ThreeReaderOf
    LevelOf <- ThreeLevelOf
    SourceOf <- ThreeSourceOf
    Matches <- ThreeMatches
    Priority = {b}
    CapA = 2
    CapB = 1
    CapD = 1
    MaxSources = 4
    SourcesTried = {"s1", "s2", "s3", "s4", "s5"}
    HitsTried = {1, 2}
    MaxScored = 5
    Fallible = {r2}
    MayTimeOut = TRUE
SYMMETRY WorkerSymmetry
INVARIANTS
    ReportExact
    HighPriorityExact
    TopSourcesExact
    TopThreeAreHighest
    EofClosesLevel
    NoStrandedEntries
PROPERTIES
    ReadyIsFinal
