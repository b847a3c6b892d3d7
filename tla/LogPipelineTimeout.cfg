SPECIFICATION Spec
CONSTANTS
    r1 = r1
    r2 = r2
    w1 = w1
    w2 = w2
    a = a
    b = b
    NoLine = NoLine
    Readers <- OneFile
    NumLevels = 4
    Workers = {w1}
    Lines <- ThreeLines
    ReaderOf <- OneReaderOf
    LevelOf <- ThreeLevelOf
    SourceOf <- ThreeSourceOf
    Matches <- ThreeMatches
    Priority = {b}
    CapA = 4
    CapB = 4
    CapD = 2
    MaxSources = 256
    SourcesTried = {"s1", "s2", "s3", "s4", "s5"}
    HitsTried = {1, 2}
    MaxScored = 0
    Fallible = {}
    MayTimeOut = TRUE
INVARIANTS
    AllEofForwarded
