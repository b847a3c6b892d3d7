--------------------------- MODULE MCLogPipeline ---------------------------
(***************************************************************************)
(* Small instances of LogPipeline for TLC: line n of an instance is in     *)
(* file ReaderOf[n], has level LevelOf[n], and so on.                      *)
(***************************************************************************)
EXTENDS LogPipeline, TopSources, TLC

CONSTANTS r1, r2, w1, w2, a, b

\* Two files and two levels; two of the three lines come from the priority
\* source b.
TwoFiles      == {r1, r2}
ThreeLines    == 1..3
ThreeReaderOf == <<r1, r1, r2>>
ThreeLevelOf  == <<0, 1, 0>>
ThreeSourceOf == <<a, b, b>>
ThreeMatches  == <<1, 2, 2>>

\* Two lines of one level, one in each file, both from the priority source: the
\* fewest lines that fill Region B and Region D at capacity 1.
TwoLines      == 1..2
TwoReaderOf   == <<r1, r2>>
TwoLevelOf    == <<0, 0>>
TwoSourceOf   == <<b, b>>
TwoMatches    == <<1, 2>>

\* One file and all four levels.
OneFile       == {r1}
OneReaderOf   == <<r1, r1, r1>>

WorkerSymmetry == Permutations(Workers)

-----------------------------------------------------------------------------

\* update_source_hits and compute_top3 (analyzer.c) alone, on every short
\* sequence of scoring lines from more sources than the table has slots: the
\* list is as long as it can be and ranks the first MAX_SOURCES that appear.
TopThreeAreHighest == textFile.written => Top3Exact

=============================================================================
