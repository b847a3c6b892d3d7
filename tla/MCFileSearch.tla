---------------------------- MODULE MCFileSearch ----------------------------
(***************************************************************************)
(* FileSearch on small trees, and the matchers of FileNames on all short   *)
(* patterns and names.                                                     *)
(***************************************************************************)
EXTENDS FileSearch, FileNames

P == <<"plain">>
S == <<"spaced">>

\* No subdirectory; fewer subdirectories than workers; more of them, with
\* enough matches for one worker's count to leave the range of a status and
\* for all of them to leave the list.
SmallTrees == {<<>>, <<P, P \o S>>, <<P \o P, P, S, P>>}

-----------------------------------------------------------------------------

\* What a report lists is what its pattern asks for: "The '+' operator means
\* one or more of the immediately preceding character" (pattern.h).  On every
\* short pattern and name the runs with backtracking of pattern.c miss no
\* match and find no false one.
BacktrackingMatchIsExact == report # NoReport => MatchPatternExact

\* The matcher of HW1, given the same patterns and names: without backtracking
\* it finds no false match, and misses one only where a pattern repeats a
\* character and then asks for it again, as in "a+a" (HW1.c).
GreedyMatchIsSound == report # NoReport => MatchFilenameSound

=============================================================================
