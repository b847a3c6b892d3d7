----------------------------- MODULE FileNames -----------------------------
(***************************************************************************)
(* The file name matchers of HW2 (pattern.c, with backtracking) and HW1    *)
(* (HW1.c, greedy), in which "c+" stands for one or more c and letters     *)
(* match in either case, against what a pattern means.                     *)
(***************************************************************************)
EXTENDS Integers, Sequences, FiniteSets, SequencesExt, FiniteSetsExt

CONSTANTS
    PatternChars,   \* the characters of the patterns tried
    NameChars,      \* the characters of the names tried
    MaxPattern,     \* bound: longest pattern
    MaxName         \* bound: longest name

ASSUME NamesAssumption == MaxPattern \in Nat /\ MaxName \in Nat

Plus == "+"

\* tolower, on the characters of the instance.
Lower(c) == CASE c = "A" -> "a" [] c = "B" -> "b" [] OTHER -> c

IsAlnum(c) == c \notin {".", "_", Plus}

Same(c, d) == Lower(c) = Lower(d)

-----------------------------------------------------------------------------
(* HW2: match_rec and match_pattern                                        *)

\* The positions behind the run of characters c that starts at position j.
RunEnd(c, s, j) == CHOOSE k \in j..(Len(s) + 1) :
                        /\ \A i \in j..(k - 1) : Same(s[i], c)
                        /\ k = Len(s) + 1 \/ ~Same(s[k], c)

\* Mutant: no backtracking.
LongestRun(c, s, j) == {RunEnd(c, s, j)} \ {j}

\* Where the match may go on after "c+": behind the longest run or, backtracking,
\* behind a shorter one, but never before the second character.
RunEnds(c, s, j) == (j + 1)..RunEnd(c, s, j)

\* match_rec from position i of pattern p and position j of s.
MatchRec(p, s) ==
    LET match[i \in 1..(Len(p) + 2), j \in 1..(Len(s) + 1)] ==
            IF i > Len(p) THEN j > Len(s)
            ELSE IF i < Len(p) /\ p[i + 1] = Plus
            THEN \E k \in RunEnds(p[i], s, j) : match[i + 2, k]
            ELSE j <= Len(s) /\ Same(p[i], s[j]) /\ match[i + 1, j + 1]
    IN  match[1, 1]

\* The name up to its first dot.
Stem(s) == SubSeq(s, 1, Min({i \in DOMAIN s : s[i] = "."} \cup {Len(s) + 1}) - 1)

\* The segments that the scan from position i on tries: skip what is neither
\* letter nor digit, take the run behind it, go on from there.
Segments(s) ==
    LET first(i) == Min({k \in i..Len(s) : IsAlnum(s[k])} \cup {Len(s) + 1})
        end(i)   == Min({k \in first(i)..Len(s) : ~IsAlnum(s[k])} \cup {Len(s) + 1})
        from[i \in 1..(Len(s) + 1)] ==
            IF first(i) > Len(s) THEN {} ELSE {SubSeq(s, first(i), end(i) - 1)} \cup from[end(i)]
    IN  from[1]

MatchPattern(p, s) ==
    \/ MatchRec(p, s)
    \/ MatchRec(p, Stem(s))
    \/ \E segment \in Segments(Stem(s)) : MatchRec(p, segment)

-----------------------------------------------------------------------------
(* HW1: match_filename                                                     *)

\* Mutant: the character in front of "+" is optional.
SkipOptional(c, s, j) == RunEnd(c, s, j)

\* One character c, then as many more as there are; 0 if there is none.
SkipRun(c, s, j) == IF j <= Len(s) /\ Same(s[j], c) THEN RunEnd(c, s, j) ELSE 0

MatchFilename(p, s) ==
    LET match[i \in 1..(Len(p) + 2), j \in 0..(Len(s) + 1)] ==
            IF j = 0 THEN FALSE
            ELSE IF i > Len(p) THEN j > Len(s)
            ELSE IF i < Len(p) /\ p[i + 1] = Plus THEN match[i + 2, SkipRun(p[i], s, j)]
            ELSE j <= Len(s) /\ Same(p[i], s[j]) /\ match[i + 1, j + 1]
    IN  match[1, 1]

-----------------------------------------------------------------------------
(* What a pattern means                                                    *)

\* A pattern read from the left: characters, each repeated or not.
Tokens(p) ==
    LET read[i \in 1..(Len(p) + 2)] ==
            IF i > Len(p) THEN <<>>
            ELSE IF i < Len(p) /\ p[i + 1] = Plus
            THEN <<[char |-> p[i], many |-> TRUE]>> \o read[i + 2]
            ELSE <<[char |-> p[i], many |-> FALSE]>> \o read[i + 1]
    IN  read[1]

\* s consists of one block per token: one or more copies of its character if it
\* is repeated, else one.  cut[k] is where block k starts.
Means(p, s) ==
    LET t == Tokens(p)
        n == Len(t)
    IN  \E cut \in [1..(n + 1) -> 1..(Len(s) + 1)] :
            /\ cut[1] = 1 /\ cut[n + 1] = Len(s) + 1
            /\ \A k \in 1..n :
                 /\ IF t[k].many THEN cut[k + 1] > cut[k] ELSE cut[k + 1] = cut[k] + 1
                 /\ \A i \in cut[k]..(cut[k + 1] - 1) : Same(s[i], t[k].char)

Patterns == BoundedSeq(PatternChars, MaxPattern)
FileNamesTried == BoundedSeq(NameChars, MaxName) \ {<<>>}

\* The longest pieces of s between characters that are neither letters nor digits.
Words(s) == {SubSeq(s, i, j) : <<i, j>> \in
                {<<a, b>> \in (DOMAIN s) \X (DOMAIN s) :
                    /\ a <= b /\ \A k \in a..b : IsAlnum(s[k])
                    /\ a = 1 \/ ~IsAlnum(s[a - 1])
                    /\ b = Len(s) \/ ~IsAlnum(s[b + 1])}}

\* match_pattern accepts exactly the names of which the whole, the stem, or a
\* word of the stem has the form of the pattern.
MatchPatternExact ==
    \A p \in Patterns : \A s \in FileNamesTried :
        MatchPattern(p, s) <=> \E part \in {s, Stem(s)} \cup Words(Stem(s)) : Means(p, part)

\* A repeated character followed by the same character: "a+a", "a+a+".
Ambiguous(p) == LET t == Tokens(p)
                IN  \E k \in 1..(Len(t) - 1) : t[k].many /\ Same(t[k].char, t[k + 1].char)

\* match_filename never accepts a name that does not have the form of the
\* pattern, and misses one only if the pattern is ambiguous.
MatchFilenameSound ==
    \A p \in Patterns : \A s \in FileNamesTried :
        /\ MatchFilename(p, s) => Means(p, s)
        /\ ~Ambiguous(p) => (Means(p, s) => MatchFilename(p, s))

=============================================================================
