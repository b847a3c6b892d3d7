----------------------------- MODULE TopSources -----------------------------
(***************************************************************************)
(* What the source table and the top-3 list of one HW4 analyzer level      *)
(* should show, for every short sequence of scoring lines.                 *)
(***************************************************************************)
EXTENDS LogScoring, FiniteSets, FiniteSetsExt, SequencesExt

CONSTANTS
    SourcesTried,   \* sources of the level
    HitsTried,      \* weighted scores a line may earn
    MaxScored       \* bound: scoring lines

ASSUME TopSourcesAssumption == HitsTried \subseteq Nat \ {0} /\ MaxScored \in Nat

\* Workers score the lines one after the other, under local_mutex.
TableAfter(lines) ==
    FoldLeft(LAMBDA table, l : UpdateSourceHits(table, l.source, l.hits), <<>>, lines)

\* The sources that find a slot: the first MAX_SOURCES that appear.
Admitted(lines) ==
    {s \in SourcesTried :
        \E i \in DOMAIN lines :
            /\ lines[i].source = s
            /\ Cardinality({lines[k].source : k \in 1..(i - 1)} \ {s}) < MaxSources}

Earned(lines, s) ==
    MapThenSumSet(LAMBDA i : lines[i].hits, {i \in DOMAIN lines : lines[i].source = s})

\* The list is as long as it can be, shows what the sources earned, best first,
\* and no admitted source that is left out beats a listed one.
Top3Exact ==
    \A lines \in BoundedSeq([source : SourcesTried, hits : HitsTried], MaxScored) :
        LET top    == ComputeTop3(TableAfter(lines))
            shown  == {i \in 1..3 : top[i].source # NoSource}
            listed == {top[i].source : i \in shown}
            scorers == Admitted(lines)
        IN  /\ Cardinality(listed) = Cardinality(shown)
            /\ Cardinality(shown) = Min({Cardinality(scorers), 3})
            /\ \A i \in shown : top[i].source \in scorers /\ top[i].hits = Earned(lines, top[i].source)
            /\ \A i \in 1..2 : top[i].hits >= top[i + 1].hits
            /\ \A s \in scorers \ listed : Earned(lines, s) <= top[3].hits

=============================================================================
