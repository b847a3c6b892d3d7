----------------------------- MODULE LogScoring -----------------------------
(***************************************************************************)
(* The arithmetic of the HW4 log analyzer: level weights, the per-level    *)
(* table of source scores a worker updates under local_mutex, and the      *)
(* top-3 list an analyzer publishes.  These are operators without state;   *)
(* LogPipeline calls them in its actions and TopSources checks them        *)
(* against reference definitions.                                          *)
(***************************************************************************)
EXTENDS Integers, Sequences

CONSTANT MaxSources      \* MAX_SOURCES, 256 in the code: slots of the source table

ASSUME MaxSourcesAssumption == MaxSources \in Nat \ {0}

-----------------------------------------------------------------------------

\* The scoring weight of a level index: ERROR 4, WARN 3, INFO 2, DEBUG 1.
LevelWeight(level) == IF level \in 0..3 THEN 4 - level ELSE 0

\* A slot of the table: source_names[i] with source_hits[i].
Slot(source, hits) == [source |-> source, hits |-> hits]

\* Mutant: a repeated source starts over.
RestartSourceHits(table, source, hits) ==
    LET slots == {i \in 1..Len(table) : table[i].source = source}
    IN  IF slots # {}
        THEN LET i == CHOOSE j \in slots : \A k \in slots : j <= k
             IN  [table EXCEPT ![i].hits = hits]
        ELSE IF Len(table) < MaxSources
             THEN Append(table, Slot(source, hits))
             ELSE table

\* update_source_hits: add to the slot of the source, else append a slot,
\* else (table full) drop the hits silently.
UpdateSourceHits(table, source, hits) ==
    LET slots == {i \in 1..Len(table) : table[i].source = source}
    IN  IF slots # {}
        THEN LET i == CHOOSE j \in slots : \A k \in slots : j <= k
             IN  [table EXCEPT ![i].hits = @ + hits]
        ELSE IF Len(table) < MaxSources
             THEN Append(table, Slot(source, hits))
             ELSE table

NoSource == "-"          \* an empty top_source name, printed as "-"

EmptyTop3 == <<Slot(NoSource, 0), Slot(NoSource, 0), Slot(NoSource, 0)>>

\* Mutant: the slots behind the new one do not move down.
OverwriteTop3(best, slot) ==
    LET beaten == {j \in 1..3 : slot.hits > best[j].hits}
    IN  IF beaten = {} THEN best
        ELSE [best EXCEPT ![CHOOSE k \in beaten : \A m \in beaten : k <= m] = slot]

\* One iteration of the outer loop of compute_top3: the slot goes before the
\* first of the three best it strictly exceeds; the ones behind it move down.
InsertTop3(best, slot) ==
    LET beaten == {j \in 1..3 : slot.hits > best[j].hits}
    IN  IF beaten = {} THEN best
        ELSE LET j == CHOOSE k \in beaten : \A m \in beaten : k <= m
             IN  [i \in 1..3 |-> IF i < j THEN best[i]
                                 ELSE IF i = j THEN slot
                                 ELSE best[i - 1]]

\* compute_top3: best[i] is the list after the first i slots of the table.
ComputeTop3(table) ==
    LET best[i \in 0..Len(table)] ==
            IF i = 0 THEN EmptyTop3 ELSE InsertTop3(best[i - 1], table[i])
    IN  best[Len(table)]

=============================================================================
