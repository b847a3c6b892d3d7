------------------------------- MODULE Totals -------------------------------
(***************************************************************************)
(* Sums of natural numbers over a finite set, as the number of units the   *)
(* elements contribute.                                                    *)
(***************************************************************************)
EXTENDS Integers, FiniteSets

\* The units of f: one for each x in S and each number from 1 to f[x].
Units(f, S) == UNION {{x} \X (1..f[x]) : x \in S}

\* The sum of f[x] over the elements x of S.
Total(f, S) == Cardinality(Units(f, S))

=============================================================================
