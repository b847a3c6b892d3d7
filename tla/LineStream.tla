----------------------------- MODULE LineStream -----------------------------
(***************************************************************************)
(* What a reader process promises the dispatcher: a stream with every      *)
(* well-formed line of its file exactly once, in any order, followed by    *)
(* one EOF marker per level in level order.  LogReader implements this     *)
(* specification; the readers of LogPipeline are written after it.         *)
(***************************************************************************)
EXTENDS Integers, Sequences, FiniteSets

CONSTANT NumLevels

VARIABLES
    lines,    \* the well-formed lines of the file
    stream    \* what was handed to Region A so far

EofItem(level) == [is_eof |-> TRUE, value |-> level]
LineItem(line) == [is_eof |-> FALSE, value |-> line]

\* The items handed over so far, and those still to come.
Sent    == {stream[i] : i \in 1..Len(stream)}
Pending == {LineItem(n) : n \in lines} \ Sent

\* EOF markers already sent: the length of the stream beyond the lines.
EofsSent == Len(stream) - Cardinality(lines)

Init == stream = <<>>

SendLine == /\ \E item \in Pending : stream' = Append(stream, item)
            /\ lines' = lines

SendEof == /\ Pending = {}
           /\ EofsSent \in 0..(NumLevels - 1)
           /\ stream' = Append(stream, EofItem(EofsSent))
           /\ lines' = lines

Next == SendLine \/ SendEof

Spec == Init /\ [][Next]_<<lines, stream>>

=============================================================================
