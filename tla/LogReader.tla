----------------------------- MODULE LogReader -----------------------------
(***************************************************************************)
(* One HW4 reader process: reader threads that split the log file by byte  *)
(* ranges, the private ring buffer between them and the parser thread, and *)
(* the parser thread that forwards entries to Region A and ends with one   *)
(* EOF marker per level.                                                   *)
(*                                                                         *)
(* A file is a sequence of bytes of which only "is it a newline" matters;  *)
(* a line is named by the offset of its first byte, and which lines parse  *)
(* as log entries is an input.  Region A is never full here: the parser's  *)
(* waits there are in LogPipeline.                                         *)
(***************************************************************************)
EXTENDS Totals, Integers, Sequences, FiniteSets, FiniteSetsExt

CONSTANTS
    NumThreads,   \* reader_threads
    Capacity,     \* capacity of the private buffer
    NumLevels,    \* MAX_LEVELS
    MaxFileSize   \* bound on the files explored

ASSUME ReaderAssumption ==
    /\ NumThreads \in Nat \ {0}
    /\ Capacity \in Nat \ {0}
    /\ NumLevels \in 1..4
    /\ MaxFileSize \in Nat

Threads == 0..(NumThreads - 1)

NL == "\n"
Other == "x"     \* any other byte

NoLine == -1

VARIABLES
    file,         \* the bytes of the log file, file[i + 1] at offset i
    wellFormed,   \* the lines parse_log_line accepts
    tpc,          \* [Threads -> ...]: where a reader thread is
    pos,          \* [Threads -> Nat]: its stream position
    parsed,       \* [Threads -> line]: the entry it is about to push
    linesRead,    \* [Threads -> Nat]
    malformed,    \* [Threads -> Nat]
    entries,      \* [0..Capacity-1 -> line]: the ring of the private buffer
    head, tail, count,
    producersDone,
    notFull,      \* threads waiting on not_full
    ppc,          \* where the parser thread is
    current,      \* the parser's local variable entry
    eofLevel,     \* the level of its EOF loop
    output        \* what it pushed to Region A

fileVars   == <<file, wellFormed>>
threadVars == <<tpc, pos, parsed, linesRead, malformed>>
ringVars   == <<entries, head, tail, count>>
parserVars == <<ppc, current, eofLevel, output>>
vars == <<fileVars, threadVars, ringVars, producersDone, notFull, parserVars>>

-----------------------------------------------------------------------------
(* The file and its byte ranges                                            *)

Size == Len(file)

\* The offset behind the first newline at or after offset i, or the file size.
AfterNewline(i) ==
    LET ends == {j \in i..(Size - 1) : file[j + 1] = NL}
    IN  IF ends = {} THEN Max({i, Size}) ELSE Min(ends) + 1

\* chunk = ceil(file_size / reader_threads)
Chunk == (Size + NumThreads - 1) \div NumThreads

StartOffset(t) == t * Chunk
EndOffset(t)   == Min({(t + 1) * Chunk, Size})
IsLast(t)      == t = NumThreads - 1

\* Mutant: the byte in front of the range is not looked at.
AlwaysSkips(t) == IF StartOffset(t) = 0 THEN 0 ELSE AfterNewline(StartOffset(t))

\* Where a thread's stream stands after the boundary check: a thread that does
\* not start right behind a newline skips the rest of the line it fell into.
\* Past the end of the file fgetc returns EOF and the position stays.
BoundaryPosition(t) ==
    LET start == StartOffset(t)
    IN  IF start = 0 THEN 0
        ELSE IF start - 1 >= Size THEN start - 1
        ELSE IF file[start] = NL THEN start
        ELSE AfterNewline(start)

\* Reference: the lines of a file by definition.
LineStarts(f) == {i \in 0..(Len(f) - 1) : i = 0 \/ f[i] = NL}

\* A blank line never parses.
MayParse(f) == {i \in LineStarts(f) : f[i + 1] # NL}

Files == UNION {[1..n -> {NL, Other}] : n \in 0..MaxFileSize}

Init ==
    /\ file \in Files
    /\ wellFormed \in SUBSET MayParse(file)
    /\ tpc = [t \in Threads |-> "start"]
    /\ pos = [t \in Threads |-> 0]
    /\ parsed = [t \in Threads |-> NoLine]
    /\ linesRead = [t \in Threads |-> 0]
    /\ malformed = [t \in Threads |-> 0]
    /\ entries = [i \in 0..(Capacity - 1) |-> NoLine]
    /\ head = 0 /\ tail = 0 /\ count = 0
    /\ producersDone = FALSE
    /\ notFull = {}
    /\ ppc = "pop" /\ current = NoLine /\ eofLevel = 0
    /\ output = <<>>

-----------------------------------------------------------------------------
(* The private buffer                                                      *)

NextIndex(i) == (i + 1) % Capacity

\* Mutant: the signal of not_full is missing.
SignalledNobody(waiters) == {{}}

\* The sets of threads one signal of not_full may wake.
Signalled(waiters) == IF waiters = {} THEN {{}} ELSE {{t} : t \in waiters}

\* Mutant: the signal is missing.
StaysAsleep(pc) == pc

\* A signal or broadcast of not_empty: only the parser waits there.
Awake(pc) == IF pc = "wait" THEN "pop" ELSE pc

\* Mutant: what is left in the buffer is forgotten.
ProducersGone == producersDone

Drained == count = 0 /\ producersDone

-----------------------------------------------------------------------------
(* Reader threads                                                          *)

\* Open the file, seek to the range, settle on a line boundary.
OpenAndSeek(t) ==
    /\ tpc[t] = "start"
    /\ pos' = [pos EXCEPT ![t] = BoundaryPosition(t)]
    /\ tpc' = [tpc EXCEPT ![t] = "read"]
    /\ UNCHANGED <<fileVars, parsed, linesRead, malformed, ringVars,
                   producersDone, notFull, parserVars>>

\* A thread stops at the first line that starts at or behind its range; the
\* last thread, and everyone at the end of the file, when getline fails.
RangeExhausted(t) == \/ ~IsLast(t) /\ pos[t] >= EndOffset(t)
                     \/ pos[t] >= Size

ReadLine(t) ==
    /\ tpc[t] = "read"
    /\ ~RangeExhausted(t)
    /\ pos' = [pos EXCEPT ![t] = AfterNewline(@)]
    /\ IF pos[t] \in wellFormed
       THEN /\ parsed' = [parsed EXCEPT ![t] = pos[t]]
            /\ tpc' = [tpc EXCEPT ![t] = "push"]
            /\ UNCHANGED <<linesRead, malformed>>
       ELSE /\ malformed' = [malformed EXCEPT ![t] = @ + 1]
            /\ linesRead' = [linesRead EXCEPT ![t] = @ + 1]
            /\ UNCHANGED <<parsed, tpc>>
    /\ UNCHANGED <<fileVars, ringVars, producersDone, notFull, parserVars>>

ThreadEnds(t) ==
    /\ tpc[t] = "read"
    /\ RangeExhausted(t)
    /\ tpc' = [tpc EXCEPT ![t] = "ended"]
    /\ UNCHANGED <<fileVars, pos, parsed, linesRead, malformed, ringVars,
                   producersDone, notFull, parserVars>>

\* private_buffer_push: store at tail, signal not_empty (only the parser waits
\* there); lines_read is counted behind it.
PushPrivate(t) ==
    /\ tpc[t] = "push" /\ t \notin notFull
    /\ count < Capacity
    /\ entries' = [entries EXCEPT ![tail] = parsed[t]]
    /\ tail' = NextIndex(tail)
    /\ count' = count + 1
    /\ ppc' = Awake(ppc)
    /\ parsed' = [parsed EXCEPT ![t] = NoLine]
    /\ linesRead' = [linesRead EXCEPT ![t] = @ + 1]
    /\ tpc' = [tpc EXCEPT ![t] = "read"]
    /\ UNCHANGED <<fileVars, pos, malformed, head, producersDone, notFull,
                   current, eofLevel, output>>

PushPrivateWaits(t) ==
    /\ tpc[t] = "push" /\ t \notin notFull
    /\ count = Capacity
    /\ notFull' = notFull \cup {t}
    /\ UNCHANGED <<fileVars, threadVars, ringVars, producersDone, parserVars>>

-----------------------------------------------------------------------------
(* The main thread and the parser thread                                   *)

\* After joining every reader thread: producers_done, broadcast not_empty.
ProducersDone ==
    /\ ~producersDone
    /\ \A t \in Threads : tpc[t] = "ended"
    /\ producersDone' = TRUE
    /\ ppc' = Awake(ppc)
    /\ UNCHANGED <<fileVars, threadVars, ringVars, notFull, current, eofLevel, output>>

\* private_buffer_pop with an entry there: take it from head, signal not_full.
PopPrivate ==
    /\ ppc = "pop" /\ count > 0
    /\ current' = entries[head]
    /\ head' = NextIndex(head)
    /\ count' = count - 1
    /\ \E woken \in Signalled(notFull) : notFull' = notFull \ woken
    /\ ppc' = "forward"
    /\ UNCHANGED <<fileVars, threadVars, entries, tail, producersDone, eofLevel, output>>

PopPrivateWaits ==
    /\ ppc = "pop" /\ count = 0 /\ ~producersDone
    /\ ppc' = "wait"
    /\ UNCHANGED <<fileVars, threadVars, ringVars, producersDone, notFull,
                   current, eofLevel, output>>

\* Empty and producers done: the drain loop ends, the EOF loop begins.
PopPrivateEnds ==
    /\ ppc = "pop" /\ Drained
    /\ ppc' = "eof"
    /\ UNCHANGED <<fileVars, threadVars, ringVars, producersDone, notFull,
                   current, eofLevel, output>>

\* push_region_a of the popped entry.
Forward ==
    /\ ppc = "forward"
    /\ output' = Append(output, [is_eof |-> FALSE, value |-> current])
    /\ current' = NoLine
    /\ ppc' = "pop"
    /\ UNCHANGED <<fileVars, threadVars, ringVars, producersDone, notFull, eofLevel>>

\* push_region_a of the EOF marker of the next level.
ForwardEof ==
    /\ ppc = "eof"
    /\ output' = Append(output, [is_eof |-> TRUE, value |-> eofLevel])
    /\ eofLevel' = eofLevel + 1
    /\ ppc' = IF eofLevel + 1 < NumLevels THEN "eof" ELSE "ended"
    /\ UNCHANGED <<fileVars, threadVars, ringVars, producersDone, notFull, current>>

-----------------------------------------------------------------------------

ReaderThread(t) == \/ OpenAndSeek(t) \/ ReadLine(t) \/ ThreadEnds(t)
                   \/ PushPrivate(t) \/ PushPrivateWaits(t)

ParserThread == \/ PopPrivate \/ PopPrivateWaits \/ PopPrivateEnds
                \/ Forward \/ ForwardEof

\* run_reader_process returns after joining the parser thread.
Exited == ppc = "ended" /\ UNCHANGED vars

Next == \/ \E t \in Threads : ReaderThread(t)
        \/ ProducersDone
        \/ ParserThread
        \/ Exited

Spec == Init /\ [][Next]_vars

\* Threads are scheduled fairly; nothing else is assumed.
FairSpec == /\ Spec
            /\ \A t \in Threads : WF_vars(ReaderThread(t))
            /\ WF_vars(ProducersDone)
            /\ WF_vars(ParserThread)

-----------------------------------------------------------------------------
(* Properties                                                              *)

\* Type correctness; the ring indices stay inside the ring.
TypeOK ==
    /\ tpc \in [Threads -> {"start", "read", "push", "ended"}]
    /\ pos \in [Threads -> Nat]
    /\ linesRead \in [Threads -> Nat] /\ malformed \in [Threads -> Nat]
    /\ entries \in [0..(Capacity - 1) -> Int]
    /\ parsed \in [Threads -> Int] /\ current \in Int
    /\ head \in 0..(Capacity - 1) /\ tail \in 0..(Capacity - 1)
    /\ count \in 0..Capacity
    /\ producersDone \in BOOLEAN
    /\ notFull \subseteq Threads
    /\ ppc \in {"pop", "wait", "forward", "eof", "ended"}
    /\ eofLevel \in 0..NumLevels

\* The byte ranges partition the lines: when all threads have ended, every line
\* of the file, also one longer than a range or without a final newline, was
\* read by exactly one thread (reader_thread_main's boundary rule).
EveryLineReadOnce ==
    (\A t \in Threads : tpc[t] = "ended") =>
        /\ Total(linesRead, Threads) = Cardinality(LineStarts(file))
        /\ Total(malformed, Threads) = Cardinality(LineStarts(file) \ wellFormed)

\* No wake-up of the private buffer is lost: the parser sleeps only while there
\* is nothing to take and more to come, and while reader threads sleep on
\* not_full there is an entry to take, whose removal signals them, or a reader
\* thread that was woken and is about to push.
NoWakeupLost ==
    /\ ppc = "wait" => count = 0 /\ ~producersDone
    /\ notFull # {} => count > 0 \/ \E t \in Threads \ notFull : tpc[t] = "push"

\* The reader process implements the abstract stream: each well-formed line is
\* handed over exactly once and all EOF markers come behind, in level order.
Stream == INSTANCE LineStream WITH lines <- wellFormed, stream <- output
ImplementsLineStream == Stream!Spec

\* The process eventually exits having sent all its EOF markers.
ReaderCompletes == <>(ppc = "ended")

=============================================================================
