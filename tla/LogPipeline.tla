---------------------------- MODULE LogPipeline ----------------------------
(***************************************************************************)
(* The HW4 log analyzer as its processes see each other: reader processes  *)
(* fill Region A, the dispatcher routes to one Region B queue per level    *)
(* and copies high-priority entries to Region D, the worker threads of one *)
(* analyzer process per level score Region B, merge their thread-local     *)
(* totals into Region C, and the aggregator drains Region D, collects the  *)
(* four results and writes the report.                                     *)
(*                                                                         *)
(* Every critical section is one action.  A thread that finds its          *)
(* predicate false inside the section joins the wait set of the condition  *)
(* variable; signal removes one member of the set, broadcast all of them,  *)
(* and a removed thread evaluates the predicate again.  What happens       *)
(* inside a reader process before push_region_a is in LogReader; here a    *)
(* reader owns a set of parsed lines and hands them over in any order.     *)
(***************************************************************************)
EXTENDS LogScoring, Totals, FiniteSets, SequencesExt

CONSTANTS
    Readers,      \* reader processes, one per log file
    NumLevels,    \* MAX_LEVELS, 4 in the code
    Workers,      \* worker_threads of every analyzer process
    Lines,        \* the well-formed lines of all files
    NoLine,       \* no line: the line of an EOF marker, the task of an idle worker
    ReaderOf,     \* [Lines -> Readers], the file a line is in
    LevelOf,      \* [Lines -> Levels], its parsed level
    SourceOf,     \* [Lines -> Sources], its source: alphanumeric and not empty
    Matches,      \* [Lines -> Nat], its keyword matches, over all keywords
    Priority,     \* the sources of the filter file
    CapA, CapB, CapD,   \* capacities of Regions A, B and D
    Fallible,     \* readers whose process may die (stat, fopen... -> die_errno)
    MayTimeOut    \* whether Region A may stay empty for timeout_sec

Levels == 0..(NumLevels - 1)

ASSUME ConstantsAssumption ==
    /\ IsFiniteSet(Readers) /\ Readers # {}
    /\ NumLevels \in 1..4
    /\ IsFiniteSet(Workers) /\ Workers # {}
    /\ IsFiniteSet(Lines) /\ NoLine \notin Lines
    /\ ReaderOf \in [Lines -> Readers]
    /\ LevelOf \in [Lines -> Levels]
    /\ Lines = DOMAIN SourceOf /\ \A n \in Lines : SourceOf[n] # NoSource
    /\ Matches \in [Lines -> Nat]
    /\ CapA \in Nat \ {0} /\ CapB \in Nat \ {0} /\ CapD \in Nat \ {0}
    /\ Fallible \subseteq Readers
    /\ MayTimeOut \in BOOLEAN

\* log_entry_t, without the text the routing does not look at.
Entry(n)      == [is_eof |-> FALSE, reader_id |-> ReaderOf[n],
                  level_index |-> LevelOf[n], line |-> n]
EofMarker(r, l) == [is_eof |-> TRUE, reader_id |-> r,
                    level_index |-> l, line |-> NoLine]

Entries    == {Entry(n) : n \in Lines}
EofMarkers == {EofMarker(r, l) : r \in Readers, l \in Levels}

\* The weighted score of a line: matches times the weight of its level.
Weighted(n) == Matches[n] * LevelWeight(LevelOf[n])

VARIABLES
    unread,       \* [Readers -> SUBSET Lines]: lines not yet pushed to Region A
    eofNext,      \* [Readers -> 0..NumLevels]: level of the next EOF marker
    dead,         \* readers whose process died
    regionA,      \* Region A, oldest first
    eofCount,     \* eof_count_per_level of Region A
    notFullA,     \* readers waiting on not_full_a
    dpc,          \* where the dispatcher is
    held,         \* the dispatcher's local variable entry
    eofSeen,      \* the dispatcher's eof_seen
    finishedLevels, \* the dispatcher's finished_levels
    regionB,      \* [Levels -> Seq(Entries)]
    eofPosted,    \* [Levels -> BOOLEAN]
    notEmptyB,    \* [Levels -> SUBSET Workers]: workers waiting on not_empty_b
    regionD,      \* Region D, oldest first
    dispatcherDone,
    wpc,          \* [Levels -> [Workers -> ...]]: where a worker is
    task,         \* [Levels -> [Workers -> Lines \cup {NoLine}]]: the line it scores
    tls,          \* [Levels -> [Workers -> [entries, score]]]: thread-local totals
    sources,      \* [Levels -> Seq(Slot)]: source_names and source_hits
    results,      \* Region C, level_result_t of each level
    analyzer,     \* [Levels -> ...]: where the analyzer's main thread is
    levelReady,   \* [Levels -> Nat]: the level_ready semaphores
    gpc,          \* where the aggregator is
    gLevel,       \* the level it collects next
    highPriority, \* high_priority_score and high_priority_entries
    textFile, binaryFile    \* the two output files

readerVars     == <<unread, eofNext, dead>>
regionAVars    == <<regionA, eofCount, notFullA>>
dispatcherVars == <<dpc, held, eofSeen, finishedLevels>>
regionBVars    == <<regionB, eofPosted, notEmptyB>>
regionDVars    == <<regionD, dispatcherDone>>
workerVars     == <<wpc, task, tls, sources>>
resultVars     == <<results, analyzer, levelReady>>
aggregatorVars == <<gpc, gLevel, highPriority, textFile, binaryFile>>
vars == <<readerVars, regionAVars, dispatcherVars, regionBVars, regionDVars,
          workerVars, resultVars, aggregatorVars>>

NoReport == [written |-> FALSE]

Init ==
    /\ unread  = [r \in Readers |-> {n \in Lines : ReaderOf[n] = r}]
    /\ eofNext = [r \in Readers |-> 0]
    /\ dead = {}
    /\ regionA = <<>> /\ eofCount = [l \in Levels |-> 0] /\ notFullA = {}
    /\ dpc = "pop" /\ held = NoLine
    /\ eofSeen = [l \in Levels |-> 0] /\ finishedLevels = 0
    /\ regionB = [l \in Levels |-> <<>>]
    /\ eofPosted = [l \in Levels |-> FALSE]
    /\ notEmptyB = [l \in Levels |-> {}]
    /\ regionD = <<>> /\ dispatcherDone = FALSE
    /\ wpc  = [l \in Levels |-> [w \in Workers |-> "pop"]]
    /\ task = [l \in Levels |-> [w \in Workers |-> NoLine]]
    /\ tls  = [l \in Levels |-> [w \in Workers |-> [entries |-> 0, score |-> 0]]]
    /\ sources = [l \in Levels |-> <<>>]
    /\ results = [l \in Levels |->
                    [entries |-> 0, score |-> 0, ready |-> FALSE,
                     perThread |-> [w \in Workers |-> 0], top |-> EmptyTop3]]
    /\ analyzer = [l \in Levels |-> "join"]
    /\ levelReady = [l \in Levels |-> 0]
    /\ gpc = "popD" /\ gLevel = 0
    /\ highPriority = [entries |-> 0, score |-> 0]
    /\ textFile = NoReport /\ binaryFile = NoReport

\* Mutant: the signal is missing.
SignalledNobody(waiters) == {{}}

\* The sets of waiters one pthread_cond_signal may wake.
Signalled(waiters) == IF waiters = {} THEN {{}} ELSE {{x} : x \in waiters}

\* Mutant: pthread_cond_signal instead of pthread_cond_broadcast.
AllButOne(waiters) ==
    IF waiters = {} THEN {} ELSE waiters \ {CHOOSE x \in waiters : TRUE}

\* Who still waits after pthread_cond_broadcast.
AfterBroadcast(waiters) == {}

-----------------------------------------------------------------------------
(* Reader processes: push_region_a called by the parser thread             *)

ReaderFinished(r) == eofNext[r] = NumLevels

\* The items r may push next: any line it still has, then the EOF markers in
\* level order.
NextItems(r) ==
    IF unread[r] # {} THEN {Entry(n) : n \in unread[r]}
    ELSE {EofMarker(r, eofNext[r])}

ReaderReady(r) == /\ r \notin dead
                  /\ ~ReaderFinished(r)
                  /\ r \notin notFullA

\* Region A is full: the parser thread waits on not_full_a.
PushABlocks(r) ==
    /\ ReaderReady(r)
    /\ Len(regionA) = CapA
    /\ notFullA' = notFullA \cup {r}
    /\ UNCHANGED <<readerVars, regionA, eofCount, dispatcherVars, regionBVars,
                   regionDVars, workerVars, resultVars, aggregatorVars>>

\* push_region_a: append the item, count an EOF marker of its level, signal
\* not_empty_a (only the dispatcher waits there).
PushA(r) ==
    /\ ReaderReady(r)
    /\ Len(regionA) < CapA
    /\ \E item \in NextItems(r) :
         /\ regionA' = Append(regionA, item)
         /\ unread' = [unread EXCEPT ![r] = @ \ {item.line}]
         /\ eofNext' = IF item.is_eof THEN [eofNext EXCEPT ![r] = @ + 1] ELSE eofNext
         /\ eofCount' = IF item.is_eof
                        THEN [eofCount EXCEPT ![item.level_index] = @ + 1]
                        ELSE eofCount
    /\ dpc' = IF dpc = "waitA" THEN "pop" ELSE dpc
    /\ UNCHANGED <<dead, notFullA, held, eofSeen, finishedLevels, regionBVars,
                   regionDVars, workerVars, resultVars, aggregatorVars>>

\* die_errno in a reader (stat, fopen, fseeko, ftello): the process exits and
\* whatever it had not pushed is lost, its EOF markers included.
ReaderDies(r) ==
    /\ r \in Fallible \ dead
    /\ ~ReaderFinished(r)
    /\ dead' = dead \cup {r}
    /\ notFullA' = notFullA \ {r}
    /\ UNCHANGED <<unread, eofNext, regionA, eofCount, dispatcherVars, regionBVars,
                   regionDVars, workerVars, resultVars, aggregatorVars>>

-----------------------------------------------------------------------------
(* Dispatcher                                                              *)

\* pop_region_a with an entry there: take the oldest, signal not_full_a.
PopA ==
    /\ dpc = "pop" /\ regionA # <<>>
    /\ held' = Head(regionA)
    /\ regionA' = Tail(regionA)
    /\ \E woken \in Signalled(notFullA) : notFullA' = notFullA \ woken
    /\ dpc' = IF Head(regionA).is_eof THEN "eof" ELSE "pushB"
    /\ UNCHANGED <<readerVars, eofCount, eofSeen, finishedLevels, regionBVars,
                   regionDVars, workerVars, resultVars, aggregatorVars>>

PopAWaits ==
    /\ dpc = "pop" /\ regionA = <<>>
    /\ dpc' = "waitA"
    /\ UNCHANGED <<readerVars, regionAVars, held, eofSeen, finishedLevels,
                   regionBVars, regionDVars, workerVars, resultVars, aggregatorVars>>

\* The timed wait expires: pop_region_a returns without looking at count again
\* and gives input_mutex up.
PopATimesOut ==
    /\ MayTimeOut
    /\ dpc = "waitA"
    /\ dpc' = "check"
    /\ UNCHANGED <<readerVars, regionAVars, held, eofSeen, finishedLevels,
                   regionBVars, regionDVars, workerVars, resultVars, aggregatorVars>>

\* After a timeout: leave the loop when every reader has PUSHED its EOF marker
\* of every level, whether or not Region A is empty; pop again otherwise.
CheckAllDone ==
    /\ dpc = "check"
    /\ dpc' = IF \A l \in Levels : eofCount[l] >= Cardinality(Readers)
              THEN "finish" ELSE "pop"
    /\ UNCHANGED <<readerVars, regionAVars, held, eofSeen, finishedLevels,
                   regionBVars, regionDVars, workerVars, resultVars, aggregatorVars>>

\* Mutant: the EOF marker of the first reader closes the level.
AnyEofCloses(l) == TRUE

\* The EOF marker in the dispatcher's hands is the last one of its level.
LastEofOfLevel(l) == eofSeen[l] + 1 = Cardinality(Readers)

\* An EOF marker: the last one of its level closes Region B of that level and
\* wakes all its workers; after the last level the loop ends.
HandleEof ==
    /\ dpc = "eof"
    /\ LET l      == held.level_index
           closes == LastEofOfLevel(l) /\ ~eofPosted[l]
           levels == IF closes THEN finishedLevels + 1 ELSE finishedLevels
       IN  /\ eofSeen' = [eofSeen EXCEPT ![l] = @ + 1]
           /\ finishedLevels' = levels
           /\ eofPosted' = [eofPosted EXCEPT ![l] = @ \/ closes]
           /\ notEmptyB' = [notEmptyB EXCEPT ![l] = IF closes THEN AfterBroadcast(@) ELSE @]
           /\ dpc' = IF levels < NumLevels THEN "pop" ELSE "finish"
    /\ held' = NoLine
    /\ UNCHANGED <<readerVars, regionAVars, regionB, regionDVars, workerVars,
                   resultVars, aggregatorVars>>

\* What run_dispatcher_process does with held after push_region_b.
AfterPushB(n) == IF SourceOf[n] \in Priority THEN "pushD" ELSE "pop"

FullB(l) == Len(regionB[l]) = CapB

\* push_region_b: append, signal not_empty_b.
PushB ==
    /\ dpc = "pushB"
    /\ LET l == held.level_index
       IN  /\ ~FullB(l)
           /\ regionB' = [regionB EXCEPT ![l] = Append(@, held)]
           /\ \E woken \in Signalled(notEmptyB[l]) :
                notEmptyB' = [notEmptyB EXCEPT ![l] = @ \ woken]
    /\ dpc' = AfterPushB(held.line)
    /\ held' = IF dpc' = "pop" THEN NoLine ELSE held
    /\ UNCHANGED <<readerVars, regionAVars, eofSeen, finishedLevels, eofPosted,
                   regionDVars, workerVars, resultVars, aggregatorVars>>

PushBWaits ==
    /\ dpc = "pushB"
    /\ FullB(held.level_index)
    /\ dpc' = "waitB"
    /\ UNCHANGED <<readerVars, regionAVars, held, eofSeen, finishedLevels,
                   regionBVars, regionDVars, workerVars, resultVars, aggregatorVars>>

\* push_region_d: append, signal not_empty_d (only the aggregator waits there).
PushD ==
    /\ dpc = "pushD"
    /\ Len(regionD) < CapD
    /\ regionD' = Append(regionD, held)
    /\ gpc' = IF gpc = "waitD" THEN "popD" ELSE gpc
    /\ dpc' = "pop"
    /\ held' = NoLine
    /\ UNCHANGED <<readerVars, regionAVars, eofSeen, finishedLevels, regionBVars,
                   dispatcherDone, workerVars, resultVars,
                   gLevel, highPriority, textFile, binaryFile>>

PushDWaits ==
    /\ dpc = "pushD"
    /\ Len(regionD) = CapD
    /\ dpc' = "waitD"
    /\ UNCHANGED <<readerVars, regionAVars, held, eofSeen, finishedLevels,
                   regionBVars, regionDVars, workerVars, resultVars, aggregatorVars>>

\* After the loop: dispatcher_done, broadcast not_empty_d, exit.
DispatcherFinishes ==
    /\ dpc = "finish"
    /\ dispatcherDone' = TRUE
    /\ gpc' = IF gpc = "waitD" THEN "popD" ELSE gpc
    /\ dpc' = "exited"
    /\ UNCHANGED <<readerVars, regionAVars, held, eofSeen, finishedLevels,
                   regionBVars, regionD, workerVars, resultVars,
                   gLevel, highPriority, textFile, binaryFile>>

-----------------------------------------------------------------------------
(* Analyzer processes: worker threads, then the main thread                *)

\* pop_level_entry with an entry there; not_full_b has one possible waiter,
\* the dispatcher.
PopB(l, w) ==
    /\ wpc[l][w] = "pop" /\ w \notin notEmptyB[l]
    /\ regionB[l] # <<>>
    /\ task' = [task EXCEPT ![l][w] = Head(regionB[l]).line]
    /\ regionB' = [regionB EXCEPT ![l] = Tail(@)]
    /\ dpc' = IF dpc = "waitB" /\ held.level_index = l THEN "pushB" ELSE dpc
    /\ wpc' = [wpc EXCEPT ![l][w] = "score"]
    /\ UNCHANGED <<readerVars, regionAVars, held, eofSeen, finishedLevels,
                   eofPosted, notEmptyB, regionDVars, tls, sources, resultVars,
                   aggregatorVars>>

PopBWaits(l, w) ==
    /\ wpc[l][w] = "pop" /\ w \notin notEmptyB[l]
    /\ regionB[l] = <<>> /\ ~eofPosted[l]
    /\ notEmptyB' = [notEmptyB EXCEPT ![l] = @ \cup {w}]
    /\ UNCHANGED <<readerVars, regionAVars, dispatcherVars, regionB, eofPosted,
                   regionDVars, workerVars, resultVars, aggregatorVars>>

\* The body of worker_main's loop: count the entry, add its weighted score to
\* the thread-local total and, when positive, to the source table.
Score(l, w) ==
    /\ wpc[l][w] = "score"
    /\ LET n == task[l][w]
       IN  /\ tls' = [tls EXCEPT ![l][w] = [entries |-> @.entries + 1,
                                            score   |-> @.score + Weighted(n)]]
           /\ sources' = IF Weighted(n) > 0
                         THEN [sources EXCEPT ![l] =
                                 UpdateSourceHits(@, SourceOf[n], Weighted(n))]
                         ELSE sources
    /\ task' = [task EXCEPT ![l][w] = NoLine]
    /\ wpc' = [wpc EXCEPT ![l][w] = "pop"]
    /\ UNCHANGED <<readerVars, regionAVars, dispatcherVars, regionBVars,
                   regionDVars, resultVars, aggregatorVars>>

\* Mutant: EOF alone ends the loop.
LevelClosed(l) == eofPosted[l]

LevelDrained(l) == regionB[l] = <<>> /\ eofPosted[l]

\* Empty queue and EOF posted: the worker leaves the loop and enters
\* pthread_barrier_wait; the last one to arrive releases them all.
ReachBarrier(l, w) ==
    /\ wpc[l][w] = "pop" /\ w \notin notEmptyB[l]
    /\ LevelDrained(l)
    /\ LET others == {v \in Workers \ {w} : wpc[l][v] # "barrier"}
       IN  wpc' = [wpc EXCEPT ![l] = IF others = {}
                                     THEN [v \in Workers |-> "exiting"]
                                     ELSE [@ EXCEPT ![w] = "barrier"]]
    /\ UNCHANGED <<readerVars, regionAVars, dispatcherVars, regionBVars,
                   regionDVars, task, tls, sources, resultVars, aggregatorVars>>

\* pthread_exit runs tls_destructor: merge into Region C under result_mutex.
MergeTls(l, w) ==
    /\ wpc[l][w] = "exiting"
    /\ results' = [results EXCEPT
                     ![l].entries = @ + tls[l][w].entries,
                     ![l].score = @ + tls[l][w].score,
                     ![l].perThread[w] = tls[l][w].score]
    /\ wpc' = [wpc EXCEPT ![l][w] = "exited"]
    /\ UNCHANGED <<readerVars, regionAVars, dispatcherVars, regionBVars,
                   regionDVars, task, tls, sources, analyzer, levelReady,
                   aggregatorVars>>

\* Mutant: waits for the barrier only.
WorkersPastBarrier(l) == \A w \in Workers : wpc[l][w] \in {"exiting", "exited"}

WorkersJoined(l) == \A w \in Workers : wpc[l][w] = "exited"

\* The main thread has joined every worker: compute_top3.
JoinAndRank(l) ==
    /\ analyzer[l] = "join"
    /\ WorkersJoined(l)
    /\ results' = [results EXCEPT ![l].top = ComputeTop3(sources[l])]
    /\ analyzer' = [analyzer EXCEPT ![l] = "publish"]
    /\ UNCHANGED <<readerVars, regionAVars, dispatcherVars, regionBVars,
                   regionDVars, workerVars, levelReady, aggregatorVars>>

\* ready = 1 and broadcast result_cond, under result_mutex.
PublishResult(l) ==
    /\ analyzer[l] = "publish"
    /\ results' = [results EXCEPT ![l].ready = TRUE]
    /\ analyzer' = [analyzer EXCEPT ![l] = "post"]
    /\ gpc' = IF gpc = "waitC" THEN "collect" ELSE gpc
    /\ UNCHANGED <<readerVars, regionAVars, dispatcherVars, regionBVars,
                   regionDVars, workerVars, levelReady, gLevel, highPriority,
                   textFile, binaryFile>>

\* hw_sem_post(level_ready[l]), outside result_mutex; then the process exits.
PostLevelReady(l) ==
    /\ analyzer[l] = "post"
    /\ levelReady' = [levelReady EXCEPT ![l] = @ + 1]
    /\ analyzer' = [analyzer EXCEPT ![l] = "exited"]
    /\ UNCHANGED <<readerVars, regionAVars, dispatcherVars, regionBVars,
                   regionDVars, workerVars, results, aggregatorVars>>

-----------------------------------------------------------------------------
(* Aggregator                                                              *)

\* aggregate_high_priority with an entry there: signal not_full_d, score it.
PopD ==
    /\ gpc = "popD" /\ regionD # <<>>
    /\ regionD' = Tail(regionD)
    /\ highPriority' = [entries |-> highPriority.entries + 1,
                        score |-> highPriority.score + Weighted(Head(regionD).line)]
    /\ dpc' = IF dpc = "waitD" THEN "pushD" ELSE dpc
    /\ UNCHANGED <<readerVars, regionAVars, held, eofSeen, finishedLevels,
                   regionBVars, dispatcherDone, workerVars, resultVars,
                   gpc, gLevel, textFile, binaryFile>>

PopDWaits ==
    /\ gpc = "popD" /\ regionD = <<>> /\ ~dispatcherDone
    /\ gpc' = "waitD"
    /\ UNCHANGED <<readerVars, regionAVars, dispatcherVars, regionBVars,
                   regionDVars, workerVars, resultVars,
                   gLevel, highPriority, textFile, binaryFile>>

\* Mutant: what is left in Region D is forgotten.
DispatcherIsDone == dispatcherDone

DrainedD == regionD = <<>> /\ dispatcherDone

\* Region D is drained and the dispatcher is done: go on to the results.
HighPriorityDone ==
    /\ gpc = "popD" /\ DrainedD
    /\ gpc' = "collect"
    /\ UNCHANGED <<readerVars, regionAVars, dispatcherVars, regionBVars,
                   regionDVars, workerVars, resultVars,
                   gLevel, highPriority, textFile, binaryFile>>

\* Both timed waits of the aggregator only make it test its predicate again.
AggregatorTimesOut ==
    /\ MayTimeOut
    /\ \/ gpc = "waitD" /\ gpc' = "popD"
       \/ gpc = "waitC" /\ gpc' = "collect"
    /\ UNCHANGED <<readerVars, regionAVars, dispatcherVars, regionBVars,
                   regionDVars, workerVars, resultVars,
                   gLevel, highPriority, textFile, binaryFile>>

\* results[i].ready not yet set: wait on result_cond.
CollectWaits ==
    /\ gpc = "collect" /\ ~results[gLevel].ready
    /\ gpc' = "waitC"
    /\ UNCHANGED <<readerVars, regionAVars, dispatcherVars, regionBVars,
                   regionDVars, workerVars, resultVars,
                   gLevel, highPriority, textFile, binaryFile>>

SeesReady ==
    /\ gpc = "collect" /\ results[gLevel].ready
    /\ gpc' = "sem"
    /\ UNCHANGED <<readerVars, regionAVars, dispatcherVars, regionBVars,
                   regionDVars, workerVars, resultVars,
                   gLevel, highPriority, textFile, binaryFile>>

\* hw_sem_wait(level_ready[i]), then the next level; after the last, write.
TakeLevelReady ==
    /\ gpc = "sem" /\ levelReady[gLevel] > 0
    /\ levelReady' = [levelReady EXCEPT ![gLevel] = @ - 1]
    /\ gLevel' = gLevel + 1
    /\ gpc' = IF gLevel + 1 < NumLevels THEN "collect" ELSE "text"
    /\ UNCHANGED <<readerVars, regionAVars, dispatcherVars, regionBVars,
                   regionDVars, workerVars, results, analyzer,
                   highPriority, textFile, binaryFile>>

\* cmp_level_desc: higher score first, lower index first among equals.
LevelBefore(l, m) ==
    \/ results[l].score > results[m].score
    \/ results[l].score = results[m].score /\ l < m

\* What both writers read from Region C, and the order of the level table.
Report == [written |-> TRUE, results |-> results, high |-> highPriority,
           order |-> SetToSortSeq(Levels, LevelBefore)]

WriteText ==
    /\ gpc = "text"
    /\ textFile' = Report
    /\ gpc' = "binary"
    /\ UNCHANGED <<readerVars, regionAVars, dispatcherVars, regionBVars,
                   regionDVars, workerVars, resultVars,
                   gLevel, highPriority, binaryFile>>

\* write_binary_output ends in rename: the file appears at once.
WriteBinary ==
    /\ gpc = "binary"
    /\ binaryFile' = Report
    /\ gpc' = "exited"
    /\ UNCHANGED <<readerVars, regionAVars, dispatcherVars, regionBVars,
                   regionDVars, workerVars, resultVars,
                   gLevel, highPriority, textFile>>

-----------------------------------------------------------------------------

Reader(r) == PushA(r) \/ PushABlocks(r)

Dispatcher == \/ PopA \/ PopAWaits \/ PopATimesOut \/ CheckAllDone \/ HandleEof
              \/ PushB \/ PushBWaits \/ PushD \/ PushDWaits \/ DispatcherFinishes

Worker(l, w) == \/ PopB(l, w) \/ PopBWaits(l, w) \/ Score(l, w)
                \/ ReachBarrier(l, w) \/ MergeTls(l, w)

Analyzer(l) == JoinAndRank(l) \/ PublishResult(l) \/ PostLevelReady(l)

Aggregator == \/ PopD \/ PopDWaits \/ HighPriorityDone \/ AggregatorTimesOut
              \/ CollectWaits \/ SeesReady \/ TakeLevelReady
              \/ WriteText \/ WriteBinary

\* Every process has exited: main's waitpid loop is over.
AllExited ==
    /\ gpc = "exited" /\ dpc = "exited"
    /\ \A r \in Readers : ReaderFinished(r)
    /\ \A l \in Levels : analyzer[l] = "exited"

Terminated == AllExited /\ UNCHANGED vars

Next == \/ \E r \in Readers : Reader(r) \/ ReaderDies(r)
        \/ Dispatcher
        \/ \E l \in Levels, w \in Workers : Worker(l, w)
        \/ \E l \in Levels : Analyzer(l)
        \/ Aggregator
        \/ Terminated

Spec == Init /\ [][Next]_vars

\* Every thread that can take a step eventually takes one; a reader's death is
\* never required to happen.
FairSpec ==
    /\ Spec
    /\ \A r \in Readers : WF_vars(Reader(r))
    /\ WF_vars(Dispatcher)
    /\ \A l \in Levels, w \in Workers : WF_vars(Worker(l, w))
    /\ \A l \in Levels : WF_vars(Analyzer(l))
    /\ WF_vars(Aggregator)

-----------------------------------------------------------------------------
(* Properties                                                              *)

WorkerPoints == {"pop", "score", "barrier", "exiting", "exited"}

\* Type correctness of every variable, with the capacities of the queues.
TypeOK ==
    /\ unread \in [Readers -> SUBSET Lines]
    /\ eofNext \in [Readers -> 0..NumLevels]
    /\ dead \subseteq Readers
    /\ regionA \in Seq(Entries \cup EofMarkers) /\ Len(regionA) <= CapA
    /\ eofCount \in [Levels -> Nat]
    /\ notFullA \subseteq Readers
    /\ dpc \in {"pop", "waitA", "check", "eof", "pushB", "waitB", "pushD",
                "waitD", "finish", "exited"}
    /\ dpc = "eof" => held \in EofMarkers
    /\ dpc \in {"pushB", "waitB", "pushD", "waitD"} => held \in Entries
    /\ eofSeen \in [Levels -> Nat]
    /\ finishedLevels \in Nat
    /\ regionB \in [Levels -> Seq(Entries)]
    /\ \A l \in Levels : Len(regionB[l]) <= CapB
    /\ eofPosted \in [Levels -> BOOLEAN]
    /\ notEmptyB \in [Levels -> SUBSET Workers]
    /\ regionD \in Seq(Entries) /\ Len(regionD) <= CapD
    /\ dispatcherDone \in BOOLEAN
    /\ wpc \in [Levels -> [Workers -> WorkerPoints]]
    /\ task \in [Levels -> [Workers -> Lines \cup {NoLine}]]
    /\ tls \in [Levels -> [Workers -> [entries : Nat, score : Nat]]]
    /\ analyzer \in [Levels -> {"join", "publish", "post", "exited"}]
    /\ levelReady \in [Levels -> Nat]
    /\ gpc \in {"popD", "waitD", "collect", "waitC", "sem", "text", "binary", "exited"}
    /\ gLevel \in 0..NumLevels

LinesOfLevel(l) == {n \in Lines : LevelOf[n] = l}

PriorityLines == {n \in Lines : SourceOf[n] \in Priority}

TotalWeight(S) == Total([n \in Lines |-> Weighted(n)], S)

\* A report on disk counts every line of every file exactly once, at its own
\* level and weight, however lines, EOF markers, workers and merges
\* interleave, and the per-thread contributions add up to the level's score.
ReportExact ==
    \A file \in {textFile, binaryFile} : file.written =>
        \A l \in Levels :
            /\ file.results[l].entries = Cardinality(LinesOfLevel(l))
            /\ file.results[l].score = TotalWeight(LinesOfLevel(l))
            /\ Total(file.results[l].perThread, Workers) = file.results[l].score

\* A report on disk carries the exact high-priority count and score: the
\* aggregator stops draining Region D only after the dispatcher's last copy.
HighPriorityExact ==
    \A file \in {textFile, binaryFile} : file.written =>
        file.high = [entries |-> Cardinality(PriorityLines),
                     score   |-> TotalWeight(PriorityLines)]

\* The score one source earned at a level.
SourceScore(l, s) == TotalWeight({n \in LinesOfLevel(l) : SourceOf[n] = s})

\* A top-3 list of a level: different sources with the scores they really
\* earned, best first, and no source left out beats a listed one unless the
\* level has more scoring sources than the table has slots.
TopListExact(l, top) ==
    LET shown   == {i \in 1..3 : top[i].source # NoSource}
        listed  == {top[i].source : i \in shown}
        scoring == {s \in {SourceOf[n] : n \in LinesOfLevel(l)} : SourceScore(l, s) > 0}
    IN  /\ \A i \in shown : /\ top[i].source \in scoring
                            /\ top[i].hits = SourceScore(l, top[i].source)
        /\ \A i, j \in shown : top[i].source = top[j].source => i = j
        /\ \A i \in 1..2 : top[i].hits >= top[i + 1].hits
        /\ Cardinality(scoring) <= MaxSources =>
              \A s \in scoring \ listed : SourceScore(l, s) <= top[3].hits

\* "Finds the top three scoring sources for the analyzer level" (analyzer.c):
\* the lists of a report on disk are exact, however the workers interleaved in
\* update_source_hits; also when the table overflowed, no listed score misses
\* a line of its source.
TopSourcesExact ==
    \A file \in {textFile, binaryFile} : file.written =>
        \A l \in Levels : TopListExact(l, file.results[l].top)

\* The lines of the regions upstream of Region B: still in a reader, in Region
\* A, or in the dispatcher's hands.
InRegionA == {regionA[i].line : i \in 1..Len(regionA)}
Dispatching == IF dpc \in {"pushB", "waitB"} THEN {held.line} ELSE {}
Upstream == (UNION {unread[r] : r \in Readers}) \cup InRegionA \cup Dispatching

\* eof_posted promises the workers of a level that nothing more will come: it
\* is set only when every line of the level is already in Region B or scored.
EofClosesLevel ==
    \A l \in Levels : eofPosted[l] => LinesOfLevel(l) \cap Upstream = {}

\* No lost wake-up on not_empty_b: while Region B of a level holds entries some
\* worker of the level is awake to take them, and nobody sleeps past EOF.
NoStrandedEntries ==
    \A l \in Levels :
        /\ regionB[l] # <<>> => \E w \in Workers : /\ w \notin notEmptyB[l]
                                                  /\ wpc[l][w] \in {"pop", "score"}
        /\ eofPosted[l] => notEmptyB[l] = {}

\* A result marked ready is final: every worker merged its totals before the
\* flag went up, so the aggregator never reads a partial sum.
ReadyIsFinal ==
    [][\A l \in Levels : results[l].ready => results'[l] = results[l]]_vars

\* "All EOF markers forwarded to Region B. Exiting.": the dispatcher's last
\* message, as a claim about the state it leaves behind.
AllEofForwarded == dpc = "exited" => \A l \in Levels : eofPosted[l]

\* Both output files are eventually written and every process exits.
Completion == <>(AllExited /\ textFile.written /\ binaryFile.written)

=============================================================================
