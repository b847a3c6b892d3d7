# A TLA+ verification of SystemProgramming-Homeworks

The repository holds six system-programming assignments in C. They are
independent programs; five of them (HW2 to HW6) are concurrent systems with
processes, threads, semaphores, condition variables, sockets, timeouts and
signals. This project models these five, and the one part of HW1 that is more
than a directory walk, its name matcher. Paths below are relative to the
repository root (`src/HW4/...`).

## 1. Inventory

| Part | State it keeps | Operations | Interacts through | Hard because | Correct when |
|---|---|---|---|---|---|
| HW4 reader process (`reader.c`) | file position per thread, private ring buffer, `producers_done` | read a range, push, pop, forward, EOF markers | Region A (shared memory) | byte ranges cut lines; two levels of producer/consumer | every well-formed line is handed over once, EOF markers last |
| HW4 dispatcher (`dispatcher.c`) | `eof_seen`, `finished_levels`, the held entry | pop A, push B, push D, close a level | Regions A, B, D | blocks in three places; timed wait | nothing lost or misrouted; a level is closed after its last line |
| HW4 analyzer (`analyzer.c`), one process per level | source table, thread-local totals | pop B, score, barrier, merge, rank, publish | Regions B, C, `level_ready` | many waiters, TLS destructors run after the barrier | a published result is final and exact |
| HW4 aggregator (`aggregator.c`) | high-priority totals, the two output files | drain D, collect levels, write | Regions C, D | must not stop before the dispatcher's last copy | the files are exact |
| HW4 parent and watchdog (`main.c`, `watchdog.c`) | child list, `g_sigint_received`, heartbeat times | fork, `waitpid`, terminate, clean up | signals, pipes | signal against blocking call | the regions outlive the children, SIGINT ends everything |
| HW5 order queue (`order_queue.c`) | sorted list | push, pop | called under `queue_lock` | equal keys | always sorted |
| HW5 shift (`main.c`) | queue, `active_delivery_count`, `shift_stopping`, totals | load, create, deliver, cancel, join, summary | one mutex, two condition variables, SIGINT | end of shift is decided by whoever finishes last | no order lost, everybody leaves, the summary adds up |
| HW6 server (`hogwarts.c`) | client table, stock, spellbooks, `last_active` | expire, select, accept, receive, 8 commands, shut down | TCP lines | one thread serves all; stale `fd_set`, timeouts, hangups | unique names, stock covers the spellbooks, no leak, ends on SIGINT |
| HW6 clients (`client_common.c`) | `stdin_closed`, `apparate_sent`, `exit_requested` | connect, type, receive, leave | TCP lines | server may close at any time | every client ends |
| HW6 line assembly (`feed_client_data`, `consume_socket_lines`) | line buffer, `discard_long_line` | one byte at a time | bytes from `recv` | pieces of any size, lines above 512 bytes | the same lines whatever the pieces |
| HW3 word transport (`hw3.c`, `word_carrier.c`, `letter_carrier.c`, `elevator.c`, `sorting.c`, `shared_memory.c`) | words with their letters and sorting areas, floor counters, request queues, `completed_words` | admit a word, claim, carry, deliver, reposition, sort, respawn, shut down | shared memory, named semaphores | many locks, none of them global; processes block without timeout | no letter lost, every word completed, the parent is told |
| HW2 parallel search (`main.c`, `worker.c`) | worker table, reaped statuses, temporary files | deal out, fork, search, notify, reap, terminate, report | signals, exit statuses, files | SIGCHLD and SIGINT against `sigsuspend`, inherited exit handlers | the report is right, nothing is left behind |
| HW2 and HW1 matchers (`pattern.c`, `match_filename`) | none | match | called for every file | repetition and backtracking | what is matched is what the pattern means |

The hazards found while reading, each at its line, are in `PROJECT.json`.

## 2. Modules

| Module | Models |
|---|---|
| `LogScoring` | level weights, source table, top-3 ranking (operators only) |
| `LogPipeline` | all HW4 processes and Regions A to D |
| `LineStream` | abstract promise of a reader process |
| `LogReader` | the inside of one reader process; implements `LineStream` |
| `LogSupervisor` | the HW4 parent: forks, `waitpid`, SIGINT, `terminate_children`, cleanup |
| `TopSources` | what the ranking should show, for every short sequence of scoring lines |
| `OrderQueue` | the HW5 sorted list (operators only) |
| `CourierShift` | the HW5 shift |
| `CourierShiftProofs` | theorems about `CourierShift` and `OrderQueue` |
| `Hogwarts` | the HW6 server and its clients |
| `LineAssembly` | how both sides make lines of bytes (operators only) |
| `WordTransport` | all HW3 processes and the shared region |
| `FileSearch` | the HW2 parent and its workers |
| `FileNames` | the HW2 and HW1 name matchers (operators only) |
| `Totals` | the sum of numbers over a finite set (operators only) |
| `CountingLemmas` | least elements, cardinalities and sums: lemmas the other proofs share |
| `LogPipelineProofs`, `LogReaderProofs`, `LogSupervisorProofs`, `HogwartsProofs`, `WordTransportProofs`, `FileSearchProofs` | theorems about the module of that name |
| `MC...` | the instances TLC checks |

`LogPipeline` composes the HW4 components over the shared regions. Its readers
own sets of lines and push them in any order followed by EOF markers: this is
what `LineStream` says, and `LogReader` is proved to implement `LineStream`
(lines are `wellFormed`, the stream is what the parser thread pushed), so that
the two models meet at `push_region_a`.

How the models read the code:

* A critical section is one action. Reads and writes of thread-private state
  behind it belong to the same action unless somebody could notice.
* A thread that finds its predicate false joins the wait set of the condition
  variable (or takes a `wait...` program point when it can be the only waiter).
  `pthread_cond_signal` removes one member, chosen nondeterministically,
  `pthread_cond_broadcast` all; a woken thread tests its predicate again.
* A timed wait may end at any time it is waiting (`MayTimeOut`, or always in
  HW5, where it lasts 100 ms). In HW6, where durations matter, sessions have an
  age in seconds and `Tick` advances it.
* HW4: a line is a name with a reader, a level, a source and a number of keyword
  matches. Scores of all keywords are added up (the code keeps them apart and
  also adds them). `double` scores are natural numbers: they are sums of small
  integers and exact. Death of a reader is the `die_errno` of its own process;
  a death inside a critical section, with `input_mutex` held, is not modelled.
  The message of the death itself, heartbeats and logging are left out.
* `LogReader`: only "is this byte a newline" matters. A line is named by its
  offset; `parse_log_line` is an input (any subset of the non-blank lines).
  Region A is never full there, which `LogPipeline` covers.
* `LogSupervisor`: children are black boxes that exit by themselves unless they
  hang, which `LogPipeline` shows they do after a reader died. SIGTERM and
  SIGKILL have their default effect; a signalled child dies some time later. The
  watchdog does not block SIGINT, so either thread may run the handler. The
  `ECHILD` exit of the wait loop cannot be reached while the count is exact
  (second part of `RegionsOutliveChildren`) and is left out, as is a watchdog that ends at once
  because its `calloc` failed.
* HW5: `Inputs` are the accepted lines of the order file; malformed lines are
  skipped by the code without effect. `StartupFails` is any failed `fopen` or
  allocation before the first courier exists.
* HW6: messages are whole lines, and one `recv` delivers one or more of them.
  That whole lines arrive is checked apart: `LineAssembly` applies the code's
  byte loop to every short stream, cut into three pieces in every way, and
  compares with a definition that never sees the pieces. `MAX_LINE` is 2 there,
  streams have up to 7 bytes, so lines end one below, at and above the limit,
  and in discard mode. A client is only claimed to take lines within its limit:
  it drops longer ones silently, and the server sends none. The client sends everything but an empty line
  (`client_common.c:245`), so also a line of blanks, and the server handles such a
  line without a reply (`hogwarts.c:481`): `HandleBlank` takes it and answers
  nothing, and `pending` counts the lines with a word in them (`Owed`). A session's
  spellbook disappears with it, the stock does not. The size of the table (`-n`) is chosen when the server starts,
  `tableSize`, up to `MaxClients`; slots beyond it stay free for ever. A connection is in the
  backlog, in a slot, or dropped. A client that has gone is seen as readable;
  sending to it is lost or, by SIGPIPE (`send` without `MSG_NOSIGNAL`, no
  handler), ends the server. A SIGINT of a client that arrives between its test
  and `select` may go unseen, so seeing it is not fair.
* HW3: a critical section under one lock, or under both floor locks, is one
  step. `completed_words++` is the exception: it runs under the lock of its own
  word only, so its read and its write are two steps, with the word locked from
  one to the other (`Locked`). A letter is at home, in transit or placed; these
  are the values the three flags of the code take together. Letters are told
  apart by their position in the word, as `sorting_meta` does. `SortPass` is the
  loop over the slots. The capacity check and the admission are two sections
  merged into one step, since nobody looks into a word that is claimed and not
  admitted. Carriers and sorters draw words at random; here any choice may be
  taken, and a scan may find nothing unless everything it can draw would do
  (`MayFindNothing`). The elevators may start a batch with any request, which
  includes the one SCAN picks. Left out: semaphores that are only waited for
  with a timeout (`word_available_sem`, `floor_delivery_sem`, `parent_event`:
  after the timeout the waiter looks again), the `items` semaphores (every
  request comes with a post, surplus posts cause empty rounds), statistics, and
  SIGTERM of `terminate_children`, which after `wake_all` finds every child
  leaving or about to. A process interrupted by a signal inside `lock_sem` returns
  without the lock (`shared_memory.c:74-80`); this is not modelled. A signal that
  interrupts the `waitpid` of `terminate_children` makes the parent fail with
  children left (`ReapInterrupted`, parent "aborted"). A process
  that finds `shutdown` at the head of its loop takes no further step. Locks
  are always taken in the order word, low floor, high floor, so that atomic
  sections hide no deadlock.
* HW2: the model starts with the signals blocked. A signal to the parent is
  pending until `sigsuspend`; several of a kind merge. `handler_sigchld` reaps
  every zombie there is. SIGTERM kills a worker that has not yet installed its
  handler and sets a flag in the others; SIGKILL after the deadline takes effect at
  once, while in the program, which only polls with `WNOHANG` afterwards
  (`main.c:126-132`), a killed worker may be gone a moment after the parent. It runs
  no more code of its own, so it creates no file. Exit handlers run in the workers too.
  The matching files of each subdirectory are an input; a file whose path holds
  a blank is found but not listed (`parse_match_line` reads `%4095s`; a line that
  does not fit the buffer of `fgets` is lost alike). The parent reads the temporary
  files line by line, `cursor` says how far, into `listed` (`match_entries`). When
  there are subdirectories, files directly in the root are not searched, by the
  code and hence by the model.
* Matchers: `MatchRec` and `MatchFilename` follow the code position by position.
  The reference `Means` cuts the name into one block per pattern item.

Operators marked "Mutant:" are small bugs (a missing signal, a dropped test, an
off-by-one); each is listed in `PROJECT.json` with the property that notices it.

## 3. Runs

| Run | Instance | What it shows |
|---|---|---|
| `LogPipelineSafety` | 2 files, 2 levels, 2 workers, 3 lines, capacities 2/1/1, timeouts, one reader may die; rankings of up to 5 scoring lines, 5 sources, 4 slots | the safety properties of the pipeline; the ranking of sources |
| `LogPipelineBlocking` | 2 files, 2 levels, 2 workers, 2 lines in one level, capacities 2/1/1, no timeouts | `Completion`: both files are written, everyone exits |
| `LogPipelineTimeout` | 1 file, 4 levels, 1 worker | violates `AllEofForwarded` (finding 1) |
| `LogReaderSplit` | 3 threads, buffer of 2, every file up to 7 bytes and every choice of well-formed lines | ranges partition the lines; no wake-up is lost; `LineStream` is implemented; the process ends |
| `LogSupervisor` | 4 children, those behind the first may hang, 2 SIGINTs; deadlock is not checked because a parent whose children hang really blocks in `waitpid` | signals, regions and the end of the parent |
| `CourierShift` | 3 couriers, every order file of at most 3 lines over 4 orders | safety and end of the shift |
| `HogwartsSafety` | 2 wizards, 2 names, tables of 1 and 2 slots, 1 ingredient, 2 typed lines, blank ones included; all streams of up to 7 bytes | safety of sessions, stock and replies; line assembly |
| `HogwartsEnds` | 2 clients with the same name, tables of 1 and 2 slots, 1 failing call, 1 typed line, maybe blank, 1 unanswered line per client when it types | no leak; every client ends; SIGINT ends the server |
| `WordTransport` | 2 floors, words of 2 and 1 letters with different sorting floors, room for 1 word per floor, 1 process of each kind per floor, 3 carrier slots, SIGINT at any time | letters, capacities, respawn requests, waits and the output |
| `WordTransportEnds` | the same with 1 letter per word, 2 carrier slots, SIGINT at any time, while the parent reaps too | every word completes; a complete count or a signal ends everything |
| `WordTransportCount` | the same without SIGINT | violates `CompletionEndsRun` (finding 2) |
| `FileSearch` | up to 3 workers, trees of 0, 2 and 4 subdirectories, an exit status of 3 values, a list of 3 entries, 1 fault, SIGINT; patterns and names of up to 4 characters | reports, cleanup, end of the search; both matchers |

In the runs of `WordTransport` and `FileSearch` deadlock is not checked: the
processes stop when the run has ended, and in `WordTransport` a parent that has
died of too many carriers leaves its children waiting.

Why the bounds are enough. HW4: with capacity 1 and two lines of one level every
queue is both empty and full; two readers make EOF markers of one level overtake
lines of the other reader; two workers make lost wake-ups and early merges
visible; the levels are alike except for their weight, so two suffice where four
would not add behaviour (the violation run uses all four). Files of seven bytes
with three threads contain empty ranges, ranges behind the end, lines that cover
more than one range, and files with and without a last newline. HW5: three
couriers let one deliver, one wait and one leave; repeated and out-of-order keys
occur with three orders. HW6: two clients and one or two slots give competition
for a name, for a slot, and for the ingredient; with two slots and one name the
refused client sends APPARATE, is told `ERR NOT_ENROLLED` and waits, and only
the timeout ends it; `Timeout` 1 makes sessions expire
at any point of the loop. HW3: with room for one word per floor and words that
occupy both floors, admissions fail and are retried; the word of two letters is
sorted with moves and swaps; one carrier per floor makes floors run empty, so
that carriers are respawned, and the third slot is used up, so that the parent
can also die of it; both elevators carry two at a time. HW2: one tree gives a
worker two directories and so many matches that its count leaves the range of a
status (3 here, 256 in the code) and the list overflows (3, 4096 in the code);
three workers can end, be reaped and be killed in every order.

Fairness. `FairSpec` of the pipeline, the reader, the parent and the shift is weak fairness
of every thread (the same holds of `FileSearch`): the kernel schedules runnable threads, and mutexes are held for
a bounded time. Signals, failures, deaths and timeouts need not happen. In
`LogPipelineBlocking` timeouts are off, so the wake-ups alone must suffice. In
`Hogwarts` the server, the clock and the clients' receiving side are fair;
starting clients, typing and signals are not. `MaxTyped` bounds typing, so
`EveryClientEnds` speaks of users who stop typing some day: a user who keeps
typing stays connected, as intended by the code. In `WordTransport` every process
is weakly fair, and `ClaimLetter` of each carrier strongly: a carrier draws words
and letters with `rand_r`, and one that finds a claimable letter in reach again
and again draws it some day. SIGINT need not come.

Findings. (1) `src/HW4/dispatcher.c:83`: after a timeout the dispatcher leaves when all
EOF markers have been *pushed*, although Region A may hold entries and markers it
has not popped; its message says all were forwarded, and the workers of a level
not closed wait for ever. It needs a timeout in which the last reader pushes
between the expiry and the second lock. In the safety run, timeouts are on:
reports that are written are exact even then, because this leads to no report and
not to a wrong one. (2) `src/HW3/shared_memory.c:345`: two sorters that complete two
words at the same time may lose an increment of `completed_words`; every word is
then complete and the run goes on for ever, without output.
`OutputIsComplete` shows that the reverse, an output file written too early, does
not happen.

Three more deviations are part of the models and have no run of their own. A level
with more than `MAX_SOURCES` sources ranks only the first of them
(`src/HW4/analyzer.c:86`; `Admitted` in `TopSources`). A SIGINT that does not
interrupt `waitpid` in the HW4 parent (it comes during the forks, between two
calls, or is delivered to the watchdog thread) is not acted on, so that with
hanging children only another SIGINT ends the system (`src/HW4/main.c:355`;
`ParentEnds` starts at the interrupted call). The HW2 total adds counts modulo 256,
and the tree misses files whose path holds a blank (`ReportIsExact` says so).

## 4. Proofs

Each theorem holds for every value of the constants that satisfies the `ASSUME` of
its module; nothing else is assumed. The assumptions say that numbers of things
are positive, that capacities and sets are finite where the program allocates
them, and that inputs have passed the program's validation (in `Hogwarts`, names
are not empty and quantities are positive: `LinesAssumption`; in `LogPipeline`, no source
has the empty name, which `parse_log_line` refuses). No bound of a run
is assumed. `MaxTyped`, `MaxPending`, `MaxFailures`, `MaxSigints` and `MaxFaults`
stay parameters, and the theorems hold for all their values.

| Module | Theorem | Statement |
|---|---|---|
| `CourierShiftProofs` | `TypeCorrect` | `Spec => []TypeOK` |
| | `NoOrderIsLost` | `Spec => []OrdersConserved` |
| | `ActiveCounterIsExact` | `Spec => []ActiveIsExact` |
| | `NothingLeftAtStop` | `Spec => []StoppingLeavesNothing` |
| | `NoCourierSleepsForever` | `Spec => []WaitersWillBeWoken` |
| | `SummaryIsComplete` | `Spec => []SummaryAccountsForAll` |
| | `QueueStaysSorted` | `Spec => []QueueSorted` |
| | `UrgentOrdersGoFirst` | `Spec => MostUrgentFirst` |
| `LogPipelineProofs` | `PipelineCorrect`, `PipelineTyped` | `Spec => []PipelineInv`, `Spec => []TypeOK` |
| | `EofIsFinal` | `Spec => []EofClosesLevel` |
| | `NoEntryIsStranded` | `Spec => []NoStrandedEntries` |
| | `ReadyResultsAreFinal` | `Spec => ReadyIsFinal` |
| | `ReportsAreExact` | `Spec => []ReportExact` |
| | `HighPriorityIsExact` | `Spec => []HighPriorityExact` |
| | `TopCorrect`, `TopListsAreExact` | `Spec => []TopInv`, `Spec => []TopSourcesExact` |
| `LogReaderProofs` | `ReaderCorrect`, `ReaderTypes` | `Spec => []ReaderInv`, `Spec => []TypeOK` |
| | `NoWakeupIsLost` | `Spec => []NoWakeupLost` |
| | `EveryLineIsReadOnce` | `Spec => []EveryLineReadOnce` |
| | `ReaderImplementsStream` | `Spec => ImplementsLineStream` |
| `LogSupervisorProofs` | `SupervisorCorrect`, `SupervisorTypes` | `Spec => []SupervisorInv`, `Spec => []TypeOK` |
| | `SignalsAreSafe` | `Spec => []SignalsHitChildren` |
| | `RegionsAreSafe` | `Spec => []RegionsOutliveChildren` |
| `HogwartsProofs` | `HogwartsCorrect`, `HogwartsTypesHold` | `Spec => []HogwartsInv`, `Spec => []TypeOK` |
| | `NamesStayUnique` | `Spec => []NamesAreUnique` |
| | `NoConnectionLeaks` | `Spec => []ConnectionsTracked` |
| | `RecvIsNeverBlocked` | `Spec => []RecvNeverBlocks` |
| | `EveryLineIsAnsweredOnce` | `Spec => []AnsweredOnce` |
| | `StockIsCovered` | `Spec => []StockCoversSpellbooks` |
| `WordTransportProofs` | `TransportCorrect` | `Spec => [](TransportInv /\ CapacityRespected)` |
| | `CapacityIsRespected` | `Spec => []CapacityRespected` |
| | `LettersAreConserved` | `Spec => []LettersConserved` |
| | `OutputOnlyComplete` | `Spec => []OutputIsComplete` |
| | `WaitersWillBeServed` | `Spec => []WaitersAreServed` |
| | `NoFloorIsForgotten` | `Spec => []NoFloorForgotten` |
| `FileSearchProofs` | `SearchCorrect` | `Spec => []SearchInv` |
| | `NothingIsLeftBehind` | `Spec => []LeavesNothingBehind` |
| | `ReportCorrect` | `Spec => []ReportInv` |
| | `ReportIsAlwaysExact` | `Spec => []ReportIsExact` |

None of the properties is inductive alone. What had to be added, and why:

**`CourierShift`.** `ShiftInv` adds `NotYetCreated` (a courier that was not created
does nothing), `LoadingIsQuiet` (nobody works and nothing is stopping before
creation starts), `ActiveIsExact` (the counter that ends the shift is the number of
couriers on the road), `StoppingLeavesNothing` (a stopping shift has an empty queue) and
`EndedIsOver` (after the wait loop the shift is stopping and nobody is on the road).
With them: the counter is exact because each action moves
at most one courier on or off the road (`RoadStep`); `stopping` is set only with an
empty queue, by the last courier or by a cancellation that empties it; a courier
starts waiting only while the counter is positive, hence somebody is on the road,
and whoever comes back last wakes everybody; orders only move between queue, road,
completed and cancelled; the summary is written when queue and road are empty.
Sortedness is separate: `QueuePush` inserts before the first outranked order
(`InsertPositionProperty`), and removing the head keeps a sorted list sorted.

**`LogPipeline`.** `PipelineInv` follows a line through the system. `EofInv`: a reader
has nothing unread at its first EOF marker; in Region A its markers are behind its
lines, and once a marker has left Region A all its lines have; a marker is in one
place; `eof_seen` counts the readers whose marker was counted. Hence the last
marker of a level finds no line of it upstream, `EofClosesLevel`. `WorkersInv`: a
worker past its loop left it at a drained level, and a worker that sleeps is in the
loop; `NoStrandedEntries` needs both. `AnalyzerInv` and `MergeInv`: an analyzer goes
on only when all its workers have exited, and a level's result is the sum of the
totals merged so far, so a ready result is complete and nobody writes to it again
(`ReadyIsFinal`). `DownstreamInv` and `SumsInv`: a line is upstream, in Region B of its
level, with one worker, or scored, and the thread-local totals add up to the count
and weight of the lines scored; `CopiesInv` says the same of the high-priority
copies. `AggregatorInv`: the aggregator leaves Region D drained for good and passes
a level only when it is ready. When it writes, all levels are ready, so all workers
have exited, so all levels are drained and closed, so nothing is upstream: every
line is scored, which is `ReportExact` and `HighPriorityExact`. Deaths of readers
and timeouts are steps of `Next` like all others, so a written report is exact in
spite of finding 1.

The top-3 lists have an invariant of their own, `TopInv`. `TablesInv`: a level's table
has one slot per source, each slot holds the sum over all lines of its source scored so
far (a source is admitted at its first scoring line or never, because the table does not
shrink), and while there is room no scoring source is missing (`Tells`). `ListsInv`: once
an analyzer has joined its workers, its table is final and the published list is
`compute_top3` of it. The loop of `compute_top3` is a recursive function; that its list
ranks the slots so far (`Ranks`) is an induction over the table, done by refuting a least
counterexample. A full table that misses nothing is the case in which the number of
scoring sources does not exceed `MAX_SOURCES`, by counting.

**`LogReader`.** First, without any state: a thread starts at the first line that begins
at or behind its start offset and stops at the first that begins at or behind its end
offset, so the lines that begin in its range are its lines, and the ranges cut the
file without gap or overlap, also when chunks are empty or lines cover whole ranges.
`ThreadsInv`: the lines a thread has read are those of its range in front of its
position. `RingInv` describes the occupied part of the ring without the modulo
(`Cells`, `CellBehind`), which the provers do not reason about with a symbolic size.
`PlacesInv`: a well-formed line that was read is in one thread's hands, in one cell,
in the parser's hands or in the output, and nowhere else. `ParserInv`: EOF markers come
when the producers are done and the ring is empty. `NoWakeupLost` needs that a sleeping
thread wants to push (`WaitInv`). The refinement maps the stream to the output: forwarding
hands over a line that is not there yet, an EOF marker comes when all are, in level
order, and every other step is a stutter.

**`LogSupervisor`.** `SupervisorInv` says which children exist while forking
(`ForkedExist`), that a pid that can still be signalled belongs to a child not yet
reaped (`TrackedAreAlive`; `terminate_children` does not unmark what it reaps, so this
ends there), that `remaining_children` counts them (`RemainingCounts`) and for which
reason the wait loop was left (`LeftForAReason`). `RegionsAreSafe` says that no child is
running when the regions go: after a normal end all have been reaped, after SIGINT some
may be dying, unreaped (`waitpid` with `WNOHANG`, `src/HW4/main.c:65`).

**`Hogwarts`.** Names are unique for every table because the only step that sets a name
first looks at all others. The rest is about the served slot: `ServesTheConnected`
says that the connection whose batch is being answered is still in its slot and is not
served again in this round, `OpenOnce` and `OpenIsHeld` that a connection is held in
one place exactly while it is not closed. From these, no slot closed since `select` is
read (`RecvNeverBlocks`). `EveryLineOwed` is `AnsweredOnce` made inductive: it also
speaks of clients that have sent nothing. It counts the lines of a queue that have a
word in them; that this number adds up when queues are appended, split and joined is
proved in `OwedAppend`, `OwedTail` and `OwedJoins`. `StockInv` adds that no spellbook
holds a negative quantity.

**`WordTransport`.** `TransportInv` has ten parts. `Admission` and `Completion` say what
the flags of a word mean together, and that only the sorter that completed a word
counts it and gives its places back, once: the number of places on a floor is then
exact (`CapacityRespected`). `Counting` bounds `completed_words`, and what a sorter
has read of it, by the number of words whose sorter has written it: an increment may
be lost, never made up, so a full count means that all words are complete
(`OutputIsComplete`). `Areas` and `Transit`: a sorting area holds each letter at most once,
a pass of the sorter permutes it (`SortPass` is a recursive function; the proof that
it keeps the letters is by its least counterexample), and a letter in transit is in
one hand or one request. `OneRide` and `Waiting`: who waits has exactly one request or
ride. `Whereabouts` and `Population`: the requests say where carriers are,
`carrier_count` counts those not between two floor locks, and an empty floor
has been asked for or will be.

**`FileSearch`.** `SearchInv` says which workers were forked at each point
(`ForkedWorkers`), that the reaped table holds exactly the reaped ones
(`ReapedWorkers`), and that collecting starts when none runs (`AllCollected`).
`ReportInv` adds what the report needs. `Claims` says what the place, count and status of
a worker tell about its temporary file: some of its files, none twice; all of them at
"notify", and at its exit unless SIGTERM stopped it. `TermInv`: SIGTERM is sent only on
the way out, so no worker of a reported search was stopped. `FilesExist`: nobody removes
a temporary file before the parent has read it, although every process runs the exit
handler. `ListedInv`: `match_entries` lists what was read so far, none twice because the
shares of the workers are disjoint, and misses a listable file only when it is full.
`DoneInv`: the report was made from all files and all statuses. `ReportIsExact` follows
from these without another induction.

Sums. The library has no theorem about folds that the provers can instantiate. Sums are
therefore counts: `Total(f, S)` is the number of pairs of an element x of S and a number in
`1..f[x]`, and `StockCoversSpellbooks` counts brewed units the same way. What is
needed of them (adding an element, raising one summand, leaving out zeros, finiteness, the
sizes of disjoint sets) is proved
in `CountingLemmas` from the cardinality theorems; where an induction over the set is needed,
a counterexample of least size is refuted (`LeastNatural`).

Only model-checked:

* Liveness needs fairness and `ENABLED`, which the prover does not handle: `ShiftEnds`,
  `Completion`, `ReaderCompletes`, `EveryClientEnds`, `ShutdownEnds`, `ParentEnds`,
  `EveryWordCompletes`, `CountedRunEnds`, `SearchEnds`.
* What the recursive definitions of the matchers and of line assembly compute for every
  input is induction over data: `LinesReassembled`, `BacktrackingMatchIsExact`,
  `GreedyMatchIsSound`. `TopThreeAreHighest` says which sources find a slot in a table
  that overflows, in the order the lines came in; `TopSourcesExact`, which is proved, says
  everything else about the lists.

## 5. Not modelled

Left out, with the reason:

* Report layout, logging, progress tables and heartbeats: nothing reads them back.
* Argument and config parsing, validation of numbers and names: the models start
  from valid inputs; the programs exit on others before any process exists.
* Directory walks of HW1 and HW2 (`opendir`, `lstat`, `count_total_files`) and HW1's
  other criteria: sequential I/O around one comparison each.
* The macOS replacements of barriers and timed waits in `src/HW4/common.h` and
  `src/HW3/shared_memory.c`: the Linux build does not compile them.
* 32-bit overflow of durations (HW5) and quantities (HW6): undefined in C, and
  no limit is stated in the repository.
* I/O errors while output files are written, and failures of semaphore calls.
