----------------------------- MODULE FileSearch -----------------------------
(***************************************************************************)
(* The HW2 parallel file search: a parent that deals the subdirectories of *)
(* the root out to worker processes, sleeps in sigsuspend() until SIGCHLD  *)
(* or SIGINT comes, and puts the report together from the workers'         *)
(* temporary files and exit statuses.                                      *)
(*                                                                         *)
(* The directory tree is an input: the matching files of every             *)
(* subdirectory in the order readdir() yields them (which files match is   *)
(* FileNames).  Each is "plain" or "spaced": parse_match_line reads the    *)
(* path with %4095s and loses lines whose path holds a blank.              *)
(*                                                                         *)
(* The model starts when the signals are blocked and the handlers          *)
(* installed.  handler_sigusr1 and process_sigchld only count and print;   *)
(* their flags are left out, their wake-ups are not.                       *)
(***************************************************************************)
EXTENDS Totals, Integers, Sequences, FiniteSets, SequencesExt, FiniteSetsExt

CONSTANTS
    Trees,          \* inputs: sequences of subdirectories, each a sequence of files
    MaxWorkers,     \* -n, num_workers
    RootFiles,      \* input: the matching files directly in the root
    StatusRange,    \* 256 in the code: the values of an exit status
    MaxMatches,     \* MAX_MATCHES
    MaxFaults       \* bound: workers killed from outside and failing forks

FileKinds == {"plain", "spaced"}

ASSUME SearchAssumption ==
    /\ Trees \subseteq Seq(Seq(FileKinds)) /\ RootFiles \in Seq(FileKinds)
    /\ MaxWorkers \in Nat \ {0} /\ StatusRange \in Nat \ {0}
    /\ MaxMatches \in Nat /\ MaxFaults \in Nat

Workers == 1..MaxWorkers
Signals == {"SIGUSR1", "SIGCHLD", "SIGINT"}
NoReport == [listed |-> <<>>, total |-> -1]

VARIABLES
    tree,       \* subdirs: what the root holds
    parent,     \* where the parent is
    forked,     \* g_num_children
    pending,    \* signals sent to the parent, blocked and not yet delivered
    sigint,     \* g_sigint_received
    worker,     \* the worker processes
    tmpfile,    \* the temporary files: their lines, by worker
    existing,   \* the workers whose temporary file exists
    reaped,     \* g_reaped_pids, as the set of workers collected by waitpid()
    cursor,     \* the temporary file the parent reads, and how many lines it has read
    listed,     \* match_entries
    report,     \* what print_tree and print_summary were given
    faults      \* faults so far

readVars == <<cursor, listed>>
vars == <<tree, parent, forked, pending, sigint, worker, tmpfile, existing, reaped, readVars,
          report, faults>>

\* Fewer subdirectories than workers: one worker each.
NumWorkers == Min({MaxWorkers, Len(tree)})
Team       == 1..NumWorkers

NewWorker == [at |-> "none", found |-> 0, term |-> FALSE, status |-> 0]

\* mkstemp for every worker.
Init ==
    /\ tree \in Trees
    /\ parent = IF tree = <<>> THEN "direct" ELSE "fork"
    /\ forked = 0 /\ pending = {} /\ sigint = FALSE
    /\ worker = [w \in Workers |-> NewWorker]
    /\ tmpfile = [w \in Workers |-> <<>>] /\ existing = Team
    /\ cursor = [file |-> 1, lines |-> 0] /\ listed = <<>>
    /\ reaped = {} /\ report = NoReport /\ faults = 0

-----------------------------------------------------------------------------
(* The workers (run_worker)                                                *)

\* The matching files: <<d, i>> is the i-th of subdirectory d.
AllFiles == UNION {{<<d, i>> : i \in DOMAIN tree[d]} : d \in DOMAIN tree}

\* Round robin: those in the subdirectories of worker w.
FilesOf(w) == {f \in AllFiles : (f[1] - 1) % NumWorkers = w - 1}

\* The order in which a worker meets them.
Before(f, g) == f[1] < g[1] \/ (f[1] = g[1] /\ f[2] < g[2])

Over       == parent \in {"done", "stopped", "failed"}
Running(w) == worker[w].at \in {"forked", "search", "notify", "exit"}
Zombies    == {w \in Workers : worker[w].at = "zombie"}

\* A process ends: its status waits for waitpid(), SIGCHLD for delivery.
Ends(w, status) ==
    /\ worker' = [worker EXCEPT ![w].at = "zombie", ![w].status = status]
    /\ pending' = IF Over THEN pending ELSE pending \cup {"SIGCHLD"}

\* sigaction(SIGTERM) and fopen(result_file, "w").
StartWorker(w) ==
    /\ worker[w].at = "forked"
    /\ worker' = [worker EXCEPT ![w].at = "search"]
    /\ tmpfile' = [tmpfile EXCEPT ![w] = <<>>]
    /\ existing' = existing \cup {w}
    /\ UNCHANGED <<tree, parent, forked, pending, sigint, reaped, readVars, report, faults>>

\* search_dir: the next match goes to the temporary file.
FindMatch(w) ==
    /\ worker[w].at = "search" /\ ~worker[w].term
    /\ \E f \in FilesOf(w) \ ToSet(tmpfile[w]) :
         /\ \A g \in FilesOf(w) : Before(g, f) => g \in ToSet(tmpfile[w])
         /\ tmpfile' = [tmpfile EXCEPT ![w] = Append(@, f)]
    /\ worker' = [worker EXCEPT ![w].found = @ + 1]
    /\ UNCHANGED <<tree, parent, forked, pending, sigint, existing, reaped, readVars, report, faults>>

\* All directories searched, or SIGTERM: with SIGTERM the parent gets no SIGUSR1.
FinishSearch(w) ==
    /\ worker[w].at = "search"
    /\ worker[w].term \/ FilesOf(w) \subseteq ToSet(tmpfile[w])
    /\ worker' = [worker EXCEPT ![w].at = IF worker[w].term THEN "exit" ELSE "notify"]
    /\ UNCHANGED <<tree, parent, forked, pending, sigint, tmpfile, existing, reaped, readVars, report, faults>>

\* kill(parent_pid, SIGUSR1).
NotifyParent(w) ==
    /\ worker[w].at = "notify"
    /\ pending' = IF Over THEN pending ELSE pending \cup {"SIGUSR1"}
    /\ worker' = [worker EXCEPT ![w].at = "exit"]
    /\ UNCHANGED <<tree, parent, forked, sigint, tmpfile, existing, reaped, readVars, report, faults>>

\* Mutant: g_is_parent is not consulted.
UnlinksAll(isParent) == {}

\* cleanup_tmpfiles, run by exit() in the parent and, as fork() inherits
\* atexit() handlers, in every worker: what is left of the temporary files.
CleanupTmpfiles(isParent) == IF isParent THEN {} ELSE existing

\* exit(match_count % 256).
ExitWorker(w) ==
    /\ worker[w].at = "exit"
    /\ Ends(w, worker[w].found % StatusRange)
    /\ existing' = CleanupTmpfiles(FALSE)
    /\ UNCHANGED <<tree, parent, forked, sigint, tmpfile, reaped, readVars, report, faults>>

\* A worker dies of a signal nobody here sent; WIFEXITED is then false and it
\* counts as 0.
WorkerKilled(w) ==
    /\ Running(w) /\ faults < MaxFaults
    /\ faults' = faults + 1
    /\ Ends(w, -1)
    /\ UNCHANGED <<tree, parent, forked, sigint, tmpfile, existing, reaped, readVars, report>>

-----------------------------------------------------------------------------
(* The parent                                                              *)

\* parse_match_line understands the line of a file whose path holds no blank
\* (and fits the buffer of fgets: a longer one is lost in the same way).
Listable(f) == tree[f[1]][f[2]] = "plain"

\* No subdirectories: collect_matches on the root, without workers.
SearchDirectly ==
    /\ parent = "direct"
    /\ LET n == Min({Len(RootFiles), MaxMatches})
       IN  report' = [listed |-> [i \in 1..n |-> <<0, i>>], total |-> n]
    /\ parent' = "done"
    /\ UNCHANGED <<tree, forked, pending, sigint, worker, tmpfile, existing, reaped, readVars, faults>>

ForkWorker ==
    /\ parent = "fork"
    /\ worker' = [worker EXCEPT ![forked + 1].at = "forked"]
    /\ forked' = forked + 1
    /\ parent' = IF forked + 1 < NumWorkers THEN "fork" ELSE "check"
    /\ UNCHANGED <<tree, pending, sigint, tmpfile, existing, reaped, readVars, report, faults>>

\* return 1 from the fork loop: the workers go on, g_is_parent is still 0.
ForkFails ==
    /\ parent = "fork" /\ faults < MaxFaults
    /\ faults' = faults + 1
    /\ parent' = "failed"
    /\ existing' = CleanupTmpfiles(FALSE)
    /\ UNCHANGED <<tree, forked, pending, sigint, worker, tmpfile, reaped, readVars, report>>

\* The head of the wait loop.
CheckLoop ==
    /\ parent = "check"
    /\ parent' = IF Cardinality(reaped) >= NumWorkers THEN "collect"
                 ELSE IF sigint THEN "terminate" ELSE "ready"
    /\ UNCHANGED <<tree, forked, pending, sigint, worker, tmpfile, existing, reaped, readVars, report, faults>>

\* The call of sigsuspend(), which unblocks the signals and sleeps.
Suspend ==
    /\ parent = "ready"
    /\ parent' = "asleep"
    /\ UNCHANGED <<tree, forked, pending, sigint, worker, tmpfile, existing, reaped, readVars, report, faults>>

\* Mutant: SIGCHLD and SIGINT are not blocked between test and sigsuspend().
NothingBlocked == parent \in {"check", "ready", "asleep"}

\* Where a signal can be delivered: the mask lets them through in sigsuspend() only.
Unblocked == parent = "asleep"

\* The workers when waitpid() has returned those in ws.
Collected(ws) == [w \in Workers |-> IF w \in ws THEN [worker[w] EXCEPT !.at = "reaped"] ELSE worker[w]]

\* The handlers of some pending signals run; sigsuspend() then returns.
\* handler_sigchld reaps every zombie there is.
DeliverSignals(sigs) ==
    /\ Unblocked /\ sigs # {} /\ sigs \subseteq pending
    /\ pending' = pending \ sigs
    /\ sigint' = (sigint \/ "SIGINT" \in sigs)
    /\ reaped' = IF "SIGCHLD" \in sigs THEN reaped \cup Zombies ELSE reaped
    /\ worker' = IF "SIGCHLD" \in sigs THEN Collected(Zombies) ELSE worker
    /\ parent' = IF parent = "asleep" THEN "check" ELSE parent
    /\ UNCHANGED <<tree, forked, tmpfile, existing, readVars, report, faults>>

\* SIGINT to the parent.  The workers inherit the handler, so that a SIGINT to
\* the whole process group does nothing to them.
Interrupt ==
    /\ parent # "direct" /\ ~Over
    /\ "SIGINT" \notin pending /\ ~sigint
    /\ pending' = pending \cup {"SIGINT"}
    /\ UNCHANGED <<tree, parent, forked, sigint, worker, tmpfile, existing, reaped, readVars, report, faults>>

\* SIGTERM: a worker that has not installed its handler dies at once.
Terminated(w) ==
    IF worker[w].at = "forked" THEN [worker[w] EXCEPT !.at = "zombie", !.status = -1]
    ELSE IF Running(w) THEN [worker[w] EXCEPT !.term = TRUE] ELSE worker[w]

\* terminate_all_workers: SIGTERM to every worker ...
TerminateAll ==
    /\ parent = "terminate"
    /\ worker' = [w \in Workers |-> Terminated(w)]
    /\ parent' = "poll"
    /\ UNCHANGED <<tree, forked, pending, sigint, tmpfile, existing, reaped, readVars, report, faults>>

\* The end of the interrupted run: return 1, exit handlers included.
Stop ==
    /\ parent' = "stopped"
    /\ existing' = CleanupTmpfiles(TRUE)

\* ... then waitpid() every 100 ms; a round that finds nothing to collect and a
\* worker still running changes nothing ...
PollWorkers ==
    /\ parent = "poll"
    /\ Zombies # {} \/ \A w \in Workers : ~Running(w)
    /\ worker' = Collected(Zombies)
    /\ reaped' = reaped \cup Zombies
    /\ IF \A w \in Workers : ~Running(w) THEN Stop ELSE UNCHANGED <<parent, existing>>
    /\ UNCHANGED <<tree, forked, pending, sigint, tmpfile, readVars, report, faults>>

\* Mutant: the stragglers are left alone.
KilledNone == worker

\* SIGKILL takes effect at once; in the program a killed worker, which runs no
\* further code of its own, may be gone a moment after the parent.
Killed == [w \in Workers |-> IF Running(w) THEN [worker[w] EXCEPT !.at = "zombie", !.status = -1]
                             ELSE worker[w]]

\* ... until the deadline of three seconds: SIGKILL.  Zombies that the last
\* waitpid() misses go to init.
DeadlineExpires ==
    /\ parent = "poll" /\ \E w \in Workers : Running(w)
    /\ worker' = Killed
    /\ Stop
    /\ UNCHANGED <<tree, forked, pending, sigint, tmpfile, reaped, readVars, report, faults>>

\* The next line of the temporary file the parent has open.
ReadMatch ==
    /\ parent = "collect" /\ cursor.file \in Team \cap existing
    /\ cursor.lines < Len(tmpfile[cursor.file])
    /\ cursor' = [cursor EXCEPT !.lines = @ + 1]
    /\ LET f == tmpfile[cursor.file][cursor.lines + 1]
       IN  listed' = IF Listable(f) /\ Len(listed) < MaxMatches THEN Append(listed, f) ELSE listed
    /\ UNCHANGED <<tree, parent, forked, pending, sigint, worker, tmpfile, existing, reaped, report, faults>>

\* Its end, or a file that cannot be opened.
NextTmpfile ==
    /\ parent = "collect" /\ cursor.file \in Team
    /\ cursor.file \in existing => cursor.lines = Len(tmpfile[cursor.file])
    /\ cursor' = [file |-> cursor.file + 1, lines |-> 0]
    /\ UNCHANGED <<tree, parent, forked, pending, sigint, worker, tmpfile, existing, reaped, listed,
                   report, faults>>

\* match_count of a worker: its exit status, or 0 when it was killed.
MatchCount == [w \in Workers |-> IF worker[w].status >= 0 THEN worker[w].status ELSE 0]

\* Tree and summary are printed; return 0.
Report ==
    /\ parent = "collect" /\ cursor.file \notin Team
    /\ report' = [listed |-> listed, total |-> Total(MatchCount, reaped)]
    /\ parent' = "done"
    /\ existing' = CleanupTmpfiles(TRUE)
    /\ UNCHANGED <<tree, forked, pending, sigint, worker, tmpfile, reaped, readVars, faults>>

-----------------------------------------------------------------------------

WorkerStep(w) == StartWorker(w) \/ FindMatch(w) \/ FinishSearch(w) \/ NotifyParent(w) \/ ExitWorker(w)

ParentStep == \/ SearchDirectly \/ ForkWorker \/ CheckLoop \/ Suspend
              \/ (\E sigs \in SUBSET Signals : DeliverSignals(sigs))
              \/ TerminateAll \/ PollWorkers \/ DeadlineExpires
              \/ ReadMatch \/ NextTmpfile \/ Report

Next == \/ ParentStep \/ ForkFails \/ Interrupt
        \/ \E w \in Workers : WorkerStep(w) \/ WorkerKilled(w)

Spec == Init /\ [][Next]_vars

\* Every process is scheduled and a directory tree has an end; nobody needs to
\* press Ctrl-C, and no fault needs to happen.
FairSpec == Spec /\ WF_vars(ParentStep) /\ \A w \in Workers : WF_vars(WorkerStep(w))

-----------------------------------------------------------------------------
(* Properties                                                              *)

Plain(fs) == {f \in fs : Listable(f)}

\* The report of a search with workers: the tree shows matching files of the
\* subdirectories, none twice, and, up to MAX_MATCHES, all of them that have
\* no blank in their path, but for those of workers that died; the total adds
\* what each surviving worker found modulo the range of an exit status.  In
\* between, exit handlers run in every process, signals merge and results are
\* collected in any order (main.c, worker.c).
ReportIsExact ==
    report # NoReport /\ tree # <<>> =>
        LET alive   == {w \in Team : worker[w].status >= 0}
            certain == Plain(UNION {FilesOf(w) : w \in alive})
            shown   == ToSet(report.listed)
        IN  /\ shown \subseteq Plain(AllFiles)
            /\ Cardinality(shown) = Len(report.listed)
            /\ certain \subseteq shown \/ Len(report.listed) = MaxMatches
            /\ alive = Team => (Len(report.listed) = Min({Cardinality(Plain(AllFiles)), MaxMatches}))
            /\ report.total = Total([w \in Team |-> Cardinality(FilesOf(w)) % StatusRange], alive)

\* A run that ends with a report or is interrupted leaves nothing behind: no
\* worker is running, however late it was forked or slow to react to SIGTERM,
\* and no temporary file is left or created again (terminate_all_workers).
LeavesNothingBehind ==
    parent \in {"done", "stopped"} => existing = {} /\ \A w \in Workers : ~Running(w)

\* No signal is lost between the test and sigsuspend(), and several SIGCHLDs
\* merged into one still collect every worker: the search always ends.
SearchEnds == <>Over

=============================================================================
