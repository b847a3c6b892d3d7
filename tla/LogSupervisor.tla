--------------------------- MODULE LogSupervisor ---------------------------
(***************************************************************************)
(* The HW4 parent process (main.c): it forks the readers, the dispatcher,  *)
(* the analyzers and the aggregator, starts the watchdog thread, reaps its *)
(* children with waitpid and destroys the shared regions.  SIGINT sets a   *)
(* flag; only an interrupted waitpid makes the parent look at it, send     *)
(* SIGTERM and, after a deadline, SIGKILL.                                 *)
(*                                                                         *)
(* What the children do is in LogPipeline; here a child runs until it      *)
(* exits by itself, unless it is one of those that hang (the processes     *)
(* behind a reader that died wait for its EOF markers for ever).           *)
(***************************************************************************)
EXTENDS Integers, FiniteSets, FiniteSetsExt

CONSTANTS
    NumChildren,  \* readers, dispatcher, analyzers and aggregator
    Hangs,        \* the sets of children that may hang in a run
    MaxSigints    \* bound: SIGINTs sent to the parent

ASSUME SupervisorAssumption ==
    /\ NumChildren \in Nat \ {0}
    /\ Hangs \subseteq SUBSET (1..NumChildren)
    /\ MaxSigints \in Nat

Children == 1..NumChildren

VARIABLES
    child,      \* [Children -> ...]: the processes
    hung,       \* those that never exit by themselves
    mpc,        \* where the parent's main thread is
    forked,     \* children.count
    tracked,    \* the i with children.pids[i] > 0
    remaining,  \* remaining_children
    flag,       \* g_sigint_received
    sigints,    \* SIGINTs so far
    watchdog,   \* where the watchdog thread is
    shutdown,   \* shutdown_watchdog
    regions     \* the shared regions

parentVars   == <<mpc, forked, tracked, remaining>>
signalVars   == <<flag, sigints>>
watchdogVars == <<watchdog, shutdown>>
vars == <<child, hung, parentVars, signalVars, watchdogVars, regions>>

Init ==
    /\ child = [c \in Children |-> "none"] /\ hung \in Hangs
    /\ mpc = "fork" /\ forked = 0 /\ tracked = {} /\ remaining = 0
    /\ flag = FALSE /\ sigints = 0
    /\ watchdog = "none" /\ shutdown = FALSE
    /\ regions = "live"

With(state) == {c \in Children : child[c] = state}

Zombies == With("zombie")

\* kill() of a set of children: a running one is about to die.
Killed(S) == [c \in Children |-> IF c \in S /\ child[c] = "running" THEN "dying" ELSE child[c]]

-----------------------------------------------------------------------------
(* Children, the watchdog thread and the terminal                          *)

ChildExits(c) ==
    /\ \/ child[c] = "running" /\ c \notin hung
       \/ child[c] = "dying"
    /\ child' = [child EXCEPT ![c] = "zombie"]
    /\ UNCHANGED <<hung, parentVars, signalVars, watchdogVars, regions>>

\* The loop test of the watchdog; its select() waits at most three seconds.
WatchdogEnds ==
    /\ watchdog = "running" /\ shutdown
    /\ watchdog' = "ended"
    /\ UNCHANGED <<child, hung, parentVars, signalVars, shutdown, regions>>

\* SIGINT: the handler sets the flag, in the main thread or in the watchdog
\* thread.  Only waitpid in the main thread is interrupted.
Sigint ==
    /\ sigints < MaxSigints /\ mpc \notin {"exited", "aborted", "failed"}
    /\ sigints' = sigints + 1
    /\ flag' = TRUE
    /\ \/ mpc' = IF mpc = "waitpid" THEN "eintr" ELSE mpc
       \/ watchdog = "running" /\ mpc' = mpc
    /\ UNCHANGED <<child, hung, forked, tracked, remaining, watchdogVars, regions>>

-----------------------------------------------------------------------------
(* The parent: start and normal end                                        *)

Fork ==
    /\ mpc = "fork" /\ forked < NumChildren
    /\ child' = [child EXCEPT ![forked + 1] = "running"]
    /\ forked' = forked + 1
    /\ tracked' = tracked \cup {forked + 1}
    /\ UNCHANGED <<hung, mpc, remaining, signalVars, watchdogVars, regions>>

\* pipe() or fork() fails: die_errno; the children forked so far are orphans.
ForkFails ==
    /\ mpc = "fork" /\ forked < NumChildren
    /\ mpc' = "failed"
    /\ UNCHANGED <<child, hung, forked, tracked, remaining, signalVars, watchdogVars,
                   regions>>

\* remaining_children before the wait loop.
ChildCount == forked

StartWatchdog ==
    /\ mpc = "fork" /\ forked = NumChildren
    /\ watchdog' = "running"
    /\ remaining' = ChildCount
    /\ mpc' = "loop"
    /\ UNCHANGED <<child, hung, forked, tracked, signalVars, shutdown, regions>>

ChildrenLeft == remaining > 0

\* The loop test: wait for the next child, or stop.
WaitLoop ==
    /\ mpc = "loop"
    /\ mpc' = IF ChildrenLeft THEN "waitpid" ELSE "stop"
    /\ UNCHANGED <<child, hung, forked, tracked, remaining, signalVars, watchdogVars,
                   regions>>

\* Mutant: mark_child_reaped is not called.
StillTracked(c) == tracked

\* mark_child_reaped.
MarkChildReaped(c) == tracked \ {c}

\* waitpid returns a child.
Reap(c) ==
    /\ mpc = "waitpid" /\ c \in Zombies
    /\ child' = [child EXCEPT ![c] = "reaped"]
    /\ tracked' = MarkChildReaped(c)
    /\ remaining' = remaining - 1
    /\ mpc' = "loop"
    /\ UNCHANGED <<hung, forked, signalVars, watchdogVars, regions>>

-----------------------------------------------------------------------------
(* The parent: terminate_children                                          *)

\* Mutant: the readers are forgotten (the first child stays).
AllButFirst == tracked \ {1}

\* Whom terminate_children signals.
Targets == tracked

SendSigterm ==
    /\ mpc = "eintr"
    /\ child' = Killed(Targets)
    /\ mpc' = "reaping"
    /\ UNCHANGED <<hung, forked, tracked, remaining, signalVars, watchdogVars, regions>>

ReapTerminated(c) ==
    /\ mpc = "reaping" /\ c \in Zombies
    /\ child' = [child EXCEPT ![c] = "reaped"]
    /\ tracked' = MarkChildReaped(c)
    /\ UNCHANGED <<hung, mpc, forked, remaining, signalVars, watchdogVars, regions>>

\* No child is left (ECHILD), or the five seconds are over: SIGKILL the rest.
SendSigkill ==
    /\ mpc = "reaping"
    /\ child' = Killed(Targets)
    /\ mpc' = "collect"
    /\ UNCHANGED <<hung, forked, tracked, remaining, signalVars, watchdogVars, regions>>

\* Reap without waiting, and without marking, what is dead by now.
Collect(c) ==
    /\ mpc = "collect" /\ c \in Zombies
    /\ child' = [child EXCEPT ![c] = "reaped"]
    /\ UNCHANGED <<hung, parentVars, signalVars, watchdogVars, regions>>

CollectEnds ==
    /\ mpc = "collect" /\ Zombies = {}
    /\ mpc' = "abort"
    /\ UNCHANGED <<child, hung, forked, tracked, remaining, signalVars, watchdogVars,
                   regions>>

-----------------------------------------------------------------------------
(* The parent: the end of both paths                                       *)

\* Mutant: shutdown_watchdog is not set.
JoinOnly ==
    /\ mpc \in {"stop", "abort"}
    /\ mpc' = IF mpc = "stop" THEN "join" ELSE "abortJoin"
    /\ UNCHANGED <<child, hung, forked, tracked, remaining, signalVars, watchdogVars,
                   regions>>

\* Both ends begin alike: shutdown_watchdog = 1, join the watchdog thread.
StopWatchdog ==
    /\ mpc \in {"stop", "abort"}
    /\ shutdown' = TRUE
    /\ mpc' = IF mpc = "stop" THEN "join" ELSE "abortJoin"
    /\ UNCHANGED <<child, hung, forked, tracked, remaining, signalVars, watchdog, regions>>

\* The watchdog is joined; the summary (after a normal end), the regions
\* destroyed, exit.
Exit ==
    /\ mpc \in {"join", "abortJoin"} /\ watchdog = "ended"
    /\ regions' = "destroyed"
    /\ mpc' = IF mpc = "join" THEN "exited" ELSE "aborted"
    /\ UNCHANGED <<child, hung, forked, tracked, remaining, signalVars, watchdogVars>>

-----------------------------------------------------------------------------

Ended == mpc \in {"exited", "aborted", "failed"}

Parent == \/ Fork \/ ForkFails \/ StartWatchdog \/ WaitLoop
          \/ \E c \in Children : Reap(c) \/ ReapTerminated(c) \/ Collect(c)
          \/ SendSigterm \/ SendSigkill \/ CollectEnds \/ StopWatchdog \/ Exit

Next == \/ Parent \/ WatchdogEnds \/ Sigint
        \/ \E c \in Children : ChildExits(c)
        \/ Ended /\ UNCHANGED vars

Spec == Init /\ [][Next]_vars

\* Every process and thread runs; SIGINT need not come.
FairSpec == /\ Spec
            /\ WF_vars(Parent) /\ WF_vars(WatchdogEnds)
            /\ \A c \in Children : WF_vars(ChildExits(c))

-----------------------------------------------------------------------------
(* Properties                                                              *)

\* Type correctness.
TypeOK ==
    /\ child \in [Children -> {"none", "running", "dying", "zombie", "reaped"}]
    /\ hung \subseteq Children
    /\ mpc \in {"fork", "loop", "waitpid", "eintr", "reaping", "collect", "stop",
                "abort", "join", "abortJoin", "exited", "aborted", "failed"}
    /\ forked \in 0..NumChildren /\ tracked \subseteq Children
    /\ remaining \in 0..NumChildren
    /\ flag \in BOOLEAN /\ sigints \in 0..MaxSigints
    /\ watchdog \in {"none", "running", "ended"} /\ shutdown \in BOOLEAN
    /\ regions \in {"live", "destroyed"}

\* A signal only goes to a child that has not been reaped: terminate_children
\* never hits a process that got the number of a reaped child.
SignalsHitChildren ==
    mpc \in {"waitpid", "eintr", "reaping"} =>
        tracked = {c \in 1..forked : child[c] # "reaped"}

\* The shared regions are destroyed only when no child goes on running on them:
\* each has exited or has a deadly signal pending, and the watchdog is gone.
\* After a normal end all were reaped first: the summary is complete.
RegionsOutliveChildren ==
    /\ regions = "destroyed" => With("running") = {} /\ watchdog = "ended"
    /\ mpc \in {"stop", "join", "exited"} => With("reaped") = Children

\* The parent ends when no child hangs, or as soon as a SIGINT has interrupted
\* waitpid, whatever hangs.
ParentEnds == (hung = {} \/ mpc = "eintr") ~> Ended

=============================================================================
