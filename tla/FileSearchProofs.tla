-------------------------- MODULE FileSearchProofs --------------------------
(***************************************************************************)
(* Proofs about FileSearch for every set of trees, every number of workers *)
(* and every number of faults: the bookkeeping of the parent, that a run   *)
(* that reports or is interrupted leaves nothing behind, and that the      *)
(* report is exact.                                                        *)
(***************************************************************************)
EXTENDS FileSearch, CountingLemmas

-----------------------------------------------------------------------------
(* The inductive invariant                                                 *)

Places  == {"none", "forked", "search", "notify", "exit", "zombie", "reaped"}
Waiting == {"check", "ready", "asleep", "terminate", "poll", "collect"}
Stages  == Waiting \cup {"direct", "fork", "done", "stopped", "failed"}

\* Types of what the bookkeeping is about.
SearchTypes ==
    /\ tree \in Trees
    /\ parent \in Stages
    /\ forked \in 0..NumWorkers
    /\ worker \in [Workers -> [at : Places, found : Nat, term : BOOLEAN, status : Int]]
    /\ existing \subseteq Workers

\* The workers forked so far, and no others, are processes; the fork loop ends
\* when there is one for every share of the subdirectories.
ForkedWorkers ==
    /\ \A w \in Workers : worker[w].at = "none" <=> w > forked
    /\ parent = "fork" => forked < NumWorkers
    /\ parent \in Waiting => forked = NumWorkers

\* g_reaped_pids holds exactly the workers that waitpid() has returned.
ReapedWorkers == reaped = {w \in Workers : worker[w].at = "reaped"}

\* Without subdirectories there are no workers and no temporary files.
DirectSearch == parent = "direct" => forked = 0 /\ existing = {}

\* The wait loop ends in "collect" when every worker was reaped.
AllCollected == parent = "collect" => \A w \in Workers : ~Running(w)

SearchInv ==
    /\ SearchTypes /\ ForkedWorkers /\ ReapedWorkers /\ DirectSearch
    /\ AllCollected /\ LeavesNothingBehind

-----------------------------------------------------------------------------
(* The number of workers                                                   *)

\* One worker per subdirectory, up to MaxWorkers; at least one when there is a
\* subdirectory.
LEMMA TeamSize ==
    ASSUME tree \in Trees
    PROVE  /\ NumWorkers \in Nat /\ NumWorkers <= MaxWorkers
           /\ tree = <<>> => NumWorkers = 0
           /\ tree # <<>> => NumWorkers > 0
<1> DEFINE n == Len(tree)
<1>1. MaxWorkers \in Nat \ {0} /\ tree \in Seq(Seq(FileKinds))
  BY SearchAssumption
<1>2. n \in Nat /\ (tree = <<>> <=> n = 0)
  BY <1>1
<1> HIDE DEF n
<1>3. {MaxWorkers, n} \in SUBSET Nat /\ {MaxWorkers, n} # {}
  BY <1>1, <1>2
<1>4. Min({MaxWorkers, n}) \in {MaxWorkers, n} /\ \A j \in {MaxWorkers, n} : Min({MaxWorkers, n}) <= j
  BY <1>3, MinNatural
<1>5. NumWorkers = Min({MaxWorkers, n})
  BY DEF NumWorkers, n
<1> QED BY <1>1, <1>2, <1>4, <1>5

\* The tree does not change, so neither does the number of workers.
LEMMA TeamFrame ==
    ASSUME tree' = tree
    PROVE  NumWorkers' = NumWorkers
BY DEF NumWorkers

\* When as many workers are reaped as there are, nobody is left running.
LEMMA AllReaped ==
    ASSUME SearchTypes, ForkedWorkers, ReapedWorkers,
           forked = NumWorkers, Cardinality(reaped) >= NumWorkers
    PROVE  reaped = Team /\ \A w \in Workers : ~Running(w)
<1>1. NumWorkers \in Nat /\ NumWorkers <= MaxWorkers /\ MaxWorkers \in Nat
  BY TeamSize, SearchAssumption DEF SearchTypes
<1>2. reaped \subseteq 1..NumWorkers
  BY <1>1 DEF ForkedWorkers, ReapedWorkers, Workers
<1>3. IsFiniteSet(1..NumWorkers) /\ Cardinality(1..NumWorkers) = NumWorkers
  BY <1>1, FS_Interval
<1>4. IsFiniteSet(reaped) /\ Cardinality(reaped) <= NumWorkers
      /\ (Cardinality(reaped) = NumWorkers => reaped = 1..NumWorkers)
  BY <1>2, <1>3, FS_Subset
<1>5. Cardinality(reaped) \in Nat
  BY <1>4, FS_CardinalityType
<1>6. reaped = 1..NumWorkers
  BY <1>1, <1>4, <1>5
<1>7. \A w \in Workers : ~Running(w)
  BY <1>1, <1>6 DEF ForkedWorkers, ReapedWorkers, Workers, Running
<1> QED BY <1>6, <1>7 DEF Team

-----------------------------------------------------------------------------
(* Initial states                                                          *)

\* The invariant holds when the parent starts.
LEMMA SearchInit == Init => SearchInv
<1> SUFFICES ASSUME Init PROVE SearchInv
  OBVIOUS
<1>1. tree \in Trees
  BY DEF Init
<1>2. /\ NumWorkers \in Nat /\ NumWorkers <= MaxWorkers /\ MaxWorkers \in Nat
      /\ tree = <<>> => NumWorkers = 0
      /\ tree # <<>> => NumWorkers > 0
  BY <1>1, TeamSize, SearchAssumption
<1>3. parent = (IF tree = <<>> THEN "direct" ELSE "fork") /\ forked = 0
      /\ existing = 1..NumWorkers /\ reaped = {}
  BY DEF Init, Team
<1>4. worker = [w \in Workers |-> [at |-> "none", found |-> 0, term |-> FALSE, status |-> 0]]
  BY DEF Init, NewWorker
<1>5. SearchTypes
  BY <1>1, <1>2, <1>3, <1>4 DEF SearchTypes, Stages, Waiting, Places, Workers
<1>6. ForkedWorkers
  BY <1>2, <1>3, <1>4 DEF ForkedWorkers, Waiting, Workers
<1>7. ReapedWorkers /\ AllCollected /\ LeavesNothingBehind
  BY <1>3, <1>4 DEF ReapedWorkers, AllCollected, LeavesNothingBehind
<1>8. DirectSearch
  BY <1>2, <1>3 DEF DirectSearch
<1> QED BY <1>5, <1>6, <1>7, <1>8 DEF SearchInv

-----------------------------------------------------------------------------
(* The workers                                                             *)

Alive == {"forked", "search", "notify", "exit", "zombie"}

\* A running worker moves on or ends, and the parent stays where it is.
LEMMA WorkerMoves ==
    ASSUME SearchInv, NEW w \in Workers, Running(w),
           UNCHANGED <<tree, parent, forked, reaped>>,
           NEW r \in [at : Places, found : Nat, term : BOOLEAN, status : Int],
           r.at \in Alive,
           worker' = [worker EXCEPT ![w] = r],
           existing' \subseteq existing \cup {w}
    PROVE  SearchInv'
<1> USE DEF SearchInv
<1>1. tree \in Trees /\ NumWorkers' = NumWorkers
  BY TeamFrame DEF SearchTypes
<1>2. NumWorkers \in Nat /\ MaxWorkers \in Nat
  BY <1>1, TeamSize, SearchAssumption
<1>3. /\ worker'[w] = r
      /\ \A v \in Workers : v # w => worker'[v] = worker[v]
  BY DEF SearchTypes
<1>4. worker[w].at # "none" /\ worker[w].at # "reaped" /\ r.at # "none" /\ r.at # "reaped"
  BY DEF Running, Alive
<1>5. parent \notin {"direct", "collect", "done", "stopped"}
  <2>1. w <= forked /\ w > 0
    BY <1>2, <1>4 DEF ForkedWorkers, SearchTypes, Workers
  <2>2. parent # "direct"
    BY <2>1 DEF DirectSearch, Workers
  <2> QED BY <2>2 DEF AllCollected, LeavesNothingBehind
<1>6. SearchTypes'
  BY <1>1 DEF SearchTypes
<1>7. ForkedWorkers'
  BY <1>1, <1>3, <1>4 DEF ForkedWorkers
<1>8. ReapedWorkers'
  BY <1>3, <1>4 DEF ReapedWorkers
<1>9. DirectSearch' /\ AllCollected' /\ LeavesNothingBehind'
  BY <1>5 DEF DirectSearch, AllCollected, LeavesNothingBehind
<1> QED BY <1>6, <1>7, <1>8, <1>9

\* Every step of a worker, its death included, is such a move.
LEMMA WorkerSteps ==
    ASSUME SearchInv, NEW w \in Workers, WorkerStep(w) \/ WorkerKilled(w)
    PROVE  SearchInv'
<1> DEFINE Shape == [at : Places, found : Nat, term : BOOLEAN, status : Int]
<1>1. worker \in [Workers -> Shape] /\ worker[w] \in Shape
  BY DEF SearchInv, SearchTypes
<1>2. CASE StartWorker(w)
  <2> DEFINE r == [worker[w] EXCEPT !.at = "search"]
  <2>1. r \in Shape /\ r.at \in Alive /\ Running(w)
    BY <1>1, <1>2 DEF StartWorker, Places, Alive, Running
  <2>2. worker' = [worker EXCEPT ![w] = r] /\ existing' \subseteq existing \cup {w}
        /\ UNCHANGED <<tree, parent, forked, reaped>>
    BY <1>1, <1>2 DEF StartWorker
  <2> QED BY <2>1, <2>2, WorkerMoves
<1>3. CASE FindMatch(w)
  <2> DEFINE r == [worker[w] EXCEPT !.found = @ + 1]
  <2>1. r \in Shape /\ r.at \in Alive /\ Running(w)
    <3>1. worker[w].at = "search"
      BY <1>3 DEF FindMatch
    <3> QED BY <1>1, <3>1 DEF Alive, Running
  <2>2. worker' = [worker EXCEPT ![w] = r] /\ existing' \subseteq existing \cup {w}
        /\ UNCHANGED <<tree, parent, forked, reaped>>
    BY <1>1, <1>3 DEF FindMatch
  <2> QED BY <2>1, <2>2, WorkerMoves
<1>4. CASE FinishSearch(w)
  <2> DEFINE r == [worker[w] EXCEPT !.at = IF worker[w].term THEN "exit" ELSE "notify"]
  <2>1. r \in Shape /\ r.at \in Alive /\ Running(w)
    BY <1>1, <1>4 DEF FinishSearch, Places, Alive, Running
  <2>2. worker' = [worker EXCEPT ![w] = r] /\ existing' \subseteq existing \cup {w}
        /\ UNCHANGED <<tree, parent, forked, reaped>>
    BY <1>1, <1>4 DEF FinishSearch
  <2> QED BY <2>1, <2>2, WorkerMoves
<1>5. CASE NotifyParent(w)
  <2> DEFINE r == [worker[w] EXCEPT !.at = "exit"]
  <2>1. r \in Shape /\ r.at \in Alive /\ Running(w)
    BY <1>1, <1>5 DEF NotifyParent, Places, Alive, Running
  <2>2. worker' = [worker EXCEPT ![w] = r] /\ existing' \subseteq existing \cup {w}
        /\ UNCHANGED <<tree, parent, forked, reaped>>
    BY <1>1, <1>5 DEF NotifyParent
  <2> QED BY <2>1, <2>2, WorkerMoves
<1>6. ASSUME NEW k \in Int, Ends(w, k), Running(w), existing' = existing,
             UNCHANGED <<tree, parent, forked, reaped>>
      PROVE  SearchInv'
  <2> DEFINE r == [worker[w] EXCEPT !.at = "zombie", !.status = k]
  <2>1. r \in Shape /\ r.at \in Alive
    BY <1>1 DEF Places, Alive
  <2>2. worker' = [worker EXCEPT ![w] = r] /\ existing' \subseteq existing \cup {w}
    BY <1>1, <1>6 DEF Ends
  <2> QED BY <1>6, <2>1, <2>2, WorkerMoves
<1>7. CASE ExitWorker(w)
  <2>1. worker[w].found % StatusRange \in Int
    BY <1>1, SearchAssumption
  <2>2. Running(w) /\ Ends(w, worker[w].found % StatusRange) /\ existing' = existing
        /\ UNCHANGED <<tree, parent, forked, reaped>>
    BY <1>7 DEF ExitWorker, Running, CleanupTmpfiles
  <2> QED BY <2>1, <2>2, <1>6
<1>8. CASE WorkerKilled(w)
  <2>1. Running(w) /\ Ends(w, -1) /\ existing' = existing
        /\ UNCHANGED <<tree, parent, forked, reaped>>
    BY <1>8 DEF WorkerKilled
  <2> QED BY <2>1, <1>6
<1> QED BY <1>2, <1>3, <1>4, <1>5, <1>7, <1>8 DEF WorkerStep

-----------------------------------------------------------------------------
(* The parent                                                              *)

\* A step of the parent that leaves workers and temporary files alone.
LEMMA ParentMoves ==
    ASSUME SearchInv, parent \in Waiting, parent' \in Stages \ {"direct", "fork", "done", "stopped"},
           UNCHANGED <<tree, forked, worker, existing, reaped>>,
           parent' = "collect" => \A w \in Workers : ~Running(w)
    PROVE  SearchInv'
<1> USE DEF SearchInv
<1>1. NumWorkers' = NumWorkers
  BY TeamFrame
<1>2. SearchTypes' /\ ForkedWorkers'
  BY <1>1 DEF SearchTypes, ForkedWorkers, Waiting, Stages
<1>3. ReapedWorkers' /\ DirectSearch' /\ AllCollected' /\ LeavesNothingBehind'
  BY DEF ReapedWorkers, DirectSearch, AllCollected, LeavesNothingBehind, Running
<1> QED BY <1>2, <1>3

\* A step that changes what the workers are but creates none: it may reap
\* zombies and turn running workers into zombies.
LEMMA WorkersEnd ==
    ASSUME SearchInv, parent \in Waiting \ {"collect"}, parent' \in {"check", "poll", "stopped"},
           UNCHANGED <<tree, forked>>,
           worker' \in [Workers -> [at : Places, found : Nat, term : BOOLEAN, status : Int]],
           \A w \in Workers : worker'[w].at = "none" <=> worker[w].at = "none",
           reaped' = {w \in Workers : worker'[w].at = "reaped"},
           existing' \subseteq existing,
           parent' = "stopped" => existing' = {} /\ \A w \in Workers : ~Running(w)'
    PROVE  SearchInv'
<1> USE DEF SearchInv
<1>1. NumWorkers' = NumWorkers
  BY TeamFrame
<1>2. SearchTypes'
  BY <1>1 DEF SearchTypes, Waiting, Stages
<1>3. ForkedWorkers'
  BY <1>1 DEF ForkedWorkers, Waiting
<1>4. ReapedWorkers' /\ DirectSearch' /\ AllCollected' /\ LeavesNothingBehind'
  BY DEF ReapedWorkers, DirectSearch, AllCollected, LeavesNothingBehind
<1> QED BY <1>2, <1>3, <1>4

\* waitpid() on the zombies adds them to the reaped and creates nobody.
LEMMA ReapZombies ==
    ASSUME SearchInv
    PROVE  /\ Collected(Zombies) \in
                 [Workers -> [at : Places, found : Nat, term : BOOLEAN, status : Int]]
           /\ \A w \in Workers :
                /\ Collected(Zombies)[w].at = "none" <=> worker[w].at = "none"
                /\ Collected(Zombies)[w].at = "reaped" <=> w \in reaped \cup Zombies
                /\ worker[w].at # "zombie" => Collected(Zombies)[w] = worker[w]
                /\ worker[w].at = "zombie" => Collected(Zombies)[w].at = "reaped"
<1>1. worker \in [Workers -> [at : Places, found : Nat, term : BOOLEAN, status : Int]]
  BY DEF SearchInv, SearchTypes
<1>2. reaped = {w \in Workers : worker[w].at = "reaped"}
  BY DEF SearchInv, ReapedWorkers
<1>3. \A w \in Workers : w \in Zombies <=> worker[w].at = "zombie"
  BY DEF Zombies
<1>4. \A w \in Workers : Collected(Zombies)[w] =
         IF w \in Zombies THEN [worker[w] EXCEPT !.at = "reaped"] ELSE worker[w]
  BY DEF Collected
<1>5. \A w \in Workers : [worker[w] EXCEPT !.at = "reaped"].at = "reaped"
         /\ [worker[w] EXCEPT !.at = "reaped"] \in [at : Places, found : Nat, term : BOOLEAN, status : Int]
  BY <1>1 DEF Places
<1>6. Collected(Zombies) \in [Workers -> [at : Places, found : Nat, term : BOOLEAN, status : Int]]
  BY <1>1, <1>5 DEF Collected
<1> QED BY <1>2, <1>3, <1>4, <1>5, <1>6

\* fork(): one more worker; after the last one the wait loop begins.
LEMMA ForkStep ==
    ASSUME SearchInv, ForkWorker
    PROVE  SearchInv'
<1> USE DEF SearchInv
<1>1. NumWorkers' = NumWorkers /\ NumWorkers \in Nat /\ NumWorkers <= MaxWorkers /\ MaxWorkers \in Nat
  BY TeamFrame, TeamSize, SearchAssumption DEF ForkWorker, SearchTypes
<1>2. forked \in Nat /\ forked < NumWorkers /\ forked' = forked + 1 /\ forked + 1 \in Workers
  BY <1>1 DEF ForkWorker, ForkedWorkers, SearchTypes, Workers
<1>3. /\ parent' = IF forked + 1 < NumWorkers THEN "fork" ELSE "check"
      /\ UNCHANGED <<tree, existing, reaped>>
  BY DEF ForkWorker
<1>4. worker' = [worker EXCEPT ![forked + 1].at = "forked"]
  BY DEF ForkWorker
<1>5. worker' \in [Workers -> [at : Places, found : Nat, term : BOOLEAN, status : Int]]
      /\ worker'[forked + 1].at = "forked"
      /\ \A w \in Workers : w # forked + 1 => worker'[w] = worker[w]
  BY <1>2, <1>4 DEF SearchTypes, Places
<1>6. worker[forked + 1].at = "none"
  BY <1>2 DEF ForkedWorkers
<1>7. SearchTypes'
  BY <1>1, <1>2, <1>3, <1>5 DEF SearchTypes, Stages, Waiting
<1>8. ForkedWorkers'
  <2>1. \A w \in Workers : worker'[w].at = "none" <=> w > forked'
    BY <1>2, <1>5 DEF ForkedWorkers, Workers
  <2>2. forked' >= NumWorkers => forked' = NumWorkers
    BY <1>1, <1>2
  <2> QED BY <1>1, <1>2, <1>3, <2>1, <2>2 DEF ForkedWorkers, Waiting
<1>9. ReapedWorkers'
  BY <1>2, <1>3, <1>5, <1>6 DEF ReapedWorkers
<1>10. DirectSearch' /\ AllCollected' /\ LeavesNothingBehind'
  BY <1>3 DEF DirectSearch, AllCollected, LeavesNothingBehind
<1> QED BY <1>7, <1>8, <1>9, <1>10

\* A failing fork() leaves the workers running; nothing is promised of it.
LEMMA ForkFailsStep ==
    ASSUME SearchInv, ForkFails
    PROVE  SearchInv'
<1> USE DEF SearchInv
<1>1. NumWorkers' = NumWorkers
  BY TeamFrame DEF ForkFails
<1>2. parent' = "failed" /\ UNCHANGED <<tree, forked, worker, existing, reaped>>
  BY DEF ForkFails, CleanupTmpfiles
<1>3. SearchTypes' /\ ForkedWorkers'
  BY <1>1, <1>2 DEF SearchTypes, ForkedWorkers, Stages, Waiting
<1>4. ReapedWorkers' /\ DirectSearch' /\ AllCollected' /\ LeavesNothingBehind'
  BY <1>2 DEF ReapedWorkers, DirectSearch, AllCollected, LeavesNothingBehind
<1> QED BY <1>3, <1>4

\* The end of a search without workers, or of one whose results are collected.
LEMMA DoneStep ==
    ASSUME SearchInv, SearchDirectly \/ Report
    PROVE  SearchInv'
<1> USE DEF SearchInv
<1>1. NumWorkers' = NumWorkers
  BY TeamFrame DEF SearchDirectly, Report
<1>2. parent' = "done" /\ UNCHANGED <<tree, forked, worker, reaped>>
  BY DEF SearchDirectly, Report
<1>3. existing' = {}
  BY DEF SearchDirectly, Report, CleanupTmpfiles, DirectSearch
<1>4. \A w \in Workers : ~Running(w)
  <2>1. CASE SearchDirectly
    <3>1. forked = 0 /\ \A w \in Workers : w > 0
      BY <2>1 DEF SearchDirectly, DirectSearch, Workers
    <3> QED BY <3>1 DEF ForkedWorkers, Running
  <2>2. CASE Report
    BY <2>2 DEF Report, AllCollected
  <2> QED BY <2>1, <2>2
<1>5. SearchTypes' /\ ForkedWorkers'
  BY <1>1, <1>2, <1>3 DEF SearchTypes, ForkedWorkers, Stages, Waiting
<1>6. ReapedWorkers' /\ DirectSearch' /\ AllCollected' /\ LeavesNothingBehind'
  BY <1>2, <1>3, <1>4 DEF ReapedWorkers, DirectSearch, AllCollected, LeavesNothingBehind, Running
<1> QED BY <1>5, <1>6

\* The test of the wait loop, and the call of sigsuspend().
LEMMA LoopStep ==
    ASSUME SearchInv, CheckLoop \/ Suspend
    PROVE  SearchInv'
<1>1. parent \in Waiting /\ UNCHANGED <<tree, forked, worker, existing, reaped>>
  BY DEF CheckLoop, Suspend, Waiting
<1>2. parent' \in {"collect", "terminate", "ready", "asleep"}
  BY DEF CheckLoop, Suspend
<1>3. ASSUME parent' = "collect" PROVE \A w \in Workers : ~Running(w)
  <2>1. Cardinality(reaped) >= NumWorkers
    BY <1>3 DEF CheckLoop, Suspend
  <2>2. forked = NumWorkers
    BY <1>1 DEF SearchInv, ForkedWorkers
  <2> QED BY <2>1, <2>2, AllReaped DEF SearchInv
<1>4. parent' \in Stages \ {"direct", "fork", "done", "stopped"}
  BY <1>2 DEF Stages, Waiting
<1> QED BY <1>1, <1>3, <1>4, ParentMoves

\* The handlers: handler_sigchld reaps every zombie there is.
LEMMA DeliverStep ==
    ASSUME SearchInv, NEW sigs, DeliverSignals(sigs)
    PROVE  SearchInv'
<1>1. /\ parent = "asleep" /\ parent' = "check"
      /\ UNCHANGED <<tree, forked, existing>>
  BY DEF DeliverSignals, Unblocked
<1>2. \/ UNCHANGED <<worker, reaped>>
      \/ worker' = Collected(Zombies) /\ reaped' = reaped \cup Zombies
  BY DEF DeliverSignals
<1>3. CASE UNCHANGED <<worker, reaped>>
  BY <1>1, <1>3, ParentMoves DEF Waiting, Stages
<1>4. CASE worker' = Collected(Zombies) /\ reaped' = reaped \cup Zombies
  <2>1. /\ worker' \in [Workers -> [at : Places, found : Nat, term : BOOLEAN, status : Int]]
        /\ \A w \in Workers : worker'[w].at = "none" <=> worker[w].at = "none"
    BY <1>4, ReapZombies
  <2>2. reaped' \subseteq Workers
    BY <1>4 DEF SearchInv, ReapedWorkers, Zombies
  <2>3. reaped' = {w \in Workers : worker'[w].at = "reaped"}
    BY <1>4, <2>2, ReapZombies
  <2> QED BY <1>1, <2>1, <2>3, WorkersEnd DEF Waiting
<1> QED BY <1>2, <1>3, <1>4

\* A worker that ends keeps its shape.
LEMMA EndedWorker ==
    ASSUME NEW r \in [at : Places, found : Nat, term : BOOLEAN, status : Int], NEW k \in Int
    PROVE  /\ [r EXCEPT !.at = "zombie", !.status = k]
                 \in [at : Places, found : Nat, term : BOOLEAN, status : Int]
           /\ [r EXCEPT !.at = "zombie", !.status = k].at = "zombie"
BY DEF Places

\* The status of a worker that a signal ends.
LEMMA KilledWorker ==
    ASSUME NEW r \in [at : Places, found : Nat, term : BOOLEAN, status : Int]
    PROVE  /\ [r EXCEPT !.at = "zombie", !.status = -1]
                 \in [at : Places, found : Nat, term : BOOLEAN, status : Int]
           /\ [r EXCEPT !.at = "zombie", !.status = -1].at = "zombie"
<1>1. PICK k \in Int : k = -1
  OBVIOUS
<1> QED BY <1>1, EndedWorker

\* SIGTERM to every worker.
LEMMA TerminateStep ==
    ASSUME SearchInv, TerminateAll
    PROVE  SearchInv'
<1> DEFINE Shape == [at : Places, found : Nat, term : BOOLEAN, status : Int]
<1>1. worker \in [Workers -> Shape]
  BY DEF SearchInv, SearchTypes
<1>2. /\ parent = "terminate" /\ parent' = "poll" /\ worker' = [w \in Workers |-> Terminated(w)]
      /\ UNCHANGED <<tree, forked, existing, reaped>>
  BY DEF TerminateAll
<1>3. \A w \in Workers : /\ Terminated(w) \in Shape
                         /\ Terminated(w).at = "none" <=> worker[w].at = "none"
                         /\ Terminated(w).at = "reaped" <=> worker[w].at = "reaped"
  <2> TAKE w \in Workers
  <2>1. worker[w] \in Shape
    BY <1>1
  <2>2. CASE worker[w].at = "forked"
    <3>1. Terminated(w) = [worker[w] EXCEPT !.at = "zombie", !.status = -1]
      BY <2>2 DEF Terminated
    <3> QED BY <2>1, <2>2, <3>1, KilledWorker
  <2>3. CASE worker[w].at # "forked" /\ Running(w)
    <3>1. Terminated(w) = [worker[w] EXCEPT !.term = TRUE]
      BY <2>3 DEF Terminated
    <3> QED BY <2>1, <3>1
  <2>4. CASE worker[w].at # "forked" /\ ~Running(w)
    <3>1. Terminated(w) = worker[w]
      BY <2>4 DEF Terminated
    <3> QED BY <2>1, <3>1
  <2> QED BY <2>2, <2>3, <2>4
<1>4. worker' \in [Workers -> Shape]
      /\ \A w \in Workers : /\ worker'[w].at = "none" <=> worker[w].at = "none"
                            /\ worker'[w].at = "reaped" <=> worker[w].at = "reaped"
  BY <1>2, <1>3
<1>5. reaped' = {w \in Workers : worker'[w].at = "reaped"}
  BY <1>2, <1>4 DEF SearchInv, ReapedWorkers
<1> QED BY <1>2, <1>4, <1>5, WorkersEnd DEF Waiting

\* A round of waitpid() after the SIGTERM; the last one ends the program.
LEMMA PollStep ==
    ASSUME SearchInv, PollWorkers
    PROVE  SearchInv'
<1>1. /\ parent = "poll" /\ worker' = Collected(Zombies) /\ reaped' = reaped \cup Zombies
      /\ UNCHANGED <<tree, forked>>
  BY DEF PollWorkers
<1>2. \/ (\A w \in Workers : ~Running(w)) /\ parent' = "stopped" /\ existing' = {}
      \/ parent' = "poll" /\ existing' = existing
  BY <1>1 DEF PollWorkers, Stop, CleanupTmpfiles
<1>3. /\ worker' \in [Workers -> [at : Places, found : Nat, term : BOOLEAN, status : Int]]
      /\ \A w \in Workers : worker'[w].at = "none" <=> worker[w].at = "none"
  BY <1>1, ReapZombies
<1>4. reaped' \subseteq Workers
  BY <1>1 DEF SearchInv, ReapedWorkers, Zombies
<1>5. reaped' = {w \in Workers : worker'[w].at = "reaped"}
  BY <1>1, <1>4, ReapZombies
<1>6. ASSUME parent' = "stopped", NEW w \in Workers PROVE ~Running(w)'
  <2>1. ~Running(w)
    BY <1>2, <1>6
  <2>2. worker'[w] = worker[w] \/ worker'[w].at = "reaped"
    BY <1>1, ReapZombies
  <2> QED BY <2>1, <2>2 DEF Running
<1> QED BY <1>1, <1>2, <1>3, <1>5, <1>6, WorkersEnd DEF Waiting

\* SIGKILL after three seconds ends whoever is still running.
LEMMA DeadlineStep ==
    ASSUME SearchInv, DeadlineExpires
    PROVE  SearchInv'
<1> DEFINE Shape == [at : Places, found : Nat, term : BOOLEAN, status : Int]
<1>1. worker \in [Workers -> Shape]
  BY DEF SearchInv, SearchTypes
<1>2. /\ parent = "poll" /\ parent' = "stopped" /\ worker' = Killed /\ existing' = {}
      /\ UNCHANGED <<tree, forked, reaped>>
  BY DEF DeadlineExpires, Stop, CleanupTmpfiles
<1>3. \A w \in Workers : worker'[w] = IF Running(w)
            THEN [worker[w] EXCEPT !.at = "zombie", !.status = -1] ELSE worker[w]
  BY <1>2 DEF Killed
<1>4. \A w \in Workers : /\ worker'[w] \in Shape
                         /\ worker'[w].at = "none" <=> worker[w].at = "none"
                         /\ worker'[w].at = "reaped" <=> worker[w].at = "reaped"
                         /\ worker'[w].at \notin {"forked", "search", "notify", "exit"}
  <2> TAKE w \in Workers
  <2>1. worker[w] \in Shape
    BY <1>1
  <2>2. CASE Running(w)
    <3>1. worker'[w] = [worker[w] EXCEPT !.at = "zombie", !.status = -1]
      BY <1>3, <2>2
    <3>2. worker[w].at \notin {"none", "reaped"}
      BY <2>2 DEF Running
    <3> QED BY <2>1, <3>1, <3>2, KilledWorker
  <2>3. CASE ~Running(w)
    <3>1. worker'[w] = worker[w]
      BY <1>3, <2>3
    <3> QED BY <2>1, <2>3, <3>1 DEF Running
  <2> QED BY <2>2, <2>3
<1>5. worker' \in [Workers -> Shape]
  BY <1>1, <1>2, <1>4 DEF Killed
<1>6. reaped' = {w \in Workers : worker'[w].at = "reaped"}
  BY <1>2, <1>4 DEF SearchInv, ReapedWorkers
<1>7. \A w \in Workers : ~Running(w)'
  BY <1>4 DEF Running
<1> QED BY <1>2, <1>4, <1>5, <1>6, <1>7, WorkersEnd DEF Waiting

-----------------------------------------------------------------------------
(* The theorems                                                            *)

\* A step that changes nothing the invariant is about.
LEMMA SearchFrame ==
    ASSUME SearchInv, UNCHANGED <<tree, parent, forked, worker, existing, reaped>>
    PROVE  SearchInv'
<1>1. NumWorkers' = NumWorkers
  BY TeamFrame
<1> QED BY <1>1 DEF SearchInv, SearchTypes, ForkedWorkers, ReapedWorkers, DirectSearch,
                    AllCollected, LeavesNothingBehind, Running

\* Every step of the parent, the workers and the signals keeps the invariant.
LEMMA SearchStep == SearchInv /\ [Next]_vars => SearchInv'
<1> SUFFICES ASSUME SearchInv, [Next]_vars PROVE SearchInv'
  OBVIOUS
<1>1. CASE SearchDirectly \/ Report
  BY <1>1, DoneStep
<1>2. CASE ForkWorker
  BY <1>2, ForkStep
<1>3. CASE CheckLoop \/ Suspend
  BY <1>3, LoopStep
<1>4. CASE \E sigs \in SUBSET Signals : DeliverSignals(sigs)
  BY <1>4, DeliverStep
<1>5. CASE TerminateAll
  BY <1>5, TerminateStep
<1>6. CASE PollWorkers
  BY <1>6, PollStep
<1>7. CASE DeadlineExpires
  BY <1>7, DeadlineStep
<1>8. CASE ForkFails
  BY <1>8, ForkFailsStep
<1>9. CASE Interrupt
  BY <1>9, SearchFrame DEF Interrupt
<1>10. CASE \E w \in Workers : WorkerStep(w) \/ WorkerKilled(w)
  BY <1>10, WorkerSteps
<1>11. CASE ReadMatch \/ NextTmpfile
  BY <1>11, SearchFrame DEF ReadMatch, NextTmpfile
<1>12. CASE UNCHANGED vars
  BY <1>12, SearchFrame DEF vars
<1> QED BY <1>1, <1>2, <1>3, <1>4, <1>5, <1>6, <1>7, <1>8, <1>9, <1>10, <1>11, <1>12
        DEF Next, ParentStep

\* The bookkeeping of the parent is right in every reachable state: the forked
\* workers are the processes, g_reaped_pids holds those that were collected,
\* and the results are put together when none is running (main.c, worker.c).
THEOREM SearchCorrect == Spec => []SearchInv
BY SearchInit, SearchStep, PTL DEF Spec

\* When the search ends with a report, or after Ctrl-C, there is no worker
\* still running and no temporary file, for any number of workers and any
\* interleaving of their exits, kills and signals (terminate_all_workers,
\* cleanup_tmpfiles).
THEOREM NothingIsLeftBehind == Spec => []LeavesNothingBehind
<1>1. SearchInv => LeavesNothingBehind
  BY DEF SearchInv
<1> QED BY SearchCorrect, <1>1, PTL

-----------------------------------------------------------------------------
(* The files and who searches them                                         *)

\* A file is an entry of a subdirectory.
LEMMA FilesAre ==
    ASSUME tree \in Trees, NEW f \in AllFiles
    PROVE  /\ Len(tree) \in Nat
           /\ \E d \in 1..Len(tree) : \E i \in DOMAIN tree[d] : f = <<d, i>>
<1>1. tree \in Seq(Seq(FileKinds))
  BY SearchAssumption
<1>2. Len(tree) \in Nat /\ DOMAIN tree = 1..Len(tree)
  BY <1>1
<1> QED BY <1>2 DEF AllFiles

\* There are finitely many.
LEMMA FilesAreFinite ==
    ASSUME tree \in Trees
    PROVE  IsFiniteSet(AllFiles)
<1>1. tree \in Seq(Seq(FileKinds))
  BY SearchAssumption
<1>2. Len(tree) \in Nat /\ DOMAIN tree = 1..Len(tree)
  BY <1>1
<1> DEFINE Sub(d) == {<<d, i>> : i \in DOMAIN tree[d]}
           Subs == {Sub(d) : d \in DOMAIN tree}
<1>3. \A d \in DOMAIN tree : IsFiniteSet(Sub(d))
  <2> SUFFICES ASSUME NEW d \in DOMAIN tree PROVE IsFiniteSet(Sub(d))
    OBVIOUS
  <2>1. tree[d] \in Seq(FileKinds)
    BY <1>1, <1>2
  <2>2. PICK n \in Nat : DOMAIN tree[d] = 1..n
    BY <2>1
  <2>3. PICK D : D = DOMAIN tree[d]
    OBVIOUS
  <2>4. IsFiniteSet(D)
    BY <2>2, <2>3, FS_Interval
  <2>5. PICK g : g = [i \in D |-> <<d, i>>]
    OBVIOUS
  <2>6. IsFiniteSet({g[i] : i \in D})
    BY <2>4, <2>5, InjectiveImage
  <2>7. {g[i] : i \in D} = Sub(d)
    BY <2>3, <2>5
  <2> QED BY <2>6, <2>7
<1>4. IsFiniteSet(Subs)
  <2> HIDE DEF Sub
  <2>1. PICK D : D = DOMAIN tree
    OBVIOUS
  <2>2. IsFiniteSet(D)
    BY <1>2, <2>1, FS_Interval
  <2>3. PICK g : g = [d \in D |-> Sub(d)]
    OBVIOUS
  <2>4. IsFiniteSet({g[d] : d \in D})
    BY <2>2, FiniteImage
  <2>5. {g[d] : d \in D} = Subs
    BY <2>1, <2>3
  <2> QED BY <2>4, <2>5
<1>5. \A T \in Subs : IsFiniteSet(T)
  <2> HIDE DEF Sub
  <2> QED BY <1>3
<1>6. AllFiles = UNION Subs
  BY DEF AllFiles
<1> HIDE DEF Subs
<1> QED BY <1>4, <1>5, <1>6, FS_UNION

\* No file is searched by two workers.
LEMMA SharesDisjoint ==
    ASSUME NEW v \in Workers, NEW w \in Workers, NEW f \in FilesOf(v), f \in FilesOf(w)
    PROVE  v = w
<1>1. v - 1 = w - 1
  BY DEF FilesOf
<1> QED BY <1>1, SearchAssumption DEF Workers

\* Every file is searched by a worker.
LEMMA SharesCover ==
    ASSUME tree \in Trees, tree # <<>>, NEW f \in AllFiles
    PROVE  \E w \in Team : f \in FilesOf(w)
<1>1. PICK d \in 1..Len(tree) : \E i \in DOMAIN tree[d] : f = <<d, i>>
  BY FilesAre
<1>2. f[1] = d /\ Len(tree) \in Nat
  BY <1>1, FilesAre
<1>3. NumWorkers \in Nat \ {0}
  BY TeamSize
<1>4. PICK x \in Nat : x = d - 1
  BY <1>2
<1>5. PICK r : r = x % NumWorkers
  OBVIOUS
<1>6. r \in 0..(NumWorkers - 1)
  BY <1>3, <1>5
<1>7. r + 1 \in Team /\ (r + 1) - 1 = r
  BY <1>3, <1>6 DEF Team
<1> QED BY <1>2, <1>4, <1>5, <1>7 DEF FilesOf

\* The files belong to the tree.
LEMMA FilesFrame ==
    ASSUME tree' = tree
    PROVE  /\ AllFiles' = AllFiles /\ Team' = Team
           /\ \A w : FilesOf(w)' = FilesOf(w)
           /\ \A f : Listable(f)' <=> Listable(f)
<1>1. AllFiles' = AllFiles
  BY DEF AllFiles
<1>2. NumWorkers' = NumWorkers
  BY TeamFrame
<1> QED BY <1>1, <1>2 DEF FilesOf, Team, Listable

-----------------------------------------------------------------------------
(* What a worker has written                                               *)

WorkerStates == [at : Places, found : Nat, term : BOOLEAN, status : Int]

\* What the state r of a worker says about the lines it has written, when it
\* has the given files to search: some of the files, none twice, counted in
\* match_count; all of them when it was not stopped, also in its status.
Claims(r, lines, files) ==
    /\ lines \in Seq(files)
    /\ \A i, j \in 1..Len(lines) : lines[i] = lines[j] => i = j
    /\ r.found = Len(lines)
    /\ r.at \in {"none", "forked"} => lines = <<>>
    /\ r.at = "notify" => files \subseteq ToSet(lines)
    /\ r.at = "exit" => r.term \/ files \subseteq ToSet(lines)
    /\ r.at \in {"zombie", "reaped"} /\ r.status >= 0 =>
           r.term \/ (files \subseteq ToSet(lines) /\ r.status = r.found % StatusRange)

\* fopen with "w" on the empty file.
LEMMA StartClaims ==
    ASSUME NEW r \in WorkerStates, NEW lines, NEW files, Claims(r, lines, files), r.at = "forked"
    PROVE  Claims([r EXCEPT !.at = "search"], <<>>, files)
<1>1. lines = <<>> /\ r.found = 0
  BY DEF Claims
<1>2. [r EXCEPT !.at = "search"].at = "search" /\ [r EXCEPT !.at = "search"].found = 0
  BY <1>1 DEF WorkerStates
<1> QED BY <1>1, <1>2 DEF Claims

\* One more match is one more line.
LEMMA FindClaims ==
    ASSUME NEW r \in WorkerStates, NEW lines, NEW files, Claims(r, lines, files), r.at = "search",
           NEW f \in files, f \notin ToSet(lines)
    PROVE  Claims([r EXCEPT !.found = @ + 1], Append(lines, f), files)
<1>1. lines \in Seq(files) /\ r.found = Len(lines) /\ Len(lines) \in Nat
  BY DEF Claims
<1>2. PICK more : more = Append(lines, f)
  OBVIOUS
<1>3. /\ more \in Seq(files) /\ Len(more) = Len(lines) + 1
      /\ more[Len(lines) + 1] = f /\ \A i \in 1..Len(lines) : more[i] = lines[i]
  BY <1>1, <1>2
<1>4. \A i \in 1..Len(lines) : lines[i] # f
  BY <1>1 DEF ToSet
<1>5. \A i, j \in 1..Len(more) : more[i] = more[j] => i = j
  <2>1. \A i \in 1..Len(more) : i \in 1..Len(lines) \/ i = Len(lines) + 1
    BY <1>1, <1>3
  <2>2. \A i, j \in 1..Len(lines) : lines[i] = lines[j] => i = j
    BY DEF Claims
  <2> QED BY <1>3, <1>4, <2>1, <2>2
<1>6. [r EXCEPT !.found = @ + 1].at = "search" /\ [r EXCEPT !.found = @ + 1].found = Len(more)
  BY <1>1, <1>3 DEF WorkerStates
<1> QED BY <1>2, <1>3, <1>5, <1>6 DEF Claims

\* A worker that changes its place without writing keeps its claims when they
\* hold of the new place.
LEMMA MoveClaims ==
    ASSUME NEW r, NEW q, NEW lines, NEW files, Claims(r, lines, files), q.found = r.found,
           q.at \in {"none", "forked"} => r.at \in {"none", "forked"},
           q.at = "notify" => r.at = "notify" \/ files \subseteq ToSet(lines),
           q.at = "exit" => (r.at = "exit" /\ (r.term => q.term)) \/ q.term \/ files \subseteq ToSet(lines),
           q.at \in {"zombie", "reaped"} /\ q.status >= 0 =>
               \/ q.term
               \/ files \subseteq ToSet(lines) /\ q.status = r.found % StatusRange
    PROVE  Claims(q, lines, files)
BY DEF Claims

\* End of the search, SIGUSR1, exit(), fork(), waitpid(), SIGTERM and SIGKILL.
LEMMA PlaceClaims ==
    ASSUME NEW r \in WorkerStates, NEW lines, NEW files, Claims(r, lines, files)
    PROVE  /\ r.at = "search" /\ (r.term \/ files \subseteq ToSet(lines)) =>
                Claims([r EXCEPT !.at = IF r.term THEN "exit" ELSE "notify"], lines, files)
           /\ r.at = "notify" => Claims([r EXCEPT !.at = "exit"], lines, files)
           /\ r.at = "exit" =>
                Claims([r EXCEPT !.at = "zombie", !.status = r.found % StatusRange], lines, files)
           /\ Claims([r EXCEPT !.at = "zombie", !.status = -1], lines, files)
           /\ r.at = "none" => Claims([r EXCEPT !.at = "forked"], lines, files)
           /\ r.at = "zombie" => Claims([r EXCEPT !.at = "reaped"], lines, files)
           /\ Claims([r EXCEPT !.term = TRUE], lines, files)
<1> DEFINE all == files \subseteq ToSet(lines)
<1>0. /\ r.at \in Places /\ r.term \in BOOLEAN /\ r.found \in Nat /\ r.status \in Int
  BY DEF WorkerStates
<1>1. ASSUME r.at = "search", r.term \/ all
      PROVE  Claims([r EXCEPT !.at = IF r.term THEN "exit" ELSE "notify"], lines, files)
  <2>1. PICK q : q = [r EXCEPT !.at = IF r.term THEN "exit" ELSE "notify"]
    OBVIOUS
  <2>2. /\ q.found = r.found /\ q.term = r.term
        /\ r.term => q.at = "exit"
        /\ ~r.term => q.at = "notify"
    BY <1>0, <2>1 DEF WorkerStates
  <2>3. Claims(q, lines, files)
    BY <1>0, <1>1, <2>2, MoveClaims
  <2> QED BY <2>1, <2>3
<1>2. ASSUME r.at = "notify" PROVE Claims([r EXCEPT !.at = "exit"], lines, files)
  <2>1. PICK q : q = [r EXCEPT !.at = "exit"]
    OBVIOUS
  <2>2. q.found = r.found /\ q.at = "exit" /\ all
    BY <1>2, <2>1 DEF WorkerStates, Claims
  <2>3. Claims(q, lines, files)
    BY <2>2, MoveClaims
  <2> QED BY <2>1, <2>3
<1>3. ASSUME r.at = "exit"
      PROVE  Claims([r EXCEPT !.at = "zombie", !.status = r.found % StatusRange], lines, files)
  <2>1. PICK q : q = [r EXCEPT !.at = "zombie", !.status = r.found % StatusRange]
    OBVIOUS
  <2>2. q.found = r.found /\ q.at = "zombie" /\ q.term = r.term /\ q.status = r.found % StatusRange
    BY <2>1 DEF WorkerStates
  <2>3. q.term \/ all
    BY <1>3, <2>2 DEF Claims
  <2>4. Claims(q, lines, files)
    BY <2>2, <2>3, MoveClaims
  <2> QED BY <2>1, <2>4
<1>4. Claims([r EXCEPT !.at = "zombie", !.status = -1], lines, files)
  <2>1. PICK q : q = [r EXCEPT !.at = "zombie", !.status = -1]
    OBVIOUS
  <2>2. q.found = r.found /\ q.at = "zombie" /\ ~(q.status >= 0)
    BY <2>1 DEF WorkerStates
  <2>3. Claims(q, lines, files)
    BY <2>2, MoveClaims
  <2> QED BY <2>1, <2>3
<1>5. ASSUME r.at = "none" PROVE Claims([r EXCEPT !.at = "forked"], lines, files)
  <2>1. PICK q : q = [r EXCEPT !.at = "forked"]
    OBVIOUS
  <2>2. q.found = r.found /\ q.at = "forked"
    BY <2>1 DEF WorkerStates
  <2>3. Claims(q, lines, files)
    BY <1>5, <2>2, MoveClaims
  <2> QED BY <2>1, <2>3
<1>6. ASSUME r.at = "zombie" PROVE Claims([r EXCEPT !.at = "reaped"], lines, files)
  <2>1. PICK q : q = [r EXCEPT !.at = "reaped"]
    OBVIOUS
  <2>2. q.found = r.found /\ q.at = "reaped" /\ q.term = r.term /\ q.status = r.status
    BY <2>1 DEF WorkerStates
  <2>3. q.status >= 0 => q.term \/ (all /\ q.status = r.found % StatusRange)
    BY <1>6, <2>2 DEF Claims
  <2>4. Claims(q, lines, files)
    BY <2>2, <2>3, MoveClaims
  <2> QED BY <2>1, <2>4
<1>7. Claims([r EXCEPT !.term = TRUE], lines, files)
  <2>1. PICK q : q = [r EXCEPT !.term = TRUE]
    OBVIOUS
  <2>2. q.found = r.found /\ q.at = r.at /\ q.term = TRUE
    BY <2>1 DEF WorkerStates
  <2>3. Claims(q, lines, files)
    BY <2>2, MoveClaims
  <2> QED BY <2>1, <2>3
<1> QED BY <1>1, <1>2, <1>3, <1>4, <1>5, <1>6, <1>7

-----------------------------------------------------------------------------
(* The temporary files                                                     *)

\* Every temporary file holds what its worker claims.
TmpfilesInv == /\ tmpfile \in [Workers -> Seq(AllFiles)]
               /\ \A w \in Workers : Claims(worker[w], tmpfile[w], FilesOf(w))

\* SIGTERM is only sent on the way out.
TermInv == \A w \in Workers : worker[w].term => parent \in {"poll", "stopped"}

\* The temporary files are there until the parent ends; it collects when every
\* worker was reaped.
FilesExist == /\ parent \in Waiting \cup {"fork"} => Team \subseteq existing
              /\ parent = "collect" => reaped = Team

\* A worker's files are files.
LEMMA ShareOfAll ==
    ASSUME NEW w, NEW f \in FilesOf(w)
    PROVE  f \in AllFiles
BY DEF FilesOf

\* An empty file holds lines of any kind.
LEMMA NoLines == ASSUME NEW S PROVE \E ls \in Seq(S) : ls = <<>>
<1>1. <<>> \in Seq(S)
  OBVIOUS
<1> QED BY <1>1, Zenon

\* A file that one line is appended to.
LEMMA OneMoreLine ==
    ASSUME NEW S, NEW ls \in Seq(S), NEW f \in S
    PROVE  \E more \in Seq(S) : more = Append(ls, f)
<1>1. Append(ls, f) \in Seq(S)
  OBVIOUS
<1> QED BY <1>1, Zenon

\* A step that leaves a worker and its file alone keeps its claims.
LEMMA ClaimsFrame ==
    ASSUME TmpfilesInv, tree' = tree, tmpfile' = tmpfile,
           \A w \in Workers : Claims(worker[w], tmpfile[w], FilesOf(w)) => Claims(worker'[w], tmpfile[w], FilesOf(w))
    PROVE  TmpfilesInv'
<1>1. AllFiles' = AllFiles /\ \A w : FilesOf(w)' = FilesOf(w)
  BY FilesFrame
<1>2. \A w \in Workers : Claims(worker'[w], tmpfile'[w], FilesOf(w)')
  BY <1>1 DEF TmpfilesInv
<1>3. (\A w \in Workers : Claims(worker[w], tmpfile[w], FilesOf(w)))'
  BY <1>2 DEF Claims
<1> QED BY <1>1, <1>3 DEF TmpfilesInv

\* One worker writes or moves.
LEMMA OneClaims ==
    ASSUME SearchTypes, TmpfilesInv, tree' = tree, NEW w \in Workers, NEW r, NEW lines \in Seq(AllFiles),
           worker' = [worker EXCEPT ![w] = r], tmpfile' = [tmpfile EXCEPT ![w] = lines],
           Claims(r, lines, FilesOf(w))
    PROVE  TmpfilesInv'
<1>1. AllFiles' = AllFiles /\ \A v : FilesOf(v)' = FilesOf(v)
  BY FilesFrame
<1>2. /\ worker'[w] = r /\ tmpfile'[w] = lines
      /\ \A v \in Workers : v # w => worker'[v] = worker[v] /\ tmpfile'[v] = tmpfile[v]
  BY DEF SearchTypes, TmpfilesInv
<1>3. \A v \in Workers : Claims(worker'[v], tmpfile'[v], FilesOf(v)')
  BY <1>1, <1>2 DEF TmpfilesInv
<1>4. (\A v \in Workers : Claims(worker[v], tmpfile[v], FilesOf(v)))'
  BY <1>3 DEF Claims
<1>5. tmpfile' \in [Workers -> Seq(AllFiles)]
  BY DEF TmpfilesInv
<1> QED BY <1>1, <1>4, <1>5 DEF TmpfilesInv

\* A worker that is moved and does not write.
LEMMA OneMoves ==
    ASSUME SearchTypes, TmpfilesInv, tree' = tree, tmpfile' = tmpfile, NEW w \in Workers, NEW r,
           worker' = [worker EXCEPT ![w] = r],
           Claims(worker[w], tmpfile[w], FilesOf(w)) => Claims(r, tmpfile[w], FilesOf(w))
    PROVE  TmpfilesInv'
<1>1. /\ worker'[w] = r
      /\ \A v \in Workers : v # w => worker'[v] = worker[v]
  BY DEF SearchTypes
<1> QED BY <1>1, ClaimsFrame

\* Every step of a worker keeps the temporary files true to it.
LEMMA WorkerFiles ==
    ASSUME SearchInv, TmpfilesInv, NEW w \in Workers, WorkerStep(w) \/ WorkerKilled(w)
    PROVE  TmpfilesInv'
<1>1. SearchTypes /\ worker[w] \in WorkerStates
  BY DEF SearchInv, SearchTypes, WorkerStates
<1>2. tree' = tree
  BY DEF WorkerStep, StartWorker, FindMatch, FinishSearch, NotifyParent, ExitWorker, WorkerKilled
<1>3. PICK o \in WorkerStates : o = worker[w]
  BY <1>1
<1>4. PICK ls \in Seq(AllFiles) : ls = tmpfile[w]
  BY DEF TmpfilesInv
<1>5. PICK fs : fs = FilesOf(w)
  OBVIOUS
<1>6. Claims(o, ls, fs)
  BY <1>3, <1>4, <1>5 DEF TmpfilesInv
<1>7. CASE StartWorker(w)
  <2>1. PICK r : r = [o EXCEPT !.at = "search"]
    OBVIOUS
  <2>2. o.at = "forked" /\ worker' = [worker EXCEPT ![w] = r] /\ tmpfile' = [tmpfile EXCEPT ![w] = <<>>]
    BY <1>3, <1>7, <2>1 DEF StartWorker
  <2>3. Claims(r, <<>>, fs)
    BY <1>6, <2>1, <2>2, StartClaims
  <2>4. PICK none \in Seq(AllFiles) : none = <<>>
    BY NoLines
  <2>5. tmpfile' = [tmpfile EXCEPT ![w] = none] /\ Claims(r, none, FilesOf(w))
    BY <1>5, <2>2, <2>3, <2>4
  <2> QED BY <1>1, <1>2, <2>2, <2>5, OneClaims
<1>8. CASE FindMatch(w)
  <2>1. PICK f \in FilesOf(w) \ ToSet(tmpfile[w]) : tmpfile' = [tmpfile EXCEPT ![w] = Append(@, f)]
    BY <1>8 DEF FindMatch
  <2>2. PICK r : r = [o EXCEPT !.found = @ + 1]
    OBVIOUS
  <2>3. o.at = "search" /\ worker' = [worker EXCEPT ![w] = r]
    BY <1>3, <1>8, <2>2 DEF FindMatch
  <2>4. f \in fs /\ f \notin ToSet(ls) /\ f \in AllFiles
    BY <1>4, <1>5, <2>1, ShareOfAll
  <2>5. Claims(r, Append(ls, f), fs)
    BY <1>6, <2>2, <2>3, <2>4, FindClaims
  <2>6. PICK more \in Seq(AllFiles) : more = Append(ls, f)
    BY <2>4, OneMoreLine
  <2>7. tmpfile' = [tmpfile EXCEPT ![w] = more] /\ Claims(r, more, FilesOf(w))
    BY <1>4, <1>5, <2>1, <2>5, <2>6
  <2> QED BY <1>1, <1>2, <2>3, <2>7, OneClaims
<1>9. ASSUME NEW r, worker' = [worker EXCEPT ![w] = r], tmpfile' = tmpfile, Claims(r, ls, fs)
      PROVE  TmpfilesInv'
  BY <1>1, <1>2, <1>4, <1>5, <1>9, OneMoves
<1>10. CASE FinishSearch(w)
  <2>1. /\ o.at = "search" /\ (o.term \/ fs \subseteq ToSet(ls)) /\ tmpfile' = tmpfile
        /\ worker' = [worker EXCEPT ![w] = [o EXCEPT !.at = IF o.term THEN "exit" ELSE "notify"]]
    BY <1>3, <1>4, <1>5, <1>10 DEF FinishSearch
  <2>2. PICK r : r = [o EXCEPT !.at = IF o.term THEN "exit" ELSE "notify"]
    OBVIOUS
  <2>3. Claims(r, ls, fs)
    BY <1>6, <2>1, <2>2, PlaceClaims
  <2>4. worker' = [worker EXCEPT ![w] = r] /\ tmpfile' = tmpfile
    BY <2>1, <2>2
  <2> QED BY <1>9, <2>3, <2>4
<1>11. CASE NotifyParent(w)
  <2>1. /\ o.at = "notify" /\ tmpfile' = tmpfile
        /\ worker' = [worker EXCEPT ![w] = [o EXCEPT !.at = "exit"]]
    BY <1>3, <1>11 DEF NotifyParent
  <2>2. PICK r : r = [o EXCEPT !.at = "exit"]
    OBVIOUS
  <2>3. Claims(r, ls, fs)
    BY <1>6, <2>1, <2>2, PlaceClaims
  <2>4. worker' = [worker EXCEPT ![w] = r] /\ tmpfile' = tmpfile
    BY <2>1, <2>2
  <2> QED BY <1>9, <2>3, <2>4
<1>12. CASE ExitWorker(w)
  <2>1. /\ o.at = "exit" /\ tmpfile' = tmpfile
        /\ worker' = [worker EXCEPT ![w] = [o EXCEPT !.at = "zombie", !.status = o.found % StatusRange]]
    BY <1>3, <1>12 DEF ExitWorker, Ends
  <2>2. PICK r : r = [o EXCEPT !.at = "zombie", !.status = o.found % StatusRange]
    OBVIOUS
  <2>3. Claims(r, ls, fs)
    BY <1>6, <2>1, <2>2, PlaceClaims
  <2>4. worker' = [worker EXCEPT ![w] = r] /\ tmpfile' = tmpfile
    BY <2>1, <2>2
  <2> QED BY <1>9, <2>3, <2>4
<1>13. CASE WorkerKilled(w)
  <2>1. /\ tmpfile' = tmpfile
        /\ worker' = [worker EXCEPT ![w] = [o EXCEPT !.at = "zombie", !.status = -1]]
    BY <1>3, <1>13 DEF WorkerKilled, Ends
  <2>2. PICK r : r = [o EXCEPT !.at = "zombie", !.status = -1]
    OBVIOUS
  <2>3. Claims(r, ls, fs)
    BY <1>6, <2>1, <2>2, PlaceClaims
  <2>4. worker' = [worker EXCEPT ![w] = r] /\ tmpfile' = tmpfile
    BY <2>1, <2>2
  <2> QED BY <1>9, <2>3, <2>4
<1> QED BY <1>7, <1>8, <1>10, <1>11, <1>12, <1>13 DEF WorkerStep

\* So does every step of the parent: it moves workers and writes nothing.
LEMMA ParentFiles ==
    ASSUME SearchInv, TmpfilesInv,
           ParentStep \/ ForkFails \/ Interrupt \/ UNCHANGED vars
    PROVE  TmpfilesInv'
<1>1. tree' = tree /\ tmpfile' = tmpfile
  BY DEF ParentStep, SearchDirectly, ForkWorker, CheckLoop, Suspend, DeliverSignals, TerminateAll,
         PollWorkers, DeadlineExpires, ReadMatch, NextTmpfile, Report, ForkFails, Interrupt, vars
<1>2. SearchTypes /\ worker \in [Workers -> WorkerStates]
  BY DEF SearchInv, SearchTypes, WorkerStates
<1>3. ASSUME worker' = worker PROVE TmpfilesInv'
  BY <1>1, <1>3, ClaimsFrame
<1>4. ASSUME worker' = Collected(Zombies) PROVE TmpfilesInv'
  <2> SUFFICES ASSUME NEW w \in Workers, Claims(worker[w], tmpfile[w], FilesOf(w))
               PROVE  Claims(worker'[w], tmpfile[w], FilesOf(w))
    BY <1>1, ClaimsFrame
  <2>0. PICK ls, fs : ls = tmpfile[w] /\ fs = FilesOf(w)
    OBVIOUS
  <2>1. CASE worker[w].at = "zombie"
    <3>1. worker'[w] = [worker[w] EXCEPT !.at = "reaped"]
      BY <1>4, <2>1 DEF Collected, Zombies
    <3>2. \A q \in WorkerStates : Claims(q, tmpfile[w], FilesOf(w)) /\ q.at = "zombie" =>
                Claims([q EXCEPT !.at = "reaped"], tmpfile[w], FilesOf(w))
      BY <2>0, PlaceClaims
    <3> QED BY <1>2, <2>1, <3>1, <3>2
  <2>2. CASE worker[w].at # "zombie"
    BY <1>4, <2>2 DEF Collected, Zombies
  <2> QED BY <2>1, <2>2
<1>5. CASE ForkWorker
  <2>1. PICK w \in Workers : w = forked + 1
    <3>1. /\ NumWorkers \in Nat /\ NumWorkers <= MaxWorkers /\ MaxWorkers \in Nat
      BY TeamSize, SearchAssumption DEF SearchInv, SearchTypes
    <3> QED BY <1>5, <3>1 DEF ForkWorker, SearchInv, SearchTypes, ForkedWorkers, Workers
  <2>2. forked \in Nat /\ w > forked
    <3>1. NumWorkers \in Nat
      BY TeamSize DEF SearchInv, SearchTypes
    <3> QED BY <2>1, <3>1 DEF SearchInv, SearchTypes
  <2>3. worker[w].at = "none"
    BY <2>2 DEF SearchInv, ForkedWorkers
  <2>4. worker' = [worker EXCEPT ![w] = [worker[w] EXCEPT !.at = "forked"]]
    BY <1>5, <2>1 DEF ForkWorker
  <2>5. PICK r : r = [worker[w] EXCEPT !.at = "forked"]
    OBVIOUS
  <2>6. Claims(worker[w], tmpfile[w], FilesOf(w)) => Claims(r, tmpfile[w], FilesOf(w))
    BY <1>2, <2>3, <2>5, PlaceClaims
  <2> QED BY <1>1, <1>2, <2>4, <2>5, <2>6, OneMoves
<1>6. CASE TerminateAll
  <2> SUFFICES ASSUME NEW w \in Workers, Claims(worker[w], tmpfile[w], FilesOf(w))
               PROVE  Claims(worker'[w], tmpfile[w], FilesOf(w))
    BY <1>1, ClaimsFrame
  <2>1. worker'[w] = Terminated(w)
    BY <1>6 DEF TerminateAll
  <2>2. PICK q \in WorkerStates : q = worker[w]
    BY <1>2
  <2>3. PICK ls, fs : ls = tmpfile[w] /\ fs = FilesOf(w)
    OBVIOUS
  <2>4. Claims(q, ls, fs)
    BY <2>2, <2>3
  <2>5. Claims([q EXCEPT !.at = "zombie", !.status = -1], ls, fs) /\ Claims([q EXCEPT !.term = TRUE], ls, fs)
    BY <2>4, PlaceClaims
  <2>6. worker'[w] \in {[q EXCEPT !.at = "zombie", !.status = -1], [q EXCEPT !.term = TRUE], q}
    BY <2>1, <2>2 DEF Terminated
  <2> QED BY <2>3, <2>4, <2>5, <2>6
<1>7. CASE DeadlineExpires
  <2> SUFFICES ASSUME NEW w \in Workers, Claims(worker[w], tmpfile[w], FilesOf(w))
               PROVE  Claims(worker'[w], tmpfile[w], FilesOf(w))
    BY <1>1, ClaimsFrame
  <2>1. worker'[w] = IF Running(w) THEN [worker[w] EXCEPT !.at = "zombie", !.status = -1] ELSE worker[w]
    BY <1>7 DEF DeadlineExpires, Killed
  <2>2. PICK q \in WorkerStates : q = worker[w]
    BY <1>2
  <2>3. PICK ls, fs : ls = tmpfile[w] /\ fs = FilesOf(w)
    OBVIOUS
  <2>4. Claims(q, ls, fs)
    BY <2>2, <2>3
  <2>5. Claims([q EXCEPT !.at = "zombie", !.status = -1], ls, fs)
    BY <2>4, PlaceClaims
  <2>6. worker'[w] \in {[q EXCEPT !.at = "zombie", !.status = -1], q}
    BY <2>1, <2>2
  <2> QED BY <2>3, <2>4, <2>5, <2>6
<1>8. CASE PollWorkers
  BY <1>4, <1>8 DEF PollWorkers
<1>9. CASE \E sigs \in SUBSET Signals : DeliverSignals(sigs)
  BY <1>3, <1>4, <1>9 DEF DeliverSignals
<1>10. CASE \/ SearchDirectly \/ CheckLoop \/ Suspend \/ ReadMatch \/ NextTmpfile \/ Report
            \/ ForkFails \/ Interrupt \/ UNCHANGED vars
  BY <1>3, <1>10 DEF SearchDirectly, CheckLoop, Suspend, ReadMatch, NextTmpfile, Report, ForkFails,
                     Interrupt, vars
<1> QED BY <1>5, <1>6, <1>7, <1>8, <1>9, <1>10 DEF ParentStep

-----------------------------------------------------------------------------
(* SIGTERM, and the life of the temporary files                            *)

\* A step other than TerminateAll sends no SIGTERM.
LEMMA NoTermSent ==
    ASSUME SearchInv, [Next]_vars, ~TerminateAll, NEW w \in Workers, worker'[w].term
    PROVE  worker[w].term
<1>1. worker \in [Workers -> WorkerStates]
  BY DEF SearchInv, SearchTypes, WorkerStates
<1>2. worker[w] \in WorkerStates
  BY <1>1
<1>3. CASE worker' = worker
  BY <1>3
<1>4. CASE worker' = Collected(Zombies)
  <2>1. worker'[w] \in {[worker[w] EXCEPT !.at = "reaped"], worker[w]}
    BY <1>4 DEF Collected
  <2> QED BY <1>2, <2>1 DEF WorkerStates
<1>5. CASE worker' = Killed
  <2>1. worker'[w] \in {[worker[w] EXCEPT !.at = "zombie", !.status = -1], worker[w]}
    BY <1>5 DEF Killed
  <2> QED BY <1>2, <2>1 DEF WorkerStates
<1>6. CASE \E v, p : worker' = [worker EXCEPT ![v].at = p]
  BY <1>1, <1>2, <1>6 DEF WorkerStates
<1>7. CASE \E v, p, n : worker' = [worker EXCEPT ![v].at = p, ![v].status = n]
  BY <1>1, <1>2, <1>7 DEF WorkerStates
<1>8. CASE \E v : worker' = [worker EXCEPT ![v].found = @ + 1]
  BY <1>1, <1>2, <1>8 DEF WorkerStates
<1>9. \/ worker' = worker \/ worker' = Collected(Zombies) \/ worker' = Killed
      \/ \E v, p : worker' = [worker EXCEPT ![v].at = p]
      \/ \E v, p, n : worker' = [worker EXCEPT ![v].at = p, ![v].status = n]
      \/ \E v : worker' = [worker EXCEPT ![v].found = @ + 1]
  <2>1. CASE \E v \in Workers : WorkerStep(v) \/ WorkerKilled(v)
    BY <2>1 DEF WorkerStep, StartWorker, FindMatch, FinishSearch, NotifyParent, ExitWorker, Ends, WorkerKilled
  <2>2. CASE ParentStep
    BY <2>2 DEF ParentStep, SearchDirectly, ForkWorker, CheckLoop, Suspend, DeliverSignals, PollWorkers,
                DeadlineExpires, ReadMatch, NextTmpfile, Report
  <2>3. CASE ForkFails \/ Interrupt \/ UNCHANGED vars
    BY <2>3 DEF ForkFails, Interrupt, vars
  <2> QED BY <2>1, <2>2, <2>3 DEF Next
<1> QED BY <1>3, <1>4, <1>5, <1>6, <1>7, <1>8, <1>9

\* The way out is not left.
LEMMA StayOnTheWayOut ==
    ASSUME [Next]_vars, parent \in {"poll", "stopped"}
    PROVE  parent' \in {"poll", "stopped"}
<1>1. CASE \E v \in Workers : WorkerStep(v) \/ WorkerKilled(v)
  BY <1>1 DEF WorkerStep, StartWorker, FindMatch, FinishSearch, NotifyParent, ExitWorker, WorkerKilled
<1>2. CASE ParentStep
  BY <1>2 DEF ParentStep, SearchDirectly, ForkWorker, CheckLoop, Suspend, DeliverSignals, Unblocked,
              TerminateAll, PollWorkers, DeadlineExpires, Stop, ReadMatch, NextTmpfile, Report
<1>3. CASE ForkFails \/ Interrupt \/ UNCHANGED vars
  BY <1>3 DEF ForkFails, Interrupt, vars
<1> QED BY <1>1, <1>2, <1>3 DEF Next

\* Whoever got SIGTERM got it on the way out.
LEMMA TermStep ==
    ASSUME SearchInv, TermInv, [Next]_vars
    PROVE  TermInv'
<1>1. CASE TerminateAll
  BY <1>1 DEF TerminateAll, TermInv
<1>2. CASE ~TerminateAll
  <2> SUFFICES ASSUME NEW w \in Workers, worker'[w].term PROVE parent' \in {"poll", "stopped"}
    BY DEF TermInv
  <2>1. worker[w].term
    BY <1>2, NoTermSent
  <2> QED BY <2>1, StayOnTheWayOut DEF TermInv
<1> QED BY <1>1, <1>2

\* Nobody removes a temporary file but the parent when it ends; the parent
\* collects once all are reaped.
LEMMA ExistStep ==
    ASSUME SearchInv, FilesExist, [Next]_vars
    PROVE  FilesExist'
<1>1. tree' = tree /\ Team' = Team
  <2>1. tree' = tree
    BY DEF Next, WorkerStep, StartWorker, FindMatch, FinishSearch, NotifyParent, ExitWorker, WorkerKilled,
         ParentStep, SearchDirectly, ForkWorker, CheckLoop, Suspend, DeliverSignals, TerminateAll,
         PollWorkers, DeadlineExpires, ReadMatch, NextTmpfile, Report, ForkFails, Interrupt, vars
  <2> QED BY <2>1, FilesFrame
<1>2. CASE \E w \in Workers : WorkerStep(w) \/ WorkerKilled(w)
  <2>1. existing \subseteq existing' /\ UNCHANGED <<parent, reaped>>
    BY <1>2 DEF WorkerStep, StartWorker, FindMatch, FinishSearch, NotifyParent, ExitWorker, WorkerKilled,
                CleanupTmpfiles
  <2> QED BY <1>1, <2>1 DEF FilesExist
<1>3. CASE CheckLoop
  <2>1. parent = "check" /\ UNCHANGED <<existing, reaped>>
    BY <1>3 DEF CheckLoop
  <2>2. ASSUME parent' = "collect" PROVE reaped = Team
    <3>1. Cardinality(reaped) >= NumWorkers
      BY <1>3, <2>2 DEF CheckLoop
    <3> QED BY <2>1, <3>1, AllReaped DEF SearchInv, ForkedWorkers, Waiting
  <2> QED BY <1>1, <2>1, <2>2 DEF FilesExist, Waiting
<1>4. CASE \E sigs \in SUBSET Signals : DeliverSignals(sigs)
  <2>1. parent = "asleep" /\ parent' = "check" /\ UNCHANGED existing
    BY <1>4 DEF DeliverSignals, Unblocked
  <2> QED BY <1>1, <2>1 DEF FilesExist, Waiting
<1>5. CASE ForkWorker \/ Suspend \/ TerminateAll
  <2>1. /\ parent \in {"fork", "ready", "terminate"}
        /\ parent' \in {"fork", "check", "asleep", "poll"} /\ UNCHANGED existing
    BY <1>5 DEF ForkWorker, Suspend, TerminateAll
  <2> QED BY <1>1, <2>1 DEF FilesExist, Waiting
<1>6. CASE SearchDirectly \/ Report \/ DeadlineExpires \/ ForkFails
  <2>1. parent' \in {"done", "stopped", "failed"}
    BY <1>6 DEF SearchDirectly, Report, DeadlineExpires, Stop, ForkFails
  <2> QED BY <2>1 DEF FilesExist, Waiting
<1>7. CASE PollWorkers
  <2>1. parent = "poll" /\ (parent' = "stopped" \/ UNCHANGED <<parent, existing>>)
    BY <1>7 DEF PollWorkers, Stop
  <2> QED BY <1>1, <2>1 DEF FilesExist, Waiting
<1>8. CASE ReadMatch \/ NextTmpfile \/ Interrupt \/ UNCHANGED vars
  <2>1. UNCHANGED <<parent, existing, reaped>>
    BY <1>8 DEF ReadMatch, NextTmpfile, Interrupt, vars
  <2> QED BY <1>1, <2>1 DEF FilesExist
<1> QED BY <1>2, <1>3, <1>4, <1>5, <1>6, <1>7, <1>8 DEF Next, ParentStep

-----------------------------------------------------------------------------
(* What the parent has listed                                              *)

\* The lines of the temporary file of worker v that the parent has read, and
\* the files it has read about that it can list.
ReadLines(v) == IF v < cursor.file THEN Len(tmpfile[v])
                ELSE IF v = cursor.file THEN cursor.lines ELSE 0
IsRead(f) == \E v \in Team : \E j \in 1..ReadLines(v) : tmpfile[v][j] = f
ReadFiles == {f \in AllFiles : Listable(f) /\ IsRead(f)}

\* ls lists files of R, none twice and at most MAX_MATCHES, and all of R when
\* it is not full.
ListOf(ls, R) ==
    /\ ls \in Seq(R) /\ Len(ls) <= MaxMatches
    /\ \A i, j \in 1..Len(ls) : ls[i] = ls[j] => i = j
    /\ Len(ls) < MaxMatches => R \subseteq ToSet(ls)

CursorInv == /\ cursor \in [file : 1..(NumWorkers + 1), lines : Nat]
             /\ cursor.file \in Team => cursor.lines <= Len(tmpfile[cursor.file])

NothingRead == cursor = [file |-> 1, lines |-> 0] /\ listed = <<>>

\* The list is of what the parent has read so far; it reads when it collects.
ListedInv == /\ parent \notin {"collect", "done"} => NothingRead
             /\ parent \in {"collect", "done"} => CursorInv /\ ListOf(listed, ReadFiles)

\* Reading a line about a file that was not read about before.
LEMMA ListGrows ==
    ASSUME NEW ls, NEW R, ListOf(ls, R), NEW f, f \notin R
    PROVE  ListOf(IF Len(ls) < MaxMatches THEN Append(ls, f) ELSE ls, R \cup {f})
<1>1. ls \in Seq(R) /\ Len(ls) \in Nat /\ Len(ls) <= MaxMatches /\ MaxMatches \in Nat
  BY SearchAssumption DEF ListOf
<1>2. CASE Len(ls) < MaxMatches
  <2>1. PICK more : more = Append(ls, f)
    OBVIOUS
  <2>2. /\ more \in Seq(R \cup {f}) /\ Len(more) = Len(ls) + 1
        /\ more[Len(ls) + 1] = f /\ \A i \in 1..Len(ls) : more[i] = ls[i]
    BY <1>1, <2>1
  <2>3. \A i \in 1..Len(ls) : ls[i] # f
    BY <1>1
  <2>4. \A i \in 1..Len(more) : i \in 1..Len(ls) \/ i = Len(ls) + 1
    BY <1>1, <2>2
  <2>5. \A i, j \in 1..Len(more) : more[i] = more[j] => i = j
    BY <2>2, <2>3, <2>4 DEF ListOf
  <2>6. R \cup {f} \subseteq ToSet(more)
    <3>1. \A x \in R : \E i \in 1..Len(ls) : ls[i] = x
      BY <1>1, <1>2 DEF ListOf, ToSet
    <3>2. \A x \in R \cup {f} : \E i \in 1..Len(more) : more[i] = x
      <4>1. Len(ls) + 1 \in 1..Len(more) /\ \A i \in 1..Len(ls) : i \in 1..Len(more)
        BY <1>1, <2>2
      <4> QED BY <2>2, <3>1, <4>1
    <3>3. DOMAIN more = 1..Len(more)
      BY <2>2
    <3> QED BY <3>2, <3>3 DEF ToSet
  <2>7. Len(more) <= MaxMatches
    BY <1>1, <1>2, <2>2
  <2> QED BY <1>2, <2>1, <2>2, <2>5, <2>6, <2>7 DEF ListOf
<1>3. CASE ~(Len(ls) < MaxMatches)
  <2>1. ls \in Seq(R \cup {f})
    BY <1>1
  <2> QED BY <1>3, <2>1 DEF ListOf
<1> QED BY <1>2, <1>3

\* What the list is about does not change unless the parent reads.
LEMMA ListedFrame ==
    ASSUME CursorInv, ListOf(listed, ReadFiles), UNCHANGED <<tree, tmpfile, cursor, listed>>
    PROVE  CursorInv' /\ ListOf(listed, ReadFiles)'
<1>1. /\ AllFiles' = AllFiles /\ Team' = Team /\ NumWorkers' = NumWorkers
      /\ \A f : Listable(f)' <=> Listable(f)
  BY FilesFrame, TeamFrame
<1>2. \A v : ReadLines(v)' = ReadLines(v)
  BY DEF ReadLines
<1>3. \A f : IsRead(f)' <=> IsRead(f)
  BY <1>1, <1>2 DEF IsRead
<1>4. ReadFiles' = ReadFiles
  BY <1>1, <1>3 DEF ReadFiles
<1>5. CursorInv'
  BY <1>1 DEF CursorInv
<1> QED BY <1>4, <1>5 DEF ListOf

\* At the start of the collection nothing is read and nothing is listed.
LEMMA NothingListed ==
    ASSUME tree \in Trees, TmpfilesInv, NothingRead
    PROVE  CursorInv /\ ListOf(listed, ReadFiles)
<1>1. NumWorkers \in Nat /\ NumWorkers <= MaxWorkers /\ MaxWorkers \in Nat /\ MaxMatches \in Nat
  BY TeamSize, SearchAssumption
<1>2. cursor.file = 1 /\ cursor.lines = 0 /\ listed = <<>>
  BY DEF NothingRead
<1>3. \A v \in Team : ReadLines(v) = 0
  BY <1>1, <1>2 DEF ReadLines, Team
<1>4. ReadFiles = {}
  BY <1>3 DEF ReadFiles, IsRead
<1>5. ListOf(listed, ReadFiles)
  BY <1>1, <1>2, <1>4 DEF ListOf
<1>6. 1 \in Team => Len(tmpfile[1]) \in Nat
  <2> SUFFICES ASSUME 1 \in Team PROVE Len(tmpfile[1]) \in Nat
    OBVIOUS
  <2>1. 1 \in Workers
    BY <1>1 DEF Team, Workers
  <2> QED BY <2>1 DEF TmpfilesInv
<1>7. CursorInv
  BY <1>1, <1>2, <1>6 DEF CursorInv, NothingRead
<1> QED BY <1>5, <1>7

\* The same of the next state.
LEMMA NothingListedNext ==
    (tree \in Trees /\ TmpfilesInv /\ NothingRead)' => CursorInv' /\ ListOf(listed, ReadFiles)'
<1>1. tree \in Trees /\ TmpfilesInv /\ NothingRead => CursorInv /\ ListOf(listed, ReadFiles)
  BY NothingListed
<1> QED BY <1>1, PTL

\* A temporary file holds its worker's files, none twice.
LEMMA LinesOf ==
    ASSUME TmpfilesInv, NEW v \in Workers
    PROVE  /\ Len(tmpfile[v]) \in Nat /\ DOMAIN tmpfile[v] = 1..Len(tmpfile[v])
           /\ \A j \in 1..Len(tmpfile[v]) : tmpfile[v][j] \in FilesOf(v)
           /\ \A i, j \in 1..Len(tmpfile[v]) : tmpfile[v][i] = tmpfile[v][j] => i = j
<1>1. PICK ls, fs : ls = tmpfile[v] /\ fs = FilesOf(v)
  OBVIOUS
<1>2. ls \in Seq(fs) /\ \A i, j \in 1..Len(ls) : ls[i] = ls[j] => i = j
  BY <1>1 DEF TmpfilesInv, Claims
<1> QED BY <1>1, <1>2

\* The parent has read no more of a file than there is.
LEMMA ReadLinesAre ==
    ASSUME tree \in Trees, TmpfilesInv, CursorInv, NEW v \in Team
    PROVE  v \in Workers /\ ReadLines(v) \in 0..Len(tmpfile[v])
<1>1. NumWorkers \in Nat /\ NumWorkers <= MaxWorkers /\ MaxWorkers \in Nat
  BY TeamSize, SearchAssumption
<1>2. v \in Workers
  BY <1>1 DEF Team, Workers
<1>3. Len(tmpfile[v]) \in Nat
  BY <1>2, LinesOf
<1>4. cursor.lines \in Nat /\ (v = cursor.file => cursor.lines <= Len(tmpfile[v]))
  BY DEF CursorInv
<1> QED BY <1>2, <1>3, <1>4 DEF ReadLines

\* A line of a temporary file: it is about a file that was not read about
\* before, and it is listed when there is room and no blank in its path.
LEMMA ReadStep ==
    ASSUME SearchInv, TmpfilesInv, CursorInv, ListOf(listed, ReadFiles), ReadMatch
    PROVE  CursorInv' /\ ListOf(listed, ReadFiles)'
<1>1. /\ NumWorkers \in Nat /\ NumWorkers <= MaxWorkers /\ MaxWorkers \in Nat
      /\ tree \in Trees
  BY TeamSize, SearchAssumption DEF SearchInv, SearchTypes
<1>2. PICK w \in Team : w = cursor.file
  BY DEF ReadMatch
<1>3. PICK n \in Nat : n = cursor.lines
  BY DEF CursorInv
<1>4. w \in Workers /\ w \in Nat
  BY <1>1 DEF Team, Workers
<1>5. /\ n < Len(tmpfile[w]) /\ UNCHANGED <<tree, tmpfile>>
      /\ cursor' = [cursor EXCEPT !.lines = @ + 1]
  BY <1>2, <1>3 DEF ReadMatch
<1>6. cursor'.file = w /\ cursor'.lines = n + 1 /\ cursor' \in [file : 1..(NumWorkers + 1), lines : Nat]
  BY <1>2, <1>3, <1>5 DEF CursorInv
<1>7. /\ AllFiles' = AllFiles /\ Team' = Team /\ NumWorkers' = NumWorkers
      /\ \A g : Listable(g)' <=> Listable(g)
  BY <1>5, FilesFrame, TeamFrame
<1>8. Len(tmpfile[w]) \in Nat /\ n + 1 \in 1..Len(tmpfile[w])
  BY <1>4, <1>5, LinesOf
<1>9. CursorInv'
  BY <1>5, <1>6, <1>7, <1>8 DEF CursorInv
<1>10. PICK f : f = tmpfile[w][n + 1]
  OBVIOUS
<1>11. f \in FilesOf(w) /\ f \in AllFiles
  BY <1>4, <1>8, <1>10, LinesOf, ShareOfAll
<1>12. ~IsRead(f)
  <2> SUFFICES ASSUME NEW v \in Team, NEW j \in 1..ReadLines(v), tmpfile[v][j] = f PROVE FALSE
    BY DEF IsRead
  <2>1. v \in Workers /\ ReadLines(v) \in 0..Len(tmpfile[v]) /\ Len(tmpfile[v]) \in Nat
    BY <1>1, ReadLinesAre, LinesOf
  <2>2. j \in 1..Len(tmpfile[v])
    BY <2>1
  <2>3. f \in FilesOf(v)
    BY <2>1, <2>2, LinesOf
  <2>4. v = w
    BY <1>4, <1>11, <2>1, <2>3, SharesDisjoint
  <2>5. ReadLines(w) = n
    BY <1>2, <1>3, <1>4 DEF ReadLines
  <2>6. j # n + 1
    BY <2>4, <2>5
  <2> QED BY <1>4, <1>8, <1>10, <2>2, <2>4, <2>6, LinesOf
<1>13. \A g : IsRead(g)' <=> IsRead(g) \/ g = f
  <2>1. \A v \in Team : v # w => ReadLines(v)' = ReadLines(v)
    BY <1>2, <1>5, <1>6 DEF ReadLines
  <2>2. ReadLines(w) = n /\ ReadLines(w)' = n + 1
    BY <1>2, <1>3, <1>4, <1>6 DEF ReadLines
  <2>3. \A j : j \in 1..(n + 1) <=> j \in 1..n \/ j = n + 1
    OBVIOUS
  <2>4. \A g : \A v \in Team : (\E j \in 1..ReadLines(v)' : tmpfile[v][j] = g) <=>
                              \/ \E j \in 1..ReadLines(v) : tmpfile[v][j] = g
                              \/ v = w /\ g = f
    <3> SUFFICES ASSUME NEW g, NEW v \in Team
                 PROVE  (\E j \in 1..ReadLines(v)' : tmpfile[v][j] = g) <=>
                              \/ \E j \in 1..ReadLines(v) : tmpfile[v][j] = g
                              \/ v = w /\ g = f
      OBVIOUS
    <3>1. CASE v = w
      BY <1>10, <2>2, <2>3, <3>1
    <3>2. CASE v # w
      BY <2>1, <3>2
    <3> QED BY <3>1, <3>2
  <2>5. \A g : IsRead(g)' <=> \E v \in Team : \E j \in 1..ReadLines(v)' : tmpfile[v][j] = g
    BY <1>5, <1>7 DEF IsRead
  <2>6. \A g : IsRead(g) <=> \E v \in Team : \E j \in 1..ReadLines(v) : tmpfile[v][j] = g
    BY DEF IsRead
  <2> QED BY <1>2, <2>4, <2>5, <2>6, Zenon
<1>14. PICK R : R = ReadFiles
  OBVIOUS
<1>15. f \notin R
  BY <1>12, <1>14 DEF ReadFiles
<1>16. PICK ls : ls = listed
  OBVIOUS
<1>17. ListOf(ls, R)
  BY <1>14, <1>16
<1>18. listed' = IF Listable(f) /\ Len(ls) < MaxMatches THEN Append(ls, f) ELSE ls
  BY <1>2, <1>3, <1>10, <1>16 DEF ReadMatch
<1>19. CASE Listable(f)
  <2>1. ReadFiles' = R \cup {f}
    BY <1>7, <1>11, <1>13, <1>14, <1>19 DEF ReadFiles
  <2>2. listed' = IF Len(ls) < MaxMatches THEN Append(ls, f) ELSE ls
    BY <1>18, <1>19
  <2>3. ListOf(IF Len(ls) < MaxMatches THEN Append(ls, f) ELSE ls, R \cup {f})
    BY <1>15, <1>17, ListGrows
  <2>4. PICK more : more = listed'
    OBVIOUS
  <2>5. ListOf(more, R \cup {f})
    BY <2>2, <2>3, <2>4
  <2>6. ListOf(listed, ReadFiles)'
    BY <2>1, <2>4, <2>5 DEF ListOf
  <2> QED BY <1>9, <2>6
<1>20. CASE ~Listable(f)
  <2>1. ReadFiles' = R
    BY <1>7, <1>13, <1>14, <1>20 DEF ReadFiles
  <2>2. listed' = ls
    BY <1>18, <1>20
  <2>3. ListOf(listed, ReadFiles)'
    BY <1>17, <2>1, <2>2 DEF ListOf
  <2> QED BY <1>9, <2>3
<1> QED BY <1>19, <1>20

\* The next temporary file: this one was read to its end.
LEMMA NextFileStep ==
    ASSUME SearchInv, TmpfilesInv, FilesExist, CursorInv, ListOf(listed, ReadFiles), NextTmpfile
    PROVE  CursorInv' /\ ListOf(listed, ReadFiles)'
<1>1. /\ NumWorkers \in Nat /\ NumWorkers <= MaxWorkers /\ MaxWorkers \in Nat
      /\ tree \in Trees
  BY TeamSize, SearchAssumption DEF SearchInv, SearchTypes
<1>2. PICK w \in Team : w = cursor.file
  BY DEF NextTmpfile
<1>3. w \in existing
  BY DEF NextTmpfile, FilesExist, Waiting
<1>4. /\ cursor.lines = Len(tmpfile[w]) /\ UNCHANGED <<tree, tmpfile, listed>>
      /\ cursor' = [file |-> w + 1, lines |-> 0]
  BY <1>2, <1>3 DEF NextTmpfile
<1>5. w \in Nat /\ w >= 1 /\ w <= NumWorkers
  BY <1>1 DEF Team
<1>6. cursor'.file = w + 1 /\ cursor'.lines = 0 /\ cursor' \in [file : 1..(NumWorkers + 1), lines : Nat]
  BY <1>1, <1>4, <1>5
<1>7. /\ AllFiles' = AllFiles /\ Team' = Team /\ NumWorkers' = NumWorkers
      /\ \A g : Listable(g)' <=> Listable(g)
  BY <1>4, FilesFrame, TeamFrame
<1>8. \A v \in Team : v \in Workers /\ Len(tmpfile[v]) \in Nat
  BY <1>1, LinesOf DEF Team, Workers
<1>9. CursorInv'
  BY <1>4, <1>6, <1>7, <1>8 DEF CursorInv
<1>10. \A v \in Team : ReadLines(v)' = ReadLines(v)
  <2> SUFFICES ASSUME NEW v \in Team PROVE ReadLines(v)' = ReadLines(v)
    OBVIOUS
  <2>1. v \in Nat
    BY <1>1 DEF Team
  <2>2. CASE v < w
    BY <1>2, <1>4, <1>5, <1>6, <2>1, <2>2 DEF ReadLines
  <2>3. CASE v = w
    BY <1>2, <1>4, <1>5, <1>6, <2>1, <2>3 DEF ReadLines
  <2>4. CASE v > w
    BY <1>2, <1>4, <1>5, <1>6, <2>1, <2>4 DEF ReadLines
  <2> QED BY <1>5, <2>1, <2>2, <2>3, <2>4
<1>11. \A g : IsRead(g)' <=> IsRead(g)
  BY <1>4, <1>7, <1>10 DEF IsRead
<1>12. ReadFiles' = ReadFiles
  BY <1>7, <1>11 DEF ReadFiles
<1>13. ListOf(listed, ReadFiles)'
  BY <1>4, <1>12 DEF ListOf
<1> QED BY <1>9, <1>13

\* The list stays true to what the parent has read.
LEMMA ListedStep ==
    ASSUME SearchInv, TmpfilesInv, FilesExist, ListedInv, [Next]_vars, TmpfilesInv', tree' \in Trees
    PROVE  ListedInv'
<1>1. tree' = tree
  BY DEF Next, WorkerStep, StartWorker, FindMatch, FinishSearch, NotifyParent, ExitWorker, WorkerKilled,
         ParentStep, SearchDirectly, ForkWorker, CheckLoop, Suspend, DeliverSignals, TerminateAll,
         PollWorkers, DeadlineExpires, ReadMatch, NextTmpfile, Report, ForkFails, Interrupt, vars
<1>2. ASSUME parent \notin {"collect", "done"}, UNCHANGED readVars PROVE ListedInv'
  <2>1. NothingRead'
    BY <1>2 DEF ListedInv, NothingRead, readVars
  <2>2. CursorInv' /\ ListOf(listed, ReadFiles)'
    BY <2>1, NothingListedNext
  <2> QED BY <2>1, <2>2 DEF ListedInv
<1>3. CASE \E w \in Workers : WorkerStep(w) \/ WorkerKilled(w)
  <2>1. PICK w \in Workers : WorkerStep(w) \/ WorkerKilled(w)
    BY <1>3
  <2>2. Running(w) /\ UNCHANGED <<parent, readVars>>
    BY <2>1 DEF WorkerStep, StartWorker, FindMatch, FinishSearch, NotifyParent, ExitWorker, WorkerKilled, Running
  <2>3. parent \notin {"collect", "done"}
    BY <2>2 DEF SearchInv, AllCollected, LeavesNothingBehind
  <2> QED BY <1>2, <2>2, <2>3
<1>4. CASE \/ ForkWorker \/ CheckLoop \/ Suspend \/ TerminateAll \/ PollWorkers \/ DeadlineExpires
           \/ SearchDirectly \/ ForkFails \/ \E sigs \in SUBSET Signals : DeliverSignals(sigs)
  <2>1. parent \notin {"collect", "done"} /\ UNCHANGED readVars
    BY <1>4 DEF ForkWorker, CheckLoop, Suspend, TerminateAll, PollWorkers, DeadlineExpires, SearchDirectly,
                ForkFails, DeliverSignals, Unblocked
  <2> QED BY <1>2, <2>1
<1>5. CASE ReadMatch
  <2>1. parent = "collect" /\ parent' = "collect"
    BY <1>5 DEF ReadMatch
  <2> QED BY <1>5, <2>1, ReadStep DEF ListedInv
<1>6. CASE NextTmpfile
  <2>1. parent = "collect" /\ parent' = "collect"
    BY <1>6 DEF NextTmpfile
  <2> QED BY <1>6, <2>1, NextFileStep DEF ListedInv
<1>7. CASE Report \/ Interrupt \/ UNCHANGED vars
  <2>1. UNCHANGED <<tree, tmpfile, cursor, listed>>
    BY <1>7 DEF Report, Interrupt, vars, readVars
  <2>2. (parent' = parent) \/ (parent = "collect" /\ parent' = "done")
    BY <1>7 DEF Report, Interrupt, vars
  <2>3. CASE parent \in {"collect", "done"}
    <3>1. CursorInv' /\ ListOf(listed, ReadFiles)'
      BY <2>1, <2>3, ListedFrame DEF ListedInv
    <3> QED BY <2>2, <2>3, <3>1 DEF ListedInv
  <2>4. CASE parent \notin {"collect", "done"}
    BY <1>2, <2>1, <2>4 DEF readVars
  <2> QED BY <2>3, <2>4
<1> QED BY <1>3, <1>4, <1>5, <1>6, <1>7 DEF Next, ParentStep

-----------------------------------------------------------------------------
(* The report                                                              *)

\* What was reported is what was read and reaped, and all of it.
DoneInv ==
    /\ parent = "direct" => tree = <<>>
    /\ report # NoReport /\ tree # <<>> =>
           /\ parent = "done" /\ reaped = Team /\ cursor.file \notin Team
           /\ report.listed = listed /\ report.total = Total(MatchCount, Team)

ReportInv == SearchInv /\ TmpfilesInv /\ TermInv /\ FilesExist /\ ListedInv /\ DoneInv

\* When the parent is done nothing happens any more.
LEMMA DoneIsLast ==
    ASSUME SearchInv, [Next]_vars, parent = "done"
    PROVE  UNCHANGED vars
<1>1. ~\E w \in Workers : WorkerStep(w) \/ WorkerKilled(w)
  <2> SUFFICES ASSUME NEW w \in Workers, WorkerStep(w) \/ WorkerKilled(w) PROVE FALSE
    OBVIOUS
  <2>1. Running(w)
    BY DEF WorkerStep, StartWorker, FindMatch, FinishSearch, NotifyParent, ExitWorker, WorkerKilled, Running
  <2> QED BY <2>1 DEF SearchInv, LeavesNothingBehind
<1>2. ~ParentStep
  BY DEF ParentStep, SearchDirectly, ForkWorker, CheckLoop, Suspend, DeliverSignals, Unblocked, TerminateAll,
         PollWorkers, DeadlineExpires, ReadMatch, NextTmpfile, Report
<1>3. ~ForkFails /\ ~Interrupt
  BY DEF ForkFails, Interrupt, Over
<1> QED BY <1>1, <1>2, <1>3 DEF Next

\* The report is made once, from everything.
LEMMA ReportedOnce ==
    ASSUME SearchInv, FilesExist, DoneInv, [Next]_vars
    PROVE  DoneInv'
<1>1. CASE parent = "done"
  <2>1. UNCHANGED vars
    BY <1>1, DoneIsLast
  <2>2. Team' = Team
    BY <2>1, FilesFrame DEF vars
  <2>3. MatchCount' = MatchCount
    BY <2>1 DEF MatchCount, vars
  <2>4. UNCHANGED <<tree, parent, report, reaped, cursor, listed>>
    BY <2>1 DEF vars, readVars
  <2> QED BY <2>2, <2>3, <2>4 DEF DoneInv
<1>2. ASSUME parent # "done", UNCHANGED <<tree, report>>, parent' = "direct" => parent = "direct"
      PROVE  DoneInv'
  BY <1>2 DEF DoneInv
<1>3. CASE SearchDirectly
  BY <1>3 DEF SearchDirectly, DoneInv
<1>4. CASE Report
  <2>1. /\ parent = "collect" /\ cursor.file \notin Team /\ parent' = "done"
        /\ report' = [listed |-> listed, total |-> Total(MatchCount, reaped)]
        /\ UNCHANGED <<tree, worker, reaped, cursor, listed>>
    BY <1>4 DEF Report, readVars
  <2>2. reaped = Team /\ Team' = Team
    BY <2>1, FilesFrame DEF FilesExist
  <2>3. MatchCount' = MatchCount
    BY <2>1 DEF MatchCount
  <2>4. report'.listed = listed /\ report'.total = Total(MatchCount, reaped)
    BY <2>1
  <2> QED BY <2>1, <2>2, <2>3, <2>4 DEF DoneInv
<1>5. CASE \E w \in Workers : WorkerStep(w) \/ WorkerKilled(w)
  <2>1. UNCHANGED <<tree, report, parent>>
    BY <1>5 DEF WorkerStep, StartWorker, FindMatch, FinishSearch, NotifyParent, ExitWorker, WorkerKilled
  <2> QED BY <1>1, <1>2, <2>1
<1>6. CASE ForkFails \/ Interrupt \/ UNCHANGED vars
  <2>1. UNCHANGED <<tree, report>> /\ (parent' = parent \/ parent' = "failed")
    BY <1>6 DEF ForkFails, Interrupt, vars
  <2> QED BY <1>1, <1>2, <2>1
<1>7. CASE ParentStep /\ ~SearchDirectly /\ ~Report
  <2>1. UNCHANGED <<tree, report>> /\ parent' # "direct"
    BY <1>7 DEF ParentStep, ForkWorker, CheckLoop, Suspend, DeliverSignals, Unblocked, TerminateAll,
                PollWorkers, DeadlineExpires, Stop, ReadMatch, NextTmpfile
  <2> QED BY <1>1, <1>2, <2>1
<1> QED BY <1>3, <1>4, <1>5, <1>6, <1>7 DEF Next

\* Everything about the report holds at the start ...
LEMMA ReportInit == Init => ReportInv
<1> SUFFICES ASSUME Init PROVE ReportInv
  OBVIOUS
<1>1. SearchInv
  BY SearchInit
<1>2. /\ worker = [w \in Workers |-> [at |-> "none", found |-> 0, term |-> FALSE, status |-> 0]]
      /\ tmpfile = [w \in Workers |-> <<>>]
  BY DEF Init, NewWorker
<1>3. TmpfilesInv
  <2>1. tmpfile \in [Workers -> Seq(AllFiles)]
    BY <1>2
  <2>2. ASSUME NEW w \in Workers PROVE Claims(worker[w], tmpfile[w], FilesOf(w))
    <3>1. worker[w].at = "none" /\ worker[w].found = 0 /\ tmpfile[w] = <<>>
      BY <1>2
    <3> QED BY <3>1 DEF Claims
  <2> QED BY <2>1, <2>2 DEF TmpfilesInv
<1>4. TermInv
  BY <1>2 DEF TermInv
<1>5. FilesExist /\ ListedInv /\ DoneInv
  BY DEF Init, FilesExist, ListedInv, NothingRead, DoneInv, Waiting
<1> QED BY <1>1, <1>3, <1>4, <1>5 DEF ReportInv

\* ... and after every step.
LEMMA ReportStep == ReportInv /\ [Next]_vars => ReportInv'
<1> SUFFICES ASSUME ReportInv, [Next]_vars PROVE ReportInv'
  OBVIOUS
<1>1. SearchInv /\ TmpfilesInv /\ TermInv /\ FilesExist /\ ListedInv /\ DoneInv
  BY DEF ReportInv
<1>2. SearchInv'
  BY <1>1, SearchStep
<1>3. TmpfilesInv'
  BY <1>1, WorkerFiles, ParentFiles DEF Next
<1>4. TermInv' /\ FilesExist' /\ DoneInv'
  BY <1>1, TermStep, ExistStep, ReportedOnce
<1>5. ListedInv'
  BY <1>1, <1>2, <1>3, ListedStep DEF SearchInv, SearchTypes
<1> QED BY <1>2, <1>3, <1>4, <1>5 DEF ReportInv

\* A list without repetitions has as many elements as it is long.
LEMMA DistinctList ==
    ASSUME NEW S, NEW ls \in Seq(S), \A i, j \in 1..Len(ls) : ls[i] = ls[j] => i = j
    PROVE  IsFiniteSet(ToSet(ls)) /\ Cardinality(ToSet(ls)) = Len(ls) /\ ToSet(ls) \subseteq S
<1>1. PICK n \in Nat : n = Len(ls)
  OBVIOUS
<1>2. PICK D : D = 1..n
  OBVIOUS
<1>3. IsFiniteSet(D) /\ Cardinality(D) = n
  BY <1>2, FS_Interval
<1>4. \A i, j \in D : ls[i] = ls[j] => i = j
  BY <1>1, <1>2
<1>5. ToSet(ls) = {ls[i] : i \in D}
  BY <1>1, <1>2 DEF ToSet
<1>6. IsFiniteSet({ls[i] : i \in D}) /\ Cardinality({ls[i] : i \in D}) = Cardinality(D)
  BY <1>3, <1>4, InjectiveImage
<1>7. {ls[i] : i \in D} \subseteq S
  BY <1>1, <1>2
<1> QED BY <1>1, <1>3, <1>5, <1>6, <1>7

\* A worker that was reaped, alive and never stopped has written all its files
\* and returned their number.
LEMMA AliveWorker ==
    ASSUME ReportInv, report # NoReport, tree # <<>>, NEW w \in Team, worker[w].status >= 0
    PROVE  /\ w \in Workers
           /\ FilesOf(w) = ToSet(tmpfile[w])
           /\ worker[w].status = Cardinality(FilesOf(w)) % StatusRange
<1>1. SearchInv /\ TmpfilesInv /\ TermInv /\ DoneInv /\ tree \in Trees
  BY DEF ReportInv, SearchInv, SearchTypes
<1>2. NumWorkers \in Nat /\ NumWorkers <= MaxWorkers /\ MaxWorkers \in Nat
  BY <1>1, TeamSize, SearchAssumption
<1>3. w \in Workers
  BY <1>2 DEF Team, Workers
<1>4. parent = "done" /\ w \in reaped
  BY <1>1 DEF DoneInv
<1>5. worker[w].at = "reaped" /\ ~worker[w].term
  BY <1>1, <1>3, <1>4 DEF SearchInv, ReapedWorkers, TermInv
<1>6. PICK r, ls, fs : r = worker[w] /\ ls = tmpfile[w] /\ fs = FilesOf(w)
  OBVIOUS
<1>7. Claims(r, ls, fs)
  BY <1>1, <1>3, <1>6 DEF TmpfilesInv
<1>8. fs \subseteq ToSet(ls) /\ r.status = Len(ls) % StatusRange
  BY <1>5, <1>6, <1>7 DEF Claims
<1>9. ls \in Seq(fs) /\ \A i, j \in 1..Len(ls) : ls[i] = ls[j] => i = j
  BY <1>7 DEF Claims
<1>10. Cardinality(ToSet(ls)) = Len(ls) /\ ToSet(ls) \subseteq fs
  BY <1>9, DistinctList
<1>11. ToSet(ls) = fs
  BY <1>8, <1>10
<1> QED BY <1>3, <1>6, <1>8, <1>10, <1>11

\* The parent has read every line of every temporary file.
LEMMA AllRead ==
    ASSUME ReportInv, report # NoReport, tree # <<>>
    PROVE  /\ ListOf(report.listed, ReadFiles) /\ IsFiniteSet(ReadFiles)
           /\ ReadFiles \subseteq Plain(AllFiles)
           /\ \A w \in Team : worker[w].status >= 0 => Plain(FilesOf(w)) \subseteq ReadFiles
<1>1. ListedInv /\ DoneInv /\ TmpfilesInv /\ tree \in Trees
  BY DEF ReportInv, SearchInv, SearchTypes
<1>2. NumWorkers \in Nat
  BY <1>1, TeamSize
<1>3. parent = "done" /\ cursor.file \notin Team /\ report.listed = listed
  BY <1>1 DEF DoneInv
<1>4. CursorInv /\ ListOf(report.listed, ReadFiles)
  BY <1>1, <1>3 DEF ListedInv
<1>5. cursor.file = NumWorkers + 1
  BY <1>2, <1>3, <1>4 DEF CursorInv, Team
<1>6. \A v \in Team : ReadLines(v) = Len(tmpfile[v])
  BY <1>2, <1>5 DEF ReadLines, Team
<1>7. ReadFiles \subseteq Plain(AllFiles) /\ ReadFiles \subseteq AllFiles
  BY DEF ReadFiles, Plain
<1>8. IsFiniteSet(ReadFiles)
  BY <1>1, <1>7, FilesAreFinite, FS_Subset
<1>9. ASSUME NEW w \in Team, worker[w].status >= 0, NEW f \in Plain(FilesOf(w))
      PROVE  f \in ReadFiles
  <2>1. w \in Workers /\ FilesOf(w) = ToSet(tmpfile[w])
    BY <1>9, AliveWorker
  <2>2. f \in ToSet(tmpfile[w]) /\ Listable(f) /\ f \in AllFiles
    BY <2>1, ShareOfAll DEF Plain
  <2>3. PICK j \in 1..Len(tmpfile[w]) : tmpfile[w][j] = f
    BY <1>1, <2>1, <2>2, LinesOf DEF ToSet
  <2>4. IsRead(f)
    BY <1>6, <2>3 DEF IsRead
  <2> QED BY <2>2, <2>4 DEF ReadFiles
<1> QED BY <1>4, <1>7, <1>8, <1>9

\* A list of R that is full, or holds all of R, is as long as it can be.
LEMMA ListLength ==
    ASSUME NEW ls, NEW R, IsFiniteSet(R), ListOf(ls, R)
    PROVE  Len(ls) = Min({Cardinality(R), MaxMatches})
<1>1. ls \in Seq(R) /\ \A i, j \in 1..Len(ls) : ls[i] = ls[j] => i = j
  BY DEF ListOf
<1>2. ToSet(ls) \subseteq R /\ Cardinality(ToSet(ls)) = Len(ls)
  BY <1>1, DistinctList
<1>3. PICK n \in Nat : n = Len(ls)
  BY <1>1
<1>4. PICK c \in Nat : c = Cardinality(R)
  BY FS_CardinalityType
<1>5. n <= c
  BY <1>2, <1>3, <1>4, FS_Subset
<1>6. n <= MaxMatches /\ MaxMatches \in Nat
  BY <1>3, SearchAssumption DEF ListOf
<1>7. n < MaxMatches => n = c
  <2> SUFFICES ASSUME n < MaxMatches PROVE n = c
    OBVIOUS
  <2>1. ToSet(ls) = R
    BY <1>2, <1>3 DEF ListOf
  <2> QED BY <1>2, <1>3, <1>4, <2>1
<1>8. {c, MaxMatches} \in SUBSET Nat /\ {c, MaxMatches} # {}
  BY <1>6
<1>9. Min({c, MaxMatches}) \in {c, MaxMatches} /\ \A j \in {c, MaxMatches} : Min({c, MaxMatches}) <= j
  BY <1>8, MinNatural
<1>10. n = Min({c, MaxMatches})
  BY <1>5, <1>6, <1>7, <1>9
<1> QED BY <1>3, <1>4, <1>10

\* The total of the summary.
LEMMA TotalIsExact ==
    ASSUME ReportInv, report # NoReport, tree # <<>>
    PROVE  report.total = Total([w \in Team |-> Cardinality(FilesOf(w)) % StatusRange],
                                {w \in Team : worker[w].status >= 0})
<1>1. DoneInv /\ tree \in Trees
  BY DEF ReportInv, SearchInv, SearchTypes
<1>2. PICK f, g, S, T : /\ f = MatchCount /\ S = Team /\ T = {w \in Team : worker[w].status >= 0}
                        /\ g = [w \in Team |-> Cardinality(FilesOf(w)) % StatusRange]
  OBVIOUS
<1>3. report.total = Total(f, S)
  BY <1>1, <1>2 DEF DoneInv
<1>4. \A w \in Team : w \in Workers
  <2>1. NumWorkers \in Nat /\ NumWorkers <= MaxWorkers /\ MaxWorkers \in Nat
    BY <1>1, TeamSize, SearchAssumption
  <2> QED BY <2>1 DEF Team, Workers
<1>5. ASSUME NEW w \in T PROVE f[w] = g[w]
  <2>1. w \in Team /\ worker[w].status >= 0
    BY <1>2
  <2>2. worker[w].status = Cardinality(FilesOf(w)) % StatusRange
    BY <2>1, AliveWorker
  <2>3. f[w] = worker[w].status
    BY <1>2, <1>4, <2>1 DEF MatchCount
  <2> QED BY <1>2, <2>1, <2>2, <2>3
<1>6. ASSUME NEW w \in S \ T PROVE f[w] = 0
  BY <1>2, <1>4 DEF MatchCount
<1>7. T \in SUBSET S
  BY <1>2
<1>8. Total(f, S) = Total(g, T)
  BY <1>5, <1>6, <1>7, TotalWithoutZeros
<1> QED BY <1>2, <1>3, <1>8

\* The invariant is enough.
LEMMA ReportFollows == ReportInv => ReportIsExact
<1> SUFFICES ASSUME ReportInv, report # NoReport, tree # <<>> PROVE ReportIsExact
  BY DEF ReportIsExact
<1> DEFINE alive   == {w \in Team : worker[w].status >= 0}
           certain == Plain(UNION {FilesOf(w) : w \in alive})
           shown   == ToSet(report.listed)
<1>1. PICK R, ls : R = ReadFiles /\ ls = report.listed
  OBVIOUS
<1>2. /\ ListOf(ls, R) /\ IsFiniteSet(R) /\ R \subseteq Plain(AllFiles)
      /\ \A w \in Team : worker[w].status >= 0 => Plain(FilesOf(w)) \subseteq R
  BY <1>1, AllRead
<1>3. ls \in Seq(R) /\ \A i, j \in 1..Len(ls) : ls[i] = ls[j] => i = j
  BY <1>2 DEF ListOf
<1>4. ToSet(ls) \subseteq R /\ Cardinality(ToSet(ls)) = Len(ls)
  BY <1>3, DistinctList
<1>5. shown \subseteq Plain(AllFiles) /\ Cardinality(shown) = Len(report.listed)
  BY <1>1, <1>2, <1>4
<1>6. certain \subseteq R
  <2> SUFFICES ASSUME NEW f \in certain PROVE f \in R
    OBVIOUS
  <2>1. PICK w \in alive : f \in FilesOf(w)
    BY DEF Plain
  <2>2. f \in Plain(FilesOf(w))
    BY <2>1 DEF Plain
  <2> QED BY <1>2, <2>1, <2>2
<1>7. certain \subseteq shown \/ Len(report.listed) = MaxMatches
  <2>1. CASE Len(ls) < MaxMatches
    BY <1>1, <1>2, <1>6, <2>1 DEF ListOf
  <2>2. CASE ~(Len(ls) < MaxMatches)
    <3>1. Len(ls) \in Nat /\ MaxMatches \in Nat /\ Len(ls) <= MaxMatches
      BY <1>2, <1>3, SearchAssumption DEF ListOf
    <3> QED BY <1>1, <2>2, <3>1
  <2> QED BY <2>1, <2>2
<1>8. ASSUME alive = Team
      PROVE  Len(report.listed) = Min({Cardinality(Plain(AllFiles)), MaxMatches})
  <2>1. tree \in Trees
    BY DEF ReportInv, SearchInv, SearchTypes
  <2>2. Plain(AllFiles) \subseteq R
    <3> SUFFICES ASSUME NEW f \in Plain(AllFiles) PROVE f \in R
      OBVIOUS
    <3>1. f \in AllFiles
      BY DEF Plain
    <3>2. PICK w \in Team : f \in FilesOf(w)
      BY <2>1, <3>1, SharesCover
    <3>3. f \in Plain(FilesOf(w)) /\ w \in alive
      BY <1>8, <3>2 DEF Plain
    <3> QED BY <1>2, <3>3
  <2>3. R = Plain(AllFiles)
    BY <1>2, <2>2
  <2> QED BY <1>1, <1>2, <2>3, ListLength
<1>9. report.total = Total([w \in Team |-> Cardinality(FilesOf(w)) % StatusRange], alive)
  BY TotalIsExact
<1> QED BY <1>5, <1>7, <1>8, <1>9 DEF ReportIsExact

\* In every reachable state the temporary files hold what their workers
\* claim, SIGTERM is only out on the way to the exit, the files are there until
\* the parent ends, and the parent's list is of the lines it has read so far
\* (worker.c; main.c, the collection of the results).
THEOREM ReportCorrect == Spec => []ReportInv
BY ReportInit, ReportStep, PTL DEF Spec

\* The report of a search with workers is right for every tree, every number
\* of workers and every interleaving of searches, exits, kills and signals: it
\* lists matching files only, none twice, all that can be listed of every
\* surviving worker unless the list is full, and the total adds the workers'
\* counts modulo the range of an exit status (main.c, worker.c).
THEOREM ReportIsAlwaysExact == Spec => []ReportIsExact
BY ReportCorrect, ReportFollows, PTL

=============================================================================
