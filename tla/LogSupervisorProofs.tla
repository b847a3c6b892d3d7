------------------------ MODULE LogSupervisorProofs ------------------------
(***************************************************************************)
(* Proofs about LogSupervisor for any number of children, any choice of    *)
(* children that hang and any number of SIGINTs.                           *)
(***************************************************************************)
EXTENDS LogSupervisor, FiniteSetTheorems, TLAPS

-----------------------------------------------------------------------------
(* The inductive invariant                                                 *)

\* The children forked so far, and no others, are processes; outside the fork
\* loop all of them are.  Inside it nobody is reaped.
ForkedExist ==
    /\ \A c \in Children : child[c] = "none" <=> c > forked
    /\ mpc = "fork" => \A c \in Children : child[c] # "reaped"
    /\ mpc \notin {"fork", "failed"} => forked = NumChildren

\* children.pids holds those not yet reaped, until the last pass of
\* terminate_children, which does not mark what it reaps.
TrackedAreAlive ==
    mpc \in {"fork", "loop", "waitpid", "eintr", "reaping"} =>
        tracked = {c \in 1..forked : child[c] # "reaped"}

\* remaining_children counts them while the wait loop runs.
RemainingCounts ==
    mpc \in {"loop", "waitpid"} => remaining = Cardinality(tracked)

\* The loop is left when all are reaped, or by way of the SIGTERM to all.
LeftForAReason ==
    /\ mpc \in {"stop", "join", "exited"} => \A c \in Children : child[c] = "reaped"
    /\ mpc \in {"reaping", "collect", "abort", "abortJoin", "aborted"} =>
           \A c \in Children : child[c] # "running"

\* The regions are destroyed last, after the watchdog was joined.
RegionsGoLast ==
    regions = "destroyed" => mpc \in {"exited", "aborted"} /\ watchdog = "ended"

SupervisorInv ==
    /\ TypeOK
    /\ ForkedExist
    /\ TrackedAreAlive
    /\ RemainingCounts
    /\ LeftForAReason
    /\ RegionsGoLast

-----------------------------------------------------------------------------
(* Counting the children                                                   *)

\* Sets of children are finite.
LEMMA ChildrenFinite ==
    ASSUME NEW S \in SUBSET Children
    PROVE  IsFiniteSet(S) /\ Cardinality(S) \in 0..NumChildren
<1>1. IsFiniteSet(Children) /\ Cardinality(Children) = NumChildren
  BY SupervisorAssumption, FS_Interval DEF Children
<1>2. IsFiniteSet(S) /\ Cardinality(S) <= Cardinality(Children)
  BY <1>1, FS_Subset
<1>3. Cardinality(S) \in Nat
  BY <1>2, FS_CardinalityType
<1> QED BY <1>1, <1>2, <1>3, SupervisorAssumption

\* Before the wait loop everybody is tracked, so children.count counts them.
LEMMA AllTracked ==
    ASSUME TypeOK, TrackedAreAlive, mpc = "fork", forked = NumChildren,
           \A c \in Children : child[c] # "reaped"
    PROVE  Cardinality(tracked) = forked
<1>1. tracked = Children
  BY DEF TrackedAreAlive, Children
<1> QED BY <1>1, SupervisorAssumption, FS_Interval DEF Children

\* A child that waitpid returns was tracked; without it one less is.
LEMMA ReapCounts ==
    ASSUME SupervisorInv, mpc = "waitpid", NEW c \in Zombies
    PROVE  /\ c \in tracked
           /\ remaining - 1 = Cardinality(tracked \ {c})
           /\ remaining - 1 \in 0..NumChildren
<1>1. c \in Children /\ child[c] = "zombie"
  BY DEF Zombies, With
<1>2. c \in tracked
  BY <1>1 DEF SupervisorInv, TypeOK, ForkedExist, TrackedAreAlive, Children
<1>3. tracked \in SUBSET Children
  BY DEF SupervisorInv, TypeOK
<1>4. IsFiniteSet(tracked) /\ Cardinality(tracked) = remaining
  BY <1>3, ChildrenFinite DEF SupervisorInv, RemainingCounts
<1>5. Cardinality(tracked \ {c}) = remaining - 1
  BY <1>2, <1>4, FS_RemoveElement
<1>6. tracked \ {c} \in SUBSET Children
  BY <1>3
<1>7. Cardinality(tracked \ {c}) \in 0..NumChildren
  BY <1>6, ChildrenFinite
<1> QED BY <1>2, <1>5, <1>7

\* With nobody left to count, every child has been reaped.
LEMMA NoneLeft ==
    ASSUME SupervisorInv, mpc = "loop", ~ChildrenLeft
    PROVE  \A c \in Children : child[c] = "reaped"
<1>1. tracked \in SUBSET Children /\ remaining = 0
  BY DEF SupervisorInv, TypeOK, ChildrenLeft
<1>2. Cardinality(tracked) = 0 /\ IsFiniteSet(tracked)
  BY <1>1, ChildrenFinite DEF SupervisorInv, RemainingCounts
<1>3. tracked = {}
  BY <1>2, FS_EmptySet
<1> QED BY <1>3 DEF SupervisorInv, ForkedExist, TrackedAreAlive, Children

\* SIGTERM or SIGKILL to all tracked children leaves none of them running.
LEMMA KilledAll ==
    ASSUME SupervisorInv, mpc \in {"eintr", "reaping"}
    PROVE  /\ Killed(Targets) \in [Children -> {"none", "running", "dying", "zombie", "reaped"}]
           /\ \A c \in Children : /\ Killed(Targets)[c] # "running"
                                  /\ Killed(Targets)[c] = "none" <=> child[c] = "none"
                                  /\ Killed(Targets)[c] = "reaped" <=> child[c] = "reaped"
BY DEF SupervisorInv, TypeOK, ForkedExist, TrackedAreAlive, Killed, Targets, Children

-----------------------------------------------------------------------------
(* Invariance                                                              *)

\* Nothing is forked at the start.
LEMMA SupervisorInit == Init => SupervisorInv
<1> SUFFICES ASSUME Init PROVE SupervisorInv
  OBVIOUS
<1> USE SupervisorAssumption
<1>1. TypeOK
  <2>1. hung \subseteq Children
    BY DEF Init, Children
  <2>2. child \in [Children -> {"none", "running", "dying", "zombie", "reaped"}]
    BY DEF Init
  <2>3. {flag, shutdown} \subseteq BOOLEAN
    BY DEF Init
  <2> QED BY <2>1, <2>2, <2>3 DEF Init, TypeOK
<1>2. ForkedExist /\ TrackedAreAlive
  BY DEF Init, ForkedExist, TrackedAreAlive, Children
<1>3. RemainingCounts /\ LeftForAReason /\ RegionsGoLast
  BY DEF Init, RemainingCounts, LeftForAReason, RegionsGoLast
<1> QED BY <1>1, <1>2, <1>3 DEF SupervisorInv

\* Every step preserves the invariant.
LEMMA SupervisorStep == SupervisorInv /\ [Next]_vars => SupervisorInv'
<1> SUFFICES ASSUME SupervisorInv, [Next]_vars PROVE SupervisorInv'
  OBVIOUS
<1> USE SupervisorAssumption DEF parentVars, signalVars, watchdogVars
<1>1. CASE Fork
  <2> USE <1>1 DEF Fork, SupervisorInv
  <2>1. forked + 1 \in Children /\ forked + 1 \in 0..NumChildren
    BY DEF TypeOK, Children
  <2>2. TypeOK'
    BY <2>1 DEF TypeOK
  <2>3. ForkedExist'
    BY <2>1 DEF TypeOK, ForkedExist, Children
  <2>4. TrackedAreAlive'
    BY <2>1 DEF TypeOK, ForkedExist, TrackedAreAlive, Children
  <2>5. RemainingCounts' /\ LeftForAReason' /\ RegionsGoLast'
    BY DEF RemainingCounts, LeftForAReason, RegionsGoLast
  <2> QED BY <2>2, <2>3, <2>4, <2>5
<1>2. CASE ForkFails
  BY <1>2 DEF ForkFails, SupervisorInv, TypeOK, ForkedExist, TrackedAreAlive, RemainingCounts,
         LeftForAReason, RegionsGoLast
<1>3. CASE StartWatchdog
  BY <1>3, AllTracked DEF StartWatchdog, ChildCount, SupervisorInv, TypeOK, ForkedExist,
         TrackedAreAlive, RemainingCounts, LeftForAReason, RegionsGoLast
<1>4. CASE WaitLoop
  BY <1>4, NoneLeft DEF WaitLoop, SupervisorInv, TypeOK, ForkedExist, TrackedAreAlive,
         RemainingCounts, LeftForAReason, RegionsGoLast
<1>5. ASSUME NEW c \in Children, Reap(c)
      PROVE  SupervisorInv'
  <2> USE <1>5 DEF Reap, SupervisorInv, MarkChildReaped
  <2>1. child[c] = "zombie"
    BY DEF Zombies, With
  <2>2. /\ remaining' = Cardinality(tracked')
        /\ remaining' \in 0..NumChildren
    BY ReapCounts
  <2>3. TypeOK'
    BY <2>2 DEF TypeOK
  <2>4. ForkedExist' /\ TrackedAreAlive'
    BY <2>1 DEF TypeOK, ForkedExist, TrackedAreAlive
  <2>5. RemainingCounts' /\ LeftForAReason' /\ RegionsGoLast'
    BY <2>2 DEF RemainingCounts, LeftForAReason, RegionsGoLast
  <2> QED BY <2>3, <2>4, <2>5
<1>6. ASSUME NEW c \in Children, ReapTerminated(c)
      PROVE  SupervisorInv'
  BY <1>6 DEF ReapTerminated, MarkChildReaped, Zombies, With, SupervisorInv, TypeOK,
         ForkedExist, TrackedAreAlive, RemainingCounts, LeftForAReason, RegionsGoLast
<1>7. ASSUME NEW c \in Children, Collect(c)
      PROVE  SupervisorInv'
  BY <1>7 DEF Collect, Zombies, With, SupervisorInv, TypeOK, ForkedExist, TrackedAreAlive,
         RemainingCounts, LeftForAReason, RegionsGoLast
<1>8. CASE SendSigterm
  BY <1>8, KilledAll DEF SendSigterm, SupervisorInv, TypeOK, ForkedExist, TrackedAreAlive,
         RemainingCounts, LeftForAReason, RegionsGoLast, Children
<1>9. CASE SendSigkill
  BY <1>9, KilledAll DEF SendSigkill, SupervisorInv, TypeOK, ForkedExist, TrackedAreAlive,
         RemainingCounts, LeftForAReason, RegionsGoLast
<1>10. CASE CollectEnds
  BY <1>10 DEF CollectEnds, SupervisorInv, TypeOK, ForkedExist, TrackedAreAlive,
         RemainingCounts, LeftForAReason, RegionsGoLast
<1>11. CASE StopWatchdog
  BY <1>11 DEF StopWatchdog, SupervisorInv, TypeOK, ForkedExist, TrackedAreAlive,
         RemainingCounts, LeftForAReason, RegionsGoLast
<1>12. CASE Exit
  BY <1>12 DEF Exit, SupervisorInv, TypeOK, ForkedExist, TrackedAreAlive,
         RemainingCounts, LeftForAReason, RegionsGoLast
<1>13. CASE WatchdogEnds
  BY <1>13 DEF WatchdogEnds, SupervisorInv, TypeOK, ForkedExist, TrackedAreAlive,
         RemainingCounts, LeftForAReason, RegionsGoLast
<1>14. CASE Sigint
  BY <1>14 DEF Sigint, SupervisorInv, TypeOK, ForkedExist, TrackedAreAlive,
         RemainingCounts, LeftForAReason, RegionsGoLast
<1>15. ASSUME NEW c \in Children, ChildExits(c)
       PROVE  SupervisorInv'
  BY <1>15 DEF ChildExits, SupervisorInv, TypeOK, ForkedExist, TrackedAreAlive,
         RemainingCounts, LeftForAReason, RegionsGoLast, Children
<1>16. CASE UNCHANGED vars
  BY <1>16 DEF vars, SupervisorInv, TypeOK, ForkedExist, TrackedAreAlive, RemainingCounts,
         LeftForAReason, RegionsGoLast
<1> QED
  BY <1>1, <1>2, <1>3, <1>4, <1>5, <1>6, <1>7, <1>8, <1>9, <1>10, <1>11, <1>12, <1>13,
     <1>14, <1>15, <1>16 DEF Next, Parent

\* The inductive invariant holds in every state the parent and its children
\* reach.
THEOREM SupervisorCorrect == Spec => []SupervisorInv
BY SupervisorInit, SupervisorStep, PTL DEF Spec

\* Type correctness; in particular remaining_children never goes below zero.
THEOREM SupervisorTypes == Spec => []TypeOK
<1>1. SupervisorInv => TypeOK
  BY DEF SupervisorInv
<1> QED BY <1>1, SupervisorCorrect, PTL

\* terminate_children signals exactly the children that have not been reaped.
THEOREM SignalsAreSafe == Spec => []SignalsHitChildren
<1>1. SupervisorInv => SignalsHitChildren
  BY DEF SupervisorInv, TrackedAreAlive, SignalsHitChildren
<1> QED BY <1>1, SupervisorCorrect, PTL

\* The shared regions are destroyed when no child runs on them and the watchdog
\* is gone; after a normal end every child has been reaped.
THEOREM RegionsAreSafe == Spec => []RegionsOutliveChildren
<1>1. ASSUME SupervisorInv
      PROVE  RegionsOutliveChildren
  <2>1. regions = "destroyed" => With("running") = {} /\ watchdog = "ended"
    BY <1>1 DEF SupervisorInv, LeftForAReason, RegionsGoLast, With
  <2>2. mpc \in {"stop", "join", "exited"} => With("reaped") = Children
    BY <1>1 DEF SupervisorInv, LeftForAReason, With
  <2> QED BY <2>1, <2>2 DEF RegionsOutliveChildren
<1> QED BY <1>1, SupervisorCorrect, PTL

=============================================================================
