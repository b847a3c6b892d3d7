---------------------------- MODULE CourierShift ----------------------------
(***************************************************************************)
(* The HW5 CargoGTU shift (main.c): the main thread loads the orders,      *)
(* creates the courier threads, waits for the end of the shift, joins the  *)
(* couriers and writes the summary; couriers take the most urgent order    *)
(* and deliver it; SIGINT, or a failing pthread_create, cancels what is    *)
(* still queued while running deliveries finish.                           *)
(*                                                                         *)
(* A section under queue_lock is one action.  A courier waiting on         *)
(* courier_wakeup_cond is at "waiting" until a broadcast moves it back to  *)
(* "idle", where it tests its predicate again.  The main thread's timed    *)
(* wait may return at any moment (it is 100 ms long).                      *)
(***************************************************************************)
EXTENDS OrderQueue, FiniteSets, FiniteSetsExt

CONSTANTS
    NumCouriers,   \* -n
    Inputs         \* the order files: sequences of valid orders, in file order

ASSUME CourierAssumption ==
    /\ NumCouriers \in Nat \ {0}
    /\ Inputs \subseteq Seq(Order)

Couriers == 1..NumCouriers

DeliveryUnitMs == 500

NoOrder == [id |-> 0, priority |-> 3, duration_units |-> 0]

VARIABLES
    input,       \* the lines of the order file not yet loaded
    queue,       \* pending_order_queue
    validOrders, \* valid_order_count
    mpc,         \* where the main thread is
    created,     \* courier threads created so far
    cpc,         \* [Couriers -> ...]: where a courier is
    carrying,    \* [Couriers -> Order]: its selected_order
    stopping,    \* shift_stopping
    active,      \* active_delivery_count
    sigint,      \* sigint_flag
    completed, cancelled, completedTime,   \* the atomic totals
    stats,       \* courier_stats_list
    summary      \* the file of write_summary_file

queueVars   == <<input, queue, validOrders>>
mainVars    == <<mpc, created, summary>>
courierVars == <<cpc, carrying, stats>>
shiftVars   == <<stopping, active, sigint>>
totalVars   == <<completed, cancelled, completedTime>>
vars == <<queueVars, mainVars, courierVars, shiftVars, totalVars>>

NoSummary == [written |-> FALSE]

Init ==
    /\ input \in Inputs
    /\ queue = <<>> /\ validOrders = 0
    /\ mpc = "load" /\ created = 0
    /\ cpc = [c \in Couriers |-> "none"]
    /\ carrying = [c \in Couriers |-> NoOrder]
    /\ stopping = FALSE /\ active = 0 /\ sigint = FALSE
    /\ completed = 0 /\ cancelled = 0 /\ completedTime = 0
    /\ stats = [c \in Couriers |-> [count |-> 0, time |-> 0]]
    /\ summary = NoSummary

\* Mutant: the broadcast is missing.
WakeNone(pc) == pc

\* pthread_cond_broadcast(&courier_wakeup_cond) applied to a cpc.
WakeAll(pc) == [c \in Couriers |-> IF pc[c] = "waiting" THEN "idle" ELSE pc[c]]

-----------------------------------------------------------------------------
(* Signals                                                                 *)

\* The SIGINT handler only sets the flag, whichever thread runs it.
Sigint ==
    /\ mpc \notin {"exited", "failed"}
    /\ ~sigint
    /\ sigint' = TRUE
    /\ UNCHANGED <<queueVars, mainVars, courierVars, stopping, active, totalVars>>

-----------------------------------------------------------------------------
(* Main thread: start of the shift                                         *)

LoadOrder ==
    /\ mpc = "load" /\ input # <<>>
    /\ queue' = QueuePush(queue, Head(input))
    /\ input' = Tail(input)
    /\ validOrders' = validOrders + 1
    /\ UNCHANGED <<mainVars, courierVars, shiftVars, totalVars>>

LoadEnds ==
    /\ mpc = "load" /\ input = <<>>
    /\ mpc' = "create"
    /\ UNCHANGED <<queueVars, created, summary, courierVars, shiftVars, totalVars>>

\* A failed allocation while loading or before the first courier: clear the
\* queue and exit with EXIT_FAILURE, no summary.
StartupFails ==
    /\ mpc \in {"load", "create"} /\ created = 0
    /\ queue' = <<>>
    /\ mpc' = "failed"
    /\ UNCHANGED <<input, validOrders, created, summary, courierVars, shiftVars,
                   totalVars>>

AllCreated(n) == n = NumCouriers

\* pthread_create: the new courier runs from now on.
CreateCourier ==
    /\ mpc = "create" /\ ~AllCreated(created)
    /\ created' = created + 1
    /\ cpc' = [cpc EXCEPT ![created + 1] = "idle"]
    /\ mpc' = IF AllCreated(created + 1) THEN "wait" ELSE "create"
    /\ UNCHANGED <<queueVars, summary, carrying, stats, shiftVars, totalVars>>

\* Mutant: the dropped orders are not counted.
DropPending ==
    IF stopping
    THEN UNCHANGED <<stopping, cancelled, queue, cpc>>
    ELSE stopping' = TRUE /\ queue' = <<>> /\ cpc' = WakeAll(cpc) /\ UNCHANGED cancelled

\* The body of cancel_pending_orders_after_sigint: nothing when the shift is
\* already stopping; otherwise stop it, cancel every queued order, wake all.
CancelPending ==
    IF stopping
    THEN UNCHANGED <<stopping, cancelled, queue, cpc>>
    ELSE /\ stopping' = TRUE
         /\ cancelled' = cancelled + Len(queue)
         /\ queue' = <<>>
         /\ cpc' = WakeAll(cpc)

\* pthread_create fails: cancel, and go on with the couriers that exist.
CreateFails ==
    /\ mpc = "create" /\ ~AllCreated(created)
    /\ CancelPending
    /\ mpc' = "wait"
    /\ UNCHANGED <<input, validOrders, created, summary, carrying, stats,
                   active, sigint, completed, completedTime>>

-----------------------------------------------------------------------------
(* Main thread: end of the shift                                           *)

ShiftOver == stopping /\ active = 0

\* The loop test of wait_for_shift_to_finish, under queue_lock.
WaitEnds ==
    /\ mpc = "wait" /\ ShiftOver
    /\ mpc' = "join"
    /\ UNCHANGED <<queueVars, created, summary, courierVars, shiftVars, totalVars>>

\* sigint_flag seen: unlock, then cancel under the lock taken again.
WaitSeesSigint ==
    /\ mpc = "wait" /\ ~ShiftOver /\ sigint
    /\ mpc' = "cancel"
    /\ UNCHANGED <<queueVars, created, summary, courierVars, shiftVars, totalVars>>

CancelAfterSigint ==
    /\ mpc = "cancel"
    /\ CancelPending
    /\ mpc' = "wait"
    /\ UNCHANGED <<input, validOrders, created, summary, carrying, stats,
                   active, sigint, completed, completedTime>>

TimedWait ==
    /\ mpc = "wait" /\ ~ShiftOver /\ ~sigint
    /\ mpc' = "timedwait"
    /\ UNCHANGED <<queueVars, created, summary, courierVars, shiftVars, totalVars>>

\* shift_finished_cond signalled, or 100 ms over.
TimedWaitReturns ==
    /\ mpc = "timedwait"
    /\ mpc' = "wait"
    /\ UNCHANGED <<queueVars, created, summary, courierVars, shiftVars, totalVars>>

\* pthread_join of every created courier.
JoinCouriers ==
    /\ mpc = "join"
    /\ \A c \in 1..created : cpc[c] = "over"
    /\ mpc' = "summary"
    /\ UNCHANGED <<queueVars, created, summary, courierVars, shiftVars, totalVars>>

\* write_summary_file (its fopen may fail), then the process ends.
WriteSummary ==
    /\ mpc = "summary"
    /\ \/ summary' = [written |-> TRUE, orders |-> validOrders,
                      completed |-> completed, cancelled |-> cancelled,
                      time |-> completedTime,
                      average |-> IF completed = 0 THEN 0
                                  ELSE completedTime \div completed,
                      stats |-> [c \in 1..created |-> stats[c]]]
       \/ summary' = summary
    /\ mpc' = "exited"
    /\ UNCHANGED <<queueVars, created, courierVars, shiftVars, totalVars>>

-----------------------------------------------------------------------------
(* Courier threads                                                         *)

\* Nothing queued but a delivery is still running: wait.
CourierWaits(c) ==
    /\ cpc[c] = "idle"
    /\ queue = <<>> /\ ~stopping /\ active > 0
    /\ cpc' = [cpc EXCEPT ![c] = "waiting"]
    /\ UNCHANGED <<queueVars, mainVars, carrying, stats, shiftVars, totalVars>>

\* queue_pop of the most urgent order, under the lock.
StartDelivery(c) ==
    /\ cpc[c] = "idle"
    /\ ~stopping /\ queue # <<>>
    /\ carrying' = [carrying EXCEPT ![c] = Head(queue)]
    /\ queue' = Tail(queue)
    /\ active' = active + 1
    /\ cpc' = [cpc EXCEPT ![c] = "delivering"]
    /\ UNCHANGED <<input, validOrders, mainVars, stats, stopping, sigint, totalVars>>

\* Mutant: the queue is not looked at.
NobodyDelivers == active = 0

NothingToDo == queue = <<>> /\ active = 0

\* Shift over for this courier; the first to find nothing queued and nothing
\* running declares the end of the shift.
CourierLeaves(c) ==
    /\ cpc[c] = "idle"
    /\ stopping \/ NothingToDo
    /\ stopping' = TRUE
    /\ cpc' = [(IF stopping THEN cpc ELSE WakeAll(cpc)) EXCEPT ![c] = "over"]
    /\ UNCHANGED <<queueVars, mainVars, carrying, stats, active, sigint, totalVars>>

\* The delivery time is over: the courier's own statistics and the atomic
\* totals, outside the lock (nobody reads them before the couriers are joined).
CountDelivery(c) ==
    /\ cpc[c] = "delivering"
    /\ LET ms == carrying[c].duration_units * DeliveryUnitMs
       IN  /\ stats' = [stats EXCEPT ![c] = [count |-> @.count + 1,
                                             time  |-> @.time + ms]]
           /\ completedTime' = completedTime + ms
    /\ completed' = completed + 1
    /\ cpc' = [cpc EXCEPT ![c] = "delivered"]
    /\ UNCHANGED <<queueVars, mainVars, carrying, shiftVars, cancelled>>

\* Back under the lock: one delivery less; end the shift, or wake the others
\* when orders are queued.
FinishDelivery(c) ==
    /\ cpc[c] = "delivered"
    /\ active' = active - 1
    /\ LET ends == (queue = <<>> /\ active' = 0) \/ stopping
           pc   == IF ends \/ queue # <<>> THEN WakeAll(cpc) ELSE cpc
       IN  /\ stopping' = ends
           /\ cpc' = [pc EXCEPT ![c] = "idle"]
    /\ carrying' = [carrying EXCEPT ![c] = NoOrder]
    /\ UNCHANGED <<queueVars, mainVars, stats, sigint, totalVars>>

-----------------------------------------------------------------------------

Courier(c) == \/ CourierWaits(c) \/ StartDelivery(c) \/ CourierLeaves(c)
              \/ CountDelivery(c) \/ FinishDelivery(c)

Main == \/ LoadOrder \/ LoadEnds \/ StartupFails \/ CreateCourier \/ CreateFails
        \/ WaitEnds \/ WaitSeesSigint \/ CancelAfterSigint
        \/ TimedWait \/ TimedWaitReturns \/ JoinCouriers \/ WriteSummary

Exited == mpc \in {"exited", "failed"} /\ UNCHANGED vars

Next == Sigint \/ Main \/ (\E c \in Couriers : Courier(c)) \/ Exited

Spec == Init /\ [][Next]_vars

\* Every thread that can run eventually runs; SIGINT need not come.
FairSpec == /\ Spec
            /\ WF_vars(Main)
            /\ \A c \in Couriers : WF_vars(Courier(c))

-----------------------------------------------------------------------------
(* Properties                                                              *)

\* Type correctness.
TypeOK ==
    /\ input \in Seq(Order) /\ queue \in Seq(Order)
    /\ validOrders \in Nat
    /\ mpc \in {"load", "create", "wait", "cancel", "timedwait", "join",
                "summary", "exited", "failed"}
    /\ created \in 0..NumCouriers
    /\ cpc \in [Couriers -> {"none", "idle", "waiting", "delivering", "delivered", "over"}]
    /\ carrying \in [Couriers -> Order]
    /\ stopping \in BOOLEAN /\ sigint \in BOOLEAN
    /\ active \in Int
    /\ completed \in Nat /\ cancelled \in Nat /\ completedTime \in Nat
    /\ stats \in [Couriers -> [count : Nat, time : Nat]]

Delivering == {c \in Couriers : cpc[c] = "delivering"}
OnTheRoad  == {c \in Couriers : cpc[c] \in {"delivering", "delivered"}}

\* No order is lost or counted twice: once startup succeeded, every loaded order
\* is queued, on the road, completed or cancelled, and exactly one of these.
OrdersConserved ==
    mpc # "failed" =>
        validOrders = Len(queue) + Cardinality(Delivering) + completed + cancelled

\* No courier sleeps through the end of the shift: a waiting courier always has
\* a delivery on the road whose end will wake it.
WaitersWillBeWoken ==
    \A c \in Couriers : cpc[c] = "waiting" => ~stopping /\ OnTheRoad # {}

\* The queue is always sorted, so a courier takes a most urgent order.
QueueSorted == Sorted(queue)

\* Couriers leave the depot with an order nothing queued outranks, and never
\* after the shift has been stopped.
MostUrgentFirst ==
    [][\A c \in Couriers :
        cpc'[c] = "delivering" /\ cpc[c] # "delivering" =>
            /\ ~stopping
            /\ \A i \in 1..Len(queue) : ~HasHigherPriority(queue[i], carrying'[c])]_vars

\* The summary on disk accounts for every order of the file: at shift end no
\* order is still queued, on the road or forgotten.
SummaryAccountsForAll ==
    summary.written => summary.orders = summary.completed + summary.cancelled

\* The shift always ends, with or without SIGINT.
ShiftEnds == <>(mpc \in {"exited", "failed"})

=============================================================================
