------------------------- MODULE CourierShiftProofs -------------------------
(***************************************************************************)
(* Proofs about CourierShift for any number of couriers and any order      *)
(* files.                                                                  *)
(***************************************************************************)
EXTENDS CourierShift, CountingLemmas

-----------------------------------------------------------------------------
(* The order queue                                                         *)

\* The insertion position lies inside the extended queue; the new order outranks
\* nothing in front of it and outranks the order it is put before.
LEMMA InsertPositionProperty ==
    ASSUME NEW q \in Seq(Order), NEW o \in Order
    PROVE  /\ InsertPosition(q, o) \in 1..(Len(q) + 1)
           /\ \A i \in 1..Len(q) : i < InsertPosition(q, o) => ~HasHigherPriority(o, q[i])
           /\ InsertPosition(q, o) <= Len(q) =>
                HasHigherPriority(o, q[InsertPosition(q, o)])
<1> DEFINE outranked == {i \in 1..Len(q) : HasHigherPriority(o, q[i])}
<1>1. CASE outranked = {}
  BY <1>1 DEF InsertPosition
<1>2. CASE outranked # {}
  <2>1. \E m \in outranked : \A j \in outranked : m <= j
    <3>1. outranked \in SUBSET Nat
      OBVIOUS
    <3> HIDE DEF outranked
    <3> QED BY <3>1, <1>2, LeastNatural
  <2>2. /\ InsertPosition(q, o) \in outranked
        /\ \A j \in outranked : InsertPosition(q, o) <= j
    BY <1>2, <2>1 DEF InsertPosition
  <2> QED BY <2>2
<1> QED BY <1>1, <1>2

\* queue_push yields a queue of orders that is one longer.
LEMMA QueuePushType ==
    ASSUME NEW q \in Seq(Order), NEW o \in Order
    PROVE  /\ QueuePush(q, o) \in Seq(Order)
           /\ Len(QueuePush(q, o)) = Len(q) + 1
BY InsertPositionProperty DEF QueuePush

\* What an order is ranked by.
LEMMA OrderFields == \A x \in Order : x.priority \in Nat /\ x.id \in Nat
BY DEF Order, Priorities

\* queue_push keeps a sorted queue sorted.
LEMMA QueuePushSorted ==
    ASSUME NEW q \in Seq(Order), NEW o \in Order, Sorted(q)
    PROVE  Sorted(QueuePush(q, o))
<1> DEFINE p == InsertPosition(q, o)
           r == QueuePush(q, o)
<1>1. /\ p \in 1..(Len(q) + 1)
      /\ \A i \in 1..Len(q) : i < p => ~HasHigherPriority(o, q[i])
      /\ p <= Len(q) => HasHigherPriority(o, q[p])
  BY InsertPositionProperty
<1>2. /\ Len(r) = Len(q) + 1
      /\ \A i \in 1..Len(r) : r[i] = IF i < p THEN q[i] ELSE IF i = p THEN o ELSE q[i - 1]
  BY QueuePushType DEF QueuePush
<1>3. \A i \in 1..Len(q) : q[i] \in Order
  OBVIOUS
<1> HIDE DEF p, r
<1>4. ASSUME NEW i \in 1..Len(q), p <= i
      PROVE  ~HasHigherPriority(q[i], o)
  <2>1. p \in 1..Len(q) /\ q[p] \in Order /\ q[i] \in Order
    BY <1>1, <1>3, <1>4
  <2>2. HasHigherPriority(o, q[p])
    BY <1>1, <2>1
  <2>3. i = p \/ ~HasHigherPriority(q[i], q[p])
    BY <1>4, <2>1 DEF Sorted
  <2>4. PICK a, b, c \in Order : a = o /\ b = q[p] /\ c = q[i]
    BY <2>1
  <2>5. HasHigherPriority(a, b) /\ (c = b \/ ~HasHigherPriority(c, b))
    BY <2>2, <2>3, <2>4
  <2>6. ~HasHigherPriority(c, a)
    <3>1. PICK ap, bp, cp, ai, bi, ci \in Nat :
             /\ ap = a.priority /\ bp = b.priority /\ cp = c.priority
             /\ ai = a.id /\ bi = b.id /\ ci = c.id
      BY OrderFields, Zenon
    <3>2. /\ IF ap # bp THEN ap < bp ELSE ai < bi
          /\ (cp = bp /\ ci = bi) \/ ~(IF cp # bp THEN cp < bp ELSE ci < bi)
      BY <2>5, <3>1 DEF HasHigherPriority
    <3>3. ~(IF cp # ap THEN cp < ap ELSE ci < ai)
      BY <3>2
    <3> QED BY <3>1, <3>3 DEF HasHigherPriority
  <2> QED BY <2>4, <2>6
<1>5. SUFFICES ASSUME NEW i \in 1..Len(r), NEW j \in 1..Len(r), i < j
               PROVE  ~HasHigherPriority(r[j], r[i])
  BY DEF Sorted, r
<1>6. CASE j < p
  BY <1>1, <1>2, <1>5, <1>6 DEF Sorted
<1>7. CASE j = p
  BY <1>1, <1>2, <1>5, <1>7
<1>8. CASE i = p /\ p < j
  <2>1. r[i] = o /\ r[j] = q[j - 1] /\ j - 1 \in 1..Len(q) /\ p <= j - 1
    BY <1>1, <1>2, <1>5, <1>8
  <2> QED BY <1>4, <2>1
<1>9. CASE i < p /\ p < j
  BY <1>1, <1>2, <1>5, <1>9 DEF Sorted
<1>10. CASE p < i
  <2>1. /\ r[i] = q[i - 1] /\ i - 1 \in 1..Len(q)
        /\ r[j] = q[j - 1] /\ j - 1 \in 1..Len(q)
        /\ i - 1 < j - 1
    BY <1>1, <1>2, <1>5, <1>10
  <2> QED BY <2>1 DEF Sorted
<1> QED BY <1>1, <1>2, <1>6, <1>7, <1>8, <1>9, <1>10

-----------------------------------------------------------------------------
(* Type correctness                                                        *)

\* NoOrder has the type of an order.
LEMMA NoOrderType == NoOrder \in Order
BY DEF NoOrder, Order, Priorities

\* A broadcast keeps the type of cpc, and moves only waiting couriers.
LEMMA WakeAllType ==
    ASSUME TypeOK
    PROVE  WakeAll(cpc) \in [Couriers -> {"none", "idle", "waiting", "delivering",
                                         "delivered", "over"}]
BY DEF TypeOK, WakeAll

\* Cancelling keeps the types of what it changes.
LEMMA CancelPendingType ==
    ASSUME TypeOK, CancelPending
    PROVE  /\ queue' \in Seq(Order)
           /\ stopping' \in BOOLEAN
           /\ cancelled' \in Nat
           /\ cpc' \in [Couriers -> {"none", "idle", "waiting", "delivering",
                                     "delivered", "over"}]
<1>1. CASE stopping
  <2>1. UNCHANGED <<stopping, cancelled, queue, cpc>>
    BY <1>1 DEF CancelPending
  <2> QED BY <2>1 DEF TypeOK
<1>2. CASE ~stopping
  <2>1. /\ stopping' = TRUE
        /\ cancelled' = cancelled + Len(queue)
        /\ queue' = <<>>
        /\ cpc' = WakeAll(cpc)
    BY <1>2 DEF CancelPending
  <2>2. cancelled' \in Nat
    BY <2>1 DEF TypeOK
  <2>3. queue' \in Seq(Order)
    BY <2>1
  <2> QED BY <2>1, <2>2, <2>3, WakeAllType
<1> QED BY <1>1, <1>2

\* Every action of CourierShift preserves the types.
LEMMA TypeStep == TypeOK /\ [Next]_vars => TypeOK'
<1> SUFFICES ASSUME TypeOK, [Next]_vars
             PROVE  TypeOK'
  OBVIOUS
<1> USE CourierAssumption, NoOrderType
<1>1. CASE Sigint
  BY <1>1 DEF TypeOK, Sigint, queueVars, mainVars, courierVars, totalVars
<1>2. CASE Main
  <2>1. CASE LoadOrder
    <3>1. Head(input) \in Order /\ Tail(input) \in Seq(Order)
      BY <2>1 DEF TypeOK, LoadOrder
    <3>2. QueuePush(queue, Head(input)) \in Seq(Order)
      BY <3>1, QueuePushType DEF TypeOK
    <3> QED BY <2>1, <3>1, <3>2 DEF TypeOK, LoadOrder, mainVars, courierVars,
            shiftVars, totalVars
  <2>2. CASE LoadEnds
    BY <2>2 DEF TypeOK, LoadEnds, queueVars, courierVars, shiftVars, totalVars
  <2>3. CASE StartupFails
    BY <2>3 DEF TypeOK, StartupFails, courierVars, shiftVars, totalVars
  <2>4. CASE CreateCourier
    BY <2>4 DEF TypeOK, CreateCourier, AllCreated, Couriers, queueVars, shiftVars, totalVars
  <2>5. CASE CreateFails
    BY <2>5, CancelPendingType DEF TypeOK, CreateFails
  <2>6. CASE WaitEnds
    BY <2>6 DEF TypeOK, WaitEnds, queueVars, courierVars, shiftVars, totalVars
  <2>7. CASE WaitSeesSigint
    BY <2>7 DEF TypeOK, WaitSeesSigint, queueVars, courierVars, shiftVars, totalVars
  <2>8. CASE CancelAfterSigint
    BY <2>8, CancelPendingType DEF TypeOK, CancelAfterSigint
  <2>9. CASE TimedWait
    BY <2>9 DEF TypeOK, TimedWait, queueVars, courierVars, shiftVars, totalVars
  <2>10. CASE TimedWaitReturns
    BY <2>10 DEF TypeOK, TimedWaitReturns, queueVars, courierVars, shiftVars, totalVars
  <2>11. CASE JoinCouriers
    BY <2>11 DEF TypeOK, JoinCouriers, queueVars, courierVars, shiftVars, totalVars
  <2>12. CASE WriteSummary
    BY <2>12 DEF TypeOK, WriteSummary, queueVars, courierVars, shiftVars, totalVars
  <2> QED BY <1>2, <2>1, <2>2, <2>3, <2>4, <2>5, <2>6, <2>7, <2>8, <2>9, <2>10,
             <2>11, <2>12 DEF Main
<1>3. ASSUME NEW c \in Couriers, Courier(c)
      PROVE  TypeOK'
  <2>1. CASE CourierWaits(c)
    BY <2>1 DEF TypeOK, CourierWaits, queueVars, mainVars, shiftVars, totalVars
  <2>2. CASE StartDelivery(c)
    <3>1. Head(queue) \in Order /\ Tail(queue) \in Seq(Order)
      BY <2>2 DEF TypeOK, StartDelivery
    <3> QED BY <2>2, <3>1 DEF TypeOK, StartDelivery, mainVars, totalVars
  <2>3. CASE CourierLeaves(c)
    BY <2>3, WakeAllType DEF TypeOK, CourierLeaves, queueVars, mainVars, totalVars
  <2>4. CASE CountDelivery(c)
    <3>1. carrying[c].duration_units * DeliveryUnitMs \in Nat
      BY DEF TypeOK, Order, DeliveryUnitMs
    <3>2. PICK ms \in Nat : ms = carrying[c].duration_units * DeliveryUnitMs
      BY <3>1
    <3>3. /\ stats' = [stats EXCEPT ![c] = [count |-> stats[c].count + 1, time |-> stats[c].time + ms]]
          /\ completedTime' = completedTime + ms /\ completed' = completed + 1
          /\ cpc' = [cpc EXCEPT ![c] = "delivered"]
          /\ UNCHANGED <<queueVars, mainVars, carrying, shiftVars, cancelled>>
      BY <2>4, <3>2 DEF CountDelivery
    <3>4. stats' \in [Couriers -> [count : Nat, time : Nat]]
      <4>1. stats \in [Couriers -> [count : Nat, time : Nat]] /\ stats[c] \in [count : Nat, time : Nat]
        BY DEF TypeOK
      <4>2. PICK new \in [count : Nat, time : Nat] :
               new = [count |-> stats[c].count + 1, time |-> stats[c].time + ms]
        <5>1. PICK k, t \in Nat : k = stats[c].count /\ t = stats[c].time
          BY <4>1
        <5>2. [count |-> k + 1, time |-> t + ms] \in [count : Nat, time : Nat]
          BY <3>2
        <5> QED BY <5>1, <5>2
      <4>3. stats' = [stats EXCEPT ![c] = new]
        BY <3>3, <4>2
      <4> QED BY <4>1, <4>3
    <3>5. completedTime' \in Nat /\ completed' \in Nat
      BY <3>2, <3>3 DEF TypeOK
    <3>6. /\ cpc' = [cpc EXCEPT ![c] = "delivered"]
          /\ UNCHANGED <<input, queue, validOrders, mpc, created, carrying, stopping, sigint, active, cancelled>>
      BY <3>3 DEF queueVars, mainVars, shiftVars
    <3> QED BY <3>4, <3>5, <3>6 DEF TypeOK
  <2>5. CASE FinishDelivery(c)
    BY <2>5, WakeAllType DEF TypeOK, FinishDelivery, queueVars, mainVars, totalVars
  <2> QED BY <1>3, <2>1, <2>2, <2>3, <2>4, <2>5 DEF Courier
<1>4. CASE Exited \/ UNCHANGED vars
  BY <1>4 DEF TypeOK, Exited, vars, queueVars, mainVars, courierVars, shiftVars, totalVars
<1> QED BY <1>1, <1>2, <1>3, <1>4 DEF Next

\* The initial states have the right types.
LEMMA TypeInit == Init => TypeOK
<1> SUFFICES ASSUME Init PROVE TypeOK
  OBVIOUS
<1>1. input \in Seq(Order) /\ queue \in Seq(Order)
  BY CourierAssumption DEF Init
<1>2. created \in 0..NumCouriers
  BY CourierAssumption DEF Init
<1>3. carrying \in [Couriers -> Order]
  BY NoOrderType DEF Init
<1>4. stats \in [Couriers -> [count : Nat, time : Nat]]
  BY DEF Init
<1>5. cpc \in [Couriers -> {"none", "idle", "waiting", "delivering", "delivered", "over"}]
  BY DEF Init
<1>6. /\ validOrders \in Nat /\ active \in Int
      /\ completed \in Nat /\ cancelled \in Nat /\ completedTime \in Nat
  BY DEF Init
<1>7. stopping \in BOOLEAN /\ sigint \in BOOLEAN
  BY DEF Init
<1>8. mpc \in {"load", "create", "wait", "cancel", "timedwait", "join",
              "summary", "exited", "failed"}
  BY DEF Init
<1> QED BY <1>1, <1>2, <1>3, <1>4, <1>5, <1>6, <1>7, <1>8 DEF TypeOK

\* Every reachable state of a shift is type-correct.
THEOREM TypeCorrect == Spec => []TypeOK
BY TypeInit, TypeStep, PTL DEF Spec

-----------------------------------------------------------------------------
(* Couriers on the road                                                    *)

\* A courier thread that does not exist yet is nowhere.
NotYetCreated == \A c \in Couriers : c > created => cpc[c] = "none"

\* The main thread leaves its wait only at the end of the shift, and the shift
\* does not start again.
EndedIsOver == mpc \in {"join", "summary", "exited"} => ShiftOver

\* active_delivery_count is the number of couriers on the road.
ActiveIsExact == active = Cardinality(OnTheRoad)

\* Once the shift is stopping nothing is queued any more: what was not
\* delivered has been cancelled, so no order is left behind at shift end.
StoppingLeavesNothing == stopping => queue = <<>>

\* The two sets of couriers the counters are about are finite.
LEMMA RoadFinite ==
    /\ IsFiniteSet(Couriers)
    /\ IsFiniteSet(OnTheRoad) /\ Cardinality(OnTheRoad) \in Nat
    /\ IsFiniteSet(Delivering) /\ Cardinality(Delivering) \in Nat
<1>1. IsFiniteSet(Couriers)
  BY CourierAssumption, FS_Interval DEF Couriers
<1>2. OnTheRoad \in SUBSET Couriers /\ Delivering \in SUBSET Couriers
  BY DEF OnTheRoad, Delivering
<1> QED BY <1>1, <1>2, FS_Subset, FS_CardinalityType

\* How a step moves couriers: only StartDelivery puts one on the road, only
\* CountDelivery ends a delivery and only FinishDelivery takes one off.
LEMMA RoadStep ==
    ASSUME TypeOK, NotYetCreated, [Next]_vars
    PROVE  \/ /\ UNCHANGED <<active, completed>>
              /\ OnTheRoad' = OnTheRoad /\ Delivering' = Delivering
           \/ \E c \in Couriers :
                /\ StartDelivery(c)
                /\ c \notin OnTheRoad /\ OnTheRoad' = OnTheRoad \cup {c}
                /\ c \notin Delivering /\ Delivering' = Delivering \cup {c}
           \/ \E c \in Couriers :
                /\ CountDelivery(c)
                /\ OnTheRoad' = OnTheRoad
                /\ c \in Delivering /\ Delivering' = Delivering \ {c}
           \/ \E c \in Couriers :
                /\ FinishDelivery(c)
                /\ c \in OnTheRoad /\ OnTheRoad' = OnTheRoad \ {c}
                /\ Delivering' = Delivering
<1> DEFINE Same == /\ UNCHANGED <<active, completed>>
                   /\ OnTheRoad' = OnTheRoad /\ Delivering' = Delivering
<1>a. ASSUME cpc' = cpc \/ cpc' = WakeAll(cpc)
      PROVE  OnTheRoad' = OnTheRoad /\ Delivering' = Delivering
  BY <1>a DEF OnTheRoad, Delivering, WakeAll, TypeOK
<1>1. CASE Sigint
  <2>1. UNCHANGED <<active, completed, cpc>>
    BY <1>1 DEF Sigint, courierVars, totalVars
  <2> QED BY <1>a, <2>1
<1>2. CASE Main
  <2>1. CASE CreateCourier
    <3>1. created + 1 \in Couriers /\ cpc[created + 1] = "none"
      BY <2>1, CourierAssumption DEF CreateCourier, AllCreated, NotYetCreated, TypeOK, Couriers
    <3>2. cpc' = [cpc EXCEPT ![created + 1] = "idle"] /\ UNCHANGED <<active, completed>>
      BY <2>1 DEF CreateCourier, shiftVars, totalVars
    <3>3. OnTheRoad' = OnTheRoad /\ Delivering' = Delivering
      BY <3>1, <3>2 DEF OnTheRoad, Delivering, TypeOK
    <3> QED BY <3>2, <3>3
  <2>2. CASE CreateFails \/ CancelAfterSigint
    <3>1. UNCHANGED <<active, completed>> /\ (cpc' = cpc \/ cpc' = WakeAll(cpc))
      BY <2>2 DEF CreateFails, CancelAfterSigint, CancelPending
    <3> QED BY <1>a, <3>1
  <2>3. CASE LoadOrder \/ LoadEnds \/ StartupFails \/ WaitEnds \/ WaitSeesSigint
             \/ TimedWait \/ TimedWaitReturns \/ JoinCouriers \/ WriteSummary
    <3>1. UNCHANGED <<active, completed, cpc>>
      BY <2>3 DEF LoadOrder, LoadEnds, StartupFails, WaitEnds, WaitSeesSigint,
                  TimedWait, TimedWaitReturns, JoinCouriers, WriteSummary,
                  courierVars, shiftVars, totalVars
    <3> QED BY <1>a, <3>1
  <2> QED BY <1>2, <2>1, <2>2, <2>3 DEF Main
<1>3. ASSUME NEW c \in Couriers, CourierWaits(c) \/ CourierLeaves(c)
      PROVE  Same
  <2>1. UNCHANGED <<active, completed>>
    BY <1>3 DEF CourierWaits, CourierLeaves, shiftVars, totalVars
  <2>2. cpc[c] = "idle"
    BY <1>3 DEF CourierWaits, CourierLeaves
  <2>3. \/ cpc' = [cpc EXCEPT ![c] = "waiting"]
        \/ cpc' = [cpc EXCEPT ![c] = "over"]
        \/ cpc' = [WakeAll(cpc) EXCEPT ![c] = "over"]
    BY <1>3 DEF CourierWaits, CourierLeaves
  <2>4. \A d \in Couriers : d # c => cpc'[d] = cpc[d] \/ (cpc[d] = "waiting" /\ cpc'[d] = "idle")
    BY <2>3 DEF WakeAll, TypeOK
  <2>5. cpc'[c] \in {"waiting", "over"}
    BY <2>3 DEF WakeAll, TypeOK
  <2>6. OnTheRoad' = OnTheRoad /\ Delivering' = Delivering
    BY <2>2, <2>4, <2>5 DEF OnTheRoad, Delivering
  <2> QED BY <2>1, <2>6
<1>4. ASSUME NEW c \in Couriers, StartDelivery(c)
      PROVE  /\ c \notin OnTheRoad /\ OnTheRoad' = OnTheRoad \cup {c}
             /\ c \notin Delivering /\ Delivering' = Delivering \cup {c}
  BY <1>4 DEF StartDelivery, OnTheRoad, Delivering, TypeOK
<1>5. ASSUME NEW c \in Couriers, CountDelivery(c)
      PROVE  /\ OnTheRoad' = OnTheRoad
             /\ c \in Delivering /\ Delivering' = Delivering \ {c}
  BY <1>5 DEF CountDelivery, OnTheRoad, Delivering, TypeOK
<1>6. ASSUME NEW c \in Couriers, FinishDelivery(c)
      PROVE  /\ c \in OnTheRoad /\ OnTheRoad' = OnTheRoad \ {c}
             /\ Delivering' = Delivering
  <2>1. cpc[c] = "delivered"
    BY <1>6 DEF FinishDelivery
  <2>2. \/ cpc' = [cpc EXCEPT ![c] = "idle"]
        \/ cpc' = [WakeAll(cpc) EXCEPT ![c] = "idle"]
    BY <1>6 DEF FinishDelivery
  <2>3. \A d \in Couriers : d # c => cpc'[d] = cpc[d] \/ (cpc[d] = "waiting" /\ cpc'[d] = "idle")
    BY <2>2 DEF WakeAll, TypeOK
  <2>4. cpc'[c] = "idle"
    BY <2>2 DEF WakeAll, TypeOK
  <2> QED BY <2>1, <2>3, <2>4 DEF OnTheRoad, Delivering
<1>7. CASE Exited \/ UNCHANGED vars
  <2>1. UNCHANGED <<active, completed, cpc>>
    BY <1>7 DEF Exited, vars, courierVars, shiftVars, totalVars
  <2> QED BY <1>a, <2>1
<1> QED BY <1>1, <1>2, <1>3, <1>4, <1>5, <1>6, <1>7, Zenon DEF Next, Courier

\* A step never takes a courier out of "none" except by creating it.
LEMMA NotYetCreatedStep ==
    ASSUME TypeOK, NotYetCreated, [Next]_vars
    PROVE  NotYetCreated'
<1> SUFFICES ASSUME NEW d \in Couriers, d > created'
             PROVE  cpc'[d] = "none"
  BY DEF NotYetCreated
<1>1. CASE CreateCourier
  <2>1. d > created /\ d # created + 1 /\ cpc' = [cpc EXCEPT ![created + 1] = "idle"]
    BY <1>1, CourierAssumption DEF CreateCourier, AllCreated, TypeOK, Couriers
  <2> QED BY <2>1 DEF NotYetCreated, TypeOK
<1>2. CASE CreateFails \/ CancelAfterSigint
  <2>1. created' = created /\ (cpc' = cpc \/ cpc' = WakeAll(cpc))
    BY <1>2 DEF CreateFails, CancelAfterSigint, CancelPending
  <2> QED BY <2>1 DEF NotYetCreated, WakeAll
<1>3. CASE UNCHANGED <<created, cpc>>
  BY <1>3 DEF NotYetCreated
<1>4. ASSUME NEW c \in Couriers, Courier(c)
      PROVE  cpc'[d] = "none"
  <2>1. created' = created /\ cpc[c] # "none"
    BY <1>4 DEF Courier, CourierWaits, StartDelivery, CourierLeaves, CountDelivery,
                FinishDelivery, mainVars
  <2>2. cpc[d] = "none" /\ d # c
    BY <2>1 DEF NotYetCreated
  <2>3. \E v : cpc' = [cpc EXCEPT ![c] = v] \/ cpc' = [WakeAll(cpc) EXCEPT ![c] = v]
    BY <1>4 DEF Courier, CourierWaits, StartDelivery, CourierLeaves, CountDelivery,
                FinishDelivery
  <2> QED BY <2>2, <2>3 DEF WakeAll, TypeOK
<1>5. Sigint \/ LoadOrder \/ LoadEnds \/ StartupFails \/ WaitEnds \/ WaitSeesSigint
      \/ TimedWait \/ TimedWaitReturns \/ JoinCouriers \/ WriteSummary \/ Exited
      \/ UNCHANGED vars => UNCHANGED <<created, cpc>>
  BY DEF Sigint, LoadOrder, LoadEnds, StartupFails, WaitEnds, WaitSeesSigint, TimedWait,
         TimedWaitReturns, JoinCouriers, WriteSummary, Exited, vars, mainVars, courierVars
<1> QED BY <1>1, <1>2, <1>3, <1>4, <1>5 DEF Next, Main

\* active_delivery_count follows the couriers on the road, step by step.
LEMMA ActiveStep ==
    ASSUME TypeOK, NotYetCreated, ActiveIsExact, [Next]_vars
    PROVE  ActiveIsExact'
<1>1. CASE UNCHANGED active /\ OnTheRoad' = OnTheRoad
  BY <1>1 DEF ActiveIsExact
<1>2. ASSUME NEW c \in Couriers, StartDelivery(c), c \notin OnTheRoad,
             OnTheRoad' = OnTheRoad \cup {c}
      PROVE  ActiveIsExact'
  <2>1. active' = active + 1
    BY <1>2 DEF StartDelivery
  <2>2. Cardinality(OnTheRoad \cup {c}) = Cardinality(OnTheRoad) + 1
    BY <1>2, RoadFinite, FS_AddElement
  <2> QED BY <1>2, <2>1, <2>2 DEF ActiveIsExact
<1>3. ASSUME NEW c \in Couriers, FinishDelivery(c), c \in OnTheRoad,
             OnTheRoad' = OnTheRoad \ {c}
      PROVE  ActiveIsExact'
  <2>1. active' = active - 1
    BY <1>3 DEF FinishDelivery
  <2>2. Cardinality(OnTheRoad \ {c}) = Cardinality(OnTheRoad) - 1
    BY <1>3, RoadFinite, FS_RemoveElement
  <2> QED BY <1>3, <2>1, <2>2 DEF ActiveIsExact
<1>4. ASSUME NEW c \in Couriers, CountDelivery(c)
      PROVE  UNCHANGED active
  BY <1>4 DEF CountDelivery, shiftVars
<1> QED BY <1>1, <1>2, <1>3, <1>4, RoadStep

\* The counter is zero exactly when nobody is on the road.
LEMMA NobodyOnTheRoad ==
    ASSUME ActiveIsExact
    PROVE  /\ active \in Nat
           /\ active = 0 <=> OnTheRoad = {}
BY RoadFinite, FS_EmptySet DEF ActiveIsExact

-----------------------------------------------------------------------------
(* The shift                                                               *)

\* While the file is being loaded no courier exists and nothing stops.
LoadingIsQuiet == mpc = "load" => created = 0 /\ ~stopping

\* The inductive invariant.  ActiveIsExact ties the counter that ends the
\* shift to the couriers; NotYetCreated and LoadingIsQuiet keep couriers away
\* from a queue that is still growing; EndedIsOver carries the end of the shift
\* over the unlocked join to the summary.
ShiftInv ==
    /\ TypeOK
    /\ NotYetCreated
    /\ LoadingIsQuiet
    /\ ActiveIsExact
    /\ StoppingLeavesNothing
    /\ EndedIsOver
    /\ WaitersWillBeWoken
    /\ OrdersConserved
    /\ SummaryAccountsForAll

\* Where the main thread and the stop flag can go in one step.
LEMMA MainStep ==
    ASSUME TypeOK, [Next]_vars
    PROVE  /\ stopping => stopping'
           /\ mpc' = "load" => mpc = "load"
           /\ mpc = "failed" => mpc' = "failed"
           /\ mpc' \in {"join", "summary", "exited"} =>
                mpc \in {"join", "summary", "exited"} \/ WaitEnds
<1>1. CASE Sigint
  BY <1>1 DEF Sigint, mainVars
<1>2. CASE CancelPending /\ mpc \in {"create", "cancel"} /\ mpc' = "wait"
  BY <1>2 DEF CancelPending
<1>3. CASE LoadOrder \/ LoadEnds \/ StartupFails \/ CreateCourier \/ WaitEnds
           \/ WaitSeesSigint \/ TimedWait \/ TimedWaitReturns \/ JoinCouriers
           \/ WriteSummary
  <2>1. UNCHANGED stopping
    BY <1>3 DEF LoadOrder, LoadEnds, StartupFails, CreateCourier, WaitEnds,
           WaitSeesSigint, TimedWait, TimedWaitReturns, JoinCouriers, WriteSummary,
           shiftVars
  <2>2. mpc' = "load" => mpc = "load"
    BY <1>3 DEF LoadOrder, LoadEnds, StartupFails, CreateCourier, WaitEnds,
           WaitSeesSigint, TimedWait, TimedWaitReturns, JoinCouriers, WriteSummary,
           mainVars
  <2>3. mpc = "failed" => mpc' = "failed"
    BY <1>3 DEF LoadOrder, LoadEnds, StartupFails, CreateCourier, WaitEnds,
           WaitSeesSigint, TimedWait, TimedWaitReturns, JoinCouriers, WriteSummary,
           mainVars
  <2>4. mpc' \in {"join", "summary", "exited"} =>
                mpc \in {"join", "summary", "exited"} \/ WaitEnds
    BY <1>3 DEF LoadOrder, LoadEnds, StartupFails, CreateCourier,
           WaitSeesSigint, TimedWait, TimedWaitReturns, JoinCouriers, WriteSummary,
           mainVars
  <2> QED BY <2>1, <2>2, <2>3, <2>4
<1>4. ASSUME NEW c \in Couriers, Courier(c)
      PROVE  UNCHANGED mpc /\ (stopping => stopping')
  <2>1. UNCHANGED mpc
    BY <1>4 DEF Courier, CourierWaits, StartDelivery, CourierLeaves, CountDelivery,
                FinishDelivery, mainVars
  <2>2. stopping => stopping'
    BY <1>4 DEF Courier, CourierWaits, StartDelivery, CourierLeaves, CountDelivery,
                FinishDelivery, shiftVars
  <2> QED BY <2>1, <2>2
<1>5. CASE Exited \/ UNCHANGED vars
  BY <1>5 DEF Exited, vars, mainVars, shiftVars
<1>6. CreateFails \/ CancelAfterSigint =>
        CancelPending /\ mpc \in {"create", "cancel"} /\ mpc' = "wait"
  BY DEF CreateFails, CancelAfterSigint
<1> QED BY <1>1, <1>2, <1>3, <1>4, <1>5, <1>6 DEF Next, Main

\* A courier that acts exists, so the file has been loaded.
LEMMA CourierAfterLoad ==
    ASSUME TypeOK, NotYetCreated, LoadingIsQuiet, NEW c \in Couriers, Courier(c)
    PROVE  mpc # "load"
<1>1. cpc[c] # "none"
  BY DEF Courier, CourierWaits, StartDelivery, CourierLeaves, CountDelivery,
         FinishDelivery
<1>2. c > 0
  BY DEF Couriers
<1> QED BY <1>1, <1>2 DEF NotYetCreated, LoadingIsQuiet

\* Loading stays quiet.
LEMMA LoadingStep ==
    ASSUME TypeOK, NotYetCreated, LoadingIsQuiet, [Next]_vars
    PROVE  LoadingIsQuiet'
<1> SUFFICES ASSUME mpc' = "load"
             PROVE  created' = 0 /\ ~stopping'
  BY DEF LoadingIsQuiet
<1>1. mpc = "load"
  BY MainStep
<1>2. created = 0 /\ ~stopping
  BY <1>1 DEF LoadingIsQuiet
<1>3. \A c \in Couriers : ~Courier(c)
  BY <1>1, CourierAfterLoad
<1>4. Sigint \/ LoadOrder \/ Exited \/ UNCHANGED vars => UNCHANGED <<created, stopping>>
  BY DEF Sigint, LoadOrder, Exited, vars, mainVars, shiftVars
<1>5. ~LoadEnds /\ ~StartupFails /\ ~CreateCourier /\ ~CreateFails /\ ~WaitEnds
      /\ ~WaitSeesSigint /\ ~CancelAfterSigint /\ ~TimedWait /\ ~TimedWaitReturns
      /\ ~JoinCouriers /\ ~WriteSummary
  BY <1>1 DEF LoadEnds, StartupFails, CreateCourier, CreateFails, WaitEnds,
     WaitSeesSigint, CancelAfterSigint, TimedWait, TimedWaitReturns, JoinCouriers,
     WriteSummary
<1> QED BY <1>2, <1>3, <1>4, <1>5 DEF Next, Main

\* The stop flag is only raised over an empty queue, and nothing is queued
\* afterwards.
LEMMA StoppingStep ==
    ASSUME TypeOK, NotYetCreated, LoadingIsQuiet, StoppingLeavesNothing, [Next]_vars
    PROVE  StoppingLeavesNothing'
<1>1. CASE LoadOrder
  <2>1. ~stopping /\ stopping' = stopping
    BY <1>1 DEF LoadOrder, LoadingIsQuiet, shiftVars
  <2> QED BY <2>1 DEF StoppingLeavesNothing
<1>2. CASE StartupFails
  BY <1>2 DEF StartupFails, StoppingLeavesNothing
<1>3. CASE CancelPending
  BY <1>3 DEF CancelPending, StoppingLeavesNothing
<1>4. CASE UNCHANGED <<queue, stopping>>
  BY <1>4 DEF StoppingLeavesNothing
<1>5. ASSUME NEW c \in Couriers, Courier(c)
      PROVE  StoppingLeavesNothing'
  <2>1. CASE StartDelivery(c)
    <3>1. ~stopping /\ stopping' = stopping
      BY <2>1 DEF StartDelivery
    <3> QED BY <3>1 DEF StoppingLeavesNothing
  <2>2. CASE CourierLeaves(c)
    <3>1. queue' = queue /\ queue = <<>>
      BY <2>2 DEF CourierLeaves, NothingToDo, queueVars, StoppingLeavesNothing
    <3> QED BY <3>1 DEF StoppingLeavesNothing
  <2>3. CASE FinishDelivery(c)
    <3>1. queue' = queue /\ (stopping' => queue = <<>>)
      BY <2>3 DEF FinishDelivery, queueVars, StoppingLeavesNothing
    <3> QED BY <3>1 DEF StoppingLeavesNothing
  <2>4. CASE CourierWaits(c) \/ CountDelivery(c)
    BY <1>4, <2>4 DEF CourierWaits, CountDelivery, queueVars, shiftVars
  <2> QED BY <1>5, <2>1, <2>2, <2>3, <2>4 DEF Courier
<1>6. Sigint \/ LoadEnds \/ CreateCourier \/ WaitEnds \/ WaitSeesSigint \/ TimedWait
      \/ TimedWaitReturns \/ JoinCouriers \/ WriteSummary \/ Exited
      \/ UNCHANGED vars => UNCHANGED <<queue, stopping>>
  BY DEF Sigint, LoadEnds, CreateCourier, WaitEnds, WaitSeesSigint, TimedWait,
         TimedWaitReturns, JoinCouriers, WriteSummary, Exited, vars, queueVars, shiftVars
<1>7. CreateFails \/ CancelAfterSigint => CancelPending
  BY DEF CreateFails, CancelAfterSigint
<1> QED BY <1>1, <1>2, <1>3, <1>4, <1>5, <1>6, <1>7 DEF Next, Main

\* Once the main thread has left its wait, the shift stays over.
LEMMA EndedStep ==
    ASSUME TypeOK, NotYetCreated, ActiveIsExact, EndedIsOver, [Next]_vars
    PROVE  EndedIsOver'
<1> SUFFICES ASSUME mpc' \in {"join", "summary", "exited"}
             PROVE  ShiftOver'
  BY DEF EndedIsOver
<1>1. ShiftOver
  BY MainStep DEF EndedIsOver, WaitEnds
<1>2. stopping /\ active = 0 /\ stopping'
  BY <1>1, MainStep DEF ShiftOver
<1>3. \A c \in Couriers : ~StartDelivery(c)
  BY <1>2 DEF StartDelivery
<1>4. OnTheRoad = {}
  BY <1>2, NobodyOnTheRoad
<1>5. \A c \in Couriers : ~CountDelivery(c) /\ ~FinishDelivery(c)
  BY <1>4 DEF CountDelivery, FinishDelivery, OnTheRoad
<1>6. active' = active
  BY <1>3, <1>5, RoadStep
<1> QED BY <1>2, <1>6 DEF ShiftOver

\* A waiting courier keeps somebody on the road; who leaves last wakes it.
LEMMA WaitersStep ==
    ASSUME TypeOK, NotYetCreated, ActiveIsExact, WaitersWillBeWoken, [Next]_vars
    PROVE  WaitersWillBeWoken'
<1> SUFFICES ASSUME NEW d \in Couriers, cpc'[d] = "waiting"
             PROVE  ~stopping' /\ OnTheRoad' # {}
  BY DEF WaitersWillBeWoken
<1>1. CASE UNCHANGED <<stopping, cpc>>
  <2>1. ~stopping /\ OnTheRoad # {}
    BY <1>1 DEF WaitersWillBeWoken
  <2> QED BY <1>1, <2>1 DEF OnTheRoad
<1>2. CASE CreateCourier
  <2>1. stopping' = stopping /\ cpc' = [cpc EXCEPT ![created + 1] = "idle"]
    BY <1>2 DEF CreateCourier, shiftVars
  <2>2. cpc[d] = "waiting"
    BY <2>1 DEF TypeOK
  <2>3. ~stopping /\ OnTheRoad # {}
    BY <2>2 DEF WaitersWillBeWoken
  <2>4. ~StartDelivery(d) /\ OnTheRoad' = OnTheRoad
    <3>1. created + 1 \in Couriers /\ cpc[created + 1] = "none"
      BY <1>2, CourierAssumption DEF CreateCourier, AllCreated, NotYetCreated, TypeOK, Couriers
    <3>2. ~StartDelivery(d)
      BY <2>2 DEF StartDelivery
    <3> QED BY <2>1, <3>1, <3>2 DEF OnTheRoad, TypeOK
  <2> QED BY <2>1, <2>3, <2>4
<1>3. CASE CancelPending
  <2>1. CASE stopping
    BY <1>1, <1>3, <2>1 DEF CancelPending
  <2>2. CASE ~stopping
    BY <1>3, <2>2 DEF CancelPending, WakeAll
  <2> QED BY <2>1, <2>2
<1>4. ASSUME NEW c \in Couriers, Courier(c)
      PROVE  ~stopping' /\ OnTheRoad' # {}
  <2>1. CASE CourierWaits(c)
    <3>1. ~stopping' /\ active > 0 /\ active' = active
      BY <2>1 DEF CourierWaits, shiftVars
    <3>2. ActiveIsExact'
      BY ActiveStep
    <3>3. active' # 0
      BY <3>1, NobodyOnTheRoad
    <3>4. Cardinality(OnTheRoad') # 0
      BY <3>2, <3>3 DEF ActiveIsExact
    <3> QED BY <3>1, <3>4, FS_EmptySet
  <2>2. CASE StartDelivery(c)
    <3>1. ~stopping' /\ cpc'[c] = "delivering"
      BY <2>2 DEF StartDelivery, TypeOK
    <3> QED BY <3>1 DEF OnTheRoad
  <2>3. CASE CourierLeaves(c)
    <3>1. stopping \/ cpc' = [WakeAll(cpc) EXCEPT ![c] = "over"]
      BY <2>3 DEF CourierLeaves
    <3>2. cpc' # [WakeAll(cpc) EXCEPT ![c] = "over"]
      BY DEF WakeAll, TypeOK
    <3>3. stopping /\ cpc' = [cpc EXCEPT ![c] = "over"]
      BY <2>3, <3>1, <3>2 DEF CourierLeaves
    <3>4. cpc[d] = "waiting"
      BY <3>3 DEF TypeOK
    <3> QED BY <3>3, <3>4 DEF WaitersWillBeWoken
  <2>4. CASE CountDelivery(c)
    <3>1. stopping' = stopping /\ cpc' = [cpc EXCEPT ![c] = "delivered"]
      BY <2>4 DEF CountDelivery, shiftVars
    <3>2. cpc[d] = "waiting" /\ cpc'[c] = "delivered"
      BY <3>1 DEF TypeOK
    <3> QED BY <3>1, <3>2 DEF WaitersWillBeWoken, OnTheRoad
  <2>5. CASE FinishDelivery(c)
    <3>1. cpc' # [WakeAll(cpc) EXCEPT ![c] = "idle"]
      BY DEF WakeAll, TypeOK
    <3>2. /\ ~stopping' /\ ~(queue = <<>> /\ active' = 0)
          /\ queue = <<>>
      BY <2>5, <3>1 DEF FinishDelivery
    <3>3. active' # 0
      BY <3>2
    <3>4. Cardinality(OnTheRoad') # 0
      BY <3>3, ActiveStep DEF ActiveIsExact
    <3> QED BY <3>2, <3>4, FS_EmptySet
  <2> QED BY <1>4, <2>1, <2>2, <2>3, <2>4, <2>5 DEF Courier
<1>5. Sigint \/ LoadOrder \/ LoadEnds \/ StartupFails \/ WaitEnds \/ WaitSeesSigint
      \/ TimedWait \/ TimedWaitReturns \/ JoinCouriers \/ WriteSummary \/ Exited
      \/ UNCHANGED vars => UNCHANGED <<stopping, cpc>>
  BY DEF Sigint, LoadOrder, LoadEnds, StartupFails, WaitEnds, WaitSeesSigint, TimedWait,
         TimedWaitReturns, JoinCouriers, WriteSummary, Exited, vars, courierVars, shiftVars
<1>6. CreateFails \/ CancelAfterSigint => CancelPending
  BY DEF CreateFails, CancelAfterSigint
<1> QED BY <1>1, <1>2, <1>3, <1>4, <1>5, <1>6 DEF Next, Main

\* Every step moves an order from one of the four places to another one.
LEMMA OrdersStep ==
    ASSUME TypeOK, NotYetCreated, OrdersConserved, [Next]_vars
    PROVE  OrdersConserved'
<1> DEFINE road == Cardinality(Delivering)
<1> SUFFICES ASSUME mpc' # "failed"
             PROVE  (validOrders = Len(queue) + road + completed + cancelled)'
  BY DEF OrdersConserved
<1>1. validOrders = Len(queue) + road + completed + cancelled
  BY MainStep DEF OrdersConserved
<1>2. /\ validOrders \in Nat /\ completed \in Nat /\ cancelled \in Nat
      /\ queue \in Seq(Order) /\ Len(queue) \in Nat /\ road \in Nat
  BY RoadFinite DEF TypeOK
<1>3. ASSUME NEW c \in Couriers, StartDelivery(c), c \notin Delivering,
             Delivering' = Delivering \cup {c}
      PROVE  (validOrders = Len(queue) + road + completed + cancelled)'
  <2>1. road' = road + 1
    BY <1>3, RoadFinite, FS_AddElement
  <2>2. Len(queue') = Len(queue) - 1
    BY <1>2, <1>3 DEF StartDelivery
  <2>3. UNCHANGED <<validOrders, completed, cancelled>>
    BY <1>3 DEF StartDelivery, totalVars
  <2> HIDE DEF road
  <2> QED BY <1>1, <1>2, <2>1, <2>2, <2>3
<1>4. ASSUME NEW c \in Couriers, CountDelivery(c), c \in Delivering,
             Delivering' = Delivering \ {c}
      PROVE  (validOrders = Len(queue) + road + completed + cancelled)'
  <2>1. road' = road - 1
    BY <1>4, RoadFinite, FS_RemoveElement
  <2>2. completed' = completed + 1 /\ UNCHANGED <<validOrders, queue, cancelled>>
    BY <1>4 DEF CountDelivery, queueVars
  <2> HIDE DEF road
  <2> QED BY <1>1, <1>2, <2>1, <2>2
<1>5. CASE Delivering' = Delivering /\ completed' = completed
  <2>0. road' = road
    BY <1>5
  <2>1. CASE LoadOrder
    <3>1. Len(queue') = Len(queue) + 1
      <4>1. Head(input) \in Order
        BY <2>1 DEF LoadOrder, TypeOK
      <4> QED BY <2>1, <4>1, <1>2, QueuePushType DEF LoadOrder
    <3>2. validOrders' = validOrders + 1 /\ cancelled' = cancelled
      BY <2>1 DEF LoadOrder, totalVars
    <3> QED BY <1>1, <1>2, <1>5, <2>0, <3>1, <3>2
  <2>2. CASE CreateFails \/ CancelAfterSigint
    <3>1. validOrders' = validOrders /\ CancelPending
      BY <2>2 DEF CreateFails, CancelAfterSigint
    <3>2. \/ Len(queue') = Len(queue) /\ cancelled' = cancelled
          \/ Len(queue') = 0 /\ cancelled' = cancelled + Len(queue)
      BY <3>1 DEF CancelPending
    <3> QED BY <1>1, <1>2, <1>5, <2>0, <3>1, <3>2
  <2>3. CASE UNCHANGED <<validOrders, queue, cancelled>>
    BY <1>1, <1>5, <2>0, <2>3
  <2>4. ASSUME NEW c \in Couriers, CourierWaits(c) \/ CourierLeaves(c) \/ FinishDelivery(c)
        PROVE  UNCHANGED <<validOrders, queue, cancelled>>
    BY <2>4 DEF CourierWaits, CourierLeaves, FinishDelivery, queueVars, totalVars
  <2>5. ASSUME NEW c \in Couriers
        PROVE  ~StartDelivery(c) /\ ~CountDelivery(c)
    <3>1. ~CountDelivery(c)
      BY <1>2, <1>5 DEF CountDelivery
    <3>2. ~StartDelivery(c)
      BY <1>5 DEF StartDelivery, Delivering, TypeOK
    <3> QED BY <3>1, <3>2
  <2>6. Sigint \/ LoadEnds \/ CreateCourier \/ WaitEnds \/ WaitSeesSigint \/ TimedWait
        \/ TimedWaitReturns \/ JoinCouriers \/ WriteSummary \/ Exited
        \/ UNCHANGED vars => UNCHANGED <<validOrders, queue, cancelled>>
    BY DEF Sigint, LoadEnds, CreateCourier, WaitEnds, WaitSeesSigint, TimedWait,
           TimedWaitReturns, JoinCouriers, WriteSummary, Exited, vars, queueVars, totalVars
  <2>7. ~StartupFails
    BY DEF StartupFails
  <2> QED BY <2>1, <2>2, <2>3, <2>4, <2>5, <2>6, <2>7 DEF Next, Main, Courier
<1>6. ASSUME NEW c \in Couriers, FinishDelivery(c)
      PROVE  completed' = completed
  BY <1>6 DEF FinishDelivery, totalVars
<1> QED BY <1>3, <1>4, <1>5, <1>6, RoadStep

\* The summary is written when nothing is queued or on the road any more.
LEMMA SummaryStep ==
    ASSUME TypeOK, ActiveIsExact, StoppingLeavesNothing, EndedIsOver, OrdersConserved,
           SummaryAccountsForAll, [Next]_vars
    PROVE  SummaryAccountsForAll'
<1>1. CASE WriteSummary
  <2>1. mpc = "summary" /\ stopping /\ active = 0
    BY <1>1 DEF WriteSummary, EndedIsOver, ShiftOver
  <2>2. queue = <<>> /\ OnTheRoad = {}
    BY <2>1, NobodyOnTheRoad DEF StoppingLeavesNothing
  <2>3. Len(queue) = 0 /\ Cardinality(Delivering) = 0
    <3>1. Delivering = {}
      BY <2>2 DEF Delivering, OnTheRoad
    <3> QED BY <2>2, <3>1, FS_EmptySet
  <2>4. validOrders = completed + cancelled
    BY <2>1, <2>3 DEF OrdersConserved, TypeOK
  <2>5. \/ summary' = summary
        \/ /\ summary'.orders = validOrders
           /\ summary'.completed = completed /\ summary'.cancelled = cancelled
    BY <1>1 DEF WriteSummary
  <2> QED BY <2>4, <2>5 DEF SummaryAccountsForAll
<1>2. CASE summary' = summary
  BY <1>2 DEF SummaryAccountsForAll
<1>3. ASSUME NEW c \in Couriers, Courier(c)
      PROVE  summary' = summary
  BY <1>3 DEF Courier, CourierWaits, StartDelivery, CourierLeaves, CountDelivery,
              FinishDelivery, mainVars
<1>4. WriteSummary \/ summary' = summary
  BY <1>3 DEF Next, Main, Sigint, LoadOrder, LoadEnds, StartupFails, CreateCourier,
     CreateFails, WaitEnds, WaitSeesSigint, CancelAfterSigint, TimedWait,
     TimedWaitReturns, JoinCouriers, Exited, vars, mainVars
<1> QED BY <1>1, <1>2, <1>4

\* The inductive invariant holds initially.
LEMMA ShiftInit == Init => ShiftInv
<1> SUFFICES ASSUME Init PROVE ShiftInv
  OBVIOUS
<1>1. TypeOK
  BY TypeInit
<1>2. cpc = [c \in Couriers |-> "none"] /\ mpc = "load" /\ created = 0
  BY DEF Init
<1>3. OnTheRoad = {} /\ Delivering = {}
  BY <1>2 DEF OnTheRoad, Delivering
<1>4. ActiveIsExact
  BY <1>3, FS_EmptySet DEF Init, ActiveIsExact
<1>5. OrdersConserved
  BY <1>3, FS_EmptySet DEF Init, OrdersConserved
<1>6. NotYetCreated /\ EndedIsOver /\ WaitersWillBeWoken
  BY <1>2 DEF NotYetCreated, EndedIsOver, WaitersWillBeWoken
<1>7. LoadingIsQuiet /\ StoppingLeavesNothing
  BY DEF Init, LoadingIsQuiet, StoppingLeavesNothing
<1>8. SummaryAccountsForAll
  BY DEF Init, SummaryAccountsForAll, NoSummary
<1> QED BY <1>1, <1>4, <1>5, <1>6, <1>7, <1>8 DEF ShiftInv

\* Every step preserves the inductive invariant.
LEMMA ShiftStep == ShiftInv /\ [Next]_vars => ShiftInv'
<1> SUFFICES ASSUME ShiftInv, [Next]_vars PROVE ShiftInv'
  OBVIOUS
<1> USE DEF ShiftInv
<1> QED BY TypeStep, NotYetCreatedStep, LoadingStep, ActiveStep, StoppingStep, EndedStep,
           WaitersStep, OrdersStep, SummaryStep

\* The inductive invariant holds in every reachable state.
LEMMA ShiftCorrect == Spec => []ShiftInv
BY ShiftInit, ShiftStep, PTL DEF Spec

\* Whatever couriers, signals and thread failures interleave, no order of the
\* file is lost or counted twice.
THEOREM NoOrderIsLost == Spec => []OrdersConserved
<1>1. ShiftInv => OrdersConserved
  BY DEF ShiftInv
<1> QED BY <1>1, ShiftCorrect, PTL

\* The counter that decides the end of the shift is exact.
THEOREM ActiveCounterIsExact == Spec => []ActiveIsExact
<1>1. ShiftInv => ActiveIsExact
  BY DEF ShiftInv
<1> QED BY <1>1, ShiftCorrect, PTL

\* The shift stops only over an empty queue.
THEOREM NothingLeftAtStop == Spec => []StoppingLeavesNothing
<1>1. ShiftInv => StoppingLeavesNothing
  BY DEF ShiftInv
<1> QED BY <1>1, ShiftCorrect, PTL

\* No wakeup is lost: whoever waits has somebody on the road to wake it.
THEOREM NoCourierSleepsForever == Spec => []WaitersWillBeWoken
<1>1. ShiftInv => WaitersWillBeWoken
  BY DEF ShiftInv
<1> QED BY <1>1, ShiftCorrect, PTL

\* A summary that is written accounts for every order of the file.
THEOREM SummaryIsComplete == Spec => []SummaryAccountsForAll
<1>1. ShiftInv => SummaryAccountsForAll
  BY DEF ShiftInv
<1> QED BY <1>1, ShiftCorrect, PTL

-----------------------------------------------------------------------------
(* Urgency                                                                 *)

\* The rest of a sorted queue is sorted, and its head is outranked by nobody.
LEMMA SortedTail ==
    ASSUME NEW q \in Seq(Order), q # <<>>, Sorted(q)
    PROVE  /\ Sorted(Tail(q))
           /\ \A i \in 1..Len(q) : ~HasHigherPriority(q[i], Head(q))
<1>1. Len(Tail(q)) = Len(q) - 1 /\ \A i \in 1..(Len(q) - 1) : Tail(q)[i] = q[i + 1]
  OBVIOUS
<1>2. Sorted(Tail(q))
  <2> SUFFICES ASSUME NEW i \in 1..Len(Tail(q)), NEW j \in 1..Len(Tail(q)), i < j
               PROVE  ~HasHigherPriority(Tail(q)[j], Tail(q)[i])
    BY DEF Sorted
  <2>1. i + 1 \in 1..Len(q) /\ j + 1 \in 1..Len(q) /\ i + 1 < j + 1
    BY <1>1
  <2>2. ~HasHigherPriority(q[j + 1], q[i + 1])
    BY <2>1 DEF Sorted
  <2> QED BY <1>1, <2>2
<1>3. ASSUME NEW i \in 1..Len(q)
      PROVE  ~HasHigherPriority(q[i], Head(q))
  <2>1. Head(q) = q[1] /\ q[1] \in Order /\ 1 \in 1..Len(q)
    OBVIOUS
  <2>2. CASE i = 1
    BY <2>1, <2>2 DEF HasHigherPriority, Order, Priorities
  <2>3. CASE i > 1
    BY <2>1, <2>3 DEF Sorted
  <2> QED BY <2>2, <2>3
<1> QED BY <1>2, <1>3

\* Every step keeps the queue sorted.
LEMMA SortedStep ==
    ASSUME TypeOK, QueueSorted, [Next]_vars
    PROVE  QueueSorted'
<1> SUFFICES Sorted(queue')
  BY DEF QueueSorted, Sorted
<1>0. Sorted(queue) /\ queue \in Seq(Order) /\ Sorted(<<>>)
  BY DEF QueueSorted, TypeOK, Sorted
<1>1. CASE LoadOrder
  <2>1. Head(input) \in Order /\ queue' = QueuePush(queue, Head(input))
    BY <1>1 DEF LoadOrder, TypeOK
  <2> QED BY <1>0, <2>1, QueuePushSorted
<1>2. CASE queue' = <<>> \/ queue' = queue
  BY <1>0, <1>2
<1>3. ASSUME NEW c \in Couriers, StartDelivery(c)
      PROVE  Sorted(queue')
  BY <1>0, <1>3, SortedTail DEF StartDelivery
<1>4. ASSUME NEW c \in Couriers, Courier(c)
      PROVE  StartDelivery(c) \/ queue' = queue
  BY <1>4 DEF Courier, CourierWaits, CourierLeaves, CountDelivery, FinishDelivery, queueVars
<1>5. CreateFails \/ CancelAfterSigint \/ StartupFails => queue' = <<>> \/ queue' = queue
  BY DEF CreateFails, CancelAfterSigint, StartupFails, CancelPending
<1>6. Sigint \/ LoadEnds \/ CreateCourier \/ WaitEnds \/ WaitSeesSigint \/ TimedWait
      \/ TimedWaitReturns \/ JoinCouriers \/ WriteSummary \/ Exited
      \/ UNCHANGED vars => queue' = queue
  BY DEF Sigint, LoadEnds, CreateCourier, WaitEnds, WaitSeesSigint, TimedWait,
         TimedWaitReturns, JoinCouriers, WriteSummary, Exited, vars, queueVars
<1> QED BY <1>1, <1>2, <1>3, <1>4, <1>5, <1>6 DEF Next, Main

\* The pending queue is sorted by priority, then by id, in every state.
THEOREM QueueStaysSorted == Spec => []QueueSorted
<1>1. Init => QueueSorted
  BY DEF Init, QueueSorted, Sorted
<1>2. TypeOK /\ QueueSorted /\ [Next]_vars => QueueSorted'
  BY SortedStep
<1> QED BY <1>1, <1>2, TypeCorrect, PTL DEF Spec

\* A courier leaves with a most urgent order, and never after the stop.
THEOREM UrgentOrdersGoFirst == Spec => MostUrgentFirst
<1> DEFINE Leaves(c) ==
      cpc'[c] = "delivering" /\ cpc[c] # "delivering" =>
        /\ ~stopping
        /\ \A i \in 1..Len(queue) : ~HasHigherPriority(queue[i], carrying'[c])
<1>1. ASSUME ShiftInv, QueueSorted, [Next]_vars
      PROVE  \A c \in Couriers : Leaves(c)
  <2> SUFFICES ASSUME NEW c \in Couriers, cpc'[c] = "delivering", cpc[c] # "delivering"
               PROVE  /\ ~stopping
                      /\ \A i \in 1..Len(queue) : ~HasHigherPriority(queue[i], carrying'[c])
    OBVIOUS
  <2>1. c \in Delivering' /\ c \notin Delivering
    BY DEF Delivering
  <2>2. StartDelivery(c)
    BY <1>1, <2>1, RoadStep DEF ShiftInv
  <2>3. ~stopping /\ queue # <<>> /\ carrying'[c] = Head(queue)
    BY <1>1, <2>2 DEF StartDelivery, ShiftInv, TypeOK
  <2>4. \A i \in 1..Len(queue) : ~HasHigherPriority(queue[i], Head(queue))
    BY <1>1, <2>3, SortedTail DEF ShiftInv, TypeOK, QueueSorted
  <2> QED BY <2>3, <2>4
<1> QED BY <1>1, ShiftCorrect, QueueStaysSorted, PTL DEF Spec, MostUrgentFirst

=============================================================================
