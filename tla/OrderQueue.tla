----------------------------- MODULE OrderQueue -----------------------------
(***************************************************************************)
(* The pending order list of HW5 (order_queue.c): a linked list kept       *)
(* sorted by priority, then by id, orders with equal keys in arrival       *)
(* order.  The list is a sequence of orders, head first.                   *)
(***************************************************************************)
EXTENDS Integers, Sequences

\* EXPRESS 1, STANDARD 2, ECONOMY 3: a smaller number is more urgent.
Priorities == 1..3

Order == [id : Nat, priority : Priorities, duration_units : Nat]

HasHigherPriority(new, queued) ==
    IF new.priority # queued.priority
    THEN new.priority < queued.priority
    ELSE new.id < queued.id

\* Mutant: new orders go to the end.
AppendPosition(queue, order) == Len(queue) + 1

\* Where queue_push links a new order: before the first one it outranks.
InsertPosition(queue, order) ==
    LET outranked == {i \in 1..Len(queue) : HasHigherPriority(order, queue[i])}
    IN  IF outranked = {} THEN Len(queue) + 1
        ELSE CHOOSE i \in outranked : \A j \in outranked : i <= j

QueuePush(queue, order) ==
    LET p == InsertPosition(queue, order)
    IN  [i \in 1..(Len(queue) + 1) |-> IF i < p THEN queue[i]
                                       ELSE IF i = p THEN order
                                       ELSE queue[i - 1]]

\* No order stands behind one it outranks.
Sorted(queue) ==
    \A i, j \in 1..Len(queue) : i < j => ~HasHigherPriority(queue[j], queue[i])

=============================================================================
