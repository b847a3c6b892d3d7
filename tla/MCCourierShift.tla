--------------------------- MODULE MCCourierShift ---------------------------
(***************************************************************************)
(* CourierShift on every order file of at most MaxOrders lines from a      *)
(* small set of orders, repeated ids included.                             *)
(***************************************************************************)
EXTENDS CourierShift

CONSTANT MaxOrders

Express  == [id |-> 2, priority |-> 1, duration_units |-> 1]
Standard == [id |-> 1, priority |-> 2, duration_units |-> 2]
Economy  == [id |-> 3, priority |-> 3, duration_units |-> 1]
Economy2 == [id |-> 1, priority |-> 3, duration_units |-> 3]

OrderFiles ==
    UNION {[1..n -> {Express, Standard, Economy, Economy2}] : n \in 0..MaxOrders}

=============================================================================
