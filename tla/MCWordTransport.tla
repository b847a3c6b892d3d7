-------------------------- MODULE MCWordTransport --------------------------
(***************************************************************************)
(* Instances of WordTransport for TLC: two floors.                         *)
(***************************************************************************)
EXTENDS WordTransport

CONSTANTS c1, c2, c3

TwoAndOne    == [w \in Words |-> IF w = 1 THEN 2 ELSE 1]
OneEach      == [w \in Words |-> 1]
AcrossFloors == [w \in Words |-> w % 2]
Pairs        == [e \in Elevators |-> 2]

ThreeCarriers == {c1, c2, c3}
TwoCarriers   == {c1, c2}
CarrierSymmetry == Permutations(ThreeCarriers)

=============================================================================
