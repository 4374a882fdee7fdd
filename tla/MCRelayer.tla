------------------------------ MODULE MCRelayer ------------------------------
(* Three places, one above the other: the validators may disagree about    *)
(* the first; the second may have no listed address; the third is there to *)
(* be the highest one, and is not selected.                                *)
EXTENDS Relayer

CONSTANTS o1, o2, o3, o4, v1, v2, p1, p2, p3

TwoOrders  == {o1, o3}
FourOrders == {o1, o2, o3, o4}
SelectedOrders == Orders \ {o4}
AllOrders      == Orders
FirstOrders    == Orders \cap {o1, o2}
InPlaces == [o \in Orders |-> CASE o = o3 -> p2 [] o = o4 -> p3 [] OTHER -> p1]
Heights  == [p \in Places |-> CASE p = p2 -> 2 [] p = p3 -> 3 [] OTHER -> 1]
TwoValidators == {v1, v2}
=============================================================================
