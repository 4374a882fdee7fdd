---------------------------- MODULE MCIndexerStore ----------------------------
(* Transfers in one place of a Bitcoin transaction: the validators disagree *)
(* about a balance, or the second one has no address.  Three validators     *)
(* with keys of their own, or four of which two share a key.                *)
EXTENDS IndexerStore

CONSTANTS o1, o2, v1, v2, v3, v4, k1, k2, k3, tx, slot, r1, r2

TwoOrders == {o1, o2}
NoOrder   == {}
LastOrder == {o2}
InOnePlace == [o \in Orders |-> <<tx, slot>>]

ThreeValidators == {v1, v2, v3}
FourValidators == {v1, v2, v3, v4}
Keys == [v \in Validators |-> CASE v = v2 -> k2 [] v = v3 -> k3 [] OTHER -> k1]

OneRequest  == {r1}
TwoRequests == {r1, r2}
=============================================================================
