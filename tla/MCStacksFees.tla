------------------------------ MODULE MCStacksFees ------------------------------
(* Two public calls around a transfer, against a price that rises; of the  *)
(* two floors one is allowed.                                              *)
EXTENDS StacksFees

Kinds == <<"publicCall", "transfer", "publicCall">>
Levels == <<2, 3>>
TwoFloors == {1, 5}
BothStrategies == {"increase", "replace"}
AllModes == {"off", "stages", "estimate", "function"}
=============================================================================
