--------------------------------- MODULE Ledger ---------------------------------
(***************************************************************************)
(* What the oracle contract promises to those who read it, without saying  *)
(* how: a ledger of accepted transfers that changes by whole batches.      *)
(* A batch is accepted together or not at all, each transfer of it on      *)
(* signatures that were never used before; a balance becomes what the      *)
(* highest transfer of the batch states, if that is above the ledger's.    *)
(* In what order the batch was written, and what a failed call did before  *)
(* it failed, cannot be seen.                                              *)
(***************************************************************************)
EXTENDS Integers, FiniteSets

CONSTANTS
    Places, Holdings,                   \* keys of the two maps
    Place(_), Transfer(_), Hash(_),     \* of an order
    Nobody                              \* no transfer in this place

VARIABLES
    accepted,   \* [order, height, need]: the transfers accepted so far
    used,       \* the signatures used: <<hash, validator>>
    indexed,    \* the transfer recorded in each place
    balance     \* the balance recorded of each holding, and its height

vars == <<accepted, used, indexed, balance>>

Init ==
    /\ accepted = {} /\ used = {}
    /\ indexed = [p \in Places |-> Nobody]
    /\ balance = [h \in Holdings |-> [balance |-> 0, upToBlock |-> 0]]

Concerns(a, h) == h[2] = a.order.tick /\ h[1] \in {a.order.from, a.order.to}
Stated(a, h)   == IF h[1] = a.order.to THEN a.order.toBal ELSE a.order.fromBal

(* A batch: the transfers and the signatures it adds.                      *)
Signed(new, fresh) ==
    /\ \A a \in new : Cardinality({s \in fresh : s[1] = Hash(a.order)}) >= a.need
    /\ \A s \in fresh : \E a \in accepted' : s[1] = Hash(a.order)

Indexed == \A p \in Places :
    \/ indexed'[p] = indexed[p]
    \/ \E a \in accepted' : Place(a.order) = p /\ Transfer(a.order) = indexed'[p]

Balanced(new) == \A h \in Holdings :
    LET later == {a \in new : Concerns(a, h) /\ a.height > balance[h].upToBlock} IN
    IF later = {} THEN balance'[h] = balance[h]
    ELSE \E a \in later :
           /\ \A b \in later : b.height <= a.height
           /\ balance'[h] = [balance |-> Stated(a, h), upToBlock |-> a.height]

Accept ==
    LET new == accepted' \ accepted
        fresh == used' \ used
    IN /\ accepted \subseteq accepted' /\ used \subseteq used'
       /\ Signed(new, fresh)
       /\ Indexed
       /\ Balanced(new)

Spec == Init /\ [][Accept]_vars
=============================================================================
