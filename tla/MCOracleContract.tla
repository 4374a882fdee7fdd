--------------------------- MODULE MCOracleContract ---------------------------
(* Two transfers: one in a Bitcoin transaction that an older oracle recorded *)
(* as mined, and one, from a user to itself, in a transaction too long for   *)
(* the legacy registry.                                                      *)
EXTENDS OracleContract

CONSTANTS dep, v1, v2, k1, k2, b1, b2, s1, u1, u2, tick

Transfer(tx, slot, from, to, fromBal, toBal, dec) ==
    [bitcoinTx |-> tx, slot |-> slot, tick |-> tick, amt |-> 1, from |-> from,
     to |-> to, fromBal |-> fromBal, toBal |-> toBal, decimals |-> dec]

MCAccounts == {dep, v1, v2}
MCPubKeys == {k1, k2}
MCBitcoinTxs == {b1, b2}
MCLongTxs == {b2}
MCSlots == {s1}
MCUsers == {u1, u2}
MCTicks == {tick}
MCOrders == {Transfer(b1, s1, u1, u2, 4, 1, 18),
             Transfer(b2, s1, u1, u1, 6, 7, 8)}
MCHeights == {1, 2}
MCMinedIn == [tx \in MCBitcoinTxs |-> IF tx = b1 THEN 1 ELSE 2]
MCLegacyMined == [tx \in MCBitcoinTxs |-> IF tx = b1 THEN 1 ELSE None]
MCLegacyIndexed == [p \in MCBitcoinTxs \X MCSlots |-> None]
MCSetUpValidators == [a \in MCAccounts |-> CASE a = v1 -> k1 [] a = v2 -> k2 [] OTHER -> None]
=============================================================================
