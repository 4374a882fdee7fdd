---------------------------- MODULE OracleRegistry ----------------------------
(***************************************************************************)
(* The storage contracts behind the oracle.                                *)
(*                                                                         *)
(*   oracle-registry-v1-02.clar  its own maps of mined and of indexed      *)
(*                               Bitcoin transactions (keys up to 8192     *)
(*                               bytes), its owner and its pause flag;     *)
(*   oracle-registry-v1-01.clar  the balances and the tick decimals, which *)
(*                               v1-02 writes through, the operators that  *)
(*                               may write, and the mined / indexed maps   *)
(*                               of the older oracles, which v1-02 reads   *)
(*                               first for a transaction that fits their   *)
(*                               4096-byte keys.                           *)
(*                                                                         *)
(* The maps that the live oracle writes are a record ("a store"), so that  *)
(* a contract call can work on a copy and publish it only when the whole   *)
(* Stacks transaction succeeds.  The setters below are functions from a    *)
(* store to a store; whether they may run is RegistryAccepts.              *)
(***************************************************************************)
EXTENDS Integers, FiniteSets

CONSTANTS
    Accounts,       \* Stacks accounts that can own a contract or sign
    Oracle,         \* the principal of oracle-v1-06
    Registry,       \* the principal of oracle-registry-v1-02
    Deployer,       \* the account that deployed the contracts
    BitcoinTxs,     \* raw Bitcoin transactions
    LongTxs,        \* those of more than 4096 bytes
    Slots,          \* (output, offset) pairs inside a Bitcoin transaction
    Ticks, Users,   \* BRC-20 tickers; Bitcoin output scripts that hold them
    LegacyMined,    \* bitcoin-tx-mined of v1-01: a height, or None
    LegacyIndexed,  \* bitcoin-tx-indexed of v1-01: a transfer, or None
    None            \* "no such entry" (Clarity's none)

Principals == Accounts \cup {Oracle, Registry}
Places     == BitcoinTxs \X Slots
Holdings   == Users \X Ticks
Transfers  == [tick : Ticks, amt : Nat, from : Users, to : Users]
Balances   == [balance : Nat, upToBlock : Nat]

ASSUME RegistryConstants ==
    /\ IsFiniteSet(Accounts)
    /\ Deployer \in Accounts
    /\ LongTxs \subseteq BitcoinTxs
    /\ LegacyMined \in [BitcoinTxs -> Nat \cup {None}]
    /\ LegacyIndexed \in [Places -> Transfers \cup {None}]
    /\ None \notin Nat
    /\ None \notin Transfers

VARIABLES
    legacyOwner,    \* v1-01: contract-owner
    legacyPaused,   \* v1-01: is-paused
    operators,      \* v1-01: the principals approved-operators maps to true
    registryOwner,  \* v1-02: contract-owner
    registryPaused  \* v1-02: is-paused

registryVars == <<legacyOwner, legacyPaused, operators, registryOwner, registryPaused>>

RegistryTypeOK ==
    /\ legacyOwner \in Principals
    /\ legacyPaused \in BOOLEAN
    /\ operators \subseteq Principals
    /\ registryOwner \in Principals
    /\ registryPaused \in BOOLEAN

(* The data-vars as both contracts are deployed: paused, no operator.      *)
RegistryDeployed ==
    /\ legacyOwner = Deployer /\ registryOwner = Deployer
    /\ legacyPaused = TRUE /\ registryPaused = TRUE
    /\ operators = {}

(* After the set-up calls: v1-01 belongs to v1-02, the oracle may write.   *)
RegistrySetUp ==
    /\ legacyOwner = Registry /\ registryOwner = Deployer
    /\ legacyPaused = FALSE /\ registryPaused = FALSE
    /\ operators = {Oracle}

-----------------------------------------------------------------------------
(* Reading a store st = [mined, indexed, balance, decimals, ...].          *)

GetUserBalanceOrDefault(st, user, tick) == st.balance[<<user, tick>>]

(* The legacy height wins for a transaction that fits v1-01's keys.        *)
GetBitcoinTxMinedOrFail(st, tx) ==
    IF tx \notin LongTxs /\ LegacyMined[tx] # None
    THEN LegacyMined[tx] ELSE st.mined[tx]

GetBitcoinTxIndexedOrFail(st, place) ==
    IF place[1] \notin LongTxs /\ LegacyIndexed[place] # None
    THEN LegacyIndexed[place] ELSE st.indexed[place]

-----------------------------------------------------------------------------
(* Writing.  v1-02 checks its own pause flag and its caller; the balances  *)
(* and decimals also pass v1-01's checks, with v1-02 as the caller.        *)

LegacyApproved(sender)   == sender \in operators \/ sender = legacyOwner
RegistryApproved(sender) == sender \in operators \/ sender = registryOwner

RegistryAccepts(sender) == RegistryApproved(sender) /\ ~registryPaused
(* Altered form: v1-01's own pause flag is not asked.                      *)
LegacyAcceptsPaused(sender) == RegistryAccepts(sender) /\ LegacyApproved(Registry)
LegacyAccepts(sender) ==
    /\ RegistryAccepts(sender)
    /\ LegacyApproved(Registry) /\ ~legacyPaused

SetTxMined(st, tx, height) == [st EXCEPT !.mined[tx] = height]

SetTxIndexed(st, place, transfer) == [st EXCEPT !.indexed[place] = transfer]

SetUserBalance(st, user, tick, bal, height) ==
    [st EXCEPT !.balance[<<user, tick>>] = [balance |-> bal, upToBlock |-> height]]

SetTickDecimals(st, tick, decimals) == [st EXCEPT !.decimals[tick] = decimals]

-----------------------------------------------------------------------------
(* Governance.  A call by anyone but the owner fails, and a failed call    *)
(* changes nothing.                                                        *)

LegacySetPaused(sender, paused) ==
    /\ sender = legacyOwner
    /\ legacyPaused' = paused
    /\ UNCHANGED <<legacyOwner, operators, registryOwner, registryPaused>>

LegacyApproveOperator(sender, operator, approved) ==
    /\ sender = legacyOwner
    /\ operators' = IF approved THEN operators \cup {operator}
                    ELSE operators \ {operator}
    /\ UNCHANGED <<legacyOwner, legacyPaused, registryOwner, registryPaused>>

LegacySetContractOwner(sender, owner) ==
    /\ sender = legacyOwner
    /\ legacyOwner' = owner
    /\ UNCHANGED <<legacyPaused, operators, registryOwner, registryPaused>>

RegistrySetPaused(sender, paused) ==
    /\ sender = registryOwner
    /\ registryPaused' = paused
    /\ UNCHANGED <<legacyOwner, legacyPaused, operators, registryOwner>>

RegistrySetContractOwner(sender, owner) ==
    /\ sender = registryOwner
    /\ registryOwner' = owner
    /\ UNCHANGED <<legacyOwner, legacyPaused, operators, registryPaused>>

(* Three calls of v1-02 are forwarded to v1-01 with v1-02 as the sender.   *)
ApproveOperator(sender, operator, approved) ==
    sender = registryOwner /\ LegacyApproveOperator(Registry, operator, approved)

SetPausedLegacy(sender, paused) ==
    sender = registryOwner /\ LegacySetPaused(Registry, paused)

SetContractOwnerLegacy(sender, owner) ==
    sender = registryOwner /\ LegacySetContractOwner(Registry, owner)

(* One governance call of an account (a contract cannot call by itself).   *)
RegistryGovernance(sender) ==
    \/ \E paused \in BOOLEAN : \/ RegistrySetPaused(sender, paused)
                               \/ SetPausedLegacy(sender, paused)
                               \/ LegacySetPaused(sender, paused)
    \/ \E operator \in {Oracle, Registry}, approved \in BOOLEAN :
          \/ ApproveOperator(sender, operator, approved)
          \/ LegacyApproveOperator(sender, operator, approved)
    \/ \E owner \in Accounts : RegistrySetContractOwner(sender, owner)
    \/ \E owner \in Accounts \cup {Registry} :
          \/ SetContractOwnerLegacy(sender, owner)
          \/ LegacySetContractOwner(sender, owner)
=============================================================================
