---------------------------- MODULE OracleContract ----------------------------
(***************************************************************************)
(* oracle-v1-06.clar, the contract that turns validators' signatures over  *)
(* BRC-20 transfers into on-chain balances, composed with its registries.  *)
(*                                                                         *)
(* A Stacks transaction is atomic: index-tx-many works through its list    *)
(* one signed transfer after the other, and the first error undoes all of  *)
(* it.  Here the call works on `work', a copy of the `store', one action   *)
(* per piece of the two folds; Commit publishes the copy and Abort drops   *)
(* it.  No other call runs in between (the chain is sequential), and the   *)
(* elements of the list are chosen when the fold reaches them.             *)
(***************************************************************************)
EXTENDS OracleRegistry

CONSTANTS
    Orders,         \* the transfers validators sign (argument of hash-tx)
    Heights,        \* Bitcoin block heights a relayer can submit
    MinedIn,        \* Bitcoin: the block each transaction was mined in
    Mainnet,        \* chain-id = 1
    PubKeys,        \* compressed public keys
    MaxUint,        \* 2^128 - 1, the required-validators of a fresh contract
    MaxRequired,    \* MAX_REQUIRED_VALIDATORS (10 in the code)
    MaxBatch,       \* length of the tx-many list (25)
    MaxPacks,       \* length of a signature-packs list (10)
    SetUpValidators, SetUpRequired, SetUpRelayer,   \* what the set-up registers
    MaxGovernance   \* bound: governance calls after the initial state

OrderType == [bitcoinTx : BitcoinTxs, slot : Slots, tick : Ticks, amt : Nat,
              from : Users, to : Users, fromBal : Nat, toBal : Nat, decimals : Nat]

ASSUME OracleConstants ==
    /\ Orders \subseteq OrderType
    /\ Heights \subseteq Nat
    /\ MinedIn \in [BitcoinTxs -> Nat]
    /\ Mainnet \in BOOLEAN
    /\ None \notin PubKeys
    /\ MaxUint \in Nat /\ MaxRequired \in Nat /\ MaxBatch \in Nat /\ MaxPacks \in Nat
    /\ MaxPacks < MaxUint
    /\ SetUpValidators \in [Accounts -> PubKeys \cup {None}]
    /\ SetUpRequired \in Nat /\ SetUpRequired < MaxRequired
    /\ SetUpRelayer \in Accounts
    /\ MaxGovernance \in Nat

VARIABLES
    contractOwner,      \* contract-owner
    isPaused,           \* is-paused
    approvedRelayers,   \* keys of approved-relayers (its values are never read)
    validators,         \* validators: account -> public key, or None
    validatorCount,     \* validator-count
    requiredValidators, \* required-validators
    store,              \* the maps as the last committed transaction left them
    work,               \* the maps as the transaction being executed sees them
    at, done, item,     \* how far that transaction is
    governance          \* governance calls so far

oracleVars == <<contractOwner, isPaused, approvedRelayers, validators,
                validatorCount, requiredValidators>>
callVars == <<work, at, done, item>>
vars == <<registryVars, oracleVars, callVars, store, governance>>

(* sha256 of the consensus encoding of an order: distinct orders have      *)
(* distinct hashes, and the block height is no part of what is hashed.     *)
HashTx(order) == [sha256 |-> order]
TxHashes == {HashTx(o) : o \in Orders}

Signatures == [by : PubKeys, over : TxHashes]
SignaturePacks == [signer : Accounts, txHash : TxHashes, signature : Signatures]

PlaceOf(order)    == <<order.bitcoinTx, order.slot>>
TransferOf(order) == [tick |-> order.tick, amt |-> order.amt,
                      from |-> order.from, to |-> order.to]

(* Beside the maps, a store carries two history fields that no code reads: *)
(* `accepted', the transfers indexed so far with the height they came with *)
(* and the number of validators then required, and `spent', the number of  *)
(* signatures consumed.                                                    *)
Acceptances == [order : Orders, height : Heights, need : Nat]
Stores ==
    [mined : [BitcoinTxs -> Nat \cup {None}],
     indexed : [Places -> Transfers \cup {None}],
     balance : [Holdings -> Balances],
     decimals : [Ticks -> Nat],
     txValidatedBy : SUBSET (TxHashes \X Accounts),
     accepted : SUBSET Acceptances,
     spent : Nat]

EmptyStore ==
    [mined |-> [tx \in BitcoinTxs |-> None],
     indexed |-> [p \in Places |-> None],
     balance |-> [h \in Holdings |-> [balance |-> 0, upToBlock |-> 0]],
     decimals |-> [t \in Ticks |-> 18],
     txValidatedBy |-> {}, accepted |-> {}, spent |-> 0]

(* `at' is "batch" between two elements of tx-many, `done' of them behind,  *)
(* and "sigs" while folding over the signature-packs of one: `item' holds  *)
(* that element, the number of packs left, and (history) who signed so far.*)
Items == [order : Orders, height : Heights, left : 0..MaxPacks,
          signers : SUBSET Accounts]

Deployed ==
    /\ RegistryDeployed
    /\ contractOwner = Deployer
    /\ isPaused = TRUE
    /\ approvedRelayers = {}
    /\ validators = [a \in Accounts |-> None]
    /\ validatorCount = 0
    /\ requiredValidators = MaxUint

SetUp ==
    /\ RegistrySetUp
    /\ contractOwner = Deployer
    /\ isPaused = FALSE
    /\ approvedRelayers = {SetUpRelayer}
    /\ validators = SetUpValidators
    /\ validatorCount = Cardinality({a \in Accounts : SetUpValidators[a] # None})
    /\ requiredValidators = SetUpRequired

Init ==
    /\ Deployed \/ SetUp
    /\ store = EmptyStore
    /\ work = EmptyStore
    /\ at = "idle" /\ done = 0 /\ item = None
    /\ governance = 0

-----------------------------------------------------------------------------
(* Governance.                                                             *)

SetPaused(sender, paused) ==
    /\ sender = contractOwner
    /\ isPaused' = paused
    /\ UNCHANGED <<contractOwner, approvedRelayers, validators, validatorCount,
                   requiredValidators>>

(* Altered forms: the validator may be registered, or unknown, already.     *)
AddAnyValidator(sender, key, validator) ==
    /\ sender = contractOwner
    /\ validators' = [validators EXCEPT ![validator] = key]
    /\ validatorCount' = 1 + validatorCount
    /\ UNCHANGED <<contractOwner, isPaused, approvedRelayers, requiredValidators>>

RemoveAnyValidator(sender, validator) ==
    /\ sender = contractOwner
    /\ validators' = [validators EXCEPT ![validator] = None]
    /\ validatorCount' = validatorCount - 1
    /\ UNCHANGED <<contractOwner, isPaused, approvedRelayers, requiredValidators>>

AddValidator(sender, key, validator) ==
    /\ sender = contractOwner
    /\ validators[validator] = None
    /\ validators' = [validators EXCEPT ![validator] = key]
    /\ validatorCount' = 1 + validatorCount
    /\ UNCHANGED <<contractOwner, isPaused, approvedRelayers, requiredValidators>>

RemoveValidator(sender, validator) ==
    /\ sender = contractOwner
    /\ validators[validator] # None
    /\ validators' = [validators EXCEPT ![validator] = None]
    /\ validatorCount' = validatorCount - 1
    /\ UNCHANGED <<contractOwner, isPaused, approvedRelayers, requiredValidators>>

(* approve-relayer stores the flag it is given; index-tx-many only asks    *)
(* whether the relayer has an entry, so either value adds the key.         *)
ApproveRelayer(sender, relayer) ==
    /\ sender = contractOwner
    /\ approvedRelayers' = approvedRelayers \cup {relayer}
    /\ UNCHANGED <<contractOwner, isPaused, validators, validatorCount,
                   requiredValidators>>

SetRequiredValidators(sender, required) ==
    /\ sender = contractOwner
    /\ required < MaxRequired
    /\ requiredValidators' = required
    /\ UNCHANGED <<contractOwner, isPaused, approvedRelayers, validators,
                   validatorCount>>

SetContractOwner(sender, owner) ==
    /\ sender = contractOwner
    /\ contractOwner' = owner
    /\ UNCHANGED <<isPaused, approvedRelayers, validators, validatorCount,
                   requiredValidators>>

OracleGovernance(sender) ==
    \/ \E paused \in BOOLEAN : SetPaused(sender, paused)
    \/ \E key \in PubKeys, validator \in Accounts : AddValidator(sender, key, validator)
    \/ \E validator \in Accounts : RemoveValidator(sender, validator)
    \/ \E relayer \in Accounts : ApproveRelayer(sender, relayer)
    \/ \E required \in 0..MaxRequired : SetRequiredValidators(sender, required)
    \/ \E owner \in Accounts : SetContractOwner(sender, owner)

Governance ==
    /\ at = "idle"
    /\ governance < MaxGovernance
    /\ governance' = governance + 1
    /\ UNCHANGED <<store, callVars>>
    /\ \E sender \in Accounts :
          \/ OracleGovernance(sender) /\ UNCHANGED registryVars
          \/ RegistryGovernance(sender) /\ UNCHANGED oracleVars
-----------------------------------------------------------------------------
(* index-tx-many.                                                          *)

(* was-tx-mined? / was-segwit-tx-mined? of clarity-bitcoin-v1-05 answer    *)
(* from the burn chain; a test network takes every transaction as mined.   *)
VerifyMinedNever(tx, height) == TRUE     \* altered form: the check is left out
VerifyMined(tx, height) == Mainnet => MinedIn[tx] = height

(* The key that secp256k1-recover? returns is the signer's only for the    *)
(* message that was signed.                                                *)
Recovers(signature, txHash, key) == signature.over = txHash /\ signature.by = key

(* Altered form: a validator may sign the same hash again.                 *)
ValidateTxAgain(txHash, pack) ==
    /\ validators[pack.signer] # None
    /\ txHash = pack.txHash
    /\ Recovers(pack.signature, txHash, validators[pack.signer])

ValidateTx(txHash, pack) ==
    /\ validators[pack.signer] # None
    /\ <<txHash, pack.signer>> \notin work.txValidatedBy
    /\ txHash = pack.txHash
    /\ Recovers(pack.signature, txHash, validators[pack.signer])

IndexTxMany(sender) ==
    /\ at = "idle"
    /\ ~isPaused
    /\ sender \in approvedRelayers
    /\ at' = "batch"
    /\ work' = store
    /\ UNCHANGED <<done, item, store, registryVars, oracleVars, governance>>

IndexTxManyFails(sender) ==
    /\ at = "idle"
    /\ isPaused \/ sender \notin approvedRelayers
    /\ UNCHANGED vars

(* The end of the call, with the maps it leaves.                           *)
Finish(result) ==
    /\ store' = result
    /\ work' = EmptyStore
    /\ at' = "idle" /\ done' = 0 /\ item' = None
    /\ UNCHANGED <<registryVars, oracleVars, governance>>

Abort == Finish(store)

(* index-tx-iter up to the fold over the signatures: enough of them, and   *)
(* the Bitcoin transaction mined, which is recorded once.                  *)
KnownMined(order) == GetBitcoinTxMinedOrFail(work, order.bitcoinTx) # None

IterAcceptsOneShort(order, height, packs) ==    \* altered form: off by one
    /\ packs + 1 >= requiredValidators
    /\ \/ KnownMined(order)
       \/ VerifyMined(order.bitcoinTx, height) /\ RegistryAccepts(Oracle)

IterAccepts(order, height, packs) ==
    /\ packs >= requiredValidators
    /\ \/ KnownMined(order)
       \/ VerifyMined(order.bitcoinTx, height) /\ RegistryAccepts(Oracle)

IndexTxIter(order, height, packs) ==
    /\ at = "batch" /\ done < MaxBatch
    /\ IterAccepts(order, height, packs)
    /\ work' = IF KnownMined(order) THEN work
               ELSE SetTxMined(work, order.bitcoinTx, height)
    /\ at' = "sigs"
    /\ item' = [order |-> order, height |-> height, left |-> packs, signers |-> {}]
    /\ UNCHANGED <<done, store, registryVars, oracleVars, governance>>

IndexTxIterFails(order, height, packs) ==
    /\ at = "batch" /\ done < MaxBatch
    /\ ~IterAccepts(order, height, packs)
    /\ Abort

ValidateSignatureIter(pack) ==
    /\ at = "sigs" /\ item.left > 0
    /\ ValidateTx(HashTx(item.order), pack)
    /\ work' = [work EXCEPT
                  !.txValidatedBy = @ \cup {<<HashTx(item.order), pack.signer>>},
                  !.spent = @ + 1]
    /\ item' = [item EXCEPT !.left = @ - 1, !.signers = @ \cup {pack.signer}]
    /\ UNCHANGED <<at, done, store, registryVars, oracleVars, governance>>

ValidateSignatureIterFails(pack) ==
    /\ at = "sigs" /\ item.left > 0
    /\ ~ValidateTx(HashTx(item.order), pack)
    /\ Abort

(* A balance is replaced only by one of a later block than the balance had *)
(* when the element was begun: both are read before either is written.     *)
NewerOrSame(user, order, height) ==     \* altered form: >= instead of >
    height >= GetUserBalanceOrDefault(work, user, order.tick).upToBlock
Newer(user, order, height) ==
    height > GetUserBalanceOrDefault(work, user, order.tick).upToBlock

(* Altered form: the receiver's balance only follows the sender's.         *)
UpdateBalancesTogether(st, order, height) ==
    IF Newer(order.from, order, height)
    THEN SetUserBalance(SetUserBalance(st, order.from, order.tick, order.fromBal, height),
                        order.to, order.tick, order.toBal, height)
    ELSE st

(* Altered form: the receiver's balance is written first.                  *)
UpdateBalancesSwapped(st, order, height) ==
    LET to == IF Newer(order.to, order, height)
              THEN SetUserBalance(st, order.to, order.tick, order.toBal, height)
              ELSE st
    IN IF Newer(order.from, order, height)
       THEN SetUserBalance(to, order.from, order.tick, order.fromBal, height)
       ELSE to

UpdateBalances(st, order, height) ==
    LET from == IF Newer(order.from, order, height)
                THEN SetUserBalance(st, order.from, order.tick, order.fromBal, height)
                ELSE st
    IN IF Newer(order.to, order, height)
       THEN SetUserBalance(from, order.to, order.tick, order.toBal, height)
       ELSE from

(* The rest of index-tx-iter: the four writes, all of them or none.        *)
WriteTx ==
    /\ at = "sigs" /\ item.left = 0
    /\ LegacyAccepts(Oracle)
    /\ LET order == item.order
           indexed == SetTxIndexed(work, PlaceOf(order), TransferOf(order))
           balanced == UpdateBalances(indexed, order, item.height)
           written == SetTickDecimals(balanced, order.tick, order.decimals)
       IN work' = [written EXCEPT !.accepted = @ \cup
                     {[order |-> order, height |-> item.height,
                       need |-> requiredValidators]}]
    /\ at' = "batch" /\ done' = done + 1 /\ item' = None
    /\ UNCHANGED <<store, registryVars, oracleVars, governance>>

WriteTxFails ==
    /\ at = "sigs" /\ item.left = 0
    /\ ~LegacyAccepts(Oracle)
    /\ Abort

Commit == at = "batch" /\ Finish(work)

Next ==
    \/ Governance
    \/ \E sender \in Accounts : IndexTxMany(sender) \/ IndexTxManyFails(sender)
    \/ \E order \in Orders, height \in Heights, packs \in 0..MaxPacks :
          \/ IndexTxIter(order, height, packs)
          \/ IndexTxIterFails(order, height, packs)
    \/ \E pack \in SignaturePacks :
          \/ ValidateSignatureIter(pack)
          \/ ValidateSignatureIterFails(pack)
    \/ WriteTx
    \/ WriteTxFails
    \/ Commit

Spec == Init /\ [][Next]_vars
-----------------------------------------------------------------------------
OracleTypeOK ==
    /\ contractOwner \in Accounts
    /\ isPaused \in BOOLEAN
    /\ approvedRelayers \subseteq Accounts
    /\ validators \in [Accounts -> PubKeys \cup {None}]
    /\ validatorCount \in Nat
    /\ requiredValidators \in Nat

CallTypeOK ==
    /\ store \in Stores
    /\ work \in Stores
    /\ at \in {"idle", "batch", "sigs"}
    /\ done \in 0..MaxBatch
    /\ item \in Items \cup {None}
    /\ at = "sigs" => item \in Items /\ done < MaxBatch

(* Type correctness, including that validator-count never goes below zero  *)
(* (an underflow aborts a Clarity call).                                   *)
TypeOK == RegistryTypeOK /\ OracleTypeOK /\ CallTypeOK /\ governance \in Nat

(* validator-count, which add-validator and remove-validator adjust by     *)
(* one, is the number of registered validators, whatever their sequence.   *)
Registered == {a \in Accounts : validators[a] # None}
CountIsRegistered == validatorCount = Cardinality(Registered)

(* Each entry of bitcoin-tx-indexed states a transfer whose hash as many   *)
(* different validators signed as were required when it was indexed.       *)
Attesters(st, order) == {a \in Accounts : <<HashTx(order), a>> \in st.txValidatedBy}
HasQuorum(st, a) == Cardinality(Attesters(st, a.order)) >= a.need
IndexedHasQuorum ==
    \A p \in Places : store.indexed[p] # None =>
        \E a \in store.accepted : /\ PlaceOf(a.order) = p
                                  /\ TransferOf(a.order) = store.indexed[p]
                                  /\ HasQuorum(store, a)

(* Nothing is indexed of a Bitcoin transaction that is not recorded as     *)
(* mined, and on mainnet a height this contract recorded is the true one.  *)
MinedBefore(st) ==
    /\ \A a \in st.accepted : GetBitcoinTxMinedOrFail(st, a.order.bitcoinTx) # None
    /\ \A tx \in BitcoinTxs : Mainnet => st.mined[tx] \in {None, MinedIn[tx]}
IndexedIsMined == MinedBefore(store)

(* A validator's signature of a transfer is used for at most one indexing  *)
(* of it: the signatures spent are as many as the (hash, validator) pairs. *)
SignaturesSpentOnce == store.spent = Cardinality(store.txValidatedBy)

(* Whatever the order in which transfers arrive, a balance is one stated   *)
(* by a transfer of the highest block seen for that user and tick.         *)
Touches(a, h) == /\ h[2] = a.order.tick
                 /\ h[1] \in {a.order.from, a.order.to}
                 /\ a.height > 0
States(a, user, bal) == \/ user = a.order.from /\ bal = a.order.fromBal
                        \/ user = a.order.to /\ bal = a.order.toBal
LatestBalance(st, h) ==
    LET b == st.balance[h] IN
    /\ \A a \in st.accepted : Touches(a, h) => a.height <= b.upToBlock
    /\ b.upToBlock > 0 => \E a \in st.accepted : /\ Touches(a, h)
                                                 /\ a.height = b.upToBlock
                                                 /\ States(a, h[1], b.balance)
BalanceIsLatest == \A h \in Holdings : LatestBalance(store, h)

(* To its readers the contract is the ledger: nothing of a call can be     *)
(* seen before it ends or if it fails, and the balances after a batch are  *)
(* those of its highest transfers, whatever their order in the list.       *)
Public == INSTANCE Ledger WITH
    Place <- PlaceOf, Transfer <- TransferOf, Hash <- HashTx, Nobody <- None,
    accepted <- store.accepted, used <- store.txValidatedBy,
    indexed <- store.indexed, balance <- store.balance
ImplementsLedger == Public!Spec

(* A recorded balance changes only together with a later block height.     *)
Ahead(new, old) == \A h \in Holdings :
    \/ new.balance[h] = old.balance[h]
    \/ new.balance[h].upToBlock > old.balance[h].upToBlock
BalancesNeverGoBack == [][Ahead(store', store)]_vars

(* While either registry is paused no call changes any map, the oracle's   *)
(* own tx-validated-by included: the last refused write undoes the rest.   *)
PausedRegistryFreezes ==
    [][(registryPaused \/ legacyPaused) => store' = store]_vars
=============================================================================
