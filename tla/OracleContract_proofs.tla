------------------------ MODULE OracleContract_proofs -------------------------
(***************************************************************************)
(* Theorems about the oracle contract for every set of orders, validators, *)
(* heights and bounds.                                                     *)
(***************************************************************************)
EXTENDS OracleContract, FiniteSetTheorems, TLAPS

-----------------------------------------------------------------------------
(* The stores: each write of a well-formed store yields a well-formed one. *)

LEMMA EmptyStoreType == EmptyStore \in Stores
  BY DEF EmptyStore, Stores, Balances

LEMMA SetTxMinedType ==
  ASSUME NEW st \in Stores, NEW tx \in BitcoinTxs, NEW h \in Nat
  PROVE  SetTxMined(st, tx, h) \in Stores
  BY DEF SetTxMined, Stores

LEMMA SetTxIndexedType ==
  ASSUME NEW st \in Stores, NEW p \in Places, NEW t \in Transfers
  PROVE  SetTxIndexed(st, p, t) \in Stores
  BY DEF SetTxIndexed, Stores

LEMMA SetUserBalanceType ==
  ASSUME NEW st \in Stores, NEW u \in Users, NEW t \in Ticks, NEW b \in Nat, NEW h \in Nat
  PROVE  SetUserBalance(st, u, t, b, h) \in Stores
  BY DEF SetUserBalance, Stores, Balances, Holdings

LEMMA SetTickDecimalsType ==
  ASSUME NEW st \in Stores, NEW t \in Ticks, NEW d \in Nat
  PROVE  SetTickDecimals(st, t, d) \in Stores
  BY DEF SetTickDecimals, Stores

LEMMA OrderFields ==
  ASSUME NEW o \in Orders
  PROVE  /\ o.bitcoinTx \in BitcoinTxs /\ o.slot \in Slots /\ o.tick \in Ticks
         /\ o.from \in Users /\ o.to \in Users
         /\ o.amt \in Nat /\ o.fromBal \in Nat /\ o.toBal \in Nat /\ o.decimals \in Nat
         /\ PlaceOf(o) \in Places
         /\ TransferOf(o) \in Transfers
         /\ HashTx(o) \in TxHashes
  BY OracleConstants DEF OrderType, PlaceOf, TransferOf, Places, Transfers, TxHashes

LEMMA UpdateBalancesType ==
  ASSUME NEW st \in Stores, NEW o \in Orders, NEW h \in Nat
  PROVE  UpdateBalances(st, o, h) \in Stores
  <1> DEFINE from == IF Newer(o.from, o, h)
                     THEN SetUserBalance(st, o.from, o.tick, o.fromBal, h) ELSE st
  <1>1. from \in Stores
    BY OrderFields, SetUserBalanceType
  <1> HIDE DEF from
  <1>2. SetUserBalance(from, o.to, o.tick, o.toBal, h) \in Stores
    BY <1>1, OrderFields, SetUserBalanceType
  <1>3. UpdateBalances(st, o, h) =
          IF Newer(o.to, o, h) THEN SetUserBalance(from, o.to, o.tick, o.toBal, h) ELSE from
    BY DEF UpdateBalances, from
  <1> QED BY <1>1, <1>2, <1>3

-----------------------------------------------------------------------------
(* The inductive invariant.  The properties speak of the committed store;  *)
(* a call in progress must keep them on its copy, and while it folds over  *)
(* signatures the ones seen so far and the ones to come make a quorum.     *)

Backed(st) == \A p \in Places : st.indexed[p] # None =>
    \E a \in st.accepted : PlaceOf(a.order) = p /\ TransferOf(a.order) = st.indexed[p]
Quorums(st) == \A a \in st.accepted : HasQuorum(st, a)
Spent(st) == IsFiniteSet(st.txValidatedBy) /\ st.spent = Cardinality(st.txValidatedBy)
Latest(st) == \A h \in Holdings : LatestBalance(st, h)
StoreInv(st) == Backed(st) /\ Quorums(st) /\ MinedBefore(st) /\ Spent(st) /\ Latest(st)

ItemInv ==
    /\ item.signers \subseteq Attesters(work, item.order)
    /\ Cardinality(item.signers) + item.left >= requiredValidators
    /\ GetBitcoinTxMinedOrFail(work, item.order.bitcoinTx) # None

CallInv ==
    /\ at = "idle" => done = 0
    /\ at # "idle" => Ahead(work, store)
    /\ at = "batch" /\ done = 0 => work = store
    /\ done > 0 => LegacyAccepts(Oracle)

IInv ==
    /\ TypeOK
    /\ CountIsRegistered
    /\ StoreInv(store)
    /\ StoreInv(work)
    /\ at = "sigs" => ItemInv
    /\ CallInv

-----------------------------------------------------------------------------
(* Type correctness.                                                       *)

LEMMA RegisteredFinite ==
  /\ IsFiniteSet(Registered)
  /\ IsFiniteSet({a \in Accounts : SetUpValidators[a] # None})
  BY RegistryConstants, FS_Subset DEF Registered

LEMMA InitType == Init => TypeOK
  <1> SUFFICES ASSUME Init PROVE TypeOK
    OBVIOUS
  <1>1. Cardinality({a \in Accounts : SetUpValidators[a] # None}) \in Nat
    BY RegisteredFinite, FS_CardinalityType
  <1>2. RegistryTypeOK
    BY RegistryConstants DEF Init, Deployed, SetUp, RegistryDeployed, RegistrySetUp,
       RegistryTypeOK, Principals
  <1>3. isPaused \in BOOLEAN
    BY Zenon DEF Init, Deployed, SetUp
  <1>4. OracleTypeOK
    BY <1>1, <1>3, RegistryConstants, OracleConstants DEF Init, Deployed, SetUp, OracleTypeOK
  <1>5. CallTypeOK
    BY EmptyStoreType, OracleConstants DEF Init, CallTypeOK
  <1> QED BY <1>2, <1>4, <1>5 DEF Init, TypeOK

(* Executing a call changes no data-var of the three contracts.            *)
LEMMA CallLeavesGovernance ==
  ASSUME [Next]_vars, ~Governance
  PROVE  UNCHANGED <<registryVars, oracleVars, governance>>
  <1> USE DEF Abort, Finish
  <1>1. ASSUME NEW sender \in Accounts, IndexTxMany(sender) \/ IndexTxManyFails(sender)
        PROVE  UNCHANGED <<registryVars, oracleVars, governance>>
    BY <1>1 DEF IndexTxMany, IndexTxManyFails, vars
  <1>2. ASSUME NEW o \in Orders, NEW h \in Heights, NEW n \in 0..MaxPacks,
               IndexTxIter(o, h, n) \/ IndexTxIterFails(o, h, n)
        PROVE  UNCHANGED <<registryVars, oracleVars, governance>>
    BY <1>2 DEF IndexTxIter, IndexTxIterFails
  <1>3. ASSUME NEW pack \in SignaturePacks,
               ValidateSignatureIter(pack) \/ ValidateSignatureIterFails(pack)
        PROVE  UNCHANGED <<registryVars, oracleVars, governance>>
    BY <1>3 DEF ValidateSignatureIter, ValidateSignatureIterFails
  <1>4. CASE WriteTx \/ WriteTxFails \/ Commit
    BY <1>4 DEF WriteTx, WriteTxFails, Commit
  <1>5. CASE UNCHANGED vars
    BY <1>5 DEF vars
  <1> QED BY <1>1, <1>2, <1>3, <1>4, <1>5 DEF Next

(* remove-validator does not underflow because the count is the number of  *)
(* registered validators and the one it removes is among them.             *)
LEMMA CountStep ==
  ASSUME TypeOK, CountIsRegistered, [Next]_vars
  PROVE  CountIsRegistered' /\ validatorCount' \in Nat
  <1>1. CASE UNCHANGED <<validators, validatorCount>>
    BY <1>1 DEF CountIsRegistered, Registered, TypeOK, OracleTypeOK
  <1>2. ASSUME NEW sender \in Accounts, NEW key \in PubKeys, NEW v \in Accounts,
               AddValidator(sender, key, v)
        PROVE  CountIsRegistered' /\ validatorCount' \in Nat
    <2>1. Registered' = Registered \cup {v} /\ v \notin Registered
      BY <1>2, OracleConstants DEF AddValidator, Registered, TypeOK, OracleTypeOK
    <2>2. Cardinality(Registered') = Cardinality(Registered) + 1
      BY <2>1, RegisteredFinite, FS_AddElement
    <2> QED BY <1>2, <2>2 DEF AddValidator, CountIsRegistered, TypeOK, OracleTypeOK
  <1>3. ASSUME NEW sender \in Accounts, NEW v \in Accounts, RemoveValidator(sender, v)
        PROVE  CountIsRegistered' /\ validatorCount' \in Nat
    <2>1. Registered' = Registered \ {v} /\ v \in Registered
      BY <1>3 DEF RemoveValidator, Registered, TypeOK, OracleTypeOK
    <2>2. /\ IsFiniteSet(Registered \ {v})
          /\ Cardinality(Registered \ {v}) = Cardinality(Registered) - 1
      BY <2>1, RegisteredFinite, FS_RemoveElement
    <2>3. Cardinality(Registered \ {v}) \in Nat
      BY <2>2, FS_CardinalityType
    <2> QED BY <1>3, <2>1, <2>2, <2>3 DEF RemoveValidator, CountIsRegistered
  <1>4. CASE Governance
    <2>1. PICK sender \in Accounts : \/ OracleGovernance(sender) /\ UNCHANGED registryVars
                                     \/ RegistryGovernance(sender) /\ UNCHANGED oracleVars
      BY <1>4 DEF Governance
    <2>2. CASE OracleGovernance(sender)
      BY <2>2, <1>1, <1>2, <1>3 DEF OracleGovernance, SetPaused, ApproveRelayer,
         SetRequiredValidators, SetContractOwner
    <2> QED BY <1>1, <2>1, <2>2 DEF oracleVars
  <1>5. CASE ~Governance
    BY <1>1, <1>5, CallLeavesGovernance DEF oracleVars
  <1> QED BY <1>4, <1>5

LEMMA GovernanceType ==
  ASSUME TypeOK, Governance, validatorCount' \in Nat
  PROVE  TypeOK'
  <1>1. PICK sender \in Accounts : \/ OracleGovernance(sender) /\ UNCHANGED registryVars
                                   \/ RegistryGovernance(sender) /\ UNCHANGED oracleVars
    BY DEF Governance
  <1>2. CallTypeOK' /\ governance' \in Nat
    BY DEF Governance, TypeOK, CallTypeOK, callVars
  <1>3. CASE OracleGovernance(sender) /\ UNCHANGED registryVars
    <2>1. RegistryTypeOK'
      BY <1>3 DEF TypeOK, RegistryTypeOK, registryVars
    <2>2. isPaused' \in BOOLEAN
      BY <1>3 DEF OracleGovernance, SetPaused, AddValidator, RemoveValidator,
         ApproveRelayer, SetRequiredValidators, SetContractOwner, TypeOK, OracleTypeOK
    <2>3. OracleTypeOK'
      BY <1>3, <2>2, OracleConstants DEF OracleGovernance, SetPaused, AddValidator,
         RemoveValidator, ApproveRelayer, SetRequiredValidators, SetContractOwner,
         TypeOK, OracleTypeOK
    <2> QED BY <1>2, <2>1, <2>3 DEF TypeOK
  <1>4. CASE RegistryGovernance(sender) /\ UNCHANGED oracleVars
    <2>1. OracleTypeOK'
      BY <1>4 DEF TypeOK, OracleTypeOK, oracleVars
    <2>2. RegistryTypeOK'
      BY <1>4 DEF TypeOK, RegistryTypeOK, Principals, RegistryGovernance,
         RegistrySetPaused, RegistrySetContractOwner, ApproveOperator, SetPausedLegacy,
         SetContractOwnerLegacy, LegacySetPaused, LegacyApproveOperator,
         LegacySetContractOwner
    <2> QED BY <1>2, <2>1, <2>2 DEF TypeOK
  <1> QED BY <1>1, <1>3, <1>4

LEMMA CallType ==
  ASSUME TypeOK, [Next]_vars, ~Governance
  PROVE  CallTypeOK'
  <1> USE OracleConstants DEF TypeOK, CallTypeOK
  <1>1. ASSUME Abort PROVE CallTypeOK'
    BY <1>1, EmptyStoreType DEF Abort, Finish
  <1>2. ASSUME NEW sender \in Accounts, IndexTxMany(sender) \/ IndexTxManyFails(sender)
        PROVE  CallTypeOK'
    BY <1>2 DEF IndexTxMany, IndexTxManyFails, vars, callVars
  <1>3. ASSUME NEW o \in Orders, NEW h \in Heights, NEW n \in 0..MaxPacks,
               IndexTxIter(o, h, n)
        PROVE  CallTypeOK'
    <2>1. o.bitcoinTx \in BitcoinTxs /\ h \in Nat
      BY OrderFields
    <2>2. work' \in Stores
      BY <1>3, <2>1, SetTxMinedType DEF IndexTxIter
    <2>3. item' \in Items
      BY <1>3 DEF IndexTxIter, Items
    <2> QED BY <1>3, <2>2, <2>3 DEF IndexTxIter
  <1>4. ASSUME NEW pack \in SignaturePacks, ValidateSignatureIter(pack)
        PROVE  CallTypeOK'
    <2>1. item \in Items /\ pack.signer \in Accounts /\ HashTx(item.order) \in TxHashes
      BY <1>4 DEF ValidateSignatureIter, SignaturePacks, Items, TxHashes
    <2> DEFINE left == item.left - 1
               signers == item.signers \cup {pack.signer}
               pairs == work.txValidatedBy \cup {<<HashTx(item.order), pack.signer>>}
    <2>2. left \in 0..MaxPacks /\ signers \in SUBSET Accounts
      BY <1>4, <2>1 DEF ValidateSignatureIter, Items
    <2>3. pairs \in SUBSET (TxHashes \X Accounts) /\ work.spent + 1 \in Nat
      BY <2>1 DEF Stores
    <2>4. item' = [item EXCEPT !.left = left, !.signers = signers]
      BY <1>4 DEF ValidateSignatureIter
    <2>5. work' = [work EXCEPT !.txValidatedBy = pairs, !.spent = work.spent + 1]
      BY <1>4 DEF ValidateSignatureIter
    <2> HIDE DEF left, signers, pairs
    <2>6. item' \in Items
      BY <2>1, <2>2, <2>4 DEF Items
    <2>7. work' \in Stores
      BY <2>3, <2>5 DEF Stores
    <2> QED BY <1>4, <2>6, <2>7 DEF ValidateSignatureIter
  <1>5. CASE WriteTx
    <2> DEFINE o == item.order
               st1 == SetTxIndexed(work, PlaceOf(o), TransferOf(o))
               st2 == UpdateBalances(st1, o, item.height)
               st3 == SetTickDecimals(st2, o.tick, o.decimals)
               a == [order |-> o, height |-> item.height, need |-> requiredValidators]
    <2>1. item \in Items /\ o \in Orders /\ item.height \in Nat
      BY <1>5 DEF WriteTx, Items
    <2>2. st1 \in Stores
      BY <2>1, OrderFields, SetTxIndexedType
    <2>3. st2 \in Stores
      BY <2>1, <2>2, UpdateBalancesType
    <2>4. st3 \in Stores
      BY <2>1, <2>3, OrderFields, SetTickDecimalsType
    <2>5. a \in Acceptances
      BY <2>1 DEF Acceptances, Items, OracleTypeOK
    <2>6. work' = [st3 EXCEPT !.accepted = @ \cup {a}]
      BY <1>5 DEF WriteTx
    <2> HIDE DEF st3, a
    <2>7. work' \in Stores
      BY <2>4, <2>5, <2>6 DEF Stores
    <2>8. done' \in 0..MaxBatch
      BY <1>5 DEF WriteTx
    <2> QED BY <1>5, <2>7, <2>8 DEF WriteTx
  <1>6. CASE Commit
    BY <1>6, EmptyStoreType DEF Commit, Finish
  <1>7. CASE UNCHANGED vars
    BY <1>7 DEF vars, callVars
  <1> QED
    BY <1>1, <1>2, <1>3, <1>4, <1>5, <1>6, <1>7
    DEF Next, IndexTxIterFails, ValidateSignatureIterFails, WriteTxFails

LEMMA NextType ==
  ASSUME TypeOK, CountIsRegistered, [Next]_vars
  PROVE  TypeOK' /\ CountIsRegistered'
  <1>1. CountIsRegistered' /\ validatorCount' \in Nat
    BY CountStep
  <1>2. CASE Governance
    BY <1>1, <1>2, GovernanceType
  <1>3. CASE ~Governance
    <2>1. UNCHANGED <<registryVars, oracleVars, governance>> /\ CallTypeOK'
      BY <1>3, CallLeavesGovernance, CallType
    <2> QED
      BY <1>1, <2>1 DEF TypeOK, RegistryTypeOK, OracleTypeOK, registryVars, oracleVars
  <1> QED BY <1>1, <1>2, <1>3

-----------------------------------------------------------------------------
(* Each piece of a call keeps the store invariant of its copy.             *)

LEMMA EmptyStoreInv == StoreInv(EmptyStore)
  <1>1. Spent(EmptyStore)
    BY FS_EmptySet DEF Spent, EmptyStore
  <1> QED
    BY <1>1 DEF StoreInv, Backed, Quorums, MinedBefore, Latest, LatestBalance, EmptyStore

LEMMA AttestersFinite ==
  ASSUME NEW st, NEW o
  PROVE  IsFiniteSet(Attesters(st, o)) /\ Cardinality(Attesters(st, o)) \in Nat
  <1>1. IsFiniteSet(Attesters(st, o))
    BY RegistryConstants, FS_Subset DEF Attesters
  <1> QED BY <1>1, FS_CardinalityType

(* More signatures never break a quorum.                                   *)
LEMMA QuorumGrows ==
  ASSUME NEW s1 \in Stores, NEW s2 \in Stores, s1.txValidatedBy \subseteq s2.txValidatedBy,
         NEW a \in Acceptances, HasQuorum(s1, a)
  PROVE  HasQuorum(s2, a)
  <1>1. Attesters(s1, a.order) \subseteq Attesters(s2, a.order)
    BY DEF Attesters
  <1>2. Cardinality(Attesters(s1, a.order)) <= Cardinality(Attesters(s2, a.order))
    BY <1>1, AttestersFinite, FS_Subset
  <1> QED BY <1>2, AttestersFinite DEF HasQuorum, Acceptances

LEMMA MinedStep ==
  ASSUME NEW st \in Stores, StoreInv(st), NEW tx \in BitcoinTxs, NEW h \in Nat,
         GetBitcoinTxMinedOrFail(st, tx) = None, VerifyMined(tx, h)
  PROVE  /\ StoreInv(SetTxMined(st, tx, h))
         /\ GetBitcoinTxMinedOrFail(SetTxMined(st, tx, h), tx) # None
  <1> DEFINE new == SetTxMined(st, tx, h)
  <1>1. /\ new \in Stores
        /\ new.mined = [st.mined EXCEPT ![tx] = h]
        /\ new.indexed = st.indexed /\ new.accepted = st.accepted
        /\ new.txValidatedBy = st.txValidatedBy /\ new.spent = st.spent
        /\ new.balance = st.balance
    BY SetTxMinedType DEF SetTxMined, Stores
  <1> HIDE DEF new
  <1>2. Backed(new) /\ Spent(new)
    BY <1>1 DEF StoreInv, Backed, Spent
  <1>3. Latest(new)
    BY <1>1 DEF StoreInv, Latest, LatestBalance
  <1>4. Quorums(new)
    BY <1>1, QuorumGrows DEF StoreInv, Quorums, Stores
  <1>5. /\ GetBitcoinTxMinedOrFail(new, tx) # None
        /\ \A t \in BitcoinTxs : GetBitcoinTxMinedOrFail(st, t) # None =>
                                   GetBitcoinTxMinedOrFail(new, t) # None
    BY <1>1, RegistryConstants DEF GetBitcoinTxMinedOrFail, Stores
  <1>6. \A t \in BitcoinTxs : Mainnet => new.mined[t] \in {None, MinedIn[t]}
    BY <1>1 DEF StoreInv, MinedBefore, VerifyMined, Stores
  <1>7. \A a \in st.accepted : a.order.bitcoinTx \in BitcoinTxs
    BY OrderFields DEF Stores, Acceptances
  <1>8. MinedBefore(new)
    BY <1>1, <1>5, <1>6, <1>7 DEF StoreInv, MinedBefore
  <1> QED BY <1>2, <1>3, <1>4, <1>5, <1>8 DEF StoreInv, new

LEMMA SignStep ==
  ASSUME NEW st \in Stores, StoreInv(st), NEW new \in Stores, NEW pair,
         pair \notin st.txValidatedBy,
         new = [st EXCEPT !.txValidatedBy = st.txValidatedBy \cup {pair},
                          !.spent = st.spent + 1]
  PROVE  StoreInv(new)
  <1>1. /\ new.mined = st.mined /\ new.indexed = st.indexed
        /\ new.accepted = st.accepted /\ new.balance = st.balance
        /\ new.txValidatedBy = st.txValidatedBy \cup {pair}
        /\ new.spent = st.spent + 1
    BY DEF Stores
  <1> USE DEF StoreInv
  <1>2. Backed(new) /\ Latest(new)
    <2>1. Backed(new)
      BY <1>1 DEF Backed
    <2>2. Latest(new)
      BY <1>1 DEF Latest, LatestBalance
    <2> QED BY <2>1, <2>2
  <1>3. MinedBefore(new)
    BY <1>1 DEF MinedBefore, GetBitcoinTxMinedOrFail
  <1>4. Quorums(new)
    <2>1. st.txValidatedBy \subseteq new.txValidatedBy /\ st.accepted \subseteq Acceptances
      BY <1>1 DEF Stores
    <2> QED BY <1>1, <2>1, QuorumGrows DEF Quorums
  <1>5. Spent(new)
    BY <1>1, FS_AddElement DEF StoreInv, Spent
  <1> QED BY <1>2, <1>3, <1>4, <1>5 DEF StoreInv

(* What the four writes of index-tx-iter leave in each field.              *)
LEMMA UpdateBalancesFields ==
  ASSUME NEW st \in Stores, NEW o \in Orders, NEW h \in Nat
  PROVE  LET new == UpdateBalances(st, o, h) IN
         /\ new.mined = st.mined /\ new.indexed = st.indexed
         /\ new.accepted = st.accepted
         /\ new.txValidatedBy = st.txValidatedBy /\ new.spent = st.spent
         /\ \A hd \in Holdings : new.balance[hd] =
               CASE hd = <<o.to, o.tick>> /\ Newer(o.to, o, h) ->
                      [balance |-> o.toBal, upToBlock |-> h]
                 [] hd = <<o.from, o.tick>> /\ Newer(o.from, o, h)
                      /\ ~(hd = <<o.to, o.tick>> /\ Newer(o.to, o, h)) ->
                      [balance |-> o.fromBal, upToBlock |-> h]
                 [] OTHER -> st.balance[hd]
  <1> DEFINE from == IF Newer(o.from, o, h)
                     THEN SetUserBalance(st, o.from, o.tick, o.fromBal, h) ELSE st
  <1>0. <<o.from, o.tick>> \in Holdings /\ <<o.to, o.tick>> \in Holdings
    BY OrderFields DEF Holdings
  <1>1. from \in Stores
    BY OrderFields, SetUserBalanceType
  <1>2. /\ from.mined = st.mined /\ from.indexed = st.indexed
        /\ from.accepted = st.accepted
        /\ from.txValidatedBy = st.txValidatedBy /\ from.spent = st.spent
        /\ \A hd \in Holdings : from.balance[hd] =
              IF hd = <<o.from, o.tick>> /\ Newer(o.from, o, h)
              THEN [balance |-> o.fromBal, upToBlock |-> h] ELSE st.balance[hd]
    BY <1>0 DEF SetUserBalance, Stores
  <1> HIDE DEF from
  <1> DEFINE new == IF Newer(o.to, o, h)
                    THEN SetUserBalance(from, o.to, o.tick, o.toBal, h) ELSE from
  <1>3. UpdateBalances(st, o, h) = new
    BY DEF UpdateBalances, from
  <1>4. /\ new.mined = from.mined /\ new.indexed = from.indexed
        /\ new.accepted = from.accepted
        /\ new.txValidatedBy = from.txValidatedBy /\ new.spent = from.spent
        /\ \A hd \in Holdings : new.balance[hd] =
              IF hd = <<o.to, o.tick>> /\ Newer(o.to, o, h)
              THEN [balance |-> o.toBal, upToBlock |-> h] ELSE from.balance[hd]
    BY <1>0, <1>1 DEF SetUserBalance, Stores
  <1> HIDE DEF new
  <1> QED BY <1>2, <1>3, <1>4

LEMMA WriteFields ==
  ASSUME TypeOK, WriteTx
  PROVE  LET o == item.order
             h == item.height
             a == [order |-> o, height |-> h, need |-> requiredValidators]
         IN /\ item \in Items /\ o \in Orders /\ h \in Nat /\ a \in Acceptances
            /\ work'.mined = work.mined
            /\ work'.indexed = [work.indexed EXCEPT ![PlaceOf(o)] = TransferOf(o)]
            /\ work'.accepted = work.accepted \cup {a}
            /\ work'.txValidatedBy = work.txValidatedBy /\ work'.spent = work.spent
            /\ \A hd \in Holdings : work'.balance[hd] =
                  CASE hd = <<o.to, o.tick>> /\ Newer(o.to, o, h) ->
                         [balance |-> o.toBal, upToBlock |-> h]
                    [] hd = <<o.from, o.tick>> /\ Newer(o.from, o, h)
                         /\ ~(hd = <<o.to, o.tick>> /\ Newer(o.to, o, h)) ->
                         [balance |-> o.fromBal, upToBlock |-> h]
                    [] OTHER -> work.balance[hd]
  <1> USE OracleConstants DEF TypeOK, CallTypeOK
  <1> DEFINE o == item.order
             st1 == SetTxIndexed(work, PlaceOf(o), TransferOf(o))
             st2 == UpdateBalances(st1, o, item.height)
             st3 == SetTickDecimals(st2, o.tick, o.decimals)
             a == [order |-> o, height |-> item.height, need |-> requiredValidators]
  <1>1. item \in Items /\ o \in Orders /\ item.height \in Nat /\ a \in Acceptances
    BY DEF WriteTx, Items, Acceptances, OracleTypeOK
  <1>2. st1 \in Stores
    BY <1>1, OrderFields, SetTxIndexedType
  <1>3. /\ st1.mined = work.mined /\ st1.accepted = work.accepted
        /\ st1.indexed = [work.indexed EXCEPT ![PlaceOf(o)] = TransferOf(o)]
        /\ st1.txValidatedBy = work.txValidatedBy /\ st1.spent = work.spent
        /\ st1.balance = work.balance
    BY DEF SetTxIndexed, Stores
  <1> HIDE DEF st1
  <1>4. st2 \in Stores
    BY <1>1, <1>2, UpdateBalancesType
  <1>5. /\ st2.mined = st1.mined /\ st2.indexed = st1.indexed
        /\ st2.accepted = st1.accepted
        /\ st2.txValidatedBy = st1.txValidatedBy /\ st2.spent = st1.spent
        /\ \A hd \in Holdings : st2.balance[hd] =
               CASE hd = <<o.to, o.tick>> /\ Newer(o.to, o, item.height) ->
                      [balance |-> o.toBal, upToBlock |-> item.height]
                 [] hd = <<o.from, o.tick>> /\ Newer(o.from, o, item.height)
                      /\ ~(hd = <<o.to, o.tick>> /\ Newer(o.to, o, item.height)) ->
                      [balance |-> o.fromBal, upToBlock |-> item.height]
                 [] OTHER -> st1.balance[hd]
    BY <1>1, <1>2, UpdateBalancesFields
  <1> HIDE DEF st2
  <1>6. st3 \in Stores
    BY <1>1, <1>4, OrderFields, SetTickDecimalsType
  <1>7. /\ st3.mined = st2.mined /\ st3.indexed = st2.indexed
        /\ st3.accepted = st2.accepted
        /\ st3.txValidatedBy = st2.txValidatedBy /\ st3.spent = st2.spent
        /\ st3.balance = st2.balance
    BY <1>4 DEF SetTickDecimals, Stores
  <1>8. work' = [st3 EXCEPT !.accepted = @ \cup {a}]
    BY DEF WriteTx, st1, st2
  <1> HIDE DEF st3
  <1>9. /\ work'.mined = st3.mined /\ work'.indexed = st3.indexed
        /\ work'.accepted = st3.accepted \cup {a}
        /\ work'.txValidatedBy = st3.txValidatedBy /\ work'.spent = st3.spent
        /\ work'.balance = st3.balance
    BY <1>6, <1>8 DEF Stores
  <1> QED BY <1>1, <1>3, <1>5, <1>7, <1>9

LEMMA WriteStep ==
  ASSUME TypeOK, StoreInv(work), ItemInv, WriteTx, work' \in Stores
  PROVE  StoreInv(work)' /\ Ahead(work', work)
  <1> DEFINE o == item.order
             h == item.height
             a == [order |-> o, height |-> h, need |-> requiredValidators]
  <1>1. item \in Items /\ o \in Orders /\ h \in Nat /\ a \in Acceptances
    BY WriteFields
  <1>2. /\ work'.mined = work.mined
        /\ work'.indexed = [work.indexed EXCEPT ![PlaceOf(o)] = TransferOf(o)]
        /\ work'.accepted = work.accepted \cup {a}
        /\ work'.txValidatedBy = work.txValidatedBy /\ work'.spent = work.spent
    BY WriteFields
  <1>3. work \in Stores
    BY DEF TypeOK, CallTypeOK
  <1>4. Backed(work)'
    <2> SUFFICES ASSUME NEW p \in Places, work'.indexed[p] # None
                 PROVE  \E b \in work'.accepted :
                          PlaceOf(b.order) = p /\ TransferOf(b.order) = work'.indexed[p]
      BY DEF Backed
    <2>1. CASE p = PlaceOf(o)
      <3>1. work'.indexed[p] = TransferOf(o)
        BY <1>2, <1>3, <2>1 DEF Stores
      <3>2. a \in work'.accepted /\ a.order = o
        BY <1>2
      <3> QED BY <2>1, <3>1, <3>2
    <2>2. CASE p # PlaceOf(o)
      BY <1>2, <1>3, <2>2 DEF Stores, StoreInv, Backed
    <2> QED BY <2>1, <2>2
  <1>5. Quorums(work)'
    <2>1. HasQuorum(work', a)
      <3>1. item.signers \subseteq Attesters(work, o)
            /\ Cardinality(item.signers) >= requiredValidators
        <4>1. IsFiniteSet(item.signers)
          BY <1>1, RegistryConstants, FS_Subset DEF Items
        <4> QED BY <4>1, FS_CardinalityType DEF ItemInv, WriteTx
      <3>2. Cardinality(item.signers) <= Cardinality(Attesters(work, o))
        BY <3>1, AttestersFinite, FS_Subset
      <3>3. Attesters(work', o) = Attesters(work, o)
        BY <1>2 DEF Attesters
      <3>4. IsFiniteSet(item.signers) /\ Cardinality(item.signers) \in Nat
        BY <1>1, RegistryConstants, FS_Subset, FS_CardinalityType DEF Items
      <3> QED
        BY <3>1, <3>2, <3>3, <3>4, AttestersFinite DEF HasQuorum, TypeOK, OracleTypeOK
    <2>2. \A b \in work.accepted : HasQuorum(work', b)
      <3>1. work.txValidatedBy \subseteq work'.txValidatedBy
            /\ work.accepted \subseteq Acceptances
        BY <1>2, <1>3 DEF Stores
      <3> QED BY <1>3, <3>1, QuorumGrows DEF StoreInv, Quorums
    <2> QED BY <1>2, <2>1, <2>2 DEF Quorums
  <1>6. MinedBefore(work)'
    BY <1>2 DEF StoreInv, MinedBefore, ItemInv, GetBitcoinTxMinedOrFail
  <1>7. Spent(work)'
    BY <1>2 DEF StoreInv, Spent
  <1>8. ASSUME NEW hd \in Holdings
        PROVE  /\ LatestBalance(work', hd)
               /\ \/ work'.balance[hd] = work.balance[hd]
                  \/ work'.balance[hd].upToBlock > work.balance[hd].upToBlock
    <2>1. LatestBalance(work, hd)
      BY DEF StoreInv, Latest
    <2>2. \A b \in work.accepted : b.height \in Nat
      BY <1>3, OracleConstants DEF Stores, Acceptances
    <2>3. work.balance[hd] \in Balances /\ hd = <<hd[1], hd[2]>>
      BY <1>3 DEF Stores, Holdings
    <2>4. CASE work'.balance[hd] = work.balance[hd]
      <3>1. Touches(a, hd) => h <= work.balance[hd].upToBlock
        BY <1>1, <2>3, <2>4, WriteFields
        DEF Touches, Newer, GetUserBalanceOrDefault, Balances
      <3> QED BY <1>2, <2>1, <2>4, <3>1 DEF LatestBalance
    <2>5. CASE work'.balance[hd] # work.balance[hd]
      <3>1. /\ work'.balance[hd].upToBlock = h
            /\ h > work.balance[hd].upToBlock
            /\ States(a, hd[1], work'.balance[hd].balance)
            /\ hd[2] = o.tick /\ hd[1] \in {o.from, o.to}
        BY <2>5, WriteFields DEF States, Newer, GetUserBalanceOrDefault
      <3>2. Touches(a, hd) /\ h > 0
        BY <1>1, <2>3, <3>1 DEF Touches, Balances
      <3>3. \A b \in work.accepted : Touches(b, hd) => b.height <= h
        BY <1>1, <2>1, <2>2, <2>3, <3>1 DEF LatestBalance, Balances
      <3> QED BY <1>1, <1>2, <3>1, <3>2, <3>3 DEF LatestBalance
    <2> QED BY <2>4, <2>5
  <1> QED BY <1>4, <1>5, <1>6, <1>7, <1>8 DEF StoreInv, Latest, Ahead

-----------------------------------------------------------------------------
(* The invariant is inductive.                                             *)

LEMMA InitInv == Init => IInv
  <1> SUFFICES ASSUME Init PROVE IInv
    OBVIOUS
  <1>1. CountIsRegistered
    <2>1. CASE Deployed
      <3>1. Registered = {}
        BY <2>1 DEF Deployed, Registered
      <3> QED BY <2>1, <3>1, FS_EmptySet DEF Deployed, CountIsRegistered
    <2>2. CASE SetUp
      BY <2>2 DEF SetUp, CountIsRegistered, Registered
    <2> QED BY <2>1, <2>2 DEF Init
  <1>2. CallInv
    BY DEF Init, CallInv
  <1> QED
    BY <1>1, <1>2, InitType, EmptyStoreInv DEF Init, IInv

LEMMA StepInv == IInv /\ [Next]_vars => IInv'
  <1> SUFFICES ASSUME IInv, [Next]_vars PROVE IInv'
    OBVIOUS
  <1>1. TypeOK' /\ CountIsRegistered'
    BY NextType DEF IInv
  <1> USE DEF IInv
  <1>2. CASE Governance
    <2>1. UNCHANGED <<store, work, at, done, item>> /\ at = "idle"
      BY <1>2 DEF Governance, callVars
    <2> QED BY <1>1, <2>1 DEF CallInv
  <1>3. ASSUME ~Governance
        PROVE  /\ LegacyAccepts(Oracle) => LegacyAccepts(Oracle)'
               /\ requiredValidators' = requiredValidators
    BY <1>3, CallLeavesGovernance DEF registryVars, oracleVars, LegacyAccepts,
       RegistryAccepts, RegistryApproved, LegacyApproved
  <1>4. ASSUME Abort PROVE IInv'
    BY <1>1, <1>4, EmptyStoreInv DEF Abort, Finish, CallInv
  <1>5. ASSUME NEW sender \in Accounts, IndexTxMany(sender) PROVE IInv'
    <2>1. store' = store /\ work' = store /\ at' = "batch" /\ done' = 0
      BY <1>5 DEF IndexTxMany, CallInv
    <2> QED BY <1>1, <2>1 DEF CallInv, Ahead
  <1>6. ASSUME ~Governance, NEW o \in Orders, NEW h \in Heights, NEW n \in 0..MaxPacks,
               IndexTxIter(o, h, n)
        PROVE  IInv'
    <2>1. /\ o.bitcoinTx \in BitcoinTxs /\ h \in Nat /\ n \in Nat
          /\ work \in Stores /\ requiredValidators \in Nat
      BY OrderFields, OracleConstants DEF TypeOK, CallTypeOK, OracleTypeOK
    <2>2. /\ StoreInv(work')
          /\ GetBitcoinTxMinedOrFail(work', o.bitcoinTx) # None
          /\ work'.balance = work.balance
      <3>1. CASE KnownMined(o)
        BY <1>6, <3>1 DEF IndexTxIter, KnownMined
      <3>2. CASE ~KnownMined(o)
        <4>1. work' = SetTxMined(work, o.bitcoinTx, h) /\ VerifyMined(o.bitcoinTx, h)
          BY <1>6, <3>2 DEF IndexTxIter, IterAccepts
        <4>2. work'.balance = work.balance
          BY <2>1, <4>1 DEF SetTxMined, Stores
        <4> QED BY <2>1, <3>2, <4>1, <4>2, MinedStep DEF KnownMined
      <3> QED BY <3>1, <3>2
    <2>3. ItemInv'
      <3>1. /\ item' = [order |-> o, height |-> h, left |-> n, signers |-> {}]
            /\ n >= requiredValidators
        BY <1>6 DEF IndexTxIter, IterAccepts
      <3> QED BY <1>3, <1>6, <2>1, <2>2, <3>1, FS_EmptySet DEF ItemInv
    <2>4. CallInv'
      BY <1>3, <1>6, <2>2 DEF IndexTxIter, CallInv, Ahead
    <2> QED BY <1>1, <1>6, <2>2, <2>3, <2>4 DEF IndexTxIter
  <1>7. ASSUME ~Governance, NEW pack \in SignaturePacks, ValidateSignatureIter(pack)
        PROVE  IInv'
    <2> DEFINE pair == <<HashTx(item.order), pack.signer>>
    <2>1. /\ work \in Stores /\ work' \in Stores /\ item \in Items
          /\ pack.signer \in Accounts /\ requiredValidators \in Nat
      BY <1>1, <1>7 DEF TypeOK, CallTypeOK, OracleTypeOK, ValidateSignatureIter,
         SignaturePacks
    <2>2. /\ at = "sigs" /\ at' = "sigs" /\ store' = store /\ done' = done
          /\ item.left > 0 /\ pair \notin work.txValidatedBy
          /\ work' = [work EXCEPT !.txValidatedBy = work.txValidatedBy \cup {pair},
                                  !.spent = work.spent + 1]
          /\ item' = [item EXCEPT !.left = item.left - 1,
                                  !.signers = item.signers \cup {pack.signer}]
      BY <1>7 DEF ValidateSignatureIter, ValidateTx
    <2> HIDE DEF pair
    <2>3. StoreInv(work')
      BY <2>1, <2>2, SignStep
    <2>4. /\ work'.txValidatedBy = work.txValidatedBy \cup {pair}
          /\ work'.balance = work.balance /\ work'.mined = work.mined
      BY <2>1, <2>2 DEF Stores
    <2>5. /\ item'.order = item.order /\ item'.left = item.left - 1
          /\ item'.signers = item.signers \cup {pack.signer}
      BY <2>1, <2>2 DEF Items
    <2>6. ItemInv'
      <3>1. item.signers \subseteq Attesters(work, item.order)
            /\ pack.signer \notin Attesters(work, item.order)
        BY <2>2 DEF ItemInv, Attesters, pair
      <3>2. IsFiniteSet(item.signers) /\ Cardinality(item.signers) \in Nat
        BY <2>1, RegistryConstants, FS_Subset, FS_CardinalityType DEF Items
      <3>3. Cardinality(item.signers \cup {pack.signer}) = Cardinality(item.signers) + 1
        BY <3>1, <3>2, FS_AddElement
      <3>4. item'.signers \subseteq Attesters(work', item'.order)
        BY <2>1, <2>4, <2>5, <3>1 DEF Attesters, pair
      <3>5. GetBitcoinTxMinedOrFail(work', item'.order.bitcoinTx) # None
        BY <2>2, <2>4, <2>5 DEF ItemInv, GetBitcoinTxMinedOrFail
      <3>6. item.left \in Nat
        BY <2>1 DEF Items
      <3>7. Cardinality(item'.signers) + item'.left >= requiredValidators'
        BY <1>3, <1>7, <2>1, <2>2, <2>5, <3>2, <3>3, <3>6 DEF ItemInv
      <3> QED BY <3>4, <3>5, <3>7 DEF ItemInv
    <2>7. CallInv'
      BY <1>3, <1>7, <2>2, <2>4 DEF CallInv, Ahead
    <2> QED BY <1>1, <2>2, <2>3, <2>6, <2>7
  <1>8. ASSUME ~Governance, WriteTx PROVE IInv'
    <2>1. /\ at = "sigs" /\ at' = "batch" /\ store' = store /\ done' = done + 1
          /\ LegacyAccepts(Oracle)
      BY <1>8 DEF WriteTx
    <2>2. /\ work \in Stores /\ work' \in Stores /\ store \in Stores
          /\ done \in Nat
      BY <1>1, OracleConstants DEF TypeOK, CallTypeOK
    <2>3. StoreInv(work') /\ Ahead(work', work)
      BY <1>8, <2>1, <2>2, WriteStep
    <2>4. Ahead(work', store')
      <3>1. \A hd \in Holdings : /\ work.balance[hd] \in Balances
                                /\ work'.balance[hd] \in Balances
                                /\ store.balance[hd] \in Balances
        BY <2>2 DEF Stores
      <3> QED BY <2>1, <2>3, <3>1 DEF CallInv, Ahead, Balances
    <2>5. CallInv'
      BY <1>3, <1>8, <2>1, <2>2, <2>4 DEF CallInv
    <2> QED BY <1>1, <2>1, <2>3, <2>5
  <1>9. ASSUME Commit PROVE IInv'
    BY <1>1, <1>9, EmptyStoreInv DEF Commit, Finish, CallInv
  <1>10. CASE UNCHANGED vars
    <2>1. UNCHANGED <<store, work, at, done, item, requiredValidators>>
      BY <1>10 DEF vars, callVars, oracleVars
    <2>2. LegacyAccepts(Oracle) => LegacyAccepts(Oracle)'
      BY <1>10 DEF vars, registryVars, LegacyAccepts, RegistryAccepts, RegistryApproved,
         LegacyApproved
    <2> QED BY <1>1, <2>1, <2>2 DEF CallInv, ItemInv
  <1> QED
    BY <1>2, <1>4, <1>5, <1>6, <1>7, <1>8, <1>9, <1>10
    DEF Next, IndexTxManyFails, IndexTxIterFails, ValidateSignatureIterFails, WriteTxFails

-----------------------------------------------------------------------------
(* The theorems.                                                           *)

(* Every reachable state satisfies the inductive invariant.                *)
THEOREM Inductive == Spec => []IInv
  BY InitInv, StepInv, PTL DEF Spec

(* The contract's variables keep their types; in particular add-validator  *)
(* and remove-validator never take validator-count below zero.             *)
THEOREM TypeCorrect == Spec => []TypeOK
  <1>1. IInv => TypeOK
    BY DEF IInv
  <1> QED BY <1>1, Inductive, PTL

(* validator-count is the number of validators however add-validator and   *)
(* remove-validator are interleaved.                                       *)
THEOREM CountCorrect == Spec => []CountIsRegistered
  <1>1. IInv => CountIsRegistered
    BY DEF IInv
  <1> QED BY <1>1, Inductive, PTL

(* Whatever is in bitcoin-tx-indexed was signed by as many different       *)
(* validators as required-validators asked for when index-tx-iter ran.     *)
THEOREM QuorumCorrect == Spec => []IndexedHasQuorum
  <1>1. IInv => IndexedHasQuorum
    BY DEF IInv, StoreInv, Backed, Quorums, IndexedHasQuorum
  <1> QED BY <1>1, Inductive, PTL

(* index-tx-iter indexes nothing of a transaction that is not recorded as  *)
(* mined, and records on mainnet only the height verify-mined confirmed.   *)
THEOREM MinedCorrect == Spec => []IndexedIsMined
  <1>1. IInv => IndexedIsMined
    BY DEF IInv, StoreInv, IndexedIsMined
  <1> QED BY <1>1, Inductive, PTL

(* validate-tx lets no signature count twice, in one list or in two calls. *)
THEOREM SpentOnceCorrect == Spec => []SignaturesSpentOnce
  <1>1. IInv => SignaturesSpentOnce
    BY DEF IInv, StoreInv, Spent, SignaturesSpentOnce
  <1> QED BY <1>1, Inductive, PTL

(* In whatever order index-tx-many receives transfers, each balance is one *)
(* stated by a transfer of the highest block seen for its user and tick.   *)
THEOREM BalanceCorrect == Spec => []BalanceIsLatest
  <1>1. IInv => BalanceIsLatest
    BY DEF IInv, StoreInv, Latest, BalanceIsLatest
  <1> QED BY <1>1, Inductive, PTL

(* No call, however many transfers it indexes, replaces a balance by one   *)
(* of the same or of an earlier block.                                     *)
THEOREM NeverGoBackCorrect == Spec => BalancesNeverGoBack
  <1>1. IInv /\ [Next]_vars => [Ahead(store', store)]_vars
    <2> SUFFICES ASSUME IInv, [Next]_vars PROVE Ahead(store', store)
      OBVIOUS
    <2>1. CASE Commit
      BY <2>1 DEF Commit, Finish, IInv, CallInv
    <2>2. CASE store' = store
      BY <2>2 DEF Ahead
    <2>3. Commit \/ store' = store
      BY DEF Next, vars, Governance, IndexTxMany, IndexTxManyFails, IndexTxIter,
         IndexTxIterFails, ValidateSignatureIter, ValidateSignatureIterFails, WriteTx,
         WriteTxFails, Abort, Finish
    <2> QED BY <2>1, <2>2, <2>3
  <1> QED BY <1>1, Inductive, PTL DEF Spec, BalancesNeverGoBack

(* While a registry is paused index-tx-many leaves every map as it was:    *)
(* the write the registry refuses undoes what the call had done before.    *)
THEOREM FreezeCorrect == Spec => PausedRegistryFreezes
  <1>1. IInv /\ [Next]_vars => [(registryPaused \/ legacyPaused) => store' = store]_vars
    <2> SUFFICES ASSUME IInv, [Next]_vars, registryPaused \/ legacyPaused
                 PROVE  store' = store
      OBVIOUS
    <2>1. CASE Commit
      <3>1. ~LegacyAccepts(Oracle)
        BY DEF LegacyAccepts, RegistryAccepts
      <3>2. done = 0
        BY <3>1, OracleConstants DEF IInv, CallInv, TypeOK, CallTypeOK
      <3> QED BY <2>1, <3>2 DEF Commit, Finish, IInv, CallInv
    <2>2. Commit \/ store' = store
      BY DEF Next, vars, Governance, IndexTxMany, IndexTxManyFails, IndexTxIter,
         IndexTxIterFails, ValidateSignatureIter, ValidateSignatureIterFails, WriteTx,
         WriteTxFails, Abort, Finish
    <2> QED BY <2>1, <2>2
  <1> QED BY <1>1, Inductive, PTL DEF Spec, PausedRegistryFreezes

-----------------------------------------------------------------------------
(* The contract implements the ledger.  Between the steps of a call its    *)
(* copy must stand to the store as one batch of the ledger would leave it, *)
(* but for the signatures of the transfer the call is busy with.           *)

Gained(new, old) == new.accepted \ old.accepted
Fresh(new, old) == new.txValidatedBy \ old.txValidatedBy
FreshOf(new, old, o) == {s \in Fresh(new, old) : s[1] = HashTx(o)}

Grows(new, old) == /\ old.accepted \subseteq new.accepted
                   /\ old.txValidatedBy \subseteq new.txValidatedBy
Earned(new, old) == \A a \in Gained(new, old) :
    Cardinality(FreshOf(new, old, a.order)) >= a.need
Recorded(new, old) == \A p \in Places :
    \/ new.indexed[p] = old.indexed[p]
    \/ \E a \in new.accepted : PlaceOf(a.order) = p /\ TransferOf(a.order) = new.indexed[p]
Later(new, old, h) ==
    {a \in Gained(new, old) : Public!Concerns(a, h) /\ a.height > old.balance[h].upToBlock}
Moved(new, old, h) ==
    IF Later(new, old, h) = {} THEN new.balance[h] = old.balance[h]
    ELSE \E a \in Later(new, old, h) :
           /\ \A b \in Later(new, old, h) : b.height <= a.height
           /\ new.balance[h] = [balance |-> Public!Stated(a, h), upToBlock |-> a.height]

UsedFor(s, st) == \E a \in st.accepted : s[1] = HashTx(a.order)

(* What a call has done so far, seen from the store it started from.       *)
BatchInv ==
    /\ Grows(work, store) /\ Earned(work, store) /\ Recorded(work, store)
    /\ \A h \in Holdings : Moved(work, store, h)
    /\ \A s \in Fresh(work, store) :
          UsedFor(s, work) \/ (at = "sigs" /\ s[1] = HashTx(item.order))
    /\ at = "sigs" => \A u \in item.signers :
          <<HashTx(item.order), u>> \in Fresh(work, store)
LedgerInv == at # "idle" => BatchInv

(* A step that leaves the public maps alone leaves their relation alone.   *)
LEMMA SamePublic ==
  ASSUME NEW new, NEW st, NEW old,
         new.accepted = st.accepted, new.txValidatedBy = st.txValidatedBy,
         new.indexed = st.indexed, new.balance = st.balance
  PROVE  /\ Grows(st, old) => Grows(new, old)
         /\ Earned(st, old) => Earned(new, old)
         /\ Recorded(st, old) => Recorded(new, old)
         /\ \A h \in Holdings : Moved(st, old, h) => Moved(new, old, h)
         /\ Fresh(new, old) = Fresh(st, old)
  <1>1. Fresh(new, old) = Fresh(st, old) /\ Gained(new, old) = Gained(st, old)
    BY DEF Fresh, Gained
  <1>2. \A o : FreshOf(new, old, o) = FreshOf(st, old, o)
    BY <1>1 DEF FreshOf
  <1>3. \A h : Later(new, old, h) = Later(st, old, h)
    BY <1>1 DEF Later
  <1>4. \A h \in Holdings : Moved(st, old, h) => Moved(new, old, h)
    BY <1>3 DEF Moved
  <1>5. Earned(st, old) => Earned(new, old)
    BY <1>1, <1>2 DEF Earned
  <1> QED BY <1>1, <1>4, <1>5 DEF Grows, Recorded

LEMMA BatchBegins ==
  ASSUME NEW st
  PROVE  /\ Grows(st, st) /\ Earned(st, st) /\ Recorded(st, st) /\ Fresh(st, st) = {}
         /\ \A h \in Holdings : Moved(st, st, h)
  <1>1. Fresh(st, st) = {} /\ Gained(st, st) = {}
    BY DEF Fresh, Gained
  <1>2. \A h : Later(st, st, h) = {}
    BY <1>1 DEF Later
  <1> QED BY <1>1, <1>2 DEF Grows, Earned, Recorded, Moved

LEMMA FreshFinite ==
  ASSUME NEW new, NEW old, NEW o, IsFiniteSet(new.txValidatedBy)
  PROVE  /\ IsFiniteSet(FreshOf(new, old, o))
         /\ Cardinality(FreshOf(new, old, o)) \in Nat
  <1>1. FreshOf(new, old, o) \subseteq new.txValidatedBy
    BY DEF FreshOf, Fresh
  <1> QED BY <1>1, FS_Subset, FS_CardinalityType

(* A further signature takes none away from the transfers of the batch.    *)
LEMMA EarnedGrows ==
  ASSUME NEW new \in Stores, NEW st \in Stores, NEW old, Earned(st, old),
         st.txValidatedBy \subseteq new.txValidatedBy, new.accepted = st.accepted,
         IsFiniteSet(new.txValidatedBy), IsFiniteSet(st.txValidatedBy)
  PROVE  Earned(new, old)
  <1> SUFFICES ASSUME NEW a \in Gained(new, old)
               PROVE  Cardinality(FreshOf(new, old, a.order)) >= a.need
    BY DEF Earned
  <1>1. a.need \in Nat /\ a \in Gained(st, old)
    BY DEF Gained, Stores, Acceptances
  <1>2. FreshOf(st, old, a.order) \subseteq FreshOf(new, old, a.order)
    BY DEF FreshOf, Fresh
  <1>3. Cardinality(FreshOf(st, old, a.order)) <= Cardinality(FreshOf(new, old, a.order))
    BY <1>2, FreshFinite, FS_Subset
  <1> QED BY <1>1, <1>3, FreshFinite DEF Earned

(* The signers of the transfer being written signed it afresh, each once.  *)
LEMMA SignersEarn ==
  ASSUME TypeOK, StoreInv(work), ItemInv, BatchInv, at = "sigs", item.left = 0
  PROVE  Cardinality(FreshOf(work, store, item.order)) >= requiredValidators
  <1> DEFINE o == item.order
             F == FreshOf(work, store, o)
             pairs == [u \in item.signers |-> <<HashTx(o), u>>]
  <1>1. item \in Items /\ requiredValidators \in Nat
    BY DEF TypeOK, CallTypeOK, OracleTypeOK
  <1>2. IsFiniteSet(item.signers) /\ Cardinality(item.signers) \in Nat
    BY <1>1, RegistryConstants, FS_Subset, FS_CardinalityType DEF Items
  <1>3. IsFiniteSet(F) /\ Cardinality(F) \in Nat
    BY FreshFinite DEF StoreInv, Spent
  <1>4. pairs \in Injection(item.signers, F)
    <2>1. \A u \in item.signers : <<HashTx(o), u>> \in F
      BY DEF BatchInv, FreshOf
    <2>2. \A u, v \in item.signers : <<HashTx(o), u>> = <<HashTx(o), v>> => u = v
      OBVIOUS
    <2> HIDE DEF F
    <2> QED BY <2>1, <2>2 DEF Injection, IsInjective
  <1>5. Cardinality(item.signers) <= Cardinality(F)
    BY <1>2, <1>3, <1>4, FS_Injection
  <1>6. Cardinality(item.signers) >= requiredValidators
    BY <1>1, <1>2 DEF ItemInv
  <1> QED BY <1>1, <1>2, <1>3, <1>5, <1>6

(* A write moves a balance when it is the highest transfer so far of the   *)
(* holding, and then it is the highest of the batch.                       *)
LEMMA WriteMoves ==
  ASSUME IInv, WriteTx, BatchInv, NEW h \in Holdings
  PROVE  Moved(work', store, h)
  <1> DEFINE a == [order |-> item.order, height |-> item.height, need |-> requiredValidators]
             ub == store.balance[h].upToBlock
             wb == work.balance[h].upToBlock
             newer == Public!Concerns(a, h) /\ a.height > wb
  <1>1. /\ TypeOK /\ work \in Stores /\ store \in Stores /\ at = "sigs"
        /\ Ahead(work, store) /\ LatestBalance(work, h) /\ Grows(work, store)
        /\ Moved(work, store, h)
    BY DEF IInv, TypeOK, CallTypeOK, WriteTx, CallInv, StoreInv, Latest, BatchInv
  <1>2. /\ a \in Acceptances /\ a.height \in Nat /\ a.order = item.order
        /\ work'.accepted = work.accepted \cup {a}
    BY <1>1, WriteFields
  <1>3. /\ ub \in Nat /\ wb \in Nat /\ wb >= ub
        /\ work.balance[h] \in Balances /\ store.balance[h] \in Balances
        /\ h = <<h[1], h[2]>>
    BY <1>1 DEF Stores, Balances, Ahead, Holdings
  <1>4. \A b \in work.accepted : /\ b.height \in Nat
                                 /\ Public!Concerns(b, h) /\ b.height > 0 => b.height <= wb
    BY <1>1, OracleConstants DEF Stores, Acceptances, LatestBalance, Touches, Public!Concerns
  <1>5. work'.balance[h] = IF newer THEN [balance |-> Public!Stated(a, h),
                                          upToBlock |-> a.height]
                           ELSE work.balance[h]
    BY <1>1, <1>3, WriteFields
    DEF Public!Concerns, Public!Stated, Newer, GetUserBalanceOrDefault
  <1>6. /\ Later(work, store, h) \subseteq Later(work', store, h)
        /\ Later(work', store, h) \subseteq Later(work, store, h) \cup {a}
        /\ Later(work, store, h) \subseteq work.accepted
        /\ \A b \in Later(work', store, h) :
              b.height \in Nat /\ Public!Concerns(b, h) /\ b.height > ub
    BY <1>2, <1>3, <1>4 DEF Later, Gained
  <1>7. CASE newer
    <2>1. a \notin work.accepted
      BY <1>2, <1>3, <1>4, <1>7
    <2>2. a \in Gained(work', store)
      BY <1>1, <1>2, <2>1 DEF Gained, Grows
    <2>3. a \in Later(work', store, h)
      BY <1>2, <1>3, <1>7, <2>2 DEF Later
    <2>4. \A b \in Later(work', store, h) : b.height <= a.height
      BY <1>2, <1>3, <1>4, <1>6, <1>7
    <2> QED BY <1>5, <1>7, <2>3, <2>4 DEF Moved
  <1>8. CASE ~newer
    <2>1. CASE a \in Later(work', store, h)
      <3>1. a.height > ub /\ a.height <= wb
        BY <1>2, <1>3, <1>6, <1>8, <2>1
      <3>2. work.balance[h] # store.balance[h]
        BY <1>2, <1>3, <3>1
      <3>3. PICK x \in Later(work, store, h) :
              /\ \A b \in Later(work, store, h) : b.height <= x.height
              /\ work.balance[h] = [balance |-> Public!Stated(x, h), upToBlock |-> x.height]
        BY <1>1, <3>2 DEF Moved
      <3>4. wb = x.height
        BY <3>3
      <3>5. \A b \in Later(work', store, h) : b.height <= x.height
        BY <1>6, <3>1, <3>3, <3>4
      <3> QED BY <1>5, <1>6, <1>8, <3>3, <3>5 DEF Moved
    <2>2. CASE a \notin Later(work', store, h)
      <3>1. Later(work', store, h) = Later(work, store, h)
        BY <1>6, <2>2
      <3> QED BY <1>1, <1>5, <1>8, <3>1 DEF Moved
    <2> QED BY <2>1, <2>2
  <1> QED BY <1>7, <1>8

(* The transfer that is written has its own fresh signatures.              *)
LEMMA WriteKeepsBatch ==
  ASSUME IInv, WriteTx, BatchInv
  PROVE  BatchInv'
  <1> DEFINE a == [order |-> item.order, height |-> item.height, need |-> requiredValidators]
  <1>1. /\ TypeOK /\ work \in Stores /\ StoreInv(work) /\ ItemInv /\ requiredValidators \in Nat
        /\ at = "sigs" /\ item.left = 0 /\ at' = "batch" /\ store' = store
    BY DEF IInv, TypeOK, CallTypeOK, OracleTypeOK, WriteTx
  <1>2. /\ a.order = item.order /\ a.need = requiredValidators /\ item.order \in Orders
        /\ work'.accepted = work.accepted \cup {a}
        /\ work'.txValidatedBy = work.txValidatedBy
        /\ work'.indexed = [work.indexed EXCEPT ![PlaceOf(item.order)] = TransferOf(item.order)]
    BY <1>1, WriteFields
  <1> HIDE DEF a
  <1>3. Fresh(work', store) = Fresh(work, store)
    BY <1>2 DEF Fresh
  <1>4. Grows(work', store)
    BY <1>2 DEF BatchInv, Grows
  <1>5. Earned(work', store)
    <2> SUFFICES ASSUME NEW b \in Gained(work', store)
                 PROVE  Cardinality(FreshOf(work', store, b.order)) >= b.need
      BY DEF Earned
    <2>1. FreshOf(work', store, b.order) = FreshOf(work, store, b.order)
      BY <1>3 DEF FreshOf
    <2>2. CASE b = a
      BY <1>1, <1>2, <2>1, <2>2, SignersEarn
    <2>3. CASE b # a
      <3>1. b \in Gained(work, store)
        BY <1>2, <2>3 DEF Gained
      <3> QED BY <2>1, <3>1 DEF BatchInv, Earned
    <2> QED BY <2>2, <2>3
  <1>6. Recorded(work', store)
    <2> SUFFICES ASSUME NEW p \in Places
                 PROVE  \/ work'.indexed[p] = store.indexed[p]
                        \/ \E b \in work'.accepted : /\ PlaceOf(b.order) = p
                                                     /\ TransferOf(b.order) = work'.indexed[p]
      BY DEF Recorded
    <2>1. CASE p = PlaceOf(item.order)
      <3>1. work'.indexed[p] = TransferOf(item.order)
        BY <1>1, <1>2, <2>1 DEF Stores
      <3> QED BY <1>2, <2>1, <3>1
    <2>2. CASE p # PlaceOf(item.order)
      <3>1. work'.indexed[p] = work.indexed[p]
        BY <1>1, <1>2, <2>2 DEF Stores
      <3> QED BY <1>2, <3>1 DEF BatchInv, Recorded
    <2> QED BY <2>1, <2>2
  <1>7. \A h \in Holdings : Moved(work', store, h)
    BY WriteMoves
  <1>8. \A s \in Fresh(work', store) : UsedFor(s, work')
    BY <1>2, <1>3 DEF BatchInv, UsedFor
  <1> QED BY <1>1, <1>4, <1>5, <1>6, <1>7, <1>8 DEF BatchInv

LEMMA SignKeepsBatch ==
  ASSUME IInv, IInv', BatchInv, NEW pack \in SignaturePacks, ValidateSignatureIter(pack)
  PROVE  BatchInv'
  <1> DEFINE pair == <<HashTx(item.order), pack.signer>>
  <1>1. /\ work \in Stores /\ work' \in Stores /\ item \in Items
        /\ at = "sigs" /\ at' = "sigs" /\ store' = store
        /\ IsFiniteSet(work.txValidatedBy) /\ IsFiniteSet(work'.txValidatedBy)
    BY DEF IInv, TypeOK, CallTypeOK, StoreInv, Spent, ValidateSignatureIter
  <1>2. /\ pair \notin work.txValidatedBy
        /\ work' = [work EXCEPT !.txValidatedBy = work.txValidatedBy \cup {pair},
                                !.spent = work.spent + 1]
        /\ item' = [item EXCEPT !.left = item.left - 1,
                                !.signers = item.signers \cup {pack.signer}]
    BY DEF ValidateSignatureIter, ValidateTx
  <1>3. pair[1] = HashTx(item.order)
    OBVIOUS
  <1> HIDE DEF pair
  <1>4. /\ work'.txValidatedBy = work.txValidatedBy \cup {pair}
        /\ work'.accepted = work.accepted /\ work'.indexed = work.indexed
        /\ work'.balance = work.balance
    BY <1>1, <1>2 DEF Stores
  <1>5. item'.order = item.order /\ item'.signers = item.signers \cup {pack.signer}
    BY <1>1, <1>2 DEF Items
  <1>6. Fresh(work', store) = Fresh(work, store) \cup {pair}
    BY <1>2, <1>4 DEF Fresh, BatchInv, Grows
  <1>7. Grows(work', store) /\ Recorded(work', store)
    BY <1>4 DEF BatchInv, Grows, Recorded
  <1>8. Earned(work', store)
    BY <1>1, <1>4, EarnedGrows DEF BatchInv
  <1>9. \A h \in Holdings : Moved(work', store, h)
    <2>1. \A h : Later(work', store, h) = Later(work, store, h)
      BY <1>4 DEF Later, Gained
    <2> QED BY <1>4, <2>1 DEF BatchInv, Moved
  <1>10. \A s \in Fresh(work', store) : UsedFor(s, work') \/ s[1] = HashTx(item'.order)
    BY <1>3, <1>4, <1>5, <1>6 DEF BatchInv, UsedFor
  <1>11. \A u \in item'.signers : <<HashTx(item'.order), u>> \in Fresh(work', store)
    BY <1>1, <1>5, <1>6 DEF BatchInv, pair
  <1> QED BY <1>1, <1>7, <1>8, <1>9, <1>10, <1>11 DEF BatchInv

LEMMA LedgerStep == IInv /\ IInv' /\ LedgerInv /\ [Next]_vars => LedgerInv'
  <1> SUFFICES ASSUME IInv, IInv', LedgerInv, [Next]_vars
               PROVE  LedgerInv'
    OBVIOUS
  <1>1. ASSUME at' = "idle" PROVE LedgerInv'
    BY <1>1 DEF LedgerInv
  <1>2. ASSUME NEW sender \in Accounts, IndexTxMany(sender) PROVE LedgerInv'
    <2>1. work' = store /\ store' = store /\ at' = "batch"
      BY <1>2 DEF IndexTxMany
    <2> QED BY <2>1, BatchBegins DEF LedgerInv, BatchInv
  <1>3. ASSUME NEW o \in Orders, NEW h \in Heights, NEW n \in 0..MaxPacks,
               IndexTxIter(o, h, n)
        PROVE  LedgerInv'
    <2>1. /\ at = "batch" /\ at' = "sigs" /\ store' = store /\ item'.signers = {}
          /\ work' = IF KnownMined(o) THEN work ELSE SetTxMined(work, o.bitcoinTx, h)
          /\ work \in Stores
      BY <1>3 DEF IndexTxIter, IInv, TypeOK, CallTypeOK
    <2>2. /\ work'.accepted = work.accepted /\ work'.txValidatedBy = work.txValidatedBy
          /\ work'.indexed = work.indexed /\ work'.balance = work.balance
      BY <2>1 DEF SetTxMined, Stores
    <2>3. PICK w : w = work'
      OBVIOUS
    <2>4. BatchInv
      BY <2>1 DEF LedgerInv
    <2>5. /\ Grows(w, store) /\ Earned(w, store) /\ Recorded(w, store)
          /\ \A hd \in Holdings : Moved(w, store, hd)
          /\ Fresh(w, store) = Fresh(work, store)
      BY <2>2, <2>3, <2>4, SamePublic DEF BatchInv
    <2>6. \A s \in Fresh(work, store) : UsedFor(s, w)
      BY <2>1, <2>2, <2>3, <2>4 DEF BatchInv, UsedFor
    <2> QED BY <2>1, <2>3, <2>5, <2>6 DEF LedgerInv, BatchInv
  <1>4. ASSUME NEW pack \in SignaturePacks, ValidateSignatureIter(pack) PROVE LedgerInv'
    <2>1. BatchInv
      BY <1>4 DEF LedgerInv, ValidateSignatureIter
    <2> QED BY <1>4, <2>1, SignKeepsBatch DEF LedgerInv
  <1>5. CASE WriteTx
    <2>1. BatchInv
      BY <1>5 DEF LedgerInv, WriteTx
    <2> QED BY <1>5, <2>1, WriteKeepsBatch DEF LedgerInv
  <1>6. CASE UNCHANGED vars
    <2>1. UNCHANGED <<store, work, at, item>>
      BY <1>6 DEF vars, callVars
    <2> QED BY <2>1 DEF LedgerInv, BatchInv
  <1>7. CASE Governance
    BY <1>1, <1>7 DEF Governance, callVars
  <1> QED
    BY <1>1, <1>2, <1>3, <1>4, <1>5, <1>6, <1>7
    DEF Next, IndexTxManyFails, IndexTxIterFails, ValidateSignatureIterFails, WriteTxFails,
        Commit, Abort, Finish

(* The ledger counts signatures as the contract's module does.             *)
LEMMA LedgerCounts == ASSUME NEW S PROVE Public!Cardinality(S) = Cardinality(S)
  BY DEF Cardinality, Public!Cardinality

(* The end of a successful call is one batch of the ledger.                *)
LEMMA CommitAccepts ==
  ASSUME IInv, LedgerInv, Commit
  PROVE  Public!Accept
  <1>1. store' = work /\ at = "batch" /\ BatchInv
    BY DEF Commit, Finish, LedgerInv
  <1>2. Public!Signed(Gained(work, store), Fresh(work, store))
    <2>1. \A a \in Gained(work, store) :
            Public!Cardinality({s \in Fresh(work, store) : s[1] = HashTx(a.order)}) >= a.need
      BY <1>1, LedgerCounts DEF BatchInv, Earned, FreshOf
    <2>2. \A s \in Fresh(work, store) : \E a \in work.accepted : s[1] = HashTx(a.order)
      BY <1>1 DEF BatchInv, UsedFor
    <2> QED BY <1>1, <2>1, <2>2 DEF Public!Signed
  <1>3. Public!Indexed
    BY <1>1 DEF Public!Indexed, BatchInv, Recorded
  <1>4. Public!Balanced(Gained(work, store))
    BY <1>1 DEF Public!Balanced, BatchInv, Moved, Later
  <1> QED
    BY <1>1, <1>2, <1>3, <1>4 DEF Public!Accept, BatchInv, Grows, Gained, Fresh

(* To its readers the contract is the ledger: a call of index-tx-many      *)
(* shows as one batch whose transfers each have their own, never used      *)
(* signatures and whose balances are those of its highest transfers,       *)
(* whatever the order of its list; a failed call does not show at all.     *)
THEOREM LedgerCorrect == Spec => ImplementsLedger
  <1>1. Init => Public!Init /\ LedgerInv
    BY DEF Init, Public!Init, EmptyStore, LedgerInv
  <1>2. IInv /\ LedgerInv /\ [Next]_vars => [Public!Accept]_(Public!vars)
    <2> SUFFICES ASSUME IInv, LedgerInv, [Next]_vars, ~Commit
                 PROVE  UNCHANGED Public!vars
      BY CommitAccepts
    <2>1. store' = store
      BY DEF Next, vars, Governance, IndexTxMany, IndexTxManyFails, IndexTxIter,
         IndexTxIterFails, ValidateSignatureIter, ValidateSignatureIterFails, WriteTx,
         WriteTxFails, Abort, Finish
    <2> QED BY <2>1 DEF Public!vars
  <1> QED
    BY <1>1, <1>2, LedgerStep, Inductive, PTL DEF Spec, ImplementsLedger, Public!Spec
=============================================================================
