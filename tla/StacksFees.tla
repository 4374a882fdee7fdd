------------------------------ MODULE StacksFees ------------------------------
(***************************************************************************)
(* The fees of the Stacks caller.  Every operation is sent with a fee, and *)
(* the node (external) executes an account's next call only when its fee   *)
(* is at least the going price.  While the caller waits for a nonce it     *)
(* looks, in RBFIfNeeded, at the pending call of that nonce; one that has  *)
(* waited for half an hour is sent again with a higher fee, found in one   *)
(* of three ways (STACKS_RBF_MODE).                                        *)
(*                                                                         *)
(* The loop is StacksCaller's; this module adds the fee to each broadcast, *)
(* the three kinds of operations, and RBFIfNeeded.  Fees are counted in    *)
(* whole units.                                                            *)
(***************************************************************************)
EXTENDS StacksCaller, FiniteSetsExt

CONSTANTS
    Kind,           \* of each operation: "publicCall", "deploy", "transfer"
    Modes,          \* values of STACKS_RBF_MODE
    Strategies,     \* values of STACKS_CONFLICTING_NONCE_STRATEGY
    FixedFee,       \* the caller's option `fee', 0 if there is none
    Floors, Cap,    \* values of STACKS_TX_GAS_FLOOR; STACKS_TX_GAS_CAP
    FloorLimit,     \* a floor above this (25 STX) makes every estimate throw
    Stages,         \* STACKS_RBF_STAGES
    FeeThreshold,   \* STACKS_RBF_ESTIMATE_THRESHOLD
    Increment,      \* STACKS_CONFLICTING_NONCE_REPLACE_INCREMENT_STX
    MaxPrice        \* bound: the highest price

(* The stages are all different.  That they are sorted is checked of their *)
(* text (10 comes before 9), so nothing is made of their order.            *)
Distinct(stages) == \A i, j \in DOMAIN stages : stages[i] = stages[j] => i = j

FeeConfig ==
    /\ Modes \subseteq {"off", "stages", "estimate", "function"}
    /\ Strategies \subseteq {"increase", "replace"}
    /\ Floors \subseteq Nat \ {0} /\ FloorLimit \in Nat /\ Cap \in Nat
    /\ Stages \in Seq(Nat) /\ Stages # <<>> /\ Distinct(Stages)
    /\ FeeThreshold \in Nat \ {0} /\ Increment \in Nat \ {0}

ASSUME FeeConstants ==
    /\ FeeConfig
    /\ Kind \in [1..MaxCalls -> {"publicCall", "deploy", "transfer"}]
    /\ FixedFee \in Nat /\ MaxPrice \in Nat \ {0}

(* Bound: an override grows no further.  It is above all that can be       *)
(* pending; only a deployment or a transfer, whose override counts for     *)
(* nothing, gets there.                                                    *)
MaxFee == Max({MaxPrice, Cap, FixedFee, FloorLimit} \cup {Stages[i] : i \in DOMAIN Stages})
            + (MaxFaults + 2) * Increment

VARIABLES
    mode,       \* STACKS_RBF_MODE of the process
    strategy,   \* STACKS_CONFLICTING_NONCE_STRATEGY of the process
    function,   \* the caller's option `calculateFee': "none", one that answers
                \* "null", or one that answers with a "fee"
    floor,      \* STACKS_TX_GAS_FLOOR of the process
    price,      \* the node: what the next call has to pay
    fee,        \* the node: the fee of each pending call
    old,        \* the node: the pending calls received half an hour ago
    txFee,      \* the caller: the fee of the operation last tried
    override,   \* the caller: feeOverride of the first operation, 0 if none
    target,     \* the caller: the nonce RBFIfNeeded looks at
    found       \* the caller: the call to replace and its new fee

fees == <<fee, old>>
rbf  == <<target, found>>
config == <<mode, strategy, function, floor>>
vars == <<callerVars, config, price, fees, txFee, override, rbf>>

NoTx == [nonce |-> -1, op |-> 0, fee |-> 0]

(* The function counts for something only in its mode.                     *)
Functions(m) == IF m = "function" THEN {"none", "null", "fee"} ELSE {"none"}

(* at: besides StacksCaller's, "look" (RBFIfNeeded before it reads the     *)
(* memory pool) and "replace" (before it sends).                           *)
Init ==
    /\ CallerInit
    /\ mode \in Modes /\ strategy \in Strategies
    /\ function \in Functions(mode) /\ floor \in Floors
    /\ price = 1
    /\ fee = <<>> /\ old = {}
    /\ txFee = 0 /\ override = 0 /\ target = 0 /\ found = NoTx

NothingSent == UNCHANGED <<mempool, fee, old>>
Same == UNCHANGED <<config, price, fees, txFee, override, rbf>>
-----------------------------------------------------------------------------
(* The node.                                                               *)

PriceRises ==
    /\ price < MaxPrice /\ price' = price + 1
    /\ UNCHANGED <<callerVars, config, fees, txFee, override, rbf>>

HalfAnHour(n) ==
    /\ n \in DOMAIN mempool \ old
    /\ old' = old \cup {n}
    /\ UNCHANGED <<callerVars, config, price, fee, txFee, override, rbf>>

KeepPending == fee' = [n \in DOMAIN mempool' |-> fee[n]] /\ old' = old \cap DOMAIN mempool'
FeeExecute ==
    /\ Execute /\ fee[account] >= price
    /\ KeepPending
    /\ UNCHANGED <<config, price, txFee, override, rbf>>
FeeDrop ==
    /\ Drop
    /\ KeepPending
    /\ UNCHANGED <<config, price, txFee, override, rbf>>

Pays(n, f) == n \in DOMAIN mempool => f > fee[n]
FeeReply(n, f) ==
    CASE n < account                             -> "BadNonce"
      [] n >= account /\ ~Pays(n, f)             -> "ConflictingNonceInMempool"
      [] n >= account + NodeLimit /\ Pays(n, f)  -> "TooMuchChaining"
      [] OTHER                                   -> "ok"

AcceptPaid(n, op, f) ==
    /\ Accept(n, op)
    /\ fee' = [m \in DOMAIN mempool \cup {n} |-> IF m = n THEN f ELSE fee[m]]
    /\ old' = old \ {n}
Deliver(n, op, f) ==
    IF FeeReply(n, f) = "ok" THEN AcceptPaid(n, op, f) ELSE NothingSent
-----------------------------------------------------------------------------
(* The fee of an operation.                                                *)

CapOrFloorFee(f) == Max({Min({f, Cap}), floor})
CapOrFloorThrows == floor > FloorLimit

(* The node's estimate, external, is the price.                            *)
EstimateFee == CapOrFloorFee(price)

CallFee == CASE override # 0                               -> override
             [] override = 0 /\ FixedFee # 0               -> FixedFee
             [] override = 0 /\ FixedFee = 0 /\ mode = "function" -> price
             [] OTHER                                      -> EstimateFee
OtherFee == IF override # 0 THEN override
            ELSE IF FixedFee # 0 THEN FixedFee ELSE EstimateFee

(* A deployment and a transfer are estimated once more when they are sent, *)
(* without the cap, and the fee chosen before is for when that fails.      *)
DeployFees   == {price, OtherFee}
TransferFees == {price, OtherFee}
SentFees == CASE Kind[Head(ops)] = "publicCall" -> {CallFee}
              [] Kind[Head(ops)] = "deploy"     -> DeployFees
              [] Kind[Head(ops)] = "transfer"   -> TransferFees

IsCall == Kind[Head(ops)] = "publicCall"

(* The fee of the next operation cannot be found.                          *)
NoFee == /\ ops # <<>> /\ override = 0 /\ FixedFee = 0
         /\ IF IsCall /\ mode = "function" THEN function # "fee" ELSE CapOrFloorThrows
-----------------------------------------------------------------------------
(* Sending.                                                                *)

FeeFlush(k) == Flush(k) /\ Same
FeeReadNonces == (ReadStartingNonce \/ ReadExecutedNonce) /\ Same

NotesFee == txFee' = IF IsCall THEN CallFee ELSE OtherFee

FeeBroadcast ==
    /\ Sending /\ ~Throttled /\ ~NoFee
    /\ at' = "sent"
    /\ NotesFee
    /\ \E f \in SentFees :
          \/ answer' = FeeReply(nonce, f) /\ Deliver(nonce, Head(ops), f) /\ UNCHANGED bounds
          \/ answer' = "Refused" /\ NothingSent /\ Fault
    /\ UNCHANGED <<account, ops, nonce, last, limit, raised, issued, config, price, override, rbf>>

(* The request fails, before or after the node took the call; or the fee   *)
(* cannot be found.                                                        *)
FeeGiveUp == /\ Sending /\ ~Throttled
             /\ GiveUp /\ override' = 0 /\ txFee' = 0
             /\ UNCHANGED <<account, at, answer, issued, config, price, rbf>>
FeeBroadcastThrows ==
    /\ FeeGiveUp /\ ~NoFee /\ Fault
    /\ NothingSent \/ \E f \in SentFees : Deliver(nonce, Head(ops), f)
FeeUnknown == FeeGiveUp /\ NoFee /\ NothingSent /\ UNCHANGED bounds

FeeDone ==
    /\ DidBroadcast \/ DidRefuse
    /\ override' = 0 /\ txFee' = 0
    /\ UNCHANGED <<config, price, fees, rbf>>
FeeChain ==
    /\ DidChain
    /\ txFee' = 0
    /\ UNCHANGED <<config, price, fees, override, rbf>>

(* Only the callback of a public call may fail the operation.              *)
FeeCallbackThrows ==
    /\ CallbackThrows /\ IsCall
    /\ override' = 0 /\ txFee' = 0
    /\ UNCHANGED <<config, price, fees, rbf>>

(* After a conflict: the next nonce, or the same one for a higher fee; an  *)
(* assertion of the latter, on the mode, leaves processOperations.         *)
LookAt(n) == at' = "look" /\ target' = n /\ UNCHANGED found
ConflictIncreases ==
    /\ strategy = "increase"
    /\ nonce' = nonce + 1
    /\ LookAt(nonce)
    /\ UNCHANGED <<ops, last, limit, raised, override>>
ConflictReplaces ==
    /\ strategy = "replace" /\ mode \in {"off", "estimate"}
    /\ override' = Min({txFee + Increment, MaxFee})
    /\ LookAt(nonce - 1)
    /\ UNCHANGED <<ops, nonce, last, limit, raised>>
ConflictAsserts ==
    /\ strategy = "replace" /\ mode \notin {"off", "estimate"}
    /\ at' = "idle" /\ ops' = <<>> /\ nonce' = 0 /\ last' = 0 /\ limit' = MaxPerBlock
    /\ raised' = FALSE /\ override' = 0
    /\ UNCHANGED rbf
FeeConflict ==
    /\ at = "sent" /\ answer = "ConflictingNonceInMempool" /\ answer' = "none"
    /\ txFee' = 0
    /\ ConflictIncreases \/ ConflictReplaces \/ ConflictAsserts
    /\ UNCHANGED <<node, issued, bounds, config, price, fees>>

(* Waiting, to send more or for the last nonce: look at the account, and   *)
(* unless that was enough at the call it waits for.                        *)
FeeWait ==
    /\ Sending /\ Throttled
    /\ last' = account
    /\ IF nonce > account + limit THEN LookAt(account) ELSE UNCHANGED <<at, rbf>>
    /\ UNCHANGED <<node, ops, nonce, limit, raised, answer, issued, bounds>>
    /\ UNCHANGED <<config, price, fees, txFee, override>>
DrainLast ==        \* altered form: looks at the last call, not the next
    /\ Draining /\ nonce > last
    /\ last' = account /\ limit' = MaxPerBlock
    /\ IF nonce > account THEN LookAt(nonce - 1) ELSE UNCHANGED <<at, rbf>>
    /\ UNCHANGED <<node, ops, nonce, raised, answer, issued, bounds>>
    /\ UNCHANGED <<config, price, fees, txFee, override>>
FeeDrain ==
    /\ Draining /\ nonce > last
    /\ last' = account /\ limit' = MaxPerBlock
    /\ IF nonce > account THEN LookAt(account) ELSE UNCHANGED <<at, rbf>>
    /\ UNCHANGED <<node, ops, nonce, raised, answer, issued, bounds>>
    /\ UNCHANGED <<config, price, fees, txFee, override>>

Reset == txFee' = 0 /\ override' = 0 /\ target' = 0 /\ found' = NoTx
FeeFinish == Finish /\ Reset /\ UNCHANGED <<config, price, fees>>
FeeCrash == CallerCrash /\ Reset /\ UNCHANGED <<config, price, fees>>

(* Another deployment of the process, with another configuration.          *)
Redeploy ==
    /\ at = "idle" /\ Fault
    /\ mode' \in Modes /\ strategy' \in Strategies
    /\ function' \in Functions(mode') /\ floor' \in Floors
    /\ UNCHANGED <<node, at, loop, issued, price, fees, txFee, override, rbf>>
-----------------------------------------------------------------------------
(* RBFIfNeeded.                                                            *)

Due(n) == n \in DOMAIN mempool /\ Kind[mempool[n]] = "publicCall" /\ n \in old

(* The new fees of a call that pays f: none, or one.                       *)
StageFeesFrom(f) ==     \* altered form: the stage it has is high enough
    LET above == {i \in DOMAIN Stages : Stages[i] >= f}
    IN  IF above = {} THEN {} ELSE {Stages[Min(above)]}
StageFees(f) ==
    LET above == {i \in DOMAIN Stages : Stages[i] > f}
    IN  IF above = {} THEN {} ELSE {Stages[Min(above)]}
EstimateFees(f) == IF EstimateFee - f < FeeThreshold THEN {} ELSE {EstimateFee}
FunctionFees(f) == IF function = "null" \/ price <= f THEN {} ELSE {price}
NewFees(f) == CASE mode = "off"      -> {}
                [] mode = "stages"   -> StageFees(f)
                [] mode = "estimate" -> EstimateFees(f)
                [] mode = "function" -> FunctionFees(f)

RbfThrows == Due(target) /\ \/ mode = "function" /\ function = "none"
                            \/ mode = "estimate" /\ CapOrFloorThrows

LookAtMempool ==
    /\ at = "look" /\ ~RbfThrows
    /\ LET newFees == IF Due(target) THEN NewFees(fee[target]) ELSE {} IN
         IF newFees = {}
         THEN at' = "run" /\ UNCHANGED found
         ELSE /\ at' = "replace"
              /\ \E f \in newFees :
                   found' = [nonce |-> target, op |-> mempool[target], fee |-> f]
    /\ target' = 0
    /\ UNCHANGED <<node, loop, issued, bounds, config, price, fees, txFee, override>>

Replace ==
    /\ at = "replace" /\ FeeReply(found.nonce, found.fee) = "ok"
    /\ AcceptPaid(found.nonce, found.op, found.fee)
    /\ at' = "run" /\ found' = NoTx
    /\ UNCHANGED <<account, loop, issued, bounds, config, price, txFee, override, target>>

(* The node refuses the replacement, or its fee cannot be found: the       *)
(* exception leaves processOperations.                                     *)
ReplaceRefused ==
    /\ \/ at = "replace" /\ FeeReply(found.nonce, found.fee) # "ok"
       \/ at = "look" /\ RbfThrows
    /\ Forget /\ Reset
    /\ UNCHANGED <<node, issued, bounds, config, price, fees>>
-----------------------------------------------------------------------------
Caller == \/ FeeReadNonces \/ FeeBroadcast \/ FeeDone \/ FeeChain \/ FeeConflict
          \/ FeeWait \/ FeeDrain \/ FeeFinish
          \/ LookAtMempool \/ Replace \/ ReplaceRefused
          \/ FeeUnknown

Next == \/ \E k \in 1..MaxCalls : FeeFlush(k)
        \/ Caller
        \/ FeeExecute \/ \E n \in DOMAIN mempool : HalfAnHour(n)
        \/ PriceRises \/ FeeDrop
        \/ FeeBroadcastThrows \/ FeeCallbackThrows \/ FeeCrash \/ Redeploy

(* The caller goes on, blocks are mined, and time passes.                  *)
Spec == /\ Init /\ [][Next]_vars
        /\ WF_vars(Caller) /\ WF_vars(FeeExecute)
        /\ WF_vars(\E n \in DOMAIN mempool : HalfAnHour(n))
-----------------------------------------------------------------------------
(* A replacement is the same call for a higher fee than the pending one's, *)
(* when the node gets it, whatever happened since the memory pool was      *)
(* read; else the node refuses it and the whole batch is lost.             *)
ReplacementPays ==
    at = "replace" /\ found.nonce \in DOMAIN mempool =>
        /\ found.op = mempool[found.nonce]
        /\ found.fee > fee[found.nonce]

(* A caller whose next call is held back for its fee is not held back for  *)
(* ever, unless replacing does not help: it is off, or there is no higher  *)
(* stage, or the price is above the cap or too little above the fee, or    *)
(* the function has no answer, or the call is a deployment or a transfer.  *)
Helpless ==
    /\ account \in DOMAIN mempool /\ fee[account] < price
    /\ Kind[mempool[account]] = "publicCall" => NewFees(fee[account]) = {}
CallerReturnsPaid == at # "idle" ~> at = "idle" \/ drops > 0 \/ Helpless
=============================================================================
