----------------------------- MODULE StacksCaller -----------------------------
(***************************************************************************)
(* The Stacks caller: it sends a batch of contract calls from one account, *)
(* numbering them with consecutive nonces, and returns when the account    *)
(* has executed them all (flushProcessOperation, processOperations).       *)
(*                                                                         *)
(* Beside it runs the Stacks node, which is external: its memory pool      *)
(* refuses a nonce that was executed (BadNonce), that is taken             *)
(* (ConflictingNonceInMempool), or too far ahead (TooMuchChaining), and    *)
(* executes the account's calls in the order of their nonces.              *)
(*                                                                         *)
(* Operations are public calls, known by the order in which they were      *)
(* given to the caller.  Fees are left out: a call that replaces a fee     *)
(* (RBFIfNeeded) is the same call under the same nonce.                    *)
(***************************************************************************)
EXTENDS Integers, Sequences

CONSTANTS
    NodeLimit,      \* calls of an account the node holds
    MaxPerBlock,    \* STACKS_MAX_TX_PER_BLOCK
    Strategy,       \* STACKS_CONFLICTING_NONCE_STRATEGY
    MaxCalls,       \* bound: calls given to the caller
    MaxFaults,      \* bound: crashes, exceptions, refusals
    MaxDrops        \* bound: calls the node forgets

ASSUME CallerConstants ==
    /\ NodeLimit \in Nat \ {0} /\ MaxPerBlock \in Nat
    /\ Strategy \in {"increase", "replace"}
    /\ MaxCalls \in Nat /\ MaxFaults \in Nat /\ MaxDrops \in Nat

VARIABLES
    account,    \* the node: the account's nonce, the next one to execute
    mempool,    \* the node: the pending call of each nonce
    at,         \* the caller: where it is
    ops,        \* the caller: the operations still to be sent
    nonce,      \* the caller: the nonce of the next broadcast
    last,       \* the caller: lastExecutedNonce
    limit,      \* the caller: currentMaxTxPerBlockPerAccount
    raised,     \* the caller: the first operation has its fee overridden
    answer,     \* the caller: what the node answered, onBroadcast pending
    issued,     \* operations given to the caller so far
    faults, drops

node   == <<account, mempool>>
loop   == <<ops, nonce, last, limit, raised, answer>>
bounds == <<faults, drops>>
callerVars == <<node, at, loop, issued, bounds>>

Answers == {"none", "ok", "BadNonce", "ConflictingNonceInMempool",
            "TooMuchChaining", "Refused"}

(* at: "idle", "start" and "last" (before the first and the second look at *)
(* the account), "run" (in the loops), "sent" (in onBroadcast).            *)
CallerTypeOK ==
    /\ account \in Nat
    /\ DOMAIN mempool \in SUBSET Nat /\ \A n \in DOMAIN mempool : mempool[n] \in 1..issued
    /\ at \in {"idle", "start", "last", "run", "sent"}
    /\ ops \in Seq(1..issued) /\ (at = "sent" => ops # <<>>)
    /\ nonce \in Nat /\ last \in Nat /\ limit \in Int
    /\ raised \in BOOLEAN /\ answer \in Answers
    /\ issued \in Nat
    /\ faults \in Nat /\ drops \in Nat

Forget == /\ at' = "idle" /\ ops' = <<>> /\ nonce' = 0 /\ last' = 0
          /\ limit' = MaxPerBlock /\ raised' = FALSE /\ answer' = "none"

CallerInit ==
    /\ account = 0 /\ mempool = <<>>
    /\ at = "idle" /\ ops = <<>> /\ nonce = 0 /\ last = 0
    /\ limit = MaxPerBlock /\ raised = FALSE /\ answer = "none"
    /\ issued = 0 /\ faults = 0 /\ drops = 0

Fault == faults < MaxFaults /\ faults' = faults + 1 /\ drops' = drops
-----------------------------------------------------------------------------
(* The node.                                                               *)

Free(n) == n \notin DOMAIN mempool \/ raised
Reply(n) == CASE n < account                              -> "BadNonce"
              [] n >= account /\ ~Free(n)                 -> "ConflictingNonceInMempool"
              [] n >= account + NodeLimit /\ Free(n)      -> "TooMuchChaining"
              [] OTHER                                    -> "ok"

Accept(n, op) ==
    mempool' = [m \in DOMAIN mempool \cup {n} |-> IF m = n THEN op ELSE mempool[m]]
Without(n) == [m \in DOMAIN mempool \ {n} |-> mempool[m]]

(* A block executes the account's next call.                               *)
Execute ==
    /\ account \in DOMAIN mempool
    /\ mempool' = Without(account)
    /\ account' = account + 1
    /\ UNCHANGED <<at, loop, issued, bounds>>

(* A pending call is forgotten: it expired, or the node restarted.         *)
Drop ==
    /\ drops < MaxDrops /\ drops' = drops + 1
    /\ \E n \in DOMAIN mempool : mempool' = Without(n)
    /\ UNCHANGED <<account, at, loop, issued, faults>>
-----------------------------------------------------------------------------
(* The caller.                                                             *)

(* k new operations are flushed.                                           *)
Flush(k) ==
    /\ at = "idle" /\ k > 0 /\ issued + k <= MaxCalls
    /\ at' = "start"
    /\ ops' = [i \in 1..k |-> issued + i]
    /\ issued' = issued + k
    /\ UNCHANGED <<node, nonce, last, limit, raised, answer, bounds>>

ReadStartingNonce ==
    /\ at = "start"
    /\ nonce' = account
    /\ at' = "last"
    /\ UNCHANGED <<node, ops, last, limit, raised, answer, issued, bounds>>

ReadExecutedNonce ==
    /\ at = "last"
    /\ last' = account
    /\ at' = "run"
    /\ UNCHANGED <<node, ops, nonce, limit, raised, answer, issued, bounds>>

Sending   == at = "run" /\ ops # <<>>
Throttled == nonce > last + limit
Draining  == at = "run" /\ ops = <<>>

(* sleep, then look at the account again.                                  *)
Wait ==
    /\ Sending /\ Throttled
    /\ last' = account
    /\ UNCHANGED <<node, at, ops, nonce, limit, raised, answer, issued, bounds>>

BroadcastUnthrottled ==     \* altered form: the limit is not obeyed
    /\ Sending
    /\ at' = "sent"
    /\ answer' = Reply(nonce)
    /\ IF Reply(nonce) = "ok" THEN Accept(nonce, Head(ops)) ELSE UNCHANGED mempool
    /\ UNCHANGED <<account, ops, nonce, last, limit, raised, issued, bounds>>
Broadcast ==
    /\ Sending /\ ~Throttled
    /\ at' = "sent"
    /\ \/ /\ answer' = Reply(nonce)
          /\ IF Reply(nonce) = "ok" THEN Accept(nonce, Head(ops))
                                    ELSE UNCHANGED mempool
          /\ UNCHANGED bounds
       \/ /\ Fault
          /\ answer' = "Refused" /\ UNCHANGED mempool
    /\ UNCHANGED <<account, ops, nonce, last, limit, raised, issued>>

(* The request fails, before or after the node took the call: the          *)
(* operation is given up and the nonce stays.                              *)
GiveUp == /\ ops' = Tail(ops) /\ raised' = FALSE
          /\ UNCHANGED <<nonce, last, limit>>
BroadcastThrows ==
    /\ Sending /\ ~Throttled
    /\ Fault
    /\ \/ UNCHANGED mempool
       \/ Reply(nonce) = "ok" /\ Accept(nonce, Head(ops))
    /\ GiveUp
    /\ UNCHANGED <<account, at, answer, issued>>

(* After onBroadcast, by the answer.                                       *)
Answered(a) == /\ at = "sent" /\ answer = a
               /\ at' = "run" /\ answer' = "none"
               /\ UNCHANGED <<node, issued, bounds>>

DidBroadcast ==
    /\ Answered("ok")
    /\ nonce' = nonce + 1
    /\ ops' = Tail(ops) /\ raised' = FALSE
    /\ UNCHANGED <<last, limit>>

DidConflict ==
    /\ Answered("ConflictingNonceInMempool")
    /\ \/ Strategy = "increase" /\ nonce' = nonce + 1 /\ raised' = raised
       \/ Strategy = "replace"  /\ raised' = TRUE     /\ nonce' = nonce
    /\ UNCHANGED <<ops, last, limit>>

ChainAtEnd ==       \* altered form: the operation goes to the end of the queue
    /\ Answered("TooMuchChaining")
    /\ ops' = Append(Tail(ops), Head(ops))
    /\ limit' = limit - 1
    /\ UNCHANGED <<nonce, last, raised>>
DidChain ==
    /\ Answered("TooMuchChaining")
    /\ limit' = limit - 1
    /\ UNCHANGED <<ops, nonce, last, raised>>

RefuseNumbered ==   \* altered form: the nonce of a refused call counts as used
    /\ \E a \in {"BadNonce", "Refused"} : Answered(a)
    /\ nonce' = nonce + 1
    /\ ops' = Tail(ops) /\ raised' = FALSE
    /\ UNCHANGED <<last, limit>>
DidRefuse ==
    /\ \E a \in {"BadNonce", "Refused"} : Answered(a)
    /\ GiveUp

(* onBroadcast fails: the operation is given up, though it may be sent.    *)
CallbackThrows ==
    /\ at = "sent"
    /\ Fault
    /\ at' = "run" /\ answer' = "none"
    /\ GiveUp
    /\ UNCHANGED <<node, issued>>

Drain ==
    /\ Draining /\ nonce > last
    /\ last' = account
    /\ limit' = MaxPerBlock
    /\ UNCHANGED <<node, at, ops, nonce, raised, answer, issued, bounds>>

FinishEarly ==      \* altered form: does not wait for the last nonce
    /\ Draining
    /\ Forget
    /\ UNCHANGED <<node, issued, bounds>>
Finish ==
    /\ Draining /\ nonce <= last
    /\ Forget
    /\ UNCHANGED <<node, issued, bounds>>

(* The process dies, or an exception leaves processOperations (the account *)
(* or the memory pool cannot be read, a replacement of a fee is refused);  *)
(* either way the operations left are forgotten.                           *)
CallerCrash ==
    /\ at # "idle"
    /\ Fault
    /\ Forget
    /\ UNCHANGED <<node, issued>>

Call == \/ ReadStartingNonce \/ ReadExecutedNonce \/ Wait \/ Broadcast
        \/ DidBroadcast \/ DidConflict \/ DidChain \/ DidRefuse
        \/ Drain \/ Finish
Environment == Drop \/ BroadcastThrows \/ CallbackThrows \/ CallerCrash

CallerNext == \/ \E k \in 1..MaxCalls : Flush(k)
              \/ Call \/ Execute \/ Environment

CallerSpec == CallerInit /\ [][CallerNext]_callerVars

(* The event loop goes on, and blocks are mined.                           *)
FairCallerSpec == CallerSpec /\ WF_callerVars(Call) /\ WF_callerVars(Execute)
-----------------------------------------------------------------------------
(* The nonces below the next one to send are executed or pending, whatever *)
(* was refused, lost or begun again: a gap would hold up every later call. *)
NoGap == drops = 0 /\ at \in {"run", "sent"} =>
    \A n \in account .. nonce - 1 : n \in DOMAIN mempool

(* What the node holds is in the order in which the relayer issued it, and *)
(* no operation is there twice.                                            *)
InOrder == drops = 0 /\ Strategy = "increase" =>
    \A m, n \in DOMAIN mempool : m < n => mempool[m] < mempool[n]

(* TooMuchChaining lowers the limit to one less than what the node holds,  *)
(* never to where the caller would wait with nothing pending.              *)
LimitFloor == limit = MaxPerBlock \/ limit >= NodeLimit - 1

(* Whoever flushes gets control back.                                      *)
CallerReturns == at # "idle" ~> at = "idle" \/ drops > 0
=============================================================================
