------------------------------- MODULE Relayer -------------------------------
(***************************************************************************)
(* The relayer: in rounds (syncOnce) it takes the places whose proofs are  *)
(* not submitted yet, asks the registry which of them are indexed, finds   *)
(* the order that enough proofs agree on, and has the Stacks caller submit *)
(* the rest in calls of index-tx-many of at most ChunkSize places each.    *)
(* Table submitted_tx keeps it from submitting a place again; the check    *)
(* and back-fill commands delete rows of places that were not indexed.     *)
(*                                                                         *)
(* The contract is reduced to what a call does to it: a call executes as a *)
(* whole or, if one of its signatures was used, not at all.  A proof is    *)
(* its validator and its order: the API server has compared the order hash *)
(* with the contract's, so the relayer's comparison always succeeds.       *)
(***************************************************************************)
EXTENDS StacksCaller, FiniteSets, Functions

CONSTANTS
    Orders, PlaceOf,    \* transfers, and the place of each
    HeightOf,           \* the block of each place
    Selected,           \* orders whose proofs the relayer's query counts: by
                        \* address, by token or all; of its shard, from its
                        \* minimal height, and not too long
    Listed,             \* orders from or to an address of whitelist_to_address
    Young, Old,         \* check looks between so many blocks (15, 100)
    Validators,
    MinProofs,          \* relayer_configs.minimal_proof_count
    MinAgreement,       \* RELAYER_MINIMAL_AGREEMENT_COUNT
    MaxAgreement,       \* RELAYER_MAXIMUM_AGREEMENT_COUNT
    ChunkSize,          \* kChunkSize
    None

Places == Range(PlaceOf)
SelectedPlaces == {PlaceOf[o] : o \in Selected}

ASSUME RelayerConstants ==
    /\ DOMAIN PlaceOf = Orders /\ HeightOf \in [Places -> Nat]
    /\ Selected \subseteq Orders /\ Listed \subseteq Orders
    /\ Young \in Nat /\ Old \in Nat
    /\ MinProofs \in Nat /\ MinAgreement \in Nat /\ MaxAgreement \in Nat
    /\ ChunkSize \in Nat \ {0}

VARIABLES
    proofs,         \* indexer.proofs: <<validator, order>>
    txErrors,       \* the places of indexer.txs with an error
    submitted,      \* indexer.submitted_tx: the row of each place
    calls,          \* the input of each call given to the caller
    indexed, used,  \* the contract: indexed places, used signatures
    executed,       \* the chain: executed calls, and how they ended
    round,          \* the relayer's round
    cli             \* the command that is running

tables   == <<proofs, txErrors, submitted>>
contract == <<indexed, used, executed>>
vars == <<callerVars, tables, calls, contract, round, cli>>

Inputs == [order : Orders, signers : SUBSET Validators]
PlacesOf(call) == {PlaceOf[i.order] : i \in call}
ProofsAt(p) == {q \in proofs : PlaceOf[q[2]] = p}
ProofsOf(p, os) == {q \in ProofsAt(p) : q[2] \in os}
Reported == {PlaceOf[q[2]] : q \in proofs}     \* the places of indexer.txs

NoRound == [at |-> "idle", unread |-> {}, todo |-> {}, inputs |-> <<>>, found |-> {}, errors |-> {}]
NoCommand == [tool |-> "none", todo |-> {}, missing |-> {}]

(* The id of a Stacks transaction stands for its nonce and its call.       *)
TypeOK ==
    /\ CallerTypeOK
    /\ proofs \subseteq Validators \X Orders
    /\ txErrors \subseteq Places /\ indexed \subseteq Places
    /\ \A p \in Places : submitted[p] = None \/
          /\ submitted[p].result \in {"ok", "error", "settled"}
          /\ submitted[p].tx = None \/ submitted[p].tx \in Nat \X (1..issued)
    /\ calls \in Seq(SUBSET Inputs) /\ Len(calls) = issued
    /\ used \subseteq Orders \X Validators
    /\ \A e \in executed : e.nonce < account /\ e.op \in 1..issued
    /\ round.at \in {"idle", "read", "check"} /\ (at # "idle" => round = NoRound)
    /\ cli.tool \in {"none", "check", "back-fill"}

Init ==
    /\ CallerInit
    /\ proofs = {} /\ txErrors = {} /\ submitted = [p \in Places |-> None]
    /\ calls = <<>>
    /\ indexed = {} /\ used = {} /\ executed = {}
    /\ round = NoRound
    /\ cli = NoCommand
-----------------------------------------------------------------------------
(* Around the relayer.                                                     *)

(* A validator's proof is stored; it has one for each place.               *)
StoreProof(v, o) ==
    /\ \A q \in ProofsAt(PlaceOf[o]) : q[1] # v
    /\ proofs' = proofs \cup {<<v, o>>}
    /\ UNCHANGED <<callerVars, txErrors, submitted, calls, contract, round, cli>>

Signatures(call) == UNION {{i.order} \X i.signers : i \in call}

(* A block executes the account's next call (index-tx-many).               *)
ExecuteCall ==
    LET op == mempool[account]
        ok == Signatures(calls[op]) \cap used = {}
    IN /\ Execute
       /\ executed' = executed \cup {[nonce |-> account, op |-> op, ok |-> ok]}
       /\ IF ok THEN /\ used' = used \cup Signatures(calls[op])
                     /\ indexed' = indexed \cup PlacesOf(calls[op])
                ELSE UNCHANGED <<used, indexed>>
       /\ UNCHANGED <<tables, calls, round, cli>>

(* Somebody else submits the proofs of an order.                           *)
Backers(o, qs) == {v \in Validators : <<v, o>> \in qs}
IndexedByOther(o) ==
    /\ Cardinality(Backers(o, proofs)) >= MinAgreement
    /\ ({o} \X Backers(o, proofs)) \cap used = {}
    /\ Fault
    /\ used' = used \cup ({o} \X Backers(o, proofs))
    /\ indexed' = indexed \cup {PlaceOf[o]}
    /\ UNCHANGED <<node, at, loop, issued, tables, calls, executed, round, cli>>
-----------------------------------------------------------------------------
(* A round.                                                                *)

Enough(p, os) == Cardinality(ProofsOf(p, os)) >= MinProofs
Pending == {p \in Places : submitted[p] = None /\ p \notin txErrors /\ Enough(p, Selected)}

(* One transaction, in which each statement sees what is committed by      *)
(* then: it selects the pending places, then reads all proofs of each,     *)
(* the lowest first.                                                       *)
GetPendingSubmitTx ==
    /\ at = "idle" /\ round.at = "idle"
    /\ Pending # {}
    /\ round' = [NoRound EXCEPT !.at = "read", !.unread = Pending]
    /\ UNCHANGED <<callerVars, tables, calls, contract, cli>>

ReadProofs(p) ==
    /\ p \in round.unread /\ \A q \in round.unread : HeightOf[p] <= HeightOf[q]
    /\ round' = [round EXCEPT !.at = IF round.unread = {p} THEN "check" ELSE "read",
                              !.unread = @ \ {p}, !.todo = @ \cup {<<p, ProofsAt(p)>>}]
    /\ UNCHANGED <<callerVars, tables, calls, contract, cli>>

(* The orders with the most proofs, if these are enough.                   *)
Majority(qs) == {o \in {q[2] : q \in qs} :
    /\ Cardinality(Backers(o, qs)) >= MinAgreement
    /\ \A q \in qs : Cardinality(Backers(q[2], qs)) <= Cardinality(Backers(o, qs))}

(* Waiting for more proofs.  (Altered form: also when there are all.)      *)
UndecidedForEver(qs) == Majority(qs) = {} /\ Cardinality(qs) <= MaxAgreement
Undecided(qs) == Majority(qs) = {} /\ Cardinality(qs) # MaxAgreement

(* The registry is asked about a place, and its proofs are counted.        *)
CheckPlace(p, qs) ==
    /\ round.at = "check" /\ <<p, qs>> \in round.todo
    /\ LET rest == round.todo \ {<<p, qs>>} IN
       \/ /\ p \in indexed
          /\ round' = [round EXCEPT !.todo = rest, !.found = @ \cup {p}]
       \/ /\ p \notin indexed /\ Undecided(qs)
          /\ round' = [round EXCEPT !.todo = rest]
       \/ /\ p \notin indexed /\ Majority(qs) = {} /\ ~Undecided(qs)
          /\ round' = [round EXCEPT !.todo = rest, !.errors = @ \cup {p}]
       \/ /\ p \notin indexed
          /\ \E o \in Majority(qs) :
               round' = [round EXCEPT !.todo = rest,
                   !.inputs = Append(@, [order |-> o, signers |-> Backers(o, qs)])]
    /\ UNCHANGED <<callerVars, tables, calls, contract, cli>>

Checked == round.at = "check" /\ round.todo = {}

SetAlreadyIndexed ==
    /\ Checked /\ round.found # {}
    /\ submitted' = [p \in Places |-> IF p \in round.found
                                      THEN [result |-> "settled", tx |-> None]
                                      ELSE submitted[p]]
    /\ round' = [round EXCEPT !.found = {}]
    /\ UNCHANGED <<callerVars, proofs, txErrors, calls, contract, cli>>

SetTxsWithError ==
    /\ Checked /\ round.found = {} /\ round.errors # {}
    /\ txErrors' = txErrors \cup round.errors
    /\ round' = [round EXCEPT !.errors = {}]
    /\ UNCHANGED <<callerVars, proofs, submitted, calls, contract, cli>>

Chunks(s) == [i \in 1 .. (Len(s) + ChunkSize - 1) \div ChunkSize |->
    {s[j] : j \in {k \in 1..Len(s) : (k - 1) \div ChunkSize = i - 1}}]

SubmitChunks ==
    /\ Checked /\ round.found = {} /\ round.errors = {}
    /\ \/ round.inputs = <<>> /\ UNCHANGED <<callerVars, calls>>
       \/ /\ Flush(Len(Chunks(round.inputs)))
          /\ calls' = calls \o Chunks(round.inputs)
    /\ round' = NoRound
    /\ UNCHANGED <<tables, contract, cli>>

(* The rows of the places of a call are written: onBroadcast, onSettled.   *)
UpsertSubmittedTx(ps, row) ==
    submitted' = [p \in Places |-> IF p \in ps THEN row ELSE submitted[p]]

OnBroadcast(result) ==
    /\ at = "sent"
    /\ UpsertSubmittedTx(PlacesOf(calls[Head(ops)]),
                         [result |-> result, tx |-> <<nonce, Head(ops)>>])
    /\ UNCHANGED <<proofs, txErrors, calls, contract, round, cli>>

RecordedAlike ==    \* altered form: every answer is recorded as "ok"
    /\ DidBroadcast \/ DidConflict \/ DidChain \/ DidRefuse
    /\ OnBroadcast("ok")
Broadcasted == \/ DidBroadcast /\ OnBroadcast("ok")
               \/ (DidConflict \/ DidChain \/ DidRefuse) /\ OnBroadcast("error")

(* onSettled is called for the operations that are left in the queue.      *)
SettledBlindly ==   \* altered form: for every call that was sent
    /\ Finish
    /\ UpsertSubmittedTx({p \in Places : submitted[p] # None /\ submitted[p].result = "ok"},
                         [result |-> "settled", tx |-> None])
    /\ UNCHANGED <<proofs, txErrors, calls, contract, round, cli>>
Settled ==
    /\ Finish
    /\ UpsertSubmittedTx(UNION {PlacesOf(calls[op]) : op \in Range(ops)},
                         [result |-> "settled", tx |-> None])
    /\ UNCHANGED <<proofs, txErrors, calls, contract, round, cli>>

CallStep ==
    /\ ReadStartingNonce \/ ReadExecutedNonce \/ Wait \/ Broadcast \/ Drain
    /\ UNCHANGED <<tables, calls, contract, round, cli>>

Trouble ==
    /\ Environment
    /\ UNCHANGED <<tables, calls, contract, round, cli>>

(* The process dies, or an exception ends its loop, and it starts again.   *)
RoundCrash ==
    /\ round.at # "idle"
    /\ Fault
    /\ round' = NoRound
    /\ UNCHANGED <<node, at, loop, issued, tables, calls, contract, cli>>
-----------------------------------------------------------------------------
(* The commands check (rows by the id of their transaction) and back-fill  *)
(* (rows by place): read the tables, ask the registry, delete.             *)

ReadRows(tool, rows) ==
    /\ cli.tool = "none"
    /\ cli' = [NoCommand EXCEPT !.tool = tool, !.todo = rows]
    /\ UNCHANGED <<callerVars, tables, calls, contract, round>>

Recorded == {p \in Places : submitted[p] # None}
RowsOf(ps) == {<<p, submitted[p].tx>> : p \in {q \in Recorded \cap ps : submitted[q].tx # None}}

(* What check reads when it runs for ever (the option long-live): enough   *)
(* proofs with a listed address, and a block neither too young nor too old *)
(* by the highest one of indexer.txs.                                      *)
Watched == {p \in Places :
    /\ \E h \in Reported : HeightOf[p] < HeightOf[h] - Young
    /\ \A h \in Reported : HeightOf[p] > HeightOf[h] - Old
    /\ Enough(p, Listed)}

StartCheck == ReadRows("check", RowsOf(Watched))

(* Run by an operator: check without a window, and back-fill.              *)
StartCheckOnce == ReadRows("check", RowsOf({p \in Places : Enough(p, Listed)}))
StartBackFill == ReadRows("back-fill",
    {<<p, None>> : p \in {q \in Places : ProofsOf(q, Listed) # {}}})

AskRegistry ==
    /\ \E row \in cli.todo :
         cli' = [cli EXCEPT !.todo = @ \ {row},
                            !.missing = IF row[1] \in indexed THEN @ ELSE @ \cup {row}]
    /\ UNCHANGED <<callerVars, tables, calls, contract, round>>

DeleteRows ==
    LET Chosen(p) == \/ cli.tool = "check" /\ \E row \in cli.missing : row[2] = submitted[p].tx
                     \/ cli.tool = "back-fill" /\ <<p, None>> \in cli.missing
    IN /\ cli.tool # "none" /\ cli.todo = {}
       /\ submitted' = [p \in Places |-> IF p \in Recorded /\ Chosen(p) THEN None
                                                                    ELSE submitted[p]]
       /\ cli' = NoCommand
       /\ UNCHANGED <<callerVars, proofs, txErrors, calls, contract, round>>

Check == StartCheck \/ AskRegistry \/ DeleteRows
-----------------------------------------------------------------------------
Relay == \/ GetPendingSubmitTx \/ \E p \in round.unread : ReadProofs(p)
         \/ \E row \in round.todo : CheckPlace(row[1], row[2])
         \/ SetAlreadyIndexed \/ SetTxsWithError \/ SubmitChunks
         \/ CallStep \/ Broadcasted \/ Settled

Next == \/ Relay \/ ExecuteCall \/ Check \/ StartCheckOnce \/ StartBackFill \/ Trouble \/ RoundCrash
        \/ \E v \in Validators, o \in Orders : StoreProof(v, o)
        \/ \E o \in Orders : IndexedByOther(o)

Spec == Init /\ [][Next]_vars

(* The relayer's loop goes on, blocks are mined, and check runs again and  *)
(* again (the option long-live), within its window and its whitelist; the  *)
(* commands of the operator may never run.                                 *)
FairSpec == Spec /\ WF_vars(Relay) /\ WF_vars(ExecuteCall) /\ WF_vars(Check)
-----------------------------------------------------------------------------
(* A row says "settled" only of an indexed place: check never deletes such *)
(* a row, which has no transaction, so the place would not be submitted    *)
(* again unless an operator back-fills.                                    *)
SettledIsIndexed == \A p \in Recorded : submitted[p].result = "settled" => p \in indexed

(* A row that says "ok" names a call that is pending or executed under the *)
(* nonce it names, whatever was refused or retried in between.             *)
RecordedIsSent == drops = 0 /\ Strategy = "increase" =>
    \A p \in Recorded : submitted[p].result = "ok" =>
        LET n == submitted[p].tx[1]  op == submitted[p].tx[2] IN
        \/ n \in DOMAIN mempool /\ mempool[n] = op
        \/ \E e \in executed : e.nonce = n /\ e.op = op

(* As long as nothing goes wrong no place is submitted twice, though check *)
(* and back-fill may delete its row while its call is pending: the next    *)
(* round starts when all calls are executed.  So no call fails.            *)
SubmittedOnce == faults = 0 /\ drops = 0 =>
    /\ \A e \in executed : e.ok
    /\ \A i, j \in Range(mempool) \cup {e.op : e \in executed} :
          PlacesOf(calls[i]) \cap PlacesOf(calls[j]) # {} => i = j

(* In the end every agreed transfer is indexed, whatever went wrong        *)
(* before; unless something went wrong and its row is left where no        *)
(* running check looks: its block is too young or too old, or no address   *)
(* of it is listed.                                                        *)
Agreed == {p \in SelectedPlaces : Majority(ProofsAt(p)) # {} /\ Enough(p, Selected)}
LeftBehind == IF faults = 0 THEN {} ELSE Recorded \ Watched

(* When all validators have spoken of a place and do not agree, it is      *)
(* marked in the end (or somebody else has indexed it).                    *)
Disputed == {p \in SelectedPlaces : /\ Cardinality(ProofsAt(p)) = MaxAgreement
                                    /\ Majority(ProofsAt(p)) = {} /\ Enough(p, Selected)}
DisagreementIsMarked == <>[](Disputed \subseteq txErrors \cup indexed)

(* A submitted place is recorded as settled once it is indexed.            *)
SubmittedIsSettled == \A p \in Places :
    p \in indexed /\ p \in Recorded ~> p \in Recorded /\ submitted[p].result = "settled"
=============================================================================
