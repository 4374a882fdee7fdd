----------------------------- MODULE IndexerStore -----------------------------
(***************************************************************************)
(* The off-chain store: the API server writes each proof a validator posts *)
(* to PostgreSQL, and the indexer worker turns groups of agreeing proofs   *)
(* into validated transfers.                                               *)
(*                                                                         *)
(*   API server       POST /api/v1/indexer/txs: the order hash is compared *)
(*                    with the contract's, then one transaction finds the  *)
(*                    addresses, inserts the proof and, if it is the first *)
(*                    one of its place, the Bitcoin transaction            *)
(*                    (upsertTxWithProof);                                 *)
(*   indexer worker   a loop of transactions, each of which selects up to  *)
(*                    SyncSize groups of unvalidated proofs, writes one    *)
(*                    validated_txs row per group and marks its proofs     *)
(*                    (processPendingProofs).                              *)
(*                                                                         *)
(* The transactions run at READ COMMITTED: each statement sees what other  *)
(* transactions committed before it, an insert waits for an uncommitted    *)
(* row with its unique key, and then fails (or, ON CONFLICT DO NOTHING,    *)
(* does nothing) if that row was committed.                                *)
(***************************************************************************)
EXTENDS Integers, FiniteSets

CONSTANTS
    Orders,         \* the transfers validators report
    PlaceOf,        \* <<Bitcoin transaction, (output, satpoint)>> of an order
    Unaddressable,  \* those whose sender's or receiver's script has no address
    Validators,     \* validator processes, by their type (bis, hiro, unisat)
    SignerOf,       \* the key each of them signs with
    MinAgreement,   \* RELAYER_MINIMAL_AGREEMENT_COUNT
    SyncSize,       \* META_INDEXER_SYNC_SIZE
    Requests,       \* bound: requests the API server handles at a time
    MaxLost,        \* bound: lost connections and process crashes
    Nothing         \* no request, no transaction

ASSUME StoreConstants ==
    /\ MinAgreement \in Nat /\ SyncSize \in Nat \ {0} /\ MaxLost \in Nat
    /\ IsFiniteSet(Orders) /\ IsFiniteSet(Validators) /\ Unaddressable \subseteq Orders
    /\ DOMAIN PlaceOf = Orders /\ DOMAIN SignerOf = Validators

(* A proof: who reports it, the fields of the transfer, and the order      *)
(* whose hash it claims and signs.                                         *)
Proofs == [validator : Validators, order : Orders, claim : Orders]

(* A validated_txs row: the fields of one of the proofs of its order hash, *)
(* and the proofs whose signatures it carries.                             *)
ValidatedTxs == [order : Orders, claim : Orders, proofs : SUBSET Proofs]

Place(p)     == PlaceOf[p.order]
Signer(p)    == SignerOf[p.validator]
Signature(p) == <<Signer(p), p.claim>>   \* signing is deterministic
Signers(ps)  == {Signer(p) : p \in ps}

VARIABLES
    proofs,         \* indexer.proofs
    validated,      \* the proofs with validated = true
    txs,            \* indexer.txs, by id
    validatedTxs,   \* indexer.validated_txs
    req,            \* what each request is doing
    meta,           \* what the indexer worker is doing
    lost            \* lost connections and crashes so far

tables == <<proofs, validated, txs, validatedTxs>>
vars == <<tables, req, meta, lost>>

(* at: "posted" (order hash not yet compared), "proof" (before the first   *)
(* insert), "look" (before the select), "tx" (before the second insert),   *)
(* "commit", "ok" (committed, not yet answered).                           *)
Busy == [at : {"posted", "proof", "look", "tx", "commit", "ok"}, proof : Proofs,
         newProof : BOOLEAN, newTx : BOOLEAN]

(* at: "idle", "look" (over the groups `todo'), "insert" (over `found'),   *)
(* "failed" (an exception ended the loop).                                 *)
Idle == [at |-> "idle", batch |-> {}, todo |-> {}, found |-> {}, inserted |-> {}]
Worker == [at : {"idle", "look", "insert", "failed"}, batch : SUBSET Proofs,
           todo : SUBSET Orders, found : SUBSET ValidatedTxs,
           inserted : SUBSET ValidatedTxs]

TypeOK ==
    /\ proofs \subseteq Proofs /\ validated \subseteq proofs
    /\ validatedTxs \subseteq ValidatedTxs
    /\ txs \subseteq {PlaceOf[o] : o \in Orders}
    /\ req \in [Requests -> Busy \cup {Nothing}]
    /\ meta \in Worker
    /\ lost \in 0..MaxLost

Init ==
    /\ proofs = {} /\ validated = {} /\ txs = {} /\ validatedTxs = {}
    /\ req = [r \in Requests |-> Nothing]
    /\ meta = Idle
    /\ lost = 0

-----------------------------------------------------------------------------
(* The API server.                                                         *)

At(r, label) == req[r] # Nothing /\ req[r].at = label
Go(r, label) == req' = [req EXCEPT ![r].at = label]
End(r)       == req' = [req EXCEPT ![r] = Nothing]
Others(r)    == {s \in Requests \ {r} : req[s] # Nothing}

Post(r, p) ==
    /\ req[r] = Nothing
    /\ req' = [req EXCEPT ![r] = [at |-> "posted", proof |-> p,
                                  newProof |-> FALSE, newTx |-> FALSE]]
    /\ UNCHANGED <<tables, meta, lost>>

(* The contract hashes the fields; the result must be the claimed hash.    *)
HashNotCompared(r) ==       \* altered form: any claim is taken
    /\ At(r, "posted")
    /\ Go(r, "proof")
    /\ UNCHANGED <<tables, meta, lost>>
ValidateOrderHash(r) ==
    /\ At(r, "posted")
    /\ IF req[r].proof.claim = req[r].proof.order THEN Go(r, "proof") ELSE End(r)
    /\ UNCHANGED <<tables, meta, lost>>

(* The end of a transaction that failed: nothing of it stays, the client   *)
(* is answered with an error.                                              *)
LeftOpen(r) ==          \* altered form: the failed transaction is never ended
    /\ Go(r, "aborted")
    /\ UNCHANGED <<tables, meta, lost>>
Rollback(r) ==
    /\ End(r)
    /\ UNCHANGED <<tables, meta, lost>>

(* The scripts must have addresses.  Unique (type, order_hash, signature,  *)
(* signer): an equal row is kept, an equal row of an open transaction is   *)
(* waited for.                                                             *)
EncodeAddress(p) == p.order \notin Unaddressable
SameKey(p, q) == p.validator = q.validator /\ p.claim = q.claim
InsertProof(r) ==
    LET p == req[r].proof IN
    /\ At(r, "proof")
    /\ \/ ~EncodeAddress(p) /\ Rollback(r)
       \/ /\ EncodeAddress(p)
          /\ ~ \E s \in Others(r) : req[s].newProof /\ SameKey(req[s].proof, p)
          /\ req' = [req EXCEPT ![r].at = "look",
                                ![r].newProof = ~ \E q \in proofs : SameKey(q, p)]
          /\ UNCHANGED <<tables, meta, lost>>

LookUpDirty(r) ==       \* altered form: sees rows of open transactions
    /\ At(r, "look")
    /\ Go(r, IF \/ Place(req[r].proof) \in txs
                \/ \E s \in Others(r) : req[s].newTx /\ Place(req[s].proof) = Place(req[r].proof)
             THEN "commit" ELSE "tx")
    /\ UNCHANGED <<tables, meta, lost>>
LookUpTx(r) ==
    /\ At(r, "look")
    /\ Go(r, IF Place(req[r].proof) \in txs THEN "commit" ELSE "tx")
    /\ UNCHANGED <<tables, meta, lost>>

(* txs.id is unique.                                                       *)
ConflictIsOk(r) ==      \* altered form: a unique violation counts as success
    LET place == Place(req[r].proof) IN
    /\ At(r, "tx")
    /\ ~ \E s \in Others(r) : req[s].newTx /\ Place(req[s].proof) = place
    /\ req' = [req EXCEPT ![r].at = IF place \in txs THEN "ok" ELSE "commit",
                          ![r].newTx = place \notin txs]
    /\ UNCHANGED <<tables, meta, lost>>
InsertTx(r) ==
    LET place == Place(req[r].proof) IN
    /\ At(r, "tx")
    /\ ~ \E s \in Others(r) : req[s].newTx /\ Place(req[s].proof) = place
    /\ \/ /\ place \notin txs
          /\ req' = [req EXCEPT ![r].at = "commit", ![r].newTx = TRUE]
          /\ UNCHANGED <<tables, meta, lost>>
       \/ /\ place \in txs
          /\ Rollback(r)

CommitPost(r) ==
    /\ At(r, "commit")
    /\ proofs' = proofs \cup (IF req[r].newProof THEN {req[r].proof} ELSE {})
    /\ txs' = txs \cup (IF req[r].newTx THEN {Place(req[r].proof)} ELSE {})
    /\ req' = [req EXCEPT ![r].at = "ok", ![r].newProof = FALSE, ![r].newTx = FALSE]
    /\ UNCHANGED <<validated, validatedTxs, meta, lost>>

Answer(r) ==
    /\ At(r, "ok")
    /\ End(r)
    /\ UNCHANGED <<tables, meta, lost>>

(* The connection to the database or to the client breaks.                 *)
LosePost(r) ==
    /\ req[r] # Nothing
    /\ lost < MaxLost /\ lost' = lost + 1
    /\ End(r)
    /\ UNCHANGED <<tables, meta>>

Handle(r) == \/ ValidateOrderHash(r) \/ InsertProof(r) \/ LookUpTx(r)
             \/ InsertTx(r) \/ CommitPost(r) \/ Answer(r)
-----------------------------------------------------------------------------
(* The indexer worker.                                                     *)

Pending(o) == {p \in proofs \ validated : p.claim = o}
Agreed(o)  == Cardinality(Signers(Pending(o))) >= MinAgreement

(* Altered forms: grouped by the place of the transfer instead of the order *)
(* hash; > for >=; validated proofs counted too.                            *)
ReadyByPlace == {o \in Orders : Pending(o) # {} /\
    Cardinality(Signers({p \in proofs \ validated : Place(p) = PlaceOf[o]})) >= MinAgreement}
ReadyAbove   == {o \in Orders : Pending(o) # {}
                                /\ Cardinality(Signers(Pending(o))) > MinAgreement}
ReadyOfAll   == {o \in Orders : Pending(o) # {} /\
    Cardinality(Signers({p \in proofs : p.claim = o})) >= MinAgreement}
Ready        == {o \in Orders : Pending(o) # {} /\ Agreed(o)}

(* One statement: which groups LIMIT keeps is up to the database.          *)
SelectPending ==
    /\ meta.at = "idle"
    /\ \E groups \in SUBSET Ready :
          /\ groups # {}
          /\ Cardinality(groups) <= SyncSize
          /\ groups = Ready \/ Cardinality(groups) = SyncSize
          /\ meta' = [Idle EXCEPT !.at = "look", !.todo = groups,
                                  !.batch = UNION {Pending(o) : o \in groups}]
    /\ UNCHANGED <<tables, req, lost>>

(* The Bitcoin transaction of the first proof of a group; a group without  *)
(* one is skipped.                                                         *)
LookUpGroup ==
    /\ meta.at = "look"
    /\ \E o \in meta.todo :
         LET group == {p \in meta.batch : p.claim = o} IN
         \E first \in group :
           meta' = [meta EXCEPT
             !.todo = @ \ {o},
             !.at = IF meta.todo = {o} THEN "insert" ELSE "look",
             !.found = IF Place(first) \in txs
                       THEN @ \cup {[order |-> first.order, claim |-> o, proofs |-> group]}
                       ELSE @]
    /\ UNCHANGED <<tables, req, lost>>

(* validated_txs.id2 is unique; every signature must then update exactly   *)
(* one unvalidated proof.                                                  *)
SameId2(v, w) == v.claim = w.claim /\ PlaceOf[v.order][1] = PlaceOf[w.order][1]
Marked == UNION {v.proofs : v \in meta.inserted}
Updates(p) == {q \in proofs \ (validated \cup Marked) : Signature(q) = Signature(p)}
InsertableAgain(v) ==   \* altered form: id2 is not unique
    \A p \in v.proofs : Cardinality(Updates(p)) = 1
Insertable(v) ==
    /\ \A w \in validatedTxs \cup meta.inserted : ~SameId2(v, w)
    /\ \A p \in v.proofs : Cardinality(Updates(p)) = 1

InsertValidatedTx ==
    /\ meta.at = "insert"
    /\ \E v \in meta.found :
          meta' = IF Insertable(v)
                  THEN [meta EXCEPT !.found = @ \ {v}, !.inserted = @ \cup {v}]
                  ELSE [Idle EXCEPT !.at = "failed"]
    /\ UNCHANGED <<tables, req, lost>>

CommitBatch ==
    /\ meta.at = "insert" /\ meta.found = {}
    /\ validatedTxs' = validatedTxs \cup meta.inserted
    /\ validated' = validated \cup Marked
    /\ meta' = Idle
    /\ UNCHANGED <<proofs, txs, req, lost>>

(* An exception is not caught anywhere: the process ends, and whatever     *)
(* supervises it starts it again.                                          *)
Restart ==
    /\ meta.at = "failed"
    /\ meta' = Idle
    /\ UNCHANGED <<tables, req, lost>>

LoseWorker ==
    /\ meta.at \in {"look", "insert"}
    /\ lost < MaxLost /\ lost' = lost + 1
    /\ meta' = Idle
    /\ UNCHANGED <<tables, req>>

Work == SelectPending \/ LookUpGroup \/ InsertValidatedTx \/ CommitBatch \/ Restart

Next ==
    \/ \E r \in Requests : \/ \E p \in Proofs : Post(r, p)
                           \/ Handle(r)
                           \/ LosePost(r)
    \/ Work
    \/ LoseWorker

Spec == Init /\ [][Next]_vars

(* The event loop and the database run what can run: a request that was    *)
(* accepted goes on, and so does the worker's loop.                        *)
FairSpec == Spec /\ WF_vars(Work) /\ \A r \in Requests : WF_vars(Handle(r))
-----------------------------------------------------------------------------
(* A stored proof has its Bitcoin transaction, whatever failed in between: *)
(* without it the worker would skip the proof's group for ever.            *)
ProofHasTx == \A p \in proofs : Place(p) \in txs

(* What was answered with 'ok' is stored, though of two first proofs of a  *)
(* place that arrive together one is refused and rolled back.              *)
AckedIsStored == \A r \in Requests : At(r, "ok") => req[r].proof \in proofs

(* A validated transfer carries signatures of MinAgreement signers.        *)
EnoughSigners == \A v \in validatedTxs :
    Cardinality(Signers(v.proofs)) >= MinAgreement

(* The fields of a validated transfer, taken from one of its proofs, are   *)
(* those that each of them states and signed.                              *)
SameFields == \A v \in validatedTxs : \A p \in v.proofs :
    p.order = v.order /\ p.claim = v.order

(* A transfer is validated once, and each marked proof backs exactly one   *)
(* validated transfer: no crash leaves a mark without its row.             *)
ValidatedOnce ==
    /\ \A v, w \in validatedTxs : v.claim = w.claim => v = w
    /\ validated = UNION {v.proofs : v \in validatedTxs}

(* Late proofs of a validated transfer never reach MinAgreement by         *)
(* themselves when there are fewer than twice as many validators, each     *)
(* with a key of its own; then no exception ends the worker's loop.        *)
FewSigners ==
    /\ \A v, w \in Validators : SignerOf[v] = SignerOf[w] => v = w
    /\ Cardinality(Validators) < 2 * MinAgreement
NeverFails == FewSigners => meta.at # "failed"

(* Every request ends: the waits for each other's rows form no cycle.      *)
RequestsEnd == \A r \in Requests : req[r] # Nothing ~> req[r] = Nothing

(* Enough agreeing proofs become a validated transfer.                     *)
AgreedIsValidated == \A o \in Orders :
    FewSigners /\ Agreed(o) ~> \E v \in validatedTxs : v.claim = o
=============================================================================
