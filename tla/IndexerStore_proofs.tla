------------------------- MODULE IndexerStore_proofs -------------------------
(***************************************************************************)
(* Proofs about the off-chain store.  The inductive invariant says what    *)
(* each request has established at the point it has reached, what the      *)
(* worker's batch, groups and rows have to do with the tables, and that    *)
(* the rows of validated_txs and the marks on proofs match.                *)
(***************************************************************************)
EXTENDS IndexerStore, FiniteSetTheorems, TLAPS

(* The order hash of a request that was compared with the contract's is    *)
(* the hash of its fields; what is not written by the request itself was   *)
(* there when it looked, and rows are never deleted.                       *)
RequestInv(c) ==
    /\ c.at # "posted" => c.proof.claim = c.proof.order
    /\ c.newProof => c.at \in {"look", "tx", "commit"}
    /\ c.newTx => c.at = "commit"
    /\ c.at \in {"look", "tx", "commit"} /\ ~c.newProof => c.proof \in proofs
    /\ c.at = "commit" /\ ~c.newTx => Place(c.proof) \in txs
    /\ c.at = "ok" => c.proof \in proofs

ServerInv ==
    /\ \A r \in Requests : req[r] # Nothing => RequestInv(req[r])
    /\ \A p \in proofs : p.claim = p.order
    /\ ProofHasTx

Group(o) == {p \in meta.batch : p.claim = o}

(* A row, written or about to be: the fields of its order, all proofs of   *)
(* a group, and enough signers among them.                                 *)
RowInv(v) ==
    /\ v.order = v.claim
    /\ \A p \in v.proofs : p.claim = v.claim /\ p.order = v.claim
    /\ Cardinality(Signers(v.proofs)) >= MinAgreement

WorkerInv ==
    /\ meta.at \in {"idle", "failed"} =>
          meta.batch = {} /\ meta.todo = {} /\ meta.found = {} /\ meta.inserted = {}
    /\ meta.at = "look" => meta.inserted = {}
    /\ meta.at = "insert" => meta.todo = {}
    /\ meta.batch \subseteq proofs \ validated
    /\ \A o \in meta.todo : Cardinality(Signers(Group(o))) >= MinAgreement
    /\ \A v \in meta.found \cup meta.inserted :
          RowInv(v) /\ v.proofs = Group(v.claim) /\ v.claim \notin meta.todo
    /\ \A v \in meta.found, w \in meta.inserted : v.claim # w.claim
    /\ \A v \in validatedTxs, w \in meta.inserted : v.claim # w.claim

RowsInv == ValidatedOnce /\ \A v \in validatedTxs : RowInv(v)

IInv == TypeOK /\ ServerInv /\ WorkerInv /\ RowsInv /\ NeverFails
-----------------------------------------------------------------------------
(* A proof whose claim is its order is determined by its unique key.       *)
LEMMA KeyOfProof ==
    ASSUME NEW p \in Proofs, NEW q \in Proofs, SameKey(p, q),
           p.claim = p.order, q.claim = q.order
    PROVE  p = q
<1>1. ASSUME NEW x \in Proofs
      PROVE  x = [validator |-> x.validator, order |-> x.order, claim |-> x.claim]
  BY DEF Proofs
<1> QED
  BY <1>1 DEF SameKey

(* So is a row of a group determined by its order.                         *)
LEMMA KeyOfRow ==
    ASSUME NEW v \in ValidatedTxs, NEW w \in ValidatedTxs,
           v.claim = w.claim, v.order = v.claim, w.order = w.claim,
           v.proofs = w.proofs
    PROVE  v = w
<1>1. ASSUME NEW x \in ValidatedTxs
      PROVE  x = [order |-> x.order, claim |-> x.claim, proofs |-> x.proofs]
  BY DEF ValidatedTxs
<1> QED
  BY <1>1

LEMMA InitInv == Init => IInv
<1> SUFFICES ASSUME Init PROVE IInv
  OBVIOUS
<1>1. meta \in Worker
  BY DEF Init, Idle, Worker
<1>2. TypeOK
  BY <1>1, StoreConstants DEF Init, TypeOK
<1>3. ServerInv
  BY DEF Init, ServerInv, ProofHasTx
<1>4. WorkerInv /\ NeverFails
  BY DEF Init, WorkerInv, NeverFails, Idle
<1>5. RowsInv
  BY DEF Init, RowsInv, ValidatedOnce
<1> QED
  BY <1>2, <1>3, <1>4, <1>5 DEF IInv
-----------------------------------------------------------------------------
(* The API server: a step of a request that has not committed.             *)

(* Nothing but the request's own record changes.                           *)
LEMMA OwnRecord ==
    ASSUME IInv, NEW r \in Requests, NEW c,
           req' = [req EXCEPT ![r] = c], c = Nothing \/ c \in Busy,
           c # Nothing => RequestInv(c),
           UNCHANGED <<tables, meta>>, lost' \in 0..MaxLost
    PROVE  IInv'
<1> USE DEF IInv, tables
<1>1. \A s \in Requests : req'[s] = IF s = r THEN c ELSE req[s]
  BY DEF TypeOK
<1>2. TypeOK'
  BY DEF TypeOK
<1>3. ServerInv'
  BY <1>1 DEF ServerInv, RequestInv, ProofHasTx
<1>4. WorkerInv'
  BY DEF WorkerInv, Group, RowInv
<1>5. RowsInv' /\ NeverFails'
  BY DEF RowsInv, RowInv, ValidatedOnce, NeverFails
<1> QED
  BY <1>2, <1>3, <1>4, <1>5

LEMMA RequestTyped ==
    ASSUME IInv, NEW r \in Requests, req[r] # Nothing
    PROVE  req[r] \in Busy /\ RequestInv(req[r])
BY DEF IInv, TypeOK, ServerInv

LEMMA EndStep ==
    ASSUME IInv, NEW r \in Requests, End(r), UNCHANGED <<tables, meta>>,
           lost' \in 0..MaxLost
    PROVE  IInv'
BY OwnRecord DEF End

(* A record of which only the label changes.                               *)
LEMMA GoRecord ==
    ASSUME IInv, NEW r \in Requests, NEW label, req[r] # Nothing, Go(r, label)
    PROVE  req' = [req EXCEPT ![r] = [req[r] EXCEPT !.at = label]]
BY DEF IInv, TypeOK, Go

LEMMA PostStep ==
    ASSUME IInv, NEW r \in Requests, NEW p \in Proofs, Post(r, p)
    PROVE  IInv'
<1> DEFINE c == [at |-> "posted", proof |-> p, newProof |-> FALSE, newTx |-> FALSE]
<1>1. c \in Busy /\ RequestInv(c)
  BY DEF Busy, RequestInv
<1>2. req' = [req EXCEPT ![r] = c] /\ UNCHANGED <<tables, meta>> /\ lost' \in 0..MaxLost
  BY DEF Post, IInv, TypeOK
<1> HIDE DEF c
<1> QED
  BY <1>1, <1>2, OwnRecord

LEMMA ValidateOrderHashStep ==
    ASSUME IInv, NEW r \in Requests, ValidateOrderHash(r)
    PROVE  IInv'
<1>1. /\ req[r] # Nothing /\ req[r].at = "posted"
      /\ UNCHANGED <<tables, meta>> /\ lost' \in 0..MaxLost
  BY DEF ValidateOrderHash, At, IInv, TypeOK
<1>2. CASE req[r].proof.claim = req[r].proof.order
  <2> DEFINE c == [req[r] EXCEPT !.at = "proof"]
  <2>1. req' = [req EXCEPT ![r] = c]
    BY <1>1, <1>2, GoRecord DEF ValidateOrderHash
  <2>2. c \in Busy /\ RequestInv(c)
    BY <1>1, <1>2, RequestTyped DEF Busy, RequestInv
  <2> HIDE DEF c
  <2> QED
    BY <1>1, <2>1, <2>2, OwnRecord
<1>3. CASE req[r].proof.claim # req[r].proof.order
  BY <1>1, <1>3, EndStep DEF ValidateOrderHash
<1> QED
  BY <1>2, <1>3

LEMMA InsertProofStep ==
    ASSUME IInv, NEW r \in Requests, InsertProof(r)
    PROVE  IInv'
<1> DEFINE new == ~ \E q \in proofs : SameKey(q, req[r].proof)
<1> DEFINE c == [req[r] EXCEPT !.at = "look", !.newProof = new]
<1>1. /\ req[r] # Nothing /\ req[r].at = "proof"
      /\ UNCHANGED <<tables, meta>> /\ lost' \in 0..MaxLost
  BY DEF InsertProof, Rollback, At, IInv, TypeOK
<1>2. CASE ~EncodeAddress(req[r].proof)
  BY <1>1, <1>2, EndStep DEF InsertProof, Rollback
<1>3. CASE EncodeAddress(req[r].proof)
  <2>1. req' = [req EXCEPT ![r] = c]
    BY <1>3 DEF InsertProof, IInv, TypeOK
  <2>2. ~new => req[r].proof \in proofs
    <3> SUFFICES ASSUME NEW q \in proofs, SameKey(q, req[r].proof)
                 PROVE  req[r].proof \in proofs
      OBVIOUS
    <3>1. q \in Proofs /\ q.claim = q.order
      BY DEF IInv, TypeOK, ServerInv
    <3>2. req[r].proof \in Proofs /\ req[r].proof.claim = req[r].proof.order
      BY <1>1, RequestTyped DEF Busy, RequestInv
    <3> QED
      BY <3>1, <3>2, KeyOfProof
  <2> HIDE DEF new
  <2>3. new \in BOOLEAN
    BY DEF new
  <2>4. c \in Busy /\ RequestInv(c)
    BY <1>1, <2>2, <2>3, RequestTyped DEF Busy, RequestInv
  <2> HIDE DEF c
  <2> QED
    BY <1>1, <2>1, <2>4, OwnRecord
<1> QED
  BY <1>2, <1>3

LEMMA LookUpTxStep ==
    ASSUME IInv, NEW r \in Requests, LookUpTx(r)
    PROVE  IInv'
<1> DEFINE label == IF Place(req[r].proof) \in txs THEN "commit" ELSE "tx"
<1> DEFINE c == [req[r] EXCEPT !.at = label]
<1>1. /\ req[r] # Nothing /\ req[r].at = "look"
      /\ UNCHANGED <<tables, meta>> /\ lost' \in 0..MaxLost
  BY DEF LookUpTx, At, IInv, TypeOK
<1>2. req' = [req EXCEPT ![r] = c]
  BY <1>1, GoRecord DEF LookUpTx
<1>3. c \in Busy /\ RequestInv(c)
  BY <1>1, RequestTyped DEF Busy, RequestInv
<1> HIDE DEF c
<1> QED
  BY <1>1, <1>2, <1>3, OwnRecord

LEMMA InsertTxStep ==
    ASSUME IInv, NEW r \in Requests, InsertTx(r)
    PROVE  IInv'
<1> DEFINE c == [req[r] EXCEPT !.at = "commit", !.newTx = TRUE]
<1>1. /\ req[r] # Nothing /\ req[r].at = "tx"
      /\ UNCHANGED <<tables, meta>> /\ lost' \in 0..MaxLost
  BY DEF InsertTx, Rollback, At, IInv, TypeOK
<1>2. CASE req' = [req EXCEPT ![r].at = "commit", ![r].newTx = TRUE]
  <2>1. req' = [req EXCEPT ![r] = c]
    BY <1>2 DEF IInv, TypeOK
  <2>2. c \in Busy /\ RequestInv(c)
    BY <1>1, RequestTyped DEF Busy, RequestInv
  <2> HIDE DEF c
  <2> QED
    BY <1>1, <2>1, <2>2, OwnRecord
<1>3. CASE End(r)
  BY <1>1, <1>3, EndStep
<1> QED
  BY <1>2, <1>3 DEF InsertTx, Rollback
-----------------------------------------------------------------------------
(* A request commits: its proof, whose place has a transaction by now, is  *)
(* no part of the worker's batch.                                          *)
LEMMA CommitPostStep ==
    ASSUME IInv, NEW r \in Requests, CommitPost(r)
    PROVE  IInv'
<1> DEFINE p == req[r].proof
<1>1. /\ req[r] # Nothing /\ req[r] \in Busy /\ RequestInv(req[r]) /\ req[r].at = "commit"
      /\ p \in Proofs
  BY RequestTyped DEF CommitPost, At, Busy
<1>2. proofs' = proofs \cup {p} /\ txs' = txs \cup {Place(p)}
  BY <1>1 DEF CommitPost, RequestInv, IInv, ServerInv, ProofHasTx
<1>3. /\ UNCHANGED <<validated, validatedTxs, meta, lost>>
      /\ req' = [req EXCEPT ![r] = [req[r] EXCEPT !.at = "ok", !.newProof = FALSE,
                                                  !.newTx = FALSE]]
  BY DEF CommitPost, IInv, TypeOK
<1>4. TypeOK'
  <2>1. [req[r] EXCEPT !.at = "ok", !.newProof = FALSE, !.newTx = FALSE] \in Busy
    BY <1>1 DEF Busy
  <2>2. Place(p) \in {PlaceOf[o] : o \in Orders}
    BY <1>1 DEF Proofs, Place
  <2> QED
    BY <1>1, <1>2, <1>3, <2>1, <2>2 DEF IInv, TypeOK
<1>5. ServerInv'
  <2>1. p.claim = p.order
    BY <1>1 DEF RequestInv
  <2>2. ASSUME NEW s \in Requests, (req[s] # Nothing)'
        PROVE  RequestInv(req[s])'
    <3>1. CASE s = r
      BY <1>1, <1>2, <1>3, <2>1, <3>1 DEF RequestInv, IInv, TypeOK, Busy
    <3>2. CASE s # r
      BY <1>2, <1>3, <2>2, <3>2 DEF RequestInv, IInv, TypeOK, ServerInv, Place
    <3> QED
      BY <3>1, <3>2
  <2> QED
    BY <1>2, <2>1, <2>2 DEF IInv, ServerInv, ProofHasTx, Place
<1>6. WorkerInv'
  BY <1>2, <1>3 DEF IInv, WorkerInv, Group, RowInv
<1>7. RowsInv' /\ NeverFails'
  BY <1>3 DEF IInv, RowsInv, RowInv, ValidatedOnce, NeverFails
<1> QED
  BY <1>4, <1>5, <1>6, <1>7 DEF IInv
-----------------------------------------------------------------------------
(* The indexer worker.                                                     *)

LEMMA SelectPendingStep ==
    ASSUME IInv, SelectPending
    PROVE  IInv'
<1> USE DEF tables
<1>1. PICK groups \in SUBSET Ready :
         meta' = [Idle EXCEPT !.at = "look", !.todo = groups,
                              !.batch = UNION {Pending(o) : o \in groups}]
  BY DEF SelectPending
<1>2. UNCHANGED <<tables, req, lost>>
  BY DEF SelectPending
<1>3. /\ meta'.at = "look" /\ meta'.todo = groups /\ meta'.found = {} /\ meta'.inserted = {}
      /\ meta'.batch = UNION {Pending(o) : o \in groups}
  BY <1>1 DEF Idle
<1>4. meta'.batch \subseteq proofs \ validated
  BY <1>3 DEF Pending
<1>5. groups \subseteq Orders
  BY DEF Ready
<1>6. ASSUME NEW o \in groups
      PROVE  Cardinality(Signers(Group(o)')) >= MinAgreement
  <2>1. Group(o)' = Pending(o)
    BY <1>3 DEF Group, Pending
  <2> QED
    BY <2>1 DEF Ready, Agreed
<1>7. TypeOK'
  <2>1. meta'.batch \subseteq Proofs
    BY <1>4 DEF IInv, TypeOK
  <2>2. meta' \in Worker
    BY <1>1, <1>3, <1>5, <2>1 DEF Idle, Worker
  <2> QED
    BY <1>2, <2>2 DEF IInv, TypeOK
<1>8. ServerInv'
  BY <1>2 DEF IInv, ServerInv, RequestInv, ProofHasTx
<1>9. WorkerInv'
  BY <1>2, <1>3, <1>4, <1>6 DEF WorkerInv, Signers
<1>10. RowsInv' /\ NeverFails'
  BY <1>2, <1>3 DEF IInv, RowsInv, RowInv, ValidatedOnce, NeverFails
<1> QED
  BY <1>7, <1>8, <1>9, <1>10 DEF IInv

(* The first proof of a group has the order of all of them.                *)
LEMMA LookUpGroupStep ==
    ASSUME IInv, LookUpGroup
    PROVE  IInv'
<1> USE DEF tables
<1> DEFINE Row(o, first) == [order |-> first.order, claim |-> o, proofs |-> Group(o)]
<1> DEFINE Looked(o, first) ==
      meta' = [meta EXCEPT
             !.todo = @ \ {o},
             !.at = IF meta.todo = {o} THEN "insert" ELSE "look",
             !.found = IF Place(first) \in txs THEN @ \cup {Row(o, first)} ELSE @]
<1>0. PICK o \in meta.todo : \E first \in Group(o) : Looked(o, first)
  BY DEF LookUpGroup, Group
<1>1. PICK first \in Group(o) : Looked(o, first)
  BY <1>0
<1> DEFINE v == Row(o, first)
<1>2. UNCHANGED <<tables, req, lost>> /\ meta.at = "look"
  BY DEF LookUpGroup
<1>3. /\ meta \in Worker /\ meta.batch \subseteq proofs /\ proofs \subseteq Proofs
      /\ \A p \in proofs : p.claim = p.order
  BY DEF IInv, TypeOK, WorkerInv, ServerInv
<1>4. o \in Orders /\ first \in proofs /\ first.order = o
  BY <1>3 DEF Group, Worker
<1>5. v \in ValidatedTxs
  BY <1>3, <1>4 DEF ValidatedTxs, Group, Proofs
<1>6. RowInv(v)
  BY <1>3, <1>4 DEF RowInv, Group, IInv, WorkerInv
<1>7. /\ meta'.at \in {"look", "insert"} /\ meta'.batch = meta.batch
      /\ meta'.todo = meta.todo \ {o} /\ meta'.inserted = meta.inserted
      /\ meta'.found \subseteq meta.found \cup {v}
      /\ meta'.at = "insert" => meta'.todo = {}
  <2> HIDE DEF Row
  <2> QED
    BY <1>1, <1>3 DEF Worker
<1>8. TypeOK'
  <2>1. meta' \in Worker
    BY <1>1, <1>3, <1>5, <1>7 DEF Worker
  <2> QED
    BY <1>2, <2>1 DEF IInv, TypeOK
<1>9. ServerInv'
  BY <1>2 DEF IInv, ServerInv, RequestInv, ProofHasTx
<1>10. v.claim = o /\ v.proofs = Group(o)
  OBVIOUS
<1> HIDE DEF v
<1>11. WorkerInv'
  <2>1. \A x : Group(x)' = Group(x)
    BY <1>7 DEF Group
  <2>2. meta.inserted = {} /\ meta'.inserted = {}
    BY <1>2, <1>7 DEF IInv, WorkerInv
  <2>3. \A w \in meta'.found : RowInv(w) /\ w.proofs = Group(w.claim) /\ w.claim \notin meta'.todo
    BY <1>6, <1>7, <1>10 DEF IInv, WorkerInv
  <2> QED
    BY <1>2, <1>7, <2>1, <2>2, <2>3 DEF IInv, WorkerInv, RowInv
<1>12. RowsInv' /\ NeverFails'
  BY <1>2, <1>7 DEF IInv, RowsInv, RowInv, ValidatedOnce, NeverFails
<1> QED
  BY <1>8, <1>9, <1>11, <1>12 DEF IInv
-----------------------------------------------------------------------------
(* Two groups of proofs of one order, without a proof in common, would     *)
(* need more validators than there are.                                    *)
LEMMA NoSecondGroup ==
    ASSUME FewSigners, NEW o \in Orders,
           NEW ps \in SUBSET Proofs, NEW qs \in SUBSET Proofs, ps \cap qs = {},
           \A p \in ps \cup qs : p.claim = o /\ p.order = o,
           Cardinality(Signers(ps)) >= MinAgreement,
           Cardinality(Signers(qs)) >= MinAgreement
    PROVE  FALSE
<1> DEFINE keys == {SignerOf[v] : v \in Validators}
<1>1. IsFiniteSet(Validators) /\ DOMAIN SignerOf = Validators /\ MinAgreement \in Nat
  BY StoreConstants
<1>2. IsFiniteSet(keys) /\ Cardinality(keys) <= Cardinality(Validators)
  <2> DEFINE f == [v \in Validators |-> SignerOf[v]]
  <2>1. f \in Surjection(Validators, keys)
    BY DEF Surjection
  <2> QED
    BY <1>1, <2>1, FS_Surjection
<1>3. Signers(ps) \subseteq keys /\ Signers(qs) \subseteq keys
  BY DEF Signers, Signer, Proofs
<1>4. Signers(ps) \cap Signers(qs) = {}
  <2> SUFFICES ASSUME NEW p \in ps, NEW q \in qs, Signer(p) = Signer(q)
               PROVE  FALSE
    BY DEF Signers
  <2>1. p \in Proofs /\ q \in Proofs
    OBVIOUS
  <2>2. p.validator = q.validator
    BY <2>1 DEF Signer, FewSigners, Proofs
  <2>3. p = q
    BY <2>1, <2>2, KeyOfProof DEF SameKey
  <2> QED
    BY <2>3
<1>5. /\ IsFiniteSet(Signers(ps)) /\ IsFiniteSet(Signers(qs))
  BY <1>2, <1>3, FS_Subset
<1> DEFINE both == Signers(ps) \cup Signers(qs)
<1>6. Cardinality(both) = Cardinality(Signers(ps)) + Cardinality(Signers(qs))
  <2>1. Cardinality(both) = Cardinality(Signers(ps)) + Cardinality(Signers(qs))
                            - Cardinality(Signers(ps) \cap Signers(qs))
    BY <1>5, FS_Union
  <2>2. Cardinality(Signers(ps) \cap Signers(qs)) = 0
    BY <1>4, FS_EmptySet
  <2> QED
    BY <1>5, <2>1, <2>2, FS_CardinalityType
<1>7. Cardinality(both) <= Cardinality(keys)
  BY <1>2, <1>3, FS_Subset
<1>8. /\ Cardinality(both) \in Nat /\ Cardinality(keys) \in Nat
      /\ Cardinality(Signers(ps)) \in Nat /\ Cardinality(Signers(qs)) \in Nat
      /\ Cardinality(Validators) \in Nat
  BY <1>1, <1>2, <1>5, <1>6, FS_CardinalityType
<1> HIDE DEF both, keys
<1> QED
  BY <1>1, <1>2, <1>6, <1>7, <1>8 DEF FewSigners

(* So a group found by the worker can be written: no row of its order is   *)
(* there, and each of its proofs is marked by its own signature only.      *)
LEMMA FoundIsInsertable ==
    ASSUME IInv, FewSigners, NEW v \in meta.found
    PROVE  Insertable(v)
<1>1. /\ meta \in Worker /\ proofs \subseteq Proofs /\ validated \subseteq proofs
      /\ validatedTxs \subseteq ValidatedTxs
      /\ \A p \in proofs : p.claim = p.order
  BY DEF IInv, TypeOK, ServerInv
<1>2. /\ v \in ValidatedTxs /\ RowInv(v) /\ v.proofs = Group(v.claim)
      /\ v.proofs \subseteq proofs \ validated
  BY <1>1 DEF IInv, WorkerInv, Worker, Group
<1>3. ASSUME NEW w \in validatedTxs \cup meta.inserted, SameId2(v, w)
      PROVE  FALSE
  <2>1. v.claim = w.claim
    BY <1>3 DEF SameId2
  <2>2. w \in validatedTxs
    BY <2>1 DEF IInv, WorkerInv
  <2>3. w \in ValidatedTxs /\ RowInv(w) /\ w.proofs \subseteq validated
    BY <1>1, <2>2 DEF IInv, RowsInv, ValidatedOnce
  <2>4. /\ v.proofs \cap w.proofs = {} /\ v.claim \in Orders
        /\ v.proofs \in SUBSET Proofs /\ w.proofs \in SUBSET Proofs
    BY <1>1, <1>2, <2>3 DEF ValidatedTxs
  <2>5. /\ Cardinality(Signers(v.proofs)) >= MinAgreement
        /\ Cardinality(Signers(w.proofs)) >= MinAgreement
        /\ \A p \in v.proofs \cup w.proofs : p.claim = v.claim /\ p.order = v.claim
    BY <1>2, <2>1, <2>3 DEF RowInv
  <2> HIDE DEF Signers
  <2> QED
    BY <2>4, <2>5, NoSecondGroup
<1>4. ASSUME NEW p \in v.proofs
      PROVE  Cardinality(Updates(p)) = 1
  <2>1. p \in proofs \ validated /\ p.claim = v.claim
    BY <1>2 DEF RowInv
  <2>2. p \notin Marked
    <3> SUFFICES ASSUME NEW w \in meta.inserted, p \in w.proofs
                 PROVE  FALSE
      BY DEF Marked
    <3>1. w.proofs = Group(w.claim) /\ v.claim # w.claim
      BY DEF IInv, WorkerInv
    <3> QED
      BY <2>1, <3>1 DEF Group
  <2>3. ASSUME NEW q \in Updates(p)
        PROVE  q = p
    <3>1. q \in Proofs /\ p \in Proofs /\ q \in proofs
      BY <1>1, <2>1 DEF Updates
    <3>2. Signer(q) = Signer(p) /\ q.claim = p.claim
      BY DEF Updates, Signature
    <3>3. SameKey(q, p)
      BY <3>1, <3>2 DEF Signer, FewSigners, SameKey, Proofs
    <3> QED
      BY <1>1, <2>1, <3>1, <3>3, KeyOfProof
  <2>4. Updates(p) = {p}
    BY <2>1, <2>2, <2>3 DEF Updates
  <2> QED
    BY <2>4, FS_Singleton
<1> QED
  BY <1>3, <1>4 DEF Insertable

(* The worker gives up a transaction, or ends one: no table changes.       *)
LEMMA WorkerRests ==
    ASSUME IInv, UNCHANGED <<tables, req>>, lost' \in 0..MaxLost,
           NEW label \in {"idle", "failed"}, meta' = [Idle EXCEPT !.at = label],
           label = "failed" => ~FewSigners
    PROVE  IInv'
<1> USE DEF tables
<1>1. /\ meta'.at = label /\ meta'.batch = {} /\ meta'.todo = {}
      /\ meta'.found = {} /\ meta'.inserted = {} /\ meta' \in Worker
  BY DEF Idle, Worker
<1>2. TypeOK'
  BY <1>1 DEF IInv, TypeOK
<1>3. ServerInv'
  BY DEF IInv, ServerInv, RequestInv, ProofHasTx
<1>4. WorkerInv'
  BY <1>1 DEF WorkerInv
<1>5. RowsInv' /\ NeverFails'
  BY <1>1 DEF IInv, RowsInv, RowInv, ValidatedOnce, NeverFails, FewSigners
<1> QED
  BY <1>2, <1>3, <1>4, <1>5 DEF IInv

LEMMA InsertValidatedTxStep ==
    ASSUME IInv, InsertValidatedTx
    PROVE  IInv'
<1> USE DEF tables
<1>1. PICK v \in meta.found :
         meta' = IF Insertable(v)
                 THEN [meta EXCEPT !.found = @ \ {v}, !.inserted = @ \cup {v}]
                 ELSE [Idle EXCEPT !.at = "failed"]
  BY DEF InsertValidatedTx
<1>2. UNCHANGED <<tables, req, lost>> /\ meta.at = "insert"
  BY DEF InsertValidatedTx
<1>3. CASE ~Insertable(v)
  <2>1. ~FewSigners
    BY <1>3, FoundIsInsertable
  <2>2. meta' = [Idle EXCEPT !.at = "failed"]
    BY <1>1, <1>3
  <2>3. lost' \in 0..MaxLost
    BY <1>2 DEF IInv, TypeOK
  <2> QED
    BY <1>2, <2>1, <2>2, <2>3, WorkerRests
<1>4. CASE Insertable(v)
  <2>1. meta \in Worker /\ RowInv(v)
    BY DEF IInv, TypeOK, WorkerInv
  <2>2. /\ meta'.at = "insert" /\ meta'.batch = meta.batch /\ meta'.todo = meta.todo
        /\ meta'.found = meta.found \ {v} /\ meta'.inserted = meta.inserted \cup {v}
        /\ meta' \in Worker
    BY <1>1, <1>2, <1>4, <2>1 DEF Worker
  <2>3. TypeOK'
    BY <1>2, <2>2 DEF IInv, TypeOK
  <2>4. ServerInv'
    BY <1>2 DEF IInv, ServerInv, RequestInv, ProofHasTx
  <2>5. \A w \in validatedTxs : w.claim # v.claim
    BY <1>4, <2>1 DEF Insertable, SameId2, IInv, RowsInv, RowInv
  <2>6. \A w \in meta.found \ {v} : w.claim # v.claim
    <3> SUFFICES ASSUME NEW w \in meta.found, w.claim = v.claim
                 PROVE  w = v
      OBVIOUS
    <3>1. v \in ValidatedTxs /\ w \in ValidatedTxs
      BY <2>1 DEF Worker
    <3>2. /\ v.order = v.claim /\ w.order = w.claim
          /\ v.proofs = w.proofs
      BY DEF IInv, WorkerInv, RowInv
    <3> QED
      BY <3>1, <3>2, KeyOfRow
  <2>7. WorkerInv'
    <3>1. \A o : Group(o)' = Group(o)
      BY <2>2 DEF Group
    <3> QED
      BY <1>2, <2>2, <2>5, <2>6, <3>1 DEF IInv, WorkerInv, RowInv
  <2>8. RowsInv' /\ NeverFails'
    BY <1>2, <2>2 DEF IInv, RowsInv, RowInv, ValidatedOnce, NeverFails
  <2> QED
    BY <2>3, <2>4, <2>7, <2>8 DEF IInv
<1> QED
  BY <1>3, <1>4

(* The rows and the marks of a batch appear together.                      *)
LEMMA CommitBatchStep ==
    ASSUME IInv, CommitBatch
    PROVE  IInv'
<1>1. /\ UNCHANGED <<proofs, txs, req, lost>> /\ meta' = Idle
      /\ validatedTxs' = validatedTxs \cup meta.inserted
      /\ validated' = validated \cup Marked
  BY DEF CommitBatch
<1>2. /\ meta'.at = "idle" /\ meta'.batch = {} /\ meta'.todo = {}
      /\ meta'.found = {} /\ meta'.inserted = {} /\ meta' \in Worker
  BY <1>1 DEF Idle, Worker
<1>3. meta \in Worker
  BY DEF IInv, TypeOK
<1>4. Marked \subseteq proofs
  BY DEF Marked, IInv, WorkerInv, Group
<1>5. TypeOK'
  BY <1>1, <1>2, <1>3, <1>4 DEF IInv, TypeOK, Worker
<1>6. ServerInv'
  BY <1>1 DEF IInv, ServerInv, RequestInv, ProofHasTx
<1>7. WorkerInv' /\ NeverFails'
  BY <1>2 DEF WorkerInv, NeverFails
<1>8. ASSUME NEW v \in meta.inserted, NEW w \in meta.inserted, v.claim = w.claim
      PROVE  v = w
  <2>1. v \in ValidatedTxs /\ w \in ValidatedTxs
    BY <1>3 DEF Worker
  <2>2. v.order = v.claim /\ w.order = w.claim /\ v.proofs = w.proofs
    BY <1>8 DEF IInv, WorkerInv, RowInv
  <2> QED
    BY <1>8, <2>1, <2>2, KeyOfRow
<1>9. RowsInv'
  <2>1. \A v, w \in validatedTxs' : v.claim = w.claim => v = w
    BY <1>1, <1>8 DEF IInv, WorkerInv, RowsInv, ValidatedOnce
  <2>2. validated' = UNION {v.proofs : v \in validatedTxs'}
    BY <1>1 DEF Marked, IInv, RowsInv, ValidatedOnce
  <2>3. \A v \in validatedTxs' : RowInv(v)
    BY <1>1 DEF IInv, WorkerInv, RowsInv
  <2> QED
    BY <2>1, <2>2, <2>3 DEF RowsInv, ValidatedOnce, RowInv
<1> QED
  BY <1>5, <1>6, <1>7, <1>9 DEF IInv
-----------------------------------------------------------------------------
LEMMA StutterInv == IInv /\ UNCHANGED vars => IInv'
<1> SUFFICES ASSUME IInv, UNCHANGED vars PROVE IInv'
  OBVIOUS
<1> USE DEF vars, tables
<1>1. TypeOK'
  BY DEF IInv, TypeOK
<1>2. ServerInv'
  BY DEF IInv, ServerInv, RequestInv, ProofHasTx
<1>3. WorkerInv'
  BY DEF IInv, WorkerInv, RowInv, Group
<1>4. RowsInv' /\ NeverFails'
  BY DEF IInv, RowsInv, RowInv, ValidatedOnce, NeverFails
<1> QED
  BY <1>1, <1>2, <1>3, <1>4 DEF IInv

LEMMA NextInv == IInv /\ [Next]_vars => IInv'
<1> SUFFICES ASSUME IInv, [Next]_vars PROVE IInv'
  OBVIOUS
<1>1. lost \in 0..MaxLost /\ MaxLost \in Nat
  BY StoreConstants DEF IInv, TypeOK
<1>2. ASSUME NEW r \in Requests, NEW p \in Proofs, Post(r, p) PROVE IInv'
  BY <1>2, PostStep
<1>3. ASSUME NEW r \in Requests, Handle(r) PROVE IInv'
  <2>1. CASE Answer(r)
    BY <1>1, <2>1, EndStep DEF Answer
  <2> QED
    BY <1>3, <2>1, ValidateOrderHashStep, InsertProofStep, LookUpTxStep, InsertTxStep,
       CommitPostStep DEF Handle
<1>4. ASSUME NEW r \in Requests, LosePost(r) PROVE IInv'
  <2>1. lost' \in 0..MaxLost
    BY <1>1, <1>4 DEF LosePost
  <2> QED
    BY <1>4, <2>1, EndStep DEF LosePost
<1>5. ASSUME meta' = Idle, UNCHANGED <<tables, req>>, lost' \in 0..MaxLost PROVE IInv'
  <2>1. meta' = [Idle EXCEPT !.at = "idle"]
    BY <1>5 DEF Idle
  <2> QED
    BY <1>5, <2>1, WorkerRests
<1>6. CASE Work
  <2>1. CASE Restart
    BY <1>1, <1>5, <2>1 DEF Restart
  <2> QED
    BY <1>6, <2>1, SelectPendingStep, LookUpGroupStep, InsertValidatedTxStep,
       CommitBatchStep DEF Work
<1>7. CASE LoseWorker
  <2>1. lost' \in 0..MaxLost
    BY <1>1, <1>7 DEF LoseWorker
  <2> QED
    BY <1>5, <1>7, <2>1 DEF LoseWorker
<1>8. CASE UNCHANGED vars
  BY <1>8, StutterInv
<1> QED
  BY <1>2, <1>3, <1>4, <1>6, <1>7, <1>8 DEF Next

(* In every state the store's tables, the requests and the worker are      *)
(* related as IInv says, whatever is lost and whoever crashes.             *)
THEOREM Inductive == Spec => []IInv
BY InitInv, NextInv, PTL DEF Spec

(* Every state is well typed: in particular only stored proofs are marked. *)
THEOREM TypeCorrect == Spec => []TypeOK
<1>1. IInv => TypeOK
  BY DEF IInv
<1> QED
  BY <1>1, Inductive, PTL

(* Every stored proof has its Bitcoin transaction, for any number of       *)
(* requests, crashes and lost connections.                                 *)
THEOREM ProofHasTxCorrect == Spec => []ProofHasTx
<1>1. IInv => ProofHasTx
  BY DEF IInv, ServerInv
<1> QED
  BY <1>1, Inductive, PTL

(* What the API server answered with 'ok' is stored, and stays stored.     *)
THEOREM AckedCorrect == Spec => []AckedIsStored
<1>1. IInv => AckedIsStored
  BY DEF IInv, ServerInv, RequestInv, AckedIsStored, At
<1> QED
  BY <1>1, Inductive, PTL

(* A validated transfer has proofs of MinAgreement different signers.      *)
THEOREM EnoughSignersCorrect == Spec => []EnoughSigners
<1>1. IInv => EnoughSigners
  BY DEF IInv, RowsInv, RowInv, EnoughSigners
<1> QED
  BY <1>1, Inductive, PTL

(* The proofs of a validated transfer all state the fields it has.         *)
THEOREM SameFieldsCorrect == Spec => []SameFields
<1>1. IInv => SameFields
  BY DEF IInv, RowsInv, RowInv, SameFields
<1> QED
  BY <1>1, Inductive, PTL

(* A transfer is validated once, and the marked proofs are those of the    *)
(* validated transfers.                                                    *)
THEOREM ValidatedOnceCorrect == Spec => []ValidatedOnce
<1>1. IInv => ValidatedOnce
  BY DEF IInv, RowsInv
<1> QED
  BY <1>1, Inductive, PTL

(* With fewer than twice MinAgreement validators, each with its own key,   *)
(* no exception ends the worker's loop.                                    *)
THEOREM NeverFailsCorrect == Spec => []NeverFails
<1>1. IInv => NeverFails
  BY DEF IInv
<1> QED
  BY <1>1, Inductive, PTL
=============================================================================
