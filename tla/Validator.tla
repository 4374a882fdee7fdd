------------------------------- MODULE Validator -------------------------------
(***************************************************************************)
(* One validator process.  Its loop walks the Bitcoin blocks in order; for *)
(* each block it asks an indexer of the BRC-20 protocol (its back end:     *)
(* BestInSlot, Hiro or UniSat) for the transfers of the block and for the  *)
(* balances they leave, fetches the Bitcoin transaction of each, signs it  *)
(* and posts it to the API server.  The loop keeps no state of its own:    *)
(* where it starts is the highest block with a stored proof of its type.   *)
(*                                                                         *)
(* The back ends differ in how they ask (BestInSlot: one answer for the    *)
(* activities, balances in batches; Hiro and UniSat: pages) and in what a  *)
(* failure does: drop the transfer, or end the observable, and with it     *)
(* the loop.                                                               *)
(***************************************************************************)
EXTENDS Integers, Sequences, FiniteSets, SequencesExt, FiniteSetsExt, ApiErrors

CONSTANTS
    Activity,       \* the transfers of each block, in the back end's order
    From, To,       \* of a transfer: (address, ticker) of sender and receiver
    EntryAt,        \* place of such a pair in its address's list of balances,
                    \* 0 if the back end has none
    Units,          \* amount of a transfer in the smallest units of its token
    Decimals,       \* decimals of the tokens; Hiro prints as many digits
    NoAddress,      \* transfers without a sender or receiver, or an amount
    Undecodable,    \* transfers whose scripts have no address
    Negative,       \* pairs whose balance is reported as negative
    Genesis,        \* VALIDATOR_GENESIS_BLOCK_HEIGHT
    SyncBack,       \* VALIDATOR_STARTING_SYNC_BACK_BLOCK_HEIGHT
    Threshold,      \* INDEXER_SYNC_THRESHOLD_BLOCK
    ForceStart, ForceEnd,   \* VALIDATOR_FORCE_SYNC_START and _END
    PageSize,       \* page limit of Hiro and UniSat
    Retries,        \* retry(10) around the pages of the activities
    BatchSize,      \* BIS_BALANCE_BATCH_SIZE
    BackEnds, Modes,\* the back ends, and the modes the process is started in
    MaxFaults,      \* bound: failed requests and crashes
    Zero            \* the balance Hiro's validator signs for want of an entry

Blocks == DOMAIN Activity
Transfers == UNION {ToSet(Activity[h]) : h \in Blocks}
Pairs == DOMAIN EntryAt
MaxTip == Max(Blocks) + Threshold   \* bound: the highest tip
HeightOf(t) == CHOOSE h \in Blocks : t \in ToSet(Activity[h])

ASSUME ValidatorConstants ==
    /\ Genesis \in Blocks /\ SyncBack \in Nat /\ Threshold \in Nat
    /\ ForceStart \in Blocks /\ ForceEnd \in Blocks
    /\ PageSize \in Nat \ {0} /\ BatchSize \in Nat \ {0}
    /\ Retries \in Nat /\ MaxFaults \in Nat /\ Decimals \in Nat
    /\ BackEnds \subseteq {"bis", "hiro", "unisat"}
    /\ Modes \subseteq {"interval", "force", "resync"}
    /\ Blocks \subseteq Nat /\ IsFiniteSet(Blocks)
    /\ \A h \in Blocks : Activity[h] \in Seq(Transfers)
    /\ \A g, h \in Blocks : g # h => ToSet(Activity[g]) \cap ToSet(Activity[h]) = {}
    /\ From \in [Transfers -> Pairs] /\ To \in [Transfers -> Pairs]
    /\ EntryAt \in [Pairs -> Nat] /\ Units \in [Transfers -> Nat] /\ Zero \notin Pairs

(* Arithmetic that no instance can break: the provers know no powers.      *)
ASSUME PowersOfTen ==
    10^0 = 1 /\ \A n \in 0..Decimals : /\ 10^n \in Nat \ {0}
                                      /\ 10^Decimals = 10^n * 10^(Decimals - n)

(* The balances found for a transfer (the pairs they are of), and the      *)
(* order that is signed and stored, with its amount.                       *)
Balances == [transfer : Transfers, from : Pairs \cup {Zero}, to : Pairs \cup {Zero}]
Orders == [found : Balances, amt : Nat]

(* What fails: a page of the activities, an entry of the balances, the     *)
(* Bitcoin transaction or the post of a transfer; "refused" is an answer   *)
(* by which the API server blames the transfer.                            *)
Steps == {"page", "entry", "tx", "post", "refused"}

VARIABLES
    backEnd,    \* which back end the process uses
    mode,       \* "interval", "force" or "resync", as started
    interval,   \* the interval sync runs
    at,         \* what the loop is doing (see TypeOK)
    first,      \* hasFinishedAtLeastOneSync is still false
    height, to, \* the block being processed, and the last of the round
    feed,       \* the pages of the activities
    batch,      \* BestInSlot's batches of balances
    job,        \* where each transfer of the block is
    signs,      \* the balances found for each
    posts,      \* transfers waiting to be submitted, in order
    tip,        \* height of the Bitcoin tip
    proofs,     \* the proofs of this validator's type the API server stored
    dropped,    \* transfers given up (history)
    lapses,     \* which step failed for which transfer (history)
    jumped,     \* a forced range began beyond the next block (history)
    faults      \* failed requests and crashes so far

block == <<feed, batch, job, signs, posts>>
self == <<backEnd, mode, interval, first>>
loop  == <<self, at, height, to>>
past  == <<proofs, dropped, lapses, jumped>>
vars  == <<loop, block, tip, past, faults>>

NoFeed  == [offset |-> 0, got |-> <<>>, left |-> 0]
NoBatch == [queue |-> <<>>, sent |-> {}, answered |-> {}]
Idle    == [t \in Transfers |-> "none"]

TypeOK ==
    /\ backEnd \in BackEnds /\ mode \in Modes
    /\ at \in {"start", "round", "activity", "pages", "work", "sleep",
               "stopped",       \* the error handler logged; nothing runs
               "down",          \* the process failed
               "exit"}          \* a re-sync is complete
    /\ interval \in BOOLEAN /\ first \in BOOLEAN
    /\ jumped \in BOOLEAN /\ lapses \subseteq Steps \X Transfers
    /\ height \in Int /\ to \in Int
    /\ feed.offset \in Nat /\ feed.left \in 0..Retries
    /\ ToSet(feed.got) \subseteq Transfers
    /\ job \in [Transfers -> {"none", "balance", "bitcoin", "queued"}]
    /\ posts \in Seq(Transfers)
    /\ signs \subseteq Balances /\ proofs \subseteq Orders
    /\ dropped \subseteq Transfers
    /\ tip \in 0..MaxTip /\ faults \in 0..MaxFaults

Stored == {p.found.transfer : p \in proofs}
Latest == Max({HeightOf(t) : t \in Stored})

Init ==
    /\ backEnd \in BackEnds /\ mode \in Modes
    /\ at = "start" /\ interval = FALSE /\ first = TRUE
    /\ height = Genesis /\ to = 0
    /\ feed = NoFeed /\ batch = NoBatch /\ job = Idle /\ signs = {} /\ posts = <<>>
    /\ tip = Genesis
    /\ proofs = {} /\ dropped = {} /\ lapses = {} /\ jumped = FALSE
    /\ faults = 0

Mine ==
    /\ tip < MaxTip /\ tip' = tip + 1
    /\ UNCHANGED <<loop, block, past, faults>>

Fault == faults < MaxFaults /\ faults' = faults + 1
Lapse(step, ts) == lapses' = lapses \cup ({step} \X ts)

ClearBlock == feed' = NoFeed /\ batch' = NoBatch /\ job' = Idle /\ signs' = {}
              /\ posts' = <<>>

(* An error of the observable: the interval sync only logs it, and never   *)
(* subscribes again; in the other modes it ends the process.               *)
ErrorIgnored ==         \* altered form: the round goes on with the next block
    /\ at' = "work"
    /\ ClearBlock
    /\ UNCHANGED <<self, height, to>>
Error ==
    /\ at' = IF interval THEN "stopped" ELSE "down"
    /\ ClearBlock
    /\ UNCHANGED <<self, height, to>>
-----------------------------------------------------------------------------
(* The loop.                                                               *)

NextBlock == IF proofs = {} THEN Genesis ELSE Latest

FromBlockHeight ==
    IF proofs = {} THEN Genesis
    ELSE IF first THEN Latest - SyncBack ELSE Latest

ToBelowThreshold == tip - Threshold - 1     \* altered form: one block short
ToBlockHeight == tip - Threshold

(* The highest block of a range with a stored proof, as the re-sync asks   *)
(* for it: max(height) of a join of two tables that both have a column     *)
(* `height' is refused by the database.                                    *)
TxsColumns    == {"id", "tx_hash", "tx_id", "output", "satpoint", "height"}
ProofsColumns == {"id", "type", "order_hash", "signature", "signer", "height"}
RangeQueryFails == "height" \in TxsColumns \cap ProofsColumns

(* A re-sync begins at the highest stored block of its range; nothing      *)
(* handles a failure of that request.  (Forced and re-synced ranges are    *)
(* given the same bounds here.)                                            *)
InRange == {HeightOf(t) : t \in Stored} \cap ForceStart..ForceEnd
Start ==
    /\ at = "start"
    /\ IF mode = "interval"
       THEN at' = "round" /\ interval' = TRUE /\ UNCHANGED <<height, to, jumped>>
       ELSE /\ at' = IF mode = "resync" /\ RangeQueryFails THEN "down" ELSE "activity"
            /\ height' = IF mode = "force" \/ InRange = {} THEN ForceStart ELSE Max(InRange)
            /\ to' = ForceEnd
            /\ jumped' = (jumped \/ (mode = "force" /\ ForceStart > NextBlock))
            /\ UNCHANGED interval
    /\ UNCHANGED <<backEnd, mode, first, block, tip, proofs, dropped, lapses, faults>>

SyncOnce ==
    /\ at = "round"
    /\ IF ToBlockHeight <= FromBlockHeight
       THEN at' = "sleep" /\ UNCHANGED <<height, to>>
       ELSE at' = "activity" /\ height' = FromBlockHeight /\ to' = ToBlockHeight
    /\ UNCHANGED <<self, block, tip, past, faults>>

SyncOnceFails ==
    /\ at = "round" /\ Fault
    /\ Error
    /\ UNCHANGED <<tip, past>>

(* Everything of the block is done: on to the next one, or to the end of   *)
(* the round.  A forced range is followed by the interval sync, a re-sync  *)
(* by the end of the process.                                              *)
BlockDone ==
    /\ at = "work" /\ job = Idle
    /\ IF height < to
       THEN at' = "activity" /\ height' = height + 1 /\ UNCHANGED interval
       ELSE /\ at' = IF interval THEN "sleep"
                     ELSE IF mode = "force" THEN "round" ELSE "exit"
            /\ interval' = (mode # "resync")
            /\ UNCHANGED height
    /\ ClearBlock
    /\ UNCHANGED <<backEnd, mode, first, to, tip, past, faults>>

Wake ==
    /\ at = "sleep"
    /\ at' = "round" /\ first' = FALSE
    /\ UNCHANGED <<backEnd, mode, interval, height, to, block, tip, past, faults>>

Crash ==
    /\ at \notin {"stopped", "down", "exit"} /\ Fault
    /\ at' = "down" /\ ClearBlock
    /\ UNCHANGED <<self, height, to, tip, past>>

Restart ==
    /\ at \in {"down", "exit"}
    /\ at' = "start" /\ first' = TRUE /\ interval' = FALSE
    /\ UNCHANGED <<backEnd, mode, height, to, block, tip, past, faults>>
-----------------------------------------------------------------------------
(* The activities of the block.                                            *)

Items == IF height \in Blocks THEN Activity[height] ELSE <<>>
PageFrom(o) == SubSeq(Items, o + 1, Min({o + PageSize, Len(Items)}))

BisActivity   == Items
HiroPage(o)   == PageFrom(o)
UnisatPage(o) == PageFrom(o)
Page(o) == CASE backEnd = "bis"    -> BisActivity
             [] backEnd = "hiro"   -> HiroPage(o)
             [] backEnd = "unisat" -> UnisatPage(o)

(* An address that cannot be decoded: Hiro's schema refuses the page,      *)
(* every time, UniSat's leaves the transfer out; BestInSlot gives scripts. *)
Refused(o) == backEnd = "hiro" /\ ToSet(HiroPage(o)) \cap Undecodable # {}
BisUsable(t)    == t \notin NoAddress
HiroUsable(t)   == t \notin NoAddress
UnisatUsable(t) == t \notin NoAddress \cup Undecodable
Usable(t) == CASE backEnd = "bis"    -> BisUsable(t)
               [] backEnd = "hiro"   -> HiroUsable(t)
               [] backEnd = "unisat" -> UnisatUsable(t)

(* The pairs of a block's transfers, two for each, are cut into batches:   *)
(* a full one is sent at once, the rest when the timer has run out.        *)
PairsOf(ts) == FlattenSeq([i \in DOMAIN ts |-> <<From[ts[i]], To[ts[i]]>>])
Batches(ps) ==
    LET full == Len(ps) \div BatchSize
    IN  [queue |-> SubSeq(ps, full * BatchSize + 1, Len(ps)),
         sent |-> {SubSeq(ps, (i - 1) * BatchSize + 1, i * BatchSize) : i \in 1..full},
         answered |-> {}]

(* All pages are there: work on every usable transfer begins.              *)
BatchesOf(got) ==
    IF backEnd = "bis" THEN Batches(PairsOf(SelectSeq(got, Usable))) ELSE NoBatch
Complete(got) ==
    LET usable == {t \in ToSet(got) : Usable(t)} IN
    /\ at' = "work"
    /\ job' = [t \in Transfers |-> IF t \in usable THEN "balance" ELSE "none"]
    /\ batch' = BatchesOf(got)
    /\ dropped' = dropped \cup (ToSet(Items) \ usable)
    /\ feed' = NoFeed
    /\ UNCHANGED <<signs, posts>>

(* What follows a page: the next one, or the end.  The offset is a         *)
(* variable outside the observable.                                        *)
LastPage(o) == o + PageSize >= Len(Items)
Proceed(got, o, left) ==
    IF backEnd = "bis" \/ LastPage(o)
    THEN Complete(got)
    ELSE /\ at' = "pages"
         /\ feed' = [offset |-> o + PageSize, got |-> got, left |-> left]
         /\ UNCHANGED <<batch, job, signs, posts, dropped>>

GetActivity ==
    /\ at = "activity" /\ ~Refused(0)
    /\ Proceed(Page(0), 0, Retries)
    /\ UNCHANGED <<self, height, to, tip, proofs, lapses, jumped, faults>>

(* The first request is made before anyone subscribes: every retry is      *)
(* given the same failure.                                                 *)
GetActivityFails ==
    /\ at = "activity"
    /\ IF Refused(0) THEN UNCHANGED faults ELSE Fault
    /\ Error
    /\ UNCHANGED <<tip, past>>

GetPage ==
    /\ at = "pages" /\ ~Refused(feed.offset)
    /\ Proceed(feed.got \o Page(feed.offset), feed.offset, feed.left)
    /\ UNCHANGED <<self, height, to, tip, proofs, lapses, jumped, faults>>

(* The retry begins again with the first page and goes on with the offset  *)
(* as it is: the page that failed, and those between, are not asked for.   *)
SkippedUpTo(o) == {Items[i] : i \in {j \in DOMAIN Items : PageSize < j /\ j <= o + PageSize}}
RetryPages ==
    /\ feed.left > 0
    /\ Proceed(Page(0), feed.offset, feed.left - 1)
    /\ IF Refused(feed.offset) THEN UNCHANGED lapses
       ELSE Lapse("page", SkippedUpTo(feed.offset))
    /\ UNCHANGED <<self, height, to>>
GetPageFails ==
    /\ at = "pages"
    /\ IF Refused(feed.offset) THEN UNCHANGED faults ELSE Fault
    /\ RetryPages \/ (feed.left = 0 /\ Error /\ UNCHANGED <<dropped, lapses>>)
    /\ UNCHANGED <<tip, proofs, jumped>>
-----------------------------------------------------------------------------
(* The balances of a transfer.                                             *)

Go(t, stage) == job' = [job EXCEPT ![t] = stage]
Drop(t)      == Go(t, "none") /\ dropped' = dropped \cup {t}
InWork(t, stage) == at = "work" /\ job[t] = stage

HasBalances(t, f, g) == /\ signs' = signs \cup {[transfer |-> t, from |-> f, to |-> g]}
                        /\ Go(t, "bitcoin") /\ UNCHANGED dropped

(* BestInSlot.                                                             *)
BatchTimer ==
    /\ at = "work" /\ batch.queue # <<>>
    /\ batch' = [batch EXCEPT !.sent = @ \cup {batch.queue}, !.queue = <<>>]
    /\ UNCHANGED <<loop, feed, job, signs, posts, tip, past, faults>>

(* An answer is delivered to everyone who waits; each looks for its pair.  *)
BatchAnswer ==
    /\ at = "work"
    /\ \E b \in batch.sent :
         batch' = [batch EXCEPT !.sent = @ \ {b}, !.answered = @ \cup ToSet(b)]
    /\ UNCHANGED <<loop, feed, job, signs, posts, tip, past, faults>>

(* A pair the answer leaves out is waited for, without end.                *)
BatchAnswerLacks ==
    /\ at = "work" /\ Fault
    /\ \E b \in batch.sent : \E lacks \in ToSet(b) :
         batch' = [batch EXCEPT !.sent = @ \ {b}, !.answered = @ \cup (ToSet(b) \ {lacks})]
    /\ UNCHANGED <<loop, feed, job, signs, posts, tip, past>>

(* A failed batch is an error to everyone who waits.                       *)
BatchFails ==
    /\ at = "work" /\ batch.sent # {} /\ Fault
    /\ Error
    /\ UNCHANGED <<tip, past>>

Found(t) == {From[t], To[t]} \subseteq batch.answered
WaitsForEver ==
    /\ at = "work" /\ backEnd = "bis" /\ batch.sent = {} /\ batch.queue = <<>>
    /\ \E t \in Transfers : job[t] = "balance" /\ ~Found(t)
FoundAny(t) ==          \* altered form: the first answer is taken, whose ever
    IF batch.answered = {} THEN {}
    ELSE LET k == CHOOSE k \in batch.answered : TRUE IN {<<k, k>>}
FoundPairs(t) == IF Found(t) THEN {<<From[t], To[t]>>} ELSE {}
BisBalances(t) ==
    /\ InWork(t, "balance") /\ backEnd = "bis"
    /\ \E fg \in FoundPairs(t) :
         IF {fg[1], fg[2]} \cap Negative # {}
         THEN Drop(t) /\ UNCHANGED signs
         ELSE HasBalances(t, fg[1], fg[2])
    /\ UNCHANGED <<loop, feed, batch, posts, tip, proofs, lapses, jumped, faults>>

(* Hiro and UniSat.  An entry of the list of balances that is not on its   *)
(* first page is missed when a later page failed and was retried.          *)
Entry(p, missed) == IF EntryAt[p] = 0 \/ p \in missed THEN Zero ELSE p
HiroBalances(t, missed) ==
    HasBalances(t, Entry(From[t], missed), Entry(To[t], missed))
UnisatBalances(t, missed) ==
    LET f == Entry(From[t], missed)
        g == Entry(To[t], missed)
    IN  IF Zero \in {f, g} THEN Drop(t) /\ UNCHANGED signs ELSE HasBalances(t, f, g)
ListedBalances(t, missed) ==
    \/ backEnd = "hiro" /\ HiroBalances(t, missed)
    \/ backEnd = "unisat" /\ UnisatBalances(t, missed)

GetListedBalances(t) ==
    /\ InWork(t, "balance")
    /\ ListedBalances(t, {})
    /\ UNCHANGED <<loop, feed, batch, posts, tip, proofs, lapses, jumped, faults>>

OnLaterPage(t) == {p \in {From[t], To[t]} : EntryAt[p] > PageSize}
ListedBalancesMiss(t) ==
    /\ InWork(t, "balance") /\ Fault
    /\ \E missed \in SUBSET OnLaterPage(t) : missed # {} /\ ListedBalances(t, missed)
    /\ Lapse("entry", {t})
    /\ UNCHANGED <<loop, feed, batch, posts, tip, proofs, jumped>>

(* The first page of the balances or, for Hiro, the token's decimals.      *)
ListedBalancesFail(t) ==
    /\ InWork(t, "balance") /\ backEnd # "bis" /\ Fault
    /\ Error
    /\ UNCHANGED <<tip, past>>
-----------------------------------------------------------------------------
(* The Bitcoin transaction, and the submission: one after the other.       *)

GetBitcoinTx(t) ==
    /\ InWork(t, "bitcoin")
    /\ Go(t, "queued") /\ posts' = Append(posts, t)
    /\ UNCHANGED <<loop, feed, batch, signs, tip, past, faults>>

(* Electrum, the lookup of the block or, for BestInSlot, the decimals.     *)
BisTxFails(t) ==
    /\ backEnd = "bis" /\ Drop(t) /\ Lapse("tx", {t})
    /\ UNCHANGED <<loop, feed, batch, signs, posts>>
HiroTxFails   == backEnd = "hiro" /\ Error /\ UNCHANGED <<dropped, lapses>>
UnisatTxFails == backEnd = "unisat" /\ Error /\ UNCHANGED <<dropped, lapses>>
GetBitcoinTxFails(t) ==
    /\ InWork(t, "bitcoin") /\ Fault
    /\ BisTxFails(t) \/ HiroTxFails \/ UnisatTxFails
    /\ UNCHANGED <<tip, proofs, jumped>>

(* The amount, as the back ends give it: BestInSlot in smallest units,     *)
(* Hiro with all digits of the fraction, UniSat without trailing zeros;    *)
(* and how it is read.                                                     *)
Text(u, n) == [whole |-> u \div 10^Decimals, frac |-> (u % 10^Decimals) \div 10^(Decimals - n),
               digits |-> n]
HiroText(u)   == Text(u, Decimals)
UnisatText(u) == Text(u, Min({n \in 0..Decimals : u % 10^(Decimals - n) = 0}))
RemovePoint(x) == x.whole * 10^x.digits + x.frac
ParseUnits(x)  == x.whole * 10^Decimals + x.frac * 10^(Decimals - x.digits)

FoundFor(t) == CHOOSE b \in signs : b.transfer = t
BisOrder(t)    == [found |-> FoundFor(t), amt |-> Units[t]]
HiroOrder(t)   == [found |-> FoundFor(t), amt |-> RemovePoint(HiroText(Units[t]))]
UnisatOrder(t) == [found |-> FoundFor(t), amt |-> ParseUnits(UnisatText(Units[t]))]
Order(t) == CASE backEnd = "bis"    -> BisOrder(t)
              [] backEnd = "hiro"   -> HiroOrder(t)
              [] backEnd = "unisat" -> UnisatOrder(t)

Posting(t) == at = "work" /\ posts # <<>> /\ t = Head(posts)
Taken(t) == Go(t, "none") /\ posts' = Tail(posts)

(* The server stores what has addresses; nothing else of a transfer that   *)
(* gets here is wrong.                                                     *)
Storable(t) == t \notin Undecodable
Submit(t) ==
    /\ Posting(t) /\ Storable(t)
    /\ Taken(t)
    /\ proofs' = proofs \cup {Order(t)}
    /\ UNCHANGED <<loop, feed, batch, signs, tip, dropped, lapses, jumped, faults>>

(* Status 400 gives the transfer up, whatever the back end; a transaction  *)
(* that cannot be parsed is skipped by BestInSlot's validator likewise.    *)
(* A transfer without an address always gets it; for any other cause       *)
(* something failed: the hashing of the order, or what should not have     *)
(* made the server answer so.                                              *)
OfTheTransfer == {"body", "orderHash", "address"}
SubmitRefused(t, cause) ==
    /\ Posting(t) /\ PostStatus(cause) = 400
    /\ IF cause = "address" THEN ~Storable(t) /\ UNCHANGED <<faults, lapses>>
       ELSE Fault /\ Lapse(IF cause \in OfTheTransfer THEN "refused" ELSE "post", {t})
    /\ Taken(t) /\ dropped' = dropped \cup {t}
    /\ UNCHANGED <<loop, feed, batch, signs, tip, proofs, jumped>>

(* Another status; or no answer, before or after the server stored the     *)
(* proof.  A POST is not sent again.                                       *)
BisSubmitFails == backEnd = "bis" /\ Error /\ UNCHANGED <<dropped, lapses>>
HiroSubmitFails(t) ==
    /\ backEnd = "hiro" /\ Taken(t) /\ dropped' = dropped \cup {t} /\ Lapse("post", {t})
    /\ UNCHANGED <<loop, feed, batch, signs>>
UnisatSubmitFails(t) ==
    /\ backEnd = "unisat" /\ Taken(t) /\ dropped' = dropped \cup {t} /\ Lapse("post", {t})
    /\ UNCHANGED <<loop, feed, batch, signs>>
SubmitFails(t) ==
    /\ Posting(t) /\ Fault
    /\ proofs' = proofs \/ (Storable(t) /\ proofs' = proofs \cup {Order(t)})
    /\ BisSubmitFails \/ HiroSubmitFails(t) \/ UnisatSubmitFails(t)
    /\ UNCHANGED <<tip, jumped>>

(* The operator starts the process anew, perhaps in another mode.          *)
Redeploy ==
    /\ at \in {"stopped", "down", "exit"} \/ WaitsForEver
    /\ at' = "start" /\ first' = TRUE /\ interval' = FALSE
    /\ mode' \in Modes
    /\ ClearBlock
    /\ UNCHANGED <<backEnd, height, to, tip, past, faults>>
-----------------------------------------------------------------------------
Work == \/ Start \/ SyncOnce \/ BlockDone \/ Wake \/ Restart
        \/ GetActivity \/ GetPage
        \/ Refused(0) /\ GetActivityFails
        \/ Refused(feed.offset) /\ GetPageFails
        \/ BatchTimer \/ BatchAnswer
        \/ \E t \in Transfers :
              \/ BisBalances(t) \/ GetListedBalances(t)
              \/ GetBitcoinTx(t) \/ Submit(t) \/ SubmitRefused(t, "address")

Failures == \/ SyncOnceFails \/ Crash \/ GetActivityFails \/ GetPageFails
            \/ BatchAnswerLacks \/ BatchFails
            \/ \E t \in Transfers :
                  \/ ListedBalancesMiss(t) \/ ListedBalancesFail(t)
                  \/ GetBitcoinTxFails(t) \/ SubmitFails(t)
                  \/ \E cause \in PostCauses \ {"address"} : SubmitRefused(t, cause)

Next == Mine \/ Work \/ Failures \/ Redeploy

(* Requests are answered, timers run out, and the supervisor restarts a    *)
(* process that ended; it sees nothing wrong in one whose loop stopped.    *)
Spec == Init /\ [][Next]_vars /\ WF_vars(Work)
-----------------------------------------------------------------------------
(* No transfer is passed over: once a later block has a stored proof, each *)
(* transfer of an earlier one is stored or was given up, whatever crashed  *)
(* or failed in between; unless a range was forced beyond the next block.  *)
NothingSlipsBy ==
    ~jumped => \A t \in Transfers :
        proofs # {} /\ Genesis <= HeightOf(t) /\ HeightOf(t) < Latest
          => t \in Stored \cup dropped

(* A proof signs the amount in smallest units, by which the proofs of all  *)
(* back ends agree, and the balances of its own sender and receiver; only  *)
(* Hiro's validator may sign zero instead, where there is no entry, or     *)
(* where the request for the entries of this very transfer failed.         *)
SignsOwnFigures == \A p \in proofs :
    LET t == p.found.transfer
        own(b, pair) ==
            \/ b = pair
            \/ backEnd = "hiro" /\ b = Zero /\ (EntryAt[pair] = 0 \/ <<"entry", t>> \in lapses)
    IN  own(p.found.from, From[t]) /\ own(p.found.to, To[t]) /\ p.amt = Units[t]

(* A transfer is given up for a cause of its own, or for a failure that    *)
(* was its own and that its back end takes as final.  Causes: it has no    *)
(* address (with BestInSlot the API server is the one to refuse it, Hiro's *)
(* schema refuses its page), a negative balance (BestInSlot) or none at    *)
(* all (UniSat).  Failures: of its Bitcoin transaction (BestInSlot), of    *)
(* the page it is on or a later one, but never for a transfer of the first *)
(* page (Hiro, UniSat), of its balances (UniSat), of its post (Hiro and    *)
(* UniSat, whatever the status); and an answer that blames the transfer.   *)
(* So no crash, no failed batch, no failure of another transfer and, for   *)
(* BestInSlot, no other status of the API server loses a transfer.         *)
OwnCause(t) ==
    \/ t \in NoAddress
    \/ backEnd = "bis" /\ (t \in Undecodable \/ {From[t], To[t]} \cap Negative # {})
    \/ backEnd = "hiro" /\ \E u \in Undecodable : HeightOf(u) = HeightOf(t)
    \/ backEnd = "unisat" /\ (t \in Undecodable \/ EntryAt[From[t]] = 0 \/ EntryAt[To[t]] = 0)
Final == CASE backEnd = "bis"    -> {"tx", "refused"}
           [] backEnd = "hiro"   -> {"page", "post", "refused"}
           [] backEnd = "unisat" -> {"page", "entry", "post", "refused"}
GivenUpForACause == \A t \in dropped :
    OwnCause(t) \/ \E step \in Final : <<step, t>> \in lapses

(* Every transfer deep enough is stored or given up, unless the loop       *)
(* stopped (an error: the process lives on), waits for a balance that was  *)
(* left out of an answer, or passed it by in a forced range; or the        *)
(* process was started for a re-sync.                                      *)
Deep(t) == Genesis <= HeightOf(t) /\ HeightOf(t) < tip - Threshold
Halted == at = "stopped" \/ mode = "resync" \/ WaitsForEver
AllAreSeen == \A t \in Transfers :
    Deep(t) ~> t \in Stored \cup dropped \/ Halted \/ jumped
=============================================================================
