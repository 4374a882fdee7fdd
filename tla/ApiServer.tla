-------------------------------- MODULE ApiServer --------------------------------
(***************************************************************************)
(* Reading indexer.validated_txs while the indexer worker writes it.  A    *)
(* reader (external) follows the transfers to an address with queries of   *)
(* type `to', at the endpoints of MetaIndexerController: each query asks   *)
(* for the rows after the updated_at of the last row it was given.         *)
(*                                                                         *)
(* A row gets its updated_at from now(), which PostgreSQL freezes at the   *)
(* start of a transaction: the rows of a batch share it, and it is older   *)
(* than the moment they become visible.  The answer gives it in            *)
(* milliseconds, while the column has microseconds.                        *)
(***************************************************************************)
EXTENDS Integers, FiniteSets, FiniteSetsExt

CONSTANTS
    Rows,           \* the transfers to the address
    Limit,          \* limit of a query
    PerMs,          \* ticks of the database clock in a millisecond
    MaxClock,       \* bound: the database clock
    MaxLost         \* bound: transactions of the worker that are lost

ASSUME ApiConstants ==
    /\ IsFiniteSet(Rows)
    /\ Limit \in Nat \ {0} /\ PerMs \in Nat \ {0}
    /\ MaxClock \in Nat /\ MaxLost \in Nat

VARIABLES
    clock,      \* clock of the database
    open,       \* the worker's open transaction: its start and its rows
    stamp,      \* updated_at of the committed rows
    reader,     \* after_updated_at of its next query, and the rows seen
    lost        \* lost transactions so far

vars == <<clock, open, stamp, reader, lost>>

Table  == DOMAIN stamp
Closed == [start |-> 0, rows |-> {}]

Init ==
    /\ clock = 1 /\ open = Closed
    /\ stamp = [i \in {} |-> 0]
    /\ reader = [after |-> 0, seen |-> {}]
    /\ lost = 0
-----------------------------------------------------------------------------
(* The worker: the rows of processPendingProofs, in one transaction.       *)

Tick ==
    /\ clock < MaxClock /\ clock' = clock + 1
    /\ UNCHANGED <<open, stamp, reader, lost>>

(* The loop sleeps or has waited for the commit before it begins again.    *)
Begin ==
    /\ open = Closed
    /\ \A i \in Table : stamp[i] < clock
    /\ \E batch \in SUBSET (Rows \ Table) \ {{}} :
         open' = [start |-> clock, rows |-> batch]
    /\ UNCHANGED <<clock, stamp, reader, lost>>

CommitRows ==
    /\ open # Closed
    /\ stamp' = [i \in Table \cup open.rows |->
                   IF i \in Table THEN stamp[i] ELSE open.start]
    /\ open' = Closed
    /\ UNCHANGED <<clock, reader, lost>>

LoseRows ==
    /\ open # Closed
    /\ lost < MaxLost /\ lost' = lost + 1
    /\ open' = Closed
    /\ UNCHANGED <<clock, stamp, reader>>
-----------------------------------------------------------------------------
(* Queries of type `to'.                                                   *)

Ms(s) == s \div PerMs       \* updated_at as the answer has it
NextMs(i, after)  == stamp[i] >= (after + 1) * PerMs    \* altered form: compares ms
AfterMs(i, after) == stamp[i] > after * PerMs
ToRows(after) == {i \in Table : AfterMs(i, after)}

(* Order by updated_at, which leaves open the order of equals; limit.      *)
ShortPages(after) ==    \* altered form: one row less than the limit
    {p \in SUBSET ToRows(after) :
       /\ Cardinality(p) = Min({Limit - 1, Cardinality(ToRows(after))})
       /\ \A i \in p, j \in ToRows(after) \ p : stamp[i] <= stamp[j]}
ToPages(after) ==
    {p \in SUBSET ToRows(after) :
       /\ Cardinality(p) = Min({Limit, Cardinality(ToRows(after))})
       /\ \A i \in p, j \in ToRows(after) \ p : stamp[i] <= stamp[j]}

(* Each row is parsed on its way out; none fails to: its scripts had       *)
(* addresses when its proofs were stored (EncodeAddress of IndexerStore).  *)
GetValidatedTxs ==
    /\ \E page \in ToPages(reader.after) :
         /\ page # {}
         /\ reader' = [after |-> Ms(Max({stamp[i] : i \in page})),
                       seen  |-> reader.seen \cup page]
    /\ UNCHANGED <<clock, open, stamp, lost>>

Next == Tick \/ Begin \/ CommitRows \/ LoseRows \/ GetValidatedTxs

(* The reader asks again after an empty answer, a refusal by the guards or *)
(* an error; these leave it where it was.                                  *)
Spec == Init /\ [][Next]_vars /\ WF_vars(GetValidatedTxs)
-----------------------------------------------------------------------------
(* A row may be skipped only if its updated_at happens to be a whole       *)
(* number of milliseconds, and a page ended among the rows with that one.  *)
Skipped(i) ==
    /\ i \in Table /\ stamp[i] % PerMs = 0 /\ stamp[i] <= reader.after * PerMs
    /\ \E j \in reader.seen : stamp[j] = stamp[i]

(* What the reader has gone past it has seen, though rows become visible   *)
(* later than their updated_at, and a page may end among the rows of a     *)
(* batch: the rows of the last millisecond are given again.                *)
SkipsNone == \A i \in Table \ reader.seen :
    stamp[i] > reader.after * PerMs \/ Skipped(i)

(* The reader sees every row in the end, unless a millisecond has a full   *)
(* page of rows, which the reader is given again and again.                *)
Crowded(ms) == Cardinality({i \in Table : Ms(stamp[i]) = ms}) >= Limit
ReaderSeesAll == \A i \in Rows :
    i \in Table ~> \/ i \in reader.seen \/ Skipped(i)
                   \/ Crowded(reader.after)
=============================================================================
