---------------------------- MODULE ApiServer_proofs ----------------------------
(***************************************************************************)
(* Proofs about a reader of indexer.validated_txs, for any rows, page      *)
(* limit and resolution of the clock: what its cursor, which the answers   *)
(* give in milliseconds, has gone past.                                    *)
(***************************************************************************)
EXTENDS ApiServer, WellFoundedInduction, TLAPS

TypeOK ==
    /\ clock \in Nat \ {0}
    /\ open \in [start : Nat, rows : SUBSET Rows]
    /\ stamp \in [Table -> Nat \ {0}] /\ Table \subseteq Rows
    /\ reader \in [after : Nat, seen : SUBSET Table]

(* Rows are stamped in the order of the transactions: all that are visible *)
(* are older than the open transaction.                                    *)
Ordered ==
    /\ \A i \in Table : stamp[i] <= clock
    /\ open # Closed => /\ open.start \in 1..clock
                        /\ \A i \in Table : stamp[i] < open.start

(* The cursor is not ahead of the table.                                   *)
NotAhead == reader.after = 0 \/ \E i \in Table : reader.after * PerMs <= stamp[i]

IInv == TypeOK /\ Ordered /\ NotAhead /\ SkipsNone
-----------------------------------------------------------------------------
LEMMA LeastNatural ==
    ASSUME NEW T \in SUBSET Nat, T # {}
    PROVE  \E n \in T : \A m \in T : n <= m
<1> DEFINE R == OpToRel(<, Nat)
<1>1. IsWellFoundedOn(R, Nat)
  BY NatLessThanWellFounded
<1>2. \A m, n \in Nat : m < n => <<m, n>> \in R
  BY DEF OpToRel
<1> HIDE DEF R
<1>3. PICK n \in T : \A m \in T : <<m, n>> \notin R
  BY <1>1, WFMin
<1>4. ASSUME NEW m \in T
      PROVE  n <= m
  <2>1. m \in Nat /\ n \in Nat
    OBVIOUS
  <2>2. ~(m < n)
    BY <1>2, <1>3, <2>1
  <2> QED
    BY <2>1, <2>2
<1> QED
  BY <1>4

(* The latest of the stamps, none of which is later than b.                *)
LEMMA MaxOfStamps ==
    ASSUME NEW S \in SUBSET Nat, S # {}, NEW b \in Nat, \A x \in S : x <= b
    PROVE  Max(S) \in S /\ \A x \in S : x <= Max(S)
<1> DEFINE Below == {n \in Nat : \E x \in S : n = b - x}
<1>1. \A x \in S : b - x \in Below
  OBVIOUS
<1>2. PICK n \in Below : \A m \in Below : n <= m
  BY <1>1, LeastNatural
<1>3. PICK x \in S : n = b - x
  OBVIOUS
<1>4. ASSUME NEW y \in S
      PROVE  x >= y
  <2>1. b - x <= b - y
    BY <1>1, <1>2, <1>3
  <2> QED
    BY <2>1
<1> QED
  BY <1>4 DEF Max

(* Milliseconds cut the stamp off.                                         *)
LEMMA MsCuts ==
    ASSUME NEW s \in Nat
    PROVE  /\ Ms(s) \in Nat /\ Ms(s) * PerMs <= s
           /\ Ms(s) * PerMs = s => s % PerMs = 0
           /\ \A n \in Nat : n * PerMs < s => n <= Ms(s)
<1>1. PerMs \in Nat \ {0}
  BY ApiConstants
<1>2. PICK q \in Nat : q = Ms(s)
  BY <1>1 DEF Ms
<1>3. q * PerMs <= s /\ s < (q + 1) * PerMs
  BY <1>1, <1>2 DEF Ms
<1>4. q * PerMs = s => s % PerMs = 0
  BY <1>1, <1>2 DEF Ms
<1>5. ASSUME NEW n \in Nat, n * PerMs < s
      PROVE  n <= q
  <2> SUFFICES ASSUME n >= q + 1
               PROVE  FALSE
    OBVIOUS
  <2>1. n * PerMs >= (q + 1) * PerMs
    BY <1>1
  <2> QED
    BY <1>1, <1>3, <1>5, <2>1
<1> QED
  BY <1>2, <1>3, <1>4, <1>5
-----------------------------------------------------------------------------
(* New rows are later than all the reader can have been given.             *)
LEMMA CommitStep ==
    ASSUME IInv, CommitRows
    PROVE  IInv'
<1>1. /\ open \in [start : Nat, rows : SUBSET Rows] /\ open # Closed
      /\ stamp \in [Table -> Nat \ {0}] /\ Table \subseteq Rows
      /\ reader \in [after : Nat, seen : SUBSET Table]
      /\ clock \in Nat \ {0} /\ open.start \in 1..clock
      /\ \A i \in Table : stamp[i] <= clock /\ stamp[i] < open.start
      /\ NotAhead /\ SkipsNone
  BY DEF CommitRows, IInv, TypeOK, Ordered
<1>2. /\ stamp' = [i \in Table \cup open.rows |->
                     IF i \in Table THEN stamp[i] ELSE open.start]
      /\ open' = Closed /\ UNCHANGED <<clock, reader, lost>>
  BY DEF CommitRows
<1>3. /\ Table' = Table \cup open.rows
      /\ \A i \in Table : stamp'[i] = stamp[i]
      /\ \A i \in Table' \ Table : stamp'[i] = open.start
  BY <1>2 DEF Table
<1>4. TypeOK'
  <2>1. stamp' \in [Table' -> Nat \ {0}]
    BY <1>1, <1>2, <1>3
  <2> QED
    BY <1>1, <1>2, <1>3, <2>1 DEF TypeOK, Closed
<1>5. Ordered'
  BY <1>1, <1>2, <1>3 DEF Ordered
<1>6. NotAhead'
  BY <1>1, <1>2, <1>3 DEF NotAhead
<1>7. reader.after * PerMs < open.start
  <2>1. CASE reader.after = 0
    BY <1>1, <2>1, ApiConstants
  <2>2. CASE reader.after # 0
    <3>1. PICK i \in Table : reader.after * PerMs <= stamp[i]
      BY <1>1, <2>2 DEF NotAhead
    <3>2. reader.after * PerMs \in Nat /\ stamp[i] \in Nat /\ open.start \in Nat
      BY <1>1, ApiConstants
    <3> QED
      BY <1>1, <3>1, <3>2
  <2> QED
    BY <2>1, <2>2
<1>8. ASSUME NEW i \in Table' \ reader'.seen
      PROVE  stamp'[i] > reader'.after * PerMs \/ Skipped(i)'
  <2>1. CASE i \in Table
    <3>1. stamp[i] > reader.after * PerMs \/ Skipped(i)
      BY <1>1, <1>2, <1>8, <2>1 DEF SkipsNone
    <3>2. Skipped(i) => Skipped(i)'
      BY <1>1, <1>2, <1>3, <2>1 DEF Skipped
    <3> QED
      BY <1>2, <1>3, <2>1, <3>1, <3>2
  <2>2. CASE i \notin Table
    BY <1>1, <1>2, <1>3, <1>7, <1>8, <2>2, ApiConstants
  <2> QED
    BY <2>1, <2>2
<1>9. SkipsNone'
  BY <1>8 DEF SkipsNone
<1> QED
  BY <1>4, <1>5, <1>6, <1>9 DEF IInv

(* A page leaves out only rows that are not before its last one; those of  *)
(* the same stamp are given again unless the stamp has no fraction of a    *)
(* millisecond.                                                            *)
LEMMA QueryStep ==
    ASSUME IInv, GetValidatedTxs
    PROVE  IInv'
<1>1. PICK page \in ToPages(reader.after) :
        /\ page # {}
        /\ reader' = [after |-> Ms(Max({stamp[i] : i \in page})),
                      seen  |-> reader.seen \cup page]
  BY DEF GetValidatedTxs
<1> DEFINE latest == Max({stamp[i] : i \in page})
           after == reader.after
<1>2. /\ UNCHANGED <<clock, open, stamp, lost>> /\ Table' = Table
      /\ stamp \in [Table -> Nat \ {0}] /\ reader \in [after : Nat, seen : SUBSET Table]
      /\ clock \in Nat /\ \A i \in Table : stamp[i] <= clock
      /\ after \in Nat /\ after * PerMs \in Nat /\ PerMs \in Nat \ {0}
  BY ApiConstants DEF GetValidatedTxs, IInv, TypeOK, Ordered, Table
<1>3. /\ page \subseteq Table
      /\ \A i \in page : stamp[i] > after * PerMs
      /\ \A i \in page : \A j \in Table \ page :
            stamp[j] > after * PerMs => stamp[i] <= stamp[j]
  BY <1>1 DEF ToPages, ToRows, AfterMs
<1>4. /\ latest \in {stamp[i] : i \in page}
      /\ \A x \in {stamp[i] : i \in page} : x <= latest
  <2> DEFINE S == {stamp[i] : i \in page}
  <2>1. S \in SUBSET Nat /\ S # {} /\ \A x \in S : x <= clock
    BY <1>1, <1>2, <1>3
  <2> HIDE DEF S
  <2>2. Max(S) \in S /\ \A x \in S : x <= Max(S)
    BY <1>2, <2>1, MaxOfStamps
  <2> QED
    BY <2>2 DEF S
<1> HIDE DEF latest
<1>5. PICK k \in page : stamp[k] = latest
  BY <1>4
<1>6. latest \in Nat /\ after * PerMs < latest /\ k \in Table
  BY <1>2, <1>3, <1>5
<1>7. /\ Ms(latest) \in Nat /\ Ms(latest) * PerMs <= latest /\ after <= Ms(latest)
      /\ Ms(latest) * PerMs = latest => latest % PerMs = 0
  BY <1>2, <1>6, MsCuts
<1>8. /\ reader'.after = Ms(latest) /\ reader'.seen = reader.seen \cup page
      /\ reader' \in [after : Nat, seen : SUBSET Table]
  BY <1>1, <1>2, <1>3, <1>7 DEF latest
<1>9. TypeOK' /\ Ordered'
  BY <1>2, <1>8 DEF IInv, TypeOK, Ordered
<1>10. NotAhead'
  BY <1>2, <1>5, <1>6, <1>7, <1>8 DEF NotAhead
<1>11. ASSUME NEW i \in Table \ reader'.seen
       PROVE  stamp[i] > reader'.after * PerMs \/ Skipped(i)'
  <2>0. /\ i \notin page /\ i \in Table \ reader.seen /\ stamp[i] \in Nat
        /\ reader'.after * PerMs \in Nat
    BY <1>2, <1>7, <1>8
  <2>1. CASE stamp[i] > after * PerMs
    <3>1. latest <= stamp[i]
      BY <1>3, <1>5, <2>0, <2>1
    <3>2. CASE Ms(latest) * PerMs < stamp[i]
      BY <1>8, <2>0, <3>2
    <3>3. CASE Ms(latest) * PerMs >= stamp[i]
      <4>1. Ms(latest) * PerMs = latest /\ stamp[i] = latest
        BY <1>6, <1>7, <1>8, <2>0, <3>1, <3>3
      <4> QED
        BY <1>2, <1>5, <1>6, <1>7, <1>8, <2>0, <4>1 DEF Skipped
    <3> QED
      BY <1>8, <2>0, <3>2, <3>3
  <2>2. CASE ~(stamp[i] > after * PerMs)
    <3>1. Skipped(i)
      BY <2>0, <2>2 DEF IInv, SkipsNone
    <3>2. after * PerMs <= reader'.after * PerMs
      BY <1>2, <1>7, <1>8
    <3>3. stamp[i] <= reader'.after * PerMs
      BY <1>2, <2>0, <2>2, <3>2
    <3> QED
      BY <1>2, <1>8, <2>0, <3>1, <3>3 DEF Skipped
  <2> QED
    BY <2>1, <2>2
<1>12. SkipsNone'
  BY <1>2, <1>11 DEF SkipsNone
<1> QED
  BY <1>9, <1>10, <1>12 DEF IInv

LEMMA ApiInit == Init => IInv
<1> SUFFICES ASSUME Init
             PROVE  IInv
  OBVIOUS
<1>1. Table = {}
  BY DEF Init, Table
<1>2. stamp \in [Table -> Nat \ {0}]
  BY <1>1 DEF Init
<1> QED
  BY <1>1, <1>2 DEF Init, IInv, TypeOK, Ordered, NotAhead, SkipsNone, Closed

LEMMA ApiNext == IInv /\ [Next]_vars => IInv'
<1> SUFFICES ASSUME IInv, [Next]_vars
             PROVE  IInv'
  OBVIOUS
<1>1. CASE Tick
  <2>1. clock' = clock + 1 /\ UNCHANGED <<open, stamp, reader, lost>>
        /\ Table' = Table /\ clock \in Nat \ {0}
    BY <1>1 DEF Tick, Table, IInv, TypeOK
  <2>2. TypeOK' /\ NotAhead' /\ SkipsNone'
    BY <2>1 DEF IInv, TypeOK, NotAhead, SkipsNone, Skipped
  <2>3. Ordered'
    <3>1. \A i \in Table : stamp[i] \in Nat
      BY DEF IInv, TypeOK
    <3> QED
      BY <2>1, <3>1 DEF IInv, Ordered
  <2> QED
    BY <2>2, <2>3 DEF IInv
<1>2. CASE Begin
  <2>1. PICK batch \in SUBSET (Rows \ Table) \ {{}} :
          open' = [start |-> clock, rows |-> batch]
    BY <1>2 DEF Begin
  <2>2. /\ \A i \in Table : stamp[i] < clock
        /\ UNCHANGED <<clock, stamp, reader, lost>> /\ Table' = Table
    BY <1>2 DEF Begin, Table
  <2> QED
    BY <2>1, <2>2 DEF IInv, TypeOK, Ordered, NotAhead, SkipsNone, Skipped
<1>3. CASE LoseRows
  <2>1. open' = Closed /\ UNCHANGED <<clock, stamp, reader>> /\ Table' = Table
    BY <1>3 DEF LoseRows, Table
  <2> QED
    BY <2>1 DEF IInv, TypeOK, Ordered, NotAhead, SkipsNone, Skipped, Closed
<1>4. CASE UNCHANGED vars
  BY <1>4 DEF vars, IInv, TypeOK, Ordered, NotAhead, SkipsNone, Skipped, Table
<1> QED
  BY <1>1, <1>2, <1>3, <1>4, CommitStep, QueryStep DEF Next
-----------------------------------------------------------------------------
(* The inductive invariant holds in every state.                           *)
THEOREM ApiInductive == Spec => []IInv
BY ApiInit, ApiNext, PTL DEF Spec

(* A reader that asks for the rows after the last updated_at it was given  *)
(* goes past no row unseen, although now() stamps the rows before they     *)
(* become visible and pages end among rows of one batch; with the one      *)
(* exception of stamps without a fraction of a millisecond.                *)
THEOREM SkipsNoneCorrect == Spec => []SkipsNone
BY ApiInductive, PTL DEF IInv
=============================================================================
