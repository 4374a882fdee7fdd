--------------------------- MODULE StacksFees_proofs ---------------------------
(***************************************************************************)
(* Proof about the fees of the Stacks caller, for every configuration of   *)
(* the fees, any stages, price, kinds of operations and number of faults:  *)
(* a replacement outbids the call it replaces.                             *)
(***************************************************************************)
EXTENDS StacksFees, WellFoundedInduction, TLAPS

(* Fees are numbers, those of the node of exactly the pending calls; the   *)
(* fee found for a replacement is above the one read, and what is read can *)
(* only be taken from the memory pool until it is sent.                    *)
FeeTypes ==
    /\ mode \in Modes /\ floor \in Floors /\ issued \in Nat
    /\ ops \in Seq(1..MaxCalls) /\ (at = "sent" => ops # <<>>)
    /\ price \in Nat /\ txFee \in Nat /\ override \in Nat
    /\ fee \in [DOMAIN mempool -> Nat]
    /\ at = "replace" => found.fee \in Nat
FeeInv == FeeTypes /\ ReplacementPays
-----------------------------------------------------------------------------
(* The numbers.                                                            *)
LEMMA LeastNatural ==
    ASSUME NEW T \in SUBSET Nat, T # {}
    PROVE  \E n \in T : \A m \in T : n <= m
<1> DEFINE R == OpToRel(<, Nat)
<1>1. IsWellFoundedOn(R, Nat)
  BY NatLessThanWellFounded
<1>2. \A m, n \in Nat : m < n => <<m, n>> \in R
  BY DEF OpToRel
<1> HIDE DEF R
<1>3. PICK n \in T : \A m \in T : <<m, n>> \notin R
  BY <1>1, WFMin
<1>4. ASSUME NEW m \in T
      PROVE  n <= m
  <2>1. m \in Nat /\ n \in Nat
    OBVIOUS
  <2>2. ~(m < n)
    BY <1>2, <1>3, <2>1
  <2> QED
    BY <2>1, <2>2
<1> QED
  BY <1>4

LEMMA TwoNumbers ==
    ASSUME NEW a \in Nat, NEW b \in Nat
    PROVE  Min({a, b}) \in Nat /\ Max({a, b}) \in Nat /\ Max({a, b}) >= b
<1>1. \E x \in {a, b} : \A y \in {a, b} : x <= y
  OBVIOUS
<1>2. \E x \in {a, b} : \A y \in {a, b} : x >= y
  OBVIOUS
<1>3. Min({a, b}) \in {a, b}
  BY <1>1 DEF Min
<1>4. Max({a, b}) \in {a, b} /\ \A y \in {a, b} : Max({a, b}) >= y
  BY <1>2 DEF Max
<1> QED
  BY <1>3, <1>4

(* A stage is the highest: else some prefix of the stages is the first to  *)
(* have none.                                                              *)
LEMMA HighestStage == \E j \in 1..Len(Stages) : \A i \in 1..Len(Stages) : Stages[i] <= Stages[j]
<1> DEFINE n == Len(Stages)
           Tops(k) == \E j \in 1..k : \A i \in 1..k : Stages[i] <= Stages[j]
           Bad == {k \in 1..n : ~Tops(k)}
<1>1. n \in 1..n /\ \A i \in 1..n : Stages[i] \in Nat
  BY FeeConstants DEF FeeConfig
<1> HIDE DEF n
<1>2. Bad = {}
  <2> SUFFICES ASSUME Bad # {}
               PROVE  FALSE
    OBVIOUS
  <2>1. PICK k \in Bad : \A m \in Bad : k <= m
    <3>1. Bad \in SUBSET Nat
      OBVIOUS
    <3> QED
      BY <3>1, LeastNatural
  <2>2. k \in 1..n /\ ~Tops(k)
    OBVIOUS
  <2>3. CASE k = 1
    <3>1. Tops(1)
      BY <1>1, <2>2, <2>3
    <3> QED
      BY <2>2, <2>3, <3>1
  <2>4. CASE k # 1
    <3>1. k - 1 \in 1..n /\ k \in Nat /\ ~(k <= k - 1)
      BY <1>1, <2>2, <2>4
    <3>2. Tops(k - 1)
      BY <2>1, <3>1
    <3>3. PICK j \in 1..(k - 1) : \A i \in 1..(k - 1) : Stages[i] <= Stages[j]
      BY <3>2
    <3>4. j \in 1..k /\ k \in 1..k /\ j \in 1..n /\ \A i \in 1..k : i = k \/ i \in 1..(k - 1)
      BY <1>1, <2>2, <2>4, <3>1
    <3>5. Stages[j] \in Nat /\ Stages[k] \in Nat /\ \A i \in 1..(k - 1) : Stages[i] \in Nat
      BY <1>1, <2>2, <3>1, <3>4
    <3>6. CASE Stages[k] <= Stages[j]
      <4>1. \A i \in 1..k : Stages[i] <= Stages[j]
        BY <3>3, <3>4, <3>6
      <4> QED
        BY <2>2, <3>4, <4>1
    <3>7. CASE Stages[j] <= Stages[k]
      <4>1. \A i \in 1..(k - 1) : Stages[i] <= Stages[k]
        BY <3>3, <3>5, <3>7
      <4>2. Stages[k] <= Stages[k]
        BY <3>5
      <4>3. \A i \in 1..k : Stages[i] <= Stages[k]
        BY <3>4, <4>1, <4>2
      <4> QED
        BY <2>2, <3>4, <4>3
    <3> QED
      BY <3>5, <3>6, <3>7
  <2> QED
    BY <2>3, <2>4
<1> QED
  BY <1>1, <1>2 DEF n

LEMMA MaxFeeIsFee == MaxFee \in Nat
<1>1. /\ MaxPrice \in Nat /\ Cap \in Nat /\ FixedFee \in Nat /\ FloorLimit \in Nat
      /\ MaxFaults \in Nat /\ Increment \in Nat
  BY FeeConstants, CallerConstants DEF FeeConfig
<1>2. PICK j \in 1..Len(Stages) : \A i \in 1..Len(Stages) : Stages[i] <= Stages[j]
  BY HighestStage
<1>3. Stages \in Seq(Nat)
  BY FeeConstants DEF FeeConfig
<1> DEFINE S == {MaxPrice, Cap, FixedFee, FloorLimit} \cup {Stages[i] : i \in DOMAIN Stages}
<1>4. S \subseteq Nat /\ Stages[j] \in S
  BY <1>1, <1>2, <1>3
<1>5. \A x \in S : x \in {MaxPrice, Cap, FixedFee, FloorLimit} \/ x <= Stages[j]
  BY <1>2, <1>3
<1>6. MaxPrice \in S /\ Cap \in S /\ FixedFee \in S /\ FloorLimit \in S
  OBVIOUS
<1>7. MaxFee = Max(S) + (MaxFaults + 2) * Increment
  BY DEF MaxFee
<1> HIDE DEF S
<1>8. \A x, y \in S : \E z \in S : \A w \in S : x >= w \/ y >= w => z >= w
  BY <1>4
<1>9. PICK a \in S : \A w \in S : a >= w
  <2>1. PICK top \in S : \A w \in S : w \in {MaxPrice, Cap, FixedFee, FloorLimit} \/ top >= w
    <3>1. \A w \in S : w <= Stages[j] => Stages[j] >= w
      BY <1>4
    <3> QED
      BY <1>4, <1>5, <3>1
  <2>2. \A w \in S : w >= w
    BY <1>4
  <2>3. PICK b \in S : b >= MaxPrice /\ b >= Cap
    BY <1>6, <1>8, <2>2
  <2>4. PICK c \in S : c >= FixedFee /\ \A w \in S : top >= w => c >= w
    BY <1>6, <1>8, <2>2
  <2>5. PICK d \in S : d >= FloorLimit /\ \A w \in S : c >= w => d >= w
    BY <1>6, <1>8, <2>2
  <2>6. PICK z \in S : \A w \in S : b >= w \/ d >= w => z >= w
    BY <1>8
  <2>7. \A w \in S : top >= w => z >= w
    BY <2>4, <2>5, <2>6
  <2>8. z >= MaxPrice /\ z >= Cap /\ z >= FixedFee /\ z >= FloorLimit
    BY <1>6, <2>3, <2>4, <2>5, <2>6
  <2> QED
    BY <2>1, <2>7, <2>8
<1>10. Max(S) \in Nat
  BY <1>4, <1>9 DEF Max
<1>11. (MaxFaults + 2) * Increment \in Nat
  BY <1>1
<1> QED
  BY <1>7, <1>10, <1>11

LEMMA HeadAndTail ==
    ASSUME NEW S, NEW s \in Seq(S), s # <<>>
    PROVE  Head(s) \in S /\ Tail(s) \in Seq(S)
OBVIOUS

LEMMA EstimateIsFee ==
    ASSUME price \in Nat, floor \in Floors
    PROVE  EstimateFee \in Nat
<1>1. Cap \in Nat /\ floor \in Nat
  BY FeeConstants DEF FeeConfig
<1>2. PICK m \in Nat : m = Min({price, Cap})
  BY <1>1, TwoNumbers
<1> QED
  BY <1>1, <1>2, TwoNumbers DEF EstimateFee, CapOrFloorFee

LEMMA FeesAreFees ==
    ASSUME FeeTypes
    PROVE  CallFee \in Nat /\ OtherFee \in Nat /\ (ops # <<>> => SentFees \subseteq Nat)
<1>1. EstimateFee \in Nat /\ FixedFee \in Nat
  BY EstimateIsFee, FeeConstants DEF FeeTypes
<1>2. CallFee \in Nat
  BY <1>1 DEF CallFee, FeeTypes
<1>3. OtherFee \in Nat
  BY <1>1 DEF OtherFee, FeeTypes
<1>4. ASSUME ops # <<>>
      PROVE  SentFees \subseteq Nat
  <2>1. Head(ops) \in 1..MaxCalls
    BY <1>4, HeadAndTail DEF FeeTypes
  <2>2. Kind[Head(ops)] \in {"publicCall", "deploy", "transfer"}
    BY <2>1, FeeConstants
  <2>3. {CallFee} \subseteq Nat /\ {price, OtherFee} \subseteq Nat
    BY <1>2, <1>3 DEF FeeTypes
  <2>4. SentFees = {CallFee} \/ SentFees = {price, OtherFee}
    BY <2>2 DEF SentFees, DeployFees, TransferFees
  <2> QED
    BY <2>3, <2>4
<1> QED
  BY <1>2, <1>3, <1>4

(* Each way to find a new fee finds a higher one.                          *)
LEMMA NewFeesAreHigher ==
    ASSUME FeeTypes, NEW f \in Nat, NEW g \in NewFees(f)
    PROVE  g \in Nat /\ g > f
<1>1. mode \in {"off", "stages", "estimate", "function"}
  BY FeeConstants DEF FeeTypes, FeeConfig
<1>2. CASE mode = "off"
  BY <1>2 DEF NewFees
<1>3. CASE mode = "stages"
  <2> DEFINE above == {i \in DOMAIN Stages : Stages[i] > f}
  <2>1. Stages \in Seq(Nat)
    BY FeeConstants DEF FeeConfig
  <2>2. NewFees(f) = IF above = {} THEN {} ELSE {Stages[Min(above)]}
    BY <1>3 DEF NewFees, StageFees
  <2>3. above \in SUBSET Nat
    BY <2>1
  <2>4. \A i \in above : i \in DOMAIN Stages /\ Stages[i] > f /\ Stages[i] \in Nat
    BY <2>1
  <2> HIDE DEF above
  <2>5. above # {} /\ g = Stages[Min(above)]
    BY <2>2
  <2>6. PICK i \in above : \A j \in above : i <= j
    BY <2>3, <2>5, LeastNatural
  <2>7. Min(above) \in above
    BY <2>6 DEF Min
  <2> QED
    BY <2>4, <2>5, <2>7
<1>4. CASE mode = "estimate"
  <2>1. EstimateFee \in Nat /\ FeeThreshold \in Nat \ {0}
    BY EstimateIsFee, FeeConstants DEF FeeTypes, FeeConfig
  <2>2. g = EstimateFee /\ ~(EstimateFee - f < FeeThreshold)
    BY <1>4 DEF NewFees, EstimateFees
  <2> QED
    BY <2>1, <2>2
<1>5. CASE mode = "function"
  <2>1. g = price /\ ~(price <= f)
    BY <1>5 DEF NewFees, FunctionFees
  <2> QED
    BY <2>1 DEF FeeTypes
<1> QED
  BY <1>1, <1>2, <1>3, <1>4, <1>5
-----------------------------------------------------------------------------
(* The memory pool, and the fees beside it.                                *)
LEMMA Accepting ==
    ASSUME FeeTypes, NEW n, NEW op, NEW f \in Nat, AcceptPaid(n, op, f)
    PROVE  fee' \in [DOMAIN mempool' -> Nat]
BY DEF FeeTypes, AcceptPaid, Accept

LEMMA Delivering ==
    ASSUME FeeTypes, NEW n, NEW op, NEW f \in Nat, Deliver(n, op, f)
    PROVE  fee' \in [DOMAIN mempool' -> Nat]
BY Accepting DEF FeeTypes, Deliver, NothingSent

(* A call leaves the memory pool: what is left is as it was.               *)
LEMMA Removing ==
    ASSUME FeeInv, NEW n, mempool' = Without(n), KeepPending,
           UNCHANGED <<at, ops, issued, mode, floor, price, txFee, override, found>>
    PROVE  FeeInv'
<1>1. /\ DOMAIN mempool' \subseteq DOMAIN mempool
      /\ \A m \in DOMAIN mempool' : mempool'[m] = mempool[m]
  BY DEF Without
<1>2. /\ fee' \in [DOMAIN mempool' -> Nat]
      /\ \A m \in DOMAIN mempool' : fee'[m] = fee[m]
  BY <1>1 DEF FeeInv, FeeTypes, KeepPending
<1>3. FeeTypes'
  BY <1>2 DEF FeeInv, FeeTypes
<1>4. ReplacementPays'
  BY <1>1, <1>2 DEF FeeInv, ReplacementPays
<1> QED
  BY <1>3, <1>4 DEF FeeInv

(* The caller gets on, not to a replacement.                               *)
LEMMA GettingOn ==
    ASSUME FeeInv, at' # "replace", mode' \in Modes, floor' \in Floors, issued' \in Nat,
           ops' \in Seq(1..MaxCalls), at' = "sent" => ops' # <<>>,
           price' \in Nat, txFee' \in Nat, override' \in Nat, fee' \in [DOMAIN mempool' -> Nat]
    PROVE  FeeInv'
BY DEF FeeInv, FeeTypes, ReplacementPays

LEMMA NodeStep ==
    ASSUME FeeInv,
           FeeExecute \/ FeeDrop \/ PriceRises \/ \E n \in DOMAIN mempool : HalfAnHour(n)
    PROVE  FeeInv'
<1> USE DEF config, rbf, loop, node, callerVars, fees
<1>1. CASE FeeExecute
  BY <1>1, Removing DEF FeeExecute, Execute
<1>2. CASE FeeDrop
  BY <1>2, Removing DEF FeeDrop, Drop
<1>3. CASE PriceRises \/ \E n \in DOMAIN mempool : HalfAnHour(n)
  BY <1>3 DEF PriceRises, HalfAnHour, FeeInv, FeeTypes, ReplacementPays
<1> QED
  BY <1>1, <1>2, <1>3

(* Steps that leave the memory pool and the price alone.                   *)
LEMMA LoopStep ==
    ASSUME FeeInv,
           \/ \E k \in 1..MaxCalls : FeeFlush(k)
           \/ FeeReadNonces \/ FeeDone \/ FeeChain \/ FeeWait \/ FeeDrain \/ FeeFinish
           \/ ReplaceRefused \/ FeeCallbackThrows \/ FeeCrash \/ Redeploy
    PROVE  FeeInv'
<1> USE DEF config, rbf, loop, node, callerVars, fees
<1>0. FeeTypes /\ <<>> \in Seq(1..MaxCalls)
  BY DEF FeeInv
<1>1. CASE \E k \in 1..MaxCalls : FeeFlush(k)
  <2>1. PICK k \in 1..MaxCalls : FeeFlush(k)
    BY <1>1
  <2>2. /\ at' = "start" /\ ops' = [i \in 1..k |-> issued + i] /\ issued' = issued + k
        /\ k \in Nat /\ issued \in Nat /\ issued + k <= MaxCalls
        /\ UNCHANGED <<mode, floor, price, txFee, override, fee, mempool>>
    BY <1>0, <2>1, CallerConstants DEF FeeFlush, Flush, Same, FeeTypes
  <2>3. \A i \in 1..k : issued + i \in 1..MaxCalls
    BY <2>2, CallerConstants
  <2>4. ops' \in Seq(1..MaxCalls)
    BY <2>2, <2>3
  <2> QED
    BY <1>0, <2>2, <2>4, GettingOn DEF FeeTypes
<1>2. CASE FeeReadNonces \/ FeeChain \/ FeeWait \/ FeeDrain \/ Redeploy
  <2>1. /\ at' \notin {"replace", "sent"} /\ mode' \in Modes /\ floor' \in Floors
        /\ UNCHANGED <<issued, ops, price, override, fee, mempool>>
        /\ txFee' = txFee \/ txFee' = 0
    BY <1>0, <1>2 DEF FeeReadNonces, ReadStartingNonce, ReadExecutedNonce, Same, FeeChain,
          DidChain, Answered, FeeWait, FeeDrain, Sending, Draining, LookAt, Redeploy, FeeTypes
  <2> QED
    BY <1>0, <2>1, GettingOn DEF FeeTypes
<1>3. CASE FeeDone \/ FeeCallbackThrows
  <2>1. /\ at = "sent" /\ at' = "run" /\ mode' \in Modes /\ floor' \in Floors
        /\ ops' = Tail(ops) /\ txFee' = 0 /\ override' = 0
        /\ UNCHANGED <<issued, price, fee, mempool>>
    BY <1>0, <1>3 DEF FeeDone, DidBroadcast, DidRefuse, Answered, FeeCallbackThrows,
          CallbackThrows, GiveUp, FeeTypes
  <2>2. ops' \in Seq(1..MaxCalls)
    BY <1>0, <2>1, HeadAndTail DEF FeeTypes
  <2> QED
    BY <1>0, <2>1, <2>2, GettingOn DEF FeeTypes
<1>4. CASE FeeFinish \/ FeeCrash \/ ReplaceRefused
  <2>1. /\ at' = "idle" /\ mode' \in Modes /\ floor' \in Floors
        /\ ops' = <<>> /\ txFee' = 0 /\ override' = 0
        /\ UNCHANGED <<issued, price, fee, mempool>>
    BY <1>0, <1>4 DEF FeeFinish, Finish, FeeCrash, CallerCrash, ReplaceRefused, Forget, Reset,
          FeeTypes
  <2> QED
    BY <1>0, <2>1, GettingOn DEF FeeTypes
<1> QED
  BY <1>1, <1>2, <1>3, <1>4

LEMMA ConflictStep ==
    ASSUME FeeInv, FeeConflict
    PROVE  FeeInv'
<1> USE DEF config, rbf, node, fees, bounds
<1>0. FeeTypes /\ <<>> \in Seq(1..MaxCalls)
  BY DEF FeeInv
<1>1. /\ txFee' = 0 /\ UNCHANGED <<issued, mode, floor, price, fee, mempool>>
      /\ at' \in {"look", "idle"} /\ (ops' = ops \/ ops' = <<>>)
  BY DEF FeeConflict, ConflictIncreases, ConflictReplaces, ConflictAsserts, LookAt
<1>2. override' \in Nat
  <2>1. override' = override \/ override' = 0 \/ override' = Min({txFee + Increment, MaxFee})
    BY DEF FeeConflict, ConflictIncreases, ConflictReplaces, ConflictAsserts
  <2>2. PICK n \in Nat : n = txFee + Increment
    BY <1>0, FeeConstants DEF FeeTypes, FeeConfig
  <2>3. Min({n, MaxFee}) \in Nat
    BY MaxFeeIsFee, TwoNumbers
  <2> QED
    BY <1>0, <2>1, <2>2, <2>3 DEF FeeTypes
<1> QED
  BY <1>0, <1>1, <1>2, GettingOn DEF FeeTypes

LEMMA BroadcastStep ==
    ASSUME FeeInv, FeeBroadcast \/ FeeBroadcastThrows \/ FeeUnknown
    PROVE  FeeInv'
<1> USE DEF config, rbf
<1>0. FeeTypes
  BY DEF FeeInv
<1>1. ops # <<>> /\ at = "run" /\ UNCHANGED <<issued, mode, floor, price>>
  BY DEF FeeBroadcast, FeeBroadcastThrows, FeeUnknown, FeeGiveUp, Sending
<1>2. fee' \in [DOMAIN mempool' -> Nat]
  <2>1. NothingSent \/ \E f \in SentFees : Deliver(nonce, Head(ops), f)
    BY DEF FeeBroadcast, FeeBroadcastThrows, FeeUnknown
  <2>2. CASE NothingSent
    BY <1>0, <2>2 DEF NothingSent, FeeTypes
  <2>3. CASE \E f \in SentFees : Deliver(nonce, Head(ops), f)
    <3>1. PICK f \in SentFees : Deliver(nonce, Head(ops), f)
      BY <2>3
    <3>2. f \in Nat
      BY <1>0, <1>1, <3>1, FeesAreFees
    <3> QED
      BY <1>0, <3>1, <3>2, Delivering
  <2> QED
    BY <2>1, <2>2, <2>3
<1>3. CASE FeeBroadcast
  <2>1. at' = "sent" /\ ops' = ops /\ override' = override
    BY <1>3 DEF FeeBroadcast
  <2>2. txFee' \in Nat
    BY <1>0, <1>3, FeesAreFees DEF FeeBroadcast, NotesFee
  <2> QED
    BY <1>0, <1>1, <1>2, <2>1, <2>2, GettingOn DEF FeeTypes
<1>4. CASE FeeBroadcastThrows \/ FeeUnknown
  <2>1. at' = at /\ ops' = Tail(ops) /\ override' = 0 /\ txFee' = 0
    BY <1>4 DEF FeeBroadcastThrows, FeeUnknown, FeeGiveUp, GiveUp
  <2>2. ops' \in Seq(1..MaxCalls)
    BY <1>0, <1>1, <2>1, HeadAndTail DEF FeeTypes
  <2> QED
    BY <1>0, <1>1, <1>2, <2>1, <2>2, GettingOn DEF FeeTypes
<1> QED
  BY <1>3, <1>4

LEMMA LookStep ==
    ASSUME FeeInv, LookAtMempool
    PROVE  FeeInv'
<1> USE DEF config, node, loop, fees, bounds
<1>0. FeeTypes
  BY DEF FeeInv
<1>1. UNCHANGED <<mempool, fee, ops, issued, mode, floor, price, txFee, override>>
  BY DEF LookAtMempool
<1> DEFINE newFees == IF Due(target) THEN NewFees(fee[target]) ELSE {}
<1>2. CASE newFees = {}
  <2>1. at' = "run"
    BY <1>2 DEF LookAtMempool
  <2> QED
    BY <1>0, <1>1, <2>1, GettingOn DEF FeeTypes
<1>3. CASE newFees # {}
  <2>1. /\ at' = "replace"
        /\ \E f \in newFees : found' = [nonce |-> target, op |-> mempool[target], fee |-> f]
    BY <1>3 DEF LookAtMempool
  <2>2. PICK f \in newFees : found' = [nonce |-> target, op |-> mempool[target], fee |-> f]
    BY <2>1
  <2>3. Due(target) /\ f \in NewFees(fee[target])
    BY <2>2
  <2>4. target \in DOMAIN mempool /\ fee[target] \in Nat
    BY <1>0, <2>3 DEF Due, FeeTypes
  <2>5. f \in Nat /\ f > fee[target]
    BY <1>0, <2>3, <2>4, NewFeesAreHigher
  <2>6. found'.nonce = target /\ found'.op = mempool[target] /\ found'.fee = f
    BY <2>2
  <2>7. FeeTypes'
    BY <1>0, <1>1, <2>1, <2>5, <2>6 DEF FeeTypes
  <2>8. ReplacementPays'
    BY <1>1, <2>5, <2>6 DEF ReplacementPays
  <2> QED
    BY <2>7, <2>8 DEF FeeInv
<1> QED
  BY <1>2, <1>3

LEMMA ReplaceStep ==
    ASSUME FeeInv, Replace
    PROVE  FeeInv'
<1>0. FeeTypes
  BY DEF FeeInv
<1>1. /\ at = "replace" /\ at' = "run" /\ AcceptPaid(found.nonce, found.op, found.fee)
      /\ UNCHANGED <<ops, issued, mode, floor, price, txFee, override>>
  BY DEF Replace, loop, config
<1>2. fee' \in [DOMAIN mempool' -> Nat]
  BY <1>0, <1>1, Accepting DEF FeeTypes
<1> QED
  BY <1>0, <1>1, <1>2, GettingOn DEF FeeTypes
-----------------------------------------------------------------------------
LEMMA FeeInitInv == Init => FeeInv
<1> SUFFICES ASSUME Init
             PROVE  FeeInv
  OBVIOUS
<1>1. DOMAIN mempool = {} /\ DOMAIN fee = {} /\ ops = <<>> /\ at = "idle" /\ issued = 0
  BY DEF Init, CallerInit
<1>2. fee \in [DOMAIN mempool -> Nat]
  BY <1>1 DEF Init, CallerInit
<1>3. ops \in Seq(1..MaxCalls)
  BY <1>1
<1> QED
  BY <1>1, <1>2, <1>3 DEF Init, FeeInv, FeeTypes, ReplacementPays

LEMMA FeeNextInv == FeeInv /\ [Next]_vars => FeeInv'
<1> SUFFICES ASSUME FeeInv, [Next]_vars
             PROVE  FeeInv'
  OBVIOUS
<1>1. CASE UNCHANGED vars
  BY <1>1 DEF vars, callerVars, node, loop, config, fees, rbf, FeeInv, FeeTypes, ReplacementPays
<1>2. CASE Next
  BY <1>2, NodeStep, LoopStep, ConflictStep, BroadcastStep, LookStep, ReplaceStep
     DEF Next, Caller
<1> QED
  BY <1>1, <1>2

(* A fee is a number, and belongs to a pending call; what a replacement is *)
(* about to replace can only leave the memory pool.                        *)
THEOREM FeesInductive == Spec => []FeeInv
<1> QED
  BY FeeInitInv, FeeNextInv, PTL DEF Spec

(* Whatever the mode, the stages and the price, a replacement is the same  *)
(* call for a higher fee when the node gets it, though nodes drop and      *)
(* execute calls and the price rises after the memory pool was read.       *)
THEOREM ReplacementPaysCorrect == Spec => []ReplacementPays
<1>1. FeeInv => ReplacementPays
  BY DEF FeeInv
<1> QED
  BY <1>1, FeesInductive, PTL
=============================================================================
