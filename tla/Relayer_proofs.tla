---------------------------- MODULE Relayer_proofs ----------------------------
(***************************************************************************)
(* Proofs about the Stacks caller and the relayer.  First the caller by    *)
(* itself, for every limit of the node and of the caller, both strategies  *)
(* and any number of calls, faults and drops.  Then the relayer, for every *)
(* set of orders, places and validators, every chunk size, and any number  *)
(* of rounds, commands, crashes and drops; the caller's own invariant,     *)
(* CallerInv, is shown to hold of the caller inside the relayer as well.   *)
(***************************************************************************)
EXTENDS Relayer, TLAPS

(* THE STACKS CALLER                                                       *)

(* The inductive invariant: that no gap opens needs to know what a nonce   *)
(* may be while an answer is on its way, that the order is kept needs to   *)
(* know that there is no gap, and the floor of the limit that the caller   *)
(* is never ahead of the account.                                          *)

(* Where the caller knows nonces, it has read the account before.          *)
Behind == /\ at = "last" => nonce <= account
          /\ at \in {"run", "sent"} => last <= account

(* The pending nonces start at the account's: below one there is no gap.   *)
Closed == drops = 0 => \A n \in DOMAIN mempool :
    n >= account /\ \A m \in account .. n : m \in DOMAIN mempool

(* After an accepted call or a conflict the nonce is pending, or executed  *)
(* in the meantime.                                                        *)
Taken == drops = 0 /\ at = "sent" /\ answer \in {"ok", "ConflictingNonceInMempool"} =>
    nonce < account \/ nonce \in DOMAIN mempool

(* What is left to send are the newest operations, in order; what is       *)
(* pending is older, except the operation whose answer is being handled.   *)
Oldest == issued - Len(ops)
Sent == IF at = "sent" /\ answer = "ok" THEN Oldest + 1 ELSE Oldest
Newest == /\ \A i \in 1..Len(ops) : ops[i] = Oldest + i
          /\ \A n \in DOMAIN mempool : mempool[n] <= Sent
          /\ Strategy = "increase" => raised = FALSE

(* The limit was obeyed by the call that TooMuchChaining answers, which    *)
(* was too far ahead.                                                      *)
Chained == at = "sent" => /\ nonce <= last + limit
                          /\ answer = "TooMuchChaining" => nonce >= last + NodeLimit

CallerInv == /\ CallerTypeOK /\ Behind /\ Closed /\ Taken /\ NoGap
             /\ Newest /\ InOrder /\ Chained /\ LimitFloor

-----------------------------------------------------------------------------
(* What the node's answers mean.                                           *)
LEMMA ReplyMeans ==
  ASSUME NEW n \in Nat, account \in Nat
  PROVE  /\ Reply(n) \in Answers \ {"none", "Refused"}
         /\ Reply(n) = "ok" => n >= account /\ Free(n)
         /\ Reply(n) = "ConflictingNonceInMempool" => n \in DOMAIN mempool
         /\ Reply(n) = "TooMuchChaining" => n >= account + NodeLimit
  BY CallerConstants DEF Reply, Free, Answers

LEMMA EmptyQueue == ASSUME NEW S PROVE <<>> \in Seq(S)
  OBVIOUS

LEMMA InitInv == CallerInit => CallerInv
  <1> SUFFICES ASSUME CallerInit PROVE CallerInv OBVIOUS
  <1> USE CallerConstants DEF CallerInit
  <1>0. DOMAIN mempool = {} /\ Len(ops) = 0 OBVIOUS
  <1>a. ops \in Seq(1..issued) BY EmptyQueue
  <1>b. raised \in BOOLEAN /\ answer \in Answers BY Zenon DEF Answers
  <1>c. account \in Nat /\ issued \in Nat /\ nonce \in Nat /\ last \in Nat /\ limit \in Int
        /\ faults \in Nat /\ drops \in Nat /\ at = "idle" OBVIOUS
  <1>1. CallerTypeOK BY <1>0, <1>a, <1>b, <1>c DEF CallerTypeOK
  <1>2. Behind /\ Closed /\ Taken /\ NoGap BY <1>0 DEF Behind, Closed, Taken, NoGap
  <1>3. Newest /\ InOrder BY <1>0 DEF Newest, Oldest, Sent, InOrder
  <1>4. Chained /\ LimitFloor BY DEF Chained, LimitFloor
  <1> QED BY <1>1, <1>2, <1>3, <1>4 DEF CallerInv

LEMMA FlushInv == ASSUME CallerInv, NEW k \in 1..MaxCalls, Flush(k) PROVE CallerInv'
  <1> USE CallerConstants DEF Flush, CallerInv, CallerTypeOK, node, bounds
  <1>1. CallerTypeOK' OBVIOUS
  <1>2. Behind' BY DEF Behind
  <1>3. Closed' BY DEF Closed
  <1>4. Taken' /\ NoGap' BY DEF Taken, NoGap
  <1>5. Newest' BY DEF Newest, Oldest, Sent
  <1>6. InOrder' BY DEF InOrder
  <1>7. Chained' /\ LimitFloor' BY DEF Chained, LimitFloor
  <1> QED BY <1>1, <1>2, <1>3, <1>4, <1>5, <1>6, <1>7

LEMMA ReadInv == ASSUME CallerInv, ReadStartingNonce \/ ReadExecutedNonce PROVE CallerInv'
  <1> USE CallerConstants DEF ReadStartingNonce, ReadExecutedNonce, CallerInv, CallerTypeOK, node, bounds
  <1>1. CallerTypeOK' OBVIOUS
  <1>2. Behind' BY DEF Behind
  <1>3. Closed' BY DEF Closed
  <1>4. Taken' /\ NoGap' BY DEF Taken, NoGap, Behind
  <1>5. Newest' BY DEF Newest, Oldest, Sent
  <1>6. InOrder' BY DEF InOrder
  <1>7. Chained' /\ LimitFloor' BY DEF Chained, LimitFloor
  <1> QED BY <1>1, <1>2, <1>3, <1>4, <1>5, <1>6, <1>7

LEMMA WaitInv == ASSUME CallerInv, Wait \/ Drain PROVE CallerInv'
  <1> USE CallerConstants DEF Wait, Drain, Sending, Draining, CallerInv, CallerTypeOK, node, bounds
  <1>1. CallerTypeOK' OBVIOUS
  <1>2. Behind' BY DEF Behind
  <1>3. Closed' BY DEF Closed
  <1>4. Taken' /\ NoGap' BY DEF Taken, NoGap
  <1>5. Newest' BY DEF Newest, Oldest, Sent
  <1>6. InOrder' BY DEF InOrder
  <1>7. Chained' /\ LimitFloor' BY DEF Chained, LimitFloor
  <1> QED BY <1>1, <1>2, <1>3, <1>4, <1>5, <1>6, <1>7

(* The caller forgets everything.                                          *)
LEMMA ForgetInv == ASSUME CallerInv, Finish \/ CallerCrash PROVE CallerInv'
  <1> USE CallerConstants DEF Finish, CallerCrash, Forget, Fault, CallerInv, CallerTypeOK, node, bounds
  <1>a. faults' \in Nat /\ drops' \in Nat /\ limit' \in Int /\ nonce' \in Nat /\ last' \in Nat
    OBVIOUS
  <1>b. ops' \in Seq(1..issued') BY EmptyQueue
  <1>c. raised' \in BOOLEAN /\ answer' \in Answers BY Zenon DEF Answers
  <1>1. CallerTypeOK' BY <1>a, <1>b, <1>c
  <1>2. Behind' BY DEF Behind
  <1>3. Closed' BY DEF Closed
  <1>4. Taken' /\ NoGap' BY DEF Taken, NoGap
  <1>5. Newest' BY DEF Newest, Oldest, Sent
  <1>6. InOrder' BY DEF InOrder
  <1>7. Chained' /\ LimitFloor' BY DEF Chained, LimitFloor
  <1> QED BY <1>1, <1>2, <1>3, <1>4, <1>5, <1>6, <1>7

(* Facts about taking the first operation off the queue.                   *)
LEMMA TailNewest ==
  ASSUME NEW N \in Nat, NEW s \in Seq(1..N), s # <<>>
  PROVE  /\ Tail(s) \in Seq(1..N)
         /\ Len(Tail(s)) = Len(s) - 1 /\ Len(s) \in Nat \ {0}
         /\ Head(s) = s[1] /\ Head(s) \in 1..N
         /\ \A i \in 1..Len(Tail(s)) : Tail(s)[i] = s[i + 1]
  OBVIOUS

(* The operation is done with or given up; the nonce may move on.          *)
LEMMA AnsweredInv ==
  ASSUME CallerInv, DidBroadcast \/ DidRefuse \/ CallbackThrows
  PROVE  CallerInv'
  <1> USE CallerConstants DEF DidBroadcast, DidRefuse, CallbackThrows, Answered, GiveUp, Fault,
          CallerInv, CallerTypeOK, node, bounds
  <1>0. /\ at = "sent" /\ at' = "run" /\ answer' = "none" /\ ops' = Tail(ops)
        /\ account' = account /\ mempool' = mempool /\ issued' = issued
        /\ last' = last /\ limit' = limit /\ raised' = FALSE /\ drops' = drops
        /\ nonce' = nonce \/ (nonce' = nonce + 1 /\ answer = "ok")
    OBVIOUS
  <1>a. ops # <<>> /\ ops \in Seq(1..issued) /\ issued \in Nat BY <1>0
  <1>b. /\ ops' \in Seq(1..issued) /\ Len(ops') = Len(ops) - 1
        /\ \A i \in 1..Len(ops') : ops'[i] = ops[i + 1]
    BY <1>0, <1>a, TailNewest
  <1>c. faults' \in Nat /\ answer' \in Answers /\ nonce' \in Nat BY <1>0 DEF Answers
  <1>1. CallerTypeOK' BY <1>0, <1>b, <1>c
  <1>2. Behind' BY <1>0 DEF Behind
  <1>3. Closed' BY <1>0 DEF Closed
  <1>4. Taken' /\ NoGap' BY <1>0 DEF Taken, NoGap
  <1>5. Newest' BY <1>0, <1>a, <1>b, TailNewest DEF Newest, Oldest, Sent
  <1>6. InOrder' BY <1>0 DEF InOrder
  <1>7. Chained' /\ LimitFloor' BY <1>0 DEF Chained, LimitFloor
  <1> QED BY <1>1, <1>2, <1>3, <1>4, <1>5, <1>6, <1>7

LEMMA RetryInv == ASSUME CallerInv, DidConflict \/ DidChain PROVE CallerInv'
  <1> USE CallerConstants DEF DidConflict, DidChain, Answered, CallerInv, CallerTypeOK, node, bounds
  <1>0. /\ at = "sent" /\ at' = "run" /\ answer' = "none" /\ ops' = ops /\ last' = last
        /\ account' = account /\ mempool' = mempool /\ issued' = issued /\ drops' = drops
        /\ faults' = faults
        /\ \/ nonce' = nonce
           \/ nonce' = nonce + 1 /\ answer = "ConflictingNonceInMempool"
        /\ limit' \in Int /\ answer' \in Answers
    BY DEF Answers
  <1>r. raised' \in BOOLEAN BY Zenon
  <1>1. CallerTypeOK' BY <1>0, <1>r
  <1>2. Behind' BY DEF Behind
  <1>3. Closed' BY DEF Closed
  <1>t. account \in Nat /\ nonce \in Nat /\ NoGap /\ Taken OBVIOUS
  <1>4. Taken' /\ NoGap'
    <2> HIDE DEF CallerInv, CallerTypeOK, DidConflict, DidChain
    <2>1. Taken' BY <1>0 DEF Taken
    <2>2. NoGap' BY <1>0, <1>t DEF Taken, NoGap
    <2> QED BY <2>1, <2>2
  <1>5. Newest' BY DEF Newest, Oldest, Sent
  <1>6. InOrder' BY DEF InOrder
  <1>7. Chained' /\ LimitFloor' BY DEF Chained, LimitFloor
  <1> QED BY <1>1, <1>2, <1>3, <1>4, <1>5, <1>6, <1>7

(* The node takes a call under a nonce with no gap below it.               *)
LEMMA AcceptInv ==
  ASSUME CallerInv, Sending, Reply(nonce) = "ok", Accept(nonce, Head(ops)),
         account' = account, drops' = drops
  PROVE  /\ DOMAIN mempool' = DOMAIN mempool \cup {nonce}
         /\ \A n \in DOMAIN mempool' : mempool'[n] \in 1..issued
         /\ \A n \in DOMAIN mempool' : mempool'[n] <= Oldest + 1
         /\ Closed' /\ InOrder'
  <1> USE CallerConstants DEF Sending, CallerInv, CallerTypeOK
  <1>1. /\ nonce >= account /\ Free(nonce) BY ReplyMeans
  <1>2. /\ DOMAIN mempool' = DOMAIN mempool \cup {nonce}
        /\ mempool'[nonce] = Head(ops)
        /\ \A n \in DOMAIN mempool \ {nonce} : mempool'[n] = mempool[n]
    BY DEF Accept
  <1>3. Head(ops) = Oldest + 1 /\ Head(ops) \in 1..issued
    BY TailNewest DEF Newest
  <1>4. /\ \A n \in DOMAIN mempool' : mempool'[n] \in 1..issued
        /\ \A n \in DOMAIN mempool' : mempool'[n] <= Oldest + 1
    BY <1>2, <1>3 DEF Newest, Sent, Oldest
  <1>5. Closed' BY <1>1, <1>2 DEF Closed, NoGap
  <1>6. InOrder'
    <2> SUFFICES ASSUME drops = 0, Strategy = "increase",
                        NEW m \in DOMAIN mempool', NEW n \in DOMAIN mempool', m < n
                 PROVE  mempool'[m] < mempool'[n]
      BY DEF InOrder
    <2>1. nonce \notin DOMAIN mempool BY <1>1 DEF Free, Newest
    <2>2. \A j \in DOMAIN mempool : j < nonce BY <2>1, <1>1 DEF Closed
    <2>3. \A j \in DOMAIN mempool : mempool[j] <= Oldest BY DEF Newest, Sent
    <2>4. m # nonce BY <2>2, <1>2
    <2>5. CASE n = nonce BY <2>5, <2>4, <2>3, <1>2, <1>3 DEF Oldest
    <2>6. CASE n # nonce BY <2>6, <2>4, <1>2 DEF InOrder
    <2> QED BY <2>5, <2>6
  <1> QED BY <1>2, <1>4, <1>5, <1>6

LEMMA BroadcastInv == ASSUME CallerInv, Broadcast PROVE CallerInv'
  <1> USE CallerConstants
  <1>0. /\ Sending /\ ~Throttled /\ at' = "sent" /\ account' = account /\ ops' = ops
        /\ nonce' = nonce /\ last' = last /\ limit' = limit /\ raised' = raised
        /\ issued' = issued /\ drops' = drops /\ faults' \in Nat
    BY DEF Broadcast, Fault, bounds, CallerInv, CallerTypeOK
  <1>t. /\ account \in Nat /\ nonce \in Nat /\ issued \in Nat /\ last \in Nat
        /\ limit \in Int /\ ops \in Seq(1..issued) /\ ops # <<>> /\ at = "run"
    BY <1>0 DEF CallerInv, CallerTypeOK, Sending
  <1>r. CASE mempool' = mempool /\ answer' \in Answers \ {"ok"}
             /\ (answer' = Reply(nonce) \/ answer' = "Refused")
    <2> USE <1>0, <1>t, <1>r
    <2>1. CallerTypeOK' BY DEF CallerInv, CallerTypeOK
    <2>2. Behind' /\ Closed' BY DEF CallerInv, Behind, Closed
    <2>3. NoGap' /\ InOrder' BY DEF CallerInv, NoGap, InOrder
    <2>4. Taken' BY ReplyMeans DEF Taken
    <2>5. Newest' BY DEF CallerInv, Newest, Oldest, Sent
    <2>6. Chained' /\ LimitFloor'
      BY ReplyMeans DEF CallerInv, Chained, LimitFloor, Throttled, Behind
    <2> QED BY <2>1, <2>2, <2>3, <2>4, <2>5, <2>6 DEF CallerInv
  <1>a. CASE Reply(nonce) = "ok" /\ answer' = "ok" /\ Accept(nonce, Head(ops))
    <2> USE <1>0, <1>t, <1>a
    <2>0. /\ DOMAIN mempool' = DOMAIN mempool \cup {nonce}
          /\ \A n \in DOMAIN mempool' : mempool'[n] \in 1..issued
          /\ \A n \in DOMAIN mempool' : mempool'[n] <= Oldest + 1
          /\ Closed' /\ InOrder'
      BY AcceptInv
    <2>1. CallerTypeOK' BY <2>0 DEF CallerInv, CallerTypeOK, Answers
    <2>2. Behind' BY DEF CallerInv, Behind
    <2>3. NoGap' BY <2>0 DEF CallerInv, NoGap
    <2>4. Taken' BY <2>0 DEF Taken
    <2>5. Newest' BY <2>0 DEF CallerInv, Newest, Oldest, Sent
    <2>6. Chained' /\ LimitFloor' BY DEF CallerInv, Chained, LimitFloor, Throttled
    <2> QED BY <2>0, <2>1, <2>2, <2>3, <2>4, <2>5, <2>6 DEF CallerInv
  <1>2. Reply(nonce) \in Answers \ {"none", "Refused"} BY <1>t, ReplyMeans
  <1> QED BY <1>r, <1>a, <1>2 DEF Broadcast, Answers

LEMMA ThrowsInv == ASSUME CallerInv, BroadcastThrows PROVE CallerInv'
  <1> USE CallerConstants
  <1>0. /\ Sending /\ at' = at /\ account' = account /\ ops' = Tail(ops)
        /\ nonce' = nonce /\ last' = last /\ limit' = limit /\ raised' = FALSE
        /\ issued' = issued /\ drops' = drops /\ faults' \in Nat /\ answer' = answer
    BY DEF BroadcastThrows, GiveUp, Fault, CallerInv, CallerTypeOK
  <1>t. /\ account \in Nat /\ nonce \in Nat /\ issued \in Nat /\ last \in Nat
        /\ limit \in Int /\ ops \in Seq(1..issued) /\ ops # <<>> /\ at = "run"
    BY <1>0 DEF CallerInv, CallerTypeOK, Sending
  <1>b. /\ ops' \in Seq(1..issued) /\ Len(ops') = Len(ops) - 1 /\ Len(ops) \in Nat
        /\ \A i \in 1..Len(ops') : ops'[i] = ops[i + 1]
    BY <1>0, <1>t, TailNewest
  <1>m. /\ DOMAIN mempool' \in SUBSET Nat /\ DOMAIN mempool \subseteq DOMAIN mempool'
        /\ \A n \in DOMAIN mempool' : mempool'[n] \in 1..issued /\ mempool'[n] <= Oldest + 1
        /\ Closed' /\ InOrder'
    <2>1. CASE mempool' = mempool
      BY <2>1, <1>0, <1>t DEF CallerInv, CallerTypeOK, Closed, InOrder, Newest, Oldest, Sent
    <2>2. CASE Reply(nonce) = "ok" /\ Accept(nonce, Head(ops))
      BY <2>2, <1>0, <1>t, AcceptInv DEF CallerInv, CallerTypeOK
    <2> QED BY <2>1, <2>2 DEF BroadcastThrows
  <1>1. CallerTypeOK' BY <1>0, <1>t, <1>b, <1>m DEF CallerInv, CallerTypeOK
  <1>2. Behind' BY <1>0, <1>t DEF CallerInv, Behind
  <1>3. NoGap' /\ Taken' BY <1>0, <1>t, <1>m DEF CallerInv, NoGap, Taken
  <1>5. Newest' BY <1>0, <1>t, <1>b, <1>m DEF CallerInv, Newest, Oldest, Sent
  <1>6. Chained' /\ LimitFloor' BY <1>0, <1>t DEF CallerInv, Chained, LimitFloor
  <1> QED BY <1>m, <1>1, <1>2, <1>3, <1>5, <1>6 DEF CallerInv

LEMMA NodeInv == ASSUME CallerInv, Execute \/ Drop PROVE CallerInv'
  <1> USE CallerConstants
  <1>0. /\ at' = at /\ ops' = ops /\ nonce' = nonce /\ last' = last /\ limit' = limit
        /\ raised' = raised /\ answer' = answer /\ issued' = issued /\ faults' = faults
        /\ account' \in Nat /\ account <= account' /\ drops' \in Nat
        /\ DOMAIN mempool' \subseteq DOMAIN mempool
        /\ \A n \in DOMAIN mempool' : mempool'[n] = mempool[n]
        /\ \/ drops' = drops /\ account' = account + 1
              /\ DOMAIN mempool' = DOMAIN mempool \ {account}
           \/ drops' # 0
    <2> USE DEF loop, bounds, CallerInv, CallerTypeOK
    <2>1. CASE Execute
      <3>1. /\ DOMAIN mempool' = DOMAIN mempool \ {account}
            /\ \A n \in DOMAIN mempool' : mempool'[n] = mempool[n]
        BY <2>1 DEF Execute, Without
      <3> QED BY <2>1, <3>1 DEF Execute
    <2>2. CASE Drop
      <3>1. PICK k \in DOMAIN mempool : mempool' = Without(k) BY <2>2 DEF Drop
      <3>2. /\ DOMAIN mempool' = DOMAIN mempool \ {k}
            /\ \A n \in DOMAIN mempool' : mempool'[n] = mempool[n]
        BY <3>1 DEF Without
      <3> QED BY <2>2, <3>2 DEF Drop
    <2> QED BY <2>1, <2>2
  <1>t. account \in Nat /\ nonce \in Nat /\ last \in Nat /\ DOMAIN mempool \subseteq Nat
    BY DEF CallerInv, CallerTypeOK
  <1>1. CallerTypeOK' BY <1>0 DEF CallerInv, CallerTypeOK
  <1>2. Behind' BY <1>0, <1>t DEF CallerInv, Behind
  <1>3. Closed' BY <1>0, <1>t DEF CallerInv, Closed
  <1>4. NoGap' /\ Taken' BY <1>0, <1>t DEF CallerInv, NoGap, Taken
  <1>5. Newest' BY <1>0 DEF CallerInv, Newest, Oldest, Sent
  <1>6. InOrder' BY <1>0, <1>t DEF CallerInv, InOrder
  <1>7. Chained' /\ LimitFloor' BY <1>0 DEF CallerInv, Chained, LimitFloor
  <1> QED BY <1>1, <1>2, <1>3, <1>4, <1>5, <1>6, <1>7 DEF CallerInv

LEMMA StutterInv == ASSUME CallerInv, UNCHANGED callerVars PROVE CallerInv'
  BY DEF callerVars, node, loop, bounds, CallerInv, CallerTypeOK, Behind, Closed, Taken, NoGap,
     Newest, Oldest, Sent, InOrder, Chained, LimitFloor

LEMMA CallerNextInv == ASSUME CallerInv, [CallerNext]_callerVars PROVE CallerInv'
  BY FlushInv, ReadInv, WaitInv, ForgetInv, AnsweredInv, RetryInv, BroadcastInv, ThrowsInv,
     NodeInv, StutterInv DEF CallerNext, Call, Environment

(* The invariant holds in every reachable state.                           *)
THEOREM CallerInductive == CallerSpec => []CallerInv
  <1>1. CallerInv /\ [CallerNext]_callerVars => CallerInv' BY CallerNextInv
  <1> QED BY InitInv, <1>1, PTL DEF CallerSpec

(* The caller's variables keep their types.                                *)
THEOREM CallerTypeCorrect == CallerSpec => []CallerTypeOK
  <1>1. CallerInv => CallerTypeOK BY DEF CallerInv
  <1> QED BY CallerInductive, <1>1, PTL

(* The nonces the caller has left behind are executed or pending.          *)
THEOREM NoGapCorrect == CallerSpec => []NoGap
  <1>1. CallerInv => NoGap BY DEF CallerInv
  <1> QED BY CallerInductive, <1>1, PTL

(* The node holds the calls in the order in which they were issued.        *)
THEOREM InOrderCorrect == CallerSpec => []InOrder
  <1>1. CallerInv => InOrder BY DEF CallerInv
  <1> QED BY CallerInductive, <1>1, PTL

(* The limit never falls further than one below what the node holds.       *)
THEOREM LimitFloorCorrect == CallerSpec => []LimitFloor
  <1>1. CallerInv => LimitFloor BY DEF CallerInv
  <1> QED BY CallerInductive, <1>1, PTL

-----------------------------------------------------------------------------
(* THE RELAYER                                                             *)

(* A round works on one row per place, with the proofs of that place; what *)
(* it is about to submit are transfers of different places, none of them   *)
(* still to be read or looked at.  What it found indexed stays indexed.    *)
Rounds == [at : {"idle", "read", "check"}, unread : SUBSET Places,
           todo : SUBSET (Places \X SUBSET (Validators \X Orders)),
           inputs : Seq(Inputs), found : SUBSET Places, errors : SUBSET Places]

InputPlace(i) == PlaceOf[round.inputs[i].order]

RoundInv ==
    /\ round \in Rounds
    /\ \A row \in round.todo : \A q \in row[2] : PlaceOf[q[2]] = row[1]
    /\ \A row, other \in round.todo : row[1] = other[1] => row = other
    /\ \A i, j \in 1..Len(round.inputs) : InputPlace(i) = InputPlace(j) => i = j
    /\ \A i \in 1..Len(round.inputs) : \A row \in round.todo : InputPlace(i) # row[1]
    /\ \A row \in round.todo : row[1] \notin round.unread
    /\ round.at = "check" => round.unread = {}
    /\ round.unread # {} => round.inputs = <<>>
    /\ round.found \subseteq indexed

CommandShape == cli = [tool |-> cli.tool, todo |-> cli.todo, missing |-> cli.missing]

Executions == [nonce : Nat, op : Nat, ok : BOOLEAN]

(* A call under a nonce was sent: it is pending, or it was executed.       *)
SentAs(n, op) == \/ n \in DOMAIN mempool /\ mempool[n] = op
                 \/ \E e \in executed : e.nonce = n /\ e.op = op

(* An accepted call is there under its nonce while onBroadcast runs.       *)
AcceptedIsSent == drops = 0 /\ Strategy = "increase" /\ at = "sent" /\ answer = "ok" =>
    SentAs(nonce, Head(ops))

(* As long as nothing goes wrong: the nonces that are pending are those    *)
(* from the account's up to the caller's own, so nothing is refused; each  *)
(* operation up to the last one sent was sent once; when the caller rests, *)
(* all are executed; and no place is in two calls, sent or not.            *)
Upto == IF at = "sent" /\ answer = "ok" THEN nonce + 1 ELSE nonce

NotSending == at \in {"idle", "start", "last"}

Done(op) == \E e \in executed : e.op = op

CalmNonces ==
    /\ at = "idle" => ops = <<>>
    /\ NotSending => DOMAIN mempool = {}
    /\ at = "last" => nonce = account
    /\ at \in {"run", "sent"} =>
          account <= Upto /\ \A n \in DOMAIN mempool : account <= n /\ n < Upto
    /\ at = "sent" => answer \in {"ok", "TooMuchChaining"}
    /\ raised = FALSE

CalmCalls ==
    /\ \A m, n \in DOMAIN mempool : mempool[m] = mempool[n] => m = n
    /\ \A n \in DOMAIN mempool : ~Done(mempool[n])
    /\ \A op \in 1..Sent : Done(op) \/ \E n \in DOMAIN mempool : mempool[n] = op
    /\ \A e \in executed : e.op <= Sent

CalmContract ==
    /\ \A e \in executed : e.ok /\ PlacesOf(calls[e.op]) \subseteq indexed
    /\ used \subseteq UNION {Signatures(calls[e.op]) : e \in executed}
    /\ \A i \in 1..Len(round.inputs) : InputPlace(i) \notin indexed
    /\ \A i, j \in 1..issued : PlacesOf(calls[i]) \cap PlacesOf(calls[j]) # {} => i = j

Calm == faults = 0 /\ drops = 0 => CalmNonces /\ CalmCalls /\ CalmContract

RelayerInv ==
    /\ TypeOK /\ executed \subseteq Executions
    /\ CallerInv /\ RoundInv /\ CommandShape
    /\ SettledIsIndexed /\ AcceptedIsSent /\ RecordedIsSent /\ Calm
-----------------------------------------------------------------------------
(* The caller inside the relayer.                                          *)

LEMMA FaultInv ==
    ASSUME CallerInv, Fault, UNCHANGED <<node, at, loop, issued>>
    PROVE  CallerInv'
  BY DEF Fault, node, loop, CallerInv, CallerTypeOK, Behind, Closed, Taken, NoGap,
         Newest, Oldest, Sent, InOrder, Chained, LimitFloor

(* The inputs of a round are cut into calls without a rest, and no input   *)
(* gets into two of them.                                                  *)
LEMMA DivisionBounds ==
    ASSUME NEW c \in Nat \ {0}, NEW n \in Nat
    PROVE  /\ n \div c \in Nat
           /\ \A j \in 0..(n - 1) : j \div c < (n + c - 1) \div c
  OBVIOUS

LEMMA ChunksOf ==
    ASSUME NEW s \in Seq(Inputs)
    PROVE  /\ Chunks(s) \in Seq(SUBSET Inputs) /\ Len(Chunks(s)) \in Nat
           /\ \A i \in 1..Len(Chunks(s)) : \A x \in Chunks(s)[i] :
                 \E k \in 1..Len(s) : x = s[k] /\ (k - 1) \div ChunkSize = i - 1
  <1> DEFINE n == (Len(s) + ChunkSize - 1) \div ChunkSize
  <1>1. ChunkSize \in Nat \ {0} /\ Len(s) \in Nat
    BY RelayerConstants
  <1>2. Len(s) + ChunkSize - 1 \in Nat
    BY <1>1
  <1>3. n \in Nat
    BY <1>1, <1>2, DivisionBounds
  <1> HIDE DEF n
  <1>4. Chunks(s) = [i \in 1..n |->
            {s[j] : j \in {k \in 1..Len(s) : (k - 1) \div ChunkSize = i - 1}}]
    BY DEF Chunks, n
  <1>5. \A i \in 1..n : Chunks(s)[i] \in SUBSET Inputs
    BY <1>4
  <1>6. Chunks(s) \in Seq(SUBSET Inputs) /\ Len(Chunks(s)) = n
    BY <1>3, <1>4, <1>5
  <1> QED
    BY <1>3, <1>4, <1>6

LEMMA FlushIsCallerStep ==
    ASSUME CallerInv, RoundInv, SubmitChunks
    PROVE  CallerInv'
  <1>1. CASE UNCHANGED callerVars
    BY <1>1, StutterInv
  <1>2. CASE Flush(Len(Chunks(round.inputs)))
    <2>1. Len(Chunks(round.inputs)) \in Nat
      BY ChunksOf DEF RoundInv, Rounds
    <2>2. Len(Chunks(round.inputs)) \in 1..MaxCalls
      BY <1>2, <2>1, CallerConstants DEF Flush, CallerInv, CallerTypeOK
    <2> QED
      BY <1>2, <2>2, FlushInv
  <1> QED
    BY <1>1, <1>2 DEF SubmitChunks

(* A step of the commands check and back-fill.                             *)
Command == Check \/ StartCheckOnce \/ StartBackFill

LEMMA CommandReads ==
    ASSUME Command
    PROVE  \/ \E tool, rows : tool \in {"check", "back-fill"} /\ ReadRows(tool, rows)
           \/ AskRegistry \/ DeleteRows
  BY DEF Command, Check, StartCheck, StartCheckOnce, StartBackFill

LEMMA CallerKept ==
    ASSUME CallerInv, RoundInv, [Next]_vars
    PROVE  CallerInv'
  <1>1. CASE Relay
    <2>1. CASE UNCHANGED callerVars
      BY <2>1, StutterInv
    <2>2. CASE SubmitChunks
      BY <2>2, FlushIsCallerStep
    <2>3. CASE CallStep \/ Broadcasted \/ Settled
      <3>1. Call
        BY <2>3 DEF CallStep, Broadcasted, Settled, Call
      <3> QED
        BY <3>1, CallerNextInv DEF CallerNext
    <2> QED
      BY <1>1, <2>1, <2>2, <2>3
         DEF Relay, GetPendingSubmitTx, ReadProofs, CheckPlace, SetAlreadyIndexed, SetTxsWithError
  <1>2. CASE ExecuteCall \/ Trouble
    <2>1. Execute \/ Environment
      BY <1>2 DEF ExecuteCall, Trouble
    <2> QED
      BY <2>1, CallerNextInv DEF CallerNext
  <1>3. CASE Command
    <2>1. UNCHANGED callerVars
      BY <1>3, CommandReads DEF Command, ReadRows, AskRegistry, DeleteRows
    <2> QED
      BY <2>1, StutterInv
  <1>4. CASE RoundCrash
    BY <1>4, FaultInv DEF RoundCrash
  <1>5. CASE \E v \in Validators, o \in Orders : StoreProof(v, o)
    BY <1>5, StutterInv DEF StoreProof
  <1>6. CASE \E o \in Orders : IndexedByOther(o)
    BY <1>6, FaultInv DEF IndexedByOther
  <1>7. CASE UNCHANGED vars
    BY <1>7, StutterInv DEF vars
  <1> QED
    BY <1>1, <1>2, <1>3, <1>4, <1>5, <1>6, <1>7 DEF Next, Command, Check
-----------------------------------------------------------------------------
(* What was sent stays sent.                                               *)

(* The caller's steps besides Flush and Execute; all but Drop need it to   *)
(* be at work.                                                             *)
CallerActs == Call \/ Environment

LEMMA AcceptedAt ==
    ASSUME Accept(nonce, Head(ops))
    PROVE  /\ DOMAIN mempool' = DOMAIN mempool \cup {nonce}
           /\ mempool'[nonce] = Head(ops)
           /\ \A n \in DOMAIN mempool \ {nonce} : mempool'[n] = mempool[n]
  BY DEF Accept

LEMMA SentStaysSent ==
    ASSUME CallerInv, drops' = 0, Strategy = "increase", CallerActs, executed' = executed,
           NEW n, NEW op, SentAs(n, op)
    PROVE  SentAs(n, op)'
  <1>1. raised = FALSE /\ drops \in Nat /\ account \in Nat /\ nonce \in Nat
    BY DEF CallerInv, CallerTypeOK, Newest
  <1>2. CASE mempool' = mempool
    BY <1>2 DEF SentAs
  <1>3. CASE Reply(nonce) = "ok" /\ Accept(nonce, Head(ops))
    <2>1. nonce \notin DOMAIN mempool
      BY <1>1, <1>3, ReplyMeans DEF Free
    <2> QED
      BY <1>3, <2>1, AcceptedAt DEF SentAs
  <1>4. ~Drop
    BY <1>1 DEF Drop
  <1> QED
    BY <1>2, <1>3, <1>4
       DEF CallerActs, Call, Environment, ReadStartingNonce, ReadExecutedNonce, Wait, Broadcast,
           DidBroadcast, DidConflict, DidChain, DidRefuse, Drain, Finish, BroadcastThrows,
           CallbackThrows, CallerCrash, Answered, node

LEMMA ExecutedStaysSent ==
    ASSUME Execute, NEW ok, NEW n, NEW op, SentAs(n, op),
           executed' = executed \cup {[nonce |-> account, op |-> mempool[account], ok |-> ok]}
    PROVE  SentAs(n, op)'
  <1> DEFINE e == [nonce |-> account, op |-> mempool[account], ok |-> ok]
  <1>1. e \in executed' /\ e.nonce = account /\ e.op = mempool[account]
    OBVIOUS
  <1>2. /\ DOMAIN mempool' = DOMAIN mempool \ {account}
        /\ \A m \in DOMAIN mempool' : mempool'[m] = mempool[m]
    BY DEF Execute, Without
  <1> HIDE DEF e
  <1> QED
    BY <1>1, <1>2 DEF SentAs

(* The answer "ok" belongs to the call under the caller's nonce.           *)
LEMMA AcceptedKept ==
    ASSUME CallerInv, AcceptedIsSent, CallerActs, executed' = executed
    PROVE  AcceptedIsSent'
  <1> SUFFICES ASSUME drops' = 0, Strategy = "increase", at' = "sent", answer' = "ok"
               PROVE  SentAs(nonce, Head(ops))'
    BY DEF AcceptedIsSent
  <1>0. drops = 0
    BY DEF CallerActs, Call, Environment, ReadStartingNonce, ReadExecutedNonce, Wait, Broadcast,
           DidBroadcast, DidConflict, DidChain, DidRefuse, Drain, Finish, BroadcastThrows,
           CallbackThrows, CallerCrash, Answered, Drop, Fault, bounds, CallerInv, CallerTypeOK
  <1>1. CASE Broadcast
    <2>1. Accept(nonce, Head(ops)) /\ nonce' = nonce /\ ops' = ops
      BY <1>1 DEF Broadcast
    <2> QED
      BY <2>1, AcceptedAt DEF SentAs
  <1>2. CASE ~Broadcast
    <2>1. UNCHANGED <<at, answer, nonce, ops>> /\ at = "sent"
      BY <1>2 DEF CallerActs, Call, Environment, ReadStartingNonce, ReadExecutedNonce, Wait,
           DidBroadcast, DidConflict, DidChain, DidRefuse, Drain, Finish, BroadcastThrows,
           CallbackThrows, CallerCrash, Answered, Drop, Forget, loop, Sending, Draining
    <2>2. SentAs(nonce, Head(ops))
      BY <1>0, <2>1 DEF AcceptedIsSent
    <2> QED
      BY <2>1, <2>2, SentStaysSent DEF SentAs
  <1> QED
    BY <1>1, <1>2
-----------------------------------------------------------------------------
(* As long as nothing goes wrong.                                          *)

LEMMA CalmBefore ==
    ASSUME CallerInv, [Next]_vars, faults' = 0, drops' = 0
    PROVE  faults = 0 /\ drops = 0 /\ ~Fault /\ ~Drop
  <1>1. faults \in Nat /\ drops \in Nat
    BY DEF CallerInv, CallerTypeOK
  <1>2. CASE Fault
    BY <1>1, <1>2 DEF Fault
  <1>3. CASE Drop
    BY <1>1, <1>3 DEF Drop
  <1>4. CASE ~Fault /\ ~Drop
    <2>1. UNCHANGED <<faults, drops>>
      BY <1>4 DEF Next, Relay, GetPendingSubmitTx, ReadProofs, CheckPlace, SetAlreadyIndexed,
         SetTxsWithError, SubmitChunks, CallStep, Broadcasted, Settled, ExecuteCall, Check,
         StartCheck, StartCheckOnce, AskRegistry, DeleteRows, StartBackFill, ReadRows, Trouble, RoundCrash,
         StoreProof, IndexedByOther, Flush, Execute, Environment, ReadStartingNonce,
         ReadExecutedNonce, Wait, Broadcast, DidBroadcast, DidConflict, DidChain, DidRefuse,
         Drain, Finish, BroadcastThrows, CallbackThrows, CallerCrash, Answered, callerVars,
         bounds, vars
    <2> QED
      BY <1>4, <2>1
  <1> QED
    BY <1>2, <1>3, <1>4

(* The caller's steps that are left then: nothing is refused.              *)
LEMMA CalmCaller ==
    ASSUME CallerInv, CallerInv', CalmNonces, CalmCalls, CallerActs, ~Fault, ~Drop,
           executed' = executed, \A e \in executed : e.op \in Nat
    PROVE  CalmNonces' /\ CalmCalls'
  <1> USE DEF node, bounds
  <1>0. /\ account \in Nat /\ nonce \in Nat /\ issued \in Nat /\ last \in Nat
        /\ DOMAIN mempool \subseteq Nat /\ ops \in Seq(1..issued) /\ Len(ops) \in Nat
        /\ \A n \in DOMAIN mempool : mempool[n] \in 1..issued
    <2>1. /\ account \in Nat /\ nonce \in Nat /\ issued \in Nat /\ last \in Nat
          /\ DOMAIN mempool \subseteq Nat /\ ops \in Seq(1..issued)
      BY DEF CallerInv, CallerTypeOK
    <2>2. \A n \in DOMAIN mempool : mempool[n] \in 1..issued
      BY DEF CallerInv, CallerTypeOK
    <2>3. Len(ops) \in Nat
      BY <2>1
    <2> QED
      BY <2>1, <2>2, <2>3
  <1>1. CASE ReadStartingNonce \/ ReadExecutedNonce
    <2>1. CalmNonces'
      BY <1>0, <1>1 DEF ReadStartingNonce, ReadExecutedNonce, CalmNonces, NotSending, Upto
    <2>2. CalmCalls'
      BY <1>0, <1>1 DEF ReadStartingNonce, ReadExecutedNonce, CalmCalls, Done, Sent, Oldest
    <2> QED
      BY <2>1, <2>2
  <1>2. CASE Wait \/ Drain
    <2>1. CalmNonces'
      BY <1>0, <1>2 DEF Wait, Drain, Sending, Draining, CalmNonces, NotSending, Upto
    <2>2. CalmCalls'
      BY <1>0, <1>2 DEF Wait, Drain, Sending, Draining, CalmCalls, Done, Sent, Oldest
    <2> QED
      BY <2>1, <2>2
  <1>3. CASE Broadcast
    <2>0. /\ at = "run" /\ ops # <<>> /\ at' = "sent" /\ answer' = Reply(nonce)
          /\ UNCHANGED <<account, ops, nonce, raised, issued>>
          /\ IF Reply(nonce) = "ok" THEN Accept(nonce, Head(ops)) ELSE UNCHANGED mempool
      BY <1>3 DEF Broadcast, Sending
    <2>1. /\ account <= nonce /\ raised = FALSE
          /\ \A n \in DOMAIN mempool : account <= n /\ n < nonce
      BY <2>0 DEF CalmNonces, Upto
    <2>2. Reply(nonce) \in {"ok", "TooMuchChaining"}
      BY <1>0, <2>1 DEF Reply, Free
    <2>3. Head(ops) = Oldest + 1 /\ Oldest \in Nat
      BY <1>0, <2>0, TailNewest DEF CallerInv, Newest, Oldest
    <2>4. CASE Reply(nonce) = "ok"
      <3>1. /\ DOMAIN mempool' = DOMAIN mempool \cup {nonce}
            /\ mempool'[nonce] = Head(ops)
            /\ \A n \in DOMAIN mempool \ {nonce} : mempool'[n] = mempool[n]
        BY <2>0, <2>4, AcceptedAt
      <3>2. Upto' = nonce + 1 /\ Sent = Oldest /\ Sent' = Oldest + 1
        BY <2>0, <2>4 DEF Upto, Sent, Oldest
      <3>3. CalmNonces'
        BY <1>0, <2>0, <2>1, <2>4, <3>1, <3>2 DEF CalmNonces, NotSending
      <3>4. \A n \in DOMAIN mempool : mempool[n] <= Oldest
        BY <3>2 DEF CallerInv, Newest
      <3>5. \A e \in executed : e.op <= Oldest
        BY <3>2 DEF CalmCalls
      <3>6. nonce \notin DOMAIN mempool
        BY <1>0, <2>1
      <3>7. \A m, n \in DOMAIN mempool' : mempool'[m] = mempool'[n] => m = n
        BY <1>0, <2>3, <3>1, <3>4 DEF CalmCalls
      <3>8. ~Done(Oldest + 1)
        <4> SUFFICES ASSUME NEW e \in executed, e.op = Oldest + 1 PROVE FALSE
          BY DEF Done
        <4>1. Oldest + 1 <= Oldest
          BY <3>5
        <4> QED
          BY <2>3, <4>1
      <3>9. \A op : Done(op)' = Done(op)
        BY DEF Done
      <3>10. \A n \in DOMAIN mempool' : ~Done(mempool'[n])
        BY <2>3, <3>1, <3>8 DEF CalmCalls
      <3>11. ASSUME NEW op \in 1..(Oldest + 1)
             PROVE  Done(op) \/ \E n \in DOMAIN mempool' : mempool'[n] = op
        <4>1. CASE op = Oldest + 1
          BY <2>3, <3>1, <4>1
        <4>2. CASE op # Oldest + 1
          <5>1. op \in 1..Sent
            BY <2>3, <3>2, <4>2
          <5> QED
            BY <3>1, <3>6, <5>1 DEF CalmCalls
        <4> QED
          BY <4>1, <4>2
      <3>12. \A e \in executed' : e.op <= Oldest + 1
        <4> SUFFICES ASSUME NEW e \in executed PROVE e.op <= Oldest + 1
          OBVIOUS
        <4>1. e.op \in Nat /\ e.op <= Oldest
          BY <3>5
        <4> QED
          BY <2>3, <4>1
      <3>13. CalmCalls'
        BY <3>2, <3>7, <3>9, <3>10, <3>11, <3>12 DEF CalmCalls
      <3> QED
        BY <3>3, <3>13
    <2>5. CASE Reply(nonce) # "ok"
      <3>1. CalmNonces'
        BY <1>0, <2>0, <2>1, <2>2, <2>5 DEF CalmNonces, NotSending, Upto
      <3>2. CalmCalls'
        BY <2>0, <2>5 DEF CalmCalls, Done, Sent, Oldest
      <3> QED
        BY <3>1, <3>2
    <2> QED
      BY <2>4, <2>5
  <1>4. CASE DidBroadcast
    <2>0. /\ at = "sent" /\ answer = "ok" /\ at' = "run" /\ answer' = "none"
          /\ nonce' = nonce + 1 /\ ops' = Tail(ops) /\ raised' = FALSE
          /\ UNCHANGED <<account, mempool, issued>>
      BY <1>4 DEF DidBroadcast, Answered
    <2>1. ops # <<>>
      BY <2>0 DEF CallerInv, CallerTypeOK
    <2>2. Sent' = Sent /\ Upto' = Upto
      BY <1>0, <2>0, <2>1, TailNewest DEF Sent, Oldest, Upto
    <2>3. CalmNonces'
      BY <1>0, <2>0, <2>2 DEF CalmNonces, NotSending
    <2>4. CalmCalls'
      BY <2>0, <2>2 DEF CalmCalls, Done
    <2> QED
      BY <2>3, <2>4
  <1>5. CASE DidChain
    <2>1. CalmNonces'
      BY <1>0, <1>5 DEF DidChain, Answered, CalmNonces, NotSending, Upto
    <2>2. CalmCalls'
      BY <1>5 DEF DidChain, Answered, CalmCalls, Done, Sent, Oldest
    <2> QED
      BY <2>1, <2>2
  <1>6. CASE Finish
    <2>0. /\ at = "run" /\ at' = "idle" /\ ops = <<>> /\ ops' = <<>> /\ raised' = FALSE
          /\ nonce <= last /\ UNCHANGED <<account, mempool, issued>>
      BY <1>6 DEF Finish, Draining, Forget
    <2>1. last <= account /\ Upto = nonce
      BY <2>0 DEF CallerInv, Behind, Upto
    <2>2. DOMAIN mempool = {}
      <3> SUFFICES ASSUME NEW n \in DOMAIN mempool PROVE FALSE
        OBVIOUS
      <3>1. account <= n /\ n < nonce /\ n \in Nat
        BY <1>0, <2>0, <2>1 DEF CalmNonces
      <3> QED
        BY <1>0, <2>0, <2>1, <3>1
    <2>3. CalmNonces'
      BY <2>0, <2>2 DEF CalmNonces, NotSending
    <2>4. Sent' = Sent
      BY <2>0 DEF Sent, Oldest
    <2>5. CalmCalls'
      BY <2>0, <2>4 DEF CalmCalls, Done
    <2> QED
      BY <2>3, <2>5
  <1>7. ~DidConflict /\ ~DidRefuse
    BY DEF DidConflict, DidRefuse, Answered, CalmNonces
  <1>8. ~Environment
    BY DEF Environment, BroadcastThrows, CallbackThrows, CallerCrash
  <1> QED
    BY <1>1, <1>2, <1>3, <1>4, <1>5, <1>6, <1>7, <1>8 DEF CallerActs, Call
-----------------------------------------------------------------------------
(* The relayer.                                                            *)

RowTyped(row) == /\ row.result \in {"ok", "error", "settled"}
                 /\ row.tx = None \/ row.tx \in Nat \X (1..issued)

(* Steps that leave the caller and the contract alone: rows are deleted,   *)
(* or written for indexed places, and a round goes on.                     *)
LEMMA QuietStep ==
    ASSUME RelayerInv, UNCHANGED <<callerVars, calls, contract>>,
           proofs' \subseteq Validators \X Orders, txErrors' \subseteq Places,
           \A p \in Places :
              \/ submitted'[p] \in {None, submitted[p]}
              \/ p \in indexed /\ submitted'[p] = [result |-> "settled", tx |-> None],
           RoundInv', at # "idle" => round' = NoRound,
           \A i \in 1..Len(round'.inputs) : faults = 0 /\ drops = 0 =>
              PlaceOf[round'.inputs[i].order] \notin indexed,
           CommandShape', cli'.tool \in {"none", "check", "back-fill"}
    PROVE  RelayerInv'
  <1> USE DEF RelayerInv, contract
  <1>0. /\ UNCHANGED <<account, mempool, at, ops, nonce, last, limit, raised, answer, issued>>
        /\ UNCHANGED <<faults, drops>>
    BY DEF callerVars, node, loop, bounds
  <1>1. CallerInv'
    BY StutterInv
  <1>2. round'.at \in {"idle", "read", "check"}
    BY DEF RoundInv, Rounds
  <1>3. ASSUME NEW p \in Places, submitted'[p] # None
        PROVE  /\ RowTyped(submitted'[p])
               /\ submitted'[p].result = "settled" => p \in indexed
               /\ submitted'[p].result = "ok" => submitted'[p] = submitted[p]
    <2>1. CASE submitted'[p] = submitted[p]
      BY <1>3, <2>1 DEF TypeOK, RowTyped, SettledIsIndexed, Recorded
    <2>2. CASE p \in indexed /\ submitted'[p] = [result |-> "settled", tx |-> None]
      BY <2>2 DEF RowTyped
    <2> QED
      BY <1>3, <2>1, <2>2
  <1>4. TypeOK'
    <2>1. \A p \in Places : submitted'[p] = None \/
            (/\ submitted'[p].result \in {"ok", "error", "settled"}
             /\ submitted'[p].tx = None \/ submitted'[p].tx \in Nat \X (1..issued'))
      BY <1>0, <1>3 DEF RowTyped
    <2>2. CallerTypeOK'
      BY <1>1 DEF CallerInv
    <2> QED
      BY <1>0, <1>2, <2>1, <2>2 DEF TypeOK
  <1>5. SettledIsIndexed'
    BY <1>3 DEF SettledIsIndexed, Recorded
  <1>6. \A n, op : SentAs(n, op)' = SentAs(n, op)
    BY <1>0 DEF SentAs
  <1>7. AcceptedIsSent'
    BY <1>0, <1>6 DEF AcceptedIsSent
  <1>8. RecordedIsSent'
    BY <1>0, <1>3 DEF RecordedIsSent, Recorded
  <1>9. Calm'
    <2> SUFFICES ASSUME faults = 0, drops = 0
                 PROVE  CalmNonces' /\ CalmCalls' /\ CalmContract'
      BY <1>0 DEF Calm
    <2>1. CalmNonces'
      BY <1>0 DEF Calm, CalmNonces, NotSending, Upto
    <2>2. CalmCalls'
      BY <1>0 DEF Calm, CalmCalls, Done, Sent, Oldest
    <2>3. CalmContract'
      BY <1>0 DEF Calm, CalmContract, InputPlace
    <2> QED
      BY <2>1, <2>2, <2>3
  <1> QED
    BY <1>1, <1>4, <1>5, <1>7, <1>8, <1>9

(* The caller's own steps; a row is written while a call is answered.      *)
LEMMA CallerActStep ==
    ASSUME RelayerInv, CallerActs, CallerInv', [Next]_vars,
           UNCHANGED <<proofs, txErrors, calls, contract, round, cli>>,
           NEW result \in {"ok", "error"}, result = "ok" => answer = "ok",
           \A p \in Places :
              \/ submitted'[p] = submitted[p]
              \/ at = "sent" /\ submitted'[p] = [result |-> result, tx |-> <<nonce, Head(ops)>>]
    PROVE  RelayerInv'
  <1> USE DEF RelayerInv, contract
  <1>0. issued' = issued /\ account' = account /\ (at' # "idle" => at # "idle")
    BY DEF CallerActs, Call, Environment, ReadStartingNonce, ReadExecutedNonce, Wait, Broadcast,
       DidBroadcast, DidConflict, DidChain, DidRefuse, Drain, Finish, BroadcastThrows,
       CallbackThrows, CallerCrash, Answered, Drop, Forget, Sending, Draining, node
  <1>1. ASSUME NEW p \in Places, submitted'[p] # submitted[p]
        PROVE  /\ at = "sent" /\ submitted'[p].result = result
               /\ submitted'[p].tx = <<nonce, Head(ops)>>
               /\ submitted'[p].tx \in Nat \X (1..issued)
    <2>1. at = "sent" /\ submitted'[p] = [result |-> result, tx |-> <<nonce, Head(ops)>>]
      BY <1>1
    <2>2. nonce \in Nat /\ ops \in Seq(1..issued) /\ ops # <<>> /\ issued \in Nat
      BY <2>1 DEF CallerInv, CallerTypeOK
    <2>3. Head(ops) \in 1..issued
      BY <2>2, TailNewest
    <2> QED
      BY <2>1, <2>2, <2>3
  <1>2. TypeOK'
    <2>1. \A p \in Places : submitted'[p] = None \/
            (/\ submitted'[p].result \in {"ok", "error", "settled"}
             /\ submitted'[p].tx = None \/ submitted'[p].tx \in Nat \X (1..issued'))
      BY <1>0, <1>1 DEF TypeOK
    <2>2. CallerTypeOK'
      BY DEF CallerInv
    <2> QED
      BY <1>0, <2>1, <2>2 DEF TypeOK
  <1>3. RoundInv' /\ CommandShape'
    BY DEF RoundInv, InputPlace, CommandShape
  <1>4. SettledIsIndexed'
    BY <1>1 DEF SettledIsIndexed, Recorded
  <1>5. AcceptedIsSent'
    BY AcceptedKept
  <1>6. RecordedIsSent'
    <2> SUFFICES ASSUME drops' = 0, Strategy = "increase", NEW p \in Places,
                        submitted'[p] # None, submitted'[p].result = "ok"
                 PROVE  SentAs(submitted[p].tx[1], submitted[p].tx[2])'
      BY DEF RecordedIsSent, Recorded, SentAs
    <2>1. drops = 0
      BY DEF CallerActs, Call, Environment, ReadStartingNonce, ReadExecutedNonce, Wait, Broadcast,
           DidBroadcast, DidConflict, DidChain, DidRefuse, Drain, Finish, BroadcastThrows,
           CallbackThrows, CallerCrash, Answered, Drop, Fault, bounds, CallerInv, CallerTypeOK
    <2>2. SentAs(submitted'[p].tx[1], submitted'[p].tx[2])
      <3>1. CASE submitted'[p] = submitted[p]
        BY <2>1, <3>1 DEF RecordedIsSent, Recorded, SentAs
      <3>2. CASE submitted'[p] # submitted[p]
        <4>1. at = "sent" /\ answer = "ok" /\ submitted'[p].tx = <<nonce, Head(ops)>>
          BY <1>1, <3>2
        <4> QED
          BY <2>1, <4>1 DEF AcceptedIsSent
      <3> QED
        BY <3>1, <3>2
    <2>3. \A n, op : SentAs(n, op) => SentAs(n, op)'
      BY SentStaysSent
    <2> QED
      BY <2>2, <2>3 DEF SentAs
  <1>7. Calm'
    <2> SUFFICES ASSUME faults' = 0, drops' = 0
                 PROVE  CalmNonces' /\ CalmCalls' /\ CalmContract'
      BY DEF Calm
    <2>1. faults = 0 /\ drops = 0 /\ ~Fault /\ ~Drop
      BY CalmBefore
    <2>2. \A e \in executed : e.op \in Nat
      BY DEF TypeOK
    <2>3. CalmNonces' /\ CalmCalls'
      BY <2>1, <2>2, CalmCaller DEF Calm
    <2>4. CalmContract'
      BY <1>0, <2>1 DEF Calm, CalmContract, InputPlace
    <2> QED
      BY <2>3, <2>4
  <1> QED
    BY <1>2, <1>3, <1>4, <1>5, <1>6, <1>7

(* A block executes a call.  In calm weather its signatures are unused,    *)
(* for the call was not executed before and shares no place with another.  *)
LEMMA ExecuteCallStep ==
    ASSUME RelayerInv, ExecuteCall, CallerInv'
    PROVE  RelayerInv'
  <1> USE DEF RelayerInv
  <1> DEFINE op == mempool[account]
  <1> DEFINE ok == Signatures(calls[op]) \cap used = {}
  <1> DEFINE e == [nonce |-> account, op |-> op, ok |-> ok]
  <1>0. /\ Execute /\ executed' = executed \cup {e}
        /\ UNCHANGED <<at, ops, nonce, last, limit, raised, answer, issued, faults, drops>>
        /\ UNCHANGED <<proofs, txErrors, submitted, calls, round, cli>>
        /\ indexed \subseteq indexed'
        /\ account' = account + 1 /\ account \in DOMAIN mempool
    BY DEF ExecuteCall, Execute, loop, bounds, tables
  <1>1. /\ DOMAIN mempool' = DOMAIN mempool \ {account}
        /\ \A n \in DOMAIN mempool' : mempool'[n] = mempool[n]
    BY <1>0 DEF Execute, Without
  <1>2. /\ account \in Nat /\ op \in 1..issued /\ issued \in Nat
        /\ DOMAIN mempool \subseteq Nat /\ nonce \in Nat
    BY <1>0 DEF CallerInv, CallerTypeOK
  <1>3. calls[op] \in SUBSET Inputs
    BY <1>2 DEF TypeOK
  <1>4. e.nonce = account /\ e.op = op /\ e.ok = ok
    OBVIOUS
  <1>5. IF ok THEN used' = used \cup Signatures(calls[op])
                   /\ indexed' = indexed \cup PlacesOf(calls[op])
              ELSE UNCHANGED <<used, indexed>>
    BY DEF ExecuteCall
  <1>6. indexed' \subseteq Places /\ used' \subseteq Orders \X Validators
    <2>1. PlacesOf(calls[op]) \subseteq Places
      BY <1>3, RelayerConstants DEF PlacesOf, Places, Range, Inputs
    <2>2. Signatures(calls[op]) \subseteq Orders \X Validators
      BY <1>3 DEF Signatures, Inputs
    <2> QED
      BY <1>5, <2>1, <2>2 DEF TypeOK
  <1> HIDE DEF op, ok, e
  <1>7. TypeOK'
    <2>1. \A x \in executed' : x.nonce < account' /\ x.op \in 1..issued'
      <3> SUFFICES ASSUME NEW x \in executed' PROVE x.nonce < account' /\ x.op \in 1..issued'
        OBVIOUS
      <3>1. CASE x \in executed
        BY <1>0, <1>2, <3>1 DEF TypeOK, Executions
      <3>2. CASE x = e
        BY <1>0, <1>2, <1>4, <3>2
      <3> QED
        BY <1>0, <3>1, <3>2
    <2>2. CallerTypeOK'
      BY DEF CallerInv
    <2> QED
      BY <1>0, <1>6, <2>1, <2>2 DEF TypeOK
  <1>t. executed' \subseteq Executions
    <2>1. ok \in BOOLEAN
      BY DEF ok
    <2>2. account \in Nat /\ op \in Nat
      BY <1>2
    <2>3. e \in Executions
      BY <2>1, <2>2 DEF Executions, e
    <2> QED
      BY <1>0, <2>3
  <1>8. RoundInv' /\ CommandShape' /\ SettledIsIndexed'
    BY <1>0 DEF RoundInv, InputPlace, CommandShape, SettledIsIndexed, Recorded
  <1>9. \A n, x : SentAs(n, x) => SentAs(n, x)'
    BY <1>0, ExecutedStaysSent DEF e, op
  <1>10. AcceptedIsSent'
    BY <1>0, <1>9 DEF AcceptedIsSent
  <1>11. RecordedIsSent'
    <2> SUFFICES ASSUME drops = 0, Strategy = "increase", NEW p \in Recorded,
                        submitted[p].result = "ok"
                 PROVE  SentAs(submitted[p].tx[1], submitted[p].tx[2])'
      BY <1>0 DEF RecordedIsSent, Recorded, SentAs
    <2>1. PICK n, x : n = submitted[p].tx[1] /\ x = submitted[p].tx[2]
      OBVIOUS
    <2>2. SentAs(n, x)
      BY <2>1 DEF RecordedIsSent, SentAs
    <2>3. SentAs(n, x)'
      BY <1>9, <2>2
    <2> QED
      BY <1>0, <2>1, <2>3 DEF SentAs
  <1>12. Calm'
    <2> SUFFICES ASSUME faults = 0, drops = 0
                 PROVE  CalmNonces' /\ CalmCalls' /\ CalmContract'
      BY <1>0 DEF Calm
    <2>0. CalmNonces /\ CalmCalls /\ CalmContract
      BY DEF Calm
    <2>1. at \in {"run", "sent"} /\ account < Upto /\ Upto \in Nat
      BY <1>0, <1>2, <2>0 DEF CalmNonces, NotSending, CallerInv, CallerTypeOK, Upto
    <2>2. CalmNonces'
      <3>1. Upto' = Upto
        BY <1>0 DEF Upto
      <3>2. \A n \in DOMAIN mempool' : account' <= n /\ n < Upto
        BY <1>0, <1>1, <1>2, <2>0, <2>1 DEF CalmNonces
      <3> QED
        BY <1>0, <1>2, <2>0, <2>1, <3>1, <3>2 DEF CalmNonces, NotSending
    <2>3. Sent' = Sent
      BY <1>0 DEF Sent, Oldest
    <2>4. \A x : Done(x)' <=> Done(x) \/ x = op
      BY <1>0, <1>4 DEF Done
    <2>5. CalmCalls'
      <3>1. \A m, n \in DOMAIN mempool' : mempool'[m] = mempool'[n] => m = n
        BY <1>1, <2>0 DEF CalmCalls
      <3>2. \A n \in DOMAIN mempool' : mempool'[n] # op /\ ~Done(mempool'[n])
        BY <1>0, <1>1, <2>0 DEF CalmCalls, op
      <3>3. ASSUME NEW x \in 1..Sent
            PROVE  Done(x)' \/ \E n \in DOMAIN mempool' : mempool'[n] = x
        <4>1. CASE Done(x)
          BY <2>4, <4>1
        <4>2. CASE \E n \in DOMAIN mempool : mempool[n] = x
          BY <1>1, <2>4, <4>2 DEF op
        <4> QED
          BY <2>0, <4>1, <4>2 DEF CalmCalls
      <3>4. op <= Sent
        BY <1>0 DEF CallerInv, Newest, op
      <3>5. \A x \in executed' : x.op <= Sent
        BY <1>0, <1>4, <2>0, <3>4 DEF CalmCalls
      <3>6. \A n \in DOMAIN mempool' : ~Done(mempool[n])'
        BY <2>4, <3>2 DEF Done
      <3> QED
        BY <2>3, <3>1, <3>3, <3>5, <3>6 DEF CalmCalls
    <2>6. ok
      <3> SUFFICES ASSUME NEW s \in Signatures(calls[op]), s \in used
                   PROVE  FALSE
        BY DEF ok
      <3>1. PICK x \in executed : s \in Signatures(calls[x.op])
        BY <2>0 DEF CalmContract
      <3>2. PICK i \in calls[op] : s \in {i.order} \X i.signers
        BY DEF Signatures
      <3>3. PICK j \in calls[x.op] : s \in {j.order} \X j.signers
        BY <3>1 DEF Signatures
      <3>4. i.order = j.order
        BY <3>2, <3>3
      <3>5. PlaceOf[i.order] \in PlacesOf(calls[op]) \cap PlacesOf(calls[x.op])
        BY <3>4 DEF PlacesOf
      <3>6. x.op \in 1..issued
        BY DEF TypeOK
      <3>7. x.op = op
        BY <1>2, <2>0, <3>5, <3>6 DEF CalmContract
      <3>8. ~Done(op)
        BY <1>0, <2>0 DEF CalmCalls, op
      <3> QED
        BY <3>7, <3>8 DEF Done
    <2>7. CalmContract'
      <3>1. \A x \in executed' : x.ok /\ PlacesOf(calls[x.op]) \subseteq indexed'
        BY <1>0, <1>4, <1>5, <2>0, <2>6 DEF CalmContract
      <3>2. used' \subseteq UNION {Signatures(calls[x.op]) : x \in executed'}
        BY <1>0, <1>4, <1>5, <2>0, <2>6 DEF CalmContract
      <3>3. round.inputs = <<>>
        BY <2>1 DEF TypeOK, NoRound
      <3> QED
        BY <1>0, <2>0, <3>1, <3>2, <3>3 DEF CalmContract
    <2> QED
      BY <2>2, <2>5, <2>7
  <1> QED
    BY <1>7, <1>t, <1>8, <1>10, <1>11, <1>12

LEMMA EmptyRound ==
    /\ NoRound \in Rounds /\ NoRound.at = "idle" /\ NoRound.todo = {}
    /\ NoRound.inputs = <<>> /\ NoRound.found = {} /\ Len(NoRound.inputs) = 0
    /\ NoRound.unread = {}
  <1>1. <<>> \in Seq(Inputs)
    BY EmptyQueue
  <1> QED
    BY <1>1 DEF NoRound, Rounds

LEMMA NoRoundInv ==
    ASSUME round' = NoRound
    PROVE  RoundInv'
  BY EmptyRound DEF RoundInv

LEMMA Concatenated ==
    ASSUME NEW S, NEW s \in Seq(S), NEW t \in Seq(S)
    PROVE  /\ s \o t \in Seq(S) /\ Len(s \o t) = Len(s) + Len(t)
           /\ \A i \in 1..Len(s) : (s \o t)[i] = s[i]
           /\ \A i \in 1..Len(t) : (s \o t)[Len(s) + i] = t[i]
  OBVIOUS

(* A round hands its calls over.  In calm weather whatever was issued      *)
(* before is executed by now, so that its places were found indexed.       *)
LEMMA FlushStep ==
    ASSUME RelayerInv, CallerInv', SubmitChunks, Flush(Len(Chunks(round.inputs))),
           calls' = calls \o Chunks(round.inputs)
    PROVE  RelayerInv'
  <1> USE DEF RelayerInv
  <1> DEFINE chunks == Chunks(round.inputs)
  <1> DEFINE k == Len(chunks)
  <1>0. /\ at = "idle" /\ at' = "start" /\ ops' = [i \in 1..k |-> issued + i]
        /\ issued' = issued + k /\ k > 0
        /\ UNCHANGED <<account, mempool, nonce, last, limit, raised, answer, faults, drops>>
        /\ UNCHANGED <<proofs, txErrors, submitted, indexed, used, executed, cli>>
        /\ round' = NoRound
    BY DEF Flush, SubmitChunks, node, bounds, tables, contract
  <1>1. /\ chunks \in Seq(SUBSET Inputs) /\ k \in Nat
        /\ \A i \in 1..k : \A x \in chunks[i] :
              \E m \in 1..Len(round.inputs) :
                 x = round.inputs[m] /\ (m - 1) \div ChunkSize = i - 1
    BY ChunksOf DEF RoundInv, Rounds
  <1> HIDE DEF chunks, k
  <1>2. /\ calls \in Seq(SUBSET Inputs) /\ Len(calls) = issued /\ issued \in Nat
    BY DEF TypeOK, CallerInv, CallerTypeOK
  <1>3. /\ calls' \in Seq(SUBSET Inputs) /\ Len(calls') = issued'
        /\ \A i \in 1..issued : calls'[i] = calls[i]
        /\ \A i \in 1..k : calls'[issued + i] = chunks[i]
    <2>1. calls' = calls \o chunks /\ Len(chunks) = k
      BY DEF chunks, k
    <2>2. /\ calls' \in Seq(SUBSET Inputs) /\ Len(calls') = Len(calls) + Len(chunks)
          /\ \A i \in 1..Len(calls) : calls'[i] = calls[i]
          /\ \A i \in 1..Len(chunks) : calls'[Len(calls) + i] = chunks[i]
      <3>1. chunks \in Seq(SUBSET Inputs) /\ calls \in Seq(SUBSET Inputs)
        BY <1>1, <1>2
      <3>2. \A c \in Seq(SUBSET Inputs) : c = calls \o chunks =>
                /\ Len(c) = Len(calls) + Len(chunks)
                /\ \A i \in 1..Len(calls) : c[i] = calls[i]
                /\ \A i \in 1..Len(chunks) : c[Len(calls) + i] = chunks[i]
        BY <3>1, Concatenated
      <3>3. calls' \in Seq(SUBSET Inputs)
        BY <2>1, <3>1, Concatenated
      <3> QED
        BY <2>1, <3>2, <3>3
    <2> QED
      BY <1>0, <1>2, <2>1, <2>2
  <1>4. TypeOK'
    <2>1. CallerTypeOK'
      BY DEF CallerInv
    <2>2. \A p \in Places : submitted'[p] = None \/
            (/\ submitted'[p].result \in {"ok", "error", "settled"}
             /\ submitted'[p].tx = None \/ submitted'[p].tx \in Nat \X (1..issued'))
      BY <1>0, <1>1, <1>2 DEF TypeOK
    <2>3. \A e \in executed' : e.nonce < account' /\ e.op \in 1..issued'
      BY <1>0, <1>1, <1>2 DEF TypeOK
    <2>4. round'.at \in {"idle", "check"}
      BY <1>0, EmptyRound
    <2> QED
      BY <1>0, <1>3, <2>1, <2>2, <2>3, <2>4 DEF TypeOK
  <1>5. executed' \subseteq Executions /\ RoundInv' /\ CommandShape' /\ SettledIsIndexed'
    BY <1>0, NoRoundInv DEF CommandShape, SettledIsIndexed, Recorded
  <1>6. AcceptedIsSent' /\ RecordedIsSent'
    BY <1>0 DEF AcceptedIsSent, RecordedIsSent, Recorded
  <1>7. Calm'
    <2> SUFFICES ASSUME faults = 0, drops = 0
                 PROVE  CalmNonces' /\ CalmCalls' /\ CalmContract'
      BY <1>0 DEF Calm
    <2>0. CalmNonces /\ CalmCalls /\ CalmContract
      BY DEF Calm
    <2>1. ops = <<>> /\ DOMAIN mempool = {}
      BY <1>0, <2>0 DEF CalmNonces, NotSending
    <2>2. Sent = issued /\ Sent' = issued
      BY <1>0, <1>1, <1>2, <2>1 DEF Sent, Oldest
    <2>3. CalmNonces'
      BY <1>0, <2>0, <2>1 DEF CalmNonces, NotSending
    <2>4. CalmCalls'
      BY <1>0, <2>0, <2>2 DEF CalmCalls, Done
    <2>5. \A e \in executed : e.op \in 1..issued /\ calls'[e.op] = calls[e.op]
      BY <1>3 DEF TypeOK
    <2>6. ASSUME NEW i \in 1..issued
          PROVE  PlacesOf(calls'[i]) \subseteq indexed
      <3>1. PICK e \in executed : e.op = i
        BY <2>0, <2>1, <2>2 DEF CalmCalls, Done
      <3> QED
        BY <2>0, <2>5, <3>1 DEF CalmContract
    <2>7. ASSUME NEW i \in 1..k
          PROVE  \A p \in PlacesOf(calls'[issued + i]) :
                    \E m \in 1..Len(round.inputs) :
                       p = InputPlace(m) /\ (m - 1) \div ChunkSize = i - 1
      <3> TAKE p \in PlacesOf(calls'[issued + i])
      <3>1. PICK x \in chunks[i] : p = PlaceOf[x.order]
        BY <1>3 DEF PlacesOf
      <3>2. PICK m \in 1..Len(round.inputs) :
               x = round.inputs[m] /\ (m - 1) \div ChunkSize = i - 1
        BY <1>1
      <3> QED
        BY <3>1, <3>2 DEF InputPlace
    <2>8. ASSUME NEW i \in 1..issued', NEW j \in 1..issued',
                 NEW p \in PlacesOf(calls'[i]) \cap PlacesOf(calls'[j])
          PROVE  i = j
      <3>1. CASE i \in 1..issued /\ j \in 1..issued
        BY <1>3, <2>0, <3>1 DEF CalmContract
      <3>2. ASSUME NEW a \in 1..issued, NEW b \in 1..k,
                   p \in PlacesOf(calls'[a]), p \in PlacesOf(calls'[issued + b])
            PROVE  FALSE
        <4>1. p \in indexed
          BY <2>6, <3>2
        <4>2. PICK m \in 1..Len(round.inputs) : p = InputPlace(m)
          BY <2>7, <3>2
        <4> QED
          BY <2>0, <4>1, <4>2 DEF CalmContract
      <3>3. ASSUME NEW a \in 1..k, NEW b \in 1..k,
                   p \in PlacesOf(calls'[issued + a]), p \in PlacesOf(calls'[issued + b])
            PROVE  a = b
        <4>1. PICK m \in 1..Len(round.inputs) :
                 p = InputPlace(m) /\ (m - 1) \div ChunkSize = a - 1
          BY <2>7, <3>3
        <4>2. PICK n \in 1..Len(round.inputs) :
                 p = InputPlace(n) /\ (n - 1) \div ChunkSize = b - 1
          BY <2>7, <3>3
        <4>3. m = n
          BY <4>1, <4>2 DEF RoundInv
        <4>4. a - 1 = b - 1
          BY <4>1, <4>2, <4>3
        <4> QED
          BY <1>1, <4>4
      <3>4. ASSUME NEW a \in 1..issued', a \notin 1..issued
            PROVE  a - issued \in 1..k /\ a = issued + (a - issued)
        BY <1>0, <1>1, <1>2, <3>4
      <3>5. CASE i \in 1..issued /\ j \notin 1..issued
        BY <3>2, <3>4, <3>5
      <3>6. CASE i \notin 1..issued /\ j \in 1..issued
        BY <3>2, <3>4, <3>6
      <3>7. CASE i \notin 1..issued /\ j \notin 1..issued
        <4>1. /\ i - issued \in 1..k /\ i = issued + (i - issued)
              /\ j - issued \in 1..k /\ j = issued + (j - issued)
          BY <3>4, <3>7
        <4>2. i - issued = j - issued
          BY <3>3, <4>1
        <4> QED
          BY <1>2, <4>1, <4>2
      <3> QED
        BY <3>1, <3>5, <3>6, <3>7
    <2>9. CalmContract'
      <3>1. \A e \in executed' : e.ok /\ PlacesOf(calls'[e.op]) \subseteq indexed'
        BY <1>0, <2>0, <2>5 DEF CalmContract
      <3>2. used' \subseteq UNION {Signatures(calls'[e.op]) : e \in executed'}
        BY <1>0, <2>0, <2>5 DEF CalmContract
      <3>3. \A i, j \in 1..issued' : PlacesOf(calls'[i]) \cap PlacesOf(calls'[j]) # {} => i = j
        BY <2>8
      <3>4. \A i \in 1..Len(round'.inputs) : FALSE
        BY <1>0, EmptyRound
      <3> QED
        BY <3>1, <3>2, <3>3, <3>4 DEF CalmContract
    <2> QED
      BY <2>3, <2>4, <2>9
  <1> QED
    BY <1>4, <1>5, <1>6, <1>7
-----------------------------------------------------------------------------
(* The steps of a round.                                                   *)

LEMMA GetPendingStep ==
    ASSUME RelayerInv, GetPendingSubmitTx
    PROVE  RelayerInv'
  <1>0. /\ round' = [NoRound EXCEPT !.at = "read", !.unread = Pending]
        /\ UNCHANGED <<callerVars, calls, contract, proofs, txErrors, submitted, cli>>
        /\ at = "idle"
    BY DEF GetPendingSubmitTx, tables
  <1>1. /\ round'.todo = {} /\ round'.inputs = <<>> /\ round'.found = {}
        /\ round'.at = "read" /\ Len(round'.inputs) = 0
    BY <1>0 DEF NoRound
  <1>2. proofs \subseteq Validators \X Orders /\ txErrors \subseteq Places
    BY DEF RelayerInv, TypeOK
  <1>3. Pending \in SUBSET Places
    BY DEF Pending
  <1>4. round' \in Rounds
    BY <1>0, <1>3, EmptyRound DEF Rounds, NoRound
  <1>5. RoundInv'
    BY <1>1, <1>4 DEF RoundInv
  <1>6. CommandShape' /\ cli'.tool \in {"none", "check", "back-fill"}
    BY <1>0 DEF RelayerInv, CommandShape, TypeOK
  <1> QED
    BY <1>0, <1>1, <1>2, <1>5, <1>6, QuietStep

LEMMA ReadProofsStep ==
    ASSUME RelayerInv, NEW p, ReadProofs(p)
    PROVE  RelayerInv'
  <1> DEFINE row == <<p, ProofsAt(p)>>
             left == round.unread \ {p}
  <1>0. /\ round' = [round EXCEPT !.at = IF round.unread = {p} THEN "check" ELSE "read",
                                  !.unread = left, !.todo = @ \cup {row}]
        /\ UNCHANGED <<callerVars, calls, contract, proofs, txErrors, submitted, cli>>
        /\ p \in round.unread
    BY DEF ReadProofs, tables
  <1>1. /\ round \in Rounds /\ round.unread \subseteq Places /\ round.inputs = <<>>
        /\ round.found \subseteq indexed /\ Len(round.inputs) = 0
    BY <1>0 DEF RelayerInv, RoundInv, Rounds
  <1>2. proofs \subseteq Validators \X Orders /\ txErrors \subseteq Places
    BY DEF RelayerInv, TypeOK
  <1>3. row \in Places \X SUBSET (Validators \X Orders) /\ row[1] = p /\ row[2] = ProofsAt(p)
    <2>1. ProofsAt(p) \in SUBSET (Validators \X Orders)
      BY <1>2 DEF ProofsAt
    <2> HIDE DEF ProofsAt
    <2> QED
      BY <1>0, <1>1, <2>1
  <1>4. \A q \in row[2] : PlaceOf[q[2]] = row[1]
    BY <1>3 DEF ProofsAt
  <1> HIDE DEF row, left
  <1>5. left \subseteq round.unread /\ p \notin left /\ (round.unread = {p} => left = {})
    BY DEF left
  <1>6. /\ round'.todo = round.todo \cup {row} /\ round'.unread = left
        /\ round'.inputs = <<>> /\ round'.found = round.found /\ Len(round'.inputs) = 0
        /\ round'.at = "check" => round.unread = {p}
    BY <1>0, <1>1 DEF Rounds
  <1>7. round' \in Rounds
    <2>1. /\ (IF round.unread = {p} THEN "check" ELSE "read") \in {"idle", "read", "check"}
          /\ left \in SUBSET Places
          /\ round.todo \cup {row} \in SUBSET (Places \X SUBSET (Validators \X Orders))
      BY <1>1, <1>3, <1>5 DEF Rounds
    <2> QED
      BY <1>0, <1>1, <2>1 DEF Rounds
  <1>8. /\ \A r \in round'.todo : \A q \in r[2] : PlaceOf[q[2]] = r[1]
        /\ \A r, other \in round'.todo : r[1] = other[1] => r = other
        /\ \A r \in round'.todo : r[1] \notin left
    <2>1. /\ \A r \in round.todo : \A q \in r[2] : PlaceOf[q[2]] = r[1]
          /\ \A r, other \in round.todo : r[1] = other[1] => r = other
          /\ \A r \in round.todo : r[1] \notin round.unread
      BY DEF RelayerInv, RoundInv
    <2> QED
      BY <1>0, <1>3, <1>4, <1>5, <1>6, <2>1
  <1>9. indexed' = indexed
    BY <1>0 DEF contract
  <1>10. RoundInv'
    BY <1>1, <1>5, <1>6, <1>7, <1>8, <1>9 DEF RoundInv
  <1>11. CommandShape' /\ cli'.tool \in {"none", "check", "back-fill"}
    BY <1>0 DEF RelayerInv, CommandShape, TypeOK
  <1>12. at = "idle"
    BY <1>0, EmptyRound DEF RelayerInv, TypeOK
  <1> QED
    BY <1>0, <1>2, <1>6, <1>10, <1>11, <1>12, QuietStep

LEMMA CheckPlaceStep ==
    ASSUME RelayerInv, NEW p, NEW qs, CheckPlace(p, qs)
    PROVE  RelayerInv'
  <1> DEFINE rest == round.todo \ {<<p, qs>>}
  <1>0. /\ UNCHANGED <<callerVars, calls, contract, proofs, txErrors, submitted, cli>>
        /\ <<p, qs>> \in round.todo /\ round.at = "check" /\ round'.at = "check"
        /\ round.unread = {} /\ round'.unread = {}
    <2>1. /\ UNCHANGED <<callerVars, calls, contract, proofs, txErrors, submitted, cli>>
          /\ <<p, qs>> \in round.todo /\ round.at = "check"
      BY DEF CheckPlace, tables
    <2>2. round \in Rounds /\ round.unread = {}
      BY <2>1 DEF RelayerInv, RoundInv
    <2>3. round'.at = round.at /\ round'.unread = round.unread
      BY <2>2 DEF CheckPlace, Rounds
    <2> QED
      BY <2>1, <2>2, <2>3
  <1>1. round \in Rounds /\ round.inputs \in Seq(Inputs) /\ Len(round.inputs) \in Nat
    BY DEF RelayerInv, RoundInv, Rounds
  <1>2. /\ p \in Places /\ qs \subseteq Validators \X Orders
        /\ \A q \in qs : PlaceOf[q[2]] = p
        /\ \A row \in rest : row[1] # p
        /\ \A i \in 1..Len(round.inputs) : InputPlace(i) # p
    <2>1. <<p, qs>> \in Places \X SUBSET (Validators \X Orders)
      BY <1>0, <1>1 DEF Rounds
    <2> QED
      BY <1>0, <2>1 DEF RelayerInv, RoundInv
  <1>3. at = "idle"
    BY <1>0 DEF RelayerInv, TypeOK, NoRound
  <1>4. CommandShape' /\ cli'.tool \in {"none", "check", "back-fill"}
    BY <1>0 DEF RelayerInv, CommandShape, TypeOK
  <1>5. proofs \subseteq Validators \X Orders /\ txErrors \subseteq Places
    BY DEF RelayerInv, TypeOK
  <1> HIDE DEF rest
  <1>6. /\ rest \subseteq round.todo /\ rest \subseteq Places \X SUBSET (Validators \X Orders)
    BY <1>1 DEF rest, Rounds
  <1>7. indexed' = indexed
    BY <1>0 DEF contract
  <1>8. CASE \/ p \in indexed /\ round' = [round EXCEPT !.todo = rest, !.found = @ \cup {p}]
             \/ round' = [round EXCEPT !.todo = rest]
             \/ round' = [round EXCEPT !.todo = rest, !.errors = @ \cup {p}]
    <2>1. /\ round'.todo = rest /\ round'.inputs = round.inputs
          /\ round'.found \subseteq indexed /\ round' \in Rounds
      <3>1. round.found \subseteq indexed
        BY DEF RelayerInv, RoundInv
      <3>2. CASE p \in indexed /\ round' = [round EXCEPT !.todo = rest, !.found = @ \cup {p}]
        BY <1>1, <1>2, <1>6, <3>1, <3>2 DEF Rounds
      <3>3. CASE round' = [round EXCEPT !.todo = rest]
        BY <1>1, <1>6, <3>1, <3>3 DEF Rounds
      <3>4. CASE round' = [round EXCEPT !.todo = rest, !.errors = @ \cup {p}]
        BY <1>1, <1>2, <1>6, <3>1, <3>4 DEF Rounds
      <3> QED
        BY <1>8, <3>2, <3>3, <3>4
    <2>2. RoundInv'
      BY <1>0, <1>6, <1>7, <2>1 DEF RelayerInv, RoundInv, InputPlace
    <2>3. \A i \in 1..Len(round'.inputs) : faults = 0 /\ drops = 0 =>
              PlaceOf[round'.inputs[i].order] \notin indexed
      BY <2>1 DEF RelayerInv, Calm, CalmContract, InputPlace
    <2> QED
      BY <1>0, <1>3, <1>4, <1>5, <2>2, <2>3, QuietStep
  <1>9. ASSUME p \notin indexed, NEW o \in Majority(qs),
               round' = [round EXCEPT !.todo = rest,
                   !.inputs = Append(@, [order |-> o, signers |-> Backers(o, qs)])]
        PROVE  RelayerInv'
    <2> DEFINE x == [order |-> o, signers |-> Backers(o, qs)]
    <2>1. PICK v \in qs : o = v[2]
      BY DEF Majority
    <2>2. o \in Orders /\ PlaceOf[o] = p
      BY <1>2, <2>1
    <2>3. x \in Inputs /\ PlaceOf[x.order] = p
      BY <2>2 DEF Inputs, Backers
    <2> HIDE DEF x
    <2>4. /\ round'.todo = rest /\ round'.inputs = Append(round.inputs, x)
          /\ round'.found = round.found
      BY <1>1, <1>9 DEF Rounds, x
    <2>5. /\ round'.inputs \in Seq(Inputs) /\ Len(round'.inputs) = Len(round.inputs) + 1
          /\ \A i \in 1..Len(round.inputs) : round'.inputs[i] = round.inputs[i]
          /\ round'.inputs[Len(round.inputs) + 1] = x
      BY <1>1, <2>3, <2>4
    <2>6. round' \in Rounds
      <3>1. Append(round.inputs, x) \in Seq(Inputs)
        BY <2>4, <2>5
      <3>2. round' = [round EXCEPT !.todo = rest, !.inputs = Append(round.inputs, x)]
        BY <1>9 DEF x
      <3> QED
        BY <1>1, <1>6, <3>1, <3>2 DEF Rounds
    <2>7. /\ \A i \in 1..Len(round.inputs) : PlaceOf[round'.inputs[i].order] = InputPlace(i)
          /\ PlaceOf[round'.inputs[Len(round.inputs) + 1].order] = p
      BY <2>3, <2>5 DEF InputPlace
    <2>8. ASSUME NEW i \in 1..Len(round'.inputs)
          PROVE  i \in 1..Len(round.inputs) \/ i = Len(round.inputs) + 1
      BY <1>1, <2>5
    <2>9. \A i, j \in 1..Len(round'.inputs) :
             PlaceOf[round'.inputs[i].order] = PlaceOf[round'.inputs[j].order] => i = j
      BY <1>2, <2>7, <2>8 DEF RelayerInv, RoundInv
    <2>10. \A i \in 1..Len(round'.inputs) : \A row \in rest :
             PlaceOf[round'.inputs[i].order] # row[1]
      BY <1>2, <1>6, <2>7, <2>8 DEF RelayerInv, RoundInv
    <2>11. RoundInv'
      <3>1. /\ \A row \in rest : \A q \in row[2] : PlaceOf[q[2]] = row[1]
            /\ \A row, other \in rest : row[1] = other[1] => row = other
            /\ round.found \subseteq indexed
        BY <1>6 DEF RelayerInv, RoundInv
      <3> QED
        BY <1>0, <1>7, <2>4, <2>6, <2>9, <2>10, <3>1 DEF RoundInv, InputPlace
    <2>12. \A i \in 1..Len(round'.inputs) : faults = 0 /\ drops = 0 =>
              PlaceOf[round'.inputs[i].order] \notin indexed
      BY <1>9, <2>7, <2>8 DEF RelayerInv, Calm, CalmContract
    <2> QED
      BY <1>0, <1>3, <1>4, <1>5, <2>11, <2>12, QuietStep
  <1> QED
    BY <1>8, <1>9 DEF CheckPlace, rest

(* The tables are written after the checks; an empty round ends.           *)
LEMMA WriteTablesStep ==
    ASSUME RelayerInv,
           SetAlreadyIndexed \/ SetTxsWithError \/ (SubmitChunks /\ UNCHANGED <<callerVars, calls>>)
    PROVE  RelayerInv'
  <1>0. /\ UNCHANGED <<callerVars, calls, contract, proofs, cli>>
        /\ round.at = "check" /\ indexed' = indexed
    BY DEF SetAlreadyIndexed, SetTxsWithError, SubmitChunks, Checked, tables, contract
  <1>1. /\ round \in Rounds /\ round.found \subseteq indexed
        /\ proofs \subseteq Validators \X Orders /\ txErrors \subseteq Places
    BY DEF RelayerInv, RoundInv, TypeOK
  <1>2. at = "idle"
    BY <1>0 DEF RelayerInv, TypeOK, NoRound
  <1>3. CommandShape' /\ cli'.tool \in {"none", "check", "back-fill"}
    BY <1>0 DEF RelayerInv, CommandShape, TypeOK
  <1>4. CASE SetAlreadyIndexed \/ SetTxsWithError
    <2>1. /\ round'.todo = round.todo /\ round'.inputs = round.inputs
          /\ round'.found \subseteq indexed /\ round' \in Rounds
          /\ round'.at = round.at /\ round'.unread = round.unread
      BY <1>1, <1>4 DEF SetAlreadyIndexed, SetTxsWithError, Rounds
    <2>2. RoundInv'
      BY <1>0, <2>1 DEF RelayerInv, RoundInv, InputPlace
    <2>3. \A i \in 1..Len(round'.inputs) : faults = 0 /\ drops = 0 =>
              PlaceOf[round'.inputs[i].order] \notin indexed
      BY <2>1 DEF RelayerInv, Calm, CalmContract, InputPlace
    <2>4. /\ txErrors' \subseteq Places
          /\ \A p \in Places :
              \/ submitted'[p] \in {None, submitted[p]}
              \/ p \in indexed /\ submitted'[p] = [result |-> "settled", tx |-> None]
      BY <1>1, <1>4 DEF SetAlreadyIndexed, SetTxsWithError, Rounds
    <2> QED
      BY <1>0, <1>1, <1>2, <1>3, <2>2, <2>3, <2>4, QuietStep
  <1>5. CASE SubmitChunks /\ UNCHANGED <<callerVars, calls>>
    <2>1. round' = NoRound /\ UNCHANGED <<txErrors, submitted>>
      BY <1>5 DEF SubmitChunks, tables
    <2>2. \A i \in 1..Len(round'.inputs) : FALSE
      BY <2>1, EmptyRound
    <2> QED
      BY <1>0, <1>1, <1>3, <2>1, <2>2, NoRoundInv, QuietStep
  <1> QED
    BY <1>4, <1>5

(* A proof is stored, or a command reads, asks or deletes.                 *)
LEMMA BesidesStep ==
    ASSUME RelayerInv,
           Command \/ \E v \in Validators, o \in Orders : StoreProof(v, o)
    PROVE  RelayerInv'
  <1>0. UNCHANGED <<callerVars, calls, contract, txErrors, round>> /\ indexed' = indexed
    BY CommandReads DEF ReadRows, AskRegistry, DeleteRows, StoreProof, tables, contract
  <1>1. proofs' \subseteq Validators \X Orders /\ txErrors' \subseteq Places
    <2>1. proofs \subseteq Validators \X Orders /\ txErrors \subseteq Places
      BY DEF RelayerInv, TypeOK
    <2>2. CASE Command
      <3>1. proofs' = proofs
        BY <2>2, CommandReads DEF ReadRows, AskRegistry, DeleteRows, tables
      <3> QED
        BY <1>0, <2>1, <3>1
    <2>3. ASSUME NEW v \in Validators, NEW o \in Orders, StoreProof(v, o)
          PROVE  proofs' \subseteq Validators \X Orders /\ txErrors' \subseteq Places
      <3>1. proofs' = proofs \cup {<<v, o>>}
        BY <2>3 DEF StoreProof
      <3> QED
        BY <1>0, <2>1, <3>1
    <2> QED
      BY <2>2, <2>3
  <1>2. \A p \in Places : submitted'[p] \in {None, submitted[p]}
    BY CommandReads DEF ReadRows, AskRegistry, DeleteRows, StoreProof, tables
  <1>3. RoundInv'
    BY <1>0 DEF RelayerInv, RoundInv, InputPlace
  <1>4. at # "idle" => round' = NoRound
    BY <1>0 DEF RelayerInv, TypeOK
  <1>5. \A i \in 1..Len(round'.inputs) : faults = 0 /\ drops = 0 =>
              PlaceOf[round'.inputs[i].order] \notin indexed
    BY <1>0 DEF RelayerInv, Calm, CalmContract, InputPlace
  <1>6. CommandShape' /\ cli'.tool \in {"none", "check", "back-fill"}
    <2>1. CommandShape /\ cli.tool \in {"none", "check", "back-fill"}
      BY DEF RelayerInv, TypeOK
    <2>2. CASE UNCHANGED cli
      BY <2>1, <2>2 DEF CommandShape
    <2>3. CASE AskRegistry
      BY <2>1, <2>3 DEF AskRegistry, CommandShape
    <2>4. CASE DeleteRows
      BY <2>4 DEF DeleteRows, NoCommand, CommandShape
    <2>5. CASE \E tool, rows : tool \in {"check", "back-fill"} /\ ReadRows(tool, rows)
      BY <2>5 DEF ReadRows, NoCommand, CommandShape
    <2> QED
      BY <2>2, <2>3, <2>4, <2>5, CommandReads DEF StoreProof
  <1> QED
    BY <1>0, <1>1, <1>2, <1>3, <1>4, <1>5, <1>6, QuietStep

(* Somebody else indexes an order, or the process dies in a round: from    *)
(* then on the weather is not calm.                                        *)
LEMMA FaultStep ==
    ASSUME RelayerInv, CallerInv', RoundCrash \/ \E o \in Orders : IndexedByOther(o)
    PROVE  RelayerInv'
  <1> USE DEF RelayerInv
  <1>0. /\ UNCHANGED <<account, mempool, at, ops, nonce, last, limit, raised, answer, issued>>
        /\ UNCHANGED <<drops, proofs, txErrors, submitted, calls, executed, cli>>
        /\ round' \in {round, NoRound} /\ Fault
    BY DEF RoundCrash, IndexedByOther, Fault, node, loop, tables, contract
  <1>1. /\ indexed \subseteq indexed' /\ indexed' \subseteq Places
        /\ used' \subseteq Orders \X Validators
    <2>1. CASE RoundCrash
      BY <2>1 DEF RoundCrash, contract, TypeOK
    <2>2. ASSUME NEW o \in Orders, IndexedByOther(o)
          PROVE  /\ indexed \subseteq indexed' /\ indexed' \subseteq Places
                 /\ used' \subseteq Orders \X Validators
      <3>1. PlaceOf[o] \in Places
        BY RelayerConstants DEF Places, Range
      <3>2. {o} \X Backers(o, proofs) \subseteq Orders \X Validators
        BY DEF Backers
      <3> QED
        BY <2>2, <3>1, <3>2 DEF IndexedByOther, TypeOK
    <2> QED
      BY <2>1, <2>2
  <1>2. RoundInv' /\ CommandShape'
    BY <1>0, <1>1, NoRoundInv DEF RoundInv, InputPlace, CommandShape
  <1>3. TypeOK'
    <2>1. round'.at \in {"idle", "read", "check"} /\ (at # "idle" => round' = NoRound)
      BY <1>0, EmptyRound DEF TypeOK
    <2>2. CallerTypeOK'
      BY DEF CallerInv
    <2> QED
      BY <1>0, <1>1, <2>1, <2>2 DEF TypeOK
  <1>4. SettledIsIndexed'
    BY <1>0, <1>1 DEF SettledIsIndexed, Recorded
  <1>5. AcceptedIsSent' /\ RecordedIsSent' /\ executed' \subseteq Executions
    BY <1>0 DEF AcceptedIsSent, RecordedIsSent, SentAs, Recorded
  <1>6. faults' # 0
    BY <1>0 DEF Fault, CallerInv, CallerTypeOK
  <1> QED
    BY <1>2, <1>3, <1>4, <1>5, <1>6 DEF Calm
-----------------------------------------------------------------------------
LEMMA RelayerInit == Init => RelayerInv
  <1> SUFFICES ASSUME Init PROVE RelayerInv
    OBVIOUS
  <1> USE DEF Init
  <1>1. CallerInv
    BY InitInv
  <1>2. /\ account = 0 /\ DOMAIN mempool = {} /\ at = "idle" /\ ops = <<>> /\ issued = 0
        /\ raised = FALSE /\ Len(ops) = 0
    BY DEF CallerInit
  <1>3. calls \in Seq(SUBSET Inputs) /\ Len(calls) = 0
    BY EmptyQueue
  <1>4. TypeOK
    <2>1. CallerTypeOK
      BY <1>1 DEF CallerInv
    <2>2. cli.tool = "none"
      BY DEF NoCommand
    <2> QED
      BY <1>2, <1>3, <2>1, <2>2, EmptyRound DEF TypeOK
  <1>5. RoundInv /\ CommandShape
    BY EmptyRound DEF RoundInv, CommandShape, NoCommand
  <1>6. SettledIsIndexed /\ RecordedIsSent /\ AcceptedIsSent
    BY <1>2 DEF SettledIsIndexed, RecordedIsSent, AcceptedIsSent, Recorded
  <1>7. CalmNonces
    BY <1>2 DEF CalmNonces, NotSending
  <1>8. CalmCalls
    BY <1>2 DEF CalmCalls, Sent, Oldest
  <1>9. CalmContract
    BY <1>2, EmptyRound DEF CalmContract
  <1> QED
    BY <1>1, <1>4, <1>5, <1>6, <1>7, <1>8, <1>9 DEF RelayerInv, Calm

LEMMA RelayerStutter == RelayerInv /\ UNCHANGED vars => RelayerInv'
  <1> SUFFICES ASSUME RelayerInv, UNCHANGED vars PROVE RelayerInv'
    OBVIOUS
  <1> USE DEF RelayerInv
  <1>0. /\ UNCHANGED <<callerVars, calls, contract, proofs, txErrors, submitted, round, cli>>
        /\ indexed' = indexed
    BY DEF vars, tables, contract
  <1>1. RoundInv' /\ CommandShape'
    BY <1>0 DEF RoundInv, InputPlace, CommandShape
  <1>2. /\ proofs' \subseteq Validators \X Orders /\ txErrors' \subseteq Places
        /\ at # "idle" => round' = NoRound
        /\ cli'.tool \in {"none", "check", "back-fill"}
    BY <1>0 DEF TypeOK
  <1>3. \A i \in 1..Len(round'.inputs) : faults = 0 /\ drops = 0 =>
              PlaceOf[round'.inputs[i].order] \notin indexed
    BY <1>0 DEF Calm, CalmContract, InputPlace
  <1> QED
    BY <1>0, <1>1, <1>2, <1>3, QuietStep

LEMMA RelayerNext == RelayerInv /\ [Next]_vars => RelayerInv'
  <1> SUFFICES ASSUME RelayerInv, [Next]_vars PROVE RelayerInv'
    OBVIOUS
  <1>0. CallerInv'
    BY CallerKept DEF RelayerInv
  <1>1. CASE CallStep \/ Trouble
    <2>1. CallerActs /\ UNCHANGED <<proofs, txErrors, submitted, calls, contract, round, cli>>
      BY <1>1 DEF CallStep, Trouble, CallerActs, Call, tables
    <2> QED
      BY <1>0, <2>1, CallerActStep
  <1>2. CASE Broadcasted
    <2>1. PICK result \in {"ok", "error"} :
             /\ OnBroadcast(result)
             /\ result = "ok" => DidBroadcast
      BY <1>2 DEF Broadcasted
    <2>2. CallerActs
      BY <1>2 DEF Broadcasted, CallerActs, Call
    <2>3. /\ UNCHANGED <<proofs, txErrors, calls, contract, round, cli>>
          /\ result = "ok" => answer = "ok"
          /\ \A p \in Places :
              \/ submitted'[p] = submitted[p]
              \/ at = "sent" /\ submitted'[p] = [result |-> result, tx |-> <<nonce, Head(ops)>>]
      BY <2>1 DEF OnBroadcast, UpsertSubmittedTx, DidBroadcast, Answered
    <2> QED
      BY <1>0, <2>2, <2>3, CallerActStep
  <1>3. CASE Settled
    <2>1. UNION {PlacesOf(calls[op]) : op \in Range(ops)} = {}
      <3>1. ops = <<>>
        BY <1>3 DEF Settled, Finish, Draining
      <3>2. Range(ops) = {}
        BY <3>1 DEF Range
      <3> QED
        BY <3>2
    <2>2. \A p \in Places : submitted'[p] = submitted[p]
      BY <1>3, <2>1 DEF Settled, UpsertSubmittedTx
    <2>3. CallerActs /\ UNCHANGED <<proofs, txErrors, calls, contract, round, cli>>
      BY <1>3 DEF Settled, CallerActs, Call
    <2> QED
      BY <1>0, <2>2, <2>3, CallerActStep
  <1>4. CASE SubmitChunks
    BY <1>0, <1>4, WriteTablesStep, FlushStep DEF SubmitChunks
  <1>5. CASE Relay
    BY <1>1, <1>2, <1>3, <1>4, <1>5, GetPendingStep, ReadProofsStep, CheckPlaceStep,
       WriteTablesStep DEF Relay
  <1> QED
    BY <1>0, <1>1, <1>5, ExecuteCallStep, BesidesStep, FaultStep, RelayerStutter
       DEF Next, Command, Check

(* The relayer, the caller inside it, the tables and the contract are      *)
(* related as RelayerInv says in every reachable state.                    *)
THEOREM RelayerInductive == Spec => []RelayerInv
  BY RelayerInit, RelayerNext, PTL DEF Spec

(* Every state of the relayer is well typed; in particular a row names a   *)
(* call that was issued.                                                   *)
THEOREM RelayerTypeCorrect == Spec => []TypeOK
  <1>1. RelayerInv => TypeOK BY DEF RelayerInv
  <1> QED BY RelayerInductive, <1>1, PTL

(* Inside the relayer, too, the nonces the caller has left behind are      *)
(* executed or pending, and pending calls are in the order of their issue. *)
THEOREM RelayerNoGap == Spec => [](NoGap /\ InOrder)
  <1>1. RelayerInv => NoGap /\ InOrder BY DEF RelayerInv, CallerInv
  <1> QED BY RelayerInductive, <1>1, PTL

(* Only indexed places are recorded as settled.                            *)
THEOREM SettledCorrect == Spec => []SettledIsIndexed
  <1>1. RelayerInv => SettledIsIndexed BY DEF RelayerInv
  <1> QED BY RelayerInductive, <1>1, PTL

(* A row that says "ok" names a call that is pending or executed under the *)
(* nonce it names.                                                         *)
THEOREM RecordedCorrect == Spec => []RecordedIsSent
  <1>1. RelayerInv => RecordedIsSent BY DEF RelayerInv
  <1> QED BY RelayerInductive, <1>1, PTL

(* Without faults no place is submitted twice, whatever the commands       *)
(* delete, and no call fails.                                              *)
THEOREM SubmittedOnceCorrect == Spec => []SubmittedOnce
  <1>1. RelayerInv => SubmittedOnce
    <2> SUFFICES ASSUME RelayerInv, faults = 0, drops = 0
                 PROVE  /\ \A e \in executed : e.ok
                        /\ \A i, j \in Range(mempool) \cup {e.op : e \in executed} :
                              PlacesOf(calls[i]) \cap PlacesOf(calls[j]) # {} => i = j
      BY DEF SubmittedOnce
    <2>1. CalmContract
      BY DEF RelayerInv, Calm
    <2>2. Range(mempool) \cup {e.op : e \in executed} \subseteq 1..issued
      BY DEF Range, RelayerInv, TypeOK, CallerTypeOK
    <2> QED
      BY <2>1, <2>2 DEF CalmContract
  <1> QED BY RelayerInductive, <1>1, PTL
=============================================================================
