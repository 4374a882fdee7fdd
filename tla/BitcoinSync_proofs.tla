--------------------------- MODULE BitcoinSync_proofs ---------------------------
(***************************************************************************)
(* Proofs about bitcoin-sync, for any chain, any reorganisations of it,    *)
(* any number of requests at a time and any number of failures: its types, *)
(* and that no hole is left in indexer.blocks between two rounds.          *)
(***************************************************************************)
EXTENDS BitcoinSync, FiniteSetTheorems, WellFoundedInduction, TLAPS

(* The heights that have a row or will have one when the queue is idle.    *)
Covered == Stored \cup sync.waiting \cup {b.height : b \in sync.answered}

Whole(heights) == \A t \in heights : Genesis..t \subseteq heights

QueueInv == sync.at \notin {"fill", "fetch"} => sync.waiting = {} /\ sync.answered = {}

(* Once a round has looked for the holes, what it has stored, asked for    *)
(* and been answered has none, however the answers are ordered.            *)
NoHole == sync.at \notin {"missing", "down"} => Whole(Covered)

(* The range of step 3 starts at a height below which nothing is missing.  *)
FromInv == sync.at = "to" => Genesis..(sync.from - 1) \subseteq Stored

IInv == TypeOK /\ QueueInv /\ NoHole /\ FromInv
-----------------------------------------------------------------------------
(* The highest row: a non-empty set of naturals has a least element, and a *)
(* non-empty set of heights therefore a greatest.                          *)
LEMMA LeastNatural ==
    ASSUME NEW T \in SUBSET Nat, T # {}
    PROVE  \E n \in T : \A m \in T : n <= m
<1> DEFINE R == OpToRel(<, Nat)
<1>1. IsWellFoundedOn(R, Nat)
  BY NatLessThanWellFounded
<1>2. \A m, n \in Nat : m < n => <<m, n>> \in R
  BY DEF OpToRel
<1> HIDE DEF R
<1>3. PICK n \in T : \A m \in T : <<m, n>> \notin R
  BY <1>1, WFMin
<1>4. ASSUME NEW m \in T
      PROVE  n <= m
  <2>1. m \in Nat /\ n \in Nat
    OBVIOUS
  <2>2. ~(m < n)
    BY <1>2, <1>3, <2>1
  <2> QED
    BY <2>1, <2>2
<1> QED
  BY <1>4

LEMMA MaxOfHeights ==
    ASSUME NEW S \in SUBSET Heights, S # {}
    PROVE  Max(S) \in S
<1> DEFINE Below == {n \in Nat : \E x \in S : n = MaxHeight - x}
<1>1. \A x \in S : MaxHeight - x \in Below
  BY SyncConstants DEF Heights
<1>2. PICK n \in Below : \A m \in Below : n <= m
  BY <1>1, LeastNatural
<1>3. PICK x \in S : n = MaxHeight - x
  OBVIOUS
<1>4. ASSUME NEW y \in S
      PROVE  x >= y
  <2>1. n <= MaxHeight - y
    BY <1>1, <1>2
  <2> QED
    BY <1>3, <2>1, SyncConstants DEF Heights
<1> QED
  BY <1>4 DEF Max

(* A chain that reaches from Genesis to t has its tip at t.                *)
LEMMA TipOfChain ==
    ASSUME NEW t \in Heights, DOMAIN chain = Genesis..t
    PROVE  Tip = t
<1>1. Cardinality(Genesis..t) = t - Genesis + 1
  BY FS_Interval, SyncConstants DEF Heights
<1> QED
  BY <1>1, SyncConstants DEF Tip, Heights
-----------------------------------------------------------------------------
(* The network only moves the tip up.                                      *)
LEMMA ChainGrows ==
    ASSUME TypeOK, Mine \/ Reorganise
    PROVE  /\ Tip' \in Heights /\ chain' \in [Genesis..Tip' -> Blocks]
           /\ \A h \in DOMAIN chain' : chain'[h].height = h
           /\ fork' \in 0..MaxForks
<1>1. /\ Tip \in Heights /\ Tip + 1 \in Heights /\ Genesis \in Nat
      /\ fork \in 0..MaxForks /\ MaxDepth \in Nat /\ MaxForks \in Nat
      /\ chain \in [Genesis..Tip -> Blocks]
      /\ \A h \in Genesis..Tip : chain[h].height = h
  BY SyncConstants DEF TypeOK, Heights, Mine, Reorganise
<1> DEFINE t == Tip + 1
<1>2. ASSUME chain' \in [Genesis..t -> Blocks]
      PROVE  Tip' = t
  <2>1. PICK u : u = t
    OBVIOUS
  <2>2. DOMAIN chain' = Genesis..u
    BY <1>2, <2>1
  <2>3. Cardinality(Genesis..u) = u - Genesis + 1
    BY <1>1, <2>1, FS_Interval DEF Heights
  <2> QED
    BY <1>1, <2>1, <2>2, <2>3 DEF Tip, Heights
<1>3. CASE Mine
  <2>1. \A h \in Genesis..t : Block(h, fork, 0) \in Blocks
    BY <1>1 DEF Block, Blocks, Heights
  <2>2. chain' \in [Genesis..t -> Blocks]
    BY <1>1, <1>3, <2>1 DEF Mine
  <2>3. \A h \in Genesis..t : chain'[h].height = h
    BY <1>1, <1>3 DEF Mine, Block
  <2> QED
    BY <1>1, <1>2, <1>3, <2>2, <2>3 DEF Mine
<1>4. CASE Reorganise
  <2>0. fork < MaxForks /\ fork' = fork + 1
    BY <1>4 DEF Reorganise
  <2>1. PICK depth \in 1..MaxDepth :
          /\ depth <= Tip - Genesis + 1
          /\ chain' = [h \in Genesis..(Tip + 1) |->
                IF h <= Tip - depth THEN chain[h]
                ELSE Block(h, fork + 1, IF h < Tip THEN Tip - h ELSE 0)]
    BY <1>4 DEF Reorganise
  <2>2. ASSUME NEW h \in Genesis..t, ~(h <= Tip - depth)
        PROVE  Block(h, fork + 1, IF h < Tip THEN Tip - h ELSE 0) \in Blocks
    <3>1. (IF h < Tip THEN Tip - h ELSE 0) \in 0..MaxDepth
      BY <1>1, <2>1, <2>2 DEF Heights
    <3>2. h \in Heights
      BY <1>1, SyncConstants DEF Heights
    <3>3. fork + 1 \in 0..MaxForks
      BY <1>1, <2>0
    <3> QED
      BY <3>1, <3>2, <3>3 DEF Block, Blocks
  <2>3. \A h \in Genesis..t : h <= Tip - depth => h \in Genesis..Tip
    BY <1>1, <2>1 DEF Heights
  <2>4. chain' \in [Genesis..t -> Blocks]
    BY <1>1, <2>1, <2>2, <2>3
  <2>5. \A h \in Genesis..t : chain'[h].height = h
    BY <1>1, <2>1, <2>3 DEF Block
  <2>6. fork' \in 0..MaxForks
    BY <1>1, <2>0
  <2> QED
    BY <1>1, <1>2, <2>4, <2>5, <2>6
<1> QED
  BY <1>3, <1>4

(* An answer and an insert move a height, and lose none.                   *)
LEMMA QueueCovers ==
    ASSUME TypeOK, Answer \/ InsertBlock
    PROVE  Covered' = Covered
<1>1. sync \in Syncs /\ \A h \in DOMAIN chain : chain[h].height = h
  BY DEF TypeOK
<1>2. CASE Answer
  <2>1. PICK h \in sync.waiting \cap DOMAIN chain :
          sync' = [sync EXCEPT !.waiting = @ \ {h}, !.answered = @ \cup {chain[h]}]
    BY <1>2 DEF Answer, Asked
  <2>2. /\ sync'.waiting = sync.waiting \ {h}
        /\ sync'.answered = sync.answered \cup {chain[h]}
        /\ chain[h].height = h /\ blocks' = blocks
    BY <1>1, <1>2, <2>1 DEF Answer, Syncs
  <2> QED
    BY <2>2 DEF Covered, Stored
<1>3. CASE InsertBlock
  <2>1. PICK b \in sync.answered :
          /\ blocks' = blocks \cup {b}
          /\ sync' = [sync EXCEPT !.answered = @ \ {b}]
    BY <1>3 DEF InsertBlock
  <2>2. sync'.waiting = sync.waiting /\ sync'.answered = sync.answered \ {b}
    BY <1>1, <2>1 DEF Syncs
  <2> QED
    BY <2>1, <2>2 DEF Covered, Stored
<1> QED
  BY <1>2, <1>3

LEMMA StoredAreHeights ==
    ASSUME TypeOK PROVE Stored \in SUBSET Heights
BY DEF TypeOK, Stored, Blocks
-----------------------------------------------------------------------------
LEMMA SyncInit == Init => IInv
<1> SUFFICES ASSUME Init
             PROVE  IInv
  OBVIOUS
<1>1. TypeOK
  <2>1. PICK tip \in Heights : chain = [h \in Genesis..tip |-> Block(h, 0, 0)]
    BY DEF Init
  <2>2. DOMAIN chain = Genesis..tip
    BY <2>1
  <2>3. Tip = tip
    BY <2>2, TipOfChain
  <2>4. \A h \in Genesis..tip : Block(h, 0, 0) \in Blocks /\ Block(h, 0, 0).height = h
    BY SyncConstants DEF Block, Blocks, Heights
  <2>5. chain \in [Genesis..Tip -> Blocks] /\ \A h \in DOMAIN chain : chain[h].height = h
    BY <2>1, <2>3, <2>4
  <2>6. sync \in Syncs
    BY SyncConstants DEF Init, Fresh, Syncs, Heights
  <2> QED
    BY <2>1, <2>3, <2>5, <2>6, SyncConstants DEF Init, TypeOK
<1> QED
  BY <1>1 DEF Init, Fresh, IInv, QueueInv, NoHole, FromInv

LEMMA SyncNext == IInv /\ [Next]_vars => IInv'
<1> SUFFICES ASSUME IInv, [Next]_vars
             PROVE  IInv'
  OBVIOUS
<1>0. /\ TypeOK /\ QueueInv /\ NoHole /\ FromInv
      /\ sync \in Syncs /\ blocks \subseteq Blocks
      /\ Stored \in SUBSET Heights
  BY StoredAreHeights DEF IInv, TypeOK
<1>1. ASSUME UNCHANGED <<blocks, sync, fails>>, Mine \/ Reorganise
      PROVE  IInv'
  <2>1. TypeOK'
    BY <1>0, <1>1, ChainGrows DEF TypeOK
  <2> QED
    BY <1>0, <1>1, <2>1 DEF IInv, QueueInv, NoHole, FromInv, Covered, Stored
<1>2. CASE SyncMissingBlocks
  <2>1. /\ sync'.at = "fill" /\ sync'.waiting = MissingBlocks
        /\ sync'.answered = {} /\ blocks' = blocks /\ sync' \in Syncs
    BY <1>0, <1>2 DEF SyncMissingBlocks, Syncs, QueueInv, MissingBlocks
  <2>2. TypeOK'
    BY <1>0, <1>2, <2>1 DEF TypeOK, SyncMissingBlocks, Tip
  <2>3. Covered' = Stored \cup MissingBlocks
    BY <2>1 DEF Covered, Stored
  <2>4. Whole(Stored \cup MissingBlocks)
    BY <1>0, SyncConstants DEF Whole, MissingBlocks, Heights
  <2> QED
    BY <2>1, <2>2, <2>3, <2>4 DEF IInv, QueueInv, NoHole, FromInv, Whole
<1>3. CASE GetFromBlockHeight
  <2>1. FromBlockHeight \in Heights /\ Genesis..(FromBlockHeight - 1) \subseteq Stored
    <3>1. CASE blocks = {}
      BY <3>1, SyncConstants DEF FromBlockHeight, Heights
    <3>2. CASE blocks # {}
      <4>1. Stored # {}
        BY <3>2 DEF Stored
      <4>2. FromBlockHeight \in Stored
        BY <1>0, <3>2, <4>1, MaxOfHeights DEF FromBlockHeight
      <4>3. Whole(Stored)
        BY <1>0, <1>3 DEF NoHole, QueueInv, Covered, GetFromBlockHeight
      <4> QED
        BY <1>0, <4>2, <4>3, SyncConstants DEF Whole, Heights
    <3> QED
      BY <3>1, <3>2
  <2>2. /\ sync'.at = "to" /\ sync'.from = FromBlockHeight /\ sync' \in Syncs
        /\ sync'.waiting = sync.waiting /\ sync'.answered = sync.answered
        /\ blocks' = blocks
    BY <1>0, <1>3, <2>1 DEF GetFromBlockHeight, Syncs
  <2>3. TypeOK'
    BY <1>0, <1>3, <2>2 DEF TypeOK, GetFromBlockHeight, Tip
  <2>4. Covered' = Covered /\ Stored' = Stored
    BY <2>2 DEF Covered, Stored
  <2> QED
    BY <1>0, <1>3, <2>1, <2>2, <2>3, <2>4
    DEF IInv, QueueInv, NoHole, FromInv, Whole, GetFromBlockHeight
<1>4. CASE SyncFrom
  <2>0. sync.from \in Heights /\ Tip \in Heights
    BY <1>0 DEF Syncs, TypeOK
  <2>1. sync.from..Tip \in SUBSET Heights
    BY <2>0, SyncConstants DEF Heights
  <2>2. /\ sync'.at = "fetch" /\ sync'.waiting = sync.from..Tip
        /\ sync'.answered = {} /\ blocks' = blocks /\ sync' \in Syncs
    BY <1>0, <1>4, <2>1 DEF SyncFrom, Syncs, QueueInv
  <2>3. TypeOK'
    BY <1>0, <1>4, <2>2 DEF TypeOK, SyncFrom, Tip
  <2>4. Covered' = Stored \cup sync.from..Tip
    BY <2>2 DEF Covered, Stored
  <2>5. Whole(Stored) /\ Genesis..(sync.from - 1) \subseteq Stored
    BY <1>0, <1>4 DEF NoHole, QueueInv, FromInv, Covered, SyncFrom
  <2>6. Whole(Stored \cup sync.from..Tip)
    BY <1>0, <2>0, <2>5, SyncConstants DEF Whole, Heights
  <2> QED
    BY <2>2, <2>3, <2>4, <2>6 DEF IInv, QueueInv, NoHole, FromInv, Whole
<1>5. CASE Answer \/ InsertBlock
  <2>1. sync' \in Syncs /\ sync'.at = sync.at /\ sync.at \in {"fill", "fetch"}
        /\ blocks' \subseteq Blocks
    <3>1. CASE Answer
      <4>1. PICK h \in Asked \cap DOMAIN chain :
              sync' = [sync EXCEPT !.waiting = @ \ {h}, !.answered = @ \cup {chain[h]}]
        BY <3>1 DEF Answer
      <4>2. chain[h] \in Blocks
        BY <1>0, <4>1 DEF TypeOK
      <4> QED
        BY <1>0, <3>1, <4>1, <4>2 DEF Answer, Syncs
    <3>2. CASE InsertBlock
      <4>1. PICK b \in sync.answered :
              /\ blocks' = blocks \cup {b}
              /\ sync' = [sync EXCEPT !.answered = @ \ {b}]
        BY <3>2 DEF InsertBlock
      <4> QED
        BY <1>0, <3>2, <4>1 DEF InsertBlock, Syncs
    <3> QED
      BY <1>5, <3>1, <3>2
  <2>2. TypeOK'
    BY <1>0, <1>5, <2>1 DEF TypeOK, Answer, InsertBlock, Tip
  <2>3. Covered' = Covered
    BY <1>0, <1>5, QueueCovers
  <2> QED
    BY <1>0, <2>1, <2>2, <2>3 DEF IInv, QueueInv, NoHole, FromInv, Whole
<1>6. CASE OnIdle
  <2>1. /\ sync'.at \in {"from", "sleep"} /\ sync' \in Syncs
        /\ sync'.waiting = {} /\ sync'.answered = {} /\ blocks' = blocks
        /\ sync.waiting = {} /\ sync.answered = {} /\ sync.at \in {"fill", "fetch"}
    BY <1>0, <1>6 DEF OnIdle, Syncs
  <2>2. TypeOK'
    BY <1>0, <1>6, <2>1 DEF TypeOK, OnIdle, Tip
  <2>3. Covered' = Covered
    BY <2>1 DEF Covered, Stored
  <2> QED
    BY <1>0, <2>1, <2>2, <2>3 DEF IInv, QueueInv, NoHole, FromInv, Whole
<1>7. CASE Wake \/ Restart \/ Fail
  <2>1. /\ sync'.at \in {"missing", "down"} /\ sync' \in Syncs
        /\ sync'.waiting = {} /\ sync'.answered = {} /\ blocks' = blocks
    BY <1>7, SyncConstants DEF Wake, Restart, Fail, Fresh, Syncs, Heights
  <2>2. fails' \in 0..MaxFails
    BY <1>0, <1>7, SyncConstants DEF TypeOK, Wake, Restart, Fail
  <2>3. TypeOK'
    BY <1>0, <1>7, <2>1, <2>2 DEF TypeOK, Wake, Restart, Fail, Tip
  <2> QED
    BY <2>1, <2>3 DEF IInv, QueueInv, NoHole, FromInv
<1>8. CASE UNCHANGED vars
  BY <1>0, <1>8
  DEF vars, IInv, TypeOK, QueueInv, NoHole, FromInv, Covered, Stored, Tip, Whole
<1> QED
  BY <1>1, <1>2, <1>3, <1>4, <1>5, <1>6, <1>7, <1>8
  DEF Next, Work, Mine, Reorganise

(* The inductive invariant holds in every state of bitcoin-sync.           *)
THEOREM SyncInductive == Spec => []IInv
BY SyncInit, SyncNext, PTL DEF Spec

(* The chain has a block of its own height at each height, rows and        *)
(* answers are blocks, and the queue asks for heights in range.            *)
THEOREM SyncTypeCorrect == Spec => []TypeOK
BY SyncInductive, PTL DEF IInv

(* A round that reached its pause has left no height below a row without   *)
(* a row: neither the order in which the queue inserted them, nor a        *)
(* failure in an earlier round, nor a reorganisation opens a hole.         *)
THEOREM WholeCorrect == Spec => []WholeAtRest
<1>1. IInv => WholeAtRest
  BY DEF IInv, NoHole, QueueInv, WholeAtRest, Whole, Covered
<1> QED
  BY <1>1, SyncInductive, PTL
=============================================================================
