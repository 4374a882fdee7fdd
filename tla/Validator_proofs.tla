---------------------------- MODULE Validator_proofs ----------------------------
(***************************************************************************)
(* Proofs about a validator, for any blocks and transfers in them, any     *)
(* page, batch and retry limits, any back ends and modes, and any number   *)
(* of failures: that its loop passes no transfer over, that it signs the   *)
(* figures of the transfer it submits, and that it gives a transfer up     *)
(* only for a cause.                                                       *)
(***************************************************************************)
EXTENDS Validator, FiniteSetTheorems, WellFoundedInduction, TLAPS

Seen == Stored \cup dropped
InBlock == at \in {"activity", "pages", "work"}

Types ==
    /\ backEnd \in {"bis", "hiro", "unisat"}
    /\ height \in Int /\ to \in Int /\ tip \in Int
    /\ jumped \in BOOLEAN
    /\ job \in [Transfers -> {"none", "balance", "bitcoin", "queued"}]
    /\ posts \in Seq(Transfers)
    /\ Stored \subseteq Transfers /\ dropped \subseteq Transfers

(* What is below the block in hand has been seen; so has what is in it,    *)
(* but for the transfers at work.                                          *)
Passed == InBlock /\ ~jumped => \A t \in Transfers :
    Genesis <= HeightOf(t) /\ HeightOf(t) < height => t \in Seen
Handled == at = "work" => \A t \in ToSet(Items) : job[t] = "none" => t \in Seen

(* The pages fetched so far are all up to the offset, but for what a retry *)
(* skipped, unless one has an address that Hiro's schema refuses.          *)
Skipped(t) == backEnd # "bis" /\ <<"page", t>> \in lapses
HasRefused == backEnd = "hiro" /\ ToSet(Items) \cap Undecodable # {}
Fetched(got, o) ==
    \/ \A i \in DOMAIN Items : i <= o => Items[i] \in ToSet(got) \/ Skipped(Items[i])
    \/ HasRefused
FeedOK(got, o) == /\ got \in Seq(Transfers) /\ ToSet(got) \subseteq ToSet(Items) /\ o \in Nat
                  /\ backEnd # "bis" /\ Fetched(got, o)
Feeding == at = "pages" => FeedOK(feed.got, feed.offset)

(* Transfers at work are of the block in hand, and have their balances     *)
(* when they get to the Bitcoin transaction.                               *)
HasFound(t) == \E b \in signs : b.transfer = t
Working ==
    /\ at # "work" => job = Idle /\ posts = <<>>
    /\ \A t \in Transfers : job[t] # "none" => HeightOf(t) = height
    /\ \A t \in Transfers : job[t] = "bitcoin" => HasFound(t)
    /\ \A i \in DOMAIN posts : HeightOf(posts[i]) = height /\ HasFound(posts[i])

Own(t, b, pair) ==
    \/ b = pair
    \/ backEnd = "hiro" /\ b = Zero /\ (EntryAt[pair] = 0 \/ <<"entry", t>> \in lapses)
OwnBalances(b) ==
    /\ b.transfer \in Transfers
    /\ Own(b.transfer, b.from, From[b.transfer]) /\ Own(b.transfer, b.to, To[b.transfer])
Signing == \A b \in signs : OwnBalances(b)

LoopInv ==
    /\ Types /\ Passed /\ Handled /\ Feeding /\ Working /\ Signing
    /\ NothingSlipsBy /\ SignsOwnFigures /\ GivenUpForACause
IInv == mode \in Modes /\ LoopInv
-----------------------------------------------------------------------------
(* Least and greatest elements.                                            *)
LEMMA LeastNatural ==
    ASSUME NEW T \in SUBSET Nat, T # {}
    PROVE  \E n \in T : \A m \in T : n <= m
<1> DEFINE R == OpToRel(<, Nat)
<1>1. IsWellFoundedOn(R, Nat)
  BY NatLessThanWellFounded
<1>2. \A m, n \in Nat : m < n => <<m, n>> \in R
  BY DEF OpToRel
<1> HIDE DEF R
<1>3. PICK n \in T : \A m \in T : <<m, n>> \notin R
  BY <1>1, WFMin
<1>4. ASSUME NEW m \in T
      PROVE  n <= m
  <2>1. m \in Nat /\ n \in Nat
    OBVIOUS
  <2>2. ~(m < n)
    BY <1>2, <1>3, <2>1
  <2> QED
    BY <2>1, <2>2
<1> QED
  BY <1>4

(* By the least prefix of an enumeration of S that had none.               *)
LEMMA FiniteHasMax ==
    ASSUME NEW S \in SUBSET Int, IsFiniteSet(S), S # {}
    PROVE  Max(S) \in S /\ \A x \in S : x <= Max(S)
<1>1. PICK n \in Nat : ExistsBijection(1..n, S)
  BY FS_NatBijection
<1>2. PICK f \in [1..n -> S] : \A x \in S : \E i \in 1..n : f[i] = x
  BY <1>1 DEF ExistsBijection, Bijection, Injection, Surjection
<1> DEFINE Tops(k) == \E j \in 1..k : \A i \in 1..k : f[i] <= f[j]
           Bad == {k \in 1..n : ~Tops(k)}
<1>3. Bad = {}
  <2> SUFFICES ASSUME Bad # {}
               PROVE  FALSE
    OBVIOUS
  <2>1. PICK k \in Bad : \A m \in Bad : k <= m
    <3>1. Bad \in SUBSET Nat
      OBVIOUS
    <3> QED
      BY <3>1, LeastNatural
  <2>2. k \in 1..n /\ ~Tops(k) /\ \A i \in 1..n : f[i] \in Int
    OBVIOUS
  <2>3. CASE k = 1
    <3>1. Tops(1)
      BY <2>2, <2>3
    <3> QED
      BY <2>2, <2>3, <3>1
  <2>4. CASE k # 1
    <3>1. k - 1 \in 1..n /\ k \in Nat /\ ~(k <= k - 1)
      BY <2>2, <2>4
    <3>2. Tops(k - 1)
      BY <2>1, <3>1
    <3>3. PICK j \in 1..(k - 1) : \A i \in 1..(k - 1) : f[i] <= f[j]
      BY <3>2
    <3>4. j \in 1..k /\ k \in 1..k /\ j \in 1..n /\ \A i \in 1..k : i = k \/ i \in 1..(k - 1)
      BY <2>2, <2>4, <3>1
    <3>5. f[j] \in Int /\ f[k] \in Int /\ \A i \in 1..(k - 1) : f[i] \in Int
      BY <2>2, <3>1, <3>4
    <3>6. CASE f[k] <= f[j]
      <4>1. \A i \in 1..k : f[i] <= f[j]
        BY <3>3, <3>4, <3>6
      <4> QED
        BY <2>2, <3>4, <4>1
    <3>7. CASE f[j] <= f[k]
      <4>1. \A i \in 1..(k - 1) : f[i] <= f[k]
        BY <3>3, <3>5, <3>7
      <4>2. f[k] <= f[k]
        BY <3>5
      <4>3. \A i \in 1..k : f[i] <= f[k]
        BY <3>4, <4>1, <4>2
      <4> QED
        BY <2>2, <3>4, <4>3
    <3> QED
      BY <3>5, <3>6, <3>7
  <2> QED
    BY <2>3, <2>4
<1>4. n \in 1..n
  <2>1. PICK x \in S : TRUE
    OBVIOUS
  <2>2. PICK i \in 1..n : f[i] = x
    BY <1>2
  <2> QED
    BY <2>2
<1>5. PICK j \in 1..n : \A i \in 1..n : f[i] <= f[j]
  BY <1>3, <1>4
<1>6. f[j] \in S /\ \A x \in S : f[j] >= x
  BY <1>2, <1>5
<1> QED
  BY <1>6 DEF Max

LEMMA MinOfTwo ==
    ASSUME NEW a \in Int, NEW b \in Int
    PROVE  Min({a, b}) = IF a <= b THEN a ELSE b
<1>1. \E x \in {a, b} : \A y \in {a, b} : x <= y
  OBVIOUS
<1> QED
  BY <1>1 DEF Min

(* A transfer is in one block.                                             *)
LEMMA HeightOfTransfer ==
    ASSUME NEW t \in Transfers
    PROVE  HeightOf(t) \in Blocks /\ t \in ToSet(Activity[HeightOf(t)])
BY DEF HeightOf, Transfers

LEMMA HeightIsUnique ==
    ASSUME NEW h \in Blocks, NEW t \in ToSet(Activity[h])
    PROVE  t \in Transfers /\ HeightOf(t) = h
<1>1. t \in Transfers
  BY DEF Transfers
<1> QED
  BY <1>1, HeightOfTransfer, ValidatorConstants

LEMMA ItemsOfHeight ==
    /\ Items \in Seq(Transfers)
    /\ \A t \in ToSet(Items) : t \in Transfers /\ HeightOf(t) = height
    /\ \A t \in Transfers : HeightOf(t) = height => t \in ToSet(Items)
<1>1. CASE height \in Blocks
  BY <1>1, HeightIsUnique, HeightOfTransfer, ValidatorConstants DEF Items
<1>2. CASE height \notin Blocks
  <2>1. Items = <<>> /\ ToSet(Items) = {}
    BY <1>2 DEF Items, ToSet
  <2> QED
    BY <1>2, <2>1, HeightOfTransfer
<1> QED
  BY <1>1, <1>2
-----------------------------------------------------------------------------
(* Amounts: what the back ends write and the validators read.              *)
LEMMA DivMod ==
    ASSUME NEW u \in Nat, NEW D \in Nat \ {0}
    PROVE  u \div D \in Nat /\ u % D \in Nat /\ u = (u \div D) * D + (u % D)
OBVIOUS

Reads(u, D, Q) == (u \div D) * D + ((u % D) \div Q) * Q
LEMMA DropZeros ==
    ASSUME NEW u \in Nat, NEW P \in Nat \ {0}, NEW Q \in Nat \ {0}, NEW D \in Nat \ {0},
           D = P * Q, u % Q = 0
    PROVE  Reads(u, D, Q) = u
<1> DEFINE k == u \div Q
           w == u \div D
           r == u % D
<1>1. k \in Nat /\ w \in Nat
  BY DivMod
<1>2. u = k * Q
  BY DivMod
<1>3. u = w * D + r
  BY DivMod
<1>4. r \in Nat
  BY DivMod
<1> HIDE DEF k, w, r
<1> DEFINE m == k - w * P
<1>5. m \in Int
  BY <1>1
<1>6. w * D = (w * P) * Q
  BY <1>1
<1>7. r = m * Q
  <2>1. r = k * Q - (w * P) * Q
    BY <1>1, <1>2, <1>3, <1>4, <1>6
  <2> DEFINE z == w * P
  <2>2. z \in Int
    BY <1>1
  <2> HIDE DEF z
  <2>3. k * Q - z * Q = (k - z) * Q
    BY <1>1, <2>2
  <2> QED
    BY <2>1, <2>3 DEF m, z
<1> HIDE DEF m
<1>8. (m * Q) \div Q = m
  BY <1>5
<1> QED
  BY <1>3, <1>7, <1>8 DEF r, w, Reads

LEMMA HiroAmount ==
    ASSUME NEW u \in Nat
    PROVE  RemovePoint(HiroText(u)) = u
<1> DEFINE D == 10^Decimals
<1>1. Decimals \in Nat /\ Decimals - Decimals = 0 /\ 10^0 = 1
  BY ValidatorConstants, PowersOfTen
<1>2. D \in Nat \ {0}
  BY <1>1, PowersOfTen
<1>3. HiroText(u) = [whole |-> u \div D, frac |-> (u % D) \div 1, digits |-> Decimals]
  BY <1>1 DEF HiroText, Text
<1>4. RemovePoint(HiroText(u)) = (u \div D) * D + ((u % D) \div 1)
  BY <1>3 DEF RemovePoint
<1> HIDE DEF D
<1>5. (u % D) \div 1 = u % D /\ (u \div D) * D + (u % D) = u
  BY <1>2
<1> QED
  BY <1>4, <1>5

LEMMA UnisatAmount ==
    ASSUME NEW u \in Nat
    PROVE  ParseUnits(UnisatText(u)) = u
<1> DEFINE S == {n \in 0..Decimals : u % 10^(Decimals - n) = 0}
           n == Min(S)
<1>1. S \in SUBSET Nat /\ Decimals \in S
  <2>1. Decimals \in 0..Decimals /\ Decimals - Decimals = 0 /\ u % 1 = 0
    BY ValidatorConstants
  <2>2. 10^(Decimals - Decimals) = 1
    BY <2>1, PowersOfTen
  <2>3. Decimals \in S
    BY <2>1, <2>2
  <2>4. 0..Decimals \subseteq Nat
    BY ValidatorConstants
  <2> QED
    BY <2>3, <2>4
<1>2. n \in S
  <2> HIDE DEF S
  <2>1. PICK m \in S : \A k \in S : m <= k
    BY <1>1, LeastNatural
  <2> QED
    BY <2>1 DEF Min
<1>3. n \in 0..Decimals /\ u % 10^(Decimals - n) = 0
  BY <1>2
<1>4. UnisatText(u) = Text(u, n)
  BY DEF UnisatText
<1> HIDE DEF n
<1>5. Decimals - n \in 0..Decimals /\ Decimals \in 0..Decimals
  BY <1>3, ValidatorConstants
<1>6. /\ 10^Decimals \in Nat \ {0} /\ 10^n \in Nat \ {0} /\ 10^(Decimals - n) \in Nat \ {0}
      /\ 10^Decimals = 10^n * 10^(Decimals - n)
  BY <1>3, <1>5, PowersOfTen
<1>7. PICK D \in Nat \ {0}, P \in Nat \ {0}, Q \in Nat \ {0} :
          D = 10^Decimals /\ P = 10^n /\ Q = 10^(Decimals - n)
  BY <1>6
<1>8. D = P * Q /\ u % Q = 0
  BY <1>3, <1>6, <1>7
<1>9. ParseUnits(UnisatText(u)) = Reads(u, D, Q)
  BY <1>4, <1>7 DEF Text, ParseUnits, Reads
<1>10. Reads(u, D, Q) = u
  BY <1>7, <1>8, DropZeros
<1> QED
  BY <1>9, <1>10, Zenon

(* The answers with status 400 that the validator may get for a POST.      *)
LEMMA BadRequestIsTheTransfers ==
    ASSUME NEW cause \in PostCauses, PostStatus(cause) = 400
    PROVE  cause \in OfTheTransfer
<1>1. StatusToHttpCodeMap["UNKNOWN"] = 500
  BY DEF StatusToHttpCodeMap, StatusCode
<1>5. StatusToHttpCodeMap["INTERNAL"] = 500
  BY DEF StatusToHttpCodeMap, StatusCode
<1>6. StatusToHttpCodeMap["PERMISSION_DENIED"] = 403
  BY DEF StatusToHttpCodeMap, StatusCode
<1> USE DEF PostStatus, AllExceptionsFilter, ToErrorDetailsHttpException, PostThrows,
            Other, TxsThrows, ToHttpException, ErrorDetails
<1>2. PostStatus("token") = 500
  BY <1>1
<1>3. PostStatus("version") = 403
  BY <1>6
<1>4. PostStatus("failure") = 500
  BY <1>5
<1> QED
  BY <1>2, <1>3, <1>4 DEF PostCauses, OfTheTransfer
-----------------------------------------------------------------------------
(* The highest stored block, and what NothingSlipsBy says of every one.    *)
Cleared(S, D) == \A t \in Transfers, s \in S :
    Genesis <= HeightOf(t) /\ HeightOf(t) < HeightOf(s) => t \in S \cup D

LEMMA HighestStored ==
    ASSUME NEW S \in SUBSET Transfers, S # {}
    PROVE  LET m == Max({HeightOf(t) : t \in S})
           IN  /\ m \in Blocks /\ m \in Nat
               /\ \E s \in S : HeightOf(s) = m
               /\ \A s \in S : HeightOf(s) <= m
<1> DEFINE H == {HeightOf(t) : t \in S}
<1>1. H \subseteq Blocks /\ H # {} /\ Blocks \subseteq Nat /\ IsFiniteSet(Blocks)
  BY HeightOfTransfer, ValidatorConstants
<1>2. \A s \in S : HeightOf(s) \in H
  OBVIOUS
<1>3. \A m \in H : \E s \in S : HeightOf(s) = m
  OBVIOUS
<1> HIDE DEF H
<1>4. H \in SUBSET Int /\ IsFiniteSet(H)
  <2>1. IsFiniteSet(H)
    BY <1>1, FS_Subset
  <2> QED
    BY <1>1, <2>1
<1>5. Max(H) \in H /\ \A x \in H : x <= Max(H)
  BY <1>1, <1>4, FiniteHasMax
<1> QED
  BY <1>1, <1>2, <1>3, <1>5 DEF H

LEMMA SlipsForm ==
    ASSUME Stored \subseteq Transfers
    PROVE  NothingSlipsBy <=> (~jumped => Cleared(Stored, dropped))
<1>1. proofs = {} <=> Stored = {}
  BY DEF Stored
<1>2. CASE Stored = {}
  BY <1>1, <1>2 DEF NothingSlipsBy, Cleared
<1>3. CASE Stored # {}
  <2>1. /\ Latest \in Nat /\ \E s \in Stored : HeightOf(s) = Latest
        /\ \A s \in Stored : HeightOf(s) <= Latest
    BY <1>3, HighestStored DEF Latest
  <2>2. \A t \in Transfers : HeightOf(t) \in Nat
    BY HeightOfTransfer, ValidatorConstants
  <2> QED
    BY <1>1, <1>3, <2>1, <2>2 DEF NothingSlipsBy, Cleared
<1> QED
  BY <1>2, <1>3

LEMMA SlipsFormNext ==
    ASSUME Stored' \subseteq Transfers
    PROVE  NothingSlipsBy' <=> (~jumped' => Cleared(Stored', dropped'))
<1>1. proofs' = {} <=> Stored' = {}
  BY DEF Stored
<1>2. CASE Stored' = {}
  BY <1>1, <1>2 DEF NothingSlipsBy, Cleared
<1>3. CASE Stored' # {}
  <2>1. /\ Latest' \in Nat /\ \E s \in Stored' : HeightOf(s) = Latest'
        /\ \A s \in Stored' : HeightOf(s) <= Latest'
    BY <1>3, HighestStored DEF Latest
  <2>2. \A t \in Transfers : HeightOf(t) \in Nat
    BY HeightOfTransfer, ValidatorConstants
  <2> QED
    BY <1>1, <1>3, <2>1, <2>2 DEF NothingSlipsBy, Cleared
<1> QED
  BY <1>2, <1>3
-----------------------------------------------------------------------------
(* Steps, by what they do.  A failure is not forgotten.                    *)
Later == lapses \subseteq lapses'

LEMMA LapseIsLater ==
    ASSUME NEW step, NEW ts, Lapse(step, ts)
    PROVE  Later /\ \A t \in ts : <<step, t>> \in lapses'
BY DEF Lapse, Later

(* What is given up, with the causes of those that are new.                *)
GivenUp(t) == OwnCause(t) \/ \E step \in Final : <<step, t>> \in lapses'
LEMMA GivingUp ==
    ASSUME LoopInv, Later, UNCHANGED backEnd, \A t \in dropped' : t \in dropped \/ GivenUp(t)
    PROVE  GivenUpForACause'
<1>1. \A t : OwnCause(t)' = OwnCause(t)
  BY DEF OwnCause
<1>2. Final' = Final
  BY DEF Final
<1>3. ASSUME NEW t \in dropped'
      PROVE  OwnCause(t)' \/ \E step \in Final' : <<step, t>> \in lapses'
  <2>1. CASE t \in dropped
    BY <1>1, <1>2, <2>1 DEF LoopInv, GivenUpForACause, Later
  <2>2. CASE GivenUp(t)
    BY <1>1, <1>2, <2>2 DEF GivenUp
  <2> QED
    BY <2>1, <2>2
<1> QED
  BY <1>3 DEF GivenUpForACause

(* What is stored stays right while no proof is stored.                    *)
LEMMA PastKept ==
    ASSUME LoopInv, Types', Later, UNCHANGED <<backEnd, proofs>>, jumped => jumped',
           dropped \subseteq dropped'
    PROVE  NothingSlipsBy' /\ SignsOwnFigures'
<1>1. Stored \subseteq Transfers /\ Stored' \subseteq Transfers /\ Stored' = Stored
  BY DEF LoopInv, Types, Stored
<1>2. jumped \in BOOLEAN /\ jumped' \in BOOLEAN
  BY DEF LoopInv, Types
<1>3. NothingSlipsBy'
  BY <1>1, <1>2, SlipsForm, SlipsFormNext DEF LoopInv, Cleared
<1>4. SignsOwnFigures'
  BY DEF LoopInv, SignsOwnFigures, Later
<1> QED
  BY <1>3, <1>4

(* The block is left, or entered: none is at work.                         *)
LEMMA Leaving ==
    ASSUME LoopInv, Later,
           at' \notin {"pages", "work"}, Passed',
           job' = Idle, posts' = <<>>, signs' \subseteq signs,
           height' \in Int, to' \in Int, tip' \in Int,
           UNCHANGED <<backEnd, dropped>>, jumped' \in BOOLEAN,
           Stored' \subseteq Transfers, NothingSlipsBy', SignsOwnFigures'
    PROVE  LoopInv'
<1>1. Types'
  <2>1. job' \in [Transfers -> {"none", "balance", "bitcoin", "queued"}]
    BY DEF Idle
  <2>2. posts' \in Seq(Transfers)
    OBVIOUS
  <2> QED
    BY <2>1, <2>2 DEF LoopInv, Types, Later
<1>2. Handled' /\ Feeding'
  BY DEF Handled, Feeding
<1>3. Working'
  BY DEF Working, Idle
<1>4. Signing'
  BY DEF LoopInv, Signing, OwnBalances, Own, Later
<1>5. GivenUpForACause'
  BY GivingUp
<1> QED
  BY <1>1, <1>2, <1>3, <1>4, <1>5 DEF LoopInv

LEMMA LeavingWithout ==
    ASSUME LoopInv, Later,
           at' \notin {"pages", "work"}, Passed',
           job' = Idle, posts' = <<>>, signs' \subseteq signs,
           height' \in Int, to' \in Int, tip' \in Int,
           UNCHANGED <<backEnd, proofs, dropped>>,
           jumped' \in BOOLEAN, jumped => jumped'
    PROVE  LoopInv'
<1>1. Stored' = Stored /\ Stored \subseteq Transfers
  BY DEF LoopInv, Types, Stored
<1>2. Types'
  <2>1. job' \in [Transfers -> {"none", "balance", "bitcoin", "queued"}]
    BY DEF Idle
  <2> QED
    BY <1>1, <2>1 DEF LoopInv, Types, Later
<1>3. NothingSlipsBy' /\ SignsOwnFigures'
  BY <1>2, PastKept
<1> QED
  BY <1>1, <1>3, Leaving

(* An error, or the end of the process.                                    *)
LEMMA Ending ==
    ASSUME LoopInv, Later, at' \notin {"activity", "pages", "work"}, ClearBlock,
           UNCHANGED <<backEnd, height, to, tip, past>>
    PROVE  LoopInv'
<1>1. Passed'
  BY DEF Passed, InBlock
<1>2. /\ height' \in Int /\ to' \in Int /\ tip' \in Int /\ jumped' \in BOOLEAN
      /\ job' = Idle /\ posts' = <<>> /\ signs' \subseteq signs
  BY DEF LoopInv, Types, past, ClearBlock
<1> QED
  BY <1>1, <1>2, LeavingWithout DEF past

(* The block in hand is as it was.                                         *)
LEMMA Staying ==
    ASSUME LoopInv, Later, tip' \in Int,
           UNCHANGED <<backEnd, at, height, to, feed, job, signs, posts, past>>
    PROVE  LoopInv'
<1> USE DEF past
<1>1. Types'
  BY DEF LoopInv, Types, Later, Stored
<1>2. Stored' = Stored /\ Items' = Items
  BY DEF Stored, Items
<1>3. Passed' /\ Handled'
  BY <1>2 DEF LoopInv, Passed, InBlock, Handled, Seen
<1>4. Feeding'
  BY <1>2 DEF LoopInv, Feeding, FeedOK, Fetched, Skipped, HasRefused, Later
<1>5. Working'
  BY DEF LoopInv, Working, HasFound
<1>6. Signing'
  BY DEF LoopInv, Signing, OwnBalances, Own, Later
<1>7. GivenUpForACause'
  BY GivingUp
<1> QED
  BY <1>1, <1>3, <1>4, <1>5, <1>6, <1>7, PastKept DEF LoopInv
-----------------------------------------------------------------------------
(* The pages.                                                              *)
LEMMA SubSeqFacts ==
    ASSUME NEW S, NEW s \in Seq(S), NEW o \in Nat, NEW m \in Nat, m <= Len(s)
    PROVE  /\ SubSeq(s, o + 1, m) \in Seq(S)
           /\ Len(SubSeq(s, o + 1, m)) = IF o + 1 <= m THEN m - o ELSE 0
           /\ \A i \in 1..(m - o) : SubSeq(s, o + 1, m)[i] = s[o + i]
<1>1. \A i \in (o + 1)..m : s[i] \in S
  OBVIOUS
<1>2. SubSeq(s, o + 1, m) \in Seq(S)
  BY <1>1
<1>3. Len(SubSeq(s, o + 1, m)) = IF o + 1 <= m THEN m - o ELSE 0
  BY <1>1
<1>4. \A i \in 1..(m - o) : SubSeq(s, o + 1, m)[i] = s[o + i]
  BY <1>1
<1> QED
  BY <1>2, <1>3, <1>4

LEMMA PageIsOfItems ==
    ASSUME Types, NEW o \in Nat
    PROVE  /\ Page(o) \in Seq(Transfers) /\ ToSet(Page(o)) \subseteq ToSet(Items)
           /\ \A i \in DOMAIN Items :
                  o < i /\ (backEnd = "bis" \/ i <= o + PageSize) => Items[i] \in ToSet(Page(o))
<1> DEFINE s == Items
<1>1. s \in Seq(Transfers) /\ PageSize \in Nat
  BY ItemsOfHeight, ValidatorConstants
<1>2. CASE backEnd = "bis"
  <2>1. Page(o) = s
    BY <1>2 DEF Page, BisActivity
  <2> QED
    BY <1>1, <2>1 DEF ToSet
<1>3. CASE backEnd # "bis"
  <2>1. Page(o) = PageFrom(o)
    BY <1>3 DEF Page, HiroPage, UnisatPage, Types
  <2>2. PICK m \in Nat : /\ m = Min({o + PageSize, Len(s)})
                         /\ m <= Len(s) /\ (m = o + PageSize \/ m = Len(s))
    BY <1>1, MinOfTwo
  <2>3. Page(o) = SubSeq(s, o + 1, m)
    BY <2>1, <2>2 DEF PageFrom
  <2> HIDE DEF s
  <2>4. /\ Page(o) \in Seq(Transfers)
        /\ Len(Page(o)) = IF o + 1 <= m THEN m - o ELSE 0
        /\ \A i \in 1..(m - o) : Page(o)[i] = s[o + i]
    <3> DEFINE q == SubSeq(s, o + 1, m)
    <3>1. /\ q \in Seq(Transfers)
          /\ Len(q) = IF o + 1 <= m THEN m - o ELSE 0
          /\ \A i \in 1..(m - o) : q[i] = s[o + i]
      <4>1. s \in Seq(Transfers) /\ m <= Len(s)
        BY <1>1, <2>2
      <4> QED
        BY <4>1, SubSeqFacts, Zenon
    <3> QED
      BY <2>3, <3>1, Zenon
  <2>5. ASSUME NEW x \in ToSet(Page(o))
        PROVE  x \in ToSet(s)
    <3>1. PICK i \in DOMAIN Page(o) : x = Page(o)[i]
      BY DEF ToSet
    <3>2. i \in 1..Len(Page(o))
      BY <2>4, <3>1
    <3>3. i \in 1..(m - o)
      BY <2>2, <2>4, <3>2
    <3>4. x = s[o + i]
      BY <2>4, <3>1, <3>3
    <3>5. o + i \in 1..Len(s)
      BY <1>1, <2>2, <3>3
    <3> QED
      BY <1>1, <3>4, <3>5 DEF ToSet
  <2>6. ASSUME NEW i \in DOMAIN s, o < i, i <= o + PageSize
        PROVE  s[i] \in ToSet(Page(o))
    <3>1. i \in 1..Len(s)
      BY <1>1
    <3>2. i - o \in 1..(m - o) /\ o + (i - o) = i
      BY <1>1, <2>2, <2>6, <3>1
    <3>3. Page(o)[i - o] = s[i]
      BY <2>4, <3>2
    <3>4. i - o \in DOMAIN Page(o)
      BY <2>4, <3>2
    <3> QED
      BY <3>3, <3>4 DEF ToSet
  <2> QED
    BY <1>3, <2>4, <2>5, <2>6 DEF s
<1> QED
  BY <1>2, <1>3

LEMMA ConcatToSet ==
    ASSUME NEW S, NEW s \in Seq(S), NEW r \in Seq(S)
    PROVE  s \o r \in Seq(S) /\ ToSet(s \o r) = ToSet(s) \cup ToSet(r)
<1>1. s \o r \in Seq(S) /\ Len(s \o r) = Len(s) + Len(r)
  OBVIOUS
<1>2. \A i \in 1..Len(s) : (s \o r)[i] = s[i]
  OBVIOUS
<1>3. \A i \in 1..Len(r) : (s \o r)[Len(s) + i] = r[i]
  OBVIOUS
<1>4. \A x \in ToSet(s) : x \in ToSet(s \o r)
  BY <1>1, <1>2 DEF ToSet
<1>5. ASSUME NEW x \in ToSet(r)
      PROVE  x \in ToSet(s \o r)
  <2>1. PICK i \in 1..Len(r) : x = r[i]
    BY DEF ToSet
  <2>2. Len(s) + i \in DOMAIN (s \o r) /\ x = (s \o r)[Len(s) + i]
    BY <1>1, <1>3, <2>1
  <2> QED
    BY <2>2 DEF ToSet
<1>6. ASSUME NEW x \in ToSet(s \o r)
      PROVE  x \in ToSet(s) \cup ToSet(r)
  <2>1. PICK i \in 1..(Len(s) + Len(r)) : x = (s \o r)[i]
    BY <1>1 DEF ToSet
  <2>2. CASE i <= Len(s)
    BY <1>2, <2>1, <2>2 DEF ToSet
  <2>3. CASE i > Len(s)
    <3>1. i - Len(s) \in 1..Len(r) /\ Len(s) + (i - Len(s)) = i
      BY <2>1, <2>3
    <3>2. x = r[i - Len(s)]
      BY <1>3, <2>1, <3>1
    <3> QED
      BY <3>1, <3>2 DEF ToSet
  <2> QED
    BY <2>1, <2>2, <2>3
<1> QED
  BY <1>1, <1>4, <1>5, <1>6

(* The pages fetched when a page that begins at o has come.                *)
Ready(got, o) ==
    /\ got \in Seq(Transfers) /\ ToSet(got) \subseteq ToSet(Items) /\ o \in Nat
    /\ \/ \A i \in DOMAIN Items : backEnd = "bis" \/ i <= o + PageSize
               => Items[i] \in ToSet(got) \/ (backEnd # "bis" /\ <<"page", Items[i]>> \in lapses')
       \/ HasRefused

(* All have come: the transfers not given up are at work.                  *)
LEMMA Completing ==
    ASSUME LoopInv, Later, at \in {"activity", "pages"}, NEW got,
           got \in Seq(Transfers), ToSet(got) \subseteq ToSet(Items),
           \/ \A t \in ToSet(Items) :
                  t \in ToSet(got) \/ (backEnd # "bis" /\ <<"page", t>> \in lapses')
           \/ HasRefused,
           Complete(got),
           UNCHANGED <<backEnd, height, to, tip, proofs, jumped>>
    PROVE  LoopInv'
<1> DEFINE usable == {t \in ToSet(got) : Usable(t)}
<1>1. /\ at' = "work" /\ dropped' = dropped \cup (ToSet(Items) \ usable)
      /\ job' = [t \in Transfers |-> IF t \in usable THEN "balance" ELSE "none"]
      /\ UNCHANGED <<signs, posts>>
  BY DEF Complete
<1>2. usable \subseteq ToSet(Items) /\ \A t \in usable : t \in ToSet(got)
  OBVIOUS
<1>3. \A t \in ToSet(got) : t \notin usable => ~Usable(t)
  OBVIOUS
<1>4. /\ ToSet(Items) \subseteq Transfers
      /\ \A t \in ToSet(Items) : HeightOf(t) = height
  BY ItemsOfHeight
<1>5. Items' = Items /\ Stored' = Stored
  BY DEF Items, Stored
<1> HIDE DEF usable
<1>6. Types'
  <2>1. job' \in [Transfers -> {"none", "balance", "bitcoin", "queued"}]
    BY <1>1
  <2>2. dropped' \subseteq Transfers
    BY <1>1, <1>4 DEF LoopInv, Types
  <2> QED
    BY <1>1, <1>5, <2>1, <2>2 DEF LoopInv, Types, Later
<1>7. Passed'
  BY <1>1, <1>5 DEF LoopInv, Passed, InBlock, Seen
<1>8. Handled'
  BY <1>1, <1>4, <1>5 DEF Handled, Seen
<1>9. Feeding'
  BY <1>1 DEF Feeding
<1>10. Working'
  <2>1. posts = <<>>
    BY DEF LoopInv, Working
  <2> QED
    BY <1>1, <1>2, <1>4, <2>1 DEF Working
<1>11. Signing'
  BY <1>1 DEF LoopInv, Signing, OwnBalances, Own, Later
<1>12. GivenUpForACause'
  <2>1. ASSUME NEW t \in ToSet(Items) \ usable
        PROVE  GivenUp(t)
    <3>1. CASE HasRefused
      BY <1>4, <3>1 DEF HasRefused, GivenUp, OwnCause
    <3>2. CASE t \in ToSet(got)
      <4>1. ~Usable(t)
        BY <1>3, <3>2
      <4> QED
        BY <4>1 DEF LoopInv, Types, Usable, BisUsable, HiroUsable, UnisatUsable, GivenUp, OwnCause
    <3>3. CASE backEnd # "bis" /\ <<"page", t>> \in lapses'
      <4>1. "page" \in Final
        BY <3>3 DEF Final, LoopInv, Types
      <4> QED
        BY <3>3, <4>1 DEF GivenUp
    <3> QED
      BY <3>1, <3>2, <3>3
  <2> QED
    BY <1>1, <2>1, GivingUp
<1> QED
  BY <1>1, <1>6, <1>7, <1>8, <1>9, <1>10, <1>11, <1>12, PastKept DEF LoopInv

LEMMA Proceeding ==
    ASSUME LoopInv, Later, at \in {"activity", "pages"}, NEW got, NEW o, NEW left,
           Ready(got, o), Proceed(got, o, left),
           UNCHANGED <<backEnd, height, to, tip, proofs, jumped>>
    PROVE  LoopInv'
<1>1. Items \in Seq(Transfers) /\ PageSize \in Nat
  BY ItemsOfHeight, ValidatorConstants
<1>2. CASE backEnd = "bis" \/ LastPage(o)
  <2>1. Complete(got)
    BY <1>2 DEF Proceed
  <2>2. \/ \A t \in ToSet(Items) :
               t \in ToSet(got) \/ (backEnd # "bis" /\ <<"page", t>> \in lapses')
        \/ HasRefused
    <3>1. ASSUME NEW t \in ToSet(Items)
          PROVE  \E i \in DOMAIN Items : t = Items[i] /\ (backEnd = "bis" \/ i <= o + PageSize)
      <4>1. PICK i \in DOMAIN Items : t = Items[i]
        BY DEF ToSet
      <4> QED
        BY <1>1, <1>2, <4>1 DEF Ready, LastPage
    <3> QED
      BY <3>1 DEF Ready
  <2> QED
    BY <2>1, <2>2, Completing DEF Ready
<1>3. CASE ~(backEnd = "bis" \/ LastPage(o))
  <2>1. /\ at' = "pages" /\ feed' = [offset |-> o + PageSize, got |-> got, left |-> left]
        /\ UNCHANGED <<job, signs, posts, dropped>>
    BY <1>3 DEF Proceed
  <2>2. feed'.offset = o + PageSize /\ feed'.got = got
    BY <2>1
  <2>3. Items' = Items /\ Stored' = Stored
    BY DEF Items, Stored
  <2>4. Types'
    BY <2>1, <2>3 DEF LoopInv, Types, Later
  <2>5. Passed' /\ Handled'
    BY <2>1, <2>3 DEF LoopInv, Passed, Handled, InBlock, Seen
  <2>6. FeedOK(got, o + PageSize)'
    <3>1. o + PageSize \in Nat
      BY <1>1 DEF Ready
    <3> QED
      BY <1>1, <1>3, <2>3, <3>1 DEF Ready, FeedOK, Fetched, Skipped, HasRefused
  <2>7. Feeding'
    BY <2>2, <2>6 DEF Feeding, FeedOK, Fetched, Skipped, HasRefused
  <2>8. Working'
    BY <2>1 DEF LoopInv, Working, HasFound
  <2>9. Signing'
    BY <2>1 DEF LoopInv, Signing, OwnBalances, Own, Later
  <2>10. GivenUpForACause'
    BY <2>1, GivingUp
  <2> QED
    BY <2>1, <2>4, <2>5, <2>7, <2>8, <2>9, <2>10, PastKept DEF LoopInv
<1> QED
  BY <1>2, <1>3
-----------------------------------------------------------------------------
(* The transfers at work.                                                  *)

(* One transfer of the block gets on; or is given up, or stored.           *)
LEMMA GettingOn ==
    ASSUME LoopInv, Later, at = "work", NEW t \in Transfers, HeightOf(t) = height,
           NEW stage \in {"none", "balance", "bitcoin", "queued"}, Go(t, stage),
           UNCHANGED <<backEnd, at, height, to, tip, jumped>>,
           Stored \subseteq Stored', Stored' \subseteq Transfers,
           dropped' \in {dropped, dropped \cup {t}},
           dropped' # dropped => GivenUp(t),
           stage = "none" => t \in Seen',
           signs \subseteq signs', \A b \in signs' : b \in signs \/ OwnBalances(b)',
           stage = "bitcoin" => \E b \in signs' : b.transfer = t,
           posts' \in Seq(Transfers),
           \A i \in DOMAIN posts' : \/ \E j \in DOMAIN posts : posts'[i] = posts[j]
                                    \/ posts'[i] = t /\ job[t] = "bitcoin",
           NothingSlipsBy', SignsOwnFigures'
    PROVE  LoopInv'
<1>1. /\ job \in [Transfers -> {"none", "balance", "bitcoin", "queued"}]
      /\ job' = [job EXCEPT ![t] = stage]
  BY DEF LoopInv, Types, Go
<1>2. /\ job' \in [Transfers -> {"none", "balance", "bitcoin", "queued"}]
      /\ job'[t] = stage /\ \A u \in Transfers : u # t => job'[u] = job[u]
  BY <1>1
<1>3. Seen \subseteq Seen' /\ Items' = Items /\ ToSet(Items) \subseteq Transfers
  BY ItemsOfHeight DEF Seen, Items
<1>4. Types'
  BY <1>2 DEF LoopInv, Types, Later
<1>5. Passed'
  BY <1>3 DEF LoopInv, Passed, InBlock
<1>6. Handled'
  <2> SUFFICES ASSUME NEW u \in ToSet(Items), job'[u] = "none"
               PROVE  u \in Seen'
    BY <1>3 DEF Handled
  <2>1. CASE u = t
    BY <1>2, <2>1
  <2>2. CASE u # t
    BY <1>2, <1>3, <2>2 DEF LoopInv, Handled
  <2> QED
    BY <2>1, <2>2
<1>7. Feeding'
  BY DEF Feeding
<1>8. Working'
  <2>1. \A u \in Transfers : HasFound(u) => HasFound(u)'
    BY DEF HasFound
  <2>2. ASSUME NEW u \in Transfers, job'[u] # "none"
        PROVE  HeightOf(u) = height
    BY <1>2, <2>2 DEF LoopInv, Working
  <2>3. ASSUME NEW u \in Transfers, job'[u] = "bitcoin"
        PROVE  HasFound(u)'
    <3>1. CASE u = t
      BY <1>2, <2>3, <3>1 DEF HasFound
    <3>2. CASE u # t
      BY <1>2, <2>1, <2>3, <3>2 DEF LoopInv, Working
    <3> QED
      BY <3>1, <3>2
  <2>4. ASSUME NEW i \in DOMAIN posts'
        PROVE  HeightOf(posts'[i]) = height /\ \E b \in signs' : b.transfer = posts'[i]
    <3>1. CASE \E j \in DOMAIN posts : posts'[i] = posts[j]
      BY <3>1 DEF LoopInv, Working, HasFound
    <3>2. CASE posts'[i] = t /\ job[t] = "bitcoin"
      BY <2>1, <3>2 DEF LoopInv, Working, HasFound
    <3> QED
      BY <3>1, <3>2
  <2> QED
    BY <2>2, <2>3, <2>4 DEF Working, HasFound
<1>9. Signing'
  BY DEF LoopInv, Signing, OwnBalances, Own, Later
<1>10. GivenUpForACause'
  BY GivingUp
<1> QED
  BY <1>4, <1>5, <1>6, <1>7, <1>8, <1>9, <1>10 DEF LoopInv
-----------------------------------------------------------------------------
(* Steps of the loop.                                                      *)
LEMMA BelowStored ==
    ASSUME LoopInv, ~jumped, NEW h \in Int, h <= NextBlock,
           NEW t \in Transfers, Genesis <= HeightOf(t), HeightOf(t) < h
    PROVE  t \in Seen
<1>1. HeightOf(t) \in Nat /\ Genesis \in Nat
  BY HeightOfTransfer, ValidatorConstants
<1>2. CASE proofs = {}
  BY <1>1, <1>2 DEF NextBlock
<1>3. CASE proofs # {}
  <2>1. Stored # {} /\ Stored \subseteq Transfers
    BY <1>3 DEF LoopInv, Types, Stored
  <2>2. Latest \in Nat
    BY <2>1, HighestStored DEF Latest
  <2>3. HeightOf(t) < Latest
    BY <1>1, <1>3, <2>2 DEF NextBlock
  <2> QED
    BY <1>3, <2>3 DEF LoopInv, NothingSlipsBy, Seen
<1> QED
  BY <1>2, <1>3

LEMMA NextBlockIsInt ==
    ASSUME LoopInv
    PROVE  /\ NextBlock \in Int
           /\ FromBlockHeight \in Int /\ FromBlockHeight <= NextBlock
<1>1. Genesis \in Nat /\ SyncBack \in Nat
  BY ValidatorConstants
<1>2. CASE proofs = {}
  BY <1>1, <1>2 DEF NextBlock, FromBlockHeight
<1>3. CASE proofs # {}
  <2>1. Stored # {} /\ Stored \subseteq Transfers
    BY <1>3 DEF LoopInv, Types, Stored
  <2>2. Latest \in Nat
    BY <2>1, HighestStored DEF Latest
  <2> QED
    BY <1>1, <1>3, <2>2 DEF NextBlock, FromBlockHeight
<1> QED
  BY <1>2, <1>3

LEMMA StartStep ==
    ASSUME LoopInv, mode \in Modes, Start
    PROVE  LoopInv'
<1>1. Later
  BY DEF Start, Later
<1>2. /\ job' = Idle /\ posts' = <<>> /\ signs' \subseteq signs
      /\ UNCHANGED <<backEnd, tip, proofs, dropped>>
  BY DEF LoopInv, Working, Start, block
<1>3. CASE mode = "interval"
  <2>1. at' = "round" /\ UNCHANGED <<height, to, jumped>>
    BY <1>3 DEF Start
  <2>2. Passed'
    BY <2>1 DEF Passed, InBlock
  <2> QED
    BY <1>1, <1>2, <2>1, <2>2, LeavingWithout DEF LoopInv, Types
<1>4. CASE mode # "interval"
  <2>1. /\ at' = IF mode = "resync" /\ RangeQueryFails THEN "down" ELSE "activity"
        /\ height' = IF mode = "force" \/ InRange = {} THEN ForceStart ELSE Max(InRange)
        /\ to' = ForceEnd
        /\ jumped' = (jumped \/ (mode = "force" /\ ForceStart > NextBlock))
    BY <1>4 DEF Start
  <2>2. RangeQueryFails
    BY DEF RangeQueryFails, TxsColumns, ProofsColumns
  <2>3. ForceStart \in Nat /\ ForceEnd \in Nat
    BY ValidatorConstants
  <2>4. InRange # {} => Max(InRange) \in Int
    <3>1. InRange \subseteq Blocks /\ Blocks \subseteq Nat /\ IsFiniteSet(Blocks)
      BY HeightOfTransfer, ValidatorConstants DEF LoopInv, Types, InRange
    <3>2. IsFiniteSet(InRange)
      BY <3>1, FS_Subset
    <3>3. InRange \in SUBSET Int
      BY <3>1
    <3> QED
      BY <3>2, <3>3, FiniteHasMax
  <2>5. height' \in Int /\ to' \in Int /\ tip' \in Int
    BY <1>2, <2>1, <2>3, <2>4 DEF LoopInv, Types
  <2>6. jumped' \in BOOLEAN /\ (jumped => jumped')
    BY <2>1 DEF LoopInv, Types
  <2>7. at' \notin {"pages", "work"}
    BY <2>1
  <2>8. Passed'
    <3> SUFFICES ASSUME at' = "activity", ~jumped', NEW t \in Transfers,
                        Genesis <= HeightOf(t), HeightOf(t) < height'
                 PROVE  t \in Seen'
      BY <2>7 DEF Passed, InBlock
    <3>1. mode = "force"
      BY <1>4, <2>1, <2>2, ValidatorConstants
    <3>2. ~jumped /\ ~(ForceStart > NextBlock) /\ height' = ForceStart
      BY <2>1, <3>1
    <3>3. ForceStart <= NextBlock
      BY <2>3, <3>2, NextBlockIsInt
    <3>4. t \in Seen
      BY <2>3, <3>2, <3>3, BelowStored
    <3> QED
      BY <1>2, <3>4 DEF Seen, Stored
  <2> QED
    BY <1>1, <1>2, <2>5, <2>6, <2>7, <2>8, LeavingWithout
<1> QED
  BY <1>3, <1>4

LEMMA SyncOnceStep ==
    ASSUME LoopInv, SyncOnce
    PROVE  LoopInv'
<1>1. Later
  BY DEF SyncOnce, past, Later
<1>2. /\ job' = Idle /\ posts' = <<>> /\ signs' \subseteq signs
      /\ UNCHANGED <<backEnd, tip, proofs, dropped, jumped>>
  BY DEF LoopInv, Working, SyncOnce, block, self, past
<1>3. at' \notin {"pages", "work"} /\ at' \in {"sleep", "activity"}
  BY DEF SyncOnce
<1>4. ToBlockHeight \in Int
  BY ValidatorConstants DEF LoopInv, Types, ToBlockHeight
<1>5. height' \in Int /\ to' \in Int /\ tip' \in Int /\ jumped' \in BOOLEAN
  BY <1>2, <1>4, NextBlockIsInt DEF LoopInv, Types, SyncOnce
<1>6. Passed'
  <2> SUFFICES ASSUME at' = "activity", ~jumped', NEW t \in Transfers,
                      Genesis <= HeightOf(t), HeightOf(t) < height'
               PROVE  t \in Seen'
    BY <1>3 DEF Passed, InBlock
  <2>1. height' = FromBlockHeight
    BY DEF SyncOnce
  <2>2. t \in Seen
    BY <1>2, <2>1, NextBlockIsInt, BelowStored
  <2> QED
    BY <1>2, <2>2 DEF Seen, Stored
<1> QED
  BY <1>1, <1>2, <1>3, <1>5, <1>6, LeavingWithout

LEMMA BlockDoneStep ==
    ASSUME LoopInv, BlockDone
    PROVE  LoopInv'
<1>1. Later
  BY DEF BlockDone, past, Later
<1>2. /\ at = "work" /\ job = Idle /\ height \in Int
      /\ job' = Idle /\ posts' = <<>> /\ signs' \subseteq signs
      /\ UNCHANGED <<backEnd, to, tip, proofs, dropped, jumped>>
  BY DEF LoopInv, Types, BlockDone, ClearBlock, past
<1>3. at' \notin {"pages", "work"} /\ (at' = "activity" => height' = height + 1)
  BY DEF BlockDone
<1>4. height' \in Int /\ to' \in Int /\ tip' \in Int /\ jumped' \in BOOLEAN
  BY <1>2 DEF LoopInv, Types, BlockDone
<1>5. Passed'
  <2> SUFFICES ASSUME at' = "activity", ~jumped', NEW t \in Transfers,
                      Genesis <= HeightOf(t), HeightOf(t) < height'
               PROVE  t \in Seen'
    BY <1>3 DEF Passed, InBlock
  <2>1. HeightOf(t) \in Nat
    BY HeightOfTransfer, ValidatorConstants
  <2>2. HeightOf(t) < height \/ HeightOf(t) = height
    BY <1>2, <1>3, <2>1
  <2>3. CASE HeightOf(t) < height
    BY <1>2, <2>3 DEF LoopInv, Passed, InBlock, Seen, Stored
  <2>4. CASE HeightOf(t) = height
    <3>1. t \in ToSet(Items) /\ job[t] = "none"
      BY <1>2, <2>4, ItemsOfHeight DEF Idle
    <3> QED
      BY <1>2, <3>1 DEF LoopInv, Handled, Seen, Stored
  <2> QED
    BY <2>2, <2>3, <2>4
<1> QED
  BY <1>1, <1>2, <1>3, <1>4, <1>5, LeavingWithout

(* Steps that leave the block, wait, or change only the batches.           *)
LEMMA QuietStep ==
    ASSUME LoopInv,
           \/ Mine \/ SyncOnceFails \/ Wake \/ Crash \/ Restart \/ Redeploy
           \/ GetActivityFails \/ BatchTimer \/ BatchAnswer \/ BatchAnswerLacks \/ BatchFails
           \/ \E t \in Transfers : ListedBalancesFail(t)
    PROVE  LoopInv'
<1> USE DEF loop, self, block, past, Later
<1>0. Types
  BY DEF LoopInv
<1>1. CASE Mine
  <2>1. Later /\ tip' \in Int
    BY <1>0, <1>1 DEF Mine, Types
  <2> QED
    BY <1>1, <2>1, Staying DEF Mine
<1>2. CASE SyncOnceFails
  BY <1>0, <1>2, Ending DEF SyncOnceFails, Error
<1>3. CASE Wake \/ Restart
  <2>1. /\ at' \in {"round", "start"} /\ Later /\ Passed'
        /\ UNCHANGED <<backEnd, height, to, signs, job, posts, tip, past>>
    BY <1>0, <1>3 DEF Wake, Restart, Passed, InBlock
  <2>2. job' = Idle /\ posts' = <<>>
    BY <1>3, <2>1 DEF Wake, Restart, LoopInv, Working
  <2> QED
    BY <1>0, <2>1, <2>2, LeavingWithout DEF Types
<1>4. CASE Crash
  BY <1>0, <1>4, Ending DEF Crash
<1>5. CASE Redeploy
  BY <1>0, <1>5, Ending DEF Redeploy
<1>6. CASE GetActivityFails
  BY <1>0, <1>6, Ending DEF GetActivityFails, Error
<1>7. CASE BatchTimer \/ BatchAnswer \/ BatchAnswerLacks
  <2>1. Later /\ tip' \in Int
    BY <1>0, <1>7 DEF BatchTimer, BatchAnswer, BatchAnswerLacks, Types
  <2> QED
    BY <1>7, <2>1, Staying DEF BatchTimer, BatchAnswer, BatchAnswerLacks
<1>8. CASE BatchFails
  BY <1>0, <1>8, Ending DEF BatchFails, Error
<1>9. CASE \E t \in Transfers : ListedBalancesFail(t)
  BY <1>0, <1>9, Ending DEF ListedBalancesFail, Error
<1> QED
  BY <1>1, <1>2, <1>3, <1>4, <1>5, <1>6, <1>7, <1>8, <1>9
-----------------------------------------------------------------------------
(* Steps of the pages.                                                     *)
LEMMA GetActivityStep ==
    ASSUME LoopInv, GetActivity
    PROVE  LoopInv'
<1>1. Types /\ Later
  BY DEF GetActivity, LoopInv, Later
<1>2. PICK got : got = Page(0)
  OBVIOUS
<1>3. Ready(got, 0)
  <2>1. \A i \in DOMAIN Items : 0 < i
    BY ItemsOfHeight
  <2> QED
    BY <1>1, <1>2, <2>1, PageIsOfItems, ValidatorConstants DEF Ready
<1>4. Proceed(got, 0, Retries)
  BY <1>2 DEF GetActivity
<1> QED
  BY <1>1, <1>3, <1>4, Proceeding DEF GetActivity, self

LEMMA GetPageStep ==
    ASSUME LoopInv, GetPage
    PROVE  LoopInv'
<1>1. Types /\ Later
  BY DEF GetPage, LoopInv, Later
<1>2. FeedOK(feed.got, feed.offset) /\ at = "pages"
  BY DEF GetPage, LoopInv, Feeding
<1>3. PICK o \in Nat : o = feed.offset
  BY <1>2 DEF FeedOK
<1>4. PICK old, page : old = feed.got /\ page = Page(o)
  OBVIOUS
<1>5. /\ old \in Seq(Transfers) /\ page \in Seq(Transfers)
      /\ ToSet(old) \subseteq ToSet(Items) /\ ToSet(page) \subseteq ToSet(Items)
      /\ \A i \in DOMAIN Items :
             o < i /\ (backEnd = "bis" \/ i <= o + PageSize) => Items[i] \in ToSet(page)
      /\ backEnd # "bis" /\ Fetched(old, o)
  BY <1>1, <1>2, <1>3, <1>4, PageIsOfItems DEF FeedOK
<1>6. PICK got : got = old \o page
  OBVIOUS
<1>7. got \in Seq(Transfers) /\ ToSet(got) = ToSet(old) \cup ToSet(page)
  BY <1>5, <1>6, ConcatToSet
<1>8. Ready(got, o)
  <2>1. ASSUME NEW i \in DOMAIN Items, i <= o + PageSize, ~HasRefused
        PROVE  Items[i] \in ToSet(got) \/ <<"page", Items[i]>> \in lapses'
    <3>1. i \in Nat
      BY ItemsOfHeight
    <3>2. CASE i <= o
      BY <1>1, <1>5, <1>7, <2>1, <3>2 DEF Fetched, Skipped, Later
    <3>3. CASE o < i
      BY <1>5, <1>7, <2>1, <3>3
    <3> QED
      BY <3>1, <3>2, <3>3
  <2> QED
    BY <1>5, <1>7, <2>1 DEF Ready
<1>9. Proceed(got, o, feed.left)
  BY <1>3, <1>4, <1>6 DEF GetPage
<1> QED
  BY <1>1, <1>2, <1>8, <1>9, Proceeding DEF GetPage, self

LEMMA GetPageFailsStep ==
    ASSUME LoopInv, GetPageFails
    PROVE  LoopInv'
<1>1. Types
  BY DEF LoopInv
<1>2. CASE Error /\ UNCHANGED <<dropped, lapses>>
  <2>1. ClearBlock /\ at' \notin {"activity", "pages", "work"} /\ Later
    BY <1>2 DEF Error, Later
  <2> QED
    BY <1>1, <1>2, <2>1, Ending DEF GetPageFails, Error, self, past
<1>3. CASE RetryPages
  <2>1. FeedOK(feed.got, feed.offset) /\ at = "pages"
    BY DEF GetPageFails, LoopInv, Feeding
  <2>2. PICK o \in Nat : o = feed.offset
    BY <2>1 DEF FeedOK
  <2>3. PICK got : got = Page(0)
    OBVIOUS
  <2>4. /\ got \in Seq(Transfers) /\ ToSet(got) \subseteq ToSet(Items)
        /\ \A i \in DOMAIN Items : 0 < i /\ i <= 0 + PageSize => Items[i] \in ToSet(got)
    BY <1>1, <2>3, PageIsOfItems
  <2>5. \A i \in DOMAIN Items : i \in Nat /\ 0 < i
    BY ItemsOfHeight
  <2>6. Later /\ Ready(got, o)
    <3>1. CASE Refused(o)
      <4>1. backEnd = "hiro" /\ Page(o) = HiroPage(o) /\ ToSet(HiroPage(o)) \cap Undecodable # {}
        BY <3>1 DEF Refused, Page
      <4>2. ToSet(Page(o)) \subseteq ToSet(Items)
        BY <1>1, PageIsOfItems
      <4>3. HasRefused
        BY <4>1, <4>2 DEF HasRefused
      <4>4. UNCHANGED lapses
        BY <1>3, <2>2, <3>1 DEF RetryPages
      <4> QED
        BY <2>4, <4>3, <4>4 DEF Ready, Later
    <3>2. CASE ~Refused(o)
      <4>1. Lapse("page", SkippedUpTo(o))
        BY <1>3, <2>2, <3>2 DEF RetryPages
      <4>2. Later /\ \A t \in SkippedUpTo(o) : <<"page", t>> \in lapses'
        BY <4>1, LapseIsLater
      <4>3. PageSize \in Nat /\ backEnd # "bis"
        BY <2>1, ValidatorConstants DEF FeedOK
      <4>4. ASSUME NEW i \in DOMAIN Items, i <= o + PageSize
            PROVE  Items[i] \in ToSet(got) \/ <<"page", Items[i]>> \in lapses'
        <5>1. CASE i <= PageSize
          BY <2>4, <2>5, <4>3, <5>1
        <5>2. CASE PageSize < i
          BY <4>2, <4>4, <5>2 DEF SkippedUpTo
        <5> QED
          BY <2>5, <4>3, <5>1, <5>2
      <4> QED
        BY <2>4, <4>2, <4>3, <4>4 DEF Ready
    <3> QED
      BY <3>1, <3>2
  <2>7. Proceed(got, o, feed.left - 1)
    BY <1>3, <2>2, <2>3 DEF RetryPages
  <2> QED
    BY <1>3, <2>1, <2>6, <2>7, Proceeding DEF GetPageFails, RetryPages, self
<1> QED
  BY <1>2, <1>3 DEF GetPageFails
-----------------------------------------------------------------------------
(* Steps of a transfer at work.                                            *)
WorkUnstored == <<backEnd, at, height, to, tip, jumped, proofs>>

(* A balance is found, or none is to be had.                               *)
LEMMA Balancing ==
    ASSUME LoopInv, Later, NEW t \in Transfers, InWork(t, "balance"),
           UNCHANGED WorkUnstored, UNCHANGED posts,
           \/ Drop(t) /\ UNCHANGED signs /\ GivenUp(t)
           \/ \E f, g : HasBalances(t, f, g) /\ Own(t, f, From[t])' /\ Own(t, g, To[t])'
    PROVE  LoopInv'
<1> USE DEF WorkUnstored
<1>1. at = "work" /\ HeightOf(t) = height
  BY DEF InWork, LoopInv, Working, Types
<1>2. Stored' = Stored /\ Stored \subseteq Transfers /\ dropped \subseteq Transfers
  BY DEF Stored, LoopInv, Types
<1>3. /\ posts' \in Seq(Transfers)
      /\ \A i \in DOMAIN posts' : \E j \in DOMAIN posts : posts'[i] = posts[j]
  BY DEF LoopInv, Types
<1>4. CASE Drop(t) /\ UNCHANGED signs /\ GivenUp(t)
  <2>1. Go(t, "none") /\ dropped' = dropped \cup {t} /\ t \in Seen'
    BY <1>4 DEF Drop, Seen
  <2>2. Types'
    <3>1. job' \in [Transfers -> {"none", "balance", "bitcoin", "queued"}]
      BY <2>1 DEF Go, LoopInv, Types
    <3> QED
      BY <1>2, <1>3, <2>1, <3>1 DEF LoopInv, Types, Later
  <2>3. NothingSlipsBy' /\ SignsOwnFigures'
    BY <2>1, <2>2, PastKept
  <2> QED
    BY <1>1, <1>2, <1>3, <1>4, <2>1, <2>3, GettingOn
<1>5. ASSUME NEW f, NEW g, HasBalances(t, f, g), Own(t, f, From[t])', Own(t, g, To[t])'
      PROVE  LoopInv'
  <2> DEFINE b == [transfer |-> t, from |-> f, to |-> g]
  <2>1. Go(t, "bitcoin") /\ signs' = signs \cup {b} /\ dropped' = dropped
    BY <1>5 DEF HasBalances
  <2>2. b.transfer = t /\ b.from = f /\ b.to = g
    OBVIOUS
  <2> HIDE DEF b
  <2>3. OwnBalances(b)'
    BY <1>5, <2>2 DEF OwnBalances
  <2>4. Types'
    <3>1. job' \in [Transfers -> {"none", "balance", "bitcoin", "queued"}]
      BY <2>1 DEF Go, LoopInv, Types
    <3> QED
      BY <1>2, <1>3, <2>1, <3>1 DEF LoopInv, Types, Later
  <2>5. NothingSlipsBy' /\ SignsOwnFigures'
    BY <2>1, <2>4, PastKept
  <2>6. signs \subseteq signs' /\ \A c \in signs' : c \in signs \/ OwnBalances(c)'
    BY <2>1, <2>3
  <2>7. \E c \in signs' : c.transfer = t
    BY <2>1, <2>2
  <2> QED
    BY <1>1, <1>2, <1>3, <2>1, <2>5, <2>6, <2>7, GettingOn
<1> QED
  BY <1>4, <1>5

LEMMA BisBalancesStep ==
    ASSUME LoopInv, NEW t \in Transfers, BisBalances(t)
    PROVE  LoopInv'
<1>1. /\ Later /\ InWork(t, "balance") /\ backEnd = "bis"
      /\ UNCHANGED WorkUnstored /\ UNCHANGED posts
  BY DEF LoopInv, BisBalances, WorkUnstored, loop, self, Later
<1>2. PICK fg \in FoundPairs(t) :
          IF {fg[1], fg[2]} \cap Negative # {}
          THEN Drop(t) /\ UNCHANGED signs
          ELSE HasBalances(t, fg[1], fg[2])
  BY DEF BisBalances
<1>3. fg[1] = From[t] /\ fg[2] = To[t]
  BY <1>2 DEF FoundPairs
<1>4. CASE {fg[1], fg[2]} \cap Negative # {}
  BY <1>1, <1>2, <1>3, <1>4, Balancing DEF GivenUp, OwnCause
<1>5. CASE ~({fg[1], fg[2]} \cap Negative # {})
  <2>1. HasBalances(t, fg[1], fg[2])
    BY <1>2, <1>5
  <2>2. Own(t, fg[1], From[t])' /\ Own(t, fg[2], To[t])'
    BY <1>3 DEF Own
  <2> QED
    BY <1>1, <2>1, <2>2, Balancing
<1> QED
  BY <1>4, <1>5

LEMMA Listing ==
    ASSUME LoopInv, Later, NEW t \in Transfers, InWork(t, "balance"),
           UNCHANGED WorkUnstored, UNCHANGED posts,
           NEW missed, missed = {} \/ <<"entry", t>> \in lapses', ListedBalances(t, missed)
    PROVE  LoopInv'
<1> DEFINE f == Entry(From[t], missed)
           g == Entry(To[t], missed)
<1>1. backEnd' = backEnd /\ backEnd \in {"bis", "hiro", "unisat"}
  BY DEF Later, WorkUnstored, LoopInv, Types
<1>2. From[t] \in Pairs /\ To[t] \in Pairs /\ Zero \notin Pairs
  BY ValidatorConstants
<1>3. /\ f = From[t] \/ (f = Zero /\ (EntryAt[From[t]] = 0 \/ <<"entry", t>> \in lapses'))
      /\ g = To[t] \/ (g = Zero /\ (EntryAt[To[t]] = 0 \/ <<"entry", t>> \in lapses'))
  BY DEF Entry
<1>4. CASE backEnd = "hiro"
  <2>1. HasBalances(t, f, g)
    BY <1>4 DEF ListedBalances, HiroBalances
  <2>2. PICK x, y : x = f /\ y = g
    OBVIOUS
  <2>3. Own(t, x, From[t])' /\ Own(t, y, To[t])'
    BY <1>1, <1>3, <1>4, <2>2 DEF Own
  <2> QED
    BY <2>1, <2>2, <2>3, Balancing
<1>5. CASE backEnd = "unisat"
  <2>1. UnisatBalances(t, missed)
    BY <1>5 DEF ListedBalances
  <2>2. CASE Zero \in {f, g}
    <3>1. Drop(t) /\ UNCHANGED signs
      BY <2>1, <2>2 DEF UnisatBalances
    <3>2. GivenUp(t)
      BY <1>1, <1>2, <1>3, <1>5, <2>2 DEF GivenUp, OwnCause, Final
    <3> QED
      BY <3>1, <3>2, Balancing
  <2>3. CASE Zero \notin {f, g}
    <3>1. HasBalances(t, f, g)
      BY <2>1, <2>3 DEF UnisatBalances
    <3>2. PICK x, y : x = f /\ y = g
      OBVIOUS
    <3>3. Own(t, x, From[t])' /\ Own(t, y, To[t])'
      BY <1>3, <2>3, <3>2 DEF Own
    <3> QED
      BY <3>1, <3>2, <3>3, Balancing
  <2> QED
    BY <2>2, <2>3
<1> QED
  BY <1>4, <1>5 DEF ListedBalances

LEMMA ListedBalancesStep ==
    ASSUME LoopInv, NEW t \in Transfers, GetListedBalances(t) \/ ListedBalancesMiss(t)
    PROVE  LoopInv'
<1>1. InWork(t, "balance") /\ UNCHANGED WorkUnstored /\ UNCHANGED posts
  BY DEF LoopInv, GetListedBalances, ListedBalancesMiss, WorkUnstored, loop, self
<1>2. CASE GetListedBalances(t)
  BY <1>1, <1>2, Listing DEF GetListedBalances, Later
<1>3. CASE ListedBalancesMiss(t)
  <2>1. PICK missed \in SUBSET OnLaterPage(t) : ListedBalances(t, missed)
    BY <1>3 DEF ListedBalancesMiss
  <2>2. Later /\ <<"entry", t>> \in lapses'
    BY <1>3, LapseIsLater DEF ListedBalancesMiss
  <2> QED
    BY <1>1, <2>1, <2>2, Listing
<1> QED
  BY <1>2, <1>3

LEMMA BitcoinTxStep ==
    ASSUME LoopInv, NEW t \in Transfers, GetBitcoinTx(t) \/ GetBitcoinTxFails(t)
    PROVE  LoopInv'
<1>1. at = "work" /\ HeightOf(t) = height /\ job[t] = "bitcoin"
  BY DEF LoopInv, Working, Types, GetBitcoinTx, GetBitcoinTxFails, InWork
<1>2. Stored \subseteq Transfers /\ dropped \subseteq Transfers /\ posts \in Seq(Transfers)
      /\ tip \in Int
  BY DEF LoopInv, Types
<1>3. CASE GetBitcoinTx(t)
  <2>1. /\ Go(t, "queued") /\ posts' = Append(posts, t) /\ Later
        /\ UNCHANGED <<backEnd, at, height, to, tip, jumped, proofs, dropped, signs>>
    BY <1>3 DEF GetBitcoinTx, loop, self, past, Later
  <2>2. /\ posts' \in Seq(Transfers)
        /\ \A i \in DOMAIN posts' : \/ \E j \in DOMAIN posts : posts'[i] = posts[j]
                                    \/ posts'[i] = t /\ job[t] = "bitcoin"
    BY <1>1, <1>2, <2>1
  <2>3. Types' /\ Stored' = Stored
    <3>1. job' \in [Transfers -> {"none", "balance", "bitcoin", "queued"}]
      BY <2>1 DEF Go, LoopInv, Types
    <3> QED
      BY <1>1, <1>2, <2>1, <2>2, <3>1 DEF LoopInv, Types, Later, Stored
  <2>4. NothingSlipsBy' /\ SignsOwnFigures'
    BY <1>1, <2>1, <2>3, PastKept
  <2> QED
    BY <1>1, <1>2, <2>1, <2>2, <2>3, <2>4, GettingOn
<1>4. CASE GetBitcoinTxFails(t) /\ BisTxFails(t)
  <2>1. /\ Go(t, "none") /\ dropped' = dropped \cup {t} /\ t \in Seen'
        /\ backEnd = "bis" /\ Lapse("tx", {t})
        /\ UNCHANGED <<backEnd, at, height, to, tip, jumped, proofs, signs, posts>>
    BY <1>4 DEF GetBitcoinTxFails, BisTxFails, Drop, loop, self, Seen, LoopInv, Types
  <2>2. Later /\ GivenUp(t)
    <3>1. Later /\ <<"tx", t>> \in lapses'
      BY <2>1, LapseIsLater
    <3> QED
      BY <2>1, <3>1 DEF GivenUp, Final
  <2>3. Types' /\ Stored' = Stored
    <3>1. job' \in [Transfers -> {"none", "balance", "bitcoin", "queued"}]
      BY <2>1 DEF Go, LoopInv, Types
    <3> QED
      BY <1>1, <1>2, <2>1, <3>1 DEF LoopInv, Types, Stored
  <2>4. NothingSlipsBy' /\ SignsOwnFigures'
    BY <1>1, <2>1, <2>2, <2>3, PastKept
  <2> QED
    BY <1>1, <1>2, <2>1, <2>2, <2>3, <2>4, GettingOn
<1>5. CASE GetBitcoinTxFails(t) /\ Error /\ UNCHANGED <<dropped, lapses>>
  <2>1. ClearBlock /\ at' \notin {"activity", "pages", "work"} /\ Later
    BY <1>5 DEF Error, Later
  <2> QED
    BY <1>1, <1>5, <2>1, Ending DEF GetBitcoinTxFails, Error, self, past
<1> QED
  BY <1>3, <1>4, <1>5 DEF GetBitcoinTxFails, HiroTxFails, UnisatTxFails

LEMMA OrderIsOwn ==
    ASSUME LoopInv, NEW t \in Transfers, HasFound(t)
    PROVE  /\ Order(t).found \in signs /\ Order(t).found.transfer = t
           /\ Order(t).amt = Units[t]
<1>1. FoundFor(t) \in signs /\ FoundFor(t).transfer = t
  BY DEF HasFound, FoundFor
<1>2. Units[t] \in Nat
  BY ValidatorConstants
<1>3. \/ Order(t) = BisOrder(t) \/ Order(t) = HiroOrder(t) \/ Order(t) = UnisatOrder(t)
  BY DEF Order, LoopInv, Types
<1> QED
  BY <1>1, <1>2, <1>3, HiroAmount, UnisatAmount DEF BisOrder, HiroOrder, UnisatOrder

(* A proof is stored only when all that is below its block is seen.        *)
LEMMA Storing ==
    ASSUME LoopInv, Later, at = "work", NEW t \in Transfers, HeightOf(t) = height, HasFound(t),
           proofs' = proofs \cup {Order(t)}, dropped \subseteq dropped',
           UNCHANGED <<backEnd, jumped>>
    PROVE  /\ Stored' = Stored \cup {t} /\ Stored' \subseteq Transfers
           /\ NothingSlipsBy' /\ SignsOwnFigures'
<1>1. /\ Order(t).found \in signs /\ Order(t).found.transfer = t
      /\ Order(t).amt = Units[t]
  BY OrderIsOwn
<1>2. PICK o : o = Order(t)
  OBVIOUS
<1>3. o.found \in signs /\ o.found.transfer = t /\ o.amt = Units[t] /\ proofs' = proofs \cup {o}
  BY <1>1, <1>2
<1>4. Stored' = Stored \cup {t} /\ Stored \subseteq Transfers
  BY <1>3 DEF Stored, LoopInv, Types
<1>5. Stored' \subseteq Transfers
  BY <1>4
<1>6. NothingSlipsBy'
  <2> SUFFICES ASSUME ~jumped
               PROVE  Cleared(Stored', dropped')
    BY <1>5, SlipsFormNext
  <2>1. Cleared(Stored, dropped)
    BY <1>4, SlipsForm DEF LoopInv
  <2>2. \A u \in Transfers : Genesis <= HeightOf(u) /\ HeightOf(u) < HeightOf(t)
                                 => u \in Stored \cup dropped
    BY DEF LoopInv, Passed, InBlock, Seen
  <2> QED
    BY <1>4, <2>1, <2>2 DEF Cleared
<1>7. SignsOwnFigures'
  <2>1. OwnBalances(o.found)
    BY <1>3 DEF LoopInv, Signing
  <2> QED
    BY <1>3, <2>1 DEF LoopInv, SignsOwnFigures, OwnBalances, Own, Later
<1> QED
  BY <1>4, <1>5, <1>6, <1>7

(* The transfer at the head of the queue leaves it.                        *)
LEMMA PostingFacts ==
    ASSUME LoopInv, NEW t \in Transfers, Posting(t)
    PROVE  /\ at = "work" /\ HeightOf(t) = height /\ HasFound(t)
           /\ Stored \subseteq Transfers /\ dropped \subseteq Transfers
           /\ Tail(posts) \in Seq(Transfers)
           /\ \A i \in DOMAIN Tail(posts) : \E j \in DOMAIN posts : Tail(posts)[i] = posts[j]
<1>1. posts \in Seq(Transfers) /\ posts # <<>> /\ t = posts[1] /\ 1 \in DOMAIN posts
  BY DEF LoopInv, Types, Posting
<1>2. /\ Tail(posts) \in Seq(Transfers) /\ Len(Tail(posts)) = Len(posts) - 1
      /\ \A i \in 1..Len(Tail(posts)) : Tail(posts)[i] = posts[i + 1]
  BY <1>1
<1>3. ASSUME NEW i \in DOMAIN Tail(posts)
      PROVE  \E j \in DOMAIN posts : Tail(posts)[i] = posts[j]
  <2>1. i \in 1..Len(Tail(posts)) /\ i + 1 \in DOMAIN posts
    BY <1>1, <1>2
  <2> QED
    BY <1>2, <2>1
<1>4. HeightOf(t) = height /\ HasFound(t)
  BY <1>1 DEF LoopInv, Working
<1> QED
  BY <1>2, <1>3, <1>4 DEF LoopInv, Types, Posting

LEMMA SubmitStep ==
    ASSUME LoopInv, NEW t \in Transfers, Submit(t)
    PROVE  LoopInv'
<1>1. /\ Later /\ Posting(t) /\ Go(t, "none") /\ posts' = Tail(posts)
      /\ UNCHANGED <<backEnd, at, height, to, tip, jumped, signs, dropped>>
      /\ proofs' = proofs \cup {Order(t)}
  BY DEF Submit, Taken, loop, self, Later
<1>2. /\ Stored' = Stored \cup {t} /\ Stored' \subseteq Transfers
      /\ NothingSlipsBy' /\ SignsOwnFigures'
  BY <1>1, PostingFacts, Storing
<1>3. t \in Seen' /\ Stored \subseteq Stored'
  BY <1>2 DEF Seen
<1> QED
  BY <1>1, <1>2, <1>3, PostingFacts, GettingOn

(* The answer 400 is about the transfer, which has no address or is blamed *)
(* for another reason: final for every back end.                           *)
LEMMA SubmitRefusedStep ==
    ASSUME LoopInv, NEW t \in Transfers, NEW cause \in PostCauses, SubmitRefused(t, cause)
    PROVE  LoopInv'
<1>1. /\ Posting(t) /\ Go(t, "none") /\ posts' = Tail(posts)
      /\ UNCHANGED <<backEnd, at, height, to, tip, jumped, signs, proofs>>
      /\ dropped' = dropped \cup {t}
  BY DEF SubmitRefused, Taken, loop, self
<1>2. Later /\ GivenUp(t)
  <2>1. CASE cause = "address"
    <3>1. t \in Undecodable /\ UNCHANGED lapses
      BY <2>1 DEF SubmitRefused, Storable
    <3> QED
      BY <1>1, <3>1, PostingFacts DEF GivenUp, OwnCause, Later, LoopInv, Types
  <2>2. CASE cause # "address"
    <3>1. cause \in OfTheTransfer
      BY BadRequestIsTheTransfers DEF SubmitRefused
    <3>2. Lapse("refused", {t})
      BY <2>2, <3>1 DEF SubmitRefused
    <3>3. Later /\ <<"refused", t>> \in lapses'
      BY <3>2, LapseIsLater
    <3> QED
      BY <3>3 DEF GivenUp, Final, LoopInv, Types
  <2> QED
    BY <2>1, <2>2
<1>3. Stored' = Stored /\ t \in Seen'
  BY <1>1 DEF Stored, Seen
<1>4. Types'
  <2>1. job' \in [Transfers -> {"none", "balance", "bitcoin", "queued"}]
    BY <1>1 DEF Go, LoopInv, Types
  <2> QED
    BY <1>1, <1>3, <2>1, PostingFacts DEF LoopInv, Types
<1>5. NothingSlipsBy' /\ SignsOwnFigures'
  BY <1>1, <1>2, <1>4, PastKept
<1> QED
  BY <1>1, <1>2, <1>3, <1>5, PostingFacts, GettingOn

LEMMA SubmitFailsStep ==
    ASSUME LoopInv, NEW t \in Transfers, SubmitFails(t)
    PROVE  LoopInv'
<1>1. /\ Posting(t) /\ UNCHANGED <<tip, jumped>>
      /\ proofs' = proofs \/ proofs' = proofs \cup {Order(t)}
  BY DEF SubmitFails
<1>2. CASE BisSubmitFails
  <2>1. /\ ClearBlock /\ at' \notin {"activity", "pages", "work"}
        /\ UNCHANGED <<backEnd, height, to, dropped, lapses>> /\ Later
    BY <1>2 DEF BisSubmitFails, Error, self, Later
  <2>2. CASE proofs' = proofs
    BY <1>1, <2>1, <2>2, Ending DEF past
  <2>3. CASE proofs' = proofs \cup {Order(t)}
    <3>1. Stored' \subseteq Transfers /\ NothingSlipsBy' /\ SignsOwnFigures'
      BY <1>1, <2>1, <2>3, PostingFacts, Storing
    <3>2. Passed'
      BY <2>1 DEF Passed, InBlock
    <3>3. /\ height' \in Int /\ to' \in Int /\ tip' \in Int /\ jumped' \in BOOLEAN
          /\ job' = Idle /\ posts' = <<>> /\ signs' \subseteq signs
      BY <1>1, <2>1 DEF LoopInv, Types, ClearBlock
    <3> QED
      BY <1>1, <2>1, <3>1, <3>2, <3>3, Leaving
  <2> QED
    BY <1>1, <2>2, <2>3
<1>3. CASE HiroSubmitFails(t) \/ UnisatSubmitFails(t)
  <2>1. /\ Go(t, "none") /\ posts' = Tail(posts) /\ dropped' = dropped \cup {t}
        /\ UNCHANGED <<backEnd, at, height, to, signs>>
        /\ backEnd # "bis" /\ Lapse("post", {t})
    BY <1>3 DEF HiroSubmitFails, UnisatSubmitFails, Taken, loop, self
  <2>2. Later /\ GivenUp(t)
    <3>1. Later /\ <<"post", t>> \in lapses'
      BY <2>1, LapseIsLater
    <3> QED
      BY <2>1, <3>1 DEF GivenUp, Final, LoopInv, Types
  <2>3. /\ Stored \subseteq Stored' /\ Stored' \subseteq Transfers
        /\ NothingSlipsBy' /\ SignsOwnFigures'
    <3>1. CASE proofs' = proofs
      <4>1. Stored' = Stored
        BY <3>1 DEF Stored
      <4>2. Types'
        <5>1. job' \in [Transfers -> {"none", "balance", "bitcoin", "queued"}]
          BY <2>1 DEF Go, LoopInv, Types
        <5> QED
          BY <1>1, <2>1, <4>1, <5>1, PostingFacts DEF LoopInv, Types
      <4> QED
        BY <1>1, <2>1, <2>2, <3>1, <4>1, <4>2, PostingFacts, PastKept
    <3>2. CASE proofs' = proofs \cup {Order(t)}
      BY <1>1, <2>1, <2>2, <3>2, PostingFacts, Storing
    <3> QED
      BY <1>1, <3>1, <3>2
  <2>4. t \in Seen'
    BY <1>1, <2>1, PostingFacts DEF Seen
  <2> QED
    BY <1>1, <2>1, <2>2, <2>3, <2>4, PostingFacts, GettingOn
<1> QED
  BY <1>2, <1>3 DEF SubmitFails
-----------------------------------------------------------------------------
LEMMA InitLoop ==
    ASSUME Init
    PROVE  LoopInv
<1>1. Stored = {}
  BY DEF Init, Stored
<1>2. Types
  <2>1. job \in [Transfers -> {"none", "balance", "bitcoin", "queued"}] /\ posts \in Seq(Transfers)
    BY DEF Init, Idle
  <2>2. height \in Int /\ to \in Int /\ tip \in Int
    BY ValidatorConstants DEF Init
  <2>3. jumped \in BOOLEAN
    BY Zenon DEF Init
  <2>4. backEnd \in {"bis", "hiro", "unisat"}
    BY ValidatorConstants DEF Init
  <2> QED
    BY <1>1, <2>1, <2>2, <2>3, <2>4 DEF Types, Init
<1>3. Passed /\ Handled /\ Feeding
  BY DEF Init, Passed, InBlock, Handled, Feeding
<1>4. Working /\ Signing
  BY DEF Init, Working, Signing, Idle
<1>5. NothingSlipsBy /\ SignsOwnFigures /\ GivenUpForACause
  BY DEF Init, NothingSlipsBy, SignsOwnFigures, GivenUpForACause
<1> QED
  BY <1>2, <1>3, <1>4, <1>5 DEF LoopInv

LEMMA ModeKept ==
    ASSUME mode \in Modes, [Next]_vars
    PROVE  mode' \in Modes
<1> USE DEF loop, self, vars
<1>1. CASE UNCHANGED vars
  BY <1>1
<1>2. CASE Mine \/ Redeploy
  BY <1>2 DEF Mine, Redeploy
<1>3. CASE Work
  BY <1>3 DEF Work, Start, SyncOnce, BlockDone, Wake, Restart, GetActivity, GetPage,
              GetActivityFails, GetPageFails, RetryPages, Error, BatchTimer, BatchAnswer,
              BisBalances, GetListedBalances, GetBitcoinTx, Submit, SubmitRefused
<1>4. CASE Failures
  BY <1>4 DEF Failures, SyncOnceFails, Crash, GetActivityFails, GetPageFails, RetryPages, Error,
              BatchAnswerLacks, BatchFails, ListedBalancesMiss, ListedBalancesFail,
              GetBitcoinTxFails, BisTxFails, HiroTxFails, UnisatTxFails, SubmitRefused,
              SubmitFails, BisSubmitFails, HiroSubmitFails, UnisatSubmitFails
<1> QED
  BY <1>1, <1>2, <1>3, <1>4 DEF Next

LEMMA NextLoop ==
    ASSUME LoopInv, mode \in Modes, [Next]_vars
    PROVE  LoopInv'
<1>1. CASE UNCHANGED vars
  <2>1. Later /\ tip' \in Int
    BY <1>1 DEF vars, past, LoopInv, Types, Later
  <2> QED
    BY <1>1, <2>1, Staying DEF vars, loop, self, block, past
<1>2. CASE Mine \/ Redeploy
  BY <1>2, QuietStep
<1>3. CASE Work
  BY <1>3, QuietStep, StartStep, SyncOnceStep, BlockDoneStep, GetActivityStep, GetPageStep,
     GetPageFailsStep, BisBalancesStep, ListedBalancesStep, BitcoinTxStep, SubmitStep,
     SubmitRefusedStep DEF Work, PostCauses
<1>4. CASE Failures
  BY <1>4, QuietStep, GetPageFailsStep, ListedBalancesStep, BitcoinTxStep, SubmitRefusedStep,
     SubmitFailsStep DEF Failures
<1> QED
  BY <1>1, <1>2, <1>3, <1>4 DEF Next

(* The invariant behind the three: all that is below the block in hand,    *)
(* and all of it that is not at work, is stored or given up; what is at    *)
(* work has the balances of its own sender and receiver.                   *)
THEOREM ValidatorInductive == Spec => []IInv
<1>1. Init => IInv
  BY InitLoop DEF IInv, Init
<1>2. IInv /\ [Next]_vars => IInv'
  BY NextLoop, ModeKept DEF IInv
<1> QED
  BY <1>1, <1>2, PTL DEF Spec

(* No transfer is passed over by the loop, whatever fails, crashes or is   *)
(* started anew, unless a range is forced beyond the next block.           *)
THEOREM NothingSlipsByCorrect == Spec => []NothingSlipsBy
<1>1. IInv => NothingSlipsBy
  BY DEF IInv, LoopInv
<1> QED
  BY <1>1, ValidatorInductive, PTL

(* A stored proof signs the amount and the balances of its own transfer.   *)
THEOREM SignsOwnFiguresCorrect == Spec => []SignsOwnFigures
<1>1. IInv => SignsOwnFigures
  BY DEF IInv, LoopInv
<1> QED
  BY <1>1, ValidatorInductive, PTL

(* A transfer is given up only for a cause of its own, or after a failure  *)
(* of one of its own steps that its back end takes as final: crashes,      *)
(* failures of other transfers and, with BestInSlot, answers of the API    *)
(* server that are not about the transfer lose none.                       *)
THEOREM GivenUpForACauseCorrect == Spec => []GivenUpForACause
<1>1. IInv => GivenUpForACause
  BY DEF IInv, LoopInv
<1> QED
  BY <1>1, ValidatorInductive, PTL
=============================================================================
