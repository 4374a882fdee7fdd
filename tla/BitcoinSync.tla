------------------------------ MODULE BitcoinSync ------------------------------
(***************************************************************************)
(* The bitcoin-sync worker: an endless loop that copies the headers of the *)
(* best chain from an Electrum server into indexer.blocks.  A round        *)
(*   1. fetches the heights below the highest row that have no row,        *)
(*   2. reads the height of that row, and then the height of the tip,      *)
(*   3. fetches every height from the one to the other,                    *)
(* each time through a queue of Concurrency requests, whose answers come   *)
(* in any order.  The chain may be reorganised meanwhile.                  *)
(***************************************************************************)
EXTENDS Integers, FiniteSets, FiniteSetsExt

CONSTANTS
    Genesis,        \* BITCOIN_SYNC_GENESIS_BLOCK_HEIGHT
    Concurrency,    \* requests of the queue at a time
    MaxHeight,      \* bound: the highest tip
    MaxDepth,       \* bound: blocks a reorganisation replaces
    MaxForks,       \* bound: reorganisations
    MaxFails        \* bound: failures of the worker

ASSUME SyncConstants ==
    /\ Genesis \in Nat /\ Concurrency \in Nat \ {0}
    /\ MaxHeight \in Nat /\ MaxHeight >= Genesis
    /\ MaxDepth \in Nat /\ MaxForks \in Nat /\ MaxFails \in Nat

Heights == Genesis..MaxHeight

(* A block: its height, the branch it is on (its header, with them), and   *)
(* how far below the tip of that time the block was that it replaced (0    *)
(* for a block that replaced the tip or nothing).                          *)
Blocks == [height : Heights, fork : 0..MaxForks, under : 0..MaxDepth]

VARIABLES
    chain,      \* the best chain of the Electrum server, from Genesis on
    fork,       \* reorganisations so far
    blocks,     \* indexer.blocks: all rows have canonical = true
    sync,       \* what the worker is doing
    fails       \* failures so far

vars == <<chain, fork, blocks, sync, fails>>

(* at: "missing" (before the select of step 1), "fill" (its queue), "from" *)
(* and "to" (before the reads of step 2), "fetch" (the queue of step 3),   *)
(* "sleep", "down" (the process ended).                                    *)
(* waiting: heights not answered yet; answered: blocks not inserted yet.   *)
Syncs == [at : {"missing", "fill", "from", "to", "fetch", "sleep", "down"},
          from : Heights, waiting : SUBSET Heights, answered : SUBSET Blocks]
Fresh == [at |-> "missing", from |-> Genesis, waiting |-> {}, answered |-> {}]

Tip == Cardinality(DOMAIN chain) + Genesis - 1
Stored == {b.height : b \in blocks}

TypeOK ==
    /\ Tip \in Heights /\ chain \in [Genesis..Tip -> Blocks]
    /\ \A h \in DOMAIN chain : chain[h].height = h
    /\ fork \in 0..MaxForks
    /\ blocks \subseteq Blocks
    /\ sync \in Syncs
    /\ fails \in 0..MaxFails

Block(h, f, u) == [height |-> h, fork |-> f, under |-> u]

Init ==
    /\ \E tip \in Heights : chain = [h \in Genesis..tip |-> Block(h, 0, 0)]
    /\ fork = 0
    /\ blocks = {}
    /\ sync = Fresh
    /\ fails = 0
-----------------------------------------------------------------------------
(* The Bitcoin network.                                                    *)

Mine ==
    /\ Tip < MaxHeight
    /\ chain' = [h \in Genesis..(Tip + 1) |->
                   IF h <= Tip THEN chain[h] ELSE Block(h, fork, 0)]
    /\ UNCHANGED <<fork, blocks, sync, fails>>

(* A longer branch takes the place of the last blocks.                     *)
Reorganise ==
    /\ Tip < MaxHeight /\ fork < MaxForks
    /\ fork' = fork + 1
    /\ \E depth \in 1..MaxDepth :
         /\ depth <= Tip - Genesis + 1
         /\ chain' = [h \in Genesis..(Tip + 1) |->
                        IF h <= Tip - depth THEN chain[h]
                        ELSE Block(h, fork + 1, IF h < Tip THEN Tip - h ELSE 0)]
    /\ UNCHANGED <<blocks, sync, fails>>
-----------------------------------------------------------------------------
(* The worker.                                                             *)

(* The highest row's height, or the first height.                          *)
FromAbove ==        \* altered form: the block after the highest row
    IF blocks = {} THEN Genesis ELSE Min({Max(Stored) + 1, MaxHeight})
FromBlockHeight == IF blocks = {} THEN Genesis ELSE Max(Stored)

NoneMissing == {}   \* altered form: holes are not looked for
MissingBlocks == {h \in Heights : h \notin Stored /\ \E s \in Stored : h < s}

SyncMissingBlocks ==
    /\ sync.at = "missing"
    /\ sync' = [sync EXCEPT !.at = "fill", !.waiting = MissingBlocks]
    /\ UNCHANGED <<chain, fork, blocks, fails>>

GetFromBlockHeight ==
    /\ sync.at = "from"
    /\ sync' = [sync EXCEPT !.at = "to", !.from = FromBlockHeight]
    /\ UNCHANGED <<chain, fork, blocks, fails>>

SyncBelowTip ==     \* altered form: the range ends before the tip
    /\ sync.at = "to"
    /\ sync' = [sync EXCEPT !.at = "fetch", !.waiting = sync.from..(Tip - 1)]
    /\ UNCHANGED <<chain, fork, blocks, fails>>
SyncFrom ==
    /\ sync.at = "to"
    /\ sync' = [sync EXCEPT !.at = "fetch", !.waiting = sync.from..Tip]
    /\ UNCHANGED <<chain, fork, blocks, fails>>

(* The queue takes the heights in order; one whose answer is being         *)
(* inserted still counts.                                                  *)
Asked == {h \in sync.waiting :
            Cardinality({w \in sync.waiting : w <= h})
              + Cardinality(sync.answered) <= Concurrency}

(* The server answers with its best chain of that moment.                  *)
Answer ==
    /\ sync.at \in {"fill", "fetch"}
    /\ \E h \in Asked \cap DOMAIN chain :
         sync' = [sync EXCEPT !.waiting = @ \ {h}, !.answered = @ \cup {chain[h]}]
    /\ UNCHANGED <<chain, fork, blocks, fails>>

InsertBlock ==
    /\ sync.at \in {"fill", "fetch"}
    /\ \E b \in sync.answered :
         /\ blocks' = blocks \cup {b}
         /\ sync' = [sync EXCEPT !.answered = @ \ {b}]
    /\ UNCHANGED <<chain, fork, fails>>

(* queue.onIdle() resolves when the last insert is done.                   *)
OnIdle ==
    /\ sync.at \in {"fill", "fetch"}
    /\ sync.waiting = {} /\ sync.answered = {}
    /\ sync' = [sync EXCEPT !.at = IF @ = "fill" THEN "from" ELSE "sleep"]
    /\ UNCHANGED <<chain, fork, blocks, fails>>

Wake ==
    /\ sync.at = "sleep"
    /\ sync' = Fresh
    /\ UNCHANGED <<chain, fork, blocks, fails>>

(* A header that cannot be fetched in eleven attempts, or an insert that   *)
(* fails, is a rejection nobody handles and ends the process; any other    *)
(* failure rejects start, which main.ts only logs: the loop has ended, and *)
(* somebody has to start the process again.                                *)
Fail ==
    /\ sync.at \notin {"sleep", "down"}
    /\ fails < MaxFails /\ fails' = fails + 1
    /\ sync' = [Fresh EXCEPT !.at = "down"]
    /\ UNCHANGED <<chain, fork, blocks>>

Restart ==
    /\ sync.at = "down"
    /\ sync' = Fresh
    /\ UNCHANGED <<chain, fork, blocks, fails>>

Work == \/ SyncMissingBlocks \/ GetFromBlockHeight \/ SyncFrom
        \/ Answer \/ InsertBlock \/ OnIdle \/ Wake \/ Restart

Next == Mine \/ Reorganise \/ Work \/ Fail

(* The server answers, the event loop runs; that the process is started    *)
(* again is the deployment's, and is assumed.                              *)
Spec == Init /\ [][Next]_vars /\ WF_vars(Work)
-----------------------------------------------------------------------------
(* Between two rounds there is no hole, though a failure in the midst of a *)
(* queue leaves heights without a row below others that have one.          *)
WholeAtRest ==
    sync.at = "sleep" => \A s \in Stored : Genesis..s \subseteq Stored

(* Every height of the best chain gets a row.                              *)
EveryHeightIsStored == \A h \in Heights : h \in DOMAIN chain ~> h \in Stored

(* A block of the best chain gets its row, with two exceptions, for the    *)
(* heights below the highest row are never fetched again: blocks that      *)
(* replaced blocks under the tip, and, as the rows of a round are inserted *)
(* in any order, the lower blocks of a round that failed.                  *)
Behind(h) ==
    /\ h \in DOMAIN chain /\ chain[h].under = 0 /\ chain[h] \notin blocks
    /\ fails = 0
BestIsStored == \A h \in Heights : Behind(h) ~> ~Behind(h)
=============================================================================
