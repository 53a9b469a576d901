-------------------------- MODULE WalletSynchronizer --------------------------
(***************************************************************************)
(* The thread that scans the chain for a wallet (WalletSynchronizer with   *)
(* its SynchronizationStatus), and the daemon it asks (Core behind its     *)
(* RPC calls, with the heights Nigel caches).  The daemon may reorganise   *)
(* its chain between any two questions.                                    *)
(*                                                                         *)
(* The thread stops at the steps where another thread can get in: it takes *)
(* the wallet's mutex once per step, or asks the daemon.                   *)
(***************************************************************************)
EXTENDS SubWallets

CONSTANTS
    Block, Genesis,
    Prev,                  \* Prev[b]: the block below b
    TxsOf,                 \* TxsOf[b]: the transactions of b that touch an Output, in order
    Outgoing,              \* the transactions this wallet can make; others come from outside
    Moves,                 \* the changes of the daemon's top block that are considered
    StartHeight,           \* m_startHeight of a new wallet
    BlockCount,            \* BLOCKS_SYNCHRONIZING_DEFAULT_COUNT
    LastKnownHashesSize,   \* LAST_KNOWN_BLOCK_HASHES_SIZE
    CheckpointsInterval,   \* BLOCK_HASH_CHECKPOINTS_INTERVAL
    Obscurity              \* GLOBAL_INDEXES_OBSCURITY

HeightOf[b \in Block] == IF b = Genesis THEN 0 ELSE HeightOf[Prev[b]] + 1
ChainTo[b \in Block] == IF b = Genesis THEN {b} ELSE {b} \cup ChainTo[Prev[b]]
TxsOn(b) == UNION {ToSet(TxsOf[x]) : x \in ChainTo[b]}
CreatedOn(b) == UNION {Outs[t] : t \in TxsOn(b)}
SpentOn(b) == UNION {Ins[t] : t \in TxsOn(b)}

VARIABLES
    wallet,            \* the books of SubWallets
    status,            \* m_syncStatus: height, hashes (newest first), checkpoints
    startHeight,       \* m_startHeight
    syncAt,            \* where the thread stands
    blocks,            \* what is left of the downloaded blocks
    scan,              \* blockScanInfo of the block in work
    tip, pool,         \* the daemon's top block, and which of our transactions it has pooled
    relayed,           \* the transactions the daemon has ever accepted from us
    daemonHeight,      \* m_localDaemonBlockCount, as last asked for
    failure            \* the exception that ended the thread or the process, or "none"

syncVars == <<wallet, status, startHeight, syncAt, blocks, scan, failure>>
daemonVars == <<tip, pool, relayed, daemonHeight>>

NoStatus == [height |-> 0, hashes |-> <<>>, checkpoints |-> <<>>]
NoScan == [txs |-> <<>>, inputs |-> <<>>, spent |-> <<>>]

SyncInit ==
    /\ wallet = NoSubWallets /\ status = NoStatus /\ startHeight = StartHeight
    /\ syncAt = "loop" /\ blocks = <<>> /\ scan = NoScan /\ failure = "none"
    /\ tip = Genesis /\ pool = {} /\ relayed = {} /\ daemonHeight = 0

-----------------------------------------------------------------------------
(* The daemon.                                                             *)

CanBeMined(t, b) == t \notin TxsOn(b) /\ Ins[t] \subseteq CreatedOn(b) \ SpentOn(b)

\* A block is found, or the chain is reorganised to a higher one: the transactions of the
\* blocks that fell out return to the pool if they still can be mined.
DaemonMoves ==
    \E b \in Block :
        /\ HeightOf[b] > HeightOf[tip] /\ <<tip, b>> \in Moves
        /\ TxsOn(b) \cap Outgoing \subseteq relayed
        /\ tip' = b
        /\ pool' = {t \in pool \cup (TxsOn(tip) \cap Outgoing) : CanBeMined(t, b)}
        /\ UNCHANGED <<relayed, daemonHeight, syncVars>>

\* TransactionPoolCleanWrapper::clean deletes what has been pooled for too long.
DaemonForgets ==
    \E t \in pool : pool' = pool \ {t} /\ UNCHANGED <<tip, relayed, daemonHeight, syncVars>>

\* Nigel::backgroundRefresh.
RefreshDaemonInfo ==
    /\ daemonHeight # HeightOf[tip]
    /\ daemonHeight' = HeightOf[tip]
    /\ UNCHANGED <<tip, pool, relayed, syncVars>>

BlockAt(b, h) == CHOOSE x \in ChainTo[b] : HeightOf[x] = h

\* Core::findBlockchainSupplement: the first of the hashes the main chain has.
Known(hashes) == \E i \in DOMAIN hashes : hashes[i] \in ChainTo[tip]
FindBlockchainSupplement(hashes) ==
    IF hashes = <<>> THEN 0
    ELSE HeightOf[hashes[SelectInSeq(hashes, LAMBDA b : b \in ChainTo[tip])]]

StartIndex(hashes, from) ==
    LET last == FindBlockchainSupplement(hashes)
    IN  Max({IF last = 0 THEN 0 ELSE last + 1, from})

\* Core::getWalletSyncData for a wallet without a start timestamp.
GetWalletSyncData(hashes, from) ==
    LET start == StartIndex(hashes, from)
        end == Min({start + BlockCount - 1, HeightOf[tip]})
    IN  [i \in 1 .. end - start + 1 |-> BlockAt(tip, start + i - 1)]

\* Core::getGlobalIndexesForRange, asked for the range of heights around a block.
IndexedAround(h) ==
    LET low == h - (h % Obscurity)
    IN  UNION {ToSet(TxsOf[b]) : b \in {x \in ChainTo[tip] : HeightOf[x] \in low .. low + Obscurity - 1}}

-----------------------------------------------------------------------------
(* SynchronizationStatus.                                                  *)

NewestHash == IF status.hashes = <<>> THEN <<>> ELSE <<Head(status.hashes)>>
BlockHashCheckpoints == status.hashes \o status.checkpoints

InOrder(h) == h <= status.height \/ status.height = 0 \/ h = status.height + 1

StoreBlockHash(b) ==
    LET h == HeightOf[b]
    IN  [height |-> h,
         hashes |-> SubSeq(<<b>> \o status.hashes, 1,
                           Min({Len(status.hashes) + 1, LastKnownHashesSize})),
         checkpoints |-> IF h % CheckpointsInterval = 0
                         THEN <<b>> \o status.checkpoints ELSE status.checkpoints]

-----------------------------------------------------------------------------
(* The thread.                                                             *)

Alive == failure = "none"
Fail(why) == failure' = why /\ UNCHANGED <<wallet, status, startHeight, syncAt, blocks, scan>>

GotBlocks ==
    /\ daemonHeight >= status.height
    /\ BlockHashCheckpoints = <<>> \/ Known(BlockHashCheckpoints)
    /\ GetWalletSyncData(BlockHashCheckpoints, startHeight) # <<>>

\* downloadBlocks returns the next blocks of the daemon's chain...
DownloadBlocks ==
    /\ Alive /\ syncAt = "loop" /\ GotBlocks
    /\ blocks' = GetWalletSyncData(BlockHashCheckpoints, startHeight)
    /\ syncAt' = "blocks"
    /\ UNCHANGED <<wallet, status, startHeight, scan, failure, daemonVars>>

\* ... or none: the daemon is behind, has nothing new, knows none of the hashes, or does
\* not answer.
DownloadNothing ==
    /\ Alive /\ syncAt = "loop"
    /\ syncAt' = "empty"
    /\ UNCHANGED <<wallet, status, startHeight, blocks, scan, failure, daemonVars>>

LockedHashes == {x.hash : x \in wallet.lockedTxs}
\* Core::getTransactionsStatus, transactionsUnknown.
UnknownToDaemon(hashes) == {t \in hashes : t \notin pool /\ t \notin TxsOn(tip)}

\* checkLockedTransactions, when the thread holds itself for synced; the daemon may not answer.
CheckLockedTransactions ==
    /\ Alive /\ syncAt = "empty"
    /\ status.height >= daemonHeight /\ ~IsViewWallet
    /\ LET cancelled == UnknownToDaemon(LockedHashes)
       IN  wallet' = IF cancelled # {} THEN RemoveCancelledTransactions(wallet, cancelled) ELSE wallet
    /\ syncAt' = "loop"
    /\ UNCHANGED <<status, startHeight, blocks, scan, failure, daemonVars>>

SkipLockedTransactions ==
    /\ Alive /\ syncAt = "empty"
    /\ syncAt' = "loop"
    /\ UNCHANGED <<wallet, status, startHeight, blocks, scan, failure, daemonVars>>

BatchDone ==
    /\ Alive /\ syncAt = "blocks" /\ blocks = <<>>
    /\ syncAt' = "loop"
    /\ UNCHANGED <<wallet, status, startHeight, blocks, scan, failure, daemonVars>>

ForkedAt(b) == status.height >= HeightOf[b]

\* processBlock begins: a block that is not above the last one means a fork.
BeginBlock ==
    /\ Alive /\ syncAt = "blocks" /\ blocks # <<>>
    /\ wallet' = IF ForkedAt(Head(blocks))
                 THEN RemoveForkedTransactions(wallet, HeightOf[Head(blocks)]) ELSE wallet
    /\ syncAt' = "outputs"
    /\ UNCHANGED <<status, startHeight, blocks, scan, failure, daemonVars>>

OurOuts(t) == {o \in Outs[t] : OwnerOf[o] \in wallet.keys}
OurIns(t) == {o \in Ins[t] : GetKeyImageOwner(wallet, o)}
Transfers(t) == {OwnerOf[o] : o \in OurOuts(t) \cup OurIns(t)}
\* processBlockTransactions, with the wallet as it is before the block's own inputs.
BlockScanInfo(b) ==
    LET ours == SelectSeq(TxsOf[b], LAMBDA t : Transfers(t) # {})
    IN  [txs |-> [i \in DOMAIN ours |-> [hash |-> ours[i], transfers |-> Transfers(ours[i])]],
         inputs |-> FlattenSeq([i \in DOMAIN ours |-> SetToSeq(OurOuts(ours[i]))]),
         spent |-> FlattenSeq([i \in DOMAIN ours |-> SetToSeq(OurIns(ours[i]))])]

NeedsIndexes(b) == {t \in ToSet(TxsOf[b]) : ~IsViewWallet /\ OurOuts(t) # {}}

ScanBlock ==
    /\ Alive /\ syncAt = "outputs"
    /\ NeedsIndexes(Head(blocks)) \subseteq IndexedAround(HeightOf[Head(blocks)])
    /\ scan' = BlockScanInfo(Head(blocks))
    /\ syncAt' = "add"
    /\ UNCHANGED <<wallet, status, startHeight, blocks, failure, daemonVars>>

\* The daemon does not answer, or no longer has a transaction of ours: processBlock returns,
\* and mainLoop goes on with the next block of the batch.
AbandonBlock ==
    /\ Alive /\ syncAt = "outputs"
    /\ NeedsIndexes(Head(blocks)) # {}
    /\ blocks' = Tail(blocks)
    /\ syncAt' = "blocks"
    /\ UNCHANGED <<wallet, status, startHeight, scan, failure, daemonVars>>

AddTransactions ==
    /\ Alive /\ syncAt = "add"
    /\ IF \A x \in ToSet(scan.txs) : CanAdd(wallet, x.hash)
       THEN /\ wallet' = FoldLeft(LAMBDA w, x : AddTransaction(w, x.hash, HeightOf[Head(blocks)], x.transfers),
                                  wallet, scan.txs)
            /\ syncAt' = "store"
            /\ UNCHANGED <<status, startHeight, blocks, scan, failure>>
       ELSE Fail("addedTwice")
    /\ UNCHANGED daemonVars

StoreInputs ==
    /\ Alive /\ syncAt = "store"
    /\ wallet' = FoldLeft(LAMBDA w, o : StoreTransactionInput(w, o, HeightOf[Head(blocks)]),
                          wallet, scan.inputs)
    /\ syncAt' = "mark"
    /\ UNCHANGED <<status, startHeight, blocks, scan, failure, daemonVars>>

MarkInputs ==
    /\ Alive /\ syncAt = "mark"
    /\ IF \A o \in ToSet(scan.spent) : CanMarkSpent(wallet, o)
       THEN /\ wallet' = FoldLeft(LAMBDA w, o : MarkInputAsSpent(w, o, HeightOf[Head(blocks)]),
                                  wallet, scan.spent)
            /\ syncAt' = "hash"
            /\ UNCHANGED <<status, startHeight, blocks, scan, failure>>
       ELSE Fail("noKeyToRemove")
    /\ UNCHANGED daemonVars

FinishBlock ==
    /\ Alive /\ syncAt = "hash"
    /\ IF InOrder(HeightOf[Head(blocks)])
       THEN /\ status' = StoreBlockHash(Head(blocks))
            /\ blocks' = Tail(blocks) /\ scan' = NoScan /\ syncAt' = "blocks"
            /\ UNCHANGED <<wallet, startHeight, failure>>
       ELSE Fail("blocksMissed")
    /\ UNCHANGED daemonVars

SyncStep ==
    \/ DownloadBlocks \/ DownloadNothing \/ CheckLockedTransactions \/ SkipLockedTransactions
    \/ BatchDone \/ BeginBlock \/ ScanBlock \/ AbandonBlock \/ AddTransactions
    \/ StoreInputs \/ MarkInputs \/ FinishBlock

\* removeForkedTransactions, reset and the like run with the thread stopped: it has left
\* mainLoop at one of the tests of m_shouldStop, and what it had downloaded is gone.
Paused == syncAt \in {"loop", "blocks", "empty"}
=============================================================================
