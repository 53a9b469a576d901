------------------------------ MODULE MCWallets ------------------------------
(***************************************************************************)
(* Instances for TLC of the two families of wallets: the wallet backend of  *)
(* zedwallet++ and the wallet API (WalletBackend), and, below               *)
(* turtle-service, the consumers and their containers, the blockchain       *)
(* synchronizer, WalletGreen and the file of its keys.                      *)
(***************************************************************************)
EXTENDS Integers, Sequences, FiniteSets, TLC

CONSTANTS o1, o2, o3, in1, in2, in3, out1, out2, pay1, pay3, k1, k2, adr1, adr2, c1, c2, p1,
    p2, NoBlock

VARIABLES
    scenario,       \* the instance that the behaviour is of
    \* WalletBackend
    wallet, status, startHeight, syncAt, blocks, scan, tip, pool, relayed, daemonHeight,
    failure, sendAt, sending, toLock, file,
    \* TransfersConsumer
    subs, poolTxs, seen, chain, failed,
    \* BlockchainSynchronizer
    node, current, future, worker, consumer, lastBlockId, observing, wasStarted, completed,
    task, left,
    \* WalletGreen
    greenNode, sync, phase, calls, w, op, disk, used,
    \* WalletTransfers
    transfers, mine, listed, reported,
    \* WalletStorage
    dir, vec, upd, storageW, storageOp

---------------------------------------------------------------------------
\* Trees of blocks and transactions for WalletBackend.  A block is a number; 0 is the genesis.

\* in1 pays o1 and in2 pays o3; out1 and out2 both spend o1; out1 has o2 as change.
BackendIns == (in1 :> {}) @@ (in2 :> {}) @@ (out1 :> {o1}) @@ (out2 :> {o1})
BackendOuts == (in1 :> {o1}) @@ (in2 :> {o3}) @@ (out1 :> {o2}) @@ (out2 :> {})
OneOwner == (o1 :> k1) @@ (o2 :> k1) @@ (o3 :> k1)
TwoOwners == (o1 :> k1) @@ (o2 :> k1) @@ (o3 :> k2)
NotLocked == (o1 :> 0) @@ (o2 :> 0) @@ (o3 :> 0)
LockedReward == (o1 :> 3) @@ (o2 :> 0) @@ (o3 :> 0)

\* Chains without a fork: in1 at 1, in2 at 2, then out1 or out2 at once, later or never.
LinePrev == (1 :> 0) @@ (2 :> 1) @@ (3 :> 2) @@ (4 :> 2) @@ (5 :> 2) @@ (6 :> 3) @@ (7 :> 3)
LineTxs == (0 :> <<>>) @@ (1 :> <<in1>>) @@ (2 :> <<in2>>) @@ (3 :> <<>>) @@ (4 :> <<out1>>)
           @@ (5 :> <<out2>>) @@ (6 :> <<out1>>) @@ (7 :> <<out2>>)
LineMoves == {m \in (0 .. 7) \X (0 .. 7) :
                m[1] = m[2] \/ (m[1] <= 2 /\ m[1] < m[2]) \/ (m[1] = 3 /\ m[2] \in {6, 7})}

\* Branches that take over from one another and never come back: 3, 4-5, 6-7-8 above 2.
ForkPrev == (1 :> 0) @@ (2 :> 1) @@ (3 :> 2) @@ (4 :> 2) @@ (5 :> 4) @@ (6 :> 2) @@ (7 :> 6) @@ (8 :> 7)
ForkTxs == (0 :> <<>>) @@ (1 :> <<>>) @@ (2 :> <<in1>>) @@ (3 :> <<in2>>) @@ (4 :> <<>>)
           @@ (5 :> <<in2>>) @@ (6 :> <<in2>>) @@ (7 :> <<>>) @@ (8 :> <<>>)
ForkMoves == {0, 1, 2, 3, 5, 8} \X {0, 1, 2, 3, 5, 8}

\* A branch that both pays o1 and spends it, and one that does neither.
SpendPrev == (1 :> 0) @@ (2 :> 1) @@ (3 :> 2) @@ (4 :> 1) @@ (5 :> 4) @@ (6 :> 5)
SpendTxs == (0 :> <<>>) @@ (1 :> <<>>) @@ (2 :> <<in1>>) @@ (3 :> <<out1>>) @@ (4 :> <<>>)
            @@ (5 :> <<>>) @@ (6 :> <<>>)
SpendMoves == {0, 1, 3, 6} \X {0, 1, 3, 6}

---------------------------------------------------------------------------
\* Block trees and transactions for TransfersConsumer.
OneInput(k) == <<[key |-> k, amount |-> 1]>>

\* t0 pays alice o0; t1 pays alice o1 and bob p1; t2 spends o0 and pays change o2 and
\* bob p2; t3 spends o1; t4 is somebody else's, and t5 and t6 have no public key.
PaidOutput == {"o0", "o1", "o2", "p1", "p2"}
PaidOutTx == [o0 |-> "t0", o1 |-> "t1", o2 |-> "t2", p1 |-> "t1", p2 |-> "t2"]
PaidOutSub == [o0 |-> "alice", o1 |-> "alice", o2 |-> "alice", p1 |-> "bob", p2 |-> "bob"]
PaidIns == [t0 |-> <<>>, t1 |-> <<>>, t2 |-> OneInput("o0"), t3 |-> OneInput("o1"), t4 |-> OneInput("x"),
            t5 |-> <<>>, t6 |-> <<>>]

\* f0 - b0 - b1 - b2
\*        \- c1 - c2
PaidParent == [f0 |-> NoBlock, b0 |-> "f0", b1 |-> "b0", b2 |-> "b1", c1 |-> "b0", c2 |-> "c1"]
PaidBlockTxs == [f0 |-> <<"t4">>, b0 |-> <<"t5", "t0">>, b1 |-> <<"t1", "t4">>, b2 |-> <<"t3", "t2">>,
                 c1 |-> <<"t2", "t1">>, c2 |-> <<"t3", "t6">>]

\* t0, t1 and t2 pay outputs with one key; t3 spends the one of t0 or t1.
DupOutput == {"o0", "o1", "o2"}
DupOutTx == [o0 |-> "t0", o1 |-> "t1", o2 |-> "t2"]
DupIns == [t0 |-> <<>>, t1 |-> <<>>, t2 |-> <<>>, t3 |-> OneInput("k")]
DupParent == [b0 |-> NoBlock, b1 |-> "b0", b2 |-> "b1", b3 |-> "b2", c1 |-> "b0", c2 |-> "c1"]
DupBlockTxs == [b0 |-> <<"t0">>, b1 |-> <<"t1">>, b2 |-> <<"t2">>, b3 |-> <<"t3">>, c1 |-> <<"t2", "t1">>, c2 |-> <<"t3">>]

---------------------------------------------------------------------------
\* Chains for BlockchainSynchronizer: a late and an early fork.
FirstChain == <<0, 1, 2, 3>>
ForkedChains == {FirstChain, <<0, 1, 2, 3, 4>>, <<0, 1, 2, 13, 14>>, <<0, 21, 22, 23, 24, 25>>}
LongChain == <<0, 1, 2, 3, 4, 5>>
LongForks == {LongChain, LongChain \o <<6>>, <<0, 1, 2, 3, 4, 15, 16>>, <<0, 21, 22, 23, 24, 25, 26, 27>>}
GrownChains == {FirstChain, <<0, 1, 2, 3, 4>>}

---------------------------------------------------------------------------
\* WalletGreen's addresses: in1 and in3 pay adr1, in2 pays adr2; pay1 and pay3 each spend one of
\* adr1's and leave a change.
GreenOut(txs) == [t \in txs |-> [x \in {adr1, adr2} |->
    CASE t \in {in1, in3} /\ x = adr1 -> 4 [] t = in2 /\ x = adr2 -> 8
      [] t \in {pay1, pay3} /\ x = adr1 -> 1 [] OTHER -> 0]]
GreenSpends(txs) == [t \in txs |-> CASE t = pay1 -> {in1} [] t = pay3 -> {in3} [] OTHER -> {}]

\* A payment from others, a transaction the wallet makes with two payments to one of its
\* addresses, and a transfer between its addresses.
BookIn == <<[x |-> 0, y |-> 0, unknown |-> 6], [x |-> 6, y |-> 3, unknown |-> 0],
            [x |-> 2, y |-> 0, unknown |-> 1]>>
BookPays == <<[x |-> 5, y |-> 0, f |-> 1], [x |-> 3, y |-> 0, f |-> 5], [x |-> 0, y |-> 2, f |-> 0]>>
BookDest == <<<<>>, <<[address |-> "f", amount |-> 5], [address |-> "x", amount |-> 1],
                      [address |-> "x", amount |-> 2]>>, <<>>>>

\* The steps of the key file that may fail.
FileSteps == {"removeBak", "create", "flushTmp", "renameOld", "renameNew", "restore", "flushSize",
              "flush"}

----------------------------------------------------------------------------
\* The instances.

Sends == INSTANCE WalletBackend WITH Output <- {o1, o2, o3}, Tx <- {in1, in2, out1, out2},
    Ins <- BackendIns, Outs <- BackendOuts, SpendKey <- {k1}, Primary <- k1, OwnerOf <-
    OneOwner, UnlockTime <- LockedReward, IsViewWallet <- FALSE, Genesis <- 0, Block <- 0 ..
    7, Prev <- LinePrev, TxsOf <- LineTxs, Outgoing <- {out1, out2}, Moves <- LineMoves,
    StartHeight <- 1, BlockCount <- 1, LastKnownHashesSize <- 2, CheckpointsInterval <- 2,
    Obscurity <- 2, Concurrent <- TRUE, Operations <- {}, ResetHeights <- {1}, OtherDaemons
    <- {}
Forks == INSTANCE WalletBackend WITH Output <- {o1, o2, o3}, Tx <- {in1, in2, out1, out2},
    Ins <- BackendIns, Outs <- BackendOuts, SpendKey <- {k1, k2}, Primary <- k1, OwnerOf <-
    TwoOwners, UnlockTime <- NotLocked, IsViewWallet <- FALSE, Genesis <- 0, Block <- 0 ..
    8, Prev <- ForkPrev, TxsOf <- ForkTxs, Outgoing <- {}, Moves <- ForkMoves, StartHeight
    <- 2, BlockCount <- 1, LastKnownHashesSize <- 2, CheckpointsInterval <- 2, Obscurity <-
    2, Concurrent <- FALSE, Operations <- {"save", "reopen", "reset", "add", "import",
    "delete", "swap"}, ResetHeights <- {1, 3}, OtherDaemons <- {8}
View == INSTANCE WalletBackend WITH Output <- {o1, o2, o3}, Tx <- {in1, in2, out1, out2},
    Ins <- BackendIns, Outs <- BackendOuts, SpendKey <- {k1}, Primary <- k1, OwnerOf <-
    OneOwner, UnlockTime <- NotLocked, IsViewWallet <- TRUE, Genesis <- 0, Block <- 0 .. 6,
    Prev <- SpendPrev, TxsOf <- SpendTxs, Outgoing <- {}, Moves <- SpendMoves, StartHeight
    <- 1, BlockCount <- 1, LastKnownHashesSize <- 3, CheckpointsInterval <- 2, Obscurity <-
    2, Concurrent <- FALSE, Operations <- {"save", "reopen"}, ResetHeights <- {1},
    OtherDaemons <- {}
Paid == INSTANCE TransfersConsumer WITH Tx <- {"t0", "t1", "t2", "t3", "t4", "t5", "t6"},
    Output <- PaidOutput, OutTx <- PaidOutTx, OutSub <- PaidOutSub, OutKey <- [o \in
    PaidOutput |-> o], OutAmount <- [o \in PaidOutput |-> 1], Ins <- PaidIns, Sub <-
    {"alice", "bob"}, Block <- DOMAIN PaidParent, Parent <- PaidParent, BlockTxs <-
    PaidBlockTxs, UnconfirmedHeight <- 20, Filtered <- {"f0"}, NoKey <- {"t5", "t6"},
    MaxBatch <- 2, FindFails <- FALSE, OwnSends <- {"t2"}, DetachHeights <- {1, 2, 3}
Doubled == INSTANCE TransfersConsumer WITH Tx <- DOMAIN DupIns, Output <- DupOutput, OutTx
    <- DupOutTx, OutSub <- [o \in DupOutput |-> "alice"], OutKey <- [o \in DupOutput |->
    "k"], OutAmount <- [o0 |-> 1, o1 |-> 1, o2 |-> 2], Ins <- DupIns, Sub <- {"alice"},
    Block <- DOMAIN DupParent, Parent <- DupParent, BlockTxs <- DupBlockTxs,
    UnconfirmedHeight <- 20, Filtered <- {}, NoKey <- {}, MaxBatch <- 2, FindFails <- TRUE,
    OwnSends <- {}, DetachHeights <- {1, 2}
Synced == INSTANCE BlockchainSynchronizer WITH Consumer <- {c1, c2}, Chains <- ForkedChains,
    First <- FirstChain, Tx <- {}, Dense <- 1, Batch <- 4, MaxFails <- 0, MaxStops <- 1,
    MaxPool <- 0, MaxCalls <- 0, MaxRemoves <- 1, FewestAdded <- 1
Unsteady == INSTANCE BlockchainSynchronizer WITH Consumer <- {c1}, Chains <- LongForks,
    First <- LongChain, Tx <- {}, Dense <- 10, Batch <- 6, MaxFails <- 1, MaxStops <- 1,
    MaxPool <- 0, MaxCalls <- 0, MaxRemoves <- 0, FewestAdded <- 3
Pooled == INSTANCE BlockchainSynchronizer WITH Consumer <- {c1, c2}, Chains <- GrownChains,
    First <- FirstChain, Tx <- {in1}, Dense <- 1, Batch <- 4, MaxFails <- 0, MaxStops <- 1,
    MaxPool <- 1, MaxCalls <- 1, MaxRemoves <- 0, FewestAdded <- 1
Making == INSTANCE WalletGreen WITH node <- greenNode, Addr <- {adr1, adr2}, Tx <- {in1,
    pay1}, Made <- {pay1}, Out <- GreenOut({in1, pay1}), Spends <- GreenSpends({in1, pay1}),
    Age <- 1, Mined <- {in1}, Start <- {adr1}, Deletable <- {}, MaxTip <- 2, MaxReorgs <- 0,
    MaxFailures <- 2, MaxRestarts <- 1, MaxChanges <- 0
Reorg == INSTANCE WalletGreen WITH node <- greenNode, Addr <- {adr1, adr2}, Tx <- {in1,
    pay1}, Made <- {pay1}, Out <- GreenOut({in1, pay1}), Spends <- GreenSpends({in1, pay1}),
    Age <- 1, Mined <- {in1}, Start <- {adr1}, Deletable <- {}, MaxTip <- 3, MaxReorgs <- 1,
    MaxFailures <- 0, MaxRestarts <- 0, MaxChanges <- 0
Addresses == INSTANCE WalletGreen WITH node <- greenNode, Addr <- {adr1, adr2}, Tx <- {in1,
    in2}, Made <- {}, Out <- GreenOut({in1, in2}), Spends <- GreenSpends({in1, in2}), Age <-
    1, Mined <- {in1}, Start <- {adr1, adr2}, Deletable <- {adr1, adr2}, MaxTip <- 2,
    MaxReorgs <- 0, MaxFailures <- 0, MaxRestarts <- 2, MaxChanges <- 2
Books == INSTANCE WalletTransfers WITH Own <- {"x", "y"}, Foreign <- {"f"}, N <- 3, In <-
    BookIn, Pays <- BookPays, Dest <- BookDest
Failing == INSTANCE WalletStorage WITH w <- storageW, op <- storageOp, Keys <- {k1, k2},
    Passwords <- {p1, p2}, SuffixSizes <- {1}, PowerLoss <- TRUE, InitialCapacity <- 2,
    BatchSizes <- {1}, Fallible <- FileSteps
Growing == INSTANCE WalletStorage WITH w <- storageW, op <- storageOp, Keys <- {k1, k2},
    Passwords <- {p1, p2}, SuffixSizes <- {1, 2}, PowerLoss <- FALSE, InitialCapacity <- 1,
    BatchSizes <- {1, 2}, Fallible <- {}
Undone == INSTANCE WalletStorage WITH w <- storageW, op <- storageOp, Keys <- {k1, k2},
    Passwords <- {p1}, SuffixSizes <- {1}, PowerLoss <- FALSE, InitialCapacity <- 1,
    BatchSizes <- {2}, Fallible <- FileSteps \cup {"flushElement"}

\* A component that no instance of runs keeps this value in its variables.
Unused == "unused"
BackendVars == <<wallet, status, startHeight, syncAt, blocks, scan, tip, pool, relayed,
    daemonHeight, failure, sendAt, sending, toLock, file>>
BackendUnused == wallet = Unused /\ status = Unused /\ startHeight = Unused /\ syncAt =
    Unused /\ blocks = Unused /\ scan = Unused /\ tip = Unused /\ pool = Unused /\ relayed =
    Unused /\ daemonHeight = Unused /\ failure = Unused /\ sendAt = Unused /\ sending =
    Unused /\ toLock = Unused /\ file = Unused
ConsumerVars == <<subs, poolTxs, seen, chain, failed>>
ConsumerUnused == subs = Unused /\ poolTxs = Unused /\ seen = Unused /\ chain = Unused /\
    failed = Unused
SynchroVars == <<node, current, future, worker, consumer, lastBlockId, observing,
    wasStarted, completed, task, left>>
SynchroUnused == node = Unused /\ current = Unused /\ future = Unused /\ worker = Unused /\
    consumer = Unused /\ lastBlockId = Unused /\ observing = Unused /\ wasStarted = Unused
    /\ completed = Unused /\ task = Unused /\ left = Unused
GreenVars == <<greenNode, sync, phase, calls, w, op, disk, used>>
GreenUnused == greenNode = Unused /\ sync = Unused /\ phase = Unused /\ calls = Unused /\ w
    = Unused /\ op = Unused /\ disk = Unused /\ used = Unused
BookVars == <<transfers, mine, listed, reported>>
BookUnused == transfers = Unused /\ mine = Unused /\ listed = Unused /\ reported = Unused
StorageVars == <<dir, vec, upd, storageW, storageOp>>
StorageUnused == dir = Unused /\ vec = Unused /\ upd = Unused /\ storageW = Unused /\
    storageOp = Unused

allVars == <<scenario, BackendVars, ConsumerVars, SynchroVars, GreenVars, BookVars,
    StorageVars>>

Init ==
    \/ scenario = "Sends" /\ Sends!Init /\ ConsumerUnused /\ SynchroUnused /\ GreenUnused /\
          BookUnused /\ StorageUnused
    \/ scenario = "Forks" /\ Forks!Init /\ ConsumerUnused /\ SynchroUnused /\ GreenUnused /\
          BookUnused /\ StorageUnused
    \/ scenario = "View" /\ View!Init /\ ConsumerUnused /\ SynchroUnused /\ GreenUnused /\
          BookUnused /\ StorageUnused
    \/ scenario = "Paid" /\ Paid!Init /\ BackendUnused /\ SynchroUnused /\ GreenUnused /\
          BookUnused /\ StorageUnused
    \/ scenario = "Doubled" /\ Doubled!Init /\ BackendUnused /\ SynchroUnused /\ GreenUnused
          /\ BookUnused /\ StorageUnused
    \/ scenario = "Synced" /\ Synced!Init /\ BackendUnused /\ ConsumerUnused /\ GreenUnused
          /\ BookUnused /\ StorageUnused
    \/ scenario = "Unsteady" /\ Unsteady!Init /\ BackendUnused /\ ConsumerUnused /\
          GreenUnused /\ BookUnused /\ StorageUnused
    \/ scenario = "Pooled" /\ Pooled!Init /\ BackendUnused /\ ConsumerUnused /\ GreenUnused
          /\ BookUnused /\ StorageUnused
    \/ scenario = "Making" /\ Making!Init /\ BackendUnused /\ ConsumerUnused /\
          SynchroUnused /\ BookUnused /\ StorageUnused
    \/ scenario = "Reorg" /\ Reorg!Init /\ BackendUnused /\ ConsumerUnused /\ SynchroUnused
          /\ BookUnused /\ StorageUnused
    \/ scenario = "Addresses" /\ Addresses!Init /\ BackendUnused /\ ConsumerUnused /\
          SynchroUnused /\ BookUnused /\ StorageUnused
    \/ scenario = "Books" /\ Books!Init /\ BackendUnused /\ ConsumerUnused /\ SynchroUnused
          /\ GreenUnused /\ StorageUnused
    \/ scenario = "Failing" /\ Failing!Init /\ BackendUnused /\ ConsumerUnused /\
          SynchroUnused /\ GreenUnused /\ BookUnused
    \/ scenario = "Growing" /\ Growing!Init /\ BackendUnused /\ ConsumerUnused /\
          SynchroUnused /\ GreenUnused /\ BookUnused
    \/ scenario = "Undone" /\ Undone!Init /\ BackendUnused /\ ConsumerUnused /\
          SynchroUnused /\ GreenUnused /\ BookUnused

SendsNext ==
    /\ scenario = "Sends" /\ Sends!Next
    /\ UNCHANGED <<scenario, ConsumerVars, SynchroVars, GreenVars, BookVars, StorageVars>>
ForksNext ==
    /\ scenario = "Forks" /\ Forks!Next
    /\ UNCHANGED <<scenario, ConsumerVars, SynchroVars, GreenVars, BookVars, StorageVars>>
ViewNext ==
    /\ scenario = "View" /\ View!Next
    /\ UNCHANGED <<scenario, ConsumerVars, SynchroVars, GreenVars, BookVars, StorageVars>>
PaidNext ==
    /\ scenario = "Paid" /\ Paid!Next
    /\ UNCHANGED <<scenario, BackendVars, SynchroVars, GreenVars, BookVars, StorageVars>>
DoubledNext ==
    /\ scenario = "Doubled" /\ Doubled!Next
    /\ UNCHANGED <<scenario, BackendVars, SynchroVars, GreenVars, BookVars, StorageVars>>
SyncedNext ==
    /\ scenario = "Synced" /\ Synced!Next
    /\ UNCHANGED <<scenario, BackendVars, ConsumerVars, GreenVars, BookVars, StorageVars>>
UnsteadyNext ==
    /\ scenario = "Unsteady" /\ Unsteady!Next
    /\ UNCHANGED <<scenario, BackendVars, ConsumerVars, GreenVars, BookVars, StorageVars>>
PooledNext ==
    /\ scenario = "Pooled" /\ Pooled!Next
    /\ UNCHANGED <<scenario, BackendVars, ConsumerVars, GreenVars, BookVars, StorageVars>>
MakingNext ==
    /\ scenario = "Making" /\ Making!Next
    /\ UNCHANGED <<scenario, BackendVars, ConsumerVars, SynchroVars, BookVars, StorageVars>>
ReorgNext ==
    /\ scenario = "Reorg" /\ Reorg!Next
    /\ UNCHANGED <<scenario, BackendVars, ConsumerVars, SynchroVars, BookVars, StorageVars>>
AddressesNext ==
    /\ scenario = "Addresses" /\ Addresses!Next
    /\ UNCHANGED <<scenario, BackendVars, ConsumerVars, SynchroVars, BookVars, StorageVars>>
BooksNext ==
    /\ scenario = "Books" /\ Books!Next
    /\ UNCHANGED <<scenario, BackendVars, ConsumerVars, SynchroVars, GreenVars,
        StorageVars>>
FailingNext ==
    /\ scenario = "Failing" /\ Failing!Next
    /\ UNCHANGED <<scenario, BackendVars, ConsumerVars, SynchroVars, GreenVars, BookVars>>
GrowingNext ==
    /\ scenario = "Growing" /\ Growing!Next
    /\ UNCHANGED <<scenario, BackendVars, ConsumerVars, SynchroVars, GreenVars, BookVars>>
UndoneNext ==
    /\ scenario = "Undone" /\ Undone!Next
    /\ UNCHANGED <<scenario, BackendVars, ConsumerVars, SynchroVars, GreenVars, BookVars>>

Next == SendsNext \/ ForksNext \/ ViewNext \/ PaidNext \/ DoubledNext \/ SyncedNext \/
        UnsteadyNext \/ PooledNext \/ MakingNext \/ ReorgNext \/ AddressesNext \/ BooksNext
        \/ FailingNext \/ GrowingNext \/ UndoneNext

Spec == Init /\ [][Next]_allVars

----------------------------------------------------------------------------
\* Properties: what each component promises, in its own instances.


\* Each address has what a fresh scan of the consumer's chain would give it, and of outputs with
\* one key image one is counted.
MatchesChain ==
    /\ scenario = "Paid" => Paid!MatchesChain
    /\ scenario = "Doubled" => Doubled!CountedOnce

\* Each consumer has been given a chain of the node, block after block.
ConsumersOnChain ==
    /\ scenario = "Synced" => Synced!ConsumersOnChain /\ Synced!IdleIsInStep
    /\ scenario = "Unsteady" => Unsteady!ConsumersOnChain /\ Unsteady!IdleIsInStep
    /\ scenario = "Pooled" => Pooled!ConsumersOnChain


\* The transfers of a transaction add up, per address, to what it changes.
AddsUp == scenario = "Books" => Books!AddsUp /\ Books!Sorted /\ Books!OneUnknown

\* After a crash at any step one file holds every key the wallet had before the operation or
\* has after it, under the password of that moment.
Survives ==
    /\ scenario = "Failing" => Failing!Survives /\ Failing!SameOrder
    /\ scenario = "Growing" => Growing!Survives /\ Growing!SameOrder
    /\ scenario = "Undone" => Undone!MappedIsOpened /\ Undone!SaveKept
=============================================================================
