------------------------------ MODULE CoreChain ------------------------------
(***************************************************************************)
(* How a node keeps the block chain (CryptoNoteCore/Core.cpp): a tree of   *)
(* segments (IBlockchainCache), the leaf of the main chain and the leaves  *)
(* of the alternative ones, and two copies of the chain that outlive the   *)
(* process: mainChainStorage, a file of raw blocks that follows the main   *)
(* chain, and the root segment, which is kept in a database.               *)
(*                                                                         *)
(* A block is named by its hash and so fixes all its ancestors.  Block is  *)
(* the set of blocks that are valid on top of their ancestors: addBlock    *)
(* refuses any other without changing anything.  A segment is named by its *)
(* first block, which it keeps for as long as it lives; the root is named  *)
(* by the genesis block.                                                   *)
(*                                                                         *)
(* Core runs on one thread, so nothing interleaves with addBlock, load or  *)
(* save; but the process may die between any two of the writes they make.  *)
(* Where they make more than one, each write is a step of its own.         *)
(***************************************************************************)
EXTENDS Integers, FiniteSets, Sequences

CONSTANTS
    Block,      \* the blocks, genesis included
    Genesis,    \* the genesis block
    Prev,       \* [Block \ {Genesis} -> Block]: previousBlockHash
    HeightOf,   \* [Block -> Nat]: the index of a block in any chain it is in
    WorkOf,     \* [Block -> Nat]: cumulative difficulty of a block and its ancestors
    Stored,     \* the chains that may be in the data directory at the start
    MaxBlocks,  \* bound: blocks a running node knows
    MaxCrashes, \* bound: crashes of the process
    NoSegment   \* the null pointer

ASSUME BlockAssumption ==
    /\ Genesis \in Block
    /\ Prev \in [Block \ {Genesis} -> Block]
    /\ HeightOf \in [Block -> Nat]
    /\ WorkOf \in [Block -> Nat]
    /\ HeightOf[Genesis] = 0
    /\ \A b \in Block \ {Genesis} : /\ HeightOf[b] = HeightOf[Prev[b]] + 1
                                    /\ WorkOf[b] > WorkOf[Prev[b]]
    /\ NoSegment \notin Block
    /\ MaxCrashes \in Nat

\* A sequence of blocks in which each follows the one before it.
Linked(blocks) ==
    \A i \in 2 .. Len(blocks) : blocks[i] # Genesis /\ Prev[blocks[i]] = blocks[i - 1]

ASSUME StoredAssumption ==
    \A chain \in Stored : /\ chain \in Seq(Block)
                          /\ chain # <<>>
                          /\ chain[1] = Genesis
                          /\ Linked(chain)

VARIABLES
    chainsStorage,    \* segment -> its blocks, parent and children
    mainLeaf,         \* chainsLeaves[0]
    altLeaves,        \* the other elements of chainsLeaves
    mainChainSet,     \* the segments of the main chain
    mainChainStorage, \* the raw blocks of the storage file, as the process sees it
    flushed,          \* the storage file as it is on disk
    pc,               \* what Core is doing
    pending,          \* blocks still to be pushed to a segment
    crashes,          \* number of crashes so far
    nestedSwitch,     \* history: a switch to a leaf whose parent was not on the main chain
    stopped           \* history: what Core was doing when it stopped (how), its main chain
                      \* then (chain), and the main chain it last switched from (left)

treeVars == <<chainsStorage, mainLeaf, altLeaves, mainChainSet>>
storageVars == <<mainChainStorage, flushed>>
history == <<crashes, nestedSwitch, stopped>>
vars == <<treeVars, storageVars, pc, pending, history>>

Root == Genesis

Segment == [parent : Block \cup {NoSegment}, children : SUBSET Block,
            start : Nat, blocks : Seq(Block)]

\* A running node is idle, between the two writes of a push, or in a switch.
Running == {"running", "pushing", "popping", "refilling"}
Undefined == {"noLeafToReplace", "storageTooShort"}
PC == Running \cup Undefined \cup {"merging", "down", "importing", "corrupted"}

-----------------------------------------------------------------------------
(* The segment tree. *)

segments == DOMAIN chainsStorage
Top(s) == chainsStorage[s].start + Len(chainsStorage[s].blocks) - 1
TopBlock(s) == chainsStorage[s].blocks[Len(chainsStorage[s].blocks)]
BlocksOf(s) == {chainsStorage[s].blocks[i] : i \in 1 .. Len(chainsStorage[s].blocks)}
Known == UNION {BlocksOf(s) : s \in segments}
MainTip == TopBlock(mainLeaf)

\* S holds the parent of each of its segments.
Closed(tree, S) == \A s \in S : tree[s].parent = NoSegment \/ tree[s].parent \in S

\* The leaf and everything reached from it by getParent: the least closed set that
\* holds the leaf.
ChainOf(tree, leaf) ==
    {s \in DOMAIN tree : \A S \in SUBSET DOMAIN tree : leaf \in S /\ Closed(tree, S) => s \in S}

\* findSegmentContainingBlock and findIndexInChain: the main chain first, then the chains of the other
\* leaves.  A block that none of these chains has is not found.
SegmentContaining(b, s) ==
    /\ b \in BlocksOf(s)
    /\ LET main == ChainOf(chainsStorage, mainLeaf)
       IN  \/ s \in main
           \/ /\ \A r \in main : b \notin BlocksOf(r)
              /\ \E leaf \in altLeaves : s \in ChainOf(chainsStorage, leaf)

HasBlock(b) == \E s \in segments : SegmentContaining(b, s)

PushBlock(tree, s, b) == [tree EXCEPT ![s].blocks = Append(@, b)]

\* A new segment that holds b alone, as a child of cache.
NewChild(tree, cache, b) ==
    [s \in DOMAIN tree \cup {b} |->
        IF s = b THEN [parent |-> cache, children |-> {},
                       start |-> tree[cache].start + Len(tree[cache].blocks),
                       blocks |-> <<b>>]
        ELSE IF s = cache THEN [tree[s] EXCEPT !.children = @ \cup {b}]
        ELSE tree[s]]

\* The number of blocks of cache up to and including b.
Position(cache, b) ==
    CHOOSE i \in 1 .. Len(chainsStorage[cache].blocks) : chainsStorage[cache].blocks[i] = b

\* The segment above block b of cache gets a name, its first block.
UpperName(cache, b) == chainsStorage[cache].blocks[Position(cache, b) + 1]

Lower(cache, b) == SubSeq(chainsStorage[cache].blocks, 1, Position(cache, b))
Upper(cache, b) ==
    SubSeq(chainsStorage[cache].blocks, Position(cache, b) + 1, Len(chainsStorage[cache].blocks))

SplitKeepsParent(cache, b) ==
    LET up == UpperName(cache, b)
        seg == chainsStorage[cache]
    IN  [s \in segments \cup {up} |->
            IF s = up THEN [parent |-> cache, children |-> seg.children,
                            start |-> seg.start + Position(cache, b), blocks |-> Upper(cache, b)]
            ELSE IF s = cache THEN [seg EXCEPT !.children = {up}, !.blocks = Lower(cache, b)]
            ELSE chainsStorage[s]]

\* BlockchainCache::split above b: the children move to the upper part.
SplitInMemory(cache, b) ==
    LET up == UpperName(cache, b)
        seg == chainsStorage[cache]
    IN  [s \in segments \cup {up} |->
            IF s = up THEN [parent |-> cache, children |-> seg.children,
                            start |-> seg.start + Position(cache, b), blocks |-> Upper(cache, b)]
            ELSE IF s = cache THEN [seg EXCEPT !.children = {up}, !.blocks = Lower(cache, b)]
            ELSE IF s \in seg.children THEN [chainsStorage[s] EXCEPT !.parent = up]
            ELSE chainsStorage[s]]

\* DatabaseBlockchainCache::split above b: the children stay with the lower part.
SplitDatabase(b) ==
    LET up == UpperName(Root, b)
        seg == chainsStorage[Root]
    IN  [s \in segments \cup {up} |->
            IF s = up THEN [parent |-> Root, children |-> {},
                            start |-> seg.start + Position(Root, b), blocks |-> Upper(Root, b)]
            ELSE IF s = Root THEN [seg EXCEPT !.children = @ \cup {up}, !.blocks = Lower(Root, b)]
            ELSE chainsStorage[s]]

Split(cache, b) == IF cache = Root THEN SplitDatabase(b) ELSE SplitInMemory(cache, b)

\* The blocks of the main chain: those of its segments, from the root up.
MainChain ==
    LET chain[s \in segments] ==
            IF chainsStorage[s].parent = NoSegment THEN chainsStorage[s].blocks
            ELSE chain[chainsStorage[s].parent] \o chainsStorage[s].blocks
    IN  chain[mainLeaf]

UpdateMainChainSetLeafOnly(tree, leaf) == {leaf}

\* updateMainChainSet.
UpdateMainChainSet(tree, leaf) == ChainOf(tree, leaf)

-----------------------------------------------------------------------------
(* The storage file.  SwappedVector writes the item count last and through a    *)
(* buffer that the next seek flushes: the disk is one operation behind.         *)

StoragePush(b) ==
    /\ mainChainStorage' = Append(mainChainStorage, b)
    /\ flushed' = mainChainStorage

StoragePop ==
    /\ mainChainStorage' = SubSeq(mainChainStorage, 1, Len(mainChainStorage) - 1)
    /\ flushed' = mainChainStorage

\* The root segment as it is when only the database is left.
RootOf(blocks) ==
    [s \in {Root} |-> [parent |-> NoSegment, children |-> {}, start |-> 0, blocks |-> blocks]]

\* initRootSegment, and the segments of a node that has no other.
RootOnly(blocks) ==
    /\ chainsStorage' = RootOf(blocks)
    /\ mainLeaf' = Root
    /\ altLeaves' = {}
    /\ mainChainSet' = {Root}

Database == chainsStorage[Root].blocks

-----------------------------------------------------------------------------
(* addBlock.  The block is new and its predecessor is known, in segment cache;  *)
(* where it is put depends on whether the predecessor is the top of cache and   *)
(* on whether cache has children.                                               *)

Addable(b, cache) ==
    /\ pc = "running"
    /\ Prev[b] \in BlocksOf(cache)
    /\ Cardinality(Known) < MaxBlocks
    /\ SegmentContaining(Prev[b], cache)
    /\ ~HasBlock(b)

OnTop(b, cache) == TopBlock(cache) = Prev[b]
IsLeafSegment(cache) == chainsStorage[cache].children = {}

\* On top of the main leaf: first the storage file ...
AddToMain(b, cache) ==
    /\ OnTop(b, cache) /\ IsLeafSegment(cache) /\ cache = mainLeaf
    /\ StoragePush(b)
    /\ pc' = "pushing"
    /\ pending' = <<b>>
    /\ UNCHANGED <<treeVars, history>>

\* ... then the segment, which is the database when the main leaf is the root.
PushToMainLeaf ==
    /\ pc = "pushing"
    /\ chainsStorage' = PushBlock(chainsStorage, mainLeaf, Head(pending))
    /\ pc' = "running"
    /\ pending' = <<>>
    /\ UNCHANGED <<mainLeaf, altLeaves, mainChainSet, storageVars, history>>

BecomesMainByHeight(b) == HeightOf[b] > HeightOf[MainTip]
BecomesMainOnTie(b) == WorkOf[b] >= WorkOf[MainTip]
BecomesMainLate(b) == WorkOf[Prev[b]] > WorkOf[MainTip]

\* A chain replaces the main chain when it has more work; on a tie it does not.
BecomesMain(b) == WorkOf[b] > WorkOf[MainTip]

\* On top of another leaf that stays an alternative.
AddToAlternative(b, cache) ==
    /\ OnTop(b, cache) /\ IsLeafSegment(cache) /\ cache # mainLeaf
    /\ ~BecomesMain(b)
    /\ chainsStorage' = PushBlock(chainsStorage, cache, b)
    /\ UNCHANGED <<mainLeaf, altLeaves, mainChainSet, storageVars, pc, pending, history>>

\* On top of another leaf that becomes the main leaf.  switchMainChainStorage is
\* given the first index of the new leaf segment; its block count minus that index
\* is unsigned, so a storage that is shorter makes it pop without end.
AddAndSwitch(b, cache) ==
    /\ OnTop(b, cache) /\ IsLeafSegment(cache) /\ cache # mainLeaf
    /\ BecomesMain(b)
    /\ chainsStorage' = PushBlock(chainsStorage, cache, b)
    /\ mainLeaf' = cache
    /\ altLeaves' = (altLeaves \ {cache}) \cup {mainLeaf}
    /\ mainChainSet' = UpdateMainChainSet(chainsStorage, cache)
    /\ pc' = IF Len(mainChainStorage) < chainsStorage[cache].start
             THEN "storageTooShort" ELSE "popping"
    /\ nestedSwitch' = (nestedSwitch \/ chainsStorage[cache].parent \notin mainChainSet)
    /\ stopped' = [stopped EXCEPT !.left = MainChain]
    /\ UNCHANGED <<storageVars, pending, crashes>>

\* The number of blocks that switchMainChainStorage leaves in the file.
SplitBlockIndexTooHigh == chainsStorage[mainLeaf].start + 1
SplitBlockIndex == chainsStorage[mainLeaf].start

\* switchMainChainStorage: pop down to the start of the new leaf segment ...
PopStorage ==
    /\ pc = "popping"
    /\ Len(mainChainStorage) > SplitBlockIndex
    /\ StoragePop
    /\ UNCHANGED <<treeVars, pc, pending, history>>

\* ... then push the blocks of that segment, up to its top.
RefillStorage ==
    /\ \/ pc = "popping" /\ Len(mainChainStorage) = SplitBlockIndex
       \/ pc = "refilling"
    /\ LET next == Len(mainChainStorage) - chainsStorage[mainLeaf].start + 1
       IN  /\ StoragePush(chainsStorage[mainLeaf].blocks[next])
           /\ pc' = IF next = Len(chainsStorage[mainLeaf].blocks) THEN "running" ELSE "refilling"
    /\ UNCHANGED <<treeVars, pending, history>>

\* On top of a segment that has children: a new segment, no switch.
ForkOnTop(b, cache) ==
    /\ OnTop(b, cache) /\ ~IsLeafSegment(cache)
    /\ chainsStorage' = NewChild(chainsStorage, cache, b)
    /\ altLeaves' = altLeaves \cup {b}
    /\ mainChainSet' = UpdateMainChainSet(chainsStorage', mainLeaf)
    /\ UNCHANGED <<mainLeaf, storageVars, pc, pending, history>>

ReplacesNoLeaf(split, up) == FALSE

\* The upper part has no children, so cache was a leaf.
ReplacesLeaf(split, up) == split[up].children = {}

\* Below the top: split, and a new segment beside the upper part, no switch.  An
\* upper part without children takes the place of cache among the leaves.
ForkInside(b, cache) ==
    /\ ~OnTop(b, cache)
    /\ LET up == UpperName(cache, Prev[b])
           split == Split(cache, Prev[b])
           replaced == ReplacesLeaf(split, up)
       IN  /\ replaced => cache \in {mainLeaf} \cup altLeaves
           /\ chainsStorage' = NewChild(split, cache, b)
           /\ mainLeaf' = IF replaced /\ cache = mainLeaf THEN up ELSE mainLeaf
           /\ altLeaves' = (IF replaced /\ cache \in altLeaves
                            THEN (altLeaves \ {cache}) \cup {up} ELSE altLeaves) \cup {b}
    /\ mainChainSet' = UpdateMainChainSet(chainsStorage', mainLeaf')
    /\ UNCHANGED <<storageVars, pc, pending, history>>

\* As before, but cache is not among the leaves: *found is written through end().
\* The database is cut by then.
ForkInsideUndefined(b, cache) ==
    /\ ~OnTop(b, cache)
    /\ ReplacesLeaf(Split(cache, Prev[b]), UpperName(cache, Prev[b]))
    /\ cache \notin {mainLeaf} \cup altLeaves
    /\ chainsStorage' = Split(cache, Prev[b])
    /\ pc' = "noLeafToReplace"
    /\ stopped' = [stopped EXCEPT !.chain = MainChain]
    /\ UNCHANGED <<mainLeaf, altLeaves, mainChainSet, storageVars, pending, crashes, nestedSwitch>>

-----------------------------------------------------------------------------
(* save, at shutdown: the alternative chains are deleted and the blocks of the  *)
(* main chain are pushed to the database one by one.                            *)

Save ==
    /\ pc = "running"
    /\ RootOnly(Database)
    /\ pending' = SubSeq(MainChain, Len(Database) + 1, Len(MainChain))
    /\ pc' = "merging"
    /\ stopped' = [stopped EXCEPT !.how = "saving", !.chain = MainChain]
    /\ UNCHANGED <<storageVars, crashes, nestedSwitch>>

MergeBlock ==
    /\ pc = "merging"
    /\ pending # <<>>
    /\ chainsStorage' = PushBlock(chainsStorage, Root, Head(pending))
    /\ pending' = Tail(pending)
    /\ UNCHANGED <<mainLeaf, altLeaves, mainChainSet, storageVars, pc, history>>

\* The process ends and its streams are closed, which flushes them.
Exit ==
    /\ pc = "merging"
    /\ pending = <<>>
    /\ flushed' = mainChainStorage
    /\ pc' = "down"
    /\ stopped' = [stopped EXCEPT !.how = "saved"]
    /\ UNCHANGED <<treeVars, mainChainStorage, pending, crashes, nestedSwitch>>

\* The process dies.  What is in memory is lost; the last write to the storage file
\* may be.  After undefined behaviour it dies sooner or later.
Crash ==
    /\ pc \notin {"down", "corrupted"}
    /\ crashes < MaxCrashes \/ pc \in Undefined
    /\ RootOnly(Database)
    /\ mainChainStorage' \in {flushed, mainChainStorage}
    /\ flushed' = mainChainStorage'
    /\ pc' = "down"
    /\ pending' = <<>>
    /\ crashes' = IF pc \in Undefined THEN crashes ELSE crashes + 1
    /\ stopped' = [stopped EXCEPT !.how = IF pc \in Running \cup Undefined THEN pc ELSE @,
                                  !.chain = IF pc \in Running THEN MainChain ELSE @]
    /\ UNCHANGED nestedSwitch

-----------------------------------------------------------------------------
(* load, at start. *)

FindCommonRootUncompared(storage, db) ==
    (IF Len(storage) < Len(db) THEN Len(storage) ELSE Len(db)) - 1

\* findCommonRoot: a binary search for the last index at which both have the same
\* block.  It is right when the blocks that differ are above those that agree.
FindCommonRoot(storage, db) ==
    LET last == (IF Len(storage) < Len(db) THEN Len(storage) ELSE Len(db)) - 1
        search[left \in 0 .. last, right \in 0 .. last] ==
            IF left = right THEN left
            ELSE LET check == left + (right - left) \div 2 + 1
                 IN  IF storage[check + 1] = db[check + 1] THEN search[check, right]
                                                           ELSE search[left, check - 1]
    IN  search[0, last]

CutAboveNext(root) == SubSeq(Database, 1, IF root + 2 > Len(Database) THEN root + 1 ELSE root + 2)

\* cutSegment from the block after index root on; the child made by split is dropped.
CutAbove(root) == SubSeq(Database, 1, root + 1)

SameTop == mainChainStorage[Len(mainChainStorage)] = TopBlock(Root)

\* The storage file has more blocks, or another top: the database is cut to the
\* common root and the rest is imported from the file.
LoadAndImport ==
    /\ pc = "down"
    /\ \/ Len(mainChainStorage) > Len(Database)
       \/ Len(mainChainStorage) = Len(Database) /\ ~SameTop
    /\ LET root == FindCommonRoot(mainChainStorage, Database)
       IN  /\ RootOnly(CutAbove(root))
           /\ pending' = SubSeq(mainChainStorage, root + 2, Len(mainChainStorage))
    /\ pc' = "importing"
    /\ UNCHANGED <<storageVars, history>>

\* The database has more blocks: it is cut to the common root.
LoadAndCut ==
    /\ pc = "down"
    /\ Len(mainChainStorage) < Len(Database)
    /\ RootOnly(CutAbove(FindCommonRoot(mainChainStorage, Database)))
    /\ pc' = "running"
    /\ UNCHANGED <<storageVars, pending, history>>

LoadUninitialized ==
    /\ pc = "down"
    /\ Len(mainChainStorage) = Len(Database)
    /\ SameTop
    /\ UNCHANGED vars

\* Both have the same number of blocks and the same top.
LoadUnchanged ==
    /\ pc = "down"
    /\ Len(mainChainStorage) = Len(Database)
    /\ SameTop
    /\ pc' = "running"
    /\ UNCHANGED <<treeVars, storageVars, pending, history>>

\* importBlocksFromStorage: a block whose predecessor is not the block before it in
\* the file ends the process with CORRUPTED_BLOCKCHAIN.
ImportBlock ==
    /\ pc = "importing"
    /\ pending # <<>>
    /\ IF Prev[Head(pending)] = mainChainStorage[Len(mainChainStorage) - Len(pending)]
       THEN /\ chainsStorage' = PushBlock(chainsStorage, Root, Head(pending))
            /\ pending' = Tail(pending)
            /\ pc' = IF Len(pending) = 1 THEN "running" ELSE "importing"
       ELSE /\ pending' = <<>>
            /\ pc' = "corrupted"
            /\ UNCHANGED chainsStorage
    /\ UNCHANGED <<mainLeaf, altLeaves, mainChainSet, storageVars, history>>

\* The operator follows the message: a new data directory, the chain from genesis.
Resynchronize ==
    /\ pc = "corrupted"
    /\ RootOnly(<<Genesis>>)
    /\ mainChainStorage' = <<Genesis>>
    /\ flushed' = <<Genesis>>
    /\ pc' = "running"
    /\ nestedSwitch' = FALSE
    /\ stopped' = [how |-> "never", chain |-> <<>>, left |-> <<>>]
    /\ UNCHANGED <<pending, crashes>>

-----------------------------------------------------------------------------
\* A node that has loaded one of the stored chains.
Init ==
    /\ \E chain \in Stored : /\ chainsStorage = RootOf(chain)
                             /\ mainChainStorage = chain
                             /\ flushed = chain
    /\ mainLeaf = Root
    /\ altLeaves = {}
    /\ mainChainSet = {Root}
    /\ pc = "running"
    /\ pending = <<>>
    /\ crashes = 0
    /\ nestedSwitch = FALSE
    /\ stopped = [how |-> "never", chain |-> <<>>, left |-> <<>>]

AddBlock ==
    \E cache \in segments, b \in Block \ {Genesis} :
        /\ Addable(b, cache)
        /\ \/ AddToMain(b, cache)
           \/ AddToAlternative(b, cache)
           \/ AddAndSwitch(b, cache)
           \/ ForkOnTop(b, cache)
           \/ ForkInside(b, cache)
           \/ ForkInsideUndefined(b, cache)

Load == LoadAndImport \/ LoadAndCut \/ LoadUnchanged

\* The steps the process takes by itself once it is in the middle of something.
Proceed == PushToMainLeaf \/ PopStorage \/ RefillStorage \/ MergeBlock \/ Exit \/ ImportBlock

Next == AddBlock \/ Proceed \/ Save \/ Load \/ Crash \/ Resynchronize

Spec == Init /\ [][Next]_vars

\* A node from the end of load until it is stopped: addBlock and its steps.
Work == AddBlock \/ PushToMainLeaf \/ PopStorage \/ RefillStorage
RunSpec == Init /\ [][Work]_vars

\* A process that is in the middle of something goes on, and a node that is down is
\* started again.
FairSpec == Spec /\ WF_vars(Proceed) /\ WF_vars(Load)

-----------------------------------------------------------------------------
(* Properties. *)

\* Every segment is a segment, has a block at least, and the leaves are segments.
TypeOK ==
    /\ segments \subseteq Block /\ Root \in segments
    /\ \A s \in segments : chainsStorage[s] \in Segment /\ chainsStorage[s].blocks # <<>>
    /\ mainLeaf \in segments
    /\ altLeaves \subseteq segments
    /\ mainChainSet \subseteq segments
    /\ mainChainStorage \in Seq(Block) /\ flushed \in Seq(Block)
    /\ pc \in PC
    /\ pending \in Seq(Block)
    /\ crashes \in 0 .. MaxCrashes
    /\ nestedSwitch \in BOOLEAN

\* The segments form one tree whose paths are chains of blocks: a segment starts at
\* the height and with the child of the block its parent ends with, children and
\* parents point at each other, and every block follows the one before it.  addBlock
\* and both split functions keep this; only the undefined case below breaks it.
TreeLinked ==
    pc # "noLeafToReplace" =>
    /\ chainsStorage[Root].parent = NoSegment
    /\ \A s \in segments :
        LET seg == chainsStorage[s]
        IN  /\ seg.blocks[1] = s
            /\ seg.start = HeightOf[s]
            /\ Linked(seg.blocks)
            /\ seg.children = {c \in segments : chainsStorage[c].parent = s}
            /\ s # Root => /\ seg.parent \in segments
                           /\ Prev[s] = TopBlock(seg.parent)

\* chainsLeaves holds each segment without children once, and no other.
LeavesAreChildless ==
    pc # "noLeafToReplace" =>
    /\ {mainLeaf} \cup altLeaves = {s \in segments : chainsStorage[s].children = {}}
    /\ mainLeaf \notin altLeaves

\* findSegmentContainingBlock, which only walks down from the leaves, finds every
\* block of every segment: hasBlock never lets a block in twice.
EveryBlockIsFound == pc # "noLeafToReplace" => \A b \in Known : HasBlock(b)

\* mainChainSet, which is rebuilt only when addBlock thinks it has to be, always
\* holds the segments of the main chain.
MainChainSetIsMainChain ==
    pc # "noLeafToReplace" => mainChainSet = ChainOf(chainsStorage, mainLeaf)

\* addBlock compares the work of two chains only when a leaf grows.  So a chain with
\* more work than the main chain can only be a fork that has one block as yet.
HeavierAlternativeIsFresh ==
    \A leaf \in altLeaves :
        WorkOf[TopBlock(leaf)] > WorkOf[MainTip] => Len(chainsStorage[leaf].blocks) = 1

\* As long as the node runs, the top block of its main chain changes only for one with
\* more work: no fork, split or switch of addBlock moves it back, sideways or on a tie.
TipMovesForMoreWork ==
    [][{pc, pc'} \subseteq Running /\ MainTip' # MainTip =>
        WorkOf[MainTip'] > WorkOf[MainTip]]_vars

\* Between two calls the storage file holds the main chain, block for block: what
\* addBlock pushes and switchMainChainStorage pops and pushes is the difference.
\* It takes that every switch is to a leaf segment that stands on the main chain; the
\* file is then never found corrupted at start.
StorageMirrorsMainChain ==
    ~nestedSwitch => /\ pc = "running" => mainChainStorage = MainChain
                     /\ pc # "corrupted"

\* addBlock, save and load come to an end, and a node that is down comes up again,
\* or reports that its file is corrupted.
OperationsComplete == (pc \notin Undefined) ~> (pc \in {"running", "corrupted"} \cup Undefined)

\* "assert(found != chainsLeaves.end())" in addBlock.
SplitSegmentIsLeaf == pc # "noLeafToReplace"

\* "assert(mainChainStorage->getBlockCount() > splitBlockIndex)" in
\* switchMainChainStorage.
StorageReachesSplit ==
    [][pc = "running" /\ pc' \in {"popping", "storageTooShort"} =>
        Len(mainChainStorage) > chainsStorage'[mainLeaf'].start]_vars

-----------------------------------------------------------------------------
(* What a running node promises. *)

Promise == INSTANCE BlockTree WITH known <- Known, tip <- MainTip

\* Segments, leaves and splits are an implementation of a tree of blocks and the
\* tip of its main chain: each step of addBlock adds the block to the tree and moves
\* the tip by the rule of BlockTree, or is invisible there.
Implements == Promise!Spec
=============================================================================
