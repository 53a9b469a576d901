--------------------------- MODULE CoreChainProofs ---------------------------
(***************************************************************************)
(* Proofs about a running node: the invariants of CoreChain's RunSpec, and *)
(* that it implements BlockTree, for every set of blocks.                  *)
(***************************************************************************)
EXTENDS CoreTreeProofs, LeastNumber

Leaves == {mainLeaf} \cup altLeaves

\* The segment tree is good, and the leaves reach all of it.
TreeInv ==
    pc # "noLeafToReplace" => GoodTree(chainsStorage) /\ Reached(chainsStorage, Leaves)

\* The block that has been written to the storage file, and not yet to the main leaf,
\* fits on the main leaf and is not known.
PushInv ==
    pc = "pushing" => \E b \in Block \ {Genesis} : /\ pending = <<b>>
                                                   /\ Prev[b] = MainTip
                                                   /\ Fresh(chainsStorage, b)

\* A switch pops the storage file down to the new main leaf, and stops pushing when it
\* has pushed the blocks of that leaf.
SwitchInv ==
    /\ pc = "popping" => Len(mainChainStorage) >= chainsStorage[mainLeaf].start
    /\ pc = "refilling" =>
          /\ Len(mainChainStorage) > chainsStorage[mainLeaf].start
          /\ Len(mainChainStorage) <
                chainsStorage[mainLeaf].start + Len(chainsStorage[mainLeaf].blocks)

\* The inductive invariant.
IInv ==
    /\ TypeOK
    /\ TreeInv
    /\ LeavesAreChildless
    /\ MainChainSetIsMainChain
    /\ HeavierAlternativeIsFresh
    /\ PushInv
    /\ SwitchInv

-----------------------------------------------------------------------------
\* A good tree is as TypeOK wants it.
LEMMA GoodTreeTyped ==
    ASSUME NEW tree, GoodTree(tree)
    PROVE  /\ DOMAIN tree \subseteq Block /\ Root \in DOMAIN tree
           /\ \A s \in DOMAIN tree : tree[s] \in Segment /\ tree[s].blocks # <<>>
BY DEF GoodTree, TypedTree

\* With IInv, hasBlock finds every block of every segment.
LEMMA FoundWherever ==
    ASSUME Reached(chainsStorage, Leaves),
           NEW s \in segments, NEW b \in BlocksOf(s)
    PROVE  HasBlock(b)
<1> DEFINE main == ChainOf(chainsStorage, mainLeaf)
<1>1. CASE \E r \in main : b \in BlocksOf(r)
  <2>1. PICK r \in main : b \in BlocksOf(r)
    BY <1>1
  <2>2. r \in segments
    BY DEF ChainOf, segments
  <2> QED BY <2>1, <2>2 DEF HasBlock, SegmentContaining
<1>2. CASE \A r \in main : b \notin BlocksOf(r)
  <2>1. \E leaf \in Leaves : s \in ChainOf(chainsStorage, leaf)
    BY DEF Reached, segments
  <2>2. \E leaf \in altLeaves : s \in ChainOf(chainsStorage, leaf)
    BY <1>2, <2>1 DEF Leaves
  <2> QED BY <1>2, <2>2 DEF HasBlock, SegmentContaining
<1> QED BY <1>1, <1>2

\* A block that hasBlock does not find is in no segment.
LEMMA NotFoundIsFresh ==
    ASSUME Reached(chainsStorage, Leaves), NEW b, ~HasBlock(b)
    PROVE  Fresh(chainsStorage, b)
BY FoundWherever DEF Fresh, Holds, BlocksOf, segments

\* What the guard of addBlock gives.
LEMMA AddableFacts ==
    ASSUME IInv, NEW cache \in segments, NEW b \in Block \ {Genesis}, Addable(b, cache)
    PROVE  /\ pc = "running"
           /\ GoodTree(chainsStorage) /\ Reached(chainsStorage, Leaves)
           /\ Fresh(chainsStorage, b)
           /\ Prev[b] \in BlocksOf(cache)
           /\ Leaves = {s \in segments : chainsStorage[s].children = {}}
           /\ mainLeaf \notin altLeaves
           /\ b \notin segments
<1>1. /\ pc = "running" /\ Prev[b] \in BlocksOf(cache) /\ ~HasBlock(b)
      /\ GoodTree(chainsStorage) /\ Reached(chainsStorage, Leaves)
      /\ Leaves = {s \in segments : chainsStorage[s].children = {}} /\ mainLeaf \notin altLeaves
  BY DEF IInv, TreeInv, LeavesAreChildless, Addable, Leaves
<1>2. Fresh(chainsStorage, b)
  BY <1>1, NotFoundIsFresh
<1>3. b \notin segments
  <2> SUFFICES ASSUME b \in segments PROVE FALSE
    OBVIOUS
  <2>1. chainsStorage[b].blocks[1] = b /\ 1 \in 1 .. Len(chainsStorage[b].blocks)
    BY <1>1, SegmentFacts DEF GoodTree, LinkedSegments, segments
  <2> QED BY <1>2, <2>1 DEF Fresh, Holds, segments
<1> QED BY <1>1, <1>2, <1>3

-----------------------------------------------------------------------------
\* A block of a stored chain has its index in the chain as its height: by induction,
\* the least index at which it has not cannot be.
LEMMA StoredHeights ==
    ASSUME NEW chain \in Stored, NEW i \in 1 .. Len(chain)
    PROVE  HeightOf[chain[i]] = i - 1
<1> DEFINE T == {k \in 1 .. Len(chain) : HeightOf[chain[k]] # k - 1}
<1>1. /\ chain \in Seq(Block) /\ Len(chain) \in Nat /\ chain[1] = Genesis /\ Linked(chain)
      /\ \A k \in 1 .. Len(chain) : chain[k] \in Block
  BY StoredAssumption
<1>2. ASSUME T # {} PROVE FALSE
  <2>1. T \in SUBSET Nat
    BY <1>1
  <2>2. PICK k \in T : \A j \in T : k <= j
    <3> HIDE DEF T
    <3> QED BY <1>2, <2>1, LeastNumberExists
  <2>3. k \in 1 .. Len(chain) /\ HeightOf[chain[k]] # k - 1
    BY <2>2
  <2>4. k # 1
    BY <1>1, <2>3, BlockAssumption
  <2>5. k - 1 \in 1 .. Len(chain) /\ k \in 2 .. Len(chain) /\ ~(k <= k - 1)
    BY <1>1, <2>3, <2>4
  <2>6. HeightOf[chain[k - 1]] = (k - 1) - 1
    BY <2>2, <2>5
  <2>7. chain[k] \in Block \ {Genesis} /\ Prev[chain[k]] = chain[k - 1]
    BY <1>1, <2>3, <2>5 DEF Linked
  <2>8. HeightOf[chain[k]] = HeightOf[chain[k - 1]] + 1
    BY <2>7, BlockAssumption
  <2> QED BY <1>1, <2>3, <2>6, <2>8
<1> QED BY <1>2

\* A stored chain makes a good root.
LEMMA InitInv == Init => IInv
<1> SUFFICES ASSUME Init PROVE IInv
  OBVIOUS
<1>1. PICK chain \in Stored : chainsStorage = RootOf(chain) /\ mainChainStorage = chain /\ flushed = chain
  BY DEF Init
<1>2. chain \in Seq(Block) /\ chain # <<>> /\ chain[1] = Genesis /\ Linked(chain)
  BY StoredAssumption
<1>3. Genesis \in Block /\ HeightOf[Genesis] = 0
  BY BlockAssumption
<1>4. /\ segments = {Root} /\ Root = Genesis
      /\ chainsStorage[Root] = [parent |-> NoSegment, children |-> {}, start |-> 0, blocks |-> chain]
  BY <1>1 DEF RootOf, segments, Root
<1>5. /\ chainsStorage[Root].parent = NoSegment /\ chainsStorage[Root].children = {}
      /\ chainsStorage[Root].start = 0 /\ chainsStorage[Root].blocks = chain
  BY <1>4
<1>6. chainsStorage[Root] \in Segment
  BY <1>2, <1>4 DEF Segment
<1>7. TypeOK
  <2>1. crashes \in 0 .. MaxCrashes
    BY BlockAssumption DEF Init
  <2>2. segments \subseteq Block /\ Root \in segments
    BY <1>3, <1>4
  <2>3. \A s \in segments : chainsStorage[s] \in Segment /\ chainsStorage[s].blocks # <<>>
    BY <1>2, <1>4, <1>5, <1>6
  <2>4. mainLeaf \in segments /\ altLeaves \subseteq segments /\ mainChainSet \subseteq segments
    BY <1>4 DEF Init
  <2>5. pc \in PC /\ nestedSwitch \in BOOLEAN
    BY DEF Init, PC, Running
  <2>6. pending \in Seq(Block)
    BY DEF Init
  <2> QED BY <1>1, <1>2, <2>1, <2>2, <2>3, <2>4, <2>5, <2>6 DEF TypeOK
<1>8. GoodTree(chainsStorage)
  <2>1. TypedTree(chainsStorage)
    <3>1. chainsStorage \in [{Root} -> Segment]
      BY <1>1, <1>4, <1>6 DEF RootOf, segments
    <3> QED BY <1>2, <1>3, <1>4, <1>5, <3>1 DEF TypedTree, segments
  <2>2. LinkedSegments(chainsStorage)
    BY <1>2, <1>3, <1>4, <1>5 DEF LinkedSegments, segments
  <2>3. LinkedTree(chainsStorage)
    BY <1>3, <1>4, <1>5, BlockAssumption DEF LinkedTree, segments
  <2>4. AtHeight(chainsStorage)
    <3>1. \A i \in 1 .. Len(chain) : HeightOf[chain[i]] = 0 + i - 1
      BY <1>2, StoredHeights
    <3> QED BY <1>4, <1>5, <3>1 DEF AtHeight, segments
  <2>5. InOneSegment(chainsStorage)
    BY <1>4 DEF InOneSegment, segments
  <2> QED BY <2>1, <2>2, <2>3, <2>4, <2>5 DEF GoodTree
<1>9. mainLeaf = Root /\ altLeaves = {} /\ mainChainSet = {Root} /\ pc = "running"
  BY DEF Init
<1>10. Root \in ChainOf(chainsStorage, Root)
  BY <1>4, LeafOnChain DEF segments
<1>11. TreeInv /\ MainChainSetIsMainChain
  <2>1. ChainOf(chainsStorage, Root) = {Root}
    BY <1>4, <1>10 DEF ChainOf, segments
  <2>2. Reached(chainsStorage, Leaves)
    BY <1>4, <1>9, <1>10 DEF Reached, Leaves, segments
  <2> QED BY <1>8, <1>9, <2>1, <2>2 DEF TreeInv, MainChainSetIsMainChain
<1>12. LeavesAreChildless
  BY <1>4, <1>5, <1>9 DEF LeavesAreChildless
<1>13. HeavierAlternativeIsFresh /\ PushInv /\ SwitchInv
  BY <1>9 DEF HeavierAlternativeIsFresh, PushInv, SwitchInv
<1> QED BY <1>7, <1>11, <1>12, <1>13 DEF IInv

-----------------------------------------------------------------------------
(* Each step of a running node keeps the invariant. *)

\* A step that leaves the tree alone keeps what is said of the tree.
LEMMA SameTree ==
    ASSUME IInv, pc # "noLeafToReplace", UNCHANGED treeVars
    PROVE  TreeInv' /\ LeavesAreChildless' /\ MainChainSetIsMainChain' /\ HeavierAlternativeIsFresh'
<1>1. /\ chainsStorage' = chainsStorage /\ mainLeaf' = mainLeaf /\ altLeaves' = altLeaves
      /\ mainChainSet' = mainChainSet /\ segments' = segments /\ Leaves' = Leaves
  BY DEF treeVars, segments, Leaves
<1>2. TreeInv'
  BY <1>1 DEF IInv, TreeInv
<1>3. LeavesAreChildless'
  BY <1>1 DEF IInv, LeavesAreChildless
<1>4. MainChainSetIsMainChain'
  BY <1>1 DEF IInv, MainChainSetIsMainChain
<1>5. HeavierAlternativeIsFresh'
  BY <1>1 DEF IInv, HeavierAlternativeIsFresh, TopBlock, MainTip
<1> QED BY <1>2, <1>3, <1>4, <1>5

\* TypeOK of a step that leaves the tree alone.
LEMMA SameTreeTyped ==
    ASSUME TypeOK, UNCHANGED treeVars, UNCHANGED history,
           mainChainStorage' \in Seq(Block), flushed' \in Seq(Block), pending' \in Seq(Block), pc' \in PC
    PROVE  TypeOK'
<1>1. /\ chainsStorage' = chainsStorage /\ mainLeaf' = mainLeaf /\ altLeaves' = altLeaves
      /\ mainChainSet' = mainChainSet /\ segments' = segments
      /\ crashes' = crashes /\ nestedSwitch' = nestedSwitch
  BY DEF treeVars, segments, history
<1> QED BY <1>1 DEF TypeOK

\* AddToMain: the block is pending on top of the main leaf; no segment changes.
LEMMA AddToMainInv ==
    ASSUME IInv, NEW cache \in segments, NEW b \in Block \ {Genesis}, Addable(b, cache),
           AddToMain(b, cache)
    PROVE  IInv'
<1>1. pc = "running" /\ Fresh(chainsStorage, b) /\ Prev[b] = MainTip
  BY AddableFacts DEF AddToMain, OnTop, MainTip
<1>2. /\ mainChainStorage' = Append(mainChainStorage, b) /\ flushed' = mainChainStorage
      /\ pc' = "pushing" /\ pending' = <<b>> /\ UNCHANGED treeVars /\ UNCHANGED history
  BY DEF AddToMain, StoragePush
<1>3. mainChainStorage \in Seq(Block) /\ TypeOK
  BY DEF IInv, TypeOK
<1>4. TypeOK'
  <2>1. mainChainStorage' \in Seq(Block) /\ flushed' \in Seq(Block) /\ pending' \in Seq(Block)
    BY <1>2, <1>3
  <2>2. pc' \in PC
    BY <1>2 DEF PC, Running
  <2> QED BY <1>2, <1>3, <2>1, <2>2, SameTreeTyped
<1>5. PushInv'
  <2>1. chainsStorage' = chainsStorage /\ MainTip' = MainTip
    BY <1>2 DEF treeVars, MainTip, TopBlock
  <2> QED BY <1>1, <1>2, <2>1 DEF PushInv
<1>6. SwitchInv'
  BY <1>2 DEF SwitchInv
<1> QED BY <1>1, <1>2, <1>4, <1>5, <1>6, SameTree DEF IInv

\* PopStorage touches the storage file alone.
LEMMA PopStorageInv ==
    ASSUME IInv, PopStorage
    PROVE  IInv'
<1>1. /\ pc = "popping" /\ pc' = pc /\ pending' = pending
      /\ mainChainStorage' = SubSeq(mainChainStorage, 1, Len(mainChainStorage) - 1)
      /\ flushed' = mainChainStorage /\ UNCHANGED treeVars /\ UNCHANGED history
      /\ Len(mainChainStorage) > chainsStorage[mainLeaf].start
  BY DEF PopStorage, StoragePop, SplitBlockIndex
<1>2. /\ mainChainStorage \in Seq(Block) /\ TypeOK /\ pending \in Seq(Block) /\ pc \in PC
      /\ mainLeaf \in segments /\ chainsStorage[mainLeaf].start \in Nat
  BY DEF IInv, TypeOK, Segment
<1>3. mainChainStorage' \in Seq(Block) /\ Len(mainChainStorage') = Len(mainChainStorage) - 1
  <2> DEFINE old == mainChainStorage
             k == Len(old) - 1
  <2>1. old \in Seq(Block) /\ Len(old) \in Nat /\ k \in Nat /\ k <= Len(old) /\ mainChainStorage' = SubSeq(old, 1, k)
    BY <1>1, <1>2
  <2> HIDE DEF k, old
  <2>2. SubSeq(old, 1, k) \in Seq(Block) /\ Len(SubSeq(old, 1, k)) = k
    BY <2>1
  <2> QED BY <2>1, <2>2 DEF k, old
<1>4. TypeOK'
  <2>1. flushed' \in Seq(Block) /\ pending' \in Seq(Block) /\ pc' \in PC
    BY <1>1, <1>2
  <2> QED BY <1>1, <1>2, <1>3, <2>1, SameTreeTyped
<1>5. PushInv'
  BY <1>1 DEF PushInv
<1>6. SwitchInv'
  <2>1. chainsStorage' = chainsStorage /\ mainLeaf' = mainLeaf
    BY <1>1 DEF treeVars
  <2>2. Len(mainChainStorage') >= chainsStorage[mainLeaf].start
    BY <1>1, <1>2, <1>3
  <2> QED BY <1>1, <2>1, <2>2 DEF SwitchInv
<1> QED BY <1>1, <1>4, <1>5, <1>6, SameTree DEF IInv

\* RefillStorage touches the storage file alone, and reads inside the new leaf.
LEMMA RefillStorageInv ==
    ASSUME IInv, RefillStorage
    PROVE  IInv'
<1> DEFINE seg == chainsStorage[mainLeaf]
           next == Len(mainChainStorage) - seg.start + 1
<1>1. /\ pc \in {"popping", "refilling"} /\ pc' = IF next = Len(seg.blocks) THEN "running" ELSE "refilling"
      /\ pending' = pending
      /\ mainChainStorage' = Append(mainChainStorage, seg.blocks[next])
      /\ flushed' = mainChainStorage /\ UNCHANGED treeVars /\ UNCHANGED history
      /\ pc = "popping" => Len(mainChainStorage) = seg.start
  BY DEF RefillStorage, StoragePush, SplitBlockIndex
<1>2. /\ mainChainStorage \in Seq(Block) /\ TypeOK /\ pending \in Seq(Block) /\ pc \in PC
      /\ GoodTree(chainsStorage) /\ mainLeaf \in DOMAIN chainsStorage
  BY <1>1 DEF IInv, TypeOK, TreeInv, segments
<1>3. /\ seg.start \in Nat /\ Len(seg.blocks) \in Nat \ {0}
      /\ \A i \in 1 .. Len(seg.blocks) : seg.blocks[i] \in Block
  BY <1>2, SegmentFacts DEF GoodTree
<1>4. next \in 1 .. Len(seg.blocks)
  <2>1. CASE pc = "popping"
    BY <1>1, <1>2, <1>3, <2>1
  <2>2. CASE pc = "refilling"
    BY <1>2, <1>3, <2>2 DEF IInv, SwitchInv
  <2> QED BY <1>1, <2>1, <2>2
<1>5. /\ mainChainStorage' \in Seq(Block) /\ flushed' \in Seq(Block)
      /\ Len(mainChainStorage') = Len(mainChainStorage) + 1 /\ Len(mainChainStorage) \in Nat
  BY <1>1, <1>2, <1>3, <1>4
<1>6. TypeOK'
  <2>1. pc' \in PC
    BY <1>1 DEF PC, Running
  <2> QED BY <1>1, <1>2, <1>5, <2>1, SameTreeTyped
<1>7. PushInv'
  BY <1>1 DEF PushInv
<1>8. SwitchInv'
  <2>1. chainsStorage' = chainsStorage /\ mainLeaf' = mainLeaf
    BY <1>1 DEF treeVars
  <2>2. next # Len(seg.blocks) => /\ Len(mainChainStorage') > seg.start
                                  /\ Len(mainChainStorage') < seg.start + Len(seg.blocks)
    BY <1>3, <1>4, <1>5
  <2> QED BY <1>1, <2>1, <2>2 DEF SwitchInv
<1>9. pc # "noLeafToReplace"
  BY <1>1
<1> QED BY <1>1, <1>6, <1>7, <1>8, <1>9, SameTree DEF IInv

\* What a push to a leaf does to the tree.
LEMMA PushStep ==
    ASSUME IInv, pc # "noLeafToReplace", NEW s \in Leaves,
           NEW b \in Block \ {Genesis}, Fresh(chainsStorage, b), Prev[b] = TopBlock(s),
           chainsStorage' = PushBlock(chainsStorage, s, b)
    PROVE  /\ GoodTree(chainsStorage') /\ DOMAIN chainsStorage' = DOMAIN chainsStorage
           /\ Reached(chainsStorage', Leaves)
           /\ \A leaf : ChainOf(chainsStorage', leaf) = ChainOf(chainsStorage, leaf)
           /\ \A r \in segments : chainsStorage'[r].children = chainsStorage[r].children
           /\ \A r \in segments : chainsStorage'[r].start = chainsStorage[r].start
           /\ \A r \in segments \ {s} : chainsStorage'[r].blocks = chainsStorage[r].blocks
           /\ Len(chainsStorage'[s].blocks) = Len(chainsStorage[s].blocks) + 1
           /\ \A i \in 1 .. Len(chainsStorage[s].blocks) :
                 chainsStorage'[s].blocks[i] = chainsStorage[s].blocks[i]
           /\ LastOf(chainsStorage', s) = b
           /\ \A r \in segments \ {s} : LastOf(chainsStorage', r) = TopBlock(r)
<1>1. /\ GoodTree(chainsStorage) /\ TypedTree(chainsStorage) /\ Reached(chainsStorage, Leaves)
      /\ Leaves = {r \in segments : chainsStorage[r].children = {}}
  BY DEF IInv, TreeInv, GoodTree, LeavesAreChildless, Leaves
<1>2. s \in DOMAIN chainsStorage /\ chainsStorage[s].children = {}
  BY <1>1 DEF segments
<1>3. TypedTree(chainsStorage') /\ Pushed(chainsStorage, chainsStorage', s, b)
  BY <1>1, <1>2, PushFacts
<1>4. Prev[b] = LastOf(chainsStorage, s)
  BY DEF TopBlock, LastOf
<1>5. GoodTree(chainsStorage')
  BY <1>1, <1>2, <1>3, <1>4, PushKeepsGood
<1>6. \A leaf : ChainOf(chainsStorage', leaf) = ChainOf(chainsStorage, leaf)
  BY <1>2, <1>3, PushKeepsChains
<1>7. DOMAIN chainsStorage' = DOMAIN chainsStorage
  BY <1>3 DEF Pushed
<1>8. Reached(chainsStorage', Leaves)
  BY <1>1, <1>6, <1>7 DEF Reached
<1>9. /\ \A r \in segments : chainsStorage'[r].children = chainsStorage[r].children
      /\ \A r \in segments : chainsStorage'[r].start = chainsStorage[r].start
      /\ \A r \in segments \ {s} : chainsStorage'[r].blocks = chainsStorage[r].blocks
      /\ Len(chainsStorage'[s].blocks) = Len(chainsStorage[s].blocks) + 1
      /\ \A i \in 1 .. Len(chainsStorage[s].blocks) :
            chainsStorage'[s].blocks[i] = chainsStorage[s].blocks[i]
      /\ chainsStorage'[s].blocks[Len(chainsStorage[s].blocks) + 1] = b
  BY <1>3 DEF Pushed, segments
<1>10. LastOf(chainsStorage', s) = b
  BY <1>9 DEF LastOf
<1>11. \A r \in segments \ {s} : LastOf(chainsStorage', r) = TopBlock(r)
  BY <1>9 DEF LastOf, TopBlock
<1> QED BY <1>5, <1>6, <1>7, <1>8, <1>9, <1>10, <1>11

\* TypeOK of a step to a good tree.
LEMMA GoodTreeStepTyped ==
    ASSUME TypeOK, GoodTree(chainsStorage'),
           mainLeaf' \in segments', altLeaves' \subseteq segments', mainChainSet' \subseteq segments',
           UNCHANGED storageVars, pending' \in Seq(Block), pc' \in PC,
           UNCHANGED crashes, nestedSwitch' \in BOOLEAN
    PROVE  TypeOK'
<1>1. /\ segments' \subseteq Block /\ Root \in segments'
      /\ \A s \in segments' : chainsStorage'[s] \in Segment /\ chainsStorage'[s].blocks # <<>>
  BY GoodTreeTyped DEF segments
<1>2. mainChainStorage' \in Seq(Block) /\ flushed' \in Seq(Block) /\ crashes' \in 0 .. MaxCrashes
  BY DEF TypeOK, storageVars
<1> QED BY <1>1, <1>2 DEF TypeOK

\* PushToMainLeaf: the pending block becomes the top of the main leaf.
LEMMA PushToMainLeafInv ==
    ASSUME IInv, PushToMainLeaf
    PROVE  IInv'
<1>1. /\ pc = "pushing" /\ chainsStorage' = PushBlock(chainsStorage, mainLeaf, Head(pending))
      /\ pc' = "running" /\ pending' = <<>> /\ mainLeaf' = mainLeaf /\ altLeaves' = altLeaves
      /\ mainChainSet' = mainChainSet /\ UNCHANGED storageVars
      /\ crashes' = crashes /\ nestedSwitch' = nestedSwitch
  BY DEF PushToMainLeaf, history
<1>2. PICK b \in Block \ {Genesis} :
          pending = <<b>> /\ Prev[b] = MainTip /\ Fresh(chainsStorage, b)
  BY <1>1 DEF IInv, PushInv
<1>3. Head(pending) = b
  BY <1>2
<1>4. /\ TypeOK /\ mainLeaf \in segments /\ mainLeaf \in Leaves /\ altLeaves \subseteq segments
      /\ mainChainSet \subseteq segments /\ nestedSwitch \in BOOLEAN
      /\ mainLeaf \notin altLeaves /\ mainChainSet = ChainOf(chainsStorage, mainLeaf)
      /\ Leaves = {r \in segments : chainsStorage[r].children = {}}
  BY <1>1 DEF IInv, TypeOK, Leaves, LeavesAreChildless, MainChainSetIsMainChain
<1>5. /\ GoodTree(chainsStorage') /\ segments' = segments /\ Leaves' = Leaves
      /\ Reached(chainsStorage', Leaves)
      /\ \A leaf : ChainOf(chainsStorage', leaf) = ChainOf(chainsStorage, leaf)
      /\ \A r \in segments : chainsStorage'[r].children = chainsStorage[r].children
      /\ \A r \in segments \ {mainLeaf} : chainsStorage'[r].blocks = chainsStorage[r].blocks
      /\ LastOf(chainsStorage', mainLeaf) = b
      /\ \A r \in segments \ {mainLeaf} : LastOf(chainsStorage', r) = TopBlock(r)
  BY <1>1, <1>2, <1>3, <1>4, PushStep DEF segments, Leaves, MainTip
<1>6. TypeOK'
  BY <1>1, <1>4, <1>5, GoodTreeStepTyped DEF PC, Running
<1>7. TreeInv' /\ MainChainSetIsMainChain'
  BY <1>1, <1>4, <1>5 DEF TreeInv, MainChainSetIsMainChain
<1>8. LeavesAreChildless'
  BY <1>1, <1>4, <1>5 DEF LeavesAreChildless, Leaves
<1>9. HeavierAlternativeIsFresh'
  <2>1. WorkOf[b] > WorkOf[MainTip] /\ MainTip \in Block
    BY <1>2, BlockAssumption
  <2>2. ASSUME NEW leaf \in altLeaves, WorkOf[LastOf(chainsStorage', leaf)] > WorkOf[b]
        PROVE  Len(chainsStorage'[leaf].blocks) = 1
    <3>1. leaf \in segments \ {mainLeaf} /\ TopBlock(leaf) = LastOf(chainsStorage', leaf)
      BY <1>4, <1>5
    <3>2. TopBlock(leaf) \in Block
      BY <1>1, <3>1, SegmentFacts DEF IInv, TreeInv, GoodTree, segments, LastOf, TopBlock
    <3>3. WorkOf[TopBlock(leaf)] > WorkOf[MainTip]
      BY <2>1, <2>2, <3>1, <3>2, BlockAssumption
    <3> QED BY <1>5, <3>1, <3>3 DEF IInv, HeavierAlternativeIsFresh
  <2>3. MainTip' = b /\ \A leaf \in altLeaves : TopBlock(leaf)' = LastOf(chainsStorage', leaf)
    BY <1>1, <1>5 DEF MainTip, TopBlock, LastOf
  <2> QED BY <1>1, <2>2, <2>3 DEF HeavierAlternativeIsFresh
<1>10. PushInv' /\ SwitchInv'
  BY <1>1 DEF PushInv, SwitchInv
<1> QED BY <1>6, <1>7, <1>8, <1>9, <1>10 DEF IInv

\* The top block of a segment is a block.
LEMMA TopBlockIsBlock ==
    ASSUME GoodTree(chainsStorage), NEW s \in segments
    PROVE  TopBlock(s) \in Block /\ WorkOf[TopBlock(s)] \in Nat
<1>1. TopBlock(s) \in Block
  BY SegmentFacts DEF GoodTree, segments, LastOf, TopBlock
<1> QED BY <1>1, BlockAssumption

\* A push to the leaf cache of an alternative chain.
LEMMA AlternativePushed ==
    ASSUME IInv, NEW cache \in segments, NEW b \in Block \ {Genesis}, Addable(b, cache),
           OnTop(b, cache), IsLeafSegment(cache), cache # mainLeaf,
           chainsStorage' = PushBlock(chainsStorage, cache, b)
    PROVE  /\ GoodTree(chainsStorage') /\ segments' = segments
           /\ Reached(chainsStorage', Leaves)
           /\ \A leaf : ChainOf(chainsStorage', leaf) = ChainOf(chainsStorage, leaf)
           /\ Leaves = {r \in segments : chainsStorage'[r].children = {}}
           /\ \A r \in segments : chainsStorage'[r].start = chainsStorage[r].start
           /\ \A r \in segments \ {cache} : chainsStorage'[r].blocks = chainsStorage[r].blocks
           /\ TopBlock(cache)' = b
           /\ \A r \in segments \ {cache} : TopBlock(r)' = TopBlock(r)
           /\ cache \in altLeaves /\ mainLeaf \notin altLeaves /\ pc = "running"
<1>1. /\ pc = "running" /\ GoodTree(chainsStorage) /\ Fresh(chainsStorage, b)
      /\ Leaves = {s \in segments : chainsStorage[s].children = {}}
      /\ mainLeaf \notin altLeaves
  BY AddableFacts
<1>2. cache \in Leaves /\ cache \in altLeaves /\ Prev[b] = TopBlock(cache)
  BY <1>1 DEF OnTop, IsLeafSegment, Leaves
<1>3. /\ GoodTree(chainsStorage') /\ DOMAIN chainsStorage' = DOMAIN chainsStorage
      /\ Reached(chainsStorage', Leaves)
      /\ \A leaf : ChainOf(chainsStorage', leaf) = ChainOf(chainsStorage, leaf)
      /\ \A r \in segments : chainsStorage'[r].children = chainsStorage[r].children
      /\ \A r \in segments : chainsStorage'[r].start = chainsStorage[r].start
      /\ \A r \in segments \ {cache} : chainsStorage'[r].blocks = chainsStorage[r].blocks
      /\ LastOf(chainsStorage', cache) = b
      /\ \A r \in segments \ {cache} : LastOf(chainsStorage', r) = TopBlock(r)
  BY <1>1, <1>2, PushStep
<1>4. TopBlock(cache)' = b /\ \A r \in segments \ {cache} : TopBlock(r)' = TopBlock(r)
  BY <1>3 DEF TopBlock, LastOf
<1> QED BY <1>1, <1>2, <1>3, <1>4 DEF segments

\* AddToAlternative: a leaf grows without outweighing the main chain.
LEMMA AddToAlternativeInv ==
    ASSUME IInv, NEW cache \in segments, NEW b \in Block \ {Genesis}, Addable(b, cache),
           AddToAlternative(b, cache)
    PROVE  IInv'
<1>1. /\ OnTop(b, cache) /\ IsLeafSegment(cache) /\ cache # mainLeaf
      /\ ~(WorkOf[b] > WorkOf[MainTip])
      /\ chainsStorage' = PushBlock(chainsStorage, cache, b)
      /\ mainLeaf' = mainLeaf /\ altLeaves' = altLeaves /\ mainChainSet' = mainChainSet
      /\ UNCHANGED storageVars /\ pc' = pc /\ pending' = pending /\ crashes' = crashes
      /\ nestedSwitch' = nestedSwitch
  BY DEF AddToAlternative, BecomesMain, history
<1>2. /\ GoodTree(chainsStorage') /\ segments' = segments
      /\ Reached(chainsStorage', Leaves) /\ Leaves' = Leaves
      /\ \A leaf : ChainOf(chainsStorage', leaf) = ChainOf(chainsStorage, leaf)
      /\ Leaves = {r \in segments : chainsStorage'[r].children = {}}
      /\ \A r \in segments \ {cache} : chainsStorage'[r].blocks = chainsStorage[r].blocks
      /\ TopBlock(cache)' = b
      /\ \A r \in segments \ {cache} : TopBlock(r)' = TopBlock(r)
      /\ cache \in altLeaves /\ mainLeaf \notin altLeaves /\ pc = "running"
  BY <1>1, AlternativePushed DEF Leaves
<1>3. /\ TypeOK /\ mainLeaf \in segments /\ altLeaves \subseteq segments /\ pending \in Seq(Block)
      /\ mainChainSet \subseteq segments /\ nestedSwitch \in BOOLEAN /\ pc \in PC
  BY DEF IInv, TypeOK
<1>4. TypeOK'
  BY <1>1, <1>2, <1>3, GoodTreeStepTyped
<1>5. TreeInv' /\ MainChainSetIsMainChain'
  BY <1>1, <1>2 DEF IInv, TreeInv, MainChainSetIsMainChain
<1>6. LeavesAreChildless'
  BY <1>1, <1>2 DEF LeavesAreChildless, Leaves
<1>7. HeavierAlternativeIsFresh'
  <2>1. MainTip' = MainTip
    BY <1>1, <1>2, <1>3 DEF MainTip, TopBlock
  <2>2. ASSUME NEW leaf \in altLeaves, WorkOf[TopBlock(leaf)'] > WorkOf[MainTip]
        PROVE  Len(chainsStorage'[leaf].blocks) = 1
    <3>1. leaf # cache
      BY <1>1, <1>2, <2>2
    <3> QED BY <1>2, <1>3, <2>2, <3>1 DEF IInv, HeavierAlternativeIsFresh
  <2> QED BY <1>1, <2>1, <2>2 DEF HeavierAlternativeIsFresh
<1>8. PushInv' /\ SwitchInv'
  BY <1>1, <1>2 DEF PushInv, SwitchInv
<1> QED BY <1>4, <1>5, <1>6, <1>7, <1>8 DEF IInv

\* AddAndSwitch: the leaf that grew takes the place of the main leaf.
LEMMA AddAndSwitchInv ==
    ASSUME IInv, NEW cache \in segments, NEW b \in Block \ {Genesis}, Addable(b, cache),
           AddAndSwitch(b, cache)
    PROVE  IInv'
<1>1. /\ OnTop(b, cache) /\ IsLeafSegment(cache) /\ cache # mainLeaf
      /\ WorkOf[b] > WorkOf[MainTip]
      /\ chainsStorage' = PushBlock(chainsStorage, cache, b)
      /\ mainLeaf' = cache /\ altLeaves' = (altLeaves \ {cache}) \cup {mainLeaf}
      /\ mainChainSet' = ChainOf(chainsStorage, cache)
      /\ pc' = IF Len(mainChainStorage) < chainsStorage[cache].start
               THEN "storageTooShort" ELSE "popping"
      /\ UNCHANGED storageVars /\ pending' = pending /\ crashes' = crashes
      /\ nestedSwitch' = (nestedSwitch \/ chainsStorage[cache].parent \notin mainChainSet)
  BY DEF AddAndSwitch, BecomesMain, UpdateMainChainSet
<1>2. /\ GoodTree(chainsStorage') /\ segments' = segments
      /\ Reached(chainsStorage', Leaves)
      /\ \A leaf : ChainOf(chainsStorage', leaf) = ChainOf(chainsStorage, leaf)
      /\ Leaves = {r \in segments : chainsStorage'[r].children = {}}
      /\ \A r \in segments : chainsStorage'[r].start = chainsStorage[r].start
      /\ \A r \in segments \ {cache} : chainsStorage'[r].blocks = chainsStorage[r].blocks
      /\ TopBlock(cache)' = b
      /\ \A r \in segments \ {cache} : TopBlock(r)' = TopBlock(r)
      /\ cache \in altLeaves /\ mainLeaf \notin altLeaves /\ pc = "running"
  BY <1>1, AlternativePushed
<1>3. Leaves' = Leaves
  BY <1>1, <1>2 DEF Leaves
<1>4. /\ TypeOK /\ mainLeaf \in segments /\ altLeaves \subseteq segments /\ pending \in Seq(Block)
      /\ mainChainStorage \in Seq(Block)
      /\ GoodTree(chainsStorage)
  BY <1>2 DEF IInv, TypeOK, TreeInv
<1>5. mainChainSet' \subseteq segments
  BY <1>1 DEF ChainOf, segments
<1>6. TypeOK'
  <2>1. nestedSwitch' \in BOOLEAN
    BY <1>1
  <2>2. pc' \in PC
    BY <1>1 DEF PC, Running, Undefined
  <2>3. mainLeaf' \in segments' /\ altLeaves' \subseteq segments' /\ mainChainSet' \subseteq segments'
    BY <1>1, <1>2, <1>4, <1>5
  <2>4. pending' \in Seq(Block) /\ UNCHANGED crashes
    BY <1>1, <1>4
  <2> QED BY <1>1, <1>2, <1>4, <2>1, <2>2, <2>3, <2>4, GoodTreeStepTyped
<1>7. TreeInv' /\ MainChainSetIsMainChain'
  BY <1>1, <1>2, <1>3 DEF TreeInv, MainChainSetIsMainChain
<1>8. LeavesAreChildless'
  BY <1>1, <1>2, <1>3 DEF LeavesAreChildless, Leaves
<1>9. HeavierAlternativeIsFresh'
  <2>1. MainTip' = b
    BY <1>1, <1>2 DEF MainTip, TopBlock
  <2>2. TopBlock(mainLeaf) = MainTip /\ WorkOf[MainTip] \in Nat /\ WorkOf[b] \in Nat
    BY <1>4, TopBlockIsBlock, BlockAssumption DEF MainTip
  <2>3. ASSUME NEW leaf \in altLeaves', WorkOf[TopBlock(leaf)'] > WorkOf[b]
        PROVE  Len(chainsStorage'[leaf].blocks) = 1
    <3>1. leaf \in segments \ {cache} /\ TopBlock(leaf)' = TopBlock(leaf)
      BY <1>1, <1>2, <1>4
    <3>2. WorkOf[TopBlock(leaf)] \in Nat
      BY <1>4, <3>1, TopBlockIsBlock
    <3>3. WorkOf[TopBlock(leaf)] > WorkOf[MainTip]
      <4>1. WorkOf[TopBlock(leaf)] > WorkOf[b] /\ WorkOf[b] > WorkOf[MainTip]
        BY <1>1, <2>3, <3>1
      <4> QED BY <2>2, <3>2, <4>1
    <3>4. leaf # mainLeaf
      BY <2>2, <3>3
    <3> QED BY <1>1, <1>2, <3>1, <3>3, <3>4 DEF IInv, HeavierAlternativeIsFresh
  <2> QED BY <2>1, <2>3 DEF HeavierAlternativeIsFresh
<1>10. PushInv'
  BY <1>1 DEF PushInv
<1>11. SwitchInv'
  <2>1. /\ chainsStorage'[mainLeaf'].start = chainsStorage[cache].start
        /\ mainChainStorage' = mainChainStorage
    BY <1>1, <1>2 DEF storageVars
  <2>2. Len(mainChainStorage) \in Nat
    BY <1>4
  <2>3. chainsStorage[cache].start \in Nat
    <3>1. TypedTree(chainsStorage) /\ cache \in DOMAIN chainsStorage
      BY <1>4 DEF GoodTree, segments
    <3> QED BY <3>1, SegmentFacts
  <2> QED BY <1>1, <2>1, <2>2, <2>3 DEF SwitchInv
<1> QED BY <1>6, <1>7, <1>8, <1>9, <1>10, <1>11 DEF IInv

\* ForkOnTop: one more child of a segment that has some.
LEMMA ForkOnTopInv ==
    ASSUME IInv, NEW cache \in segments, NEW b \in Block \ {Genesis}, Addable(b, cache),
           ForkOnTop(b, cache)
    PROVE  IInv'
<1>1. /\ TopBlock(cache) = Prev[b] /\ chainsStorage[cache].children # {}
      /\ chainsStorage' = NewChild(chainsStorage, cache, b)
      /\ mainLeaf' = mainLeaf /\ altLeaves' = altLeaves \cup {b}
      /\ mainChainSet' = ChainOf(chainsStorage', mainLeaf)
      /\ UNCHANGED storageVars /\ pc' = pc /\ pending' = pending /\ crashes' = crashes
      /\ nestedSwitch' = nestedSwitch
  BY DEF ForkOnTop, OnTop, IsLeafSegment, UpdateMainChainSet, history
<1>2. /\ pc = "running" /\ GoodTree(chainsStorage) /\ Reached(chainsStorage, Leaves)
      /\ Fresh(chainsStorage, b) /\ mainLeaf \notin altLeaves /\ b \notin segments
      /\ Leaves = {s \in segments : chainsStorage[s].children = {}}
      /\ TypedTree(chainsStorage)
  BY AddableFacts DEF GoodTree
<1>3. TypedTree(chainsStorage') /\ Forked(chainsStorage, chainsStorage', cache, b)
  BY <1>1, <1>2, NewChildFacts DEF segments
<1>4. GoodTree(chainsStorage')
  <2>1. Prev[b] = LastOf(chainsStorage, cache)
    BY <1>1 DEF TopBlock, LastOf
  <2> QED BY <1>2, <1>3, <2>1, ForkKeepsGood DEF segments
<1>5. Reached(chainsStorage', Leaves') /\ Leaves' = Leaves \cup {b}
  <2>1. Leaves \in SUBSET DOMAIN chainsStorage
    BY <1>2 DEF segments
  <2>2. Reached(chainsStorage', Leaves \cup {b})
    BY <1>2, <1>3, <2>1, ForkKeepsReached DEF segments
  <2>3. Leaves' = Leaves \cup {b}
    BY <1>1 DEF Leaves
  <2> QED BY <2>2, <2>3
<1>6. /\ segments' = segments \cup {b} /\ chainsStorage'[b].children = {}
      /\ Len(chainsStorage'[b].blocks) = 1
      /\ \A r \in segments : chainsStorage'[r].blocks = chainsStorage[r].blocks
      /\ \A r \in segments \ {cache} : chainsStorage'[r].children = chainsStorage[r].children
      /\ chainsStorage'[cache].children # {}
  BY <1>3 DEF Forked, segments
<1>7. /\ TypeOK /\ mainLeaf \in segments /\ altLeaves \subseteq segments /\ pending \in Seq(Block)
      /\ nestedSwitch \in BOOLEAN /\ pc \in PC
  BY DEF IInv, TypeOK
<1>8. TypeOK'
  <2>1. mainLeaf' \in segments' /\ altLeaves' \subseteq segments' /\ mainChainSet' \subseteq segments'
    BY <1>1, <1>6, <1>7 DEF ChainOf, segments
  <2> QED BY <1>1, <1>4, <1>7, <2>1, GoodTreeStepTyped
<1>9. TreeInv' /\ MainChainSetIsMainChain'
  BY <1>1, <1>4, <1>5 DEF TreeInv, MainChainSetIsMainChain
<1>10. LeavesAreChildless'
  <2>1. Leaves' = {s \in segments' : chainsStorage'[s].children = {}}
    BY <1>1, <1>2, <1>5, <1>6
  <2>2. mainLeaf' \notin altLeaves'
    BY <1>1, <1>2, <1>7
  <2> QED BY <2>1, <2>2 DEF LeavesAreChildless, Leaves
<1>11. HeavierAlternativeIsFresh'
  <2>1. MainTip' = MainTip /\ \A leaf \in altLeaves : TopBlock(leaf)' = TopBlock(leaf)
    BY <1>1, <1>6, <1>7 DEF MainTip, TopBlock
  <2> QED BY <1>1, <1>6, <1>7, <2>1 DEF IInv, HeavierAlternativeIsFresh
<1>12. PushInv' /\ SwitchInv'
  BY <1>1, <1>2 DEF PushInv, SwitchInv
<1> QED BY <1>8, <1>9, <1>10, <1>11, <1>12 DEF IInv

\* Wherever ForkInside is defined, both split functions give a good tree in which the
\* upper part has the children that cache had.
LEMMA SplitStep ==
    ASSUME IInv, NEW cache \in segments, NEW b \in Block \ {Genesis}, Addable(b, cache),
           ~OnTop(b, cache),
           ReplacesLeaf(Split(cache, Prev[b]), UpperName(cache, Prev[b])) => cache \in Leaves
    PROVE  LET t == Split(cache, Prev[b])
               up == UpperName(cache, Prev[b])
               n == Position(cache, Prev[b])
           IN  /\ n \in 1 .. Len(chainsStorage[cache].blocks) - 1
               /\ chainsStorage[cache].blocks[n] = Prev[b]
               /\ up = chainsStorage[cache].blocks[n + 1]
               /\ up \in Block \ segments
               /\ TypedTree(t) /\ IsSplit(chainsStorage, t, cache, up, n)
<1> DEFINE t == Split(cache, Prev[b])
           up == UpperName(cache, Prev[b])
           n == Position(cache, Prev[b])
<1>1. /\ GoodTree(chainsStorage) /\ Prev[b] \in BlocksOf(cache) /\ Prev[b] # TopBlock(cache)
      /\ Leaves = {s \in segments : chainsStorage[s].children = {}}
  BY AddableFacts DEF OnTop
<1>2. n \in 1 .. Len(chainsStorage[cache].blocks) - 1 /\ chainsStorage[cache].blocks[n] = Prev[b]
  BY <1>1, PositionFacts
<1>3. up = chainsStorage[cache].blocks[n + 1]
  BY DEF UpperName
<1>4. up \in Block \ segments
  <2> HIDE DEF n
  <2>1. GoodTree(chainsStorage) /\ cache \in DOMAIN chainsStorage
    BY <1>1 DEF segments
  <2>2. chainsStorage[cache].blocks[n + 1] \in Block \ DOMAIN chainsStorage
    BY <1>2, <2>1, UpperIsNew
  <2> QED BY <1>3, <2>2 DEF segments
<1>5. t = SplitInMemory(cache, Prev[b])
  <2>1. CASE cache # Root
    BY <2>1 DEF Split
  <2>2. CASE cache = Root
    <3>1. SplitDatabase(Prev[b])[up].children = {}
      BY <2>2 DEF SplitDatabase
    <3>2. cache \in Leaves
      BY <2>2, <3>1 DEF ReplacesLeaf, Split
    <3>3. chainsStorage[Root].children = {}
      BY <1>1, <2>2, <3>2
    <3> QED BY <2>2, <3>3, SplitDatabaseIsSplit DEF Split
  <2> QED BY <2>1, <2>2
<1>6. TypedTree(t) /\ IsSplit(chainsStorage, t, cache, up, n)
  BY <1>1, <1>5, SplitFacts
<1> QED BY <1>2, <1>3, <1>4, <1>6

\* What ForkInside does to the tree and to the leaves; up is the upper part of the split.
ForkedInside(cache, b, up) ==
    /\ GoodTree(chainsStorage') /\ Reached(chainsStorage', Leaves')
    /\ segments' = segments \cup {up, b}
    /\ up \notin segments /\ b \notin segments /\ up # b
    /\ Leaves' = {s \in segments' : chainsStorage'[s].children = {}}
    /\ mainLeaf' = IF mainLeaf = cache THEN up ELSE mainLeaf
    /\ altLeaves' = (IF cache \in altLeaves THEN (altLeaves \ {cache}) \cup {up} ELSE altLeaves)
                       \cup {b}
    /\ Len(chainsStorage'[b].blocks) = 1
    /\ \A r \in segments \ {cache} : chainsStorage'[r].blocks = chainsStorage[r].blocks
    /\ \A r \in segments \ {cache} : TopBlock(r)' = TopBlock(r)
    /\ TopBlock(up)' = TopBlock(cache)
    /\ Len(chainsStorage[cache].blocks) # 1
    /\ \A x : Fresh(chainsStorage', x) <=> Fresh(chainsStorage, x) /\ x # b
    /\ up # Genesis /\ Prev[up] = Prev[b] /\ ~Fresh(chainsStorage, up)

\* ForkInside does that.
LEMMA ForkInsideFacts ==
    ASSUME IInv, NEW cache \in segments, NEW b \in Block \ {Genesis}, Addable(b, cache),
           ForkInside(b, cache), NEW up, up = UpperName(cache, Prev[b])
    PROVE  ForkedInside(cache, b, up)
<1> DEFINE t == Split(cache, Prev[b])
           n == Position(cache, Prev[b])
           m == Len(chainsStorage[cache].blocks)
           replaced == ReplacesLeaf(t, up)
<1>1. /\ ~OnTop(b, cache)
      /\ replaced => cache \in Leaves
      /\ chainsStorage' = NewChild(t, cache, b)
      /\ mainLeaf' = IF replaced /\ cache = mainLeaf THEN up ELSE mainLeaf
      /\ altLeaves' = (IF replaced /\ cache \in altLeaves
                       THEN (altLeaves \ {cache}) \cup {up} ELSE altLeaves) \cup {b}
  BY DEF ForkInside, Leaves
<1>2. /\ GoodTree(chainsStorage) /\ TypedTree(chainsStorage) /\ Reached(chainsStorage, Leaves)
      /\ Fresh(chainsStorage, b)
      /\ mainLeaf \notin altLeaves /\ b \notin segments
      /\ Leaves = {s \in segments : chainsStorage[s].children = {}}
  BY AddableFacts DEF GoodTree
<1>3. /\ n \in 1 .. m - 1 /\ chainsStorage[cache].blocks[n] = Prev[b]
      /\ up = chainsStorage[cache].blocks[n + 1] /\ up \in Block \ segments
      /\ TypedTree(t) /\ IsSplit(chainsStorage, t, cache, up, n)
  <2>1. ReplacesLeaf(Split(cache, Prev[b]), UpperName(cache, Prev[b])) => cache \in Leaves
    BY <1>1
  <2>2. LET v == UpperName(cache, Prev[b])
        IN  /\ n \in 1 .. m - 1 /\ chainsStorage[cache].blocks[n] = Prev[b]
            /\ v = chainsStorage[cache].blocks[n + 1] /\ v \in Block \ segments
            /\ TypedTree(t) /\ IsSplit(chainsStorage, t, cache, v, n)
    BY <1>1, <2>1, SplitStep
  <2> QED BY <2>2, Zenon
<1> HIDE DEF t, n
<1>4. m \in Nat /\ n + 1 \in 1 .. m /\ n + 1 \in 2 .. m /\ (n + 1) - 1 = n /\ m # 1
  <2>1. m \in Nat
    BY <1>2, SegmentFacts DEF segments
  <2> HIDE DEF m
  <2> QED BY <1>3, <2>1
<1>5. /\ up # Genesis /\ Prev[up] = Prev[b] /\ ~Fresh(chainsStorage, up)
  <2>1. /\ chainsStorage[cache].blocks[n + 1] # Genesis
        /\ Prev[chainsStorage[cache].blocks[n + 1]] = chainsStorage[cache].blocks[(n + 1) - 1]
    BY <1>2, <1>4 DEF GoodTree, LinkedSegments, Linked, segments
  <2>2. ~Fresh(chainsStorage, up)
    BY <1>3, <1>4 DEF Fresh, Holds, segments
  <2> QED BY <1>3, <1>4, <2>1, <2>2
<1>6. up # b
  BY <1>2, <1>5
<1>7. /\ DOMAIN t = segments \cup {up}
      /\ \A r \in segments \ {cache} : t[r].blocks = chainsStorage[r].blocks
                                       /\ t[r].children = chainsStorage[r].children
      /\ t[cache].children = {up} /\ t[up].children = chainsStorage[cache].children
      /\ Len(t[cache].blocks) = n /\ t[cache].blocks[n] = Prev[b]
      /\ LastOf(t, up) = TopBlock(cache)
  <2>1. /\ Len(t[up].blocks) = m - n /\ m - n \in 1 .. m - n /\ n + (m - n) = m /\ n \in 1 .. n
    <3>1. Len(t[up].blocks) = m - n
      BY <1>3 DEF IsSplit
    <3> HIDE DEF m
    <3>2. m - n \in 1 .. m - n /\ n + (m - n) = m /\ n \in 1 .. n
      BY <1>3, <1>4
    <3> QED BY <3>1, <3>2
  <2>2. t[up].blocks[m - n] = chainsStorage[cache].blocks[n + (m - n)]
    BY <1>3, <2>1 DEF IsSplit
  <2>3. LastOf(t, up) = TopBlock(cache)
    BY <2>1, <2>2 DEF LastOf, TopBlock
  <2>4. t[cache].blocks[n] = Prev[b]
    BY <1>3, <2>1 DEF IsSplit
  <2> QED BY <1>3, <2>3, <2>4 DEF IsSplit, segments
<1>8. GoodTree(t)
  BY <1>2, <1>3, SplitKeepsGood DEF segments
<1>9. replaced <=> cache \in Leaves
  BY <1>2, <1>7 DEF ReplacesLeaf
<1> HIDE DEF replaced
<1> DEFINE leaves == IF cache \in Leaves THEN (Leaves \ {cache}) \cup {up} ELSE Leaves
<1>10. Reached(t, leaves)
  <2>1. UpperReplaces(chainsStorage, cache, up, Leaves, leaves)
    BY <1>2 DEF segments, UpperReplaces
  <2>2. /\ GoodTree(chainsStorage) /\ Reached(chainsStorage, Leaves)
        /\ cache \in DOMAIN chainsStorage /\ up \in Block \ DOMAIN chainsStorage
        /\ IsSplit(chainsStorage, t, cache, up, n)
    BY <1>2, <1>3 DEF segments
  <2> HIDE DEF leaves
  <2> QED BY <2>1, <2>2, SplitKeepsReached
<1>11. leaves = {s \in DOMAIN t : t[s].children = {}}
  BY <1>2, <1>3, <1>7
<1>12. b \notin DOMAIN t /\ Fresh(t, b) /\ \A x : Fresh(t, x) <=> Fresh(chainsStorage, x)
  <2>1. \A x : Fresh(t, x) <=> Fresh(chainsStorage, x)
    BY <1>2, <1>3, SplitKeepsBlocks DEF segments
  <2> QED BY <1>2, <1>6, <1>7, <2>1
<1>13. TypedTree(chainsStorage') /\ Forked(t, chainsStorage', cache, b)
  BY <1>1, <1>3, <1>7, <1>12, NewChildFacts
<1>14. GoodTree(chainsStorage')
  <2>1. Prev[b] = LastOf(t, cache) /\ cache \in DOMAIN t
    BY <1>7 DEF LastOf
  <2> QED BY <1>8, <1>12, <1>13, <2>1, ForkKeepsGood
<1>15. \A x : Fresh(chainsStorage', x) <=> Fresh(chainsStorage, x) /\ x # b
  <2> SUFFICES ASSUME NEW x
               PROVE  Fresh(chainsStorage', x) <=> Fresh(chainsStorage, x) /\ x # b
    OBVIOUS
  <2>1. cache \in DOMAIN t /\ b \notin DOMAIN t /\ Forked(t, chainsStorage', cache, b)
    BY <1>7, <1>12, <1>13
  <2>2. Fresh(chainsStorage', x) <=> Fresh(t, x) /\ x # b
    BY <2>1, ForkAddsBlock
  <2> QED BY <1>12, <2>2
<1>16. /\ mainLeaf' = IF mainLeaf = cache THEN up ELSE mainLeaf
       /\ altLeaves' = (IF cache \in altLeaves THEN (altLeaves \ {cache}) \cup {up} ELSE altLeaves) \cup {b}
       /\ Leaves' = leaves \cup {b}
  BY <1>1, <1>2, <1>9 DEF Leaves
<1>17. Reached(chainsStorage', Leaves')
  <2>1. leaves \in SUBSET DOMAIN t /\ cache \in DOMAIN t
    BY <1>7, <1>11
  <2> HIDE DEF leaves
  <2> QED BY <1>8, <1>10, <1>12, <1>13, <1>16, <2>1, ForkKeepsReached
<1>18. /\ segments' = segments \cup {up, b}
       /\ \A r \in DOMAIN t : chainsStorage'[r].blocks = t[r].blocks
       /\ \A r \in DOMAIN t \ {cache} : chainsStorage'[r].children = t[r].children
       /\ chainsStorage'[cache].children # {} /\ chainsStorage'[b].children = {}
       /\ Len(chainsStorage'[b].blocks) = 1
  BY <1>7, <1>13 DEF Forked, segments
<1>19. Leaves' = {s \in segments' : chainsStorage'[s].children = {}}
  <2>1. cache \notin leaves
    BY <1>7, <1>11
  <2> HIDE DEF leaves
  <2> QED BY <1>7, <1>11, <1>12, <1>16, <1>18, <2>1
<1>20. /\ TopBlock(up)' = TopBlock(cache)
       /\ \A r \in segments \ {cache} : /\ chainsStorage'[r].blocks = chainsStorage[r].blocks
                                        /\ TopBlock(r)' = TopBlock(r)
  BY <1>7, <1>18 DEF TopBlock, LastOf
<1> QED BY <1>2, <1>3, <1>4, <1>5, <1>6, <1>14, <1>15, <1>16, <1>17, <1>18, <1>19, <1>20
        DEF ForkedInside

\* ForkInside: a split, then a child of its lower part.
LEMMA ForkInsideInv ==
    ASSUME IInv, NEW cache \in segments, NEW b \in Block \ {Genesis}, Addable(b, cache),
           ForkInside(b, cache)
    PROVE  IInv'
<1>up. PICK up : up = UpperName(cache, Prev[b])
  OBVIOUS
<1>1. /\ GoodTree(chainsStorage') /\ Reached(chainsStorage', Leaves')
      /\ segments' = segments \cup {up, b}
      /\ up \notin segments /\ b \notin segments /\ up # b
      /\ Leaves' = {s \in segments' : chainsStorage'[s].children = {}}
      /\ mainLeaf' = IF mainLeaf = cache THEN up ELSE mainLeaf
      /\ altLeaves' = (IF cache \in altLeaves THEN (altLeaves \ {cache}) \cup {up} ELSE altLeaves) \cup {b}
      /\ Len(chainsStorage'[b].blocks) = 1
      /\ \A r \in segments \ {cache} : chainsStorage'[r].blocks = chainsStorage[r].blocks
      /\ \A r \in segments \ {cache} : TopBlock(r)' = TopBlock(r)
      /\ TopBlock(up)' = TopBlock(cache)
      /\ Len(chainsStorage[cache].blocks) # 1
  <2>1. ForkedInside(cache, b, up)
    BY <1>up, ForkInsideFacts
  <2> QED BY <2>1 DEF ForkedInside
<1>2. /\ mainChainSet' = ChainOf(chainsStorage', mainLeaf')
      /\ UNCHANGED storageVars /\ pc' = pc /\ pending' = pending /\ crashes' = crashes
      /\ nestedSwitch' = nestedSwitch
  BY DEF ForkInside, UpdateMainChainSet, history
<1>3. /\ TypeOK /\ mainLeaf \in segments /\ altLeaves \subseteq segments /\ pending \in Seq(Block)
      /\ nestedSwitch \in BOOLEAN /\ pc \in PC /\ pc = "running" /\ mainLeaf \notin altLeaves
  BY AddableFacts DEF IInv, TypeOK
<1>4. TypeOK'
  <2>1. mainLeaf' \in segments' /\ altLeaves' \subseteq segments' /\ mainChainSet' \subseteq segments'
    BY <1>1, <1>2, <1>3 DEF ChainOf, segments
  <2> QED BY <1>1, <1>2, <1>3, <2>1, GoodTreeStepTyped
<1>5. TreeInv' /\ MainChainSetIsMainChain'
  BY <1>1, <1>2 DEF TreeInv, MainChainSetIsMainChain
<1>6. LeavesAreChildless'
  <2>1. mainLeaf' \notin altLeaves'
    BY <1>1, <1>3
  <2> QED BY <1>1, <2>1 DEF LeavesAreChildless, Leaves
<1>7. HeavierAlternativeIsFresh'
  <2>1. MainTip' = MainTip
    <3>1. CASE mainLeaf = cache
      <4>1. TopBlock(mainLeaf)' = TopBlock(up)'
        BY <1>1, <3>1 DEF TopBlock
      <4> QED BY <1>1, <3>1, <4>1 DEF MainTip
    <3>2. CASE mainLeaf # cache
      BY <1>1, <1>3, <3>2 DEF MainTip, TopBlock
    <3> QED BY <3>1, <3>2
  <2>2. ASSUME NEW leaf \in altLeaves', WorkOf[TopBlock(leaf)'] > WorkOf[MainTip]
        PROVE  Len(chainsStorage'[leaf].blocks) = 1
    <3>1. CASE leaf = b
      BY <1>1, <3>1
    <3>2. CASE leaf = up
      <4>1. cache \in altLeaves /\ WorkOf[TopBlock(cache)] > WorkOf[MainTip]
        BY <1>1, <1>3, <2>2, <3>2
      <4> QED BY <1>1, <4>1 DEF IInv, HeavierAlternativeIsFresh
    <3>3. CASE leaf \in altLeaves \ {cache}
      BY <1>1, <1>3, <2>2, <3>3 DEF IInv, HeavierAlternativeIsFresh
    <3> QED BY <1>1, <3>1, <3>2, <3>3
  <2> QED BY <2>1, <2>2 DEF HeavierAlternativeIsFresh
<1>8. PushInv' /\ SwitchInv'
  BY <1>2, <1>3 DEF PushInv, SwitchInv
<1> QED BY <1>4, <1>5, <1>6, <1>7, <1>8 DEF IInv

\* The undefined case: only the root can be split without being a leaf, and then it
\* was not one of the leaves before.
LEMMA ForkInsideUndefinedFacts ==
    ASSUME IInv, NEW cache \in segments, NEW b \in Block \ {Genesis}, Addable(b, cache),
           ForkInsideUndefined(b, cache)
    PROVE  /\ Root \notin Leaves
           /\ segments \subseteq segments' /\ segments' \subseteq Block
           /\ \A s \in segments' : chainsStorage'[s] \in Segment /\ chainsStorage'[s].blocks # <<>>
           /\ \A s \in segments \ {Root} : chainsStorage'[s] = chainsStorage[s]
           /\ \A x : Fresh(chainsStorage', x) <=> Fresh(chainsStorage, x)
<1> DEFINE p == Prev[b]
           up == UpperName(cache, p)
           n == Position(cache, p)
           seg == chainsStorage[Root]
           m == Len(seg.blocks)
<1>1. /\ ~OnTop(b, cache) /\ ReplacesLeaf(Split(cache, p), up) /\ cache \notin Leaves
      /\ chainsStorage' = Split(cache, p)
  BY DEF ForkInsideUndefined, Leaves
<1>2. /\ GoodTree(chainsStorage) /\ p \in BlocksOf(cache) /\ p # TopBlock(cache)
      /\ Leaves = {s \in segments : chainsStorage[s].children = {}}
  BY <1>1, AddableFacts DEF OnTop
<1>3. cache = Root
  <2> SUFFICES ASSUME cache # Root PROVE FALSE
    OBVIOUS
  <2>1. IsSplit(chainsStorage, SplitInMemory(cache, p), cache, up, n)
    BY <1>2, SplitFacts
  <2>2. SplitInMemory(cache, p)[up].children = chainsStorage[cache].children
    BY <2>1 DEF IsSplit
  <2>3. chainsStorage[cache].children = {}
    BY <1>1, <2>2 DEF ReplacesLeaf, Split
  <2> QED BY <1>1, <1>2, <2>3
<1>4. /\ n \in 1 .. m - 1 /\ up = seg.blocks[n + 1]
  BY <1>2, <1>3, PositionFacts DEF UpperName
<1>5. up \in Block \ segments
  BY <1>2, <1>3, <1>4, UpperIsNew DEF segments
<1>6. /\ seg \in Segment /\ seg.start \in Nat /\ seg.blocks \in Seq(Block) /\ m \in Nat
      /\ seg.children \subseteq Block /\ Root \in Block /\ Root \in segments /\ segments \subseteq Block
      /\ \A s \in segments : chainsStorage[s] \in Segment /\ chainsStorage[s].blocks # <<>>
  BY <1>2, SegmentFacts, GoodTreeTyped DEF GoodTree, segments
<1> DEFINE upper == [parent |-> Root, children |-> {}, start |-> seg.start + n, blocks |-> Upper(Root, p)]
           lower == [seg EXCEPT !.children = @ \cup {up}, !.blocks = Lower(Root, p)]
<1>7. chainsStorage' = [s \in segments \cup {up} |->
                          IF s = up THEN upper ELSE IF s = Root THEN lower ELSE chainsStorage[s]]
  BY <1>1, <1>3 DEF Split, SplitDatabase
<1>8. Lower(Root, p) = SubSeq(seg.blocks, 1, n) /\ Upper(Root, p) = SubSeq(seg.blocks, n + 1, m)
  BY <1>3 DEF Lower, Upper
<1> HIDE DEF n, m, up, seg
<1>9. m \in Nat /\ n \in Nat \ {0} /\ n <= m /\ n + 1 <= m
  <2>1. m \in Nat /\ n \in 1 .. m - 1
    BY <1>4, <1>6
  <2> QED BY <2>1
<1>10. /\ Lower(Root, p) \in Seq(Block) /\ Len(Lower(Root, p)) = n
       /\ \A i \in 1 .. n : Lower(Root, p)[i] = seg.blocks[i]
  BY <1>6, <1>8, <1>9 DEF m
<1>11. /\ Upper(Root, p) \in Seq(Block) /\ Len(Upper(Root, p)) = m - n
       /\ \A i \in 1 .. m - n : Upper(Root, p)[i] = seg.blocks[n + i]
  BY <1>6, <1>8, <1>9 DEF m
<1>12. upper \in Segment /\ upper.blocks = Upper(Root, p)
  <2>1. seg.start + n \in Nat /\ {} \in SUBSET Block /\ Root \in Block \cup {NoSegment}
    BY <1>6, <1>9
  <2>2. Upper(Root, p) \in Seq(Block)
    BY <1>11
  <2> QED BY <2>1, <2>2 DEF Segment
<1>13. lower \in Segment /\ lower.blocks = Lower(Root, p)
  <2>1. seg.children \cup {up} \in SUBSET Block
    BY <1>5, <1>6
  <2> QED BY <1>6, <1>10, <2>1 DEF Segment
<1>14. Upper(Root, p) # <<>> /\ Lower(Root, p) # <<>>
  <2>1. Len(Upper(Root, p)) # Len(<<>>)
    BY <1>9, <1>11
  <2>2. Len(Lower(Root, p)) # Len(<<>>)
    BY <1>9, <1>10
  <2> QED BY <2>1, <2>2
<1> HIDE DEF upper, lower
<1>15. /\ DOMAIN chainsStorage' = segments \cup {up} /\ chainsStorage'[up] = upper
       /\ chainsStorage'[Root] = lower
       /\ \A s \in segments \ {Root} : chainsStorage'[s] = chainsStorage[s]
  BY <1>5, <1>6, <1>7
<1>16. \A s \in segments' : chainsStorage'[s] \in Segment /\ chainsStorage'[s].blocks # <<>>
  BY <1>6, <1>12, <1>13, <1>14, <1>15 DEF segments
<1>17. ASSUME NEW x PROVE Fresh(chainsStorage', x) <=> Fresh(chainsStorage, x)
  <2>1. Holds(chainsStorage', Root, x) <=> \E i \in 1 .. n : seg.blocks[i] = x
    BY <1>10, <1>13, <1>15 DEF Holds
  <2>2. Holds(chainsStorage', up, x) <=> \E i \in 1 .. m - n : seg.blocks[n + i] = x
    BY <1>11, <1>12, <1>15 DEF Holds
  <2>3. Holds(chainsStorage, Root, x) <=> \E i \in 1 .. m : seg.blocks[i] = x
    BY DEF Holds, seg, m
  <2>4. \A i \in 1 .. m : i \in 1 .. n \/ (i - n \in 1 .. m - n /\ n + (i - n) = i)
    BY <1>6, <1>9
  <2>5. \A i \in 1 .. n : i \in 1 .. m
    BY <1>6, <1>9
  <2>6. \A i \in 1 .. m - n : n + i \in 1 .. m
    BY <1>6, <1>9
  <2>7. Holds(chainsStorage, Root, x) <=> Holds(chainsStorage', Root, x) \/ Holds(chainsStorage', up, x)
    BY <2>1, <2>2, <2>3, <2>4, <2>5, <2>6
  <2>8. \A s \in segments \ {Root} : Holds(chainsStorage', s, x) <=> Holds(chainsStorage, s, x)
    BY <1>15 DEF Holds
  <2> QED BY <1>6, <1>15, <2>7, <2>8 DEF Fresh, segments
<1> QED BY <1>1, <1>3, <1>5, <1>6, <1>15, <1>16, <1>17 DEF segments

\* ForkInsideUndefined: only the facts that hold past it are kept.
LEMMA ForkInsideUndefinedInv ==
    ASSUME IInv, NEW cache \in segments, NEW b \in Block \ {Genesis}, Addable(b, cache),
           ForkInsideUndefined(b, cache)
    PROVE  IInv' /\ MainTip' = MainTip
<1>1. /\ Root \notin Leaves
      /\ segments \subseteq segments' /\ segments' \subseteq Block
      /\ \A s \in segments' : chainsStorage'[s] \in Segment /\ chainsStorage'[s].blocks # <<>>
      /\ \A s \in segments \ {Root} : chainsStorage'[s] = chainsStorage[s]
  BY ForkInsideUndefinedFacts
<1>2. /\ pc' = "noLeafToReplace" /\ mainLeaf' = mainLeaf /\ altLeaves' = altLeaves
      /\ mainChainSet' = mainChainSet /\ mainChainStorage' = mainChainStorage /\ flushed' = flushed
      /\ pending' = pending /\ crashes' = crashes /\ nestedSwitch' = nestedSwitch
  BY DEF ForkInsideUndefined, storageVars
<1>3. /\ TypeOK /\ mainLeaf \in segments \ {Root} /\ altLeaves \subseteq segments \ {Root}
      /\ mainChainSet \subseteq segments /\ Root \in segments
  BY <1>1 DEF IInv, TypeOK, Leaves
<1>4. TypeOK'
  <2>1. pc' \in PC
    BY <1>2 DEF PC, Undefined
  <2>2. mainLeaf' \in segments' /\ altLeaves' \subseteq segments' /\ mainChainSet' \subseteq segments'
        /\ Root \in segments'
    BY <1>1, <1>2, <1>3
  <2> QED BY <1>1, <1>2, <1>3, <2>1, <2>2 DEF TypeOK
<1>5. MainTip' = MainTip /\ \A leaf \in altLeaves : TopBlock(leaf)' = TopBlock(leaf)
  BY <1>1, <1>2, <1>3 DEF MainTip, TopBlock
<1>6. HeavierAlternativeIsFresh'
  BY <1>1, <1>2, <1>3, <1>5 DEF IInv, HeavierAlternativeIsFresh
<1>7. TreeInv' /\ LeavesAreChildless' /\ MainChainSetIsMainChain' /\ PushInv' /\ SwitchInv'
  BY <1>2 DEF TreeInv, LeavesAreChildless, MainChainSetIsMainChain, PushInv, SwitchInv
<1> QED BY <1>4, <1>5, <1>6, <1>7 DEF IInv

\* IInv is inductive.
LEMMA WorkKeepsInv == IInv /\ [Work]_vars => IInv'
<1> SUFFICES ASSUME IInv, [Work]_vars PROVE IInv'
  OBVIOUS
<1>1. CASE AddBlock
  <2>1. PICK cache \in segments, b \in Block \ {Genesis} :
            /\ Addable(b, cache)
            /\ \/ AddToMain(b, cache)
               \/ AddToAlternative(b, cache)
               \/ AddAndSwitch(b, cache)
               \/ ForkOnTop(b, cache)
               \/ ForkInside(b, cache)
               \/ ForkInsideUndefined(b, cache)
    BY <1>1 DEF AddBlock
  <2> QED BY <2>1, AddToMainInv, AddToAlternativeInv, AddAndSwitchInv, ForkOnTopInv, ForkInsideInv,
             ForkInsideUndefinedInv
<1>2. CASE PushToMainLeaf
  BY <1>2, PushToMainLeafInv
<1>3. CASE PopStorage
  BY <1>3, PopStorageInv
<1>4. CASE RefillStorage
  BY <1>4, RefillStorageInv
<1>5. CASE UNCHANGED vars
  <2>1. /\ UNCHANGED treeVars /\ UNCHANGED history
        /\ mainChainStorage' = mainChainStorage /\ flushed' = flushed /\ pc' = pc /\ pending' = pending
    BY <1>5 DEF vars, storageVars
  <2>2. /\ chainsStorage' = chainsStorage /\ mainLeaf' = mainLeaf /\ altLeaves' = altLeaves
        /\ mainChainSet' = mainChainSet /\ segments' = segments /\ Leaves' = Leaves
        /\ MainTip' = MainTip /\ \A s : TopBlock(s)' = TopBlock(s)
    BY <2>1 DEF treeVars, segments, Leaves, MainTip, TopBlock
  <2>3. TypeOK'
    <3>1. TypeOK /\ mainChainStorage \in Seq(Block) /\ flushed \in Seq(Block) /\ pending \in Seq(Block)
          /\ pc \in PC
      BY DEF IInv, TypeOK
    <3>2. mainChainStorage' \in Seq(Block) /\ flushed' \in Seq(Block) /\ pending' \in Seq(Block)
          /\ pc' \in PC
      BY <2>1, <3>1
    <3> QED BY <2>1, <3>1, <3>2, SameTreeTyped
  <2>4. TreeInv' /\ MainChainSetIsMainChain'
    BY <2>1, <2>2 DEF IInv, TreeInv, MainChainSetIsMainChain
  <2>5. LeavesAreChildless' /\ HeavierAlternativeIsFresh'
    BY <2>1, <2>2 DEF IInv, LeavesAreChildless, HeavierAlternativeIsFresh
  <2>6. PushInv' /\ SwitchInv'
    BY <2>1, <2>2 DEF IInv, PushInv, SwitchInv
  <2> QED BY <2>3, <2>4, <2>5, <2>6 DEF IInv
<1> QED BY <1>1, <1>2, <1>3, <1>4, <1>5 DEF Work

-----------------------------------------------------------------------------
(* The invariants of a running node. *)

\* The inductive invariant holds as long as the node runs.
THEOREM RunInvariant == RunSpec => []IInv
BY InitInv, WorkKeepsInv, PTL DEF RunSpec

\* Every segment has blocks, a parent and children of the right kind, and the leaves
\* that Core keeps are segments, whatever blocks addBlock is given.
THEOREM NodeTypeCorrect == RunSpec => []TypeOK
<1>1. IInv => TypeOK
  BY DEF IInv
<1> QED BY <1>1, RunInvariant, PTL

\* addBlock and both split functions keep the segments a tree whose paths are chains.
THEOREM SegmentsFormTree == RunSpec => []TreeLinked
<1>1. IInv => TreeLinked
  <2> SUFFICES ASSUME GoodTree(chainsStorage)
               PROVE  /\ chainsStorage[Root].parent = NoSegment
                      /\ \A s \in segments :
                            /\ chainsStorage[s].blocks[1] = s
                            /\ chainsStorage[s].start = HeightOf[s]
                            /\ Linked(chainsStorage[s].blocks)
                            /\ chainsStorage[s].children = {c \in segments : chainsStorage[c].parent = s}
                            /\ s # Root => /\ chainsStorage[s].parent \in segments
                                           /\ Prev[s] = TopBlock(chainsStorage[s].parent)
    BY DEF IInv, TreeInv, TreeLinked
  <2>1. \A s \in segments : /\ chainsStorage[s].blocks[1] = s
                            /\ chainsStorage[s].start = HeightOf[s]
                            /\ Linked(chainsStorage[s].blocks)
    BY DEF GoodTree, LinkedSegments, segments
  <2>2. \A s \in segments : s # Root => /\ chainsStorage[s].parent \in segments
                                        /\ Prev[s] = TopBlock(chainsStorage[s].parent)
    BY DEF GoodTree, LinkedTree, segments, LastOf, TopBlock
  <2>3. /\ chainsStorage[Root].parent = NoSegment
        /\ \A s \in segments : chainsStorage[s].children = {c \in segments : chainsStorage[c].parent = s}
    BY DEF GoodTree, LinkedTree, segments
  <2> QED BY <2>1, <2>2, <2>3
<1> QED BY <1>1, RunInvariant, PTL

\* chainsLeaves, which addBlock edits in place, is the set of the childless segments.
THEOREM LeavesAreExact == RunSpec => []LeavesAreChildless
<1>1. IInv => LeavesAreChildless
  BY DEF IInv
<1> QED BY <1>1, RunInvariant, PTL

\* hasBlock finds every block of every segment, so addBlock adds no block twice.
THEOREM BlocksAreFound == RunSpec => []EveryBlockIsFound
<1>1. IInv => EveryBlockIsFound
  <2> SUFFICES ASSUME Reached(chainsStorage, Leaves), NEW b \in Known PROVE HasBlock(b)
    BY DEF IInv, TreeInv, EveryBlockIsFound
  <2>1. PICK s \in segments : b \in BlocksOf(s)
    BY DEF Known
  <2> QED BY <2>1, FoundWherever
<1> QED BY <1>1, RunInvariant, PTL

\* mainChainSet is never out of date.
THEOREM MainChainSetIsExact == RunSpec => []MainChainSetIsMainChain
<1>1. IInv => MainChainSetIsMainChain
  BY DEF IInv
<1> QED BY <1>1, RunInvariant, PTL

\* The only chains with more work than the main chain are forks of one block.
THEOREM HeavierForksAreFresh == RunSpec => []HeavierAlternativeIsFresh
<1>1. IInv => HeavierAlternativeIsFresh
  BY DEF IInv
<1> QED BY <1>1, RunInvariant, PTL
=============================================================================
