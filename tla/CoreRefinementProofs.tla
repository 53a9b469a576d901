------------------------ MODULE CoreRefinementProofs ------------------------
(***************************************************************************)
(* A running node implements BlockTree, for every set of blocks: each step *)
(* of CoreChain's RunSpec adds a block to the tree by the rule of          *)
(* BlockTree, or is invisible there.                                       *)
(***************************************************************************)
EXTENDS CoreChainProofs

\* The known blocks are those of the segments.
LEMMA KnownIsHeld ==
    ASSUME NEW x
    PROVE  x \in Known <=> ~Fresh(chainsStorage, x)
BY DEF Known, BlocksOf, Fresh, Holds, segments

\* The same for the blocks known after a step.
LEMMA KnownIsHeldPrimed ==
    ASSUME NEW x
    PROVE  x \in Known' <=> ~Fresh(chainsStorage', x)
BY DEF Known, BlocksOf, Fresh, Holds, segments

\* When a step adds b and no other block to the segments, it adds b to Known.
LEMMA KnownGrows ==
    ASSUME NEW b, \A x : Fresh(chainsStorage', x) <=> Fresh(chainsStorage, x) /\ x # b
    PROVE  Known' = Known \cup {b}
<1>1. \A x : x \in Known' <=> x \in Known \/ x = b
  BY KnownIsHeld, KnownIsHeldPrimed
<1> QED BY <1>1

\* No known block follows the top of a childless segment.
LEMMA NothingAboveLeaf ==
    ASSUME GoodTree(chainsStorage), NEW cache \in segments, chainsStorage[cache].children = {},
           NEW x \in Known, x # Genesis
    PROVE  Prev[x] # TopBlock(cache)
<1> SUFFICES ASSUME Prev[x] = TopBlock(cache) PROVE FALSE
  OBVIOUS
<1> USE DEF GoodTree, segments
<1> DEFINE m == Len(chainsStorage[cache].blocks)
           h == chainsStorage[cache].start
<1>1. m \in Nat \ {0} /\ h \in Nat /\ m \in 1 .. m /\ TopBlock(cache) = chainsStorage[cache].blocks[m]
  BY SegmentFacts DEF TopBlock
<1>2. HeightOf[TopBlock(cache)] = h + m - 1
  BY <1>1 DEF AtHeight
<1>s. PICK s \in segments : x \in BlocksOf(s)
  BY DEF Known
<1>3. PICK i \in 1 .. Len(chainsStorage[s].blocks) : chainsStorage[s].blocks[i] = x
  BY <1>s DEF BlocksOf
<1> HIDE DEF m, h
<1>4. /\ Len(chainsStorage[s].blocks) \in Nat \ {0} /\ i \in Nat \ {0}
      /\ chainsStorage[s].start \in Nat /\ s \in Block
  BY SegmentFacts
<1>5. CASE i = 1
  <2>1. x = s /\ s # Root
    BY <1>3, <1>5 DEF LinkedSegments, Root
  <2>2. chainsStorage[s].parent \in segments /\ TopBlock(chainsStorage[s].parent) = TopBlock(cache)
    BY <2>1 DEF LinkedTree, LastOf, TopBlock
  <2>3. chainsStorage[s].parent = cache
    <3> DEFINE r == chainsStorage[s].parent
               k == Len(chainsStorage[r].blocks)
    <3>1. k \in 1 .. k /\ chainsStorage[r].blocks[k] = chainsStorage[cache].blocks[m]
      BY <1>1, <2>2, SegmentFacts DEF TopBlock
    <3> QED BY <1>1, <2>2, <3>1 DEF InOneSegment, m
  <2> QED BY <2>1, <2>3 DEF LinkedTree
<1>6. CASE i # 1
  <2>1. i \in 2 .. Len(chainsStorage[s].blocks) /\ i - 1 \in 1 .. Len(chainsStorage[s].blocks)
    BY <1>4, <1>6
  <2>2. chainsStorage[s].blocks[i - 1] = TopBlock(cache)
    BY <1>3, <2>1 DEF LinkedSegments, Linked
  <2>3. s = cache
    BY <1>1, <2>1, <2>2 DEF InOneSegment, m
  <2>4. HeightOf[chainsStorage[s].blocks[i - 1]] = chainsStorage[s].start + (i - 1) - 1
    BY <2>1 DEF AtHeight
  <2>5. i \in 2 .. m /\ h + m - 1 = h + (i - 1) - 1
    BY <1>2, <2>1, <2>2, <2>3, <2>4 DEF m, h
  <2> QED BY <1>1, <2>5
<1> QED BY <1>5, <1>6

\* Two segments do not share their top with any block of the other.
LEMMA TopInOneSegment ==
    ASSUME GoodTree(chainsStorage), NEW s \in segments, NEW r \in segments, TopBlock(r) \in BlocksOf(s)
    PROVE  r = s
<1>1. PICK i \in 1 .. Len(chainsStorage[s].blocks) : chainsStorage[s].blocks[i] = TopBlock(r)
  BY DEF BlocksOf
<1>2. Len(chainsStorage[r].blocks) \in 1 .. Len(chainsStorage[r].blocks)
  BY SegmentFacts DEF GoodTree, segments
<1> QED BY <1>1, <1>2 DEF GoodTree, InOneSegment, segments, TopBlock

\* The guard of addBlock is that of Add.
LEMMA AddablePromise ==
    ASSUME IInv, NEW cache \in segments, NEW b \in Block \ {Genesis}, Addable(b, cache)
    PROVE  b \notin Known /\ Prev[b] \in Known
BY AddableFacts, KnownIsHeld DEF Known

-----------------------------------------------------------------------------
\* A step of a running node is a step of BlockTree or changes nothing there.
LEMMA PushToMainLeafPromise ==
    ASSUME IInv, PushToMainLeaf
    PROVE  \E b \in Block \ {Genesis} : Promise!Add(b) /\ MainTip' = b /\ WorkOf[b] > WorkOf[MainTip]
<1>1. /\ pc = "pushing" /\ chainsStorage' = PushBlock(chainsStorage, mainLeaf, Head(pending))
      /\ mainLeaf' = mainLeaf
  BY DEF PushToMainLeaf
<1>2. PICK b \in Block \ {Genesis} :
          pending = <<b>> /\ Prev[b] = MainTip /\ Fresh(chainsStorage, b)
  BY <1>1 DEF IInv, PushInv
<1>3. /\ mainLeaf \in segments /\ mainLeaf \in Leaves /\ GoodTree(chainsStorage)
      /\ TypedTree(chainsStorage) /\ Head(pending) = b
  BY <1>1, <1>2 DEF IInv, TypeOK, TreeInv, Leaves, GoodTree
<1>4. LastOf(chainsStorage', mainLeaf) = b
  BY <1>1, <1>2, <1>3, PushStep DEF MainTip
<1>5. MainTip' = b
  BY <1>1, <1>4 DEF MainTip, TopBlock, LastOf
<1>6. Known' = Known \cup {b}
  <2>1. Pushed(chainsStorage, chainsStorage', mainLeaf, b)
    BY <1>1, <1>3, PushFacts DEF segments
  <2> QED BY <1>3, <2>1, PushAddsBlock, KnownGrows DEF segments
<1>7. b \notin Known /\ Prev[b] \in Known
  <2>1. MainTip \in BlocksOf(mainLeaf)
    <3>1. Len(chainsStorage[mainLeaf].blocks) \in 1 .. Len(chainsStorage[mainLeaf].blocks)
      BY <1>3, SegmentFacts DEF segments
    <3> QED BY <3>1 DEF MainTip, TopBlock, BlocksOf
  <2> QED BY <1>2, <1>3, <2>1, KnownIsHeld DEF Known
<1>8. WorkOf[b] > WorkOf[MainTip]
  BY <1>2, BlockAssumption
<1> QED BY <1>2, <1>5, <1>6, <1>7, <1>8 DEF Promise!Add, Promise!BecomesTip

\* On top of an alternative leaf: Prev[b] has no children, and is not the tip.
LEMMA AlternativePromise ==
    ASSUME IInv, NEW cache \in segments, NEW b \in Block \ {Genesis}, Addable(b, cache),
           OnTop(b, cache), IsLeafSegment(cache), cache # mainLeaf,
           chainsStorage' = PushBlock(chainsStorage, cache, b)
    PROVE  /\ Known' = Known \cup {b} /\ Prev[b] # MainTip /\ Promise!Children(Prev[b]) = {}
           /\ LastOf(chainsStorage', cache) = b /\ LastOf(chainsStorage', mainLeaf) = MainTip
<1>1. /\ GoodTree(chainsStorage) /\ TypedTree(chainsStorage) /\ mainLeaf \in segments
      /\ Prev[b] = TopBlock(cache) /\ chainsStorage[cache].children = {}
  BY AddableFacts DEF GoodTree, IInv, TypeOK, OnTop, IsLeafSegment
<1>2. Known' = Known \cup {b}
  <2>1. Pushed(chainsStorage, chainsStorage', cache, b)
    BY <1>1, PushFacts DEF segments
  <2> QED BY <1>1, <2>1, PushAddsBlock, KnownGrows DEF segments
<1>3. Prev[b] # MainTip
  <2>1. TopBlock(cache) \in BlocksOf(cache)
    BY <1>1, SegmentFacts DEF TopBlock, BlocksOf, segments
  <2> QED BY <1>1, <2>1, TopInOneSegment DEF MainTip
<1>4. Promise!Children(Prev[b]) = {}
  BY <1>1, NothingAboveLeaf DEF Promise!Children
<1>5. LastOf(chainsStorage', cache) = b /\ LastOf(chainsStorage', mainLeaf) = MainTip
  <2>1. TopBlock(cache)' = b /\ \A r \in segments \ {cache} : TopBlock(r)' = TopBlock(r)
    BY AlternativePushed
  <2>2. \A r : TopBlock(r)' = LastOf(chainsStorage', r)
    BY DEF TopBlock, LastOf
  <2> QED BY <1>1, <2>1, <2>2 DEF MainTip
<1> QED BY <1>2, <1>3, <1>4, <1>5

\* AddToAlternative adds the block and keeps the tip.
LEMMA AddToAlternativePromise ==
    ASSUME IInv, NEW cache \in segments, NEW b \in Block \ {Genesis}, Addable(b, cache),
           AddToAlternative(b, cache)
    PROVE  Promise!Add(b) /\ MainTip' = MainTip
<1>1. /\ OnTop(b, cache) /\ IsLeafSegment(cache) /\ cache # mainLeaf
      /\ ~(WorkOf[b] > WorkOf[MainTip]) /\ mainLeaf' = mainLeaf
      /\ chainsStorage' = PushBlock(chainsStorage, cache, b)
  BY DEF AddToAlternative, BecomesMain
<1>2. /\ Known' = Known \cup {b} /\ Prev[b] # MainTip /\ LastOf(chainsStorage', mainLeaf) = MainTip
      /\ b \notin Known /\ Prev[b] \in Known
  BY <1>1, AlternativePromise, AddablePromise
<1>3. MainTip' = MainTip
  BY <1>1, <1>2 DEF MainTip, TopBlock, LastOf
<1> QED BY <1>1, <1>2, <1>3 DEF Promise!Add, Promise!BecomesTip

\* AddAndSwitch adds the block and makes it the tip.
LEMMA AddAndSwitchPromise ==
    ASSUME IInv, NEW cache \in segments, NEW b \in Block \ {Genesis}, Addable(b, cache),
           AddAndSwitch(b, cache)
    PROVE  Promise!Add(b) /\ MainTip' = b /\ WorkOf[b] > WorkOf[MainTip]
<1>1. /\ OnTop(b, cache) /\ IsLeafSegment(cache) /\ cache # mainLeaf
      /\ WorkOf[b] > WorkOf[MainTip] /\ mainLeaf' = cache
      /\ chainsStorage' = PushBlock(chainsStorage, cache, b)
  BY DEF AddAndSwitch, BecomesMain
<1>2. /\ Known' = Known \cup {b} /\ Promise!Children(Prev[b]) = {}
      /\ LastOf(chainsStorage', cache) = b /\ b \notin Known /\ Prev[b] \in Known
  BY <1>1, AlternativePromise, AddablePromise
<1>3. MainTip' = b
  BY <1>1, <1>2 DEF MainTip, TopBlock, LastOf
<1> QED BY <1>1, <1>2, <1>3 DEF Promise!Add, Promise!BecomesTip

\* On top of a segment with children: one of them starts with a child of Prev[b].
LEMMA ForkOnTopPromise ==
    ASSUME IInv, NEW cache \in segments, NEW b \in Block \ {Genesis}, Addable(b, cache),
           ForkOnTop(b, cache)
    PROVE  Promise!Add(b) /\ MainTip' = MainTip
<1>1. /\ TopBlock(cache) = Prev[b] /\ chainsStorage[cache].children # {}
      /\ chainsStorage' = NewChild(chainsStorage, cache, b) /\ mainLeaf' = mainLeaf
  BY DEF ForkOnTop, OnTop, IsLeafSegment
<1>2. /\ GoodTree(chainsStorage) /\ TypedTree(chainsStorage) /\ b \notin segments
      /\ Leaves = {s \in segments : chainsStorage[s].children = {}}
      /\ mainLeaf \in segments /\ mainLeaf \in Leaves /\ mainLeaf # cache
  BY <1>1, AddableFacts DEF GoodTree, Leaves, IInv, TypeOK
<1>3. Forked(chainsStorage, chainsStorage', cache, b)
  BY <1>1, <1>2, NewChildFacts DEF segments
<1>4. Known' = Known \cup {b}
  BY <1>2, <1>3, ForkAddsBlock, KnownGrows DEF segments
<1>5. Prev[b] # MainTip
  <2>1. TopBlock(cache) \in BlocksOf(cache)
    BY <1>2, SegmentFacts DEF TopBlock, BlocksOf, segments
  <2> QED BY <1>1, <1>2, <2>1, TopInOneSegment DEF MainTip
<1>6. Promise!Children(Prev[b]) # {}
  <2>1. PICK c \in chainsStorage[cache].children : TRUE
    BY <1>1
  <2>2. c \in segments /\ c # Root /\ Prev[c] = TopBlock(cache)
    <3>1. c \in segments /\ chainsStorage[c].parent = cache
      BY <1>2 DEF GoodTree, LinkedTree, segments
    <3>2. cache # NoSegment
      BY <1>2, SegmentFacts, BlockAssumption DEF segments
    <3> QED BY <1>2, <3>1, <3>2 DEF GoodTree, LinkedTree, segments, TopBlock, LastOf
  <2>3. c \in Known
    <3>1. chainsStorage[c].blocks[1] = c /\ 1 \in 1 .. Len(chainsStorage[c].blocks)
      BY <1>2, <2>2, SegmentFacts DEF GoodTree, LinkedSegments, segments
    <3> QED BY <2>2, <3>1 DEF Known, BlocksOf
  <2> QED BY <1>1, <2>2, <2>3 DEF Promise!Children, Root
<1>7. MainTip' = MainTip
  <2>1. chainsStorage'[mainLeaf].blocks = chainsStorage[mainLeaf].blocks
    BY <1>2, <1>3 DEF Forked, segments
  <2> QED BY <1>1, <2>1 DEF MainTip, TopBlock
<1>8. b \notin Known /\ Prev[b] \in Known
  BY AddablePromise
<1> QED BY <1>4, <1>5, <1>6, <1>7, <1>8 DEF Promise!Add, Promise!BecomesTip

\* Inside a segment: the block after Prev[b] is a child of it.
LEMMA ForkInsidePromise ==
    ASSUME IInv, NEW cache \in segments, NEW b \in Block \ {Genesis}, Addable(b, cache),
           ForkInside(b, cache)
    PROVE  Promise!Add(b) /\ MainTip' = MainTip
<1>up. PICK up : up = UpperName(cache, Prev[b])
  OBVIOUS
<1>1. /\ mainLeaf' = IF mainLeaf = cache THEN up ELSE mainLeaf
      /\ \A r \in segments \ {cache} : TopBlock(r)' = TopBlock(r)
      /\ TopBlock(up)' = TopBlock(cache)
      /\ \A x : Fresh(chainsStorage', x) <=> Fresh(chainsStorage, x) /\ x # b
      /\ up # Genesis /\ Prev[up] = Prev[b] /\ ~Fresh(chainsStorage, up)
  <2>1. ForkedInside(cache, b, up)
    BY <1>up, ForkInsideFacts
  <2> QED BY <2>1 DEF ForkedInside
<1>2. /\ GoodTree(chainsStorage) /\ mainLeaf \in segments /\ Prev[b] \in BlocksOf(cache)
      /\ Prev[b] # TopBlock(cache)
  BY AddableFacts DEF IInv, TypeOK, ForkInside, OnTop
<1>3. Known' = Known \cup {b}
  BY <1>1, KnownGrows
<1>4. Prev[b] # MainTip
  BY <1>2, TopInOneSegment DEF MainTip
<1>5. Promise!Children(Prev[b]) # {}
  BY <1>1, KnownIsHeld DEF Promise!Children
<1>6. MainTip' = MainTip
  <2>1. CASE mainLeaf = cache
    BY <1>1, <2>1 DEF MainTip, TopBlock
  <2>2. CASE mainLeaf # cache
    BY <1>1, <1>2, <2>2 DEF MainTip, TopBlock
  <2> QED BY <2>1, <2>2
<1>7. b \notin Known /\ Prev[b] \in Known
  BY AddablePromise
<1> QED BY <1>3, <1>4, <1>5, <1>6, <1>7 DEF Promise!Add, Promise!BecomesTip

\* Every step: the tip stays and nothing changes for BlockTree, or a block is added and
\* the tip stays or moves to a block with more work.
LEMMA WorkPromise ==
    ASSUME IInv, [Work]_vars
    PROVE  /\ \/ Known' = Known /\ MainTip' = MainTip
              \/ \E b \in Block \ {Genesis} : Promise!Add(b)
           /\ MainTip' = MainTip \/ WorkOf[MainTip'] > WorkOf[MainTip]
<1>1. ASSUME UNCHANGED treeVars PROVE Known' = Known /\ MainTip' = MainTip
  <2>1. chainsStorage' = chainsStorage /\ mainLeaf' = mainLeaf
    BY <1>1 DEF treeVars
  <2> QED BY <2>1 DEF Known, BlocksOf, segments, MainTip, TopBlock
<1>2. CASE AddBlock
  <2>1. PICK cache \in segments, b \in Block \ {Genesis} :
            /\ Addable(b, cache)
            /\ \/ AddToMain(b, cache)
               \/ AddToAlternative(b, cache)
               \/ AddAndSwitch(b, cache)
               \/ ForkOnTop(b, cache)
               \/ ForkInside(b, cache)
               \/ ForkInsideUndefined(b, cache)
    BY <1>2 DEF AddBlock
  <2>2. CASE AddToMain(b, cache)
    BY <1>1, <2>2 DEF AddToMain
  <2>3. CASE AddToAlternative(b, cache)
    BY <2>1, <2>3, AddToAlternativePromise
  <2>4. CASE AddAndSwitch(b, cache)
    BY <2>1, <2>4, AddAndSwitchPromise
  <2>5. CASE ForkOnTop(b, cache)
    BY <2>1, <2>5, ForkOnTopPromise
  <2>6. CASE ForkInside(b, cache)
    BY <2>1, <2>6, ForkInsidePromise
  <2>7. CASE ForkInsideUndefined(b, cache)
    <3>1. MainTip' = MainTip
      BY <2>1, <2>7, ForkInsideUndefinedInv
    <3>2. \A x : Fresh(chainsStorage', x) <=> Fresh(chainsStorage, x)
      BY <2>1, <2>7, ForkInsideUndefinedFacts
    <3>3. Known' = Known
      BY <3>2, KnownIsHeld, KnownIsHeldPrimed
    <3> QED BY <3>1, <3>3
  <2> QED BY <2>1, <2>2, <2>3, <2>4, <2>5, <2>6, <2>7
<1>3. CASE PushToMainLeaf
  BY <1>3, PushToMainLeafPromise
<1>4. CASE PopStorage
  BY <1>1, <1>4 DEF PopStorage
<1>5. CASE RefillStorage
  BY <1>1, <1>5 DEF RefillStorage
<1>6. CASE UNCHANGED vars
  <2>1. UNCHANGED treeVars
    BY <1>6 DEF vars
  <2> QED BY <1>1, <2>1
<1> QED BY <1>2, <1>3, <1>4, <1>5, <1>6 DEF Work

\* While the node runs, the top block of its main chain changes only for one with more
\* work: no step of addBlock moves it otherwise.
THEOREM TipGainsWork == RunSpec => TipMovesForMoreWork
<1>1. ASSUME IInv, [Work]_vars
      PROVE  [{pc, pc'} \subseteq Running /\ MainTip' # MainTip =>
                WorkOf[MainTip'] > WorkOf[MainTip]]_vars
  BY <1>1, WorkPromise
<1> QED BY <1>1, RunInvariant, PTL DEF RunSpec, TipMovesForMoreWork

\* A running node implements BlockTree.
THEOREM NodeImplementsBlockTree == RunSpec => Implements
<1>1. Init => Promise!Init
  <2> SUFFICES ASSUME Init PROVE Promise!Init
    OBVIOUS
  <2>1. PICK chain \in Stored : chainsStorage = RootOf(chain)
    BY DEF Init
  <2>2. segments = {Root} /\ chainsStorage[Root].blocks = chain /\ mainLeaf = Root
    BY <2>1 DEF Init, RootOf, segments
  <2>3. Known = {chain[i] : i \in 1 .. Len(chain)}
    BY <2>2 DEF Known, BlocksOf
  <2>4. MainTip = chain[Len(chain)]
    BY <2>2 DEF MainTip, TopBlock
  <2> QED BY <2>3, <2>4 DEF Promise!Init
<1>2. IInv /\ [Work]_vars => [Promise!Next]_(Promise!vars)
  BY WorkPromise DEF Promise!Next, Promise!vars
<1> QED BY <1>1, <1>2, RunInvariant, PTL DEF RunSpec, Implements, Promise!Spec
=============================================================================
