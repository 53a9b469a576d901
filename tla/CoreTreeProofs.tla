--------------------------- MODULE CoreTreeProofs ---------------------------
(***************************************************************************)
(* What the operations on the segment tree of CoreChain preserve: lemmas   *)
(* for CoreChainProofs, about a tree and not about a behaviour.            *)
(***************************************************************************)
EXTENDS CoreChain, TLAPS

LastOf(tree, s) == tree[s].blocks[Len(tree[s].blocks)]
Holds(tree, s, b) == \E i \in 1 .. Len(tree[s].blocks) : tree[s].blocks[i] = b
Fresh(tree, b) == \A s \in DOMAIN tree : ~Holds(tree, s, b)

\* The segments are segments and not empty.
TypedTree(tree) ==
    /\ tree \in [DOMAIN tree -> Segment]
    /\ DOMAIN tree \subseteq Block
    /\ Root \in DOMAIN tree
    /\ \A s \in DOMAIN tree : tree[s].blocks # <<>>

\* TreeLinked for a segment and its blocks.
LinkedSegments(tree) ==
    \A s \in DOMAIN tree :
        /\ tree[s].blocks[1] = s
        /\ tree[s].start = HeightOf[s]
        /\ Linked(tree[s].blocks)

\* TreeLinked for a segment and its neighbours.
LinkedTree(tree) ==
    /\ tree[Root].parent = NoSegment
    /\ \A s \in DOMAIN tree : tree[s].children = {c \in DOMAIN tree : tree[c].parent = s}
    /\ \A s \in DOMAIN tree \ {Root} : /\ tree[s].parent \in DOMAIN tree
                                       /\ Prev[s] = LastOf(tree, tree[s].parent)

\* A block stands in a segment at its height, ...
AtHeight(tree) ==
    \A s \in DOMAIN tree : \A i \in 1 .. Len(tree[s].blocks) :
        HeightOf[tree[s].blocks[i]] = tree[s].start + i - 1

\* ... and in one segment only.
InOneSegment(tree) ==
    \A s, t \in DOMAIN tree : \A i \in 1 .. Len(tree[s].blocks), j \in 1 .. Len(tree[t].blocks) :
        tree[s].blocks[i] = tree[t].blocks[j] => s = t

GoodTree(tree) ==
    /\ TypedTree(tree)
    /\ LinkedSegments(tree)
    /\ LinkedTree(tree)
    /\ AtHeight(tree)
    /\ InOneSegment(tree)

\* Every segment is on the chain of a leaf.
Reached(tree, leaves) == \A s \in DOMAIN tree : \E leaf \in leaves : s \in ChainOf(tree, leaf)

-----------------------------------------------------------------------------
(* How the tree t that an operation returns differs from the tree it is given. *)

\* PushBlock: b is appended to segment s.
Pushed(tree, t, s, b) ==
    /\ DOMAIN t = DOMAIN tree
    /\ \A r \in DOMAIN tree : /\ t[r].parent = tree[r].parent
                              /\ t[r].children = tree[r].children
                              /\ t[r].start = tree[r].start
                              /\ r # s => t[r].blocks = tree[r].blocks
    /\ Len(t[s].blocks) = Len(tree[s].blocks) + 1
    /\ \A i \in 1 .. Len(tree[s].blocks) : t[s].blocks[i] = tree[s].blocks[i]
    /\ t[s].blocks[Len(tree[s].blocks) + 1] = b

\* NewChild: a segment of block b below cache.
Forked(tree, t, cache, b) ==
    /\ DOMAIN t = DOMAIN tree \cup {b}
    /\ \A r \in DOMAIN tree : /\ t[r].parent = tree[r].parent
                              /\ t[r].start = tree[r].start
                              /\ t[r].blocks = tree[r].blocks
                              /\ r # cache => t[r].children = tree[r].children
    /\ t[cache].children = tree[cache].children \cup {b}
    /\ t[b].parent = cache /\ t[b].children = {}
    /\ t[b].start = tree[cache].start + Len(tree[cache].blocks)
    /\ Len(t[b].blocks) = 1 /\ t[b].blocks[1] = b

\* Split: the blocks of cache from the n + 1st on move to the segment up, and its
\* children with them.
IsSplit(tree, t, cache, up, n) ==
    /\ DOMAIN t = DOMAIN tree \cup {up}
    /\ \A r \in DOMAIN tree \ {cache} :
        /\ t[r].parent = IF r \in tree[cache].children THEN up ELSE tree[r].parent
        /\ t[r].children = tree[r].children
        /\ t[r].blocks = tree[r].blocks
        /\ t[r].start = tree[r].start
    /\ t[cache].parent = tree[cache].parent /\ t[cache].children = {up}
    /\ t[cache].start = tree[cache].start
    /\ Len(t[cache].blocks) = n
    /\ \A i \in 1 .. n : t[cache].blocks[i] = tree[cache].blocks[i]
    /\ t[up].parent = cache /\ t[up].children = tree[cache].children
    /\ t[up].start = tree[cache].start + n
    /\ Len(t[up].blocks) = Len(tree[cache].blocks) - n
    /\ \A i \in 1 .. Len(tree[cache].blocks) - n : t[up].blocks[i] = tree[cache].blocks[n + i]

-----------------------------------------------------------------------------
\* A segment of a typed tree is a record with a sequence of at least one block.
LEMMA SegmentFacts ==
    ASSUME NEW tree, TypedTree(tree), NEW s \in DOMAIN tree
    PROVE  /\ s \in Block
           /\ tree[s].parent \in Block \cup {NoSegment}
           /\ tree[s].children \subseteq Block
           /\ tree[s].start \in Nat
           /\ tree[s].blocks \in Seq(Block)
           /\ Len(tree[s].blocks) \in Nat \ {0}
           /\ \A i \in 1 .. Len(tree[s].blocks) : tree[s].blocks[i] \in Block
           /\ LastOf(tree, s) \in Block
           /\ tree[s] = [parent |-> tree[s].parent, children |-> tree[s].children,
                         start |-> tree[s].start, blocks |-> tree[s].blocks]
<1>1. tree[s] \in Segment /\ tree[s].blocks # <<>> /\ s \in Block
  BY DEF TypedTree
<1>2. /\ tree[s].blocks \in Seq(Block)
      /\ tree[s].parent \in Block \cup {NoSegment}
      /\ tree[s].children \subseteq Block
      /\ tree[s].start \in Nat
  BY <1>1 DEF Segment
<1>3. /\ Len(tree[s].blocks) \in Nat \ {0}
      /\ \A i \in 1 .. Len(tree[s].blocks) : tree[s].blocks[i] \in Block
  BY <1>1, <1>2
<1>4. LastOf(tree, s) \in Block
  BY <1>3 DEF LastOf
<1>5. tree[s] = [parent |-> tree[s].parent, children |-> tree[s].children,
                 start |-> tree[s].start, blocks |-> tree[s].blocks]
  BY <1>1 DEF Segment
<1> QED BY <1>1, <1>2, <1>3, <1>4, <1>5

\* Only the blocks of a segment change when its blocks are replaced.
LEMMA WithBlocks ==
    ASSUME NEW seg \in Segment, NEW new \in Seq(Block)
    PROVE  LET x == [seg EXCEPT !.blocks = new]
           IN  /\ x \in Segment
               /\ x.parent = seg.parent /\ x.children = seg.children
               /\ x.start = seg.start /\ x.blocks = new
BY DEF Segment

\* PushBlock appends to one segment and leaves the rest of the tree alone.
LEMMA PushFacts ==
    ASSUME NEW tree, TypedTree(tree), NEW s \in DOMAIN tree, NEW b \in Block
    PROVE  LET t == PushBlock(tree, s, b) IN TypedTree(t) /\ Pushed(tree, t, s, b)
<1> DEFINE t == PushBlock(tree, s, b)
<1>1. tree[s] \in Segment /\ tree[s].blocks \in Seq(Block)
  BY SegmentFacts DEF TypedTree
<1>2. t = [tree EXCEPT ![s] = [tree[s] EXCEPT !.blocks = Append(tree[s].blocks, b)]]
  BY DEF PushBlock
<1>3. /\ Append(tree[s].blocks, b) \in Seq(Block)
      /\ Len(Append(tree[s].blocks, b)) = Len(tree[s].blocks) + 1
      /\ \A i \in 1 .. Len(tree[s].blocks) : Append(tree[s].blocks, b)[i] = tree[s].blocks[i]
      /\ Append(tree[s].blocks, b)[Len(tree[s].blocks) + 1] = b
  BY <1>1
<1>4. /\ DOMAIN t = DOMAIN tree
      /\ \A r \in DOMAIN tree \ {s} : t[r] = tree[r]
      /\ t[s] = [tree[s] EXCEPT !.blocks = Append(tree[s].blocks, b)]
  BY <1>2 DEF TypedTree
<1>5. /\ t[s] \in Segment
      /\ t[s].parent = tree[s].parent /\ t[s].children = tree[s].children
      /\ t[s].start = tree[s].start /\ t[s].blocks = Append(tree[s].blocks, b)
  <2> DEFINE seg == tree[s]
             new == Append(tree[s].blocks, b)
  <2>1. seg \in Segment /\ new \in Seq(Block) /\ t[s] = [seg EXCEPT !.blocks = new]
    BY <1>1, <1>3, <1>4
  <2> HIDE DEF seg, new, t
  <2>2. /\ t[s] \in Segment
        /\ t[s].parent = seg.parent /\ t[s].children = seg.children
        /\ t[s].start = seg.start /\ t[s].blocks = new
    BY <2>1, WithBlocks
  <2> QED BY <2>2 DEF seg, new
<1>6. t[s].blocks # <<>>
  <2>1. Len(t[s].blocks) # Len(<<>>)
    BY <1>1, <1>3, <1>5
  <2> QED BY <2>1
<1>7. t \in [DOMAIN t -> Segment]
  <2> DEFINE new == [tree[s] EXCEPT !.blocks = Append(tree[s].blocks, b)]
  <2>1. new \in Segment
    BY <1>4, <1>5
  <2>2. t = [tree EXCEPT ![s] = new]
    BY <1>2
  <2>3. tree \in [DOMAIN tree -> Segment]
    BY DEF TypedTree
  <2> HIDE DEF new, t
  <2> QED BY <1>4, <2>1, <2>2, <2>3
<1>8. TypedTree(t)
  BY <1>4, <1>6, <1>7 DEF TypedTree
<1>9. \A r \in DOMAIN tree : /\ t[r].parent = tree[r].parent
                              /\ t[r].children = tree[r].children
                              /\ t[r].start = tree[r].start
                              /\ r # s => t[r].blocks = tree[r].blocks
  BY <1>4, <1>5
<1> QED BY <1>3, <1>4, <1>5, <1>8, <1>9 DEF Pushed

\* NewChild adds a segment of one block.
LEMMA NewChildFacts ==
    ASSUME NEW tree, TypedTree(tree), NEW cache \in DOMAIN tree, NEW b \in Block \ DOMAIN tree
    PROVE  LET t == NewChild(tree, cache, b) IN TypedTree(t) /\ Forked(tree, t, cache, b)
<1> DEFINE t == NewChild(tree, cache, b)
           new == [parent |-> cache, children |-> {},
                   start |-> tree[cache].start + Len(tree[cache].blocks), blocks |-> <<b>>]
           above == [tree[cache] EXCEPT !.children = @ \cup {b}]
<1>1. /\ tree[cache] \in Segment /\ tree[cache].start \in Nat /\ Len(tree[cache].blocks) \in Nat
      /\ tree[cache].children \subseteq Block /\ cache \in Block
  BY SegmentFacts DEF TypedTree
<1>2. new \in Segment /\ Len(new.blocks) = 1 /\ new.blocks[1] = b
  BY <1>1 DEF Segment
<1>3. /\ above \in Segment
      /\ above.parent = tree[cache].parent /\ above.start = tree[cache].start
      /\ above.blocks = tree[cache].blocks /\ above.children = tree[cache].children \cup {b}
  <2> DEFINE seg == tree[cache]
  <2>1. seg \in Segment /\ seg.children \cup {b} \in SUBSET Block
    BY <1>1
  <2> HIDE DEF seg
  <2>2. LET x == [seg EXCEPT !.children = @ \cup {b}]
        IN  /\ x \in Segment
            /\ x.parent = seg.parent /\ x.start = seg.start
            /\ x.blocks = seg.blocks /\ x.children = seg.children \cup {b}
    BY <2>1 DEF Segment
  <2> QED BY <2>2 DEF seg
<1>4. t = [s \in DOMAIN tree \cup {b} |->
              IF s = b THEN new ELSE IF s = cache THEN above ELSE tree[s]]
  BY DEF NewChild
<1>5. new.parent = cache /\ new.children = {}
      /\ new.start = tree[cache].start + Len(tree[cache].blocks) /\ new.blocks = <<b>>
  OBVIOUS
<1> HIDE DEF t, new, above
<1>6. /\ DOMAIN t = DOMAIN tree \cup {b} /\ t[b] = new /\ t[cache] = above
      /\ \A r \in DOMAIN tree \ {cache} : t[r] = tree[r]
  BY <1>4
<1>7. \A s \in DOMAIN t : t[s] \in Segment /\ t[s].blocks # <<>>
  <2>1. new.blocks # <<>>
    BY <1>5
  <2>2. above.blocks # <<>>
    BY <1>3 DEF TypedTree
  <2> QED BY <1>2, <1>3, <1>6, <2>1, <2>2 DEF TypedTree
<1>8. TypedTree(t)
  <2>1. t \in [DOMAIN t -> Segment]
    BY <1>4, <1>6, <1>7
  <2> QED BY <1>6, <1>7, <2>1 DEF TypedTree
<1>9. Forked(tree, t, cache, b)
  BY <1>2, <1>3, <1>5, <1>6 DEF Forked
<1> QED BY <1>8, <1>9 DEF t

-----------------------------------------------------------------------------
\* A childless segment may grow by a new block that follows its last one.
LEMMA PushKeepsGood ==
    ASSUME NEW tree, NEW t, GoodTree(tree), TypedTree(t),
           NEW s \in DOMAIN tree, tree[s].children = {},
           NEW b \in Block \ {Genesis}, Fresh(tree, b), Prev[b] = LastOf(tree, s),
           Pushed(tree, t, s, b)
    PROVE  GoodTree(t)
<1> USE DEF GoodTree
<1> DEFINE n == Len(tree[s].blocks)
<1>1. n \in Nat \ {0} /\ tree[s].start \in Nat
  BY SegmentFacts
<1>2. DOMAIN t = DOMAIN tree
  BY DEF Pushed
<1>3. \A r \in DOMAIN tree \ {s} : t[r].blocks = tree[r].blocks
  BY DEF Pushed
<1>4. Len(t[s].blocks) = n + 1 /\ t[s].blocks[n + 1] = b
      /\ \A i \in 1 .. n : t[s].blocks[i] = tree[s].blocks[i]
  BY DEF Pushed
<1>5. \A r \in DOMAIN tree : t[r].start = tree[r].start
  BY DEF Pushed
<1>6. Prev[b] = tree[s].blocks[n]
  BY DEF LastOf
<1>7. LinkedSegments(t)
  <2>1. Linked(t[s].blocks)
    <3>1. SUFFICES ASSUME NEW i \in 2 .. n + 1
                   PROVE  t[s].blocks[i] # Genesis /\ Prev[t[s].blocks[i]] = t[s].blocks[i - 1]
      BY <1>4 DEF Linked
    <3>2. CASE i = n + 1
      BY <1>1, <1>4, <1>6, <3>2, SMTT(30)
    <3>3. CASE i \in 2 .. n
      BY <1>1, <1>4, <3>3, SMTT(30) DEF LinkedSegments, Linked
    <3> QED BY <1>1, <3>2, <3>3
  <2> QED BY <1>1, <1>2, <1>3, <1>4, <1>5, <2>1 DEF LinkedSegments
<1>8. LinkedTree(t)
  <2>1. \A r \in DOMAIN tree \ {Root} : tree[r].parent # s
    BY DEF LinkedTree
  <2>2. \A r \in DOMAIN tree \ {s} : LastOf(t, r) = LastOf(tree, r)
    BY <1>3 DEF LastOf
  <2>3. \A r \in DOMAIN tree : t[r].parent = tree[r].parent /\ t[r].children = tree[r].children
    BY DEF Pushed
  <2>4. \A r \in DOMAIN t : t[r].children = {c \in DOMAIN t : t[c].parent = r}
    BY <1>2, <2>3 DEF LinkedTree
  <2>5. Root \in DOMAIN tree
    BY DEF TypedTree
  <2> QED BY <1>2, <2>1, <2>2, <2>3, <2>4, <2>5 DEF LinkedTree
<1>9. AtHeight(t)
  <2>1. HeightOf[b] = tree[s].start + n
    <3>1. HeightOf[tree[s].blocks[n]] = tree[s].start + n - 1
      BY <1>1 DEF AtHeight
    <3>2. HeightOf[b] = HeightOf[Prev[b]] + 1
      BY BlockAssumption
    <3> QED BY <1>1, <1>6, <3>1, <3>2
  <2>2. ASSUME NEW r \in DOMAIN tree, r # s, NEW i \in 1 .. Len(t[r].blocks)
        PROVE  HeightOf[t[r].blocks[i]] = t[r].start + i - 1
    BY <1>3, <1>5, <2>2 DEF AtHeight
  <2>3. ASSUME NEW i \in 1 .. n + 1
        PROVE  HeightOf[t[s].blocks[i]] = t[s].start + i - 1
    <3>1. CASE i = n + 1
      BY <1>1, <1>4, <1>5, <2>1, <3>1
    <3>2. CASE i \in 1 .. n
      BY <1>1, <1>4, <1>5, <3>2, ZenonT(60) DEF AtHeight
    <3> QED BY <1>1, <3>1, <3>2
  <2> QED BY <1>2, <1>4, <2>2, <2>3 DEF AtHeight
<1>10. InOneSegment(t)
  <2>1. \A r \in DOMAIN tree : \A i \in 1 .. Len(tree[r].blocks) : tree[r].blocks[i] # b
    BY DEF Fresh, Holds
  <2>2. \A i \in 1 .. Len(t[s].blocks) : i \in 1 .. n \/ t[s].blocks[i] = b
    BY <1>1, <1>4
  <2> QED BY <1>2, <1>3, <1>4, <2>1, <2>2, SMTT(30) DEF InOneSegment
<1> QED BY <1>7, <1>8, <1>9, <1>10

\* A new segment may follow the last block of another.
LEMMA ForkKeepsGood ==
    ASSUME NEW tree, NEW t, GoodTree(tree), TypedTree(t),
           NEW cache \in DOMAIN tree,
           NEW b \in Block \ {Genesis}, Fresh(tree, b), Prev[b] = LastOf(tree, cache),
           Forked(tree, t, cache, b)
    PROVE  GoodTree(t)
<1> USE DEF GoodTree
<1> DEFINE n == Len(tree[cache].blocks)
<1>1. n \in Nat \ {0} /\ tree[cache].start \in Nat /\ cache \in Block
  BY SegmentFacts
<1>2. DOMAIN t = DOMAIN tree \cup {b} /\ b # Root
  BY DEF Forked, Root
<1>3. \A r \in DOMAIN tree : t[r].blocks = tree[r].blocks /\ t[r].start = tree[r].start
  BY DEF Forked
<1>4. Len(t[b].blocks) = 1 /\ t[b].blocks[1] = b /\ t[b].start = tree[cache].start + n
  BY DEF Forked
<1>5. HeightOf[b] = tree[cache].start + n
  <2>1. HeightOf[tree[cache].blocks[n]] = tree[cache].start + n - 1
    BY <1>1 DEF AtHeight
  <2>2. Prev[b] = tree[cache].blocks[n]
    BY DEF LastOf
  <2>3. HeightOf[b] = HeightOf[Prev[b]] + 1
    BY BlockAssumption
  <2> QED BY <1>1, <2>1, <2>2, <2>3
<1>6. LinkedSegments(t)
  BY <1>2, <1>3, <1>4, <1>5 DEF LinkedSegments, Linked
<1>7. b \notin DOMAIN tree
  BY SegmentFacts DEF Fresh, Holds, LinkedSegments
<1>8. LinkedTree(t)
  <2>1. \A r \in DOMAIN tree : t[r].parent = tree[r].parent /\ LastOf(t, r) = LastOf(tree, r)
    BY <1>3 DEF Forked, LastOf
  <2>2. t[b].parent = cache
    BY DEF Forked
  <2>3. ASSUME NEW r \in DOMAIN t
        PROVE  t[r].children = {c \in DOMAIN t : t[c].parent = r}
    <3>1. CASE r = b
      <4>1. t[r].children = {}
        BY <3>1 DEF Forked
      <4>2. \A c \in DOMAIN tree : tree[c].parent # b
        BY <1>7, BlockAssumption DEF LinkedTree, Root
      <4> QED BY <1>2, <1>7, <2>1, <2>2, <3>1, <4>1, <4>2
    <3>2. CASE r = cache
      <4>1. t[r].children = tree[r].children \cup {b}
        BY <3>2 DEF Forked
      <4> QED BY <1>2, <1>7, <2>1, <2>2, <3>2, <4>1 DEF LinkedTree
    <3>3. CASE r \in DOMAIN tree \ {cache}
      <4>1. t[r].children = tree[r].children
        BY <3>3 DEF Forked
      <4> QED BY <1>2, <1>7, <2>1, <2>2, <3>3, <4>1 DEF LinkedTree
    <3> QED BY <1>2, <3>1, <3>2, <3>3
  <2>4. Root \in DOMAIN tree
    BY DEF TypedTree
  <2> QED BY <1>2, <1>7, <2>1, <2>2, <2>3, <2>4 DEF LinkedTree
<1>9. AtHeight(t)
  BY <1>1, <1>2, <1>3, <1>4, <1>5 DEF AtHeight
<1>10. InOneSegment(t)
  BY <1>2, <1>3, <1>4 DEF InOneSegment, Fresh, Holds
<1> QED BY <1>6, <1>8, <1>9, <1>10

\* A block inside a segment is not the name of a segment.
LEMMA UpperIsNew ==
    ASSUME NEW tree, GoodTree(tree), NEW cache \in DOMAIN tree,
           NEW n \in 1 .. Len(tree[cache].blocks) - 1
    PROVE  tree[cache].blocks[n + 1] \in Block \ DOMAIN tree
<1> USE DEF GoodTree
<1> DEFINE up == tree[cache].blocks[n + 1]
<1>1. Len(tree[cache].blocks) \in Nat \ {0} /\ tree[cache].start \in Nat
  BY SegmentFacts
<1>2. n + 1 \in 1 .. Len(tree[cache].blocks) /\ 1 \in 1 .. Len(tree[cache].blocks)
  BY <1>1
<1>3. up \in Block
  BY <1>2, SegmentFacts
<1>4. ASSUME up \in DOMAIN tree PROVE FALSE
  <2>1. 1 \in 1 .. Len(tree[up].blocks)
    BY <1>4, SegmentFacts
  <2>2. tree[up].blocks[1] = up
    BY <1>4 DEF LinkedSegments
  <2>3. up = cache
    BY <1>2, <1>4, <2>1, <2>2 DEF InOneSegment
  <2>4. HeightOf[tree[cache].blocks[n + 1]] = tree[cache].start + (n + 1) - 1
    BY <1>2 DEF AtHeight
  <2>5. HeightOf[tree[cache].blocks[1]] = tree[cache].start + 1 - 1
    BY <1>2 DEF AtHeight
  <2>6. tree[cache].blocks[1] = tree[cache].blocks[n + 1]
    BY <2>2, <2>3
  <2> QED BY <1>1, <2>4, <2>5, <2>6
<1> QED BY <1>3, <1>4

\* No segment is its own parent: the heights would not fit.
LEMMA NotOwnParent ==
    ASSUME NEW tree, GoodTree(tree), NEW s \in DOMAIN tree
    PROVE  tree[s].parent # s
<1> USE DEF GoodTree
<1> DEFINE n == Len(tree[s].blocks)
<1>1. n \in Nat \ {0} /\ tree[s].start \in Nat /\ s \in Block
  BY SegmentFacts
<1>2. CASE s = Root
  BY <1>1, <1>2, BlockAssumption DEF LinkedTree
<1>3. CASE s # Root
  <2> SUFFICES ASSUME tree[s].parent = s PROVE FALSE
    OBVIOUS
  <2>1. Prev[s] = tree[s].blocks[n]
    BY <1>3 DEF LinkedTree, LastOf
  <2>2. HeightOf[tree[s].blocks[n]] = tree[s].start + n - 1 /\ tree[s].start = HeightOf[s]
    BY <1>1 DEF AtHeight, LinkedSegments
  <2>3. HeightOf[s] = HeightOf[Prev[s]] + 1
    BY <1>1, <1>3, BlockAssumption DEF Root
  <2> QED BY <1>1, <2>1, <2>2, <2>3
<1> QED BY <1>2, <1>3

\* Splitting a segment, its children moving to the upper part, keeps the tree good.
LEMMA SplitKeepsGood ==
    ASSUME NEW tree, NEW t, GoodTree(tree), TypedTree(t), NEW cache \in DOMAIN tree,
           NEW n \in 1 .. Len(tree[cache].blocks) - 1,
           NEW up, up = tree[cache].blocks[n + 1],
           IsSplit(tree, t, cache, up, n)
    PROVE  GoodTree(t)
<1> USE DEF GoodTree
<1> DEFINE m == Len(tree[cache].blocks)
<1>1. /\ m \in Nat \ {0} /\ tree[cache].start \in Nat /\ n \in Nat \ {0} /\ m - n \in Nat \ {0}
      /\ n + 1 \in 1 .. m /\ n \in 1 .. m
  BY SegmentFacts
<1>2. up \in Block \ DOMAIN tree
  BY UpperIsNew
<1>3. DOMAIN t = DOMAIN tree \cup {up} /\ up # cache
  BY <1>2 DEF IsSplit
<1>4. \A r \in DOMAIN tree \ {cache} : t[r].blocks = tree[r].blocks /\ t[r].start = tree[r].start
  BY DEF IsSplit
<1>5. /\ Len(t[cache].blocks) = n /\ t[cache].start = tree[cache].start
      /\ \A i \in 1 .. n : t[cache].blocks[i] = tree[cache].blocks[i]
  BY DEF IsSplit
<1>6. /\ Len(t[up].blocks) = m - n /\ t[up].start = tree[cache].start + n
      /\ \A i \in 1 .. m - n : t[up].blocks[i] = tree[cache].blocks[n + i]
  BY DEF IsSplit
<1> DEFINE old == tree[cache].blocks
           h == tree[cache].start
<1>o. /\ \A i \in 1 .. m : HeightOf[old[i]] = h + i - 1
      /\ \A i \in 2 .. m : old[i] # Genesis /\ Prev[old[i]] = old[i - 1]
      /\ old[1] = cache /\ h = HeightOf[cache]
  BY DEF AtHeight, LinkedSegments, Linked
<1> HIDE DEF m, old, h
<1>n. /\ m \in Nat \ {0} /\ h \in Nat /\ n \in Nat \ {0} /\ m - n \in Nat \ {0}
      /\ n + 1 \in 1 .. m /\ n \in 1 .. m
      /\ up = old[n + 1]
  BY <1>1 DEF m, h, old
<1>c. /\ Len(t[cache].blocks) = n /\ t[cache].start = h
      /\ \A i \in 1 .. n : t[cache].blocks[i] = old[i]
  BY <1>5 DEF m, h, old
<1>u. /\ Len(t[up].blocks) = m - n /\ t[up].start = h + n
      /\ \A i \in 1 .. m - n : t[up].blocks[i] = old[n + i]
  BY <1>6 DEF m, h, old
<1>7. HeightOf[up] = h + n
  BY <1>n, <1>o
<1>8. Prev[up] = old[n] /\ up # Genesis
  <2>1. n + 1 \in 2 .. m /\ (n + 1) - 1 = n
    BY <1>n
  <2> QED BY <1>n, <1>o, <2>1
<1>9. LinkedSegments(t)
  <2>1. t[cache].blocks[1] = cache /\ t[cache].start = HeightOf[cache]
    BY <1>n, <1>o, <1>c
  <2>2. Linked(t[cache].blocks)
    <3>1. \A i \in 2 .. n : i \in 2 .. m /\ i \in 1 .. n /\ i - 1 \in 1 .. n
      BY <1>n
    <3> QED BY <1>o, <1>c, <3>1 DEF Linked
  <2>3. t[up].blocks[1] = up /\ t[up].start = HeightOf[up]
    BY <1>n, <1>u, <1>7
  <2>4. Linked(t[up].blocks)
    <3>1. SUFFICES ASSUME NEW i \in 2 .. m - n
                   PROVE  t[up].blocks[i] # Genesis /\ Prev[t[up].blocks[i]] = t[up].blocks[i - 1]
      BY <1>u DEF Linked
    <3>2. n + i \in 2 .. m /\ i \in 1 .. m - n /\ i - 1 \in 1 .. m - n /\ (n + i) - 1 = n + (i - 1)
      BY <1>n
    <3> QED BY <1>o, <1>u, <3>2
  <2> QED BY <1>3, <1>4, <2>1, <2>2, <2>3, <2>4 DEF LinkedSegments
<1>10. AtHeight(t)
  <2>1. \A i \in 1 .. m - n : HeightOf[t[up].blocks[i]] = t[up].start + i - 1
    <3> TAKE i \in 1 .. m - n
    <3>1. n + i \in 1 .. m
      BY <1>n
    <3>2. HeightOf[old[n + i]] = h + (n + i) - 1
      BY <1>o, <3>1
    <3>3. t[up].blocks[i] = old[n + i] /\ t[up].start = h + n
      BY <1>u
    <3>4. h + (n + i) - 1 = (h + n) + i - 1
      BY <1>n
    <3> QED BY <3>2, <3>3, <3>4
  <2>2. \A i \in 1 .. n : HeightOf[t[cache].blocks[i]] = t[cache].start + i - 1
    <3>1. \A i \in 1 .. n : i \in 1 .. m
      BY <1>n
    <3> QED BY <1>o, <1>c, <3>1
  <2>3. \A r \in DOMAIN tree \ {cache} : \A i \in 1 .. Len(t[r].blocks) :
            HeightOf[t[r].blocks[i]] = t[r].start + i - 1
    BY <1>4 DEF AtHeight
  <2> QED BY <1>3, <1>c, <1>u, <2>1, <2>2, <2>3 DEF AtHeight
<1>11. InOneSegment(t)
  <2> DEFINE from(s) == IF s = up THEN cache ELSE s
             at(s, i) == IF s = up THEN n + i ELSE i
  <2>1. ASSUME NEW s \in DOMAIN t, NEW i \in 1 .. Len(t[s].blocks)
        PROVE  /\ from(s) \in DOMAIN tree
               /\ at(s, i) \in 1 .. Len(tree[from(s)].blocks)
               /\ t[s].blocks[i] = tree[from(s)].blocks[at(s, i)]
    <3>1. CASE s = up
      <4>1. i \in 1 .. m - n /\ n + i \in 1 .. m
        BY <1>n, <1>u, <3>1
      <4> QED BY <1>u, <3>1, <4>1 DEF old, m
    <3>2. CASE s = cache
      <4>1. i \in 1 .. n /\ i \in 1 .. m
        BY <1>n, <1>c, <3>2
      <4> QED BY <1>3, <1>c, <3>2, <4>1 DEF old, m
    <3>3. CASE s \in DOMAIN tree \ {cache}
      BY <1>2, <1>4, <3>3
    <3> QED BY <1>3, <3>1, <3>2, <3>3
  <2>2. SUFFICES ASSUME NEW r \in DOMAIN t, NEW s \in DOMAIN t,
                        NEW i \in 1 .. Len(t[r].blocks), NEW j \in 1 .. Len(t[s].blocks),
                        t[r].blocks[i] = t[s].blocks[j]
                 PROVE  r = s
    BY DEF InOneSegment
  <2>3. from(r) = from(s)
    <3> DEFINE x == from(r)
               y == from(s)
               k == at(r, i)
               l == at(s, j)
    <3>1. /\ x \in DOMAIN tree /\ k \in 1 .. Len(tree[x].blocks) /\ t[r].blocks[i] = tree[x].blocks[k]
          /\ y \in DOMAIN tree /\ l \in 1 .. Len(tree[y].blocks) /\ t[s].blocks[j] = tree[y].blocks[l]
      BY <2>1
    <3> HIDE DEF x, y, k, l
    <3>2. tree[x].blocks[k] = tree[y].blocks[l]
      BY <2>2, <3>1
    <3>3. x = y
      BY <3>1, <3>2 DEF InOneSegment
    <3> QED BY <3>3 DEF x, y
  <2>4. ASSUME {r, s} = {cache, up} PROVE FALSE
    <3>1. HeightOf[t[r].blocks[i]] = t[r].start + i - 1 /\ HeightOf[t[s].blocks[j]] = t[s].start + j - 1
      BY <1>10 DEF AtHeight
    <3>2. CASE r = cache /\ s = up
      <4>1. i \in 1 .. n /\ j \in Nat \ {0} /\ t[r].start = h /\ t[s].start = h + n
        BY <1>n, <1>c, <1>u, <3>2
      <4> QED BY <1>n, <2>2, <3>1, <4>1
    <3>3. CASE r = up /\ s = cache
      <4>1. j \in 1 .. n /\ i \in Nat \ {0} /\ t[s].start = h /\ t[r].start = h + n
        BY <1>n, <1>c, <1>u, <3>3
      <4> QED BY <1>n, <2>2, <3>1, <4>1
    <3> QED BY <1>3, <2>4, <3>2, <3>3
  <2> QED BY <1>2, <1>3, <2>3, <2>4
<1>12. LinkedTree(t)
  <2> DEFINE moved == tree[cache].children
  <2>1. /\ moved = {c \in DOMAIN tree : tree[c].parent = cache}
        /\ cache \notin moved /\ tree[cache].parent # cache
    BY NotOwnParent DEF LinkedTree
  <2>2. /\ \A c \in DOMAIN tree : tree[c].parent # up
        /\ up # NoSegment
    BY <1>2, BlockAssumption DEF LinkedTree
  <2>3. /\ t[up].parent = cache /\ t[cache].parent = tree[cache].parent
        /\ \A c \in DOMAIN tree \ {cache} :
              t[c].parent = IF c \in moved THEN up ELSE tree[c].parent
    BY DEF IsSplit
  <2>4. /\ t[up].children = moved /\ t[cache].children = {up}
        /\ \A c \in DOMAIN tree \ {cache} : t[c].children = tree[c].children
    BY DEF IsSplit
  <2> HIDE DEF moved
  <2>5. ASSUME NEW s \in DOMAIN t
        PROVE  t[s].children = {c \in DOMAIN t : t[c].parent = s}
    <3>1. CASE s = up
      BY <1>2, <1>3, <2>1, <2>2, <2>3, <2>4, <3>1
    <3>2. CASE s = cache
      BY <1>2, <1>3, <2>1, <2>2, <2>3, <2>4, <3>2
    <3>3. CASE s \in DOMAIN tree \ {cache}
      <4>1. tree[s].children = {c \in DOMAIN tree : tree[c].parent = s}
        BY <3>3 DEF LinkedTree
      <4> QED BY <1>2, <1>3, <2>1, <2>2, <2>3, <2>4, <3>3, <4>1
    <3> QED BY <1>3, <3>1, <3>2, <3>3
  <2>6. /\ LastOf(t, up) = LastOf(tree, cache)
        /\ LastOf(t, cache) = old[n]
        /\ \A c \in DOMAIN tree \ {cache} : LastOf(t, c) = LastOf(tree, c)
    <3>1. m - n \in 1 .. m - n /\ n + (m - n) = m
      BY <1>n
    <3>2. LastOf(t, up) = old[m] /\ LastOf(t, cache) = old[n]
      BY <1>n, <1>c, <1>u, <3>1 DEF LastOf
    <3>3. LastOf(tree, cache) = old[m]
      BY DEF LastOf, m, old
    <3> QED BY <1>4, <3>2, <3>3 DEF LastOf
  <2>7. ASSUME NEW s \in DOMAIN t \ {Root}
        PROVE  t[s].parent \in DOMAIN t /\ Prev[s] = LastOf(t, t[s].parent)
    <3>1. CASE s = up
      BY <1>3, <1>8, <2>3, <2>6, <3>1
    <3>2. CASE s \in DOMAIN tree
      <4>1. tree[s].parent \in DOMAIN tree /\ Prev[s] = LastOf(tree, tree[s].parent)
        BY <3>2 DEF LinkedTree
      <4>2. CASE s \in moved
        BY <1>3, <2>1, <2>3, <2>6, <4>1, <4>2
      <4>3. CASE s \notin moved
        BY <1>3, <2>1, <2>3, <2>6, <3>2, <4>1, <4>3
      <4> QED BY <4>2, <4>3
    <3> QED BY <1>3, <3>1, <3>2
  <2>8. t[Root].parent = NoSegment
    BY <2>1, <2>3, BlockAssumption DEF LinkedTree, TypedTree
  <2> QED BY <2>5, <2>7, <2>8 DEF LinkedTree
<1> QED BY <1>9, <1>10, <1>11, <1>12

-----------------------------------------------------------------------------
(* Split. *)

\* Position finds a block of the segment, below the top if it is not the top block.
LEMMA PositionFacts ==
    ASSUME GoodTree(chainsStorage), NEW cache \in segments, NEW b,
           b \in BlocksOf(cache), b # TopBlock(cache)
    PROVE  /\ Position(cache, b) \in 1 .. Len(chainsStorage[cache].blocks) - 1
           /\ chainsStorage[cache].blocks[Position(cache, b)] = b
<1> DEFINE n == Position(cache, b)
           m == Len(chainsStorage[cache].blocks)
<1>1. m \in Nat \ {0}
  BY SegmentFacts DEF GoodTree, segments
<1>2. \E i \in 1 .. m : chainsStorage[cache].blocks[i] = b
  BY DEF BlocksOf
<1>3. n \in 1 .. m /\ chainsStorage[cache].blocks[n] = b
  BY <1>2 DEF Position
<1>4. n # m
  BY <1>3 DEF TopBlock
<1> HIDE DEF n, m
<1>5. n \in 1 .. m - 1
  BY <1>1, <1>3, <1>4
<1> QED BY <1>3, <1>5 DEF n, m

\* BlockchainCache::split cuts the blocks of a segment in two.
LEMMA SplitFacts ==
    ASSUME GoodTree(chainsStorage), NEW cache \in segments, NEW b,
           b \in BlocksOf(cache), b # TopBlock(cache)
    PROVE  LET t == SplitInMemory(cache, b)
           IN  /\ TypedTree(t)
               /\ IsSplit(chainsStorage, t, cache, UpperName(cache, b), Position(cache, b))
<1> DEFINE t == SplitInMemory(cache, b)
           up == UpperName(cache, b)
           n == Position(cache, b)
           seg == chainsStorage[cache]
           m == Len(seg.blocks)
           upper == [parent |-> cache, children |-> seg.children,
                     start |-> seg.start + n, blocks |-> Upper(cache, b)]
           lower == [seg EXCEPT !.children = {up}, !.blocks = Lower(cache, b)]
           below(s) == [chainsStorage[s] EXCEPT !.parent = up]
<1>1. n \in 1 .. m - 1
  BY PositionFacts
<1>2. /\ TypedTree(chainsStorage) /\ \A s \in segments : chainsStorage[s] \in Segment
      /\ seg \in Segment /\ cache \in Block /\ seg.start \in Nat
      /\ seg.blocks \in Seq(Block) /\ seg.children \subseteq Block /\ m \in Nat
  BY SegmentFacts DEF GoodTree, TypedTree, segments
<1>3. up \in Block \ segments
  BY <1>1, UpperIsNew DEF UpperName, segments
<1>4. t = [s \in segments \cup {up} |->
              IF s = up THEN upper ELSE IF s = cache THEN lower
              ELSE IF s \in seg.children THEN below(s) ELSE chainsStorage[s]]
  BY DEF SplitInMemory
<1>5. Lower(cache, b) = SubSeq(seg.blocks, 1, n) /\ Upper(cache, b) = SubSeq(seg.blocks, n + 1, m)
  BY DEF Lower, Upper
<1> HIDE DEF n, m, up, seg
<1>6. n \in Nat \ {0} /\ n <= m /\ n + 1 <= m
  BY <1>1, <1>2
<1>7. /\ Lower(cache, b) \in Seq(Block) /\ Len(Lower(cache, b)) = n
      /\ \A i \in 1 .. n : Lower(cache, b)[i] = seg.blocks[i]
  BY <1>2, <1>5, <1>6 DEF m
<1>8. /\ Upper(cache, b) \in Seq(Block) /\ Len(Upper(cache, b)) = m - n
      /\ \A i \in 1 .. m - n : Upper(cache, b)[i] = seg.blocks[n + i]
  BY <1>2, <1>5, <1>6 DEF m
<1>9. /\ upper \in Segment /\ upper.parent = cache /\ upper.children = seg.children
      /\ upper.start = seg.start + n /\ upper.blocks = Upper(cache, b)
  BY <1>2, <1>6, <1>8 DEF Segment
<1>10. /\ lower \in Segment /\ lower.parent = seg.parent /\ lower.children = {up}
       /\ lower.start = seg.start /\ lower.blocks = Lower(cache, b)
  BY <1>2, <1>3, <1>7 DEF Segment
<1>11. \A s \in segments :
          /\ below(s) \in Segment /\ below(s).parent = up
          /\ below(s).children = chainsStorage[s].children
          /\ below(s).start = chainsStorage[s].start /\ below(s).blocks = chainsStorage[s].blocks
  BY <1>2, <1>3 DEF Segment
<1> HIDE DEF t, upper, lower, below
<1>12. /\ DOMAIN t = segments \cup {up} /\ t[up] = upper /\ t[cache] = lower
       /\ \A s \in segments \ {cache} :
             t[s] = IF s \in seg.children THEN below(s) ELSE chainsStorage[s]
  BY <1>3, <1>4
<1>13. TypedTree(t)
  <2>1. \A s \in DOMAIN t : t[s] \in Segment
    BY <1>2, <1>9, <1>10, <1>11, <1>12
  <2>2. upper.blocks # <<>> /\ lower.blocks # <<>>
    <3>1. Len(Upper(cache, b)) # Len(<<>>) /\ Len(Lower(cache, b)) # Len(<<>>)
      BY <1>2, <1>6, <1>7, <1>8 DEF m
    <3> QED BY <1>9, <1>10, <3>1
  <2>3. \A s \in DOMAIN t : t[s].blocks # <<>>
    BY <1>2, <1>11, <1>12, <2>2 DEF TypedTree, segments
  <2>4. t \in [DOMAIN t -> Segment]
    BY <1>4, <1>12, <2>1
  <2> QED BY <1>2, <1>3, <1>12, <2>3, <2>4 DEF TypedTree, segments
<1>14. IsSplit(chainsStorage, t, cache, up, n)
  <2>1. \A r \in segments \ {cache} :
            /\ t[r].parent = IF r \in seg.children THEN up ELSE chainsStorage[r].parent
            /\ t[r].children = chainsStorage[r].children
            /\ t[r].blocks = chainsStorage[r].blocks
            /\ t[r].start = chainsStorage[r].start
    BY <1>11, <1>12
  <2> QED BY <1>7, <1>8, <1>9, <1>10, <1>12, <2>1 DEF IsSplit, segments, seg, m
<1> QED BY <1>13, <1>14 DEF t, up, n

\* DatabaseBlockchainCache::split does the same to a root without children.
LEMMA SplitDatabaseIsSplit ==
    ASSUME NEW b, chainsStorage[Root].children = {}
    PROVE  SplitDatabase(b) = SplitInMemory(Root, b)
BY DEF SplitDatabase, SplitInMemory

-----------------------------------------------------------------------------
(* The chains of the leaves. *)

\* A closed set of segments that holds a leaf holds the chain of the leaf.
LEMMA ChainOfLeast ==
    ASSUME NEW tree, NEW leaf, NEW S \in SUBSET DOMAIN tree, leaf \in S, Closed(tree, S),
           NEW s \in ChainOf(tree, leaf)
    PROVE  s \in S
BY DEF ChainOf

\* A leaf is on its chain.
LEMMA LeafOnChain ==
    ASSUME NEW tree, NEW leaf \in DOMAIN tree
    PROVE  leaf \in ChainOf(tree, leaf)
BY DEF ChainOf

\* A push changes no chain of segments.
LEMMA PushKeepsChains ==
    ASSUME NEW tree, NEW t, NEW s \in DOMAIN tree, NEW b, Pushed(tree, t, s, b), NEW leaf
    PROVE  ChainOf(t, leaf) = ChainOf(tree, leaf)
<1>1. DOMAIN t = DOMAIN tree /\ \A r \in DOMAIN tree : t[r].parent = tree[r].parent
  BY DEF Pushed
<1>2. \A S \in SUBSET DOMAIN tree : Closed(t, S) <=> Closed(tree, S)
  BY <1>1 DEF Closed
<1> QED BY <1>1, <1>2 DEF ChainOf

\* A new segment leaves every other on the chain of a leaf.
LEMMA ForkKeepsReached ==
    ASSUME NEW tree, NEW t, GoodTree(tree), NEW cache \in DOMAIN tree, NEW b,
           b \notin DOMAIN tree, Forked(tree, t, cache, b),
           NEW leaves \in SUBSET DOMAIN tree, Reached(tree, leaves)
    PROVE  Reached(t, leaves \cup {b})
<1>1. DOMAIN t = DOMAIN tree \cup {b} /\ \A r \in DOMAIN tree : t[r].parent = tree[r].parent
  BY DEF Forked
<1>2. ASSUME NEW s \in DOMAIN tree, NEW leaf \in leaves, s \in ChainOf(tree, leaf)
      PROVE  s \in ChainOf(t, leaf)
  <2>1. SUFFICES ASSUME NEW S \in SUBSET DOMAIN t, leaf \in S, Closed(t, S) PROVE s \in S
    BY <1>1 DEF ChainOf
  <2> DEFINE R == S \cap DOMAIN tree
  <2>2. Closed(tree, R)
    <3>1. \A r \in DOMAIN tree : tree[r].parent = NoSegment \/ tree[r].parent \in DOMAIN tree
      BY DEF GoodTree, LinkedTree
    <3> QED BY <1>1, <2>1, <3>1 DEF Closed
  <2>3. R \in SUBSET DOMAIN tree /\ leaf \in R
    BY <2>1
  <2>4. s \in R
    BY <1>2, <2>2, <2>3, ChainOfLeast
  <2> QED BY <2>4
<1>3. b \in ChainOf(t, b)
  BY <1>1, LeafOnChain
<1> QED BY <1>1, <1>2, <1>3 DEF Reached

\* The upper part takes the place of a leaf that was split, and is a leaf when it has
\* no children.
UpperReplaces(tree, cache, up, leaves, new) ==
    /\ leaves \subseteq DOMAIN tree /\ leaves \ {cache} \subseteq new
    /\ cache \in leaves \/ tree[cache].children = {} => up \in new

\* After such a split the chains of the leaves still hold every segment.
LEMMA SplitKeepsReached ==
    ASSUME NEW tree, NEW t, GoodTree(tree), NEW cache \in DOMAIN tree,
           NEW up \in Block \ DOMAIN tree, NEW n, IsSplit(tree, t, cache, up, n),
           NEW leaves, Reached(tree, leaves), NEW new, UpperReplaces(tree, cache, up, leaves, new)
    PROVE  Reached(t, new)
<1> DEFINE moved == tree[cache].children
           leafOf(leaf) == IF leaf = cache THEN up ELSE leaf
<1>1. /\ DOMAIN t = DOMAIN tree \cup {up} /\ up # cache
      /\ t[up].parent = cache /\ t[cache].parent = tree[cache].parent
      /\ \A r \in DOMAIN tree \ {cache} :
            t[r].parent = IF r \in moved THEN up ELSE tree[r].parent
  BY DEF IsSplit
<1>2. /\ \A r \in DOMAIN tree : tree[r].parent = NoSegment \/ tree[r].parent \in DOMAIN tree
      /\ moved = {c \in DOMAIN tree : tree[c].parent = cache}
      /\ cache # NoSegment /\ up # NoSegment
  <2>1. cache \in Block /\ cache # NoSegment
    BY SegmentFacts, BlockAssumption DEF GoodTree
  <2>2. up # NoSegment
    BY BlockAssumption
  <2> QED BY <2>1, <2>2 DEF GoodTree, LinkedTree
<1> HIDE DEF moved
<1>3. ASSUME NEW s \in DOMAIN tree, NEW leaf \in leaves, s \in ChainOf(tree, leaf)
      PROVE  s \in ChainOf(t, leafOf(leaf))
  <2>1. SUFFICES ASSUME NEW S \in SUBSET DOMAIN t, leafOf(leaf) \in S, Closed(t, S) PROVE s \in S
    BY <1>1 DEF ChainOf
  <2> DEFINE R == S \cap DOMAIN tree
  <2>2. up \in S => cache \in S
    BY <1>1, <1>2, <2>1 DEF Closed
  <2>3. Closed(tree, R)
    <3>1. SUFFICES ASSUME NEW r \in R, tree[r].parent # NoSegment PROVE tree[r].parent \in S
      BY <1>2 DEF Closed
    <3>2. CASE r = cache
      BY <1>1, <2>1, <3>1, <3>2 DEF Closed
    <3>3. CASE r # cache /\ r \in moved
      BY <1>1, <1>2, <2>1, <2>2, <3>3 DEF Closed
    <3>4. CASE r # cache /\ r \notin moved
      BY <1>1, <2>1, <3>1, <3>4 DEF Closed
    <3> QED BY <3>2, <3>3, <3>4
  <2>4. leaf \in R
    BY <2>1, <2>2 DEF UpperReplaces
  <2>5. s \in R
    BY <1>3, <2>3, <2>4, ChainOfLeast
  <2> QED BY <2>5
<1>4. \A leaf \in leaves : leafOf(leaf) \in new
  BY DEF UpperReplaces
<1>5. \E leaf \in new : up \in ChainOf(t, leaf)
  <2>1. CASE moved = {}
    BY <1>1, <2>1, LeafOnChain DEF moved, UpperReplaces
  <2>2. CASE moved # {}
    <3>1. PICK c \in moved : TRUE
      BY <2>2
    <3>2. c \in DOMAIN tree /\ c # cache /\ t[c].parent = up
      BY <1>1, <1>2, NotOwnParent
    <3>3. PICK leaf \in leaves : c \in ChainOf(tree, leaf)
      BY <3>2 DEF Reached
    <3>4. c \in ChainOf(t, leafOf(leaf))
      BY <1>3, <3>2, <3>3
    <3>5. up \in ChainOf(t, leafOf(leaf))
      <4>1. SUFFICES ASSUME NEW S \in SUBSET DOMAIN t, leafOf(leaf) \in S, Closed(t, S) PROVE up \in S
        BY <1>1 DEF ChainOf
      <4>2. c \in S
        BY <3>4, <4>1, ChainOfLeast
      <4> QED BY <1>2, <3>2, <4>1, <4>2 DEF Closed
    <3> QED BY <1>4, <3>5
  <2> QED BY <2>1, <2>2
<1>6. ASSUME NEW s \in DOMAIN tree PROVE \E leaf \in new : s \in ChainOf(t, leaf)
  <2>1. PICK leaf \in leaves : s \in ChainOf(tree, leaf)
    BY DEF Reached
  <2> HIDE DEF leafOf
  <2> QED BY <1>3, <1>4, <2>1
<1> QED BY <1>1, <1>5, <1>6 DEF Reached

-----------------------------------------------------------------------------
(* The blocks of the tree. *)

\* A push adds the block and no other.
LEMMA PushAddsBlock ==
    ASSUME NEW tree, NEW t, TypedTree(tree), NEW s \in DOMAIN tree, NEW b, Pushed(tree, t, s, b), NEW x
    PROVE  Fresh(t, x) <=> Fresh(tree, x) /\ x # b
<1> DEFINE n == Len(tree[s].blocks)
<1>1. n \in Nat
  BY SegmentFacts
<1>2. /\ DOMAIN t = DOMAIN tree /\ \A r \in DOMAIN tree \ {s} : t[r].blocks = tree[r].blocks
      /\ Len(t[s].blocks) = n + 1 /\ t[s].blocks[n + 1] = b
      /\ \A i \in 1 .. n : t[s].blocks[i] = tree[s].blocks[i]
  BY DEF Pushed
<1> HIDE DEF n
<1>3. Holds(t, s, x) <=> Holds(tree, s, x) \/ x = b
  <2>1. Holds(tree, s, x) <=> \E i \in 1 .. n : tree[s].blocks[i] = x
    BY DEF Holds, n
  <2>2. Holds(t, s, x) <=> \E i \in 1 .. n + 1 : t[s].blocks[i] = x
    BY <1>2 DEF Holds
  <2>3. \A i : i \in 1 .. n + 1 <=> i \in 1 .. n \/ i = n + 1
    BY <1>1
  <2> QED BY <1>2, <2>1, <2>2, <2>3
<1>4. \A r \in DOMAIN tree \ {s} : Holds(t, r, x) <=> Holds(tree, r, x)
  BY <1>2 DEF Holds
<1> QED BY <1>2, <1>3, <1>4 DEF Fresh

\* A fork adds the block and no other.
LEMMA ForkAddsBlock ==
    ASSUME NEW tree, NEW t, NEW cache \in DOMAIN tree, NEW b, b \notin DOMAIN tree,
           Forked(tree, t, cache, b), NEW x
    PROVE  Fresh(t, x) <=> Fresh(tree, x) /\ x # b
<1>1. /\ DOMAIN t = DOMAIN tree \cup {b} /\ \A r \in DOMAIN tree : t[r].blocks = tree[r].blocks
      /\ Len(t[b].blocks) = 1 /\ t[b].blocks[1] = b
  BY DEF Forked
<1>2. Holds(t, b, x) <=> x = b
  BY <1>1 DEF Holds
<1>3. \A r \in DOMAIN tree : Holds(t, r, x) <=> Holds(tree, r, x)
  BY <1>1 DEF Holds
<1> QED BY <1>1, <1>2, <1>3 DEF Fresh

\* A split keeps the blocks.
LEMMA SplitKeepsBlocks ==
    ASSUME NEW tree, NEW t, TypedTree(tree), NEW cache \in DOMAIN tree, NEW up, up \notin DOMAIN tree,
           NEW n \in 1 .. Len(tree[cache].blocks) - 1, IsSplit(tree, t, cache, up, n), NEW x
    PROVE  Fresh(t, x) <=> Fresh(tree, x)
<1> DEFINE m == Len(tree[cache].blocks)
<1>1. m \in Nat /\ n \in 1 .. m - 1
  BY SegmentFacts
<1>2. /\ DOMAIN t = DOMAIN tree \cup {up}
      /\ \A r \in DOMAIN tree \ {cache} : t[r].blocks = tree[r].blocks
      /\ Len(t[cache].blocks) = n /\ \A i \in 1 .. n : t[cache].blocks[i] = tree[cache].blocks[i]
      /\ Len(t[up].blocks) = m - n
      /\ \A i \in 1 .. m - n : t[up].blocks[i] = tree[cache].blocks[n + i]
  BY DEF IsSplit
<1> HIDE DEF m
<1>3. Holds(tree, cache, x) <=> Holds(t, cache, x) \/ Holds(t, up, x)
  <2>1. Holds(tree, cache, x) <=> \E i \in 1 .. m : tree[cache].blocks[i] = x
    BY DEF Holds, m
  <2>2. Holds(t, cache, x) <=> \E i \in 1 .. n : tree[cache].blocks[i] = x
    BY <1>2 DEF Holds
  <2>3. Holds(t, up, x) <=> \E i \in 1 .. m - n : tree[cache].blocks[n + i] = x
    BY <1>2, ZenonT(60) DEF Holds
  <2>4. \A i \in 1 .. m : i \in 1 .. n \/ (i - n \in 1 .. m - n /\ n + (i - n) = i)
    BY <1>1
  <2>5. \A i \in 1 .. n : i \in 1 .. m
    BY <1>1
  <2>6. \A i \in 1 .. m - n : n + i \in 1 .. m
    BY <1>1
  <2> QED BY <2>1, <2>2, <2>3, <2>4, <2>5, <2>6
<1>4. \A r \in DOMAIN tree \ {cache} : Holds(t, r, x) <=> Holds(tree, r, x)
  BY <1>2 DEF Holds
<1> QED BY <1>2, <1>3, <1>4 DEF Fresh
=============================================================================
