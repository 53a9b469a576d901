--------------------------- MODULE BlockTreeProofs ---------------------------
(* Proofs about BlockTree: its invariants for every tree of blocks. *)
EXTENDS BlockTree, LeastNumber

\* The work of a stored chain grows along it: by induction, the least index above i
\* whose block has less work than the i-th cannot be.
LEMMA StoredWorkGrows ==
    ASSUME NEW chain \in Stored, NEW i \in 1 .. Len(chain), NEW j \in 1 .. Len(chain), i <= j
    PROVE  WorkOf[chain[i]] <= WorkOf[chain[j]]
<1> DEFINE T == {k \in i .. Len(chain) : ~(WorkOf[chain[i]] <= WorkOf[chain[k]])}
<1>1. /\ Len(chain) \in Nat /\ Linked(chain)
      /\ \A k \in 1 .. Len(chain) : chain[k] \in Block /\ WorkOf[chain[k]] \in Nat
  <2>1. chain \in Seq(Block) /\ Linked(chain)
    BY StoredAssumption
  <2>2. Len(chain) \in Nat /\ \A k \in 1 .. Len(chain) : chain[k] \in Block
    BY <2>1
  <2> QED BY <2>1, <2>2, TreeAssumption
<1>2. ASSUME T # {} PROVE FALSE
  <2>1. T \in SUBSET Nat
    BY <1>1
  <2>2. PICK k \in T : \A l \in T : k <= l
    <3> HIDE DEF T
    <3> QED BY <1>2, <2>1, LeastNumberExists
  <2>3. k \in i .. Len(chain) /\ ~(WorkOf[chain[i]] <= WorkOf[chain[k]])
    BY <2>2
  <2>4. k # i
    BY <1>1, <2>3
  <2>5. /\ k - 1 \in i .. Len(chain) /\ k - 1 \in 1 .. Len(chain) /\ k \in 2 .. Len(chain)
        /\ k \in 1 .. Len(chain) /\ ~(k <= k - 1)
    BY <1>1, <2>3, <2>4
  <2>6. WorkOf[chain[i]] <= WorkOf[chain[k - 1]]
    BY <2>2, <2>5
  <2>7. chain[k] \in Block \ {Genesis} /\ Prev[chain[k]] = chain[k - 1]
    BY <1>1, <2>5 DEF Linked
  <2>8. WorkOf[chain[k]] > WorkOf[chain[k - 1]]
    BY <2>7, TreeAssumption
  <2>9. WorkOf[chain[i]] \in Nat /\ WorkOf[chain[k]] \in Nat /\ WorkOf[chain[k - 1]] \in Nat
    BY <1>1, <2>5
  <2> QED BY <2>3, <2>6, <2>8, <2>9
<1>3. j \in i .. Len(chain)
  BY <1>1
<1> QED BY <1>2, <1>3

\* The three invariants support each other.
Inv == TypeOK /\ Rooted /\ OnlyFreshBranchesAreHeavier

\* A stored chain has no branch, and its last block has the most work.
LEMMA TreeInit == Init => Inv
<1> SUFFICES ASSUME Init PROVE Inv
  OBVIOUS
<1>1. PICK chain \in Stored : known = {chain[i] : i \in 1 .. Len(chain)} /\ tip = chain[Len(chain)]
  BY DEF Init
<1>2. /\ chain \in Seq(Block) /\ chain # <<>> /\ chain[1] = Genesis /\ Linked(chain)
  BY StoredAssumption
<1>3. /\ Len(chain) \in Nat \ {0} /\ 1 \in 1 .. Len(chain) /\ Len(chain) \in 1 .. Len(chain)
      /\ \A i \in 1 .. Len(chain) : chain[i] \in Block /\ WorkOf[chain[i]] \in Nat
  <2>1. Len(chain) \in Nat \ {0} /\ \A i \in 1 .. Len(chain) : chain[i] \in Block
    BY <1>2
  <2> QED BY <2>1, TreeAssumption
<1>4. TypeOK
  BY <1>1, <1>2, <1>3 DEF TypeOK
<1>5. \A b \in known : WorkOf[b] \in Nat /\ WorkOf[b] <= WorkOf[tip]
  <2> SUFFICES ASSUME NEW i \in 1 .. Len(chain)
               PROVE  WorkOf[chain[i]] \in Nat /\ WorkOf[chain[i]] <= WorkOf[chain[Len(chain)]]
    BY <1>1
  <2>1. i <= Len(chain)
    BY <1>3
  <2> QED BY <1>3, <2>1, StoredWorkGrows
<1>6. Rooted
  <2>1. ASSUME NEW b \in known \ {Genesis} PROVE Prev[b] \in known
    <3>1. PICK i \in 1 .. Len(chain) : b = chain[i]
      BY <1>1
    <3>2. i # 1
      BY <1>2, <3>1
    <3>3. i \in 2 .. Len(chain) /\ i - 1 \in 1 .. Len(chain)
      BY <1>3, <3>2
    <3> QED BY <1>1, <1>2, <3>1, <3>3 DEF Linked
  <2>2. ASSUME NEW c \in known \ {Genesis}, Prev[c] = tip PROVE FALSE
    <3>1. WorkOf[c] > WorkOf[tip] /\ WorkOf[tip] \in Nat /\ WorkOf[c] <= WorkOf[tip] /\ WorkOf[c] \in Nat
      BY <1>4, <1>5, <2>2, TreeAssumption DEF TypeOK
    <3> QED BY <3>1
  <2> QED BY <2>1, <2>2 DEF Rooted, Children
<1>7. OnlyFreshBranchesAreHeavier
  <2>1. \A b \in known : ~(WorkOf[b] > WorkOf[tip])
    BY <1>4, <1>5 DEF TypeOK
  <2> QED BY <2>1 DEF OnlyFreshBranchesAreHeavier
<1> QED BY <1>4, <1>6, <1>7 DEF Inv

\* Adding a block keeps the invariant and moves the tip only for more work.
LEMMA TreeStep ==
    ASSUME Inv, NEW b \in Block \ {Genesis}, Add(b)
    PROVE  Inv' /\ (tip' # tip => WorkOf[tip'] > WorkOf[tip])
<1>1. /\ b \notin known /\ Prev[b] \in known /\ known' = known \cup {b}
      /\ tip' = IF BecomesTip(b) THEN b ELSE tip
  BY DEF Add
<1>2. /\ known \subseteq Block /\ Genesis \in known /\ tip \in known
      /\ \A c \in known \ {Genesis} : Prev[c] \in known
      /\ Children(tip) = {}
  BY DEF Inv, TypeOK, Rooted
<1>3. /\ \A x \in Block : WorkOf[x] \in Nat
      /\ WorkOf[b] > WorkOf[Prev[b]] /\ Prev[b] # b
  <2>1. (\A x \in Block : WorkOf[x] \in Nat) /\ WorkOf[b] > WorkOf[Prev[b]] /\ Prev[b] \in Block
    BY TreeAssumption
  <2> QED BY <2>1
<1>4. TypeOK'
  BY <1>1, <1>2 DEF TypeOK
<1>5. \A x : Children(x)' = Children(x) \cup (IF Prev[b] = x THEN {b} ELSE {})
  BY <1>1 DEF Children
<1>6. Children(b)' = {}
  <2>1. Children(b) = {}
    BY <1>1, <1>2 DEF Children
  <2> QED BY <1>3, <1>5, <2>1
<1>7. tip' # tip => WorkOf[tip'] > WorkOf[tip]
  BY <1>1, <1>3 DEF BecomesTip
<1>8. Rooted'
  <2>1. \A c \in known' \ {Genesis} : Prev[c] \in known'
    BY <1>1, <1>2
  <2>2. CASE BecomesTip(b)
    BY <1>1, <1>6, <2>1, <2>2 DEF Rooted, Children
  <2>3. CASE ~BecomesTip(b)
    <3>1. tip' = tip /\ Prev[b] # tip
      BY <1>1, <2>3 DEF BecomesTip
    <3>2. Children(tip)' = {}
      <4>1. \A c \in known' \ {Genesis} : Prev[c] # tip
        BY <1>1, <1>2, <3>1 DEF Children
      <4> QED BY <3>1, <4>1 DEF Children
    <3> QED BY <2>1, <3>2 DEF Rooted
  <2> QED BY <2>2, <2>3
<1>9. OnlyFreshBranchesAreHeavier'
  <2> SUFFICES ASSUME NEW x \in known', WorkOf[x] > WorkOf[tip']
               PROVE  /\ Children(x)' = {}
                      /\ \E c \in known' \ {x, Genesis} : Prev[c] = Prev[x]
    BY DEF OnlyFreshBranchesAreHeavier
  <2>1. /\ WorkOf[x] \in Nat /\ WorkOf[tip] \in Nat /\ WorkOf[b] \in Nat /\ WorkOf[Prev[b]] \in Nat
        /\ WorkOf[x] > WorkOf[tip]
    BY <1>1, <1>2, <1>3, <1>7
  <2>2. CASE x = b
    <3>1. ~BecomesTip(b)
      BY <1>1, <1>3, <2>2
    <3>2. Children(Prev[b]) # {}
      BY <2>1, <2>2, <3>1 DEF BecomesTip
    <3>3. PICK c \in known \ {Genesis} : Prev[c] = Prev[b]
      BY <3>2 DEF Children
    <3> QED BY <1>1, <1>6, <2>2, <3>3
  <2>3. CASE x # b
    <3>1. x \in known /\ Children(x) = {} /\ \E c \in known \ {x, Genesis} : Prev[c] = Prev[x]
      BY <1>1, <2>1, <2>3 DEF Inv, OnlyFreshBranchesAreHeavier
    <3>2. Prev[b] # x
      <4> SUFFICES ASSUME Prev[b] = x PROVE FALSE
        OBVIOUS
      <4>1. WorkOf[b] > WorkOf[tip]
        BY <1>3, <2>1
      <4>2. tip' = b
        BY <1>1, <3>1, <4>1 DEF BecomesTip
      <4> QED BY <1>3, <2>1, <4>2
    <3>3. Children(x)' = {}
      BY <1>5, <3>1, <3>2
    <3> QED BY <1>1, <3>1, <3>3
  <2> QED BY <2>2, <2>3
<1> QED BY <1>4, <1>7, <1>8, <1>9 DEF Inv

\* The invariant holds whatever blocks arrive, in whatever order.
LEMMA TreeInv == Spec => []Inv
<1>1. Inv /\ [Next]_vars => Inv'
  <2> SUFFICES ASSUME Inv, [Next]_vars PROVE Inv'
    OBVIOUS
  <2>1. CASE Next
    BY <2>1, TreeStep DEF Next
  <2>2. CASE UNCHANGED vars
    BY <2>2 DEF vars, Inv, TypeOK, Rooted, OnlyFreshBranchesAreHeavier, Children
  <2> QED BY <2>1, <2>2
<1> QED BY <1>1, TreeInit, PTL DEF Spec

\* The known blocks are a tree above genesis and nothing is built on the tip, for every
\* tree of blocks that addBlock may be given.
THEOREM TreeIsRooted == Spec => []Rooted
<1>1. Inv => Rooted
  BY DEF Inv
<1> QED BY <1>1, TreeInv, PTL

\* A branch with more work than the main chain has one block as yet: one more, and
\* addBlock switches to it.
THEOREM HeavierBranchesAreFresh == Spec => []OnlyFreshBranchesAreHeavier
<1>1. Inv => OnlyFreshBranchesAreHeavier
  BY DEF Inv
<1> QED BY <1>1, TreeInv, PTL
=============================================================================
