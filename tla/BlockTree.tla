------------------------------ MODULE BlockTree ------------------------------
(***************************************************************************)
(* What Core::addBlock promises about the blocks a running node knows and  *)
(* about its main chain, without segments, leaves and files: the tree of   *)
(* the known blocks grows by one block at a time, and the tip of the main  *)
(* chain moves only when its own chain or a branch with more work grows.   *)
(***************************************************************************)
EXTENDS Integers, Sequences

CONSTANTS
    Block,    \* the blocks, genesis included
    Genesis,  \* the genesis block
    Prev,     \* [Block \ {Genesis} -> Block]: previousBlockHash
    WorkOf,   \* [Block -> Nat]: cumulative difficulty of a block and its ancestors
    Stored    \* the chains that may be in the data directory at the start

ASSUME TreeAssumption ==
    /\ Genesis \in Block
    /\ Prev \in [Block \ {Genesis} -> Block]
    /\ WorkOf \in [Block -> Nat]
    /\ \A b \in Block \ {Genesis} : WorkOf[b] > WorkOf[Prev[b]]

\* A sequence of blocks in which each follows the one before it.
Linked(blocks) ==
    \A i \in 2 .. Len(blocks) : blocks[i] # Genesis /\ Prev[blocks[i]] = blocks[i - 1]

ASSUME StoredAssumption ==
    \A chain \in Stored : /\ chain \in Seq(Block)
                          /\ chain # <<>>
                          /\ chain[1] = Genesis
                          /\ Linked(chain)

VARIABLES
    known,  \* the blocks of all segments
    tip     \* the top block of chainsLeaves[0]

vars == <<known, tip>>

\* The known blocks that follow b.
Children(b) == {c \in known \ {Genesis} : Prev[c] = b}

\* A stored chain has been loaded.
Init ==
    \E chain \in Stored :
        /\ known = {chain[i] : i \in 1 .. Len(chain)}
        /\ tip = chain[Len(chain)]

\* The block extends the main chain, or a branch that now has more work.  The first
\* block of a branch never becomes the tip, whatever its work.
BecomesTip(b) ==
    \/ Prev[b] = tip
    \/ Children(Prev[b]) = {} /\ WorkOf[b] > WorkOf[tip]

\* Core::addBlock for a block that is new, valid, and whose parent is known.
Add(b) ==
    /\ b \notin known
    /\ Prev[b] \in known
    /\ known' = known \cup {b}
    /\ tip' = IF BecomesTip(b) THEN b ELSE tip

Next == \E b \in Block \ {Genesis} : Add(b)

Spec == Init /\ [][Next]_vars

-----------------------------------------------------------------------------
\* The tip is a block addBlock has taken in, and so is genesis.
TypeOK == known \subseteq Block /\ Genesis \in known /\ tip \in known

\* The known blocks are a tree, and nothing has been built on the tip.
Rooted ==
    /\ \A b \in known \ {Genesis} : Prev[b] \in known
    /\ Children(tip) = {}

\* A block with more work than the tip is one that nothing has been built on and
\* that has a sibling: the first block of a branch, which addBlock does not weigh.
OnlyFreshBranchesAreHeavier ==
    \A b \in known :
        WorkOf[b] > WorkOf[tip] =>
            /\ Children(b) = {}
            /\ \E c \in known \ {b, Genesis} : Prev[c] = Prev[b]
=============================================================================
