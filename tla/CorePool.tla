------------------------------ MODULE CorePool ------------------------------
(***************************************************************************)
(* How Core keeps the memory pool in step with the main chain: what        *)
(* addTransactionToPool lets in, what a new block takes out, what a switch *)
(* of the main chain takes out and brings back, and the block template     *)
(* that is made of what is left.                                           *)
(*                                                                         *)
(* The chain is the tree of blocks of BlockTree, which CoreChain           *)
(* implements; the pool is a set of transactions that reserves their key   *)
(* images, and the list of transactions it has aged out, whose timing is   *)
(* in TransactionPool.  A transaction of the model is well formed and has  *)
(* a valid ring signature and fee; what depends on the chain is which key  *)
(* images are spent, which outputs exist, which mixins are allowed and how *)
(* large a transaction may be.                                             *)
(***************************************************************************)
EXTENDS BlockTree, FiniteSets

CONSTANTS
    Tx,             \* the transactions that may reach this node
    KeyImage,       \* key images
    KeyImagesOf,    \* [Tx -> SUBSET KeyImage]: what a transaction spends
    Needs,          \* [Tx -> SUBSET Tx]: the transactions whose outputs are in its rings
    HeightOf,       \* [Block -> Nat]: index of a block
    ChainTo,        \* [Block -> SUBSET Block]: a block and its ancestors
    TxsOf,          \* [Block -> SUBSET Tx]: the transactions of a block
    MixinHeights,   \* [Tx -> SUBSET Nat]: indexes at which Mixins::validate accepts it
    FitsOn,         \* [Block -> SUBSET Tx]: those not above the maximum size after a block
    LastCheckpoint, \* index of the last checkpoint
    MaxKnown,       \* bound: blocks the node knows
    NoTemplate      \* no block template has been asked for

KeyImages(S) == UNION {KeyImagesOf[t] : t \in S}
Conflict(t, u) == KeyImagesOf[t] \cap KeyImagesOf[u] # {}
ConflictFree(S) == \A t, u \in S : t # u => ~Conflict(t, u)

\* The transactions and the spent key images of the chain that ends with b.
TxsOn(b) == UNION {TxsOf[x] : x \in ChainTo[b]}
SpentOn(b) == KeyImages(TxsOn(b))

\* isInCheckpointZone for a block or a transaction on top of b.
InCheckpointZone(b) == HeightOf[b] + 1 <= LastCheckpoint

\* validateTransaction on top of b, where it is not skipped: the key images are
\* unspent and the outputs exist.
Spendable(t, b) == KeyImagesOf[t] \cap SpentOn(b) = {} /\ Needs[t] \subseteq TxsOn(b)

\* What addBlock has checked of each block: its transactions do not spend a key image
\* twice, and outside of the checkpoint zone all of them are spendable.
ASSUME PoolAssumption ==
    /\ KeyImagesOf \in [Tx -> SUBSET KeyImage]
    /\ Needs \in [Tx -> SUBSET Tx]
    /\ HeightOf \in [Block -> Nat]
    /\ ChainTo \in [Block -> SUBSET Block]
    /\ \A b \in Block : ChainTo[b] = {b} \cup (IF b = Genesis THEN {} ELSE ChainTo[Prev[b]])
    /\ TxsOf \in [Block -> SUBSET Tx]
    /\ MixinHeights \in [Tx -> SUBSET Nat]
    /\ FitsOn \in [Block -> SUBSET Tx]
    /\ LastCheckpoint \in Nat
    /\ \A b \in Block \ {Genesis} :
        /\ ConflictFree(TxsOf[b])
        /\ InCheckpointZone(Prev[b]) \/ \A t \in TxsOf[b] : Spendable(t, Prev[b])

VARIABLES
    pool,            \* the pooled transactions
    recentlyDeleted, \* those that clean has removed and remembers
    template,        \* the block template a miner works on: its predecessor and transactions,
                     \* and, as history, which of these clean has removed since (aged)
    unchecked        \* history: pooled transactions that were let in unchecked, in the
                     \* checkpoint zone

poolVars == <<pool, recentlyDeleted, unchecked>>
nodeVars == <<vars, poolVars, template>>

PoolInit ==
    /\ Init
    /\ pool = {}
    /\ recentlyDeleted = {}
    /\ template = NoTemplate
    /\ unchecked = {}

-----------------------------------------------------------------------------
(* Transactions. *)

\* isTransactionValidForPool when b is the top block.
IsValidForPool(t, b) ==
    /\ HeightOf[b] \in MixinHeights[t]
    /\ InCheckpointZone(b) \/ Spendable(t, b)
    /\ t \in FitsOn[b]

UncheckedIn(S, b) == IF InCheckpointZone(b) THEN S ELSE {}

\* addTransactionToPool and pushTransaction: a refusal changes nothing.
AddTransactionToPool(t) ==
    /\ IsValidForPool(t, tip)
    /\ t \notin pool \cup recentlyDeleted
    /\ ConflictFree(pool \cup {t})
    /\ pool' = pool \cup {t}
    /\ unchecked' = unchecked \cup UncheckedIn({t}, tip)
    /\ UNCHANGED <<vars, recentlyDeleted, template>>

\* clean, for each transaction it removes: TransactionPool says which and when.
CleanPool ==
    /\ \E t \in pool :
        /\ pool' = pool \ {t}
        /\ recentlyDeleted' = recentlyDeleted \cup {t}
        /\ unchecked' = unchecked \ {t}
        /\ template' = IF template = NoTemplate THEN NoTemplate
                       ELSE [template EXCEPT !.aged = @ \cup ({t} \cap template.txs)]
    /\ UNCHANGED vars

\* cleanRecentlyDeletedTransactions.
ForgetDeleted ==
    /\ \E t \in recentlyDeleted : recentlyDeleted' = recentlyDeleted \ {t}
    /\ UNCHANGED <<vars, pool, unchecked, template>>

-----------------------------------------------------------------------------
(* Blocks. *)

LiteByHash(b) == pool \ TxsOf[b]

\* What actualizePoolTransactionsLite leaves when b is added to the main chain.
ActualizePoolTransactionsLite(b) ==
    {t \in pool : KeyImagesOf[t] \cap KeyImages(TxsOf[b]) = {} /\ t \in FitsOn[b]}

\* What actualizePoolTransactions leaves when the main chain now ends with b: each
\* transaction is taken out and added again.
ActualizePoolTransactions(b) == {t \in pool \ recentlyDeleted : IsValidForPool(t, b)}

\* The transactions of the segments that left the main chain when it now ends with b.
Abandoned(b) == UNION {TxsOf[x] : x \in ChainTo[tip] \ ChainTo[b]}

CopyTopBlockOnly(b, kept, copied) ==
    LET valid == {t \in TxsOf[tip] \ (kept \cup recentlyDeleted) : IsValidForPool(t, b)}
    IN  /\ copied \subseteq valid
        /\ ConflictFree(kept \cup copied)
        /\ \A t \in valid \ copied : ~ConflictFree(kept \cup copied \cup {t})

\* copyTransactionsToPool adds them one by one, in an order of its own, to a pool that
\* holds kept: those that are valid and in conflict with none before them get in.
CopyTransactionsToPool(b, kept, copied) ==
    LET valid == {t \in Abandoned(b) \ (kept \cup recentlyDeleted) : IsValidForPool(t, b)}
    IN  /\ copied \subseteq valid
        /\ ConflictFree(kept \cup copied)
        /\ \A t \in valid \ copied : ~ConflictFree(kept \cup copied \cup {t})

AddAlternativeActualizes(b) ==
    /\ ~BecomesTip(b)
    /\ pool' = ActualizePoolTransactionsLite(b)
    /\ unchecked' = unchecked \cap pool'
    /\ UNCHANGED recentlyDeleted

\* addBlock of a block that stays on an alternative chain leaves the pool alone.
AddAlternative(b) ==
    /\ ~BecomesTip(b)
    /\ UNCHANGED poolVars

\* On top of the main chain.
AddOnTop(b) ==
    /\ Prev[b] = tip
    /\ pool' = ActualizePoolTransactionsLite(b)
    /\ unchecked' = unchecked \cap pool'
    /\ UNCHANGED recentlyDeleted

\* On top of an alternative chain that becomes the main one.
AddAndSwitch(b) ==
    /\ BecomesTip(b) /\ Prev[b] # tip
    /\ LET kept == ActualizePoolTransactions(b)
       IN  \E copied \in SUBSET Abandoned(b) :
            /\ CopyTransactionsToPool(b, kept, copied)
            /\ pool' = kept \cup copied
    /\ unchecked' = UncheckedIn(pool', b)
    /\ UNCHANGED recentlyDeleted

AddBlock(b) ==
    /\ Cardinality(known) < MaxKnown
    /\ Add(b)
    /\ AddAlternative(b) \/ AddOnTop(b) \/ AddAndSwitch(b)

\* A block that comes from a peer.
ReceiveBlock(b) == AddBlock(b) /\ UNCHANGED template

\* getBlockTemplate: fillBlockTemplate takes pooled transactions, as many as there is
\* room for, and throws out those it comes to whose mixin the next block may not have.
GetBlockTemplate ==
    \E chosen, invalid \in SUBSET pool :
        /\ \A t \in chosen : HeightOf[tip] + 1 \in MixinHeights[t]
        /\ \A t \in invalid : HeightOf[tip] + 1 \notin MixinHeights[t]
        /\ pool' = pool \ invalid
        /\ unchecked' = unchecked \ invalid
        /\ template' = [prev |-> tip, txs |-> chosen, aged |-> {}]
        /\ UNCHANGED <<vars, recentlyDeleted>>

\* submitBlock of a block that was made from the template.  The block comes without its
\* transactions: submitBlock takes them from the pool, and when one is gone it answers
\* TRANSACTION_ABSENT_IN_POOL and adds nothing.  Either way the miner drops the template.
SubmitBlock ==
    /\ template # NoTemplate
    /\ \/ /\ template.txs \subseteq pool
          /\ \E b \in Block \ {Genesis} :
                Prev[b] = template.prev /\ TxsOf[b] = template.txs /\ AddBlock(b)
       \/ /\ ~(template.txs \subseteq pool)
          /\ UNCHANGED <<vars, poolVars>>
    /\ template' = NoTemplate

PoolNext ==
    \/ \E t \in Tx : AddTransactionToPool(t)
    \/ CleanPool \/ ForgetDeleted
    \/ \E b \in Block \ {Genesis} : ReceiveBlock(b)
    \/ GetBlockTemplate \/ SubmitBlock

PoolSpec == PoolInit /\ [][PoolNext]_nodeVars

-----------------------------------------------------------------------------
\* The pool and the template hold transactions, and none that is remembered as deleted.
PoolTypeOK ==
    /\ TypeOK
    /\ pool \subseteq Tx /\ recentlyDeleted \subseteq Tx /\ unchecked \subseteq pool
    /\ pool \cap recentlyDeleted = {}
    /\ template # NoTemplate =>
        template \in [prev : known, txs : SUBSET Tx, aged : SUBSET Tx]

\* Whatever blocks and reorganisations came after a transaction was let in, it can be
\* mined on top of the main chain: its key images are unspent there and in the rest
\* of the pool, its outputs exist, and it is not too large.  addBlock does not
\* validate the pool again when the chain grows, it only compares key images.  The
\* one exception is a transaction that was let in unchecked in the checkpoint zone.
PoolIsMinable ==
    /\ \A t \in pool \ unchecked : Spendable(t, tip)
    /\ ConflictFree(pool)
    /\ pool \subseteq FitsOn[tip]

\* A template can be submitted as long as the main chain is the one it was made for:
\* submitBlock finds all its transactions in the pool, whatever blocks of other branches
\* and transactions have come in since, except for those that clean has removed.
TemplateStaysSubmittable ==
    template # NoTemplate /\ template.prev = tip => template.txs \subseteq pool \cup template.aged

\* A switch of the main chain loses no transaction that could still be mined: one that
\* was pooled, or in a block that left the main chain, and is valid on the new chain,
\* is pooled afterwards, because what is in the pool never competes with what was in
\* the chain.  The exceptions are one that clean deleted a while ago, and one that
\* conflicts with another of the blocks that left, or with a pooled transaction that
\* was never checked.
SwitchKeepsTransactions ==
    [][tip' # tip /\ tip \notin ChainTo[tip'] =>
        \A t \in (pool \cup Abandoned(tip')) \ recentlyDeleted :
            IsValidForPool(t, tip') =>
                \/ t \in pool'
                \/ \E u \in pool' : Conflict(t, u) /\ u \in Abandoned(tip') \cup unchecked]_nodeVars
=============================================================================
