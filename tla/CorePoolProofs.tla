--------------------------- MODULE CorePoolProofs ---------------------------
(* Proofs about CorePool, for every tree of blocks and every set of transactions. *)
EXTENDS CorePool, BlockTreeProofs

PInv == Inv /\ PoolTypeOK /\ PoolIsMinable /\ TemplateStaysSubmittable

\* A block adds its transactions and their key images to those of its chain.
LEMMA ChainGrows ==
    ASSUME NEW b \in Block \ {Genesis}
    PROVE  /\ TxsOn(b) = TxsOf[b] \cup TxsOn(Prev[b])
           /\ SpentOn(b) = KeyImages(TxsOf[b]) \cup SpentOn(Prev[b])
<1>1. ChainTo[b] = {b} \cup ChainTo[Prev[b]]
  BY PoolAssumption
<1>2. TxsOn(b) = TxsOf[b] \cup TxsOn(Prev[b])
  BY <1>1 DEF TxsOn
<1> QED BY <1>2 DEF SpentOn, KeyImages

\* The tip of a chain is on the chain of every block built on it.
LEMMA PredecessorOnChain ==
    ASSUME NEW b \in Block \ {Genesis}
    PROVE  Prev[b] \in ChainTo[b]
<1>1. Prev[b] \in Block
  BY TreeAssumption
<1> QED BY <1>1, PoolAssumption

\* What a block that left the main chain spends was spent on it.
LEMMA AbandonedIsSpent ==
    ASSUME NEW b, NEW t \in Abandoned(b)
    PROVE  KeyImagesOf[t] \subseteq SpentOn(tip)
BY DEF Abandoned, SpentOn, TxsOn, KeyImages

\* A part of a conflict-free set is conflict-free.
LEMMA ConflictFreeSubset ==
    ASSUME NEW S, NEW R \in SUBSET S, ConflictFree(S)
    PROVE  ConflictFree(R)
BY DEF ConflictFree

\* The pool starts empty.
LEMMA PoolInitInv == PoolInit => PInv
<1> SUFFICES ASSUME PoolInit PROVE PInv
  OBVIOUS
<1>1. Inv
  BY TreeInit DEF PoolInit
<1>2. PoolTypeOK /\ PoolIsMinable /\ TemplateStaysSubmittable
  BY <1>1 DEF PoolInit, Inv, PoolTypeOK, PoolIsMinable, ConflictFree, TemplateStaysSubmittable
<1> QED BY <1>1, <1>2 DEF PInv

\* The tree of blocks is as it was.
LEMMA TreeUnchanged ==
    ASSUME Inv, UNCHANGED vars
    PROVE  Inv'
BY DEF vars, Inv, TypeOK, Rooted, OnlyFreshBranchesAreHeavier, Children

\* A transaction is let in after it was checked, or it is marked as unchecked.
LEMMA AddTransactionInv ==
    ASSUME PInv, NEW t \in Tx, AddTransactionToPool(t)
    PROVE  PInv'
<1>1. Inv' /\ tip' = tip /\ known' = known /\ template' = template
  BY TreeUnchanged DEF AddTransactionToPool, PInv, vars
<1>2. PoolTypeOK'
  BY <1>1 DEF AddTransactionToPool, PInv, PoolTypeOK, TypeOK, UncheckedIn
<1>3. PoolIsMinable'
  <2>1. ASSUME NEW u \in pool' \ unchecked' PROVE Spendable(u, tip)
    BY <2>1 DEF AddTransactionToPool, PInv, PoolIsMinable, IsValidForPool, UncheckedIn
  <2>2. ConflictFree(pool') /\ pool' \subseteq FitsOn[tip]
    BY DEF AddTransactionToPool, PInv, PoolIsMinable, IsValidForPool
  <2> QED BY <1>1, <2>1, <2>2 DEF PoolIsMinable, Spendable, SpentOn, TxsOn, ConflictFree
<1>4. TemplateStaysSubmittable'
  BY <1>1 DEF AddTransactionToPool, PInv, TemplateStaysSubmittable
<1> QED BY <1>1, <1>2, <1>3, <1>4 DEF PInv

\* Taking transactions out keeps the rest as it was.
LEMMA RemoveInv ==
    ASSUME PInv, UNCHANGED vars, pool' \subseteq pool, unchecked' = unchecked \cap pool',
           recentlyDeleted' \subseteq Tx, pool' \cap recentlyDeleted' = {}
    PROVE  /\ Inv' /\ PoolIsMinable'
           /\ (template' # NoTemplate => template' \in [prev : known, txs : SUBSET Tx, aged : SUBSET Tx])
                => PoolTypeOK'
<1>1. Inv' /\ tip' = tip /\ known' = known
  BY TreeUnchanged DEF PInv, vars
<1>2. PoolIsMinable'
  <2>1. ConflictFree(pool')
    BY ConflictFreeSubset DEF PInv, PoolIsMinable
  <2>2. \A t \in pool' \ unchecked' : Spendable(t, tip)
    BY DEF PInv, PoolIsMinable
  <2> QED BY <1>1, <2>1, <2>2 DEF PInv, PoolIsMinable, Spendable, SpentOn, TxsOn, ConflictFree
<1>3. (template' # NoTemplate => template' \in [prev : known, txs : SUBSET Tx, aged : SUBSET Tx])
        => PoolTypeOK'
  BY <1>1 DEF PInv, PoolTypeOK, TypeOK
<1> QED BY <1>1, <1>2, <1>3

\* clean and cleanRecentlyDeletedTransactions.
LEMMA CleanInv ==
    ASSUME PInv, CleanPool \/ ForgetDeleted
    PROVE  PInv'
<1>1. CASE CleanPool
  <2>1. PICK t \in pool :
          /\ pool' = pool \ {t} /\ recentlyDeleted' = recentlyDeleted \cup {t}
          /\ unchecked' = unchecked \ {t} /\ UNCHANGED vars
          /\ template' = IF template = NoTemplate THEN NoTemplate
                         ELSE [template EXCEPT !.aged = @ \cup ({t} \cap template.txs)]
    BY <1>1 DEF CleanPool
  <2>2. template' # NoTemplate =>
          /\ template # NoTemplate
          /\ template' \in [prev : known, txs : SUBSET Tx, aged : SUBSET Tx]
          /\ template'.prev = template.prev /\ template'.txs = template.txs
          /\ template'.aged = template.aged \cup ({t} \cap template.txs)
    BY <2>1 DEF PInv, PoolTypeOK
  <2>3. Inv' /\ PoolIsMinable' /\ PoolTypeOK'
    BY <2>1, <2>2, RemoveInv DEF PInv, PoolTypeOK
  <2>4. TemplateStaysSubmittable'
    BY <2>1, <2>2 DEF PInv, TemplateStaysSubmittable, vars
  <2> QED BY <2>3, <2>4 DEF PInv
<1>2. CASE ForgetDeleted
  <2>1. Inv' /\ PoolIsMinable' /\ PoolTypeOK'
    BY <1>2, RemoveInv DEF ForgetDeleted, PInv, PoolTypeOK
  <2>2. TemplateStaysSubmittable'
    BY <1>2 DEF ForgetDeleted, PInv, TemplateStaysSubmittable, vars
  <2> QED BY <2>1, <2>2 DEF PInv
<1> QED BY <1>1, <1>2

\* The template is made of the pool, and what is thrown out with it is not in it.
LEMMA TemplateInv ==
    ASSUME PInv, GetBlockTemplate
    PROVE  PInv'
<1>1. PICK chosen \in SUBSET pool, invalid \in SUBSET pool :
        /\ chosen \cap invalid = {}
        /\ pool' = pool \ invalid /\ unchecked' = unchecked \ invalid
        /\ template' = [prev |-> tip, txs |-> chosen, aged |-> {}]
        /\ UNCHANGED <<vars, recentlyDeleted>>
  BY DEF GetBlockTemplate
<1>2. template' \in [prev : known, txs : SUBSET Tx, aged : SUBSET Tx]
  BY <1>1 DEF PInv, PoolTypeOK, TypeOK
<1>3. Inv' /\ PoolIsMinable' /\ PoolTypeOK'
  BY <1>1, <1>2, RemoveInv DEF PInv, PoolTypeOK
<1>4. TemplateStaysSubmittable'
  BY <1>1 DEF TemplateStaysSubmittable
<1> QED BY <1>3, <1>4 DEF PInv

\* addBlock: on an alternative chain, on top of the main chain, and with a switch.  A
\* template that is kept is for another tip, unless the block changes nothing for the pool.
LEMMA AddBlockInv ==
    ASSUME PInv, NEW b \in Block \ {Genesis}, AddBlock(b), template' \in {template, NoTemplate}
    PROVE  PInv'
<1>1. /\ Add(b) /\ b \notin known /\ known \subseteq known'
      /\ tip' = IF BecomesTip(b) THEN b ELSE tip
  BY DEF AddBlock, Add
<1>2. Inv'
  BY <1>1, TreeStep DEF PInv
<1>3. TemplateStaysSubmittable'
  <2>1. template # NoTemplate => template.prev # b
    BY <1>1 DEF PInv, PoolTypeOK
  <2>2. CASE BecomesTip(b)
    BY <1>1, <2>1, <2>2 DEF TemplateStaysSubmittable
  <2>3. CASE ~BecomesTip(b)
    <3>1. tip' = tip /\ pool' = pool
      BY <1>1, <2>3 DEF AddBlock, AddAlternative, AddOnTop, AddAndSwitch, BecomesTip, poolVars
    <3> QED BY <3>1 DEF PInv, TemplateStaysSubmittable
  <2> QED BY <2>2, <2>3
<1>7. template' # NoTemplate => template' \in [prev : known', txs : SUBSET Tx, aged : SUBSET Tx]
  BY <1>1 DEF PInv, PoolTypeOK
<1>4. CASE AddAlternative(b)
  <2>1. tip' = tip /\ UNCHANGED poolVars
    BY <1>1, <1>4 DEF AddAlternative
  <2>2. PoolTypeOK' /\ PoolIsMinable'
    BY <1>2, <1>7, <2>1 DEF PInv, Inv, PoolTypeOK, PoolIsMinable, poolVars
  <2> QED BY <1>2, <1>3, <2>2 DEF PInv
<1>5. CASE AddOnTop(b)
  <2>1. /\ tip' = b /\ Prev[b] = tip
        /\ pool' = ActualizePoolTransactionsLite(b)
        /\ unchecked' = unchecked \cap pool' /\ recentlyDeleted' = recentlyDeleted
    BY <1>1, <1>5 DEF AddOnTop, BecomesTip
  <2>2. pool' \subseteq pool /\ pool' \subseteq FitsOn[b]
    BY <2>1 DEF ActualizePoolTransactionsLite
  <2>3. ASSUME NEW t \in pool' \ unchecked' PROVE Spendable(t, b)
    <3>1. Spendable(t, tip)
      BY <2>1, <2>2 DEF PInv, PoolIsMinable
    <3>2. KeyImagesOf[t] \cap KeyImages(TxsOf[b]) = {}
      BY <2>1 DEF ActualizePoolTransactionsLite
    <3> QED BY <2>1, <3>1, <3>2, ChainGrows DEF Spendable
  <2>4. ConflictFree(pool')
    BY <2>2, ConflictFreeSubset DEF PInv, PoolIsMinable
  <2>5. PoolIsMinable'
    BY <2>1, <2>2, <2>3, <2>4 DEF PoolIsMinable, Spendable, SpentOn, TxsOn, ConflictFree
  <2>6. PoolTypeOK'
    BY <1>2, <1>7, <2>1, <2>2 DEF PInv, Inv, PoolTypeOK
  <2> QED BY <1>2, <1>3, <2>5, <2>6 DEF PInv
<1>6. CASE AddAndSwitch(b)
  <2> DEFINE kept == ActualizePoolTransactions(b)
  <2>1. PICK copied \in SUBSET Abandoned(b) :
          CopyTransactionsToPool(b, kept, copied) /\ pool' = kept \cup copied
    BY <1>6 DEF AddAndSwitch
  <2>2. /\ tip' = b /\ unchecked' = UncheckedIn(pool', b) /\ recentlyDeleted' = recentlyDeleted
    BY <1>1, <1>6 DEF AddAndSwitch
  <2>3. /\ ConflictFree(pool')
        /\ \A t \in pool' : t \notin recentlyDeleted /\ IsValidForPool(t, b)
    BY <2>1 DEF CopyTransactionsToPool, ActualizePoolTransactions
  <2>4. pool' \subseteq Tx
    <3>1. kept \subseteq Tx
      BY DEF ActualizePoolTransactions, PInv, PoolTypeOK
    <3>2. Abandoned(b) \subseteq Tx
      <4>1. tip \in Block
        BY DEF PInv, PoolTypeOK, TypeOK
      <4> QED BY <4>1, PoolAssumption DEF Abandoned
    <3> QED BY <2>1, <3>1, <3>2
  <2>5. PoolIsMinable'
    BY <2>2, <2>3 DEF PoolIsMinable, IsValidForPool, UncheckedIn, Spendable, SpentOn, TxsOn, ConflictFree
  <2>6. PoolTypeOK'
    BY <1>2, <1>7, <2>2, <2>3, <2>4 DEF PInv, Inv, PoolTypeOK, UncheckedIn
  <2> QED BY <1>2, <1>3, <2>5, <2>6 DEF PInv
<1> QED BY <1>4, <1>5, <1>6 DEF AddBlock

\* Every step is one of these.
LEMMA PoolStep ==
    ASSUME PInv, [PoolNext]_nodeVars
    PROVE  PInv'
<1>1. CASE UNCHANGED nodeVars
  <2>1. Inv' /\ PoolIsMinable' /\ PoolTypeOK'
    BY <1>1, RemoveInv DEF nodeVars, poolVars, PInv, PoolTypeOK
  <2>2. TemplateStaysSubmittable'
    BY <1>1 DEF nodeVars, poolVars, vars, PInv, TemplateStaysSubmittable
  <2> QED BY <2>1, <2>2 DEF PInv
<1>2. CASE \E t \in Tx : AddTransactionToPool(t)
  BY <1>2, AddTransactionInv
<1>3. CASE CleanPool \/ ForgetDeleted
  BY <1>3, CleanInv
<1>4. CASE \E b \in Block \ {Genesis} : ReceiveBlock(b)
  BY <1>4, AddBlockInv DEF ReceiveBlock
<1>5. CASE SubmitBlock
  <2>1. template' = NoTemplate
    BY <1>5 DEF SubmitBlock
  <2>2. CASE \E b \in Block \ {Genesis} : AddBlock(b)
    BY <2>1, <2>2, AddBlockInv
  <2>3. CASE UNCHANGED <<vars, poolVars>>
    <3>1. Inv' /\ PoolIsMinable' /\ PoolTypeOK'
      BY <2>1, <2>3, RemoveInv DEF poolVars, PInv, PoolTypeOK
    <3>2. TemplateStaysSubmittable'
      BY <2>1 DEF TemplateStaysSubmittable
    <3> QED BY <3>1, <3>2 DEF PInv
  <2> QED BY <1>5, <2>2, <2>3 DEF SubmitBlock
<1>6. CASE GetBlockTemplate
  BY <1>6, TemplateInv
<1> QED BY <1>1, <1>2, <1>3, <1>4, <1>5, <1>6 DEF PoolNext

\* The invariant holds throughout.
LEMMA PoolInvariant == PoolSpec => []PInv
BY PoolInitInv, PoolStep, PTL DEF PoolSpec

\* No block and no switch leaves a pooled transaction that could not be mined on top of
\* the main chain, though addBlock compares key images only.
THEOREM PoolStaysMinable == PoolSpec => []PoolIsMinable
<1>1. PInv => PoolIsMinable
  BY DEF PInv
<1> QED BY <1>1, PoolInvariant, PTL

\* Until the main chain moves on, submitBlock misses no transaction of a template but
\* those that clean has removed, whatever blocks and transactions come in.
THEOREM TemplatesStaySubmittable == PoolSpec => []TemplateStaysSubmittable
<1>1. PInv => TemplateStaysSubmittable
  BY DEF PInv
<1> QED BY <1>1, PoolInvariant, PTL

\* actualizePoolTransactions and copyTransactionsToPool lose nothing that is valid on
\* the new chain: a pooled transaction and one of the old chain never compete.
THEOREM SwitchLosesNothing == PoolSpec => SwitchKeepsTransactions
<1> DEFINE Kept ==
        tip' # tip /\ tip \notin ChainTo[tip'] =>
        \A t \in (pool \cup Abandoned(tip')) \ recentlyDeleted :
            IsValidForPool(t, tip') =>
                \/ t \in pool'
                \/ \E u \in pool' : Conflict(t, u) /\ u \in Abandoned(tip') \cup unchecked
<1>1. ASSUME PInv, NEW b \in Block \ {Genesis}, AddBlock(b) PROVE Kept
  <2> SUFFICES ASSUME tip' # tip, tip \notin ChainTo[tip'],
                      NEW t \in (pool \cup Abandoned(tip')) \ recentlyDeleted,
                      IsValidForPool(t, tip'), t \notin pool'
               PROVE  \E u \in pool' : Conflict(t, u) /\ u \in Abandoned(tip') \cup unchecked
    OBVIOUS
  <2>1. tip' = b /\ BecomesTip(b)
    BY <1>1 DEF AddBlock, Add
  <2>2. Prev[b] # tip
    BY <2>1, PredecessorOnChain
  <2>3. AddAndSwitch(b)
    BY <1>1, <2>1, <2>2 DEF AddBlock, AddAlternative, AddOnTop
  <2> DEFINE kept == ActualizePoolTransactions(b)
  <2>4. PICK copied \in SUBSET Abandoned(b) :
          CopyTransactionsToPool(b, kept, copied) /\ pool' = kept \cup copied
    BY <2>3 DEF AddAndSwitch
  <2>5. t \notin pool /\ t \in Abandoned(b) /\ t \notin kept /\ t \notin copied
    BY <2>1, <2>4 DEF ActualizePoolTransactions
  <2>6. ConflictFree(kept \cup copied) /\ ~ConflictFree(kept \cup copied \cup {t})
    BY <2>1, <2>4, <2>5 DEF CopyTransactionsToPool
  <2>7. PICK u \in kept \cup copied : Conflict(t, u)
    BY <2>6 DEF ConflictFree, Conflict
  <2>8. ASSUME u \in kept, u \notin unchecked PROVE FALSE
    <3>1. u \in pool
      BY <2>8 DEF ActualizePoolTransactions
    <3>2. KeyImagesOf[u] \cap SpentOn(tip) = {}
      BY <1>1, <2>8, <3>1 DEF PInv, PoolIsMinable, Spendable
    <3> QED BY <2>5, <2>7, <3>2, AbandonedIsSpent DEF Conflict
  <2> QED BY <2>1, <2>4, <2>7, <2>8
<1>2. ASSUME PInv, [PoolNext]_nodeVars PROVE [Kept]_nodeVars
  <2>1. CASE tip' = tip
    BY <2>1
  <2>2. CASE tip' # tip
    <3>1. \E b \in Block \ {Genesis} : AddBlock(b)
      BY <1>2, <2>2 DEF PoolNext, ReceiveBlock, SubmitBlock, AddTransactionToPool, CleanPool, ForgetDeleted,
                        GetBlockTemplate, vars, nodeVars
    <3> QED BY <1>1, <1>2, <3>1
  <2> QED BY <2>1, <2>2
<1> QED BY <1>2, PoolInvariant, PTL DEF PoolSpec, SwitchKeepsTransactions
=============================================================================
