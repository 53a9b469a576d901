---------------------------- MODULE BlockTemplate ----------------------------
(***************************************************************************)
(* Core::fillBlockTemplate: which pooled transactions a block template     *)
(* takes.  Fusion transactions, which pay no fee, come first, from the     *)
(* cheap end of the pool and up to a size of their own; then all           *)
(* transactions are tried from the dear end, fusion transactions again.    *)
(*                                                                         *)
(* A pooled transaction is a record of what the function looks at.  The    *)
(* pool never holds two that share a key image (PoolStateExact), so its    *)
(* identity stands for its key images.                                     *)
(***************************************************************************)
EXTENDS Integers, SequencesExt

CONSTANTS
    Pools,           \* the sets of transactions that may be pooled
    Medians,         \* medianSize: half the cumulative size limit
    MaxCumulative,   \* maxBlockCumulativeSize at the height of the block
    Reserved,        \* minerTxBlobReservedSize; it is below every limit, so the unsigned
                     \* subtraction does not wrap
    FusionTxMaxSize  \* fusionTxMaxSize

VARIABLES
    pool,        \* the pooled transactions: records with id, fee, size, receiveTime and
                 \* mayBeMined (validateBlockTemplateTransaction)
    medianSize,
    block        \* what was filled in: hashes, size, fee; NotFilled before

vars == <<pool, medianSize, block>>
NotFilled == [hashes |-> <<>>, size |-> -1, fee |-> 0, spent |-> {}, removed |-> {}]
Empty == [NotFilled EXCEPT !.size = 0]

\* TransactionPriorityComparator: fee per byte, then the smaller, then the older.
Prefer(t, u) ==
    LET price == t.fee * u.size - u.fee * t.size
    IN  \/ price > 0
        \/ price = 0 /\ t.size < u.size
        \/ price = 0 /\ t.size = u.size /\ t.receiveTime < u.receiveTime

PoolTransactions == SetToSortSeq(pool, Prefer)

MaxTotalSize == Min({(125 * medianSize) \div 100, MaxCumulative}) - Reserved

\* TransactionSpentInputsChecker::haveSpentInputs.
HaveSpentInputs(b, t) == t.id \in b.spent

TryStrictly(b, t, limit) ==
    IF b.size + t.size >= limit THEN b
    ELSE IF ~t.mayBeMined THEN [b EXCEPT !.removed = @ \cup {t}]
    ELSE IF HaveSpentInputs(b, t) THEN b
    ELSE [b EXCEPT !.hashes = Append(@, t), !.size = @ + t.size, !.fee = @ + t.fee,
                   !.spent = @ \cup {t.id}]

\* One round of either loop: a transaction that does not fit is skipped before it is
\* validated; one that may no longer be mined is removed from the pool.
Try(b, t, limit) ==
    IF b.size + t.size > limit THEN b
    ELSE IF ~t.mayBeMined THEN [b EXCEPT !.removed = @ \cup {t}]
    ELSE IF HaveSpentInputs(b, t) THEN b
    ELSE [b EXCEPT !.hashes = Append(@, t), !.size = @ + t.size, !.fee = @ + t.fee,
                   !.spent = @ \cup {t.id}]

\* The loop over the fusion transactions ends at the first that pays a fee.
FusionTransactions ==
    LET cheapFirst == Reverse(PoolTransactions)
        paying == SelectInSeq(cheapFirst, LAMBDA t : t.fee # 0)
    IN  IF paying = 0 THEN cheapFirst ELSE SubSeq(cheapFirst, 1, paying - 1)

SizeLimit(t) == IF t.fee = 0 THEN medianSize ELSE MaxTotalSize

FillBlockTemplate ==
    /\ block = NotFilled
    /\ LET fusion == FoldLeft(LAMBDA b, t : Try(b, t, FusionTxMaxSize), Empty, FusionTransactions)
       IN  block' = FoldLeft(LAMBDA b, t : Try(b, t, SizeLimit(t)), fusion, PoolTransactions)
    /\ pool' = pool \ block'.removed
    /\ UNCHANGED medianSize

Init ==
    /\ pool \in Pools
    /\ medianSize \in Medians
    /\ block = NotFilled

Next == FillBlockTemplate

Spec == Init /\ [][Next]_vars

-----------------------------------------------------------------------------
Taken == ToSet(block.hashes)

\* A fusion transaction is tried in both loops, and the spent inputs are what keeps it
\* from being taken twice: the hashes are distinct, and size and fee are their sums.
TemplateIsExact ==
    block # NotFilled =>
        /\ IsInjective(block.hashes)
        /\ block.size = MapThenSumSet(LAMBDA t : t.size, Taken)
        /\ block.fee = MapThenSumSet(LAMBDA t : t.fee, Taken)

\* The transactions never take more than the largest of the limits, and those without
\* a fee alone never more than the median.
TemplateFits ==
    block # NotFilled =>
        /\ block.size <= Max({medianSize, MaxTotalSize, FusionTxMaxSize})
        /\ MapThenSumSet(LAMBDA t : t.size, {t \in Taken : t.fee = 0}) <= Max({medianSize, FusionTxMaxSize})

\* What is left in the pool and out of the template has no room in it, though each
\* loop looks at each transaction once and some space is taken afterwards.
TemplateIsMaximal ==
    block # NotFilled => \A t \in pool \ Taken : block.size + t.size > SizeLimit(t)
=============================================================================
