--------------------------- MODULE TransactionPool ---------------------------
(***************************************************************************)
(* The memory pool of a node: CryptoNoteCore/TransactionPool.cpp (the pool *)
(* itself), TransactionValidatiorState.cpp (the key images it reserves)    *)
(* and TransactionPoolCleaner.cpp (the wrapper that ages transactions out  *)
(* and keeps them out for a while).                                        *)
(*                                                                         *)
(* A transaction is a model value; all that the pool looks at is the set   *)
(* of key images its inputs spend, and whether its mixin is acceptable at  *)
(* a chain height.  time_t values are naturals; the subtraction of two     *)
(* uint64_t times wraps at Word.                                           *)
(***************************************************************************)
EXTENDS Integers, FiniteSets

CONSTANTS
    Tx,             \* the transactions that may reach this node
    KeyImage,       \* key images
    KeyImagesOf,    \* [Tx -> non-empty subsets of KeyImage]: a transaction's inputs
    MixinHeights,   \* [Tx -> SUBSET Nat]: heights where Mixins::validate accepts it
    Height,         \* chain heights the pool sees
    Timeout,        \* CRYPTONOTE_MEMPOOL_TX_LIVETIME
    Word,           \* 2^64 in the code
    Time            \* the clock readings that may be seen: an interval of naturals

ASSUME KeyImagesAssumption ==
    KeyImagesOf \in [Tx -> (SUBSET KeyImage) \ {{}}]

ASSUME MixinAssumption == MixinHeights \in [Tx -> SUBSET Height]

\* The clock is the Unix time, so it is past the live time of a transaction.
ASSUME TimeAssumption ==
    /\ Timeout \in Nat \ {0}
    /\ Word \in Nat
    /\ Time \subseteq Nat
    /\ \A t \in Time : Timeout <= t /\ t < Word

VARIABLES
    receiveTime,     \* transactionHashIndex: pooled transaction -> time received
    poolState,       \* key images spent by the pooled transactions
    recentlyDeleted, \* recentlyDeletedTransactions: transaction -> time deleted
    now,             \* time(nullptr)
    height,          \* index of the top block, the argument of clean
    cleaning,        \* is transactionPoolCleaningProcedure still running?
    absentLookup,    \* history: did getTransaction run on a hash not in the index?
    deletedAt        \* history: when clean last deleted a transaction, 0 if never

history == <<absentLookup, deletedAt>>
vars == <<receiveTime, poolState, recentlyDeleted, now, height, cleaning, history>>

pool == DOMAIN receiveTime

KeyImages(S) == UNION {KeyImagesOf[t] : t \in S}

\* A mutant of Age: the times are subtracted as signed numbers.
AgeSigned(t) == now - t

\* currentTime - t over uint64_t: it wraps when the clock was set back.
Age(t) == (now - t) % Word

TypeOK ==
    /\ pool \subseteq Tx
    /\ receiveTime \in [pool -> Time]
    /\ poolState \subseteq KeyImage
    /\ DOMAIN recentlyDeleted \subseteq Tx
    /\ recentlyDeleted \in [DOMAIN recentlyDeleted -> Time]
    /\ now \in Time
    /\ height \in Height
    /\ cleaning \in BOOLEAN
    /\ absentLookup \in BOOLEAN
    /\ deletedAt \in [Tx -> Time \cup {0}]

Init ==
    /\ receiveTime = [t \in {} |-> 0]
    /\ poolState = {}
    /\ recentlyDeleted = [t \in {} |-> 0]
    /\ now \in Time
    /\ height \in Height
    /\ cleaning = TRUE
    /\ absentLookup = FALSE
    /\ deletedAt = [t \in Tx |-> 0]

-----------------------------------------------------------------------------
(* Mutants of the definitions below: each is a bug the code could have. *)

\* The deletion time is compared as an age: a fresh deletion is not seen.
IsTransactionRecentlyDeletedByAge(t) ==
    t \in DOMAIN recentlyDeleted /\ Age(recentlyDeleted[t]) >= Timeout

\* removeTransaction forgets excludeFromState.
ExcludeKeepsState(S) ==
    /\ receiveTime' = [u \in pool \ S |-> receiveTime[u]]
    /\ poolState' = poolState

\* A transaction that is exactly as old as its live time is kept.
OutdatedLate == {t \in pool : Age(receiveTime[t]) > Timeout}

\* Deleted transactions are forgotten one second early.
CleanRecentlyDeletedEarly(deleted) ==
    [t \in {u \in DOMAIN deleted : Age(deleted[u]) + 1 < Timeout} |-> deleted[t]]

-----------------------------------------------------------------------------

\* isTransactionRecentlyDeleted: the stored time itself is compared with timeout.
IsTransactionRecentlyDeleted(t) ==
    t \in DOMAIN recentlyDeleted /\ recentlyDeleted[t] >= Timeout

HasIntersections(t) == KeyImagesOf[t] \cap poolState # {}

\* TransactionPoolCleanWrapper::pushTransaction and the pool's own: a refused
\* push changes nothing.
PushTransaction(t) ==
    /\ ~IsTransactionRecentlyDeleted(t)
    /\ t \notin pool
    /\ ~HasIntersections(t)
    /\ receiveTime' = [u \in pool \cup {t} |-> IF u = t THEN now ELSE receiveTime[u]]
    /\ poolState' = poolState \cup KeyImagesOf[t]
    /\ UNCHANGED <<recentlyDeleted, now, height, cleaning, history>>

\* The pool without the transactions of S: removeTransaction on each of them.
Exclude(S) ==
    /\ receiveTime' = [u \in pool \ S |-> receiveTime[u]]
    /\ poolState' = poolState \ KeyImages(S)

\* For a transaction that a new block, or a block template, has no place for.
RemoveTransaction(t) ==
    /\ t \in pool
    /\ Exclude({t})
    /\ UNCHANGED <<recentlyDeleted, now, height, cleaning, history>>

\* A switch of the main chain, one call: actualizePoolTransactions takes every pooled
\* transaction out and pushes it again, copyTransactionsToPool pushes those of the
\* blocks that left the chain, and what is pushed is received now.  Which of them the
\* new chain accepts is in CorePool.
SwitchMainChain ==
    /\ \E pushed \in SUBSET Tx :
        LET left == poolState \ KeyImages(pool)
        IN  /\ \A t \in pushed : ~IsTransactionRecentlyDeleted(t) /\ KeyImagesOf[t] \cap left = {}
            /\ \A t, u \in pushed : t # u => KeyImagesOf[t] \cap KeyImagesOf[u] = {}
            /\ receiveTime' = [t \in pushed |-> now]
            /\ poolState' = left \cup KeyImages(pushed)
    /\ height' \in Height
    /\ UNCHANGED <<recentlyDeleted, now, cleaning, history>>

Outdated == {t \in pool : Age(receiveTime[t]) >= Timeout}
MixinInvalid == {t \in pool : height \notin MixinHeights[t]}
Cleaned == Outdated \cup MixinInvalid

\* emplace keeps the older entry of a transaction that has one already.
WithDeleted(S) ==
    [t \in DOMAIN recentlyDeleted \cup S |->
        IF t \in DOMAIN recentlyDeleted THEN recentlyDeleted[t] ELSE now]

CleanRecentlyDeletedTransactions(deleted) ==
    [t \in {u \in DOMAIN deleted : Age(deleted[u]) < Timeout} |-> deleted[t]]

\* After clean has removed an outdated transaction it goes on to getTransaction(hash)
\* for that same hash, which dereferences end(): undefined.  It may go well, and
\* clean runs to its end.
Clean ==
    /\ cleaning
    /\ Exclude(Cleaned)
    /\ recentlyDeleted' = CleanRecentlyDeletedTransactions(WithDeleted(Cleaned))
    /\ absentLookup' = (absentLookup \/ Outdated # {})
    /\ deletedAt' = [t \in Tx |-> IF t \in Cleaned THEN now ELSE deletedAt[t]]
    /\ UNCHANGED <<now, height, cleaning>>

\* Or copying what is there throws: clean has dealt with some transactions only,
\* and transactionPoolCleaningProcedure logs the exception and returns for good.
CleanThrows ==
    /\ cleaning
    /\ \E S \in SUBSET Cleaned :
        /\ S \cap Outdated # {}
        /\ Exclude(S)
        /\ recentlyDeleted' = WithDeleted(S)
        /\ deletedAt' = [t \in Tx |-> IF t \in S THEN now ELSE deletedAt[t]]
    /\ cleaning' = FALSE
    /\ absentLookup' = TRUE
    /\ UNCHANGED <<now, height>>

\* Or it ends the process, and the pool with it: the next process starts with an
\* empty pool.
CleanAborts ==
    /\ cleaning
    /\ Outdated # {}
    /\ receiveTime' = [t \in {} |-> 0]
    /\ poolState' = {}
    /\ recentlyDeleted' = [t \in {} |-> 0]
    /\ absentLookup' = TRUE
    /\ deletedAt' = [t \in Tx |-> 0]
    /\ UNCHANGED <<now, height, cleaning>>

\* The environment: seconds pass, the chain grows, the clock is set.
Tick ==
    /\ now + 1 \in Time
    /\ now' = now + 1
    /\ UNCHANGED <<receiveTime, poolState, recentlyDeleted, height, cleaning, history>>

ChainMoves ==
    /\ height' \in Height
    /\ UNCHANGED <<receiveTime, poolState, recentlyDeleted, now, cleaning, history>>

SetClockBack ==
    /\ now' \in {t \in Time : t < now}
    /\ UNCHANGED <<receiveTime, poolState, recentlyDeleted, height, cleaning, history>>

Next ==
    \/ \E t \in Tx : PushTransaction(t) \/ RemoveTransaction(t)
    \/ SwitchMainChain
    \/ Clean \/ CleanThrows \/ CleanAborts
    \/ Tick
    \/ ChainMoves

Spec == Init /\ [][Next]_vars

\* The clock may also be set back by the operating system.
ClockSpec == Init /\ [][Next \/ SetClockBack]_vars

\* transactionPoolCleaningProcedure calls clean every 60 seconds until it throws,
\* and time passes.
FairSpec == Spec /\ WF_vars(Tick) /\ WF_vars(Clean)

-----------------------------------------------------------------------------

\* The key images the pool reserves are exactly those its transactions spend, and
\* no two pooled transactions spend the same one.  pushTransaction tests a new
\* transaction against poolState alone, and removeTransaction erases key images
\* from it, so a stale or shared entry would block or admit a double spend.
PoolStateExact ==
    /\ poolState = KeyImages(pool)
    /\ \A t, u \in pool : t # u => KeyImagesOf[t] \cap KeyImagesOf[u] = {}

\* A transaction that clean deleted is not in the pool while it is remembered as
\* deleted, whatever happens to the clock.
DeletedStaysOut == pool \cap DOMAIN recentlyDeleted = {}

\* While the clock runs forward, a transaction that clean deleted is not accepted
\* again until a live time has passed since: recentlyDeletedTransactions forgets
\* nothing early, and pushTransaction asks it.
NoEarlyReturn ==
    \A t \in pool : deletedAt[t] = 0 \/ receiveTime[t] >= deletedAt[t] + Timeout

\* What a cleaning that runs to its end leaves in the pool came in less than a live time
\* ago, and what it remembers as deleted was deleted less than a live time ago, also when
\* the clock was set back before: the difference of uint64_t times wraps, so a time
\* that lies in the future counts as long past, and nothing has to wait for it to come.
CleanLeavesOnlyLive ==
    [][Clean =>
        /\ \A t \in pool' : receiveTime'[t] \in now - Timeout + 1 .. now
        /\ \A t \in DOMAIN recentlyDeleted' : recentlyDeleted'[t] \in now - Timeout + 1 .. now]_vars

\* getTransaction is only called for a transaction that is in the pool: its own
\* assertion (TransactionPool.cpp:93).
LookupsArePresent == ~absentLookup

\* No stay in the pool outlasts the live time: a transaction received at r is, once the
\* clock has run a live time beyond r, out of the pool, or a switch of the main chain has
\* pushed it again and so begun another stay, unless the cleaning procedure has ended
\* with an exception by then.
OutdatedLeaves ==
    \A t \in Tx, r \in Time :
        (t \in pool /\ receiveTime[t] = r /\ r + Timeout \in Time) ~>
            (t \notin pool \/ receiveTime[t] # r \/ ~cleaning)
=============================================================================
