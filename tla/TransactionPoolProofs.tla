------------------------ MODULE TransactionPoolProofs ------------------------
(***************************************************************************)
(* What TransactionPool promises, proved for every set of transactions,    *)
(* live time and clock.                                                    *)
(***************************************************************************)
EXTENDS TransactionPool, TLAPS

\* One step of the pool, with the clock free to be set back.
ClockNext == Next \/ SetClockBack

\* What a transaction spends is a non-empty set of key images.
LEMMA KeyImagesType ==
    ASSUME NEW t \in Tx
    PROVE  KeyImagesOf[t] \subseteq KeyImage
BY KeyImagesAssumption

\* The types of the pool are kept by every step, the setting of the clock included.
LEMMA TypeStep == TypeOK /\ [ClockNext]_vars => TypeOK'
<1> SUFFICES ASSUME TypeOK, [ClockNext]_vars PROVE TypeOK'
  OBVIOUS
<1> USE TimeAssumption, KeyImagesType DEF TypeOK, pool, history
<1>1. ASSUME NEW t \in Tx, PushTransaction(t) PROVE TypeOK'
  BY <1>1 DEF PushTransaction
<1>2. ASSUME NEW t \in Tx, RemoveTransaction(t) PROVE TypeOK'
  BY <1>2 DEF RemoveTransaction, Exclude
<1>3. CASE Clean
  <2>1. Cleaned \subseteq Tx
    BY DEF Cleaned, Outdated, MixinInvalid
  <2>2. /\ DOMAIN recentlyDeleted' \subseteq Tx
        /\ recentlyDeleted' \in [DOMAIN recentlyDeleted' -> Time]
    BY <1>3, <2>1 DEF Clean, WithDeleted, CleanRecentlyDeletedTransactions
  <2>3. deletedAt' \in [Tx -> Time \cup {0}]
    BY <1>3 DEF Clean
  <2>4. absentLookup' \in BOOLEAN /\ cleaning' \in BOOLEAN
    BY <1>3 DEF Clean
  <2>5. /\ DOMAIN receiveTime' \subseteq Tx
        /\ receiveTime' \in [DOMAIN receiveTime' -> Time]
        /\ poolState' \subseteq KeyImage
        /\ now' \in Time /\ height' \in Height
    BY <1>3 DEF Clean, Exclude
  <2> QED BY <2>2, <2>3, <2>4, <2>5
<1>9. CASE CleanThrows
  <2>1. PICK S \in SUBSET Cleaned :
          /\ Exclude(S)
          /\ recentlyDeleted' = WithDeleted(S)
          /\ deletedAt' = [t \in Tx |-> IF t \in S THEN now ELSE deletedAt[t]]
    BY <1>9 DEF CleanThrows
  <2>2. S \subseteq Tx
    BY DEF Cleaned, Outdated, MixinInvalid
  <2>3. /\ DOMAIN recentlyDeleted' \subseteq Tx
        /\ recentlyDeleted' \in [DOMAIN recentlyDeleted' -> Time]
    BY <2>1, <2>2 DEF WithDeleted
  <2>4. deletedAt' \in [Tx -> Time \cup {0}]
    BY <2>1
  <2>5. absentLookup' \in BOOLEAN /\ cleaning' \in BOOLEAN
    BY <1>9 DEF CleanThrows
  <2>6. /\ DOMAIN receiveTime' \subseteq Tx
        /\ receiveTime' \in [DOMAIN receiveTime' -> Time]
        /\ poolState' \subseteq KeyImage
        /\ now' \in Time /\ height' \in Height
    BY <1>9, <2>1 DEF CleanThrows, Exclude
  <2> QED BY <2>3, <2>4, <2>5, <2>6
<1>4. CASE CleanAborts
  BY <1>4 DEF CleanAborts
<1>5. CASE Tick
  BY <1>5 DEF Tick
<1>6. CASE ChainMoves
  BY <1>6 DEF ChainMoves
<1>7. CASE SetClockBack
  BY <1>7 DEF SetClockBack
<1>8. CASE UNCHANGED vars
  BY <1>8 DEF vars
<1>10. CASE SwitchMainChain
  <2>1. PICK pushed \in SUBSET Tx :
          /\ receiveTime' = [t \in pushed |-> now]
          /\ poolState' = (poolState \ KeyImages(pool)) \cup KeyImages(pushed)
    BY <1>10 DEF SwitchMainChain
  <2>2. KeyImages(pushed) \subseteq KeyImage
    BY DEF KeyImages
  <2>3. height' \in Height /\ UNCHANGED <<recentlyDeleted, now, cleaning, history>>
    BY <1>10 DEF SwitchMainChain
  <2> QED BY <2>1, <2>2, <2>3
<1> QED BY <1>1, <1>2, <1>3, <1>4, <1>5, <1>6, <1>7, <1>8, <1>9, <1>10 DEF ClockNext, Next

\* The pool's variables always have their types, even when the clock is set back.
THEOREM PoolTypeCorrect == ClockSpec => []TypeOK
<1>1. Init => TypeOK
  BY DEF Init, TypeOK, pool
<1>2. TypeOK /\ [Next \/ SetClockBack]_vars => TypeOK'
  BY TypeStep DEF ClockNext
<1> QED BY <1>1, <1>2, PTL DEF ClockSpec

\* Removing transactions from a pool whose key images are exactly reserved leaves
\* one whose key images are exactly reserved: no key image removed is shared.
LEMMA ExcludeExact ==
    ASSUME NEW S \in SUBSET pool, TypeOK, PoolStateExact, Exclude(S)
    PROVE  PoolStateExact'
<1>1. pool' = pool \ S
  BY DEF Exclude, pool
<1>2. \A t \in pool \ S : KeyImagesOf[t] \cap KeyImages(S) = {}
  BY DEF PoolStateExact, KeyImages
<1>3. poolState' = KeyImages(pool) \ KeyImages(S)
  BY DEF Exclude, PoolStateExact
<1>4. poolState' = KeyImages(pool \ S)
  BY <1>2, <1>3 DEF KeyImages
<1>5. \A t, u \in pool' : t # u => KeyImagesOf[t] \cap KeyImagesOf[u] = {}
  BY <1>1 DEF PoolStateExact
<1> QED BY <1>1, <1>4, <1>5 DEF PoolStateExact, KeyImages

\* The two bookkeeping invariants are kept by every step.
LEMMA BookkeepingStep ==
    TypeOK /\ PoolStateExact /\ DeletedStaysOut /\ [ClockNext]_vars
        => PoolStateExact' /\ DeletedStaysOut'
<1> SUFFICES ASSUME TypeOK, PoolStateExact, DeletedStaysOut, [ClockNext]_vars
             PROVE  PoolStateExact' /\ DeletedStaysOut'
  OBVIOUS
<1>1. ASSUME NEW t \in Tx, PushTransaction(t) PROVE PoolStateExact' /\ DeletedStaysOut'
  <2>1. pool' = pool \cup {t}
    BY <1>1 DEF PushTransaction, pool
  <2>2. poolState' = KeyImages(pool \cup {t})
    BY <1>1 DEF PushTransaction, PoolStateExact, KeyImages
  <2>3. \A u \in pool : KeyImagesOf[u] \cap KeyImagesOf[t] = {}
    BY <1>1 DEF PushTransaction, HasIntersections, PoolStateExact, KeyImages
  <2>4. \A u, v \in pool' : u # v => KeyImagesOf[u] \cap KeyImagesOf[v] = {}
    BY <2>1, <2>3 DEF PoolStateExact
  <2>5. t \notin DOMAIN recentlyDeleted
    BY <1>1, TimeAssumption DEF PushTransaction, IsTransactionRecentlyDeleted, TypeOK
  <2>6. recentlyDeleted' = recentlyDeleted
    BY <1>1 DEF PushTransaction
  <2>7. DeletedStaysOut'
    BY <2>1, <2>5, <2>6 DEF DeletedStaysOut
  <2> QED BY <2>1, <2>2, <2>4, <2>7 DEF PoolStateExact, KeyImages
<1>2. ASSUME NEW t \in Tx, RemoveTransaction(t) PROVE PoolStateExact' /\ DeletedStaysOut'
  <2>1. {t} \in SUBSET pool /\ Exclude({t}) /\ recentlyDeleted' = recentlyDeleted
    BY <1>2 DEF RemoveTransaction
  <2>2. pool' \subseteq pool
    BY <2>1 DEF Exclude, pool
  <2>3. PoolStateExact'
    BY <2>1, ExcludeExact
  <2> QED BY <2>1, <2>2, <2>3 DEF DeletedStaysOut
<1>3. CASE Clean
  <2>1. Cleaned \in SUBSET pool /\ Exclude(Cleaned)
    BY <1>3 DEF Clean, Cleaned, Outdated, MixinInvalid
  <2>2. PoolStateExact'
    BY <2>1, ExcludeExact
  <2>3. pool' = pool \ Cleaned
    BY <2>1 DEF Exclude, pool
  <2>4. DOMAIN recentlyDeleted' \subseteq DOMAIN recentlyDeleted \cup Cleaned
    BY <1>3 DEF Clean, WithDeleted, CleanRecentlyDeletedTransactions
  <2> QED BY <2>2, <2>3, <2>4 DEF DeletedStaysOut
<1>6. CASE CleanThrows
  <2>1. PICK S \in SUBSET Cleaned : Exclude(S) /\ recentlyDeleted' = WithDeleted(S)
    BY <1>6 DEF CleanThrows
  <2>2. S \in SUBSET pool
    BY DEF Cleaned, Outdated, MixinInvalid
  <2>3. PoolStateExact'
    BY <2>1, <2>2, ExcludeExact
  <2>4. pool' = pool \ S
    BY <2>1 DEF Exclude, pool
  <2> QED BY <2>1, <2>3, <2>4 DEF DeletedStaysOut, WithDeleted
<1>4. CASE CleanAborts
  BY <1>4 DEF CleanAborts, PoolStateExact, DeletedStaysOut, KeyImages, pool
<1>5. CASE UNCHANGED <<receiveTime, poolState, recentlyDeleted>>
  BY <1>5 DEF PoolStateExact, DeletedStaysOut, KeyImages, pool
<1>7. CASE SwitchMainChain
  <2>1. PICK pushed \in SUBSET Tx :
          /\ \A t \in pushed : ~IsTransactionRecentlyDeleted(t)
          /\ \A t, u \in pushed : t # u => KeyImagesOf[t] \cap KeyImagesOf[u] = {}
          /\ receiveTime' = [t \in pushed |-> now]
          /\ poolState' = (poolState \ KeyImages(pool)) \cup KeyImages(pushed)
          /\ recentlyDeleted' = recentlyDeleted
    BY <1>7 DEF SwitchMainChain
  <2>2. pool' = pushed
    BY <2>1 DEF pool
  <2>3. poolState' = KeyImages(pushed)
    BY <2>1 DEF PoolStateExact
  <2>4. PoolStateExact'
    BY <2>1, <2>2, <2>3 DEF PoolStateExact, KeyImages
  <2>5. \A t \in pushed : t \notin DOMAIN recentlyDeleted
    BY <2>1, TimeAssumption DEF IsTransactionRecentlyDeleted, TypeOK
  <2> QED BY <2>1, <2>2, <2>4, <2>5 DEF DeletedStaysOut
<1> QED BY <1>1, <1>2, <1>3, <1>4, <1>5, <1>6, <1>7
        DEF ClockNext, Next, Tick, ChainMoves, SetClockBack, vars

\* poolState is always exactly what the pooled transactions spend, and no two of
\* them spend the same key image: pushTransaction's test of poolState is enough.
THEOREM PoolStateIsExact == ClockSpec => []PoolStateExact
<1>1. Init => PoolStateExact /\ DeletedStaysOut
  BY DEF Init, PoolStateExact, DeletedStaysOut, KeyImages, pool
<1>2. TypeOK /\ PoolStateExact /\ DeletedStaysOut /\ [Next \/ SetClockBack]_vars
        => PoolStateExact' /\ DeletedStaysOut'
  BY BookkeepingStep DEF ClockNext
<1> QED BY <1>1, <1>2, PoolTypeCorrect, PTL DEF ClockSpec

\* A transaction clean deleted is out of the pool while recentlyDeletedTransactions
\* remembers it.
THEOREM DeletedTransactionsStayOut == ClockSpec => []DeletedStaysOut
<1>1. Init => PoolStateExact /\ DeletedStaysOut
  BY DEF Init, PoolStateExact, DeletedStaysOut, KeyImages, pool
<1>2. TypeOK /\ PoolStateExact /\ DeletedStaysOut /\ [Next \/ SetClockBack]_vars
        => PoolStateExact' /\ DeletedStaysOut'
  BY BookkeepingStep DEF ClockNext
<1> QED BY <1>1, <1>2, PoolTypeCorrect, PTL DEF ClockSpec
-----------------------------------------------------------------------------

\* While the clock only runs forward: what is remembered of the past is past, a
\* remembered deletion is the latest one, and a deletion younger than a live time
\* is remembered.
Remembered ==
    /\ \A t \in pool : receiveTime[t] <= now
    /\ \A t \in Tx : deletedAt[t] <= now
    /\ \A t \in DOMAIN recentlyDeleted : recentlyDeleted[t] = deletedAt[t]
    /\ \A t \in Tx : deletedAt[t] # 0 /\ now < deletedAt[t] + Timeout
                        => t \in DOMAIN recentlyDeleted

\* The uint64_t subtraction does not wrap for a time that is not in the future.
LEMMA AgeOfPast ==
    ASSUME now \in Time, NEW t \in Time, t <= now
    PROVE  Age(t) = now - t
<1>1. now \in Nat /\ t \in Nat /\ Word \in Nat /\ now - t \in Nat /\ now - t < Word
  BY TimeAssumption
<1>2. \A a, w \in Nat : a < w => a % w = a
  OBVIOUS
<1> QED BY <1>1, <1>2 DEF Age

\* It wraps to more than a live time for a time that is in the future.
LEMMA AgeOfFuture ==
    ASSUME now \in Time, NEW t \in Time, t > now
    PROVE  Age(t) >= Timeout
<1>1. /\ now \in Nat /\ t \in Nat /\ Word \in Nat /\ Timeout \in Nat
      /\ Timeout <= now /\ t < Word
  BY TimeAssumption
<1>2. \A a, b, w \in Nat : a < b /\ b < w => (a - b) % w = a - b + w
  OBVIOUS
<1>3. Age(t) = now - t + Word
  BY <1>1, <1>2 DEF Age
<1> QED BY <1>1, <1>3

\* An age below the live time is that of a time within the last live time.
LEMMA LiveIsRecent ==
    ASSUME now \in Time, NEW t \in Time, ~(Age(t) >= Timeout)
    PROVE  t \in now - Timeout + 1 .. now
<1>1. now \in Nat /\ t \in Nat /\ Timeout \in Nat
  BY TimeAssumption
<1>2. t <= now
  BY <1>1, AgeOfFuture
<1>3. Age(t) = now - t
  BY <1>2, AgeOfPast
<1> QED BY <1>1, <1>2, <1>3

\* A cleaning leaves no transaction and no deletion that is older than a live time or
\* in the future, even when the clock was set back.
THEOREM CleaningLeavesOnlyLive == ClockSpec => CleanLeavesOnlyLive
<1> DEFINE Live ==
        Clean =>
        /\ \A t \in pool' : receiveTime'[t] \in now - Timeout + 1 .. now
        /\ \A t \in DOMAIN recentlyDeleted' : recentlyDeleted'[t] \in now - Timeout + 1 .. now
<1>1. ASSUME TypeOK, TypeOK', Clean PROVE Live
  <2>1. /\ \A t \in pool' : receiveTime'[t] = receiveTime[t] /\ ~(Age(receiveTime[t]) >= Timeout)
        /\ \A t \in pool' : receiveTime[t] \in Time
    BY <1>1 DEF Clean, Exclude, Cleaned, Outdated, pool, TypeOK
  <2>2. \A t \in DOMAIN recentlyDeleted' :
            recentlyDeleted'[t] \in Time /\ Age(recentlyDeleted'[t]) < Timeout
    BY <1>1 DEF Clean, CleanRecentlyDeletedTransactions, TypeOK
  <2>3. \A r \in Time : Age(r) < Timeout => ~(Age(r) >= Timeout)
    <3> SUFFICES ASSUME NEW r \in Time PROVE Age(r) < Timeout => ~(Age(r) >= Timeout)
      OBVIOUS
    <3>1. now - r \in Int /\ Word \in Nat \ {0} /\ Timeout \in Nat
      BY <1>1, TimeAssumption DEF TypeOK
    <3>2. Age(r) \in Int
      BY <3>1 DEF Age
    <3> QED BY <3>1, <3>2
  <2> QED BY <1>1, <2>1, <2>2, <2>3, LiveIsRecent DEF TypeOK
<1>2. TypeOK /\ TypeOK' /\ [Next \/ SetClockBack]_vars => [Live]_vars
  BY <1>1
<1> QED BY <1>2, PoolTypeCorrect, PTL DEF ClockSpec, CleanLeavesOnlyLive

\* What Remembered says, with NoEarlyReturn, is kept while the clock runs forward.
LEMMA RememberedStep ==
    TypeOK /\ DeletedStaysOut /\ Remembered /\ NoEarlyReturn /\ [Next]_vars
        => Remembered' /\ NoEarlyReturn'
<1> SUFFICES ASSUME TypeOK, DeletedStaysOut, Remembered, NoEarlyReturn, [Next]_vars
             PROVE  Remembered' /\ NoEarlyReturn'
  OBVIOUS
<1>0. /\ now \in Nat /\ Timeout \in Nat /\ Timeout > 0
      /\ \A t \in Time : t \in Nat /\ t >= Timeout
      /\ \A t \in Tx : deletedAt[t] \in Nat
      /\ \A t \in pool : t \in Tx /\ receiveTime[t] \in Nat
      /\ \A t \in DOMAIN recentlyDeleted : t \in Tx /\ recentlyDeleted[t] \in Nat
  BY TimeAssumption DEF TypeOK
<1>1. ASSUME NEW t \in Tx, PushTransaction(t) PROVE Remembered' /\ NoEarlyReturn'
  <2>1. /\ pool' = pool \cup {t}
        /\ \A u \in pool' : receiveTime'[u] = IF u = t THEN now ELSE receiveTime[u]
        /\ UNCHANGED <<recentlyDeleted, now, deletedAt>>
    BY <1>1 DEF PushTransaction, pool, history
  <2>2. t \notin DOMAIN recentlyDeleted
    BY <1>0, <1>1, TimeAssumption DEF PushTransaction, IsTransactionRecentlyDeleted, TypeOK
  <2>3. deletedAt[t] = 0 \/ now >= deletedAt[t] + Timeout
    BY <1>0, <2>2 DEF Remembered
  <2>4. Remembered'
    BY <1>0, <2>1 DEF Remembered
  <2>5. NoEarlyReturn'
    BY <2>1, <2>3 DEF NoEarlyReturn
  <2> QED BY <2>4, <2>5
<1>2. ASSUME NEW t \in Tx, RemoveTransaction(t) PROVE Remembered' /\ NoEarlyReturn'
  <2>1. /\ pool' \subseteq pool
        /\ \A u \in pool' : receiveTime'[u] = receiveTime[u]
        /\ UNCHANGED <<recentlyDeleted, now, deletedAt>>
    BY <1>2 DEF RemoveTransaction, Exclude, pool, history
  <2> QED BY <2>1 DEF Remembered, NoEarlyReturn
<1>3. CASE Clean
  <2> DEFINE kept == WithDeleted(Cleaned)
  <2>1. /\ pool' = pool \ Cleaned
        /\ \A u \in pool' : receiveTime'[u] = receiveTime[u]
        /\ now' = now
        /\ \A u \in Tx : deletedAt'[u] = IF u \in Cleaned THEN now ELSE deletedAt[u]
    BY <1>3 DEF Clean, Exclude, pool
  <2>2. Cleaned \subseteq pool /\ Cleaned \cap DOMAIN recentlyDeleted = {}
    BY DEF Cleaned, Outdated, MixinInvalid, DeletedStaysOut
  <2>3. /\ DOMAIN kept = DOMAIN recentlyDeleted \cup Cleaned
        /\ \A u \in DOMAIN kept : kept[u] = deletedAt'[u]
    BY <1>0, <2>1, <2>2 DEF WithDeleted, Remembered
  <2>4. /\ DOMAIN recentlyDeleted' = {u \in DOMAIN kept : Age(kept[u]) < Timeout}
        /\ \A u \in DOMAIN recentlyDeleted' : recentlyDeleted'[u] = kept[u]
    BY <1>3 DEF Clean, CleanRecentlyDeletedTransactions
  <2>5. \A u \in DOMAIN kept : kept[u] \in Time /\ kept[u] <= now
    BY <1>0, <2>1, <2>2, <2>3 DEF WithDeleted, TypeOK, Remembered
  <2>6. \A u \in DOMAIN kept : Age(kept[u]) = now - kept[u]
    BY <2>5, AgeOfPast DEF TypeOK
  <2>7. \A u \in Tx : deletedAt'[u] # 0 /\ now < deletedAt'[u] + Timeout
                        => u \in DOMAIN recentlyDeleted'
    <3> TAKE u \in Tx
    <3> HAVE deletedAt'[u] # 0 /\ now < deletedAt'[u] + Timeout
    <3>1. u \in DOMAIN kept
      BY <2>1, <2>3 DEF Remembered
    <3>2. now - kept[u] < Timeout
      BY <1>0, <2>3, <2>5, <3>1
    <3> QED BY <2>4, <2>6, <3>1, <3>2
  <2>8. Remembered'
    BY <1>0, <2>1, <2>3, <2>4, <2>7 DEF Remembered
  <2>9. NoEarlyReturn'
    BY <1>0, <2>1 DEF NoEarlyReturn
  <2> QED BY <2>8, <2>9
<1>7. CASE CleanThrows
  <2>1. PICK S \in SUBSET Cleaned :
          /\ Exclude(S)
          /\ recentlyDeleted' = WithDeleted(S)
          /\ deletedAt' = [t \in Tx |-> IF t \in S THEN now ELSE deletedAt[t]]
          /\ now' = now
    BY <1>7 DEF CleanThrows
  <2>2. /\ pool' = pool \ S
        /\ \A u \in pool' : receiveTime'[u] = receiveTime[u]
    BY <2>1 DEF Exclude, pool
  <2>3. S \subseteq pool /\ S \cap DOMAIN recentlyDeleted = {}
    BY DEF Cleaned, Outdated, MixinInvalid, DeletedStaysOut
  <2>4. \A u \in Tx : deletedAt'[u] = IF u \in S THEN now ELSE deletedAt[u]
    BY <2>1
  <2>5. /\ DOMAIN recentlyDeleted' = DOMAIN recentlyDeleted \cup S
        /\ \A u \in DOMAIN recentlyDeleted' : recentlyDeleted'[u] = deletedAt'[u]
    BY <1>0, <2>1, <2>3, <2>4 DEF WithDeleted, Remembered
  <2>6. Remembered'
    BY <1>0, <2>1, <2>2, <2>4, <2>5 DEF Remembered
  <2>7. NoEarlyReturn'
    BY <1>0, <2>2, <2>4 DEF NoEarlyReturn
  <2> QED BY <2>6, <2>7
<1>4. CASE CleanAborts
  BY <1>0, <1>4 DEF CleanAborts, Remembered, NoEarlyReturn, pool
<1>5. CASE Tick
  BY <1>0, <1>5 DEF Tick, Remembered, NoEarlyReturn, pool, history
<1>6. CASE ChainMoves \/ UNCHANGED vars
  BY <1>6 DEF ChainMoves, vars, history, Remembered, NoEarlyReturn, pool
<1>8. CASE SwitchMainChain
  <2>1. PICK pushed \in SUBSET Tx :
          /\ \A t \in pushed : ~IsTransactionRecentlyDeleted(t)
          /\ receiveTime' = [t \in pushed |-> now]
          /\ UNCHANGED <<recentlyDeleted, now, deletedAt>>
    BY <1>8 DEF SwitchMainChain, history
  <2>2. pool' = pushed /\ \A t \in pushed : receiveTime'[t] = now
    BY <2>1 DEF pool
  <2>3. \A t \in pushed : t \notin DOMAIN recentlyDeleted
    BY <2>1, TimeAssumption DEF IsTransactionRecentlyDeleted, TypeOK
  <2>4. \A t \in pushed : deletedAt[t] = 0 \/ now >= deletedAt[t] + Timeout
    BY <1>0, <2>3 DEF Remembered
  <2>5. Remembered'
    BY <1>0, <2>1, <2>2 DEF Remembered
  <2>6. NoEarlyReturn'
    BY <2>1, <2>2, <2>4 DEF NoEarlyReturn
  <2> QED BY <2>5, <2>6
<1> QED BY <1>1, <1>2, <1>3, <1>4, <1>5, <1>6, <1>7, <1>8 DEF Next

\* While the clock runs forward, clean's deletions hold for a full live time: no
\* deleted transaction is accepted again before that.
THEOREM DeletionHoldsForLiveTime == Spec => []NoEarlyReturn
<1>1. Init => TypeOK /\ PoolStateExact /\ DeletedStaysOut /\ Remembered /\ NoEarlyReturn
  <2>1. Init => TypeOK
    BY DEF Init, TypeOK, pool
  <2>2. Init => PoolStateExact /\ DeletedStaysOut
    BY DEF Init, PoolStateExact, DeletedStaysOut, KeyImages, pool
  <2>3. Init => Remembered /\ NoEarlyReturn
    BY TimeAssumption DEF Init, Remembered, NoEarlyReturn, pool
  <2> QED BY <2>1, <2>2, <2>3
<1>2. TypeOK /\ [Next]_vars => TypeOK'
  BY TypeStep DEF ClockNext
<1>3. TypeOK /\ PoolStateExact /\ DeletedStaysOut /\ [Next]_vars
        => PoolStateExact' /\ DeletedStaysOut'
  BY BookkeepingStep DEF ClockNext
<1> QED BY <1>1, <1>2, <1>3, RememberedStep, PTL DEF Spec
=============================================================================
