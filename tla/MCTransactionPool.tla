-------------------------- MODULE MCTransactionPool --------------------------
EXTENDS TransactionPool

CONSTANTS t1, t2, t3, k1, k2

MCTx == {t1, t2, t3}
MCKeyImage == {k1, k2}
MCKeyImagesOf == [t \in MCTx |-> IF t = t1 THEN {k1} ELSE IF t = t2 THEN {k2} ELSE {k1, k2}]
MCMixinHeights == [t \in MCTx |-> IF t = t2 THEN {0} ELSE {0, 1}]
MCHeight == 0 .. 1
MCTime == 2 .. 6
=============================================================================
