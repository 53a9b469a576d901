-------------------------- MODULE TransfersContainer --------------------------
(***************************************************************************)
(* TransfersContainer: what one address of a wallet owns.  A container is  *)
(* a value here and each of its methods an operator on it, for             *)
(* TransfersConsumer to compose; a method that throws says so in `threw'.  *)
(*                                                                         *)
(* An output is found by its key image, which several outputs may share    *)
(* (only one of them can ever be spent); of those at most one is visible,  *)
(* that is, counted in the balance.                                        *)
(***************************************************************************)
EXTENDS Naturals, FiniteSets, FiniteSetsExt, Functions, SequencesExt

CONSTANTS
    Tx, Output,
    OutTx, OutKey, OutAmount,  \* functions on Output: its transaction, key image, amount
    Ins,                       \* Ins[t]: the inputs of t, a sequence of [key, amount]
    UnconfirmedHeight          \* WALLET_UNCONFIRMED_TRANSACTION_HEIGHT, above every height

\* unconfirmed: outputs; available: output -> [height, index];
\* spent: output -> [height, index, by]; txs: transaction -> height.
EmptyContainer ==
    [height |-> 0, txs |-> <<>>, unconfirmed |-> {}, available |-> <<>>, spent |-> <<>>, visible |-> {}]

Confirmed(c) == DOMAIN c.available \cup DOMAIN c.spent
Returns(c) == [threw |-> FALSE, c |-> c]
Throws(c) == [threw |-> TRUE, c |-> c]

-----------------------------------------------------------------------------
(* Visibility of the outputs that share a key image.                       *)

Before(p, q) == p.height < q.height \/ (p.height = q.height /\ p.index < q.index)
Earliest(c, outs) ==
    CHOOSE o \in outs : \A p \in outs : ~Before(c.available[p], c.available[o])

ShownOf(c, same) ==
    LET u == c.unconfirmed \cap same
        a == DOMAIN c.available \cap same
        s == DOMAIN c.spent \cap same
    IN CASE s # {} -> s
         [] s = {} /\ a # {} -> {Earliest(c, a)}
         [] OTHER -> IF Cardinality(u) = 1 THEN u ELSE {}

updateTransfersVisibility(c, outs) ==
    LET same(k) == {o \in Output : OutKey[o] = k}
        keys == {OutKey[o] : o \in outs}
    IN [c EXCEPT !.visible =
            {o \in @ : OutKey[o] \notin keys} \cup UNION {ShownOf(c, same(k)) : k \in keys}]

-----------------------------------------------------------------------------
(* deleteTransactionTransfers, for several transactions: what they spent   *)
(* becomes available and what they paid disappears.  detach goes from the  *)
(* highest block down, so the spender of an output goes before its payer.  *)

RestoreSpent(c, gone) ==
    LET back == {o \in DOMAIN c.spent : c.spent[o].by \in gone}
    IN [c EXCEPT !.spent = RestrictDomain(@, LAMBDA o : o \notin back),
                 !.available = [o \in back |-> [height |-> c.spent[o].height, index |-> c.spent[o].index]] @@ @]

deleteTransactionTransfers(c, gone) ==
    LET r == RestoreSpent(c, gone)
        paid == {o \in Output : OutTx[o] \in gone}
        kept == [r EXCEPT !.unconfirmed = @ \ paid,
                          !.available = RestrictDomain(@, LAMBDA o : o \notin paid)]
    IN updateTransfersVisibility(kept, paid \cup {o \in DOMAIN c.spent : c.spent[o].by \in gone})

Forget(c, gone) == [c EXCEPT !.txs = RestrictDomain(@, LAMBDA t : t \notin gone)]

-----------------------------------------------------------------------------

addTransactionOutputs(c, block, t, outs) ==
    LET n == IF block.height = UnconfirmedHeight
             THEN [c EXCEPT !.unconfirmed = @ \cup outs]
             ELSE [c EXCEPT !.available =
                       [o \in outs |-> [height |-> block.height, index |-> block.index]] @@ @]
    IN IF block.height # UnconfirmedHeight /\ outs \cap Confirmed(c) # {}
       THEN Throws(c)
       ELSE Returns(updateTransfersVisibility(n, outs))

\* The first of the available outputs with this key image that has this amount is spent.
Spend(c, block, t, input) ==
    LET same == {o \in DOMAIN c.available : OutKey[o] = input.key}
        fit == {o \in same : OutAmount[o] = input.amount}
        o == Earliest(c, fit)
    IN CASE \E p \in DOMAIN c.spent : OutKey[p] = input.key -> Throws(c)
         [] (\A p \in DOMAIN c.spent : OutKey[p] # input.key) /\ same = {} ->
                IF \E p \in c.unconfirmed : OutKey[p] = input.key THEN Throws(c) ELSE Returns(c)
         [] OTHER ->
                IF fit = {}
                THEN Throws(c)
                ELSE Returns(updateTransfersVisibility(
                        [c EXCEPT !.available = RestrictDomain(@, LAMBDA p : p # o),
                                  !.spent = (o :> [height |-> c.available[o].height,
                                                   index |-> c.available[o].index, by |-> t]) @@ @], {o}))

addTransactionInputs(c, block, t) ==
    FoldLeft(LAMBDA r, input : IF r.threw THEN r ELSE Spend(r.c, block, t, input), Returns(c), Ins[t])

AddInputsTo(o, block, t) == IF o.threw THEN o ELSE addTransactionInputs(o.c, block, t)
\* r is what adding t came to: one that touches nothing here is not recorded, and one that
\* fails is undone.
RecordOrUndo(c, block, t, outs, r) ==
    LET added == outs # {} \/ DOMAIN r.c.spent # DOMAIN c.spent
        height == IF block.height = UnconfirmedHeight THEN c.height ELSE block.height
    IN CASE t \in DOMAIN c.txs -> Throws(c)
         [] t \notin DOMAIN c.txs /\ (block.height < c.height \/ r.threw) ->
                Throws(deleteTransactionTransfers(IF block.height < c.height THEN c ELSE r.c, {t}))
         [] OTHER ->
                Returns([r.c EXCEPT !.height = height,
                                    !.txs = IF added THEN (t :> block.height) @@ @ ELSE @])

addTransaction(c, block, t, outs) ==
    RecordOrUndo(c, block, t, outs, AddInputsTo(addTransactionOutputs(c, block, t, outs), block, t))

-----------------------------------------------------------------------------
(* A pool transaction that a block confirms.  The node's answer may name   *)
(* fewer indices than there are outputs; what has been moved by then is    *)
(* moved back.                                                             *)

MoveToAvailable(c, block, moved) ==
    updateTransfersVisibility(
        [c EXCEPT !.unconfirmed = @ \ moved,
                  !.available = [o \in moved |-> [height |-> block.height, index |-> block.index]] @@ @], moved)
MoveBack(c, t) ==
    LET moved == {o \in DOMAIN c.available : OutTx[o] = t}
    IN updateTransfersVisibility(
        [c EXCEPT !.unconfirmed = @ \cup moved,
                  !.available = RestrictDomain(@, LAMBDA o : o \notin moved)], moved)

markTransactionConfirmed(c, block, t, lacking) ==
    LET mine == {o \in c.unconfirmed : OutTx[o] = t}
        moved == MoveToAvailable(c, block, mine \ lacking)
    IN IF t \notin DOMAIN c.txs \/ c.txs[t] # UnconfirmedHeight
       THEN Returns(c)
       ELSE IF mine \cap lacking # {}
            THEN Throws(MoveBack(moved, t))
            ELSE Returns([moved EXCEPT !.txs[t] = block.height])

deleteUnconfirmedTransaction(c, t) ==
    IF t \in DOMAIN c.txs /\ c.txs[t] = UnconfirmedHeight
    THEN Forget(deleteTransactionTransfers(c, {t}), {t})
    ELSE c

-----------------------------------------------------------------------------

DetachedConfirmed(c, height) == {t \in DOMAIN c.txs : c.txs[t] # UnconfirmedHeight /\ c.txs[t] >= height}
\* A pool transaction goes too if it spends an output of a block that goes.
Detached(c, height) ==
    DetachedConfirmed(c, height) \cup
    {t \in DOMAIN c.txs : /\ c.txs[t] = UnconfirmedHeight
                          /\ \E o \in DOMAIN c.spent : c.spent[o].by = t /\ c.spent[o].height >= height}

detach(c, height) ==
    LET gone == Detached(c, height)
    IN [Forget(deleteTransactionTransfers(c, gone), gone) EXCEPT !.height = IF height = 0 THEN 0 ELSE height - 1]

advanceHeight(c, height) == [c EXCEPT !.height = IF @ <= height THEN height ELSE @]

balance(c) == MapThenSumSet(LAMBDA o : OutAmount[o], c.visible \ DOMAIN c.spent)
=============================================================================
