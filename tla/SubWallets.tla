------------------------------ MODULE SubWallets ------------------------------
(***************************************************************************)
(* The wallet's books: SubWallets and the SubWallet of each spend key.     *)
(* Every operation holds m_mutex, so it is one step, and it is written     *)
(* here as a function from books to books; WalletSynchronizer and          *)
(* WalletBackend say which thread takes it when.                           *)
(*                                                                         *)
(* An output stands for its one-time key, its key image and its amount.    *)
(* Vectors stay sequences, because nothing stops an input from being       *)
(* stored twice; the owner of an output tells whose vector it is in.       *)
(***************************************************************************)
EXTENDS Integers, SequencesExt

CONSTANTS
    Output,        \* transaction outputs paid to some spend key of the model
    Tx,            \* transactions that touch such an output
    SpendKey,      \* public spend keys; each may be a subwallet
    Primary,       \* the spend key of the primary address
    Ins,           \* Ins[t]: the outputs t spends
    Outs,          \* Outs[t]: the outputs t creates
    OwnerOf,       \* OwnerOf[o]: the spend key o is paid to
    UnlockTime,    \* UnlockTime[o]: the unlock time of its transaction, a height
    IsViewWallet   \* m_isViewWallet

\* parentTransactionHash: an output's key is derived from the key of its transaction.
ParentOf(o) == CHOOSE t \in Tx : o \in Outs[t]

NoSubWallets ==
    [keys |-> {Primary}, unspent |-> <<>>, locked |-> <<>>, spent |-> <<>>, incoming |-> {},
     txs |-> {}, lockedTxs |-> {}]

\* WalletTypes::TransactionInput and WalletTypes::Transaction.
Input(o, h) == [key |-> o, height |-> h, spendHeight |-> 0]
Transaction(t, h, owners) == [hash |-> t, height |-> h, transfers |-> owners]

Keys(inputs) == {i.key : i \in ToSet(inputs)}
Find(inputs, o) == SelectInSeq(inputs, LAMBDA i : i.key = o)
\* CRYPTONOTE_LOCKED_TX_ALLOWED_DELTA_BLOCKS is 1.
IsInputUnlocked(o, height) == UnlockTime[o] <= height + 1
GetSpendableInputs(w, height) == {o \in Keys(w.unspent) : IsInputUnlocked(o, height)}
HasKeyImage(w, o) == o \in Keys(w.unspent) \cup Keys(w.locked)
GetKeyImageOwner(w, o) == ~IsViewWallet /\ HasKeyImage(w, o)

\* Change that comes back leaves the unconfirmed amounts; a view wallet has none.
StoreTransactionInput(w, o, h) ==
    [w EXCEPT !.incoming = IF IsViewWallet THEN @ ELSE @ \ {o},
              !.unspent = Append(@, Input(o, h))]

StoreUnconfirmedIncomingInput(w, o) == [w EXCEPT !.incoming = @ \cup {o}]

Spend(w, from, i, h) ==
    [w EXCEPT ![from] = RemoveAt(@, i),
              !.spent = Append(@, [w[from][i] EXCEPT !.spendHeight = h])]
\* The other outcome is the exception "Could not find key image to remove!".
CanMarkSpent(w, o) == HasKeyImage(w, o)
MarkInputAsSpent(w, o, h) ==
    IF o \in Keys(w.unspent)
    THEN Spend(w, "unspent", Find(w.unspent, o), h)
    ELSE Spend(w, "locked", Find(w.locked, o), h)

\* The other outcome is the exception "Could not find key image to lock!".
CanMarkLocked(w, o) == o \in Keys(w.unspent)
MarkInputAsLocked(w, o) ==
    LET i == Find(w.unspent, o)
    IN  [w EXCEPT !.unspent = RemoveAt(@, i), !.locked = Append(@, w.unspent[i])]

\* The other outcome is the exception "Unconfirmed transaction ... was added twice".
CanAddUnconfirmed(w, t) == t \notin {x.hash : x \in w.lockedTxs}
AddUnconfirmedTransaction(w, t, owners) ==
    [w EXCEPT !.lockedTxs = @ \cup {Transaction(t, 0, owners)}]

Unlocked(w, t) == {x \in w.lockedTxs : x.hash # t}
\* The other outcome is the exception "Transaction ... was added to the wallet twice".
CanAdd(w, t) == t \notin {x.hash : x \in w.txs}
AddTransaction(w, t, h, owners) ==
    [w EXCEPT !.lockedTxs = Unlocked(w, t), !.txs = @ \cup {Transaction(t, h, owners)}]

Unspend(i) == [i EXCEPT !.spendHeight = 0]
MapSeq(s, Op(_)) == [i \in DOMAIN s |-> Op(s[i])]


\* SubWallet::removeForkedInputs: what was spent from the fork on is unspent again,
\* whether or not it was received below the fork.
RemoveForkedInputs(w, fork) ==
    [w EXCEPT !.locked = <<>>, !.incoming = {},
              !.unspent = SelectSeq(@, LAMBDA i : i.height < fork)
                          \o MapSeq(SelectSeq(w.spent, LAMBDA i : i.spendHeight >= fork), Unspend),
              !.spent = SelectSeq(@, LAMBDA i : i.spendHeight < fork)]

RemoveForkedTransactions(w, fork) ==
    RemoveForkedInputs([w EXCEPT !.txs = {x \in @ : x.height < fork}], fork)

\* SubWallet::removeCancelledTransactions: compares the transaction that created a
\* locked input, not the one that spends it.
RemoveCancelledInputs(w, cancelled) ==
    LET returned(i) == ParentOf(i.key) \in cancelled
    IN  [w EXCEPT !.unspent = @ \o MapSeq(SelectSeq(w.locked, returned), Unspend),
                  !.locked = SelectSeq(@, LAMBDA i : ~returned(i)),
                  !.incoming = {o \in @ : ParentOf(o) \notin cancelled}]

RemoveCancelledTransactions(w, cancelled) ==
    RemoveCancelledInputs([w EXCEPT !.lockedTxs = {x \in @ : x.hash \notin cancelled}], cancelled)

ResetBooks(w) == [NoSubWallets EXCEPT !.keys = w.keys]

AddSubWallet(w, k) == [w EXCEPT !.keys = @ \cup {k}]

\* deleteAddressTransactions: a transaction leaves with its last transfer.
WithoutTransfers(txs, k) ==
    {[x EXCEPT !.transfers = @ \ {k}] : x \in {y \in txs : y.transfers # {k}}}
NotOwnedBy(inputs, k) == SelectSeq(inputs, LAMBDA i : OwnerOf[i.key] # k)

DeleteSubWallet(w, k) ==
    [w EXCEPT !.keys = @ \ {k}, !.unspent = NotOwnedBy(@, k), !.locked = NotOwnedBy(@, k),
              !.spent = NotOwnedBy(@, k), !.incoming = {o \in @ : OwnerOf[o] # k},
              !.txs = WithoutTransfers(@, k), !.lockedTxs = WithoutTransfers(@, k)]

\* toJSON followed by fromJSON: the locked transactions are read back into m_transactions.
SavedAndLoaded(w) == [w EXCEPT !.txs = @ \cup w.lockedTxs, !.lockedTxs = {}]
=============================================================================
