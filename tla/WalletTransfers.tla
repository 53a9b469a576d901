--------------------------- MODULE WalletTransfers ---------------------------
(***************************************************************************)
(* m_transfers of WalletGreen: for each listed transaction, in the order   *)
(* of their ids, what it takes from (amount below zero) and pays to (above *)
(* zero) which address.  An empty address stands for what the wallet       *)
(* cannot attribute.  The list starts from the destinations of a           *)
(* transaction the wallet makes, is corrected whenever the containers of   *)
(* the wallet's addresses report the transaction, and gives up what        *)
(* belonged to an address that is deleted.                                 *)
(***************************************************************************)
EXTENDS Integers, Sequences, SequencesExt, FiniteSets, FiniteSetsExt

CONSTANTS
    Own,            \* addresses that are or were the wallet's
    Foreign,        \* other addresses
    N,              \* how many transactions are listed
    In,             \* In[i][a]: what transaction i takes from the address a of Own, or from others
    Pays,           \* Pays[i][a]: what it pays to the address a of Own \cup Foreign
    Dest            \* Dest[i]: the destinations of transaction i if the wallet makes it

Unknown == "unknown"        \* the empty address

VARIABLES
    transfers,      \* m_transfers
    mine,           \* the addresses of the wallet
    listed,         \* the number of transactions listed
    reported        \* the transactions that containers have reported since they were listed

vars == <<transfers, mine, listed, reported>>

Id == 1..N
Sum(f, s) == FoldSet(LAMBDA a, n : n + f[a], 0, s)
AllIn(i) == Sum(In[i], Own \cup {Unknown})
Made == {i \in Id : Dest[i] # <<>>}
AllOut(i) == Sum(Pays[i], Own \cup Foreign)

Init == transfers = <<>> /\ mine = Own /\ listed = 0 /\ reported = {}

-----------------------------------------------------------------------------
(* The list: l[k] is [id, address, amount].                                *)

IsOut(x) == x.amount > 0
\* What is kept of transaction i is what does not satisfy Drop.
eraseTransfers(l, i, as, out) == SelectSeq(l, LAMBDA x : x.id # i \/ IsOut(x) # out \/ x.address \notin as)
eraseTransfersByAddress(l, i, a, out) == eraseTransfers(l, i, {a}, out)
eraseForeignTransfers(l, i, as, out) == eraseTransfers(l, i, {x.address : x \in Range(l)} \ as, out)

\* After the last transfer of a transaction up to x's.
AtRange(l, x) ==
    SelectSeq(l, LAMBDA y : y.id <= x.id) \o <<x>> \o SelectSeq(l, LAMBDA y : y.id > x.id)
appendTransfer(l, i, a, amount) == AtRange(l, [id |-> i, address |-> a, amount |-> amount])

\* The first transfer of i with a and the sign of amount gets the amount, the others go.
Matches(x, i, a, amount) == x.id = i /\ x.address = a /\ IsOut(x) = (amount > 0)
FirstMatch(l, i, a, amount) == Min({k \in DOMAIN l : Matches(l[k], i, a, amount)})
adjustTransfer(l, i, a, amount) ==
    IF \A k \in DOMAIN l : ~Matches(l[k], i, a, amount) THEN appendTransfer(l, i, a, amount)
    ELSE LET first == FirstMatch(l, i, a, amount)
             kept == {k \in DOMAIN l : k = first \/ ~Matches(l[k], i, a, amount)}
         IN FoldLeft(LAMBDA r, k : IF k \in kept THEN Append(r, IF k = first THEN [l[k] EXCEPT !.amount = amount] ELSE l[k])
                                   ELSE r, <<>>, [k \in DOMAIN l |-> k])

KnownAmount(l, i, a, out) ==
    FoldSeq(LAMBDA x, n : IF x.id = i /\ x.address = a /\ IsOut(x) = out THEN n + x.amount ELSE n, 0, l)
getKnownTransfers(l, i, out) == FoldSet(LAMBDA a, n : n + KnownAmount(l, i, a, out), 0, Own \cup Foreign)
SumOf(l, i, out) == FoldSeq(LAMBDA x, n : IF x.id = i /\ IsOut(x) = out THEN n + x.amount ELSE n, 0, l)

updateAddressTransfers(l, i, a, known, target) ==
    CASE known = target -> l
      [] known # target /\ known = 0 -> appendTransfer(l, i, a, target)
      [] known # target /\ known # 0 /\ target = 0 -> eraseTransfersByAddress(l, i, a, known > 0)
      [] OTHER -> adjustTransfer(l, i, a, target)

KeepUnknown(l, i, as, known, my, all, out) ==
    IF known = all THEN l ELSE adjustTransfer(l, i, Unknown, all - known)
updateUnknownTransfers(l, i, as, known, my, all, out) ==
    LET more == IF out THEN known > all ELSE known < all
        cut == eraseForeignTransfers(l, i, as, out)
    IN CASE more /\ all = my -> eraseTransfersByAddress(cut, i, Unknown, out)
         [] more /\ all # my -> adjustTransfer(cut, i, Unknown, all - my)
         [] known = all -> eraseTransfersByAddress(l, i, Unknown, out)
         [] OTHER -> adjustTransfer(l, i, Unknown, all - known)

\* c: the addresses whose containers have the transaction, with what each knows it takes and pays.
updateTransactionTransfers(l, i, c) ==
    LET own(r, a) ==
            updateAddressTransfers(
                updateAddressTransfers(r, i, a, KnownAmount(l, i, a, FALSE), c[a].input),
                i, a, KnownAmount(l, i, a, TRUE), c[a].output)
        l1 == FoldLeft(own, l, SetToSeq(DOMAIN c))
        ins == {a \in DOMAIN c : c[a].input # 0}
        outs == {a \in DOMAIN c : c[a].output # 0}
        my(f) == FoldSet(LAMBDA a, n : n + f[a], 0, DOMAIN c)
        l2 == updateUnknownTransfers(l1, i, ins, getKnownTransfers(l1, i, FALSE),
                  my([a \in DOMAIN c |-> c[a].input]), -AllIn(i), FALSE)
    IN updateUnknownTransfers(l2, i, outs, getKnownTransfers(l2, i, TRUE),
           my([a \in DOMAIN c |-> c[a].output]), AllOut(i), TRUE)

-----------------------------------------------------------------------------
pushBackOutgoingTransfers ==
    /\ listed < N /\ listed + 1 \in Made
    /\ transfers' = transfers \o [k \in DOMAIN Dest[listed + 1] |->
           [id |-> listed + 1, address |-> Dest[listed + 1][k].address, amount |-> Dest[listed + 1][k].amount]]
    /\ listed' = listed + 1
    /\ UNCHANGED <<mine, reported>>

\* A container knows what is paid to its address; it may not know the output that is spent.
Reports(i, s) ==
    {[a \in s |-> [input |-> IF a \in k THEN -In[i][a] ELSE 0, output |-> Pays[i][a]]] :
        k \in {j \in SUBSET s : \A a \in s : (a \in j /\ In[i][a] > 0) \/ Pays[i][a] > 0}}

transactionUpdated(i, c) ==
    /\ i <= listed \/ (i = listed + 1 /\ i \notin Made)
    /\ transfers' = updateTransactionTransfers(transfers, i, c)
    /\ listed' = Max({listed, i})
    /\ reported' = reported \cup {i}
    /\ UNCHANGED mine

\* deleteTransfersForAddress: what was taken from a joins the unknown.
deleteAddress(a) ==
    /\ a \in mine
    /\ mine' = mine \ {a}
    /\ LET taken(i) == KnownAmount(transfers, i, a, FALSE)
           blank == [k \in DOMAIN transfers |->
                        IF transfers[k].address = a /\ ~IsOut(transfers[k])
                        THEN [transfers[k] EXCEPT !.address = Unknown] ELSE transfers[k]]
           merge(l, i) == IF taken(i) = 0 THEN l
                          ELSE adjustTransfer(l, i, Unknown, taken(i) + KnownAmount(transfers, i, Unknown, FALSE))
       IN transfers' = FoldLeft(merge, blank, [i \in 1..listed |-> i])
    /\ UNCHANGED <<listed, reported>>

createAddress(a) ==
    /\ a \in Own \ mine
    /\ mine' = mine \cup {a}
    /\ UNCHANGED <<transfers, listed, reported>>

Next ==
    \/ pushBackOutgoingTransfers
    \/ \E i \in Id, s \in (SUBSET mine) \ {{}} : \E c \in Reports(i, s) : transactionUpdated(i, c)
    \/ \E a \in Own : deleteAddress(a) \/ createAddress(a)

Spec == Init /\ [][Next]_vars

-----------------------------------------------------------------------------
\* Once reported, a transaction's transfers take and pay in all what the
\* transaction does, whatever addresses came and went.
AddsUp == \A i \in reported : SumOf(transfers, i, FALSE) = -AllIn(i) /\ SumOf(transfers, i, TRUE) = AllOut(i)

\* The list stays sorted by id ("WalletTransfers m_transfers; //sorted").
Sorted == \A k \in 1..(Len(transfers) - 1) : transfers[k].id <= transfers[k + 1].id
OneUnknown ==
    \A i \in Id, out \in BOOLEAN :
        Cardinality({k \in DOMAIN transfers : transfers[k].id = i /\ transfers[k].address = Unknown
                                              /\ IsOut(transfers[k]) = out}) <= 1
=============================================================================
