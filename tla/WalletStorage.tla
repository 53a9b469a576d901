--------------------------- MODULE WalletStorage ---------------------------
(***************************************************************************)
(* The container file of a wallet (Wallet/WalletGreen.cpp): view keys in   *)
(* the prefix, one encrypted record per address in the vector, the cache of *)
(* transactions in the suffix.  The operations that change the file are     *)
(* modelled step by step over FileMappedVector; a crash may come between    *)
(* any two steps, and the file operations in Fallible may fail.             *)
(***************************************************************************)
EXTENDS FileMappedVector

CONSTANTS
    Keys,           \* the spend keys of the addresses
    Passwords,
    BatchSizes,     \* how many addresses one call may create
    SuffixSizes,    \* the sizes a saved cache may have
    InitialCapacity \* 10 in the code

VARIABLES
    w,              \* the wallet in memory: its addresses, password, last saved cache
    op              \* the operation in progress

svars == <<dir, vec, upd, w, op>>

NoOp == [kind |-> "none"]
NoSuffix == [size |-> 0, holds |-> Blank]
Down == [up |-> FALSE]
Unsure == [unsure |-> TRUE]

\* No operation is in progress; after a size below zero the program's reads are undefined.
Idle == w.up /\ op = NoOp /\ WellFormed(Mapped)
Busy(kind, at) == op # NoOp /\ op.kind = kind /\ op.at = at
Goto(at) == op' = [op EXCEPT !.at = at]
Finished == op' = NoOp

\* initWithKeys: the container file is created and flushed with the view keys.
Init ==
    \E p \in Passwords :
        LET image == NewImage(p, InitialCapacity, <<>>, NoSuffix)
        IN  /\ dir = [n \in Names |-> IF n = "path" THEN Settled(image) ELSE NoFile]
            /\ vec = "path"
            /\ upd = NoUpdate
            /\ w = [up |-> TRUE, keys |-> <<>>, password |-> p, saved |-> Blank]
            /\ op = NoOp

\* An operation takes up the outcome of the update it asked for.
TakeResult == upd' = NoUpdate /\ UNCHANGED <<dir, vec>>

---------------------------------------------------------------------------
\* createAddressList: addWallet for each address, flushing each cell when there is one.

AutoFlush == Len(op.batch) = 1

createAddresses ==
    /\ Idle
    /\ \E n \in BatchSizes : \E batch \in [1 .. n -> Keys \ Range(w.keys)] :
         /\ IsInjective(batch)
         /\ op' = [kind |-> "create", at |-> "push", batch |-> batch, next |-> 1]
    /\ UNCHANGED <<dir, vec, upd, w>>

PushBack ==
    /\ Busy("create", "push")
    /\ UNCHANGED w
    /\ IF Mapped.size = capacity(Mapped)
       THEN atomicUpdate(Reserved(Mapped, nextCapacity(Mapped))) /\ Goto("reserve")
       ELSE Goto("put") /\ UNCHANGED <<dir, vec, upd>>

ReserveEnds ==
    /\ Busy("create", "reserve")
    /\ \/ UpdateIs("done") /\ Goto("put")
       \/ UpdateIs("failed") /\ Goto("rollback")
    /\ TakeResult
    /\ UNCHANGED w

PutElement ==
    /\ Busy("create", "put")
    /\ PutBack([key |-> op.batch[op.next], password |-> w.password])
    /\ Goto("flushElement")
    /\ UNCHANGED <<vec, upd, w>>

flushElement ==
    /\ Busy("create", "flushElement")
    /\ \/ /\ IF AutoFlush THEN FlushCell(Mapped.size + 1) ELSE UNCHANGED dir
          /\ Goto("grow")
       \/ /\ AutoFlush /\ "flushElement" \in Fallible
          /\ Goto("rollback") /\ UNCHANGED dir
    /\ UNCHANGED <<vec, upd, w>>

GrowSize ==
    /\ Busy("create", "grow")
    /\ Grow
    /\ Goto("flushSize")
    /\ UNCHANGED <<vec, upd, w>>

FlushGrown ==
    /\ Busy("create", "flushSize")
    /\ \/ /\ IF AutoFlush THEN flushSize ELSE UNCHANGED dir
          /\ Goto("added")
       \/ /\ AutoFlush /\ "flushSize" \in Fallible
          /\ Goto("rollback") /\ UNCHANGED dir
    /\ UNCHANGED <<vec, upd, w>>

\* The address enters the wallet; a batch is flushed when it is complete.
addWallet ==
    /\ Busy("create", "added")
    /\ w' = [w EXCEPT !.keys = Append(@, op.batch[op.next])]
    /\ IF op.next < Len(op.batch)
       THEN op' = [op EXCEPT !.next = @ + 1, !.at = "push"] /\ UNCHANGED dir
       ELSE Finished /\ (IF AutoFlush THEN UNCHANGED dir ELSE flush)
    /\ UNCHANGED <<vec, upd>>

\* The handler of addWallet takes the last element off, whether or not one was added.
RollbackAdd ==
    /\ Busy("create", "rollback")
    /\ \/ dir' = [dir EXCEPT ![vec] =
                      IF AutoFlush THEN [mem |-> Shrink, dsk |-> [@.dsk EXCEPT !.size = Shrink.size]]
                                   ELSE Settled(Shrink)]
       \/ "flushSize" \in Fallible /\ AutoFlush /\ Write(Shrink)
    /\ Finished
    /\ UNCHANGED <<vec, upd, w>>

---------------------------------------------------------------------------
\* deleteAddress: the record is erased by an atomic update, then the address goes.

deleteAddress ==
    /\ Idle
    /\ \E i \in DOMAIN w.keys :
         /\ i <= Mapped.size
         /\ atomicUpdate(Erased(Mapped, i))
         /\ op' = [kind |-> "delete", at |-> "erase", index |-> i]
    /\ UNCHANGED w

EraseEnds ==
    /\ Busy("delete", "erase")
    /\ \/ UpdateIs("done") /\ w' = [w EXCEPT !.keys = Without(@, op.index)]
       \/ UpdateIs("failed") /\ UNCHANGED w
    /\ TakeResult
    /\ Finished

---------------------------------------------------------------------------
\* save: the suffix gets the size of the encrypted cache, then its bytes, then a flush.

Cache == [keys |-> w.keys, password |-> w.password]
SaveOp(n) == [kind |-> "save", at |-> "resize", size |-> n]

save ==
    /\ Idle
    /\ \E n \in SuffixSizes : op' = SaveOp(n)
    /\ UNCHANGED <<dir, vec, upd, w>>

resizeSuffix ==
    /\ Busy("save", "resize")
    /\ w' = [w EXCEPT !.saved = Unsure]
    /\ IF Mapped.suffix.size # op.size
       THEN atomicUpdate(ResizedSuffix(Mapped, op.size)) /\ Goto("resizing")
       ELSE Goto("copy") /\ UNCHANGED <<dir, vec, upd>>

ResizeEnds ==
    /\ Busy("save", "resizing")
    /\ \/ UpdateIs("done") /\ Goto("copy")
       \/ UpdateIs("failed") /\ Finished
    /\ TakeResult
    /\ UNCHANGED w

\* The bytes are copied into the mapping, so part of them may be there at a crash.
CopySuffix ==
    /\ Busy("save", "copy")
    /\ Write([Mapped EXCEPT !.suffix.holds = Torn])
    /\ Goto("copied")
    /\ UNCHANGED <<vec, upd, w>>

SuffixCopied ==
    /\ Busy("save", "copied")
    /\ Write([Mapped EXCEPT !.suffix.holds = Cache])
    /\ Goto("flush")
    /\ UNCHANGED <<vec, upd, w>>

SaveEnds ==
    /\ Busy("save", "flush")
    /\ \/ flush /\ w' = [w EXCEPT !.saved = Cache]
       \/ "flush" \in Fallible /\ UNCHANGED <<dir, w>>
    /\ Finished
    /\ UNCHANGED <<vec, upd>>

---------------------------------------------------------------------------
\* changePassword: keys and cache are written anew under the other key, in one update.

Reencrypted(image, p) ==
    [image EXCEPT
        !.prefix = p,
        !.data = [i \in DOMAIN @ |-> IF i <= image.size THEN [@[i] EXCEPT !.password = p]
                                                        ELSE Blank],
        !.suffix.holds = IF @ \in {Blank, Torn} THEN @ ELSE [@ EXCEPT !.password = p]]

changePassword ==
    /\ Idle
    /\ \E p \in Passwords \ {w.password} :
         /\ atomicUpdate(Reencrypted(Mapped, p))
         /\ op' = [kind |-> "password", at |-> "update", password |-> p]
    /\ UNCHANGED w

\* A cache that cannot be read back makes the update throw while it fills the new file.
ChangeThrows ==
    /\ Idle
    /\ Mapped.suffix.holds = Torn
    /\ dir' = IF vec = "path" THEN [dir EXCEPT !["bak"] = NoFile] ELSE dir
    /\ UNCHANGED <<vec, upd, w, op>>

PasswordEnds ==
    /\ Busy("password", "update")
    /\ \/ /\ UpdateIs("done")
          /\ w' = [w EXCEPT !.password = op.password,
                            !.saved = IF @ \in {Blank, Unsure} THEN @
                                      ELSE [@ EXCEPT !.password = op.password]]
       \/ UpdateIs("failed") /\ UNCHANGED w
    /\ TakeResult
    /\ Finished

---------------------------------------------------------------------------
\* A crash, and load.

Crash ==
    /\ w.up
    /\ dir' \in CrashDirs
    /\ vec' = Closed
    /\ upd' = NoUpdate
    /\ w' = Down
    /\ op' = NoOp

KeysOf(image) == [i \in 1 .. image.size |-> image.data[i].key]

\* loadContainerStorage: every record must decrypt under the key of the password.
Decrypts(image, p) ==
    /\ WellFormed(image)
    /\ image.prefix = p
    /\ \A i \in 1 .. image.size : image.data[i] # Blank /\ image.data[i].password = p

\* load looks for a version byte at the path before the storage is opened.  A cache
\* that does not match the keys is saved anew; one that cannot be read is dropped.
load ==
    /\ ~w.up
    /\ Exists(dir, "path")
    /\ LET image == Recovered(dir)["path"].mem
           cache == image.suffix.holds
       IN  \E p \in Passwords :
             /\ Decrypts(image, p)
             /\ w' = [up |-> TRUE, keys |-> KeysOf(image), password |-> p,
                      saved |-> IF cache = Torn THEN Unsure ELSE cache]
             /\ IF cache \in {Blank, Torn} \/ Range(cache.keys) = Range(KeysOf(image))
                THEN op' = NoOp
                ELSE \E n \in SuffixSizes : op' = SaveOp(n)
    /\ dir' = Recovered(dir)
    /\ vec' = "path"
    /\ UNCHANGED upd

---------------------------------------------------------------------------

Update == UpdateStep /\ UNCHANGED <<w, op>>
Create == \/ createAddresses \/ PushBack \/ ReserveEnds \/ PutElement \/ flushElement
          \/ GrowSize \/ FlushGrown \/ addWallet \/ RollbackAdd
Delete == deleteAddress \/ EraseEnds
Save == save \/ resizeSuffix \/ ResizeEnds \/ CopySuffix \/ SuffixCopied \/ SaveEnds
Password == changePassword \/ ChangeThrows \/ PasswordEnds
Next == Update \/ Create \/ Delete \/ Save \/ Password \/ Crash \/ load

Spec == Init /\ [][Next]_svars

---------------------------------------------------------------------------
\* Properties.

\* Type correctness of the names and of the wallet in memory.
TypeOK ==
    /\ DOMAIN dir = Names
    /\ vec \in {"path", "bak", Closed}
    /\ w.up => IsInjective(w.keys) /\ Range(w.keys) \subseteq Keys

\* The addresses a restart may find: those of the wallet, with or without the effect
\* of the operation in progress.
Possible ==
    {w.keys} \cup
    (IF op = NoOp THEN {}
     ELSE IF op.kind = "create" THEN {w.keys \o SubSeq(op.batch, op.next, op.next)}
     ELSE IF op.kind = "delete" THEN {Without(w.keys, op.index)}
     ELSE {})

PossiblePasswords ==
    {w.password} \cup (IF op # NoOp /\ op.kind = "password" THEN {op.password} ELSE {})

\* Whenever the process or the machine stops, opening the vector again finds every
\* address of the wallet and none it never had, readable under the password in force.
Survives ==
    w.up => \A d \in CrashDirs :
              LET r == Recovered(d)
              IN  /\ Exists(r, "path")
                  /\ \E p \in PossiblePasswords : Decrypts(r["path"].mem, p)
                  /\ KeysOf(r["path"].mem) \in Possible

\* Between operations the file lists the addresses of the wallet in the wallet's order,
\* as the assertions of deleteAddress want it.
SameOrder == w.up /\ op = NoOp => WellFormed(Mapped) /\ KeysOf(Mapped) = w.keys

\* Between operations the file the vector has mapped is the one a restart opens, so
\* what is written in place is not lost with a stale copy.
MappedIsOpened == Idle => Recovered(dir)["path"] = dir[vec]

\* Between operations a cache whose saving was reported done is what a restart reads.
SaveKept ==
    Idle /\ w.saved # Unsure => \A d \in CrashDirs :
                                   Recovered(d)["path"].mem.suffix.holds = w.saved
=============================================================================
