-------------------------- MODULE FileMappedVector --------------------------
(***************************************************************************)
(* A vector kept in a memory-mapped file (Common/FileMappedVector.h over    *)
(* System/MemoryMappedFile).  Elements are appended and removed in place,   *)
(* one flushed cell at a time.  Every change of layout (a larger capacity,  *)
(* an erased element, another suffix size, other keys) goes through         *)
(* atomicUpdate0: a new file is written beside the old one, the old file is *)
(* renamed to ".bak" and the new one renamed into its place.  A file has an *)
(* image the process sees (mem) and one that is surely on disk (dsk); after *)
(* a power loss each unflushed cell has either value.                       *)
(***************************************************************************)
EXTENDS Integers, Sequences, FiniteSets, Functions

CONSTANTS
    PowerLoss,      \* TRUE: a crash loses unflushed cells; FALSE: the process dies
    Fallible        \* the file operations that may fail

VARIABLES
    dir,            \* the file under each name, or NoFile
    vec,            \* the vector: the name of the file it has mapped, or Closed
    upd             \* the progress of atomicUpdate0

Names == {"path", "bak", "tmp"}
NoFile == [none |-> TRUE]
Closed == "closed"
Blank == [none |-> TRUE]
Torn == [torn |-> TRUE]
NoUpdate == [at |-> "none"]
WordModulus == 2 ^ 20           \* stands for 2^64

Exists(d, name) == d[name] # NoFile
Image(name) == dir[name].mem
Mapped == Image(vec)

\* The outcome of the update that has just ended, for the operation that asked for it.
Ended(result) == [at |-> "none", result |-> result]
UpdateIdle == upd = NoUpdate
UpdateIs(result) == upd.at = "none" /\ ~UpdateIdle /\ upd.result = result

---------------------------------------------------------------------------
\* Images.

NewImage(prefix, capacity, cells, suffix) ==
    [prefix |-> prefix, size |-> Len(cells), suffix |-> suffix,
     data |-> [i \in 1 .. capacity |-> IF i <= Len(cells) THEN cells[i] ELSE Blank]]

capacity(image) == Len(image.data)
Cells(image) == SubSeq(image.data, 1, image.size)
nextCapacity(image) == capacity(image) + capacity(image) \div 2 + 1

Reserved(image, n) ==
    IF n > capacity(image) THEN NewImage(image.prefix, n, Cells(image), image.suffix) ELSE image

\* A sequence without its element at i: the later ones move up.
Without(s, i) == [j \in 1 .. Len(s) - 1 |-> IF j < i THEN s[j] ELSE s[j + 1]]

Erased(image, i) ==
    NewImage(image.prefix, capacity(image), Without(Cells(image), i), image.suffix)

\* The suffix is a size and what its bytes hold.  Shrinking cuts the old bytes short.
ResizedSuffix(image, n) ==
    NewImage(image.prefix, capacity(image), Cells(image),
             [size |-> n,
              holds |-> IF n < image.suffix.size THEN Torn ELSE image.suffix.holds])

\* What FileMappedVector::open(path, prefixSize) accepts.
WellFormed(image) == image.size <= capacity(image)

---------------------------------------------------------------------------
\* Changes of the mapped file in place.

Write(image) == dir' = [dir EXCEPT ![vec].mem = image]

FlushCell(i) == dir' = [dir EXCEPT ![vec].dsk.data[i] = Mapped.data[i]]
flushSize == dir' = [dir EXCEPT ![vec].dsk.size = Mapped.size]
flush == dir' = [dir EXCEPT ![vec].dsk = Mapped]

PutBack(cell) == Write([Mapped EXCEPT !.data[Mapped.size + 1] = cell])
Grow == Write([Mapped EXCEPT !.size = @ + 1])
Shrink == [Mapped EXCEPT !.size = (@ - 1) % WordModulus]

---------------------------------------------------------------------------
\* atomicUpdate0.

\* An update ends with an exception: the temporary file is deleted on the way out.
Throw(d) == /\ dir' = [d EXCEPT !["tmp"] = NoFile]
            /\ upd' = Ended("failed")

\* The vector must be mapped to its own file; a ".bak" left behind is removed.
atomicUpdate(image) ==
    /\ UpdateIdle
    /\ UNCHANGED vec
    /\ IF vec # "path"
       THEN Throw(dir)
       ELSE \/ /\ dir' = [dir EXCEPT !["bak"] = NoFile]
               /\ upd' = [at |-> "create", image |-> image]
            \/ "removeBak" \in Fallible /\ Exists(dir, "bak") /\ Throw(dir)

\* The temporary file is created and filled through its mapping.
CreateTmp ==
    /\ upd.at = "create"
    /\ UNCHANGED vec
    /\ \/ /\ dir' = [dir EXCEPT !["tmp"] =
                        [mem |-> upd.image,
                         dsk |-> NewImage(Blank, capacity(upd.image), <<>>,
                                          [size |-> upd.image.suffix.size, holds |-> Torn])]]
          /\ upd' = [upd EXCEPT !.at = "flush"]
       \/ "create" \in Fallible /\ Throw(dir)

FlushTmp ==
    /\ upd.at = "flush"
    /\ UNCHANGED vec
    /\ \/ /\ dir' = [dir EXCEPT !["tmp"].dsk = Image("tmp")]
          /\ upd' = [upd EXCEPT !.at = "renameOld"]
       \/ "flushTmp" \in Fallible /\ Throw(dir)

\* Mutant: the old file is deleted before the new one takes its name.
DeleteOld ==
    /\ upd.at = "renameOld"
    /\ \/ /\ dir' = [dir EXCEPT !["bak"] = NoFile, !["path"] = NoFile]
          /\ vec' = "bak"
          /\ upd' = [upd EXCEPT !.at = "renameNew"]
       \/ "renameOld" \in Fallible /\ Throw(dir) /\ UNCHANGED vec

RenameOld ==
    /\ upd.at = "renameOld"
    /\ \/ /\ dir' = [dir EXCEPT !["bak"] = dir["path"], !["path"] = NoFile]
          /\ vec' = "bak"
          /\ upd' = [upd EXCEPT !.at = "renameNew"]
       \/ "renameOld" \in Fallible /\ Throw(dir) /\ UNCHANGED vec

\* When the new file cannot take its name the old one is renamed back, if that works.
RenameNew ==
    /\ upd.at = "renameNew"
    /\ \/ /\ dir' = [dir EXCEPT !["path"] = dir["tmp"], !["tmp"] = NoFile]
          /\ upd' = [upd EXCEPT !.at = "swap"]
          /\ UNCHANGED vec
       \/ /\ "renameNew" \in Fallible
          /\ Throw([dir EXCEPT !["path"] = dir["bak"], !["bak"] = NoFile])
          /\ vec' = "path"
       \/ /\ {"renameNew", "restore"} \subseteq Fallible
          /\ Throw(dir)
          /\ UNCHANGED vec

\* The vector maps the new file; removing the old one may fail unnoticed.
SwapFiles ==
    /\ upd.at = "swap"
    /\ vec' = "path"
    /\ upd' = Ended("done")
    /\ \/ dir' = [dir EXCEPT !["bak"] = NoFile]
       \/ "removeBak" \in Fallible /\ UNCHANGED dir

UpdateStep == CreateTmp \/ FlushTmp \/ RenameOld \/ RenameNew \/ SwapFiles

---------------------------------------------------------------------------
\* A crash, and what it leaves.

LostSuffixes(file) ==
    {file.mem.suffix, file.dsk.suffix}
      \cup (IF file.mem.suffix = file.dsk.suffix THEN {}
            ELSE {[file.mem.suffix EXCEPT !.holds = Torn]})

LostCells(file) ==
    {c \in [DOMAIN file.mem.data -> {file.mem.data[i] : i \in DOMAIN file.mem.data}
                                      \cup {file.dsk.data[i] : i \in DOMAIN file.dsk.data}] :
        \A i \in DOMAIN c : c[i] \in {file.mem.data[i], file.dsk.data[i]}}

CrashImages(file) ==
    IF ~PowerLoss
    THEN {file.mem}
    ELSE {[prefix |-> file.mem.prefix, size |-> n, suffix |-> s, data |-> c] :
            n \in {file.mem.size, file.dsk.size}, s \in LostSuffixes(file), c \in LostCells(file)}

Settled(image) == [mem |-> image, dsk |-> image]

\* The directories a crash at this moment can leave; temporary names are never reused.
CrashDirs ==
    LET left(name) == IF Exists(dir, name) THEN {Settled(i) : i \in CrashImages(dir[name])}
                                           ELSE {NoFile}
    IN  {[path |-> p, bak |-> b, tmp |-> NoFile] : p \in left("path"), b \in left("bak")}

\* FileMappedVector::open: what becomes of the two names before the file is mapped.
Recovered(d) ==
    IF Exists(d, "path") THEN [d EXCEPT !["bak"] = NoFile]
    ELSE IF Exists(d, "bak") THEN [d EXCEPT !["path"] = d["bak"], !["bak"] = NoFile]
    ELSE d
=============================================================================
