----------------------------- MODULE CoreRestart -----------------------------
(***************************************************************************)
(* What CoreChain keeps across a restart: the chain of a node that was     *)
(* stopped or killed, compared with the chain it has once load is done.    *)
(***************************************************************************)
EXTENDS CoreChain, SequencesExt

\* When a node starts, whatever stopped it, the index that the binary search of
\* findCommonRoot returns is one at which the file and the database have the same
\* block, and at the next they differ or one of them ends: load cuts at a place where
\* the two chains part.  As long as every switch was to a leaf segment that stands on the
\* main chain, one of the two is a prefix of the other and nothing common is cut.
CommonRootExact ==
    pc = "down" =>
    LET root == FindCommonRoot(mainChainStorage, Database)
        last == Min({Len(mainChainStorage), Len(Database)}) - 1
    IN  /\ mainChainStorage[root + 1] = Database[root + 1]
        /\ root = last \/ mainChainStorage[root + 2] # Database[root + 2]
        /\ ~nestedSwitch => /\ IsPrefix(mainChainStorage, Database) \/ IsPrefix(Database, mainChainStorage)
                            /\ root = last

Within(n, s, t) ==
    /\ IsPrefix(s, t) \/ IsPrefix(t, s)
    /\ Len(s) - Len(t) \in -n .. n

\* After save and load the node has the chain it had.  A crash outside of a switch
\* costs or adds the one block whose write it hit; a crash within a switch leaves a
\* prefix of the chain that was left or of the new one.
RestartKeepsChain ==
    [][pc' = "running" /\ pc \in {"down", "importing"} /\ ~nestedSwitch =>
        /\ stopped.how = "saved" => MainChain' = stopped.chain
        /\ stopped.how \in {"running", "pushing", "saving", "noLeafToReplace"} =>
              Within(1, MainChain', stopped.chain)
        /\ stopped.how \in {"popping", "refilling"} =>
              IsPrefix(MainChain', stopped.chain) \/ IsPrefix(MainChain', stopped.left)]_vars
=============================================================================
