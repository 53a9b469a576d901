----------------------------- MODULE PeerHeights -----------------------------
(***************************************************************************)
(* What CryptoNoteProtocolHandler tells others about its peers: how many   *)
(* there are and how high their chains are.  A connection is counted by    *)
(* the handshake and by its closing, which look at its state; its height   *)
(* comes with most commands.  The chain itself is only its height here.    *)
(***************************************************************************)
EXTENDS Integers, FiniteSets, FiniteSetsExt

CONSTANTS
    Conn,        \* connections, each used once
    MaxHeight,   \* heights that peers and this node may have
    CountLimit,  \* m_peersCount wraps at this value
    Stranger,    \* connections of peers of another network or an old version
    Self         \* connections that the node opens to itself

VARIABLES
    ctx,               \* ctx[c]: [listed, used, state, remote, last], listed: in m_connections
    height,            \* of the own chain
    peersCount, observedHeight, blockchainHeight

vars == <<ctx, height, peersCount, observedHeight, blockchainHeight>>

Heights == 1..MaxHeight
Listed == {c \in Conn : ctx[c].listed}

-----------------------------------------------------------------------------
\* The result for the other connections, for a context k of connection c.
recalculateMaxObservedHeight(c, k) ==
    IF k.state = "normal"
    THEN height - 1
    ELSE Max({ctx[d].remote : d \in Listed \ {c}} \cup {0, height})

updateObservedHeight(c, k, peerHeight) ==
    CASE k.remote # 0 /\ k.last <= k.remote - 1 -> k.remote - 1
      [] ~(k.remote # 0 /\ k.last <= k.remote - 1) /\ peerHeight > k.remote -> Max({observedHeight, peerHeight})
      [] OTHER -> IF peerHeight # k.remote /\ k.remote = observedHeight
                  THEN recalculateMaxObservedHeight(c, k)
                  ELSE observedHeight

\* process_payload_sync_data, and the handlers that note the height of the peer: k is the
\* context with its state before, state the new one.
Note(c, k, state, h) ==
    /\ observedHeight' = updateObservedHeight(c, [k EXCEPT !.state = state], h)
    /\ blockchainHeight' = Max({blockchainHeight, h})
    /\ ctx' = [ctx EXCEPT ![c] = [k EXCEPT !.state = state, !.remote = h]]

\* The state after a peer has told its top block, by whether it is known.
Initial == {"pool_sync_required", "sync_required"}
Later(s) == IF s = "synchronizing" THEN {"synchronizing"} ELSE {"normal", "sync_required"}

-----------------------------------------------------------------------------
\* acceptLoop.  The other end of a connection to itself is a connection like others.
Accept(c) ==
    /\ ~ctx[c].used /\ c \notin Self
    /\ ctx' = [ctx EXCEPT ![c].used = TRUE, ![c].listed = TRUE]
    /\ UNCHANGED <<height, peersCount, observedHeight, blockchainHeight>>

\* handle_handshake: a stranger is turned away before it is counted.
HandshakeIn(c) ==
    /\ ctx[c].listed /\ ctx[c].state = "befor_handshake"
    /\ \/ /\ c \in Stranger
          /\ ctx' = [ctx EXCEPT ![c].state = "shutdown"]
          /\ UNCHANGED <<peersCount, observedHeight, blockchainHeight>>
       \/ /\ c \notin Stranger
          /\ \E s \in Initial, h \in Heights : Note(c, ctx[c], s, h)
          /\ peersCount' = (peersCount + 1) % CountLimit
    /\ UNCHANGED height

\* handshake: a connection is listed when it has succeeded; one to itself has been counted by then.
HandshakeOut(c) ==
    /\ ~ctx[c].used /\ c \notin Stranger
    /\ \E s \in Initial, h \in Heights : Note(c, [ctx[c] EXCEPT !.used = TRUE, !.listed = c \notin Self], s, h)
    /\ peersCount' = (peersCount + 1) % CountLimit
    /\ UNCHANGED height

\* connectionHandler is at the head of its loop.
StartLoop(c) ==
    /\ ctx[c].listed /\ ctx[c].state \in Initial
    /\ ctx' = [ctx EXCEPT ![c].state = IF @ = "sync_required" THEN "synchronizing" ELSE "normal"]
    /\ UNCHANGED <<height, peersCount, observedHeight, blockchainHeight>>

\* COMMAND_TIMED_SYNC and its answer; what comes before the handshake is left unread.
TimedSync(c) ==
    /\ ctx[c].listed /\ ctx[c].state \in {"normal", "idle", "synchronizing"}
    /\ \E s \in Later(ctx[c].state), h \in Heights : Note(c, ctx[c], s, h)
    /\ UNCHANGED <<height, peersCount>>

\* NOTIFY_NEW_BLOCK and NOTIFY_NEW_LITE_BLOCK: the height is noted before the block is looked at.
NewBlock(c) ==
    /\ ctx[c].listed /\ ctx[c].state \in {"normal", "idle", "synchronizing"}
    /\ \E h \in Heights : Note(c, ctx[c], ctx[c].state, h)
    /\ UNCHANGED <<height, peersCount>>

\* NOTIFY_RESPONSE_CHAIN_ENTRY sets both heights of the connection and no other.
ChainEntry(c) ==
    /\ ctx[c].listed /\ ctx[c].state = "synchronizing"
    /\ \E total \in Heights, last \in 0..(MaxHeight - 1) :
         /\ last < total
         /\ ctx' = [ctx EXCEPT ![c].remote = total, ![c].last = last]
    /\ UNCHANGED <<height, peersCount, observedHeight, blockchainHeight>>

\* NOTIFY_RESPONSE_GET_OBJECTS; the connection goes on, becomes normal or idle, or is dropped.
Objects(c) ==
    /\ ctx[c].listed /\ ctx[c].state = "synchronizing"
    /\ \E h \in Heights :
         IF ctx[c].last > h
         THEN /\ ctx' = [ctx EXCEPT ![c].state = "shutdown"]
              /\ UNCHANGED <<observedHeight, blockchainHeight>>
         ELSE /\ observedHeight' = updateObservedHeight(c, ctx[c], h)
              /\ blockchainHeight' = Max({blockchainHeight, h})
              /\ \E s \in {"synchronizing", "normal", "idle"} : ctx' = [ctx EXCEPT ![c].remote = h, ![c].state = s]
    /\ UNCHANGED <<height, peersCount>>
\* onConnectionClosed, and the erasure from m_connections.
Counted(k) == k.state # "befor_handshake"
Close(c) ==
    /\ ctx[c].listed
    /\ observedHeight' = recalculateMaxObservedHeight(c, ctx[c])
    /\ peersCount' = IF Counted(ctx[c]) THEN (peersCount - 1) % CountLimit ELSE peersCount
    /\ ctx' = [ctx EXCEPT ![c].listed = FALSE]
    /\ UNCHANGED <<height, blockchainHeight>>

\* The own chain changes.
Grow ==
    /\ \E h \in Heights : h # height /\ height' = h
    /\ UNCHANGED <<ctx, peersCount, observedHeight, blockchainHeight>>

Init ==
    /\ ctx = [c \in Conn |-> [listed |-> FALSE, used |-> FALSE, state |-> "befor_handshake", remote |-> 0, last |-> 0]]
    /\ height = 1 /\ peersCount = 0 /\ observedHeight = 0 /\ blockchainHeight = 0

Next ==
    \/ Grow
    \/ \E c \in Conn : \/ Accept(c) \/ HandshakeIn(c) \/ HandshakeOut(c) \/ StartLoop(c) \/ TimedSync(c)
                       \/ NewBlock(c) \/ ChainEntry(c) \/ Objects(c) \/ Close(c)

Spec == Init /\ [][Next]_vars

-----------------------------------------------------------------------------
\* The number of peers is the number of connections that have shaken hands, whatever the state
\* in which they are closed, but for two drifts that stay for good: each peer that was turned
\* away takes one off, so the count can wrap below zero, and each connection of the node to
\* itself adds one.
PeersCounted ==
    LET peers == {c \in Listed \ Stranger : ctx[c].state # "befor_handshake"}
        refused == {c \in Stranger : ctx[c].state = "shutdown" /\ ~ctx[c].listed}
        lost == {c \in Self : ctx[c].used /\ ~ctx[c].listed}
    IN peersCount = (Cardinality(peers) + Cardinality(lost) - Cardinality(refused)) % CountLimit
=============================================================================
