------------------------------ MODULE PeerLists ------------------------------
(***************************************************************************)
(* The white and gray peer lists of several nodes that exchange them in    *)
(* handshakes and timed exchanges.  A list maps addresses to the time they *)
(* were last seen: addresses are unique in a list, and its order is only   *)
(* looked at after a sort by that time.  Clocks run alike and may differ.   *)
(***************************************************************************)
EXTENDS Integers, FiniteSets, FiniteSetsExt, Functions

CONSTANTS
    Node, Addr,
    Forbidden,   \* addresses that is_ip_allowed refuses
    Offset,      \* Offset[n]: the clock of n ahead of the true time, at first
    SetBacks,    \* the clocks that may be set right by setting them back
    MaxTime,     \* how long we look
    WhiteLimit, GrayLimit,   \* P2P_LOCAL_WHITE_PEERLIST_LIMIT, P2P_LOCAL_GRAY_PEERLIST_LIMIT
    Depth        \* P2P_DEFAULT_PEERS_IN_HANDSHAKE

VARIABLES
    now, ahead,    \* the true time, and how far the clocks are ahead of it
    white, gray,   \* white[n], gray[n]: last_seen by address
    net,           \* lists under way: [to, list, time], the time by the sender's clock
    refused        \* a node has refused the list of another

vars == <<now, ahead, white, gray, net, refused>>
Clock(n) == now + ahead[n]

-----------------------------------------------------------------------------
\* The sets of k addresses of a list that come first when it is sorted, newest first; the sort
\* does not say which of two that were seen at the same time is first.
Newest(l, k) ==
    {s \in kSubset(k, DOMAIN l) : \A a \in s, b \in DOMAIN l \ s : l[a] >= l[b]}

Put(l, a, t) == [x \in DOMAIN l \cup {a} |-> IF x = a THEN t ELSE l[x]]

\* Peerlist::trim.
trim(l, limit) ==
    IF Cardinality(DOMAIN l) <= limit THEN {l} ELSE {Restrict(l, s) : s \in Newest(l, limit)}

append_white_only(w, g, a, t) ==
    IF a \in Forbidden THEN {<<w, g>>}
    ELSE {<<x, g>> : x \in IF a \in DOMAIN w THEN {Put(w, a, t)} ELSE trim(Put(w, a, t), WhiteLimit)}
\* The pairs of lists that may result.  The new peer leaves the gray list even if the trim
\* did not leave it in the white one.
append_with_peer_white(w, g, a, t) ==
    IF a \in Forbidden THEN {<<w, g>>}
    ELSE {<<x, Restrict(g, DOMAIN g \ {a})>> :
            x \in IF a \in DOMAIN w THEN {Put(w, a, t)} ELSE trim(Put(w, a, t), WhiteLimit)}

append_with_peer_gray(w, g, a, t) ==
    CASE a \in Forbidden \cup DOMAIN w -> {g}
      [] a \notin Forbidden \cup DOMAIN w /\ a \in DOMAIN g -> {Put(g, a, t)}
      [] OTHER -> trim(Put(g, a, t), GrayLimit)

\* merge_peerlist, in the order in which the peers were sent, newest first; the trim at its
\* end finds nothing to do.
merge_peerlist(w, g, list) ==
    LET f[s \in SUBSET DOMAIN list] ==
            IF s = {} THEN {g}
            ELSE LET last == {a \in s : \A b \in s : list[a] <= list[b]}
                 IN UNION {UNION {append_with_peer_gray(w, h, a, list[a]) : h \in f[s \ {a}]} : a \in last}
    IN f[DOMAIN list]
\* What fix_time_delta makes of the times, and whether it lets the list in.
fix_time_delta(list, local_time, t) == [a \in DOMAIN list |-> list[a] + t - local_time]
TimesAllowed(list, local_time) == \A a \in DOMAIN list : list[a] <= local_time

\* get_peerlist_head counts after the peer has been pushed, so that two more than depth go in.
get_peerlist_head(w) ==
    LET seen == {a \in DOMAIN w : w[a] # 0}
        l == Restrict(w, seen)
    IN IF Cardinality(seen) <= Depth + 2 THEN {l} ELSE {Restrict(l, s) : s \in Newest(l, Depth + 2)}

-----------------------------------------------------------------------------
\* A handshake or a ping with the peer at a succeeded: set_peer_just_seen and the other uses
\* of append_with_peer_white.
Seen(n, a) ==
    /\ \E r \in append_with_peer_white(white[n], gray[n], a, Clock(n)) :
         /\ white' = [white EXCEPT ![n] = r[1]]
         /\ gray' = [gray EXCEPT ![n] = r[2]]
    /\ UNCHANGED <<now, ahead, net, refused>>

\* handle_handshake and handle_timed_sync answer with the head of the list and the time.
Answer(n, m) ==
    /\ \A x \in net : x.to # m
    /\ \E l \in get_peerlist_head(white[n]) : net' = net \cup {[to |-> m, list |-> l, time |-> Clock(n)]}
    /\ UNCHANGED <<now, ahead, white, gray, refused>>

\* handle_remote_peerlist.
Receive(x) ==
    /\ net' = net \ {x}
    /\ \/ /\ ~TimesAllowed(x.list, x.time)
          /\ refused' = TRUE /\ UNCHANGED gray
       \/ /\ TimesAllowed(x.list, x.time)
          /\ \E g \in merge_peerlist(white[x.to], gray[x.to], fix_time_delta(x.list, x.time, Clock(x.to))) :
               gray' = [gray EXCEPT ![x.to] = g]
          /\ UNCHANGED refused
    /\ UNCHANGED <<now, ahead, white>>

Tick ==
    /\ now < MaxTime /\ now' = now + 1
    /\ UNCHANGED <<ahead, white, gray, net, refused>>

SetBack(n) ==
    /\ ahead[n] > 0 /\ ahead' = [ahead EXCEPT ![n] = 0]
    /\ UNCHANGED <<now, white, gray, net, refused>>

Init ==
    /\ now = 1 /\ ahead = Offset /\ net = {} /\ refused = FALSE
    /\ white = [n \in Node |-> <<>>] /\ gray = [n \in Node |-> <<>>]

Next ==
    \/ Tick
    \/ \E n \in SetBacks : SetBack(n)
    \/ \E n \in Node, a \in Addr : Seen(n, a)
    \/ \E n, m \in Node : n # m /\ Answer(n, m)
    \/ \E x \in net : Receive(x)

Spec == Init /\ [][Next]_vars

-----------------------------------------------------------------------------
\* An address is in one list at most, and both keep to their limits.
ListsApart ==
    \A n \in Node : /\ DOMAIN white[n] \cap DOMAIN gray[n] = {}
                    /\ Cardinality(DOMAIN white[n]) <= WhiteLimit
                    /\ Cardinality(DOMAIN gray[n]) <= GrayLimit

\* However far apart the clocks are and however long a list travels, no peer was last seen in
\* the future of the node that has it in its lists, unless that node's clock is set back.
NoFuture ==
    \A n \in Node : /\ \A a \in DOMAIN white[n] : white[n][a] <= Clock(n)
                    /\ \A a \in DOMAIN gray[n] : gray[n][a] <= Clock(n)

\* No node refuses the list of another that runs the same code and whose clock is not set back.
ListsAreAccepted == ~refused
=============================================================================
