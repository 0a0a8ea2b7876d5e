-------------------------------- MODULE PeerNet --------------------------------
(***************************************************************************)
(* What a node knows of its peers: the connections (src/src/p2p/mod.rs)    *)
(* and the two lists that follow them, dials asked for on the dashboard,   *)
(* what peers gossip of themselves (provider_tracker.rs, the cards of      *)
(* a2a/state.rs), the node's own announcements (runtime.rs, cli/serve.rs)  *)
(* and the tasks peers create by JSON-RPC (a2a/jsonrpc.rs).                *)
(*                                                                         *)
(* The serve loop takes one event of the swarm, updates the network's      *)
(* list, then the dashboard's.  A peer may have several connections, and   *)
(* messages of one peer may arrive in any order.  An announcement is known *)
(* by its number; OldAge is the number of ones after which one is expired. *)
(***************************************************************************)
EXTENDS Naturals, Sequences, FiniteSets

CONSTANTS
    Peers,
    MaxLinks, MaxSent,          \* bounds on connections of a peer and its announcements
    OldAge,
    DialRoom,                   \* dials that can wait
    Posts,                      \* requests that change the sharing configuration
    A2aTasks,
    None

Events == [type : {"PeerConnected", "PeerDisconnected"}, peer : Peers]

PeerNetAssumption ==
    /\ MaxLinks \in Nat \ {0} /\ MaxSent \in Nat /\ OldAge \in Nat /\ DialRoom \in Nat
    /\ None \notin Events

Kinds == {"manifest", "card"}
Settings == {"enabled", "limits"}

VARIABLES
    links,              \* connections of each peer
    listed,             \* connected_peers of the network
    shown,              \* of the dashboard: how often it lists each peer
    event,              \* the event the loop is at
    dials,              \* dials that wait for the loop
    sent, flying,       \* announcements of each peer; those under way
    known,              \* of each kind and peer, the announcement that is kept
    sharing, posts,     \* the sharing configuration; the copy each request changes
    a2a                 \* status of each task, None before it is created

vars == <<links, listed, shown, event, dials, sent, flying, known, sharing, posts, a2a>>

Init ==
    /\ links = [p \in Peers |-> 0] /\ listed = {} /\ shown = [p \in Peers |-> 0]
    /\ event = None /\ dials = 0
    /\ sent = [p \in Peers |-> 0] /\ flying = {}
    /\ known = [k \in Kinds |-> [p \in Peers |-> 0]]
    /\ sharing = {} /\ posts = [q \in Posts |-> None] /\ a2a = [t \in A2aTasks |-> None]

-------------------------------------------------------------------------------
(* Connections                                                             *)

ConnectionEstablished(p) ==
    /\ event = None /\ links[p] < MaxLinks
    /\ links' = [links EXCEPT ![p] = @ + 1]
    /\ listed' = listed \cup {p}
    /\ event' = [type |-> "PeerConnected", peer |-> p]
    /\ UNCHANGED <<shown, dials, sent, flying, known, sharing, posts, a2a>>

\* One of the peer's connections closes; the peer is taken off the list.
ConnectionClosed(p) ==
    /\ event = None /\ links[p] > 0
    /\ links' = [links EXCEPT ![p] = @ - 1]
    /\ listed' = listed \ {p}
    /\ event' = [type |-> "PeerDisconnected", peer |-> p]
    /\ UNCHANGED <<shown, dials, sent, flying, known, sharing, posts, a2a>>

\* The dashboard's list is a vector: a peer is pushed, and all of it removed.
Show ==
    /\ event # None
    /\ shown' = [shown EXCEPT ![event.peer] =
                    IF event.type = "PeerConnected" THEN @ + 1 ELSE 0]
    /\ event' = None
    /\ UNCHANGED <<links, listed, dials, sent, flying, known, sharing, posts, a2a>>

Dial ==
    /\ dials < DialRoom /\ dials' = dials + 1
    /\ UNCHANGED <<links, listed, shown, event, sent, flying, known, sharing, posts, a2a>>

\* All that wait are dialled; what comes of it is an event of the swarm.
TakeDials ==
    /\ event = None /\ dials > 0 /\ dials' = 0
    /\ UNCHANGED <<links, listed, shown, event, sent, flying, known, sharing, posts, a2a>>

-------------------------------------------------------------------------------
(* Announcements                                                           *)

Announce(p) ==
    /\ sent[p] < MaxSent
    /\ sent' = [sent EXCEPT ![p] = @ + 1]
    /\ flying' = flying \cup {[kind |-> k, peer |-> p, number |-> sent[p] + 1] : k \in Kinds}
    /\ UNCHANGED <<links, listed, shown, event, dials, known, sharing, posts, a2a>>

Expired(m) == sent[m.peer] - m.number > OldAge

\* handle_gossip_message: an expired manifest is passed over, anything else
\* replaces what was known.
Gossip(m) ==
    /\ event = None
    /\ flying' = flying \ {m}
    /\ known' = IF m.kind = "manifest" /\ Expired(m) THEN known
                ELSE [known EXCEPT ![m.kind][m.peer] = m.number]
    /\ UNCHANGED <<links, listed, shown, event, dials, sent, sharing, posts, a2a>>

Lose(m) ==
    /\ flying' = flying \ {m}
    /\ UNCHANGED <<links, listed, shown, event, dials, sent, known, sharing, posts, a2a>>

-------------------------------------------------------------------------------
(* The sharing configuration of the dashboard                              *)

ReadConfig(q) ==
    /\ posts[q] = None
    /\ \E s \in Settings : posts' = [posts EXCEPT ![q] = [sets |-> s, copy |-> sharing]]
    /\ UNCHANGED <<links, listed, shown, event, dials, sent, flying, known, sharing, a2a>>

WriteConfig(q) ==
    /\ posts[q] # None
    /\ sharing' = posts[q].copy \cup {posts[q].sets}
    /\ posts' = [posts EXCEPT ![q] = None]
    /\ UNCHANGED <<links, listed, shown, event, dials, sent, flying, known, a2a>>

-------------------------------------------------------------------------------
(* Tasks of peers                                                          *)

\* tasks/create; message/send goes on to complete its task with an echo.
CreateTask(t, replies) ==
    /\ a2a[t] = None
    /\ a2a' = [a2a EXCEPT ![t] = IF replies THEN "sending" ELSE "working"]
    /\ UNCHANGED <<links, listed, shown, event, dials, sent, flying, known, sharing, posts>>

Complete(t) ==
    /\ a2a[t] = "sending"
    /\ a2a' = [a2a EXCEPT ![t] = "completed"]
    /\ UNCHANGED <<links, listed, shown, event, dials, sent, flying, known, sharing, posts>>

\* Nobody knows the name of a message's task before it is answered.
CancelTask(t) ==
    /\ a2a[t] \in {"working", "completed", "canceled"}
    /\ a2a' = [a2a EXCEPT ![t] = "canceled"]
    /\ UNCHANGED <<links, listed, shown, event, dials, sent, flying, known, sharing, posts>>

Next ==
    \/ \E p \in Peers : ConnectionEstablished(p) \/ ConnectionClosed(p) \/ Announce(p)
    \/ Show \/ Dial \/ TakeDials
    \/ \E m \in flying : Gossip(m) \/ Lose(m)
    \/ \E q \in Posts : ReadConfig(q) \/ WriteConfig(q)
    \/ \E t \in A2aTasks :
          CreateTask(t, TRUE) \/ CreateTask(t, FALSE) \/ Complete(t) \/ CancelTask(t)

Spec == Init /\ [][Next]_vars

-------------------------------------------------------------------------------
(* Properties                                                              *)

\* However a peer's connections come and go, both lists name only peers that
\* have one, between events they name the same peers, and the dashboard
\* names none more often than it has connections.
ListsAgree ==
    /\ \A p \in listed : links[p] > 0
    /\ event = None => /\ listed = {p \in Peers : shown[p] > 0}
                       /\ \A p \in Peers : shown[p] <= links[p]

\* A peer that has a connection is listed (p2p/mod.rs: "Get the list of
\* connected peers.").
ConnectedAreListed == \A p \in Peers : links[p] > 0 => p \in listed

\* The card that is kept of a peer is the latest that came (a2a/state.rs:
\* "Remote peer_id -> latest card").
CardIsLatest ==
    [][\A p \in Peers : known'["card"][p] >= known["card"][p]]_known

===============================================================================
