------------------------------- MODULE Messaging -------------------------------
(***************************************************************************)
(* Channels to people and peers (src/src/messaging): a Telegram channel,   *)
(* whose task polls the bot server for updates, a channel of the peer      *)
(* network, and a registry that connects, disconnects and sends through    *)
(* all of them.  A caller uses a channel alone, except to send: the lock   *)
(* of the registry's handles, or the owner's exclusive reference.          *)
(*                                                                         *)
(* Updates are numbered in the order the server has them; a network        *)
(* message is known by its peer.  A webhook channel does what the network  *)
(* channel does, without its list of peers.                                *)
(***************************************************************************)
EXTENDS Naturals, Sequences, FiniteSets

CONSTANTS
    Callers,
    MaxUpdates, Filtered,       \* updates of the server, and those of chats not allowed
    Friends, Strangers,         \* peers that are allowed and that are not
    Capacity,                   \* of a queue (256; max_pending)
    MaxConnects,                \* a bound on connections of the bot
    None

MessagingAssumption ==
    /\ MaxUpdates \in Nat /\ Capacity \in Nat \ {0} /\ MaxConnects \in Nat
    /\ Filtered \subseteq 1..MaxUpdates /\ None \notin 1..MaxUpdates

Channels == {"telegram", "p2p"}

VARIABLES
    registered, connected,
    op,                 \* of each caller: what it does, where it still will, where it is
    incoming,           \* the queue of each channel
    outgoing,           \* messages queued for the network layer
    poller,             \* the polling task: its offset, its answer, the update it holds
    confirmed, updates, \* the server: updates it forgot, and updates there are
    got,                \* the updates that were received
    connects

vars == <<registered, connected, op, incoming, outgoing, poller, confirmed, updates,
          got, connects>>

Init ==
    /\ registered = Channels /\ connected = {} /\ op = [k \in Callers |-> None]
    /\ incoming = [c \in Channels |-> <<>>] /\ outgoing = 0 /\ poller = None
    /\ confirmed = 0 /\ updates = 0 /\ got = <<>> /\ connects = 0

Peers == Friends \cup Strangers
Uses(k) == IF op[k] = None THEN None ELSE op[k].at
Shared == {"send", "deliver"}
Holding(c) == {k \in Callers : Uses(k) = c}
Free(c, what) == \A k \in Holding(c) : what \in Shared /\ op[k].what \in Shared

Op(what, left, map) == [what |-> what, left |-> left, at |-> None, map |-> map]

\* connect_all, disconnect_all and broadcast read the map until they are through.
All(k, what) ==
    /\ op[k] = None /\ what \in {"connect", "disconnect", "send"}
    /\ \A j \in Callers : op[j] # None => op[j].map # "writes"
    /\ op' = [op EXCEPT ![k] = Op(what, registered, "reads")]
    /\ UNCHANGED <<registered, connected, incoming, outgoing, poller, confirmed, updates,
                   got, connects>>

Remove(k, c) ==
    /\ op[k] = None /\ c \in registered
    /\ \A j \in Callers : op[j] # None => op[j].map = "none"
    /\ registered' = registered \ {c}
    /\ op' = [op EXCEPT ![k] = Op("disconnect", {c}, "writes")]
    /\ UNCHANGED <<connected, incoming, outgoing, poller, confirmed, updates, got, connects>>

\* By its owner, or by the network layer.
One(k, what, c) ==
    /\ op[k] = None
    /\ op' = [op EXCEPT ![k] = Op(what, {c}, "none")]
    /\ UNCHANGED <<registered, connected, incoming, outgoing, poller, confirmed, updates,
                   got, connects>>

\* The test button sends through a channel that is in the map.
Test(k, c) ==
    /\ c \in registered /\ \A j \in Callers : op[j] # None => op[j].map # "writes"
    /\ One(k, "send", c)

\* The next channel, in any order; one that is not connected refuses, and
\* connecting and disconnecting twice does nothing.
Refused(what, c) ==
    \/ what = "connect" /\ c \in connected
    \/ what \in {"send", "receive", "deliver"} /\ c \notin connected

Take(k, c) ==
    /\ op[k] # None /\ op[k].at = None /\ c \in op[k].left /\ Free(c, op[k].what)
    /\ op' = [op EXCEPT ![k].left = @ \ {c},
                        ![k].at = IF Refused(op[k].what, c) THEN None ELSE c]
    /\ UNCHANGED <<registered, connected, incoming, outgoing, poller, confirmed, updates,
                   got, connects>>

Return(k) ==
    /\ op[k] # None /\ op[k].at = None /\ op[k].left = {}
    /\ op' = [op EXCEPT ![k] = None]
    /\ UNCHANGED <<registered, connected, incoming, outgoing, poller, confirmed, updates,
                   got, connects>>

Through(k) == op' = [op EXCEPT ![k].at = None]

\* Mutant: the task begins behind the latest update.
PollerBehind == [offset |-> updates + 1, batch |-> <<>>, holds |-> None]

\* The bot's token is looked up first; then the task starts at offset 0.
Poller == [offset |-> 0, batch |-> <<>>, holds |-> None]

Connect(k, c) ==
    /\ Uses(k) = c /\ op[k].what = "connect" /\ Through(k)
    /\ \/ c = "telegram" /\ UNCHANGED <<connected, poller, connects>>
       \/ /\ c = "telegram" => connects < MaxConnects
          /\ connected' = connected \cup {c}
          /\ poller' = IF c = "telegram" THEN Poller ELSE poller
          /\ connects' = connects + IF c = "telegram" THEN 1 ELSE 0
    /\ UNCHANGED <<registered, incoming, outgoing, confirmed, updates, got>>

\* The task is aborted wherever it waits; the queue stays.
Disconnect(k, c) ==
    /\ Uses(k) = c /\ op[k].what = "disconnect" /\ Through(k)
    /\ connected' = connected \ {c}
    /\ poller' = IF c = "telegram" THEN None ELSE poller
    /\ UNCHANGED <<registered, incoming, outgoing, confirmed, updates, got, connects>>

Receive(k, c) ==
    /\ Uses(k) = c /\ op[k].what = "receive" /\ Through(k)
    /\ incoming[c] # <<>>
    /\ got' = IF c = "telegram" THEN Append(got, Head(incoming[c])) ELSE got
    /\ incoming' = [incoming EXCEPT ![c] = Tail(@)]
    /\ UNCHANGED <<registered, connected, outgoing, poller, confirmed, updates, connects>>

\* try_receive finds nothing.
ReceiveNothing(k, c) ==
    /\ Uses(k) = c /\ op[k].what = "receive" /\ incoming[c] = <<>> /\ Through(k)
    /\ UNCHANGED <<registered, connected, incoming, outgoing, poller, confirmed, updates,
                   got, connects>>

\* A message of the bot is posted, with or without success; one of the
\* network waits for room.
Send(k, c) ==
    /\ Uses(k) = c /\ op[k].what = "send" /\ Through(k)
    /\ c = "p2p" => outgoing < Capacity
    /\ outgoing' = IF c = "p2p" THEN outgoing + 1 ELSE outgoing
    /\ UNCHANGED <<registered, connected, incoming, poller, confirmed, updates, got, connects>>

NetworkTakes ==
    /\ outgoing > 0 /\ outgoing' = outgoing - 1
    /\ UNCHANGED <<registered, connected, op, incoming, poller, confirmed, updates, got, connects>>

\* receive_from_network: refused, or queued when there is room.
Deliver(k, p) ==
    /\ Uses(k) = "p2p" /\ op[k].what = "deliver" /\ Through(k)
    /\ IF p \in Strangers THEN UNCHANGED incoming
       ELSE /\ Len(incoming["p2p"]) < Capacity
            /\ incoming' = [incoming EXCEPT !["p2p"] = Append(@, p)]
    /\ UNCHANGED <<registered, connected, outgoing, poller, confirmed, updates, got, connects>>

Arrive ==
    /\ updates < MaxUpdates /\ updates' = updates + 1
    /\ UNCHANGED <<registered, connected, op, incoming, outgoing, poller, confirmed, got, connects>>

\* A request reaches the server, which forgets what is before its offset; the
\* answer comes or is lost.
Poll ==
    /\ poller # None /\ poller.batch = <<>> /\ poller.holds = None
    /\ LET forgets == IF poller.offset > confirmed + 1 THEN poller.offset - 1 ELSE confirmed
       IN  /\ confirmed' = forgets
           /\ \/ poller' = [poller EXCEPT !.batch = [i \in 1..(updates - forgets) |-> forgets + i]]
              \/ UNCHANGED poller
    /\ UNCHANGED <<registered, connected, op, incoming, outgoing, updates, got, connects>>

\* The offset is set past an update before it is queued.
TakeUpdate ==
    /\ poller # None /\ poller.batch # <<>> /\ poller.holds = None
    /\ LET u == Head(poller.batch)
       IN  poller' = [offset |-> u + 1, batch |-> Tail(poller.batch),
                      holds |-> IF u \in Filtered THEN None ELSE u]
    /\ UNCHANGED <<registered, connected, op, incoming, outgoing, confirmed, updates, got, connects>>

QueueUpdate ==
    /\ poller # None /\ poller.holds # None /\ Len(incoming["telegram"]) < Capacity
    /\ incoming' = [incoming EXCEPT !["telegram"] = Append(@, poller.holds)]
    /\ poller' = [poller EXCEPT !.holds = None]
    /\ UNCHANGED <<registered, connected, op, outgoing, confirmed, updates, got, connects>>

Next ==
    \/ \E k \in Callers :
          \/ \E what \in {"connect", "disconnect", "send"} : All(k, what)
          \/ \E c \in Channels :
                \/ Remove(k, c) \/ One(k, "receive", c) \/ Test(k, c) \/ Take(k, c) \/ Connect(k, c)
                \/ Disconnect(k, c) \/ Receive(k, c) \/ ReceiveNothing(k, c) \/ Send(k, c)
          \/ One(k, "deliver", "p2p") \/ Return(k)
          \/ \E p \in Peers : Deliver(k, p)
    \/ NetworkTakes \/ Arrive \/ Poll \/ TakeUpdate \/ QueueUpdate

Spec == Init /\ [][Next]_vars

-------------------------------------------------------------------------------
(* Properties                                                              *)

Members(s) == {s[i] : i \in DOMAIN s}

\* No update is lost, whenever the channel is disconnected: what the server
\* forgot was queued, and updates are queued in their order (again, perhaps,
\* after a connection).
NoUpdateLost ==
    LET s == got \o incoming["telegram"] IN
    /\ (1..confirmed) \ Filtered \subseteq Members(s)
    /\ \A i \in DOMAIN s : (1..s[i]) \ Filtered \subseteq Members(SubSeq(s, 1, i))

\* A chat that is not allowed, or a stranger, gets nothing into a queue.
OnlyAllowed ==
    /\ Members(incoming["telegram"]) \cap Filtered = {}
    /\ Members(incoming["p2p"]) \cap Strangers = {}

===============================================================================
