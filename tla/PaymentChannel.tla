--------------------------- MODULE PaymentChannel ---------------------------
(***************************************************************************)
(* The off-chain payment channel between two peers (channel/mod.rs,        *)
(* channel/state.rs).  The channel identifier is computed from the two     *)
(* peer identifiers, so a pair of peers has one identifier, and each peer  *)
(* keeps its own record for it: `channels' never forgets that record, and  *)
(* `by_peer' says whether the peer currently has a channel.                *)
(*                                                                         *)
(* The only operation that makes a record is open_channel, so a peer takes *)
(* part in a channel after an open_channel of its own, with an escrow of   *)
(* its own.  The repository has no transport for signed updates and close  *)
(* requests: whoever holds one may present it any number of times, in any  *)
(* order, or never.                                                        *)
(*                                                                         *)
(* A call of the manager that gives up its locks half way (open_channel,   *)
(* finalize_close, force_close_expired) is split there and runs in a task; *)
(* every other call holds the `channels' lock throughout.                  *)
(***************************************************************************)
EXTENDS Integers, Sequences, FiniteSets, TLC

CONSTANTS Peers,        \* the two ends of the channel
          Tasks,        \* concurrent callers of one peer's manager
          Capacities,   \* capacities a peer may open a channel with
          Amounts,      \* amounts a caller may pay
          MaxOpens,     \* bound: escrows both peers create
          MaxCalls,     \* bound: opens and closes in flight at both peers
          MaxCloses,    \* bound: different close requests ever signed
          MaxUpdates    \* bound: different updates ever signed

ASSUME PeersAssumption    == IsFiniteSet(Peers) /\ Cardinality(Peers) = 2
ASSUME CapacityAssumption == Capacities \subseteq Nat /\ Amounts \subseteq Nat
ASSUME BoundAssumption    == {MaxOpens, MaxCalls, MaxCloses, MaxUpdates} \subseteq Nat

VARIABLES chan,     \* chan[p]: p's PaymentChannel record, or NoChannel
          index,    \* index[p]: by_peer of p has an entry for the other peer
          keyed,    \* keyed[p]: p has registered the other peer's public key
          escrow,   \* escrow[p]: amounts of p's channel escrows, in creation order
          task,     \* task[p][t]: where task t of peer p is in its call
          updates,  \* every ChannelUpdate that was ever signed
          closes,   \* every ChannelCloseRequest that was ever signed
          log,      \* history: log[p] = updates made or applied in this life
          got,      \* history: got[p] = amounts of the payments p applied
          overlap   \* history: overlap[p] = an open or close of p began during an open

vars == <<chan, index, keyed, escrow, task, updates, closes, log, got, overlap>>

-----------------------------------------------------------------------------
NoChannel == [status |-> "None"]
Statuses  == {"Opening", "Open", "Closing", "Closed"}

Channels ==
    [status : Statuses, capacity : Nat, local : Nat, remote : Nat, nonce : Nat,
     total_sent : Nat, total_received : Nat, expired : BOOLEAN, fund : Nat]

\* ChannelUpdate with its signer.  `life' (the number of the signer's escrow) and
\* `amount' are history: they are not in the code's message and no guard reads them.
Updates ==
    [by : Peers, nonce : Nat, local : Nat, remote : Nat, life : Nat, amount : Nat]

\* ChannelCloseRequest with its signer.  Its nonce is left out: nothing reads it.
CloseRequests == [by : Peers, local : Nat, remote : Nat]

Idle      == [at |-> "idle"]
TaskState == {Idle, [at |-> "unindex"]}
               \cup [at : {"fund"}, capacity : Nat]
               \cup [at : {"store", "index"}, capacity : Nat, fund : Nat]

Other(p) == CHOOSE q \in Peers : q # p
HasRecord(p) == chan[p] # NoChannel

\* is_operational
Operational(c) == c.status = "Open" /\ ~c.expired

\* PaymentChannel::new: whoever opens starts with the whole capacity.
NewChannel(capacity, fund) ==
    [status |-> "Opening", capacity |-> capacity, local |-> capacity, remote |-> 0,
     nonce |-> 0, total_sent |-> 0, total_received |-> 0, expired |-> FALSE,
     fund |-> fund]

\* The guards of create_payment.
Payable(c, amount) == Operational(c) /\ amount <= c.local

\* The effect of create_payment.
CreatePayment(c, amount) ==
    [c EXCEPT !.local = @ - amount, !.remote = @ + amount, !.nonce = @ + 1,
              !.total_sent = @ + amount]

\* u64::saturating_sub
SaturatingSub(a, b) == IF a > b THEN a - b ELSE 0

\* Forms of the guards of receive_payment that forget the capacity, accept the
\* current nonce again, or forget that the channel may be closed.
AcceptableAnyCapacity(c, u) == Operational(c) /\ u.nonce = c.nonce + 1
AcceptableReplay(c, u) ==
    Operational(c) /\ u.nonce >= c.nonce /\ u.local + u.remote = c.capacity
AcceptableClosed(c, u) ==
    c.status # "Opening" /\ u.nonce = c.nonce + 1 /\ u.local + u.remote = c.capacity

\* The guards of receive_payment on the record.
Acceptable(c, u) ==
    /\ Operational(c)
    /\ u.nonce = c.nonce + 1
    /\ u.local + u.remote = c.capacity

\* The update taken over without changing sides.
ApplyUpdateUnswapped(c, u) ==
    [c EXCEPT !.local = u.local, !.remote = u.remote, !.nonce = u.nonce,
              !.total_received = @ + SaturatingSub(u.local, c.remote)]

\* The effect of receive_payment: the payer's view, seen from the other side.
ApplyUpdate(c, u) ==
    [c EXCEPT !.local = u.remote, !.remote = u.local, !.nonce = u.nonce,
              !.total_received = @ + SaturatingSub(u.local, c.remote)]

Entry(u) == [by |-> u.by, life |-> u.life, nonce |-> u.nonce]

-----------------------------------------------------------------------------
Init ==
    /\ chan = [p \in Peers |-> NoChannel]
    /\ index = [p \in Peers |-> FALSE]
    /\ keyed = [p \in Peers |-> FALSE]
    /\ escrow = [p \in Peers |-> <<>>]
    /\ task = [p \in Peers |-> [t \in Tasks |-> Idle]]
    /\ updates = {}
    /\ closes = {}
    /\ log = [p \in Peers |-> <<>>]
    /\ got = [p \in Peers |-> 0]
    /\ overlap = [p \in Peers |-> FALSE]

\* register_peer_public_key.  The key matters when a message of the other peer
\* meets a record it can change, so registering it earlier makes no difference.
RegisterKey(p) ==
    /\ ~keyed[p]
    /\ chan[p].status \in {"Open", "Closing"}
    /\ \E m \in updates \cup closes : m.by = Other(p)
    /\ keyed' = [keyed EXCEPT ![p] = TRUE]
    /\ UNCHANGED <<chan, index, escrow, task, updates, closes, log, got, overlap>>

CanOpen ==
    Cardinality({e \in Peers \X (1..MaxOpens) : e[2] \in DOMAIN escrow[e[1]]}) < MaxOpens
CanCall ==
    Cardinality({c \in Peers \X Tasks : task[c[1]][c[2]] # Idle}) < MaxCalls

\* A call that starts while an open of the peer is in flight.
NoteOverlap(p) ==
    LET opening == {t \in Tasks : task[p][t].at \in {"fund", "store", "index"}}
    IN  overlap' = [overlap EXCEPT ![p] = @ \/ opening # {}]

\* open_channel: the check of by_peer, whose read lock is given up at once.
OpenCheck(p, t, capacity) ==
    /\ task[p][t] = Idle /\ CanCall
    /\ ~index[p]
    /\ CanOpen
    /\ task' = [task EXCEPT ![p][t] = [at |-> "fund", capacity |-> capacity]]
    /\ NoteOverlap(p)
    /\ UNCHANGED <<chan, index, keyed, escrow, updates, closes, log, got>>

\* open_channel: create_escrow locks the capacity, or its error (too little to
\* spend, the reserve, a failing save) ends the call.
OpenFund(p, t) ==
    /\ task[p][t].at = "fund"
    /\ \/ /\ CanOpen
          /\ escrow' = [escrow EXCEPT ![p] = Append(@, task[p][t].capacity)]
          /\ task' = [task EXCEPT ![p][t] = [at |-> "store", capacity |-> @.capacity,
                                            fund |-> Len(escrow[p]) + 1]]
       \/ /\ task' = [task EXCEPT ![p][t] = Idle]
          /\ UNCHANGED escrow
    /\ UNCHANGED <<chan, index, keyed, updates, closes, log, got, overlap>>

\* open_channel: the new record replaces whatever the identifier had.
OpenStore(p, t) ==
    /\ task[p][t].at = "store"
    /\ chan' = [chan EXCEPT ![p] = NewChannel(task[p][t].capacity, task[p][t].fund)]
    /\ log' = [log EXCEPT ![p] = <<>>]
    /\ got' = [got EXCEPT ![p] = 0]
    /\ task' = [task EXCEPT ![p][t].at = "index"]
    /\ UNCHANGED <<index, keyed, escrow, updates, closes, overlap>>

\* open_channel: by_peer is written under a lock of its own, and the call returns.
OpenIndex(p, t) ==
    /\ task[p][t].at = "index"
    /\ index' = [index EXCEPT ![p] = TRUE]
    /\ task' = [task EXCEPT ![p][t] = Idle]
    /\ UNCHANGED <<chan, keyed, escrow, updates, closes, log, got, overlap>>

\* confirm_channel
Confirm(p) ==
    /\ chan[p].status = "Opening"
    /\ chan' = [chan EXCEPT ![p].status = "Open"]
    /\ UNCHANGED <<index, keyed, escrow, task, updates, closes, log, got, overlap>>

\* pay (and pay_peer, which finds the identifier first): debit, number and sign.
Pay(p, amount) ==
    /\ HasRecord(p) /\ Payable(chan[p], amount)
    /\ Cardinality(updates) < MaxUpdates
    /\ LET c == CreatePayment(chan[p], amount)
           u == [by |-> p, nonce |-> c.nonce, local |-> c.local,
                 remote |-> c.remote, life |-> c.fund, amount |-> amount]
       IN /\ chan' = [chan EXCEPT ![p] = c]
          /\ updates' = updates \cup {u}
          /\ log' = [log EXCEPT ![p] = Append(@, Entry(u))]
    /\ UNCHANGED <<index, keyed, escrow, task, closes, got, overlap>>

\* receive_payment: signer, key and signature, then the record's own guards.  The
\* record is looked up twice, but a record, its peer and a key are never removed.
ReceivePayment(p, u) ==
    /\ HasRecord(p)
    /\ u.by = Other(p)
    /\ keyed[p]
    /\ Acceptable(chan[p], u)
    /\ chan' = [chan EXCEPT ![p] = ApplyUpdate(@, u)]
    /\ log' = [log EXCEPT ![p] = Append(@, Entry(u))]
    /\ got' = [got EXCEPT ![p] = @ + u.amount]
    /\ UNCHANGED <<index, keyed, escrow, task, updates, closes, overlap>>

\* close_channel
CloseChannel(p) ==
    /\ chan[p].status \in {"Open", "Opening"}
    /\ chan' = [chan EXCEPT ![p].status = "Closing"]
    /\ closes' = closes \cup
         {[by |-> p, local |-> chan[p].local, remote |-> chan[p].remote]}
    /\ Cardinality(closes') <= MaxCloses
    /\ UNCHANGED <<index, keyed, escrow, task, updates, log, got, overlap>>

\* finalize_close up to the point where it drops the channels lock.  The request
\* must be the other peer's and add up to the capacity; neither its balances nor
\* its nonce are compared with the record.
FinalizeClose(p, t, r) ==
    /\ task[p][t] = Idle /\ CanCall
    /\ chan[p].status \in {"Closing", "Open"}
    /\ keyed[p]
    /\ r.by = Other(p)
    /\ r.local + r.remote = chan[p].capacity
    /\ chan' = [chan EXCEPT ![p].status = "Closed"]
    /\ task' = [task EXCEPT ![p][t] = [at |-> "unindex"]]
    /\ NoteOverlap(p)
    /\ UNCHANGED <<index, keyed, escrow, updates, closes, log, got>>

\* force_close_expired up to the same point; no balance is settled.
ForceCloseExpired(p, t) ==
    /\ task[p][t] = Idle /\ CanCall
    /\ HasRecord(p) /\ chan[p].expired
    /\ chan[p].status # "Closed"
    /\ chan' = [chan EXCEPT ![p].status = "Closed"]
    /\ task' = [task EXCEPT ![p][t] = [at |-> "unindex"]]
    /\ NoteOverlap(p)
    /\ UNCHANGED <<index, keyed, escrow, updates, closes, log, got>>

\* A close that forgets by_peer.
UnindexForgotten(p, t) ==
    /\ task[p][t].at = "unindex"
    /\ task' = [task EXCEPT ![p][t] = Idle]
    /\ UNCHANGED <<chan, index, keyed, escrow, updates, closes, log, got, overlap>>

\* The end of both closing calls: by_peer forgets the peer.
Unindex(p, t) ==
    /\ task[p][t].at = "unindex"
    /\ index' = [index EXCEPT ![p] = FALSE]
    /\ task' = [task EXCEPT ![p][t] = Idle]
    /\ UNCHANGED <<chan, keyed, escrow, updates, closes, log, got, overlap>>

-----------------------------------------------------------------------------
\* The channel's deadline passes (is_expired); nothing asks that of a closed one.
ChannelExpires(p) ==
    /\ chan[p].status \notin {"None", "Closed"} /\ ~chan[p].expired
    /\ chan' = [chan EXCEPT ![p].expired = TRUE]
    /\ UNCHANGED <<index, keyed, escrow, task, updates, closes, log, got, overlap>>

ManagerCall(p, t) ==
    \/ \E capacity \in Capacities : OpenCheck(p, t, capacity)
    \/ OpenFund(p, t)
    \/ OpenStore(p, t)
    \/ OpenIndex(p, t)
    \/ \E r \in closes : FinalizeClose(p, t, r)
    \/ ForceCloseExpired(p, t)
    \/ Unindex(p, t)

PeerStep(p) ==
    \/ RegisterKey(p)
    \/ Confirm(p)
    \/ \E amount \in Amounts : Pay(p, amount)
    \/ \E u \in updates : ReceivePayment(p, u)
    \/ CloseChannel(p)
    \/ ChannelExpires(p)

Next == \E p \in Peers : PeerStep(p) \/ \E t \in Tasks : ManagerCall(p, t)

Spec == Init /\ [][Next]_vars

-----------------------------------------------------------------------------
\* Every record is a PaymentChannel, every message one that was signed, and every
\* call in flight is at one of the points where the manager gives up its locks.
TypeOK ==
    /\ chan \in [Peers -> Channels \cup {NoChannel}]
    /\ index \in [Peers -> BOOLEAN] /\ keyed \in [Peers -> BOOLEAN]
    /\ escrow \in [Peers -> Seq(Nat)]
    /\ task \in [Peers -> [Tasks -> TaskState]]
    /\ updates \subseteq Updates /\ closes \subseteq CloseRequests
    /\ log \in [Peers -> Seq([by : Peers, life : Nat, nonce : Nat])]
    /\ got \in [Peers -> Nat]
    /\ overlap \in [Peers -> BOOLEAN]

\* The two balances of a record add up to its capacity, and the capacity is what
\* the escrow behind it locked, whatever the other peer sends and however often
\* the channel is opened again (create_payment, receive_payment, open_channel).
CapacityKept ==
    \A p \in Peers : HasRecord(p) =>
        /\ chan[p].local + chan[p].remote = chan[p].capacity
        /\ chan[p].fund \in DOMAIN escrow[p]
        /\ escrow[p][chan[p].fund] = chan[p].capacity

\* In one life of a channel no update is applied twice, and the updates of one
\* signer are applied in the order of signing, although whoever holds a signed
\* update may present it again or late (the nonce test of receive_payment).
NoReplay ==
    \A p \in Peers : \A i, j \in DOMAIN log[p] :
        i < j /\ log[p][i].by = log[p][j].by /\ log[p][i].life = log[p][j].life
            => log[p][i].nonce < log[p][j].nonce

\* Two peers that went through the same updates see the same balances, each from
\* its own side.  (Two payments made at the same time carry the same nonce, both
\* are refused, and the two logs differ from then on.)
Mirrored ==
    \A p, q \in Peers : p # q /\ log[p] = log[q] /\ log[p] # <<>> =>
        chan[p].local = chan[q].remote /\ chan[p].remote = chan[q].local

\* When no call is in flight, by_peer has the other peer exactly when the record is
\* of a channel that is not closed: open_channel never refuses for good, and
\* pay_peer finds a channel that lives.  Both maps are updated under locks of their
\* own, so this relies on the order of the steps.  It is claimed where no open or
\* close of the peer began while an open was in flight: of two opens that pass the
\* check the later one resets the channel, and a close between the two inserts of
\* an open leaves a closed channel that by_peer never gives up.
IndexAgrees ==
    \A p \in Peers :
        (~overlap[p] /\ \A t \in Tasks : task[p][t] = Idle)
            => (index[p] <=> HasRecord(p) /\ chan[p].status # "Closed")

\* A closed channel stays as it was closed: only open_channel touches it again, with
\* a new escrow of its own, and then everything starts over.
ClosedFrozen ==
    [][\A p \in Peers :
         (chan[p].status = "Closed" /\ chan'[p] # chan[p])
            => /\ chan'[p] = NewChannel(chan'[p].capacity, chan'[p].fund)
               /\ chan'[p].fund # chan[p].fund]_vars

\* total_received is what its comment says: the total amount received through the
\* channel.  No run checks it, because the code does not do it: it counts by how
\* much the signer's balance has grown, and a payment only shrinks it.
ReceivedCounted ==
    \A p \in Peers : HasRecord(p) => chan[p].total_received = got[p]

\* A peer's own tasks are interchangeable, and so are the two peers (for TLC).
Symmetry == Permutations(Peers) \cup Permutations(Tasks)
=============================================================================
