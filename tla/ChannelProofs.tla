---------------------------- MODULE ChannelProofs ----------------------------
(***************************************************************************)
(* Proofs about PaymentChannel for any two peers, any number of tasks and  *)
(* any capacities, amounts and bounds.                                     *)
(***************************************************************************)
EXTENDS PaymentChannel, FiniteSetTheorems, TLAPS

\* A record that exists is a PaymentChannel.
LEMMA RecordType ==
    ASSUME TypeOK, NEW p \in Peers, HasRecord(p)
    PROVE  chan[p] \in Channels
BY DEF TypeOK, HasRecord

\* A record in one of the statuses exists.
LEMMA StatusType ==
    ASSUME TypeOK, NEW p \in Peers, chan[p].status # "None"
    PROVE  chan[p] \in Channels
BY DEF TypeOK, NoChannel

\* A task in an open carries the capacity, and the escrow once it is created.
LEMMA TaskType ==
    ASSUME TypeOK, NEW p \in Peers, NEW t \in Tasks
    PROVE  /\ task[p][t].at = "fund" => task[p][t] \in [at : {"fund"}, capacity : Nat]
           /\ task[p][t].at \in {"store", "index"} =>
                task[p][t] \in [at : {"store", "index"}, capacity : Nat, fund : Nat]
BY DEF TypeOK, TaskState, Idle

\* An update moves an amount between two balances that exist.
LEMMA CreatePaymentType ==
    ASSUME NEW c \in Channels, NEW a \in Nat, a <= c.local
    PROVE  CreatePayment(c, a) \in Channels
<1>1. c.local - a \in Nat /\ c.remote + a \in Nat /\ c.nonce + 1 \in Nat /\ c.total_sent + a \in Nat
  BY DEF Channels
<1> QED BY <1>1 DEF Channels, CreatePayment

LEMMA ApplyUpdateType ==
    ASSUME NEW c \in Channels, NEW u \in Updates
    PROVE  ApplyUpdate(c, u) \in Channels
<1>1. u.local \in Nat /\ u.remote \in Nat /\ u.nonce \in Nat
  BY DEF Updates
<1>2. c.total_received + SaturatingSub(u.local, c.remote) \in Nat
  BY <1>1 DEF Channels, SaturatingSub
<1> QED BY <1>1, <1>2 DEF Channels, ApplyUpdate

\* What the provers need of the nested updates of the task table.
LEMMA TaskUpdate ==
    ASSUME TypeOK, NEW p \in Peers, NEW t \in Tasks, NEW v \in TaskState,
           task' = [task EXCEPT ![p][t] = v]
    PROVE  /\ task' \in [Peers -> [Tasks -> TaskState]]
           /\ task'[p][t] = v
           /\ \A q \in Peers, u \in Tasks : q # p \/ u # t => task'[q][u] = task[q][u]
BY DEF TypeOK

LEMMA StatusUpdate ==
    ASSUME TypeOK, NEW p \in Peers, chan[p] \in Channels, NEW s \in Statuses,
           chan' = [chan EXCEPT ![p].status = s]
    PROVE  /\ chan' \in [Peers -> Channels \cup {NoChannel}]
           /\ chan'[p] = [chan[p] EXCEPT !.status = s]
           /\ \A q \in Peers : q # p => chan'[q] = chan[q]
<1>1. [chan[p] EXCEPT !.status = s] \in Channels
  BY DEF Channels
<1> QED BY <1>1 DEF TypeOK

LEMMA TypeStep == TypeOK /\ [Next]_vars => TypeOK'
<1> SUFFICES ASSUME TypeOK, [Next]_vars PROVE TypeOK'
  OBVIOUS
<1>1. CASE UNCHANGED vars
  BY <1>1 DEF TypeOK, vars
<1>2. ASSUME NEW p \in Peers, RegisterKey(p) PROVE TypeOK'
  BY <1>2 DEF TypeOK, RegisterKey
<1>3. ASSUME NEW p \in Peers, Confirm(p) PROVE TypeOK'
  <2>1. chan[p] \in Channels BY <1>3, StatusType DEF Confirm
  <2>2. chan' \in [Peers -> Channels \cup {NoChannel}]
    BY <1>3, <2>1, StatusUpdate DEF Confirm, Statuses
  <2> QED BY <1>3, <2>2 DEF TypeOK, Confirm
<1>4. ASSUME NEW p \in Peers, NEW a \in Amounts, Pay(p, a) PROVE TypeOK'
  <2> DEFINE c == CreatePayment(chan[p], a)
             u == [by |-> p, nonce |-> c.nonce, local |-> c.local,
                   remote |-> c.remote, life |-> c.fund, amount |-> a]
  <2>1. c \in Channels
    BY <1>4, RecordType, CreatePaymentType, CapacityAssumption DEF Pay, Payable
  <2>2. u \in Updates /\ Entry(u) \in [by : Peers, life : Nat, nonce : Nat]
    BY <2>1, CapacityAssumption DEF Updates, Channels, Entry
  <2>3. /\ chan' = [chan EXCEPT ![p] = c]
        /\ updates' = updates \cup {u}
        /\ log' = [log EXCEPT ![p] = Append(@, Entry(u))]
        /\ UNCHANGED <<index, keyed, escrow, task, closes, got, overlap>>
    BY <1>4 DEF Pay
  <2> HIDE DEF c, u
  <2>4. log' \in [Peers -> Seq([by : Peers, life : Nat, nonce : Nat])]
    BY <2>2, <2>3 DEF TypeOK
  <2> QED BY <2>1, <2>2, <2>3, <2>4 DEF TypeOK
<1>5. ASSUME NEW p \in Peers, NEW u \in updates, ReceivePayment(p, u) PROVE TypeOK'
  <2>1. u \in Updates BY DEF TypeOK
  <2>2. ApplyUpdate(chan[p], u) \in Channels
    BY <1>5, <2>1, RecordType, ApplyUpdateType DEF ReceivePayment
  <2>3. Entry(u) \in [by : Peers, life : Nat, nonce : Nat] /\ u.amount \in Nat
    BY <2>1 DEF Updates, Entry
  <2>4. log' \in [Peers -> Seq([by : Peers, life : Nat, nonce : Nat])]
    BY <1>5, <2>3 DEF TypeOK, ReceivePayment
  <2>5. chan' \in [Peers -> Channels \cup {NoChannel}] /\ got' \in [Peers -> Nat]
    BY <1>5, <2>2, <2>3 DEF TypeOK, ReceivePayment
  <2> QED BY <1>5, <2>4, <2>5 DEF TypeOK, ReceivePayment
<1>6. ASSUME NEW p \in Peers, CloseChannel(p) PROVE TypeOK'
  <2>1. chan[p] \in Channels BY <1>6, StatusType DEF CloseChannel
  <2>2. chan' \in [Peers -> Channels \cup {NoChannel}]
    BY <1>6, <2>1, StatusUpdate DEF CloseChannel, Statuses
  <2>3. [by |-> p, local |-> chan[p].local, remote |-> chan[p].remote] \in CloseRequests
    BY <2>1 DEF Channels, CloseRequests
  <2> QED BY <1>6, <2>2, <2>3 DEF TypeOK, CloseChannel
<1>7. ASSUME NEW p \in Peers, ChannelExpires(p) PROVE TypeOK'
  <2>1. chan[p] \in Channels BY <1>7, StatusType DEF ChannelExpires
  <2>2. [chan[p] EXCEPT !.expired = TRUE] \in Channels BY <2>1 DEF Channels
  <2> QED BY <1>7, <2>2 DEF TypeOK, ChannelExpires
<1>8. ASSUME NEW p \in Peers, NEW t \in Tasks, NEW n \in Capacities, OpenCheck(p, t, n)
      PROVE TypeOK'
  <2>1. [at |-> "fund", capacity |-> n] \in TaskState
    BY CapacityAssumption DEF TaskState
  <2>2. task' \in [Peers -> [Tasks -> TaskState]]
    BY <1>8, <2>1, TaskUpdate DEF OpenCheck
  <2>3. overlap' \in [Peers -> BOOLEAN]
    BY <1>8 DEF OpenCheck, NoteOverlap, TypeOK
  <2> QED BY <1>8, <2>2, <2>3 DEF TypeOK, OpenCheck
<1>9. ASSUME NEW p \in Peers, NEW t \in Tasks, OpenFund(p, t) PROVE TypeOK'
  <2>1. task[p][t] \in [at : {"fund"}, capacity : Nat]
    BY <1>9, TaskType DEF OpenFund
  <2>2. Len(escrow[p]) + 1 \in Nat /\ escrow \in [Peers -> Seq(Nat)] BY DEF TypeOK
  <2>3. /\ [at |-> "store", capacity |-> task[p][t].capacity, fund |-> Len(escrow[p]) + 1]
              \in TaskState
        /\ Idle \in TaskState
    BY <2>1, <2>2 DEF TaskState
  <2>4. task' \in [Peers -> [Tasks -> TaskState]]
    BY <1>9, <2>3, TaskUpdate DEF OpenFund
  <2>5. escrow' \in [Peers -> Seq(Nat)]
    <3>1. Append(escrow[p], task[p][t].capacity) \in Seq(Nat)
      BY <2>1, <2>2
    <3>2. \/ escrow' = [escrow EXCEPT ![p] = Append(escrow[p], task[p][t].capacity)]
          \/ escrow' = escrow
      BY <1>9 DEF OpenFund
    <3> QED BY <2>2, <3>1, <3>2
  <2> QED BY <1>9, <2>4, <2>5 DEF TypeOK, OpenFund
<1>10. ASSUME NEW p \in Peers, NEW t \in Tasks, OpenStore(p, t) PROVE TypeOK'
  <2>1. task[p][t] \in [at : {"store", "index"}, capacity : Nat, fund : Nat]
    BY <1>10, TaskType DEF OpenStore
  <2>2. NewChannel(task[p][t].capacity, task[p][t].fund) \in Channels
    BY <2>1 DEF NewChannel, Channels, Statuses
  <2>3. [task[p][t] EXCEPT !.at = "index"] \in TaskState
    BY <2>1 DEF TaskState
  <2>4. task' \in [Peers -> [Tasks -> TaskState]]
    BY <1>10, <2>3 DEF OpenStore, TypeOK
  <2>5. log' \in [Peers -> Seq([by : Peers, life : Nat, nonce : Nat])]
    BY <1>10 DEF OpenStore, TypeOK
  <2> QED BY <1>10, <2>2, <2>4, <2>5 DEF TypeOK, OpenStore
<1>11. ASSUME NEW p \in Peers, NEW t \in Tasks, OpenIndex(p, t) PROVE TypeOK'
  <2>1. Idle \in TaskState BY DEF TaskState
  <2>2. task' \in [Peers -> [Tasks -> TaskState]]
    BY <1>11, <2>1, TaskUpdate DEF OpenIndex
  <2> QED BY <1>11, <2>2 DEF TypeOK, OpenIndex
<1>12. ASSUME NEW p \in Peers, NEW t \in Tasks, NEW r \in closes, FinalizeClose(p, t, r)
       PROVE TypeOK'
  <2>1. chan[p] \in Channels BY <1>12, StatusType DEF FinalizeClose
  <2>2. chan' \in [Peers -> Channels \cup {NoChannel}]
    BY <1>12, <2>1, StatusUpdate DEF FinalizeClose, Statuses
  <2>3. [at |-> "unindex"] \in TaskState BY DEF TaskState
  <2>4. task' \in [Peers -> [Tasks -> TaskState]]
    BY <1>12, <2>3, TaskUpdate DEF FinalizeClose
  <2>5. overlap' \in [Peers -> BOOLEAN]
    BY <1>12 DEF FinalizeClose, NoteOverlap, TypeOK
  <2> QED BY <1>12, <2>2, <2>4, <2>5 DEF TypeOK, FinalizeClose
<1>13. ASSUME NEW p \in Peers, NEW t \in Tasks, ForceCloseExpired(p, t) PROVE TypeOK'
  <2>1. chan[p] \in Channels BY <1>13, RecordType DEF ForceCloseExpired
  <2>2. chan' \in [Peers -> Channels \cup {NoChannel}]
    BY <1>13, <2>1, StatusUpdate DEF ForceCloseExpired, Statuses
  <2>3. [at |-> "unindex"] \in TaskState BY DEF TaskState
  <2>4. task' \in [Peers -> [Tasks -> TaskState]]
    BY <1>13, <2>3, TaskUpdate DEF ForceCloseExpired
  <2>5. overlap' \in [Peers -> BOOLEAN]
    BY <1>13 DEF ForceCloseExpired, NoteOverlap, TypeOK
  <2> QED BY <1>13, <2>2, <2>4, <2>5 DEF TypeOK, ForceCloseExpired
<1>14. ASSUME NEW p \in Peers, NEW t \in Tasks, Unindex(p, t) PROVE TypeOK'
  <2>1. Idle \in TaskState BY DEF TaskState
  <2>2. task' \in [Peers -> [Tasks -> TaskState]]
    BY <1>14, <2>1, TaskUpdate DEF Unindex
  <2> QED BY <1>14, <2>2 DEF TypeOK, Unindex
<1> QED
  BY <1>1, <1>2, <1>3, <1>4, <1>5, <1>6, <1>7, <1>8, <1>9, <1>10, <1>11, <1>12, <1>13, <1>14
     DEF Next, PeerStep, ManagerCall

-----------------------------------------------------------------------------
\* What a record, the opens in flight and the escrows have to do with each other:
\* an open that holds an escrow holds it for itself alone.
FundsApart ==
    \A p \in Peers, t \in Tasks : task[p][t].at = "store" =>
        /\ task[p][t].fund \in DOMAIN escrow[p]
        /\ escrow[p][task[p][t].fund] = task[p][t].capacity
        /\ HasRecord(p) => chan[p].fund # task[p][t].fund
        /\ \A u \in Tasks : u # t /\ task[p][u].at = "store"
                                => task[p][u].fund # task[p][t].fund

\* The nonce of a record counts the updates of its life, and each of them has the
\* number of its place.
Numbered ==
    \A p \in Peers :
        /\ HasRecord(p) => Len(log[p]) = chan[p].nonce
        /\ \A i \in 1..Len(log[p]) : log[p][i].nonce = i

Inv == TypeOK /\ CapacityKept /\ FundsApart /\ Numbered

LEMMA InitInv == Init => Inv
<1> SUFFICES ASSUME Init PROVE Inv
  OBVIOUS
<1>1. TypeOK
  BY DEF Init, TypeOK, TaskState
<1>2. CapacityKept /\ Numbered
  BY DEF Init, CapacityKept, Numbered, HasRecord
<1>3. FundsApart
  BY DEF Init, FundsApart, Idle
<1> QED BY <1>1, <1>2, <1>3 DEF Inv

\* A step that keeps what Inv says of a record keeps Inv.
LEMMA RecordFrame ==
    ASSUME Inv, TypeOK', UNCHANGED <<escrow, log>>,
           NEW p \in Peers, HasRecord(p), HasRecord(p)',
           \A q \in Peers : q # p => chan'[q] = chan[q],
           chan'[p].local = chan[p].local, chan'[p].remote = chan[p].remote,
           chan'[p].capacity = chan[p].capacity, chan'[p].nonce = chan[p].nonce,
           chan'[p].fund = chan[p].fund,
           \A q \in Peers, t \in Tasks :
               task'[q][t].at = "store" => task'[q][t] = task[q][t]
    PROVE  Inv'
<1>1. \A q \in Peers : HasRecord(q)' <=> HasRecord(q)
  BY DEF HasRecord
<1>2. \A q \in Peers : HasRecord(q) =>
        /\ chan'[q].local = chan[q].local /\ chan'[q].remote = chan[q].remote
        /\ chan'[q].capacity = chan[q].capacity /\ chan'[q].nonce = chan[q].nonce
        /\ chan'[q].fund = chan[q].fund
  OBVIOUS
<1>3. CapacityKept'
  BY <1>1, <1>2 DEF Inv, CapacityKept
<1>4. FundsApart'
  BY <1>1, <1>2 DEF Inv, FundsApart
<1>5. Numbered'
  BY <1>1, <1>2 DEF Inv, Numbered
<1> QED BY <1>3, <1>4, <1>5 DEF Inv

\* A change of status alone keeps Inv.
LEMMA StatusFrame ==
    ASSUME Inv, TypeOK', UNCHANGED <<escrow, log>>,
           NEW p \in Peers, chan[p] \in Channels, NEW s \in Statuses,
           chan' = [chan EXCEPT ![p].status = s],
           \A q \in Peers, t \in Tasks :
               task'[q][t].at = "store" => task'[q][t] = task[q][t]
    PROVE  Inv' /\ \A q \in Peers : q # p => chan'[q] = chan[q]
<1>1. /\ chan'[p] = [chan[p] EXCEPT !.status = s]
      /\ \A q \in Peers : q # p => chan'[q] = chan[q]
  BY StatusUpdate DEF Inv
<1>2. /\ chan'[p].local = chan[p].local /\ chan'[p].remote = chan[p].remote
      /\ chan'[p].capacity = chan[p].capacity /\ chan'[p].nonce = chan[p].nonce
      /\ chan'[p].fund = chan[p].fund
      /\ chan'[p].status = s /\ chan[p].status \in Statuses
  BY <1>1 DEF Channels
<1>3. HasRecord(p) /\ HasRecord(p)'
  BY <1>2 DEF HasRecord, NoChannel, Statuses
<1> QED BY <1>1, <1>2, <1>3, RecordFrame

\* A step that leaves the records alone and starts no new store keeps Inv.
LEMMA TaskFrame ==
    ASSUME Inv, TypeOK', UNCHANGED <<chan, escrow, log>>,
           \A q \in Peers, t \in Tasks :
               task'[q][t].at = "store" => task'[q][t] = task[q][t]
    PROVE  Inv'
<1>1. \A q \in Peers : HasRecord(q)' <=> HasRecord(q)
  BY DEF HasRecord
<1>2. CapacityKept'
  BY <1>1 DEF Inv, CapacityKept
<1>3. FundsApart'
  BY <1>1 DEF Inv, FundsApart
<1>4. Numbered'
  BY <1>1 DEF Inv, Numbered
<1> QED BY <1>2, <1>3, <1>4 DEF Inv

\* pay: the debit is the credit, and the new update takes the next number.
LEMMA PayStep ==
    ASSUME Inv, TypeOK', NEW p \in Peers, NEW a \in Amounts, Pay(p, a)
    PROVE  Inv'
<1> DEFINE c == CreatePayment(chan[p], a)
<1>1. chan[p] \in Channels /\ HasRecord(p)
  BY RecordType DEF Pay, Inv
<1>2. a \in Nat /\ a <= chan[p].local
  BY CapacityAssumption DEF Pay, Payable
<1>3. /\ c.local = chan[p].local - a /\ c.remote = chan[p].remote + a
      /\ c.nonce = chan[p].nonce + 1 /\ c.capacity = chan[p].capacity
      /\ c.fund = chan[p].fund
  BY <1>1 DEF CreatePayment, Channels
<1>4. /\ chan'[p] = c
      /\ \A q \in Peers : q # p => chan'[q] = chan[q] /\ log'[q] = log[q]
      /\ \E e : e.nonce = c.nonce /\ log'[p] = Append(log[p], e)
      /\ UNCHANGED <<escrow, task>>
  BY DEF Pay, Inv, TypeOK, Entry
<1>5. c \in Channels
  BY <1>1, <1>2, CreatePaymentType
<1> HIDE DEF c
<1>6. \A q \in Peers : HasRecord(q)' => HasRecord(q)
  BY <1>1, <1>4 DEF HasRecord
<1>7. CapacityKept'
  <2>1. c.local + c.remote = c.capacity
    BY <1>1, <1>2, <1>3 DEF Inv, CapacityKept, Channels
  <2> QED BY <1>1, <1>3, <1>4, <1>6, <2>1 DEF Inv, CapacityKept
<1>8. FundsApart'
  BY <1>1, <1>3, <1>4, <1>6 DEF Inv, FundsApart
<1>9. Numbered'
  <2>1. log[p] \in Seq([by : Peers, life : Nat, nonce : Nat])
    BY DEF Inv, TypeOK
  <2>2. Len(log[p]) = chan[p].nonce /\ \A i \in 1..Len(log[p]) : log[p][i].nonce = i
    BY <1>1 DEF Inv, Numbered
  <2>3. Len(log'[p]) = c.nonce /\ \A i \in 1..Len(log'[p]) : log'[p][i].nonce = i
    BY <1>1, <1>3, <1>4, <2>1, <2>2
  <2> QED BY <1>4, <1>6, <2>3 DEF Inv, Numbered
<1> QED BY <1>7, <1>8, <1>9 DEF Inv

\* receive_payment: the sum is tested, and so is the number of the update.
LEMMA ReceiveStep ==
    ASSUME Inv, TypeOK', NEW p \in Peers, NEW u \in updates, ReceivePayment(p, u)
    PROVE  Inv'
<1> DEFINE c == ApplyUpdate(chan[p], u)
<1>1. chan[p] \in Channels /\ HasRecord(p) /\ u \in Updates
  BY RecordType DEF ReceivePayment, Inv, TypeOK
<1>2. u.nonce = chan[p].nonce + 1 /\ u.local + u.remote = chan[p].capacity
  BY DEF ReceivePayment, Acceptable
<1>3. /\ c.local = u.remote /\ c.remote = u.local /\ c.nonce = u.nonce
      /\ c.capacity = chan[p].capacity /\ c.fund = chan[p].fund
  BY <1>1 DEF ApplyUpdate, Channels
<1>4. /\ chan'[p] = c
      /\ \A q \in Peers : q # p => chan'[q] = chan[q] /\ log'[q] = log[q]
      /\ Entry(u).nonce = u.nonce /\ log'[p] = Append(log[p], Entry(u))
      /\ UNCHANGED <<escrow, task>>
  BY DEF ReceivePayment, Inv, TypeOK, Entry
<1> HIDE DEF c
<1>6. \A q \in Peers : HasRecord(q)' => HasRecord(q)
  BY <1>1, <1>4 DEF HasRecord
<1>7. CapacityKept'
  <2>1. c.local + c.remote = c.capacity
    BY <1>1, <1>2, <1>3 DEF Updates
  <2> QED BY <1>1, <1>3, <1>4, <1>6, <2>1 DEF Inv, CapacityKept
<1>8. FundsApart'
  BY <1>1, <1>3, <1>4, <1>6 DEF Inv, FundsApart
<1>9. Numbered'
  <2>1. log[p] \in Seq([by : Peers, life : Nat, nonce : Nat])
    BY DEF Inv, TypeOK
  <2>2. Len(log[p]) = chan[p].nonce /\ \A i \in 1..Len(log[p]) : log[p][i].nonce = i
    BY <1>1 DEF Inv, Numbered
  <2>3. Len(log'[p]) = c.nonce /\ \A i \in 1..Len(log'[p]) : log'[p][i].nonce = i
    BY <1>1, <1>2, <1>3, <1>4, <2>1, <2>2
  <2> QED BY <1>4, <1>6, <2>3 DEF Inv, Numbered
<1> QED BY <1>7, <1>8, <1>9 DEF Inv

\* open_channel, the escrow: it is a new one.
LEMMA FundStep ==
    ASSUME Inv, TypeOK', NEW p \in Peers, NEW t \in Tasks, OpenFund(p, t)
    PROVE  Inv'
<1>1. CASE UNCHANGED escrow /\ task' = [task EXCEPT ![p][t] = Idle]
  <2>1. \A q \in Peers, u \in Tasks :
          task'[q][u].at = "store" => task'[q][u] = task[q][u]
    <3>1. Idle \in TaskState BY DEF TaskState
    <3> QED BY <1>1, <3>1, TaskUpdate DEF Inv, Idle
  <2> QED BY <1>1, <2>1, TaskFrame DEF OpenFund
<1>2. CASE /\ escrow' = [escrow EXCEPT ![p] = Append(@, task[p][t].capacity)]
           /\ task' = [task EXCEPT ![p][t] = [at |-> "store", capacity |-> @.capacity,
                                             fund |-> Len(escrow[p]) + 1]]
  <2> DEFINE v == [at |-> "store", capacity |-> task[p][t].capacity,
                   fund |-> Len(escrow[p]) + 1]
  <2>1. task[p][t] \in [at : {"fund"}, capacity : Nat] /\ escrow[p] \in Seq(Nat)
    BY TaskType DEF OpenFund, Inv, TypeOK
  <2>2. v \in TaskState BY <2>1 DEF TaskState
  <2>3. /\ task'[p][t] = v
        /\ \A q \in Peers, u \in Tasks : q # p \/ u # t => task'[q][u] = task[q][u]
    <3>1. task' = [task EXCEPT ![p][t] = v] BY <1>2 DEF Inv, TypeOK
    <3> HIDE DEF v
    <3> QED BY <3>1, <2>2, TaskUpdate DEF Inv
  <2>4. /\ \A q \in Peers : q # p => escrow'[q] = escrow[q]
        /\ Len(escrow[p]) + 1 \in DOMAIN escrow'[p]
        /\ escrow'[p][Len(escrow[p]) + 1] = task[p][t].capacity
        /\ \A n \in DOMAIN escrow[p] :
              /\ n \in DOMAIN escrow'[p] /\ escrow'[p][n] = escrow[p][n]
              /\ n # Len(escrow[p]) + 1
    BY <1>2, <2>1 DEF Inv, TypeOK
  <2>5. UNCHANGED <<chan, log>> /\ \A q \in Peers : HasRecord(q)' <=> HasRecord(q)
    BY DEF OpenFund, HasRecord
  <2>6. v.at = "store" /\ v.capacity = task[p][t].capacity /\ v.fund = Len(escrow[p]) + 1
    OBVIOUS
  <2> HIDE DEF v
  <2>7. CapacityKept'
    BY <2>4, <2>5 DEF Inv, CapacityKept
  <2>8. FundsApart'
    <3> SUFFICES ASSUME NEW q \in Peers, NEW w \in Tasks, task'[q][w].at = "store"
                 PROVE  /\ task'[q][w].fund \in DOMAIN escrow'[q]
                        /\ escrow'[q][task'[q][w].fund] = task'[q][w].capacity
                        /\ HasRecord(q)' => chan'[q].fund # task'[q][w].fund
                        /\ \A u \in Tasks : u # w /\ task'[q][u].at = "store"
                                => task'[q][u].fund # task'[q][w].fund
      BY DEF FundsApart
    <3>1. CASE q = p /\ w = t
      BY <3>1, <2>3, <2>4, <2>5, <2>6 DEF Inv, FundsApart, CapacityKept
    <3>2. CASE q # p
      BY <3>2, <2>3, <2>4, <2>5 DEF Inv, FundsApart
    <3>3. CASE q = p /\ w # t
      BY <3>3, <2>3, <2>4, <2>5, <2>6 DEF Inv, FundsApart
    <3> QED BY <3>1, <3>2, <3>3
  <2>9. Numbered'
    BY <2>5 DEF Inv, Numbered
  <2> QED BY <2>7, <2>8, <2>9 DEF Inv
<1> QED BY <1>1, <1>2 DEF OpenFund

\* open_channel, the record: it takes over the escrow of this open.
LEMMA StoreStep ==
    ASSUME Inv, TypeOK', NEW p \in Peers, NEW t \in Tasks, OpenStore(p, t)
    PROVE  /\ Inv'
           /\ chan'[p] = NewChannel(chan'[p].capacity, chan'[p].fund)
           /\ HasRecord(p) => chan'[p].fund # chan[p].fund
<1> DEFINE v == [task[p][t] EXCEPT !.at = "index"]
           c == NewChannel(task[p][t].capacity, task[p][t].fund)
<1>1. /\ task[p][t] \in [at : {"store", "index"}, capacity : Nat, fund : Nat]
      /\ task[p][t].at = "store"
  BY TaskType DEF OpenStore, Inv
<1>2. v \in TaskState /\ v.at = "index"
  BY <1>1 DEF TaskState
<1>3. /\ task'[p][t] = v
      /\ \A q \in Peers, u \in Tasks : q # p \/ u # t => task'[q][u] = task[q][u]
  BY DEF OpenStore, Inv, TypeOK
<1>4. /\ c.local = task[p][t].capacity /\ c.remote = 0 /\ c.nonce = 0
      /\ c.capacity = task[p][t].capacity /\ c.fund = task[p][t].fund
      /\ c = NewChannel(c.capacity, c.fund)
  BY DEF NewChannel
<1>5. /\ chan'[p] = c /\ log'[p] = <<>>
      /\ \A q \in Peers : q # p => chan'[q] = chan[q] /\ log'[q] = log[q]
      /\ UNCHANGED escrow
  BY DEF OpenStore, Inv, TypeOK
<1>6. \A q \in Peers : q # p => (HasRecord(q)' <=> HasRecord(q))
  BY <1>5 DEF HasRecord
<1> HIDE DEF v, c
<1>7. CapacityKept'
  <2>1. c.local + c.remote = c.capacity
    BY <1>1, <1>4
  <2>2. c.fund \in DOMAIN escrow[p] /\ escrow[p][c.fund] = c.capacity
    BY <1>1, <1>4 DEF Inv, FundsApart
  <2> QED BY <1>5, <1>6, <2>1, <2>2 DEF Inv, CapacityKept
<1>8. FundsApart'
  BY <1>1, <1>2, <1>3, <1>4, <1>5, <1>6 DEF Inv, FundsApart
<1>9. Numbered'
  BY <1>4, <1>5, <1>6 DEF Inv, Numbered
<1>10. HasRecord(p) => chan'[p].fund # chan[p].fund
  BY <1>1, <1>4, <1>5 DEF Inv, FundsApart
<1> QED BY <1>4, <1>5, <1>7, <1>8, <1>9, <1>10 DEF Inv

\* A step on the records: either no record changes its status from Closed, or one is
\* opened again.
FrozenStep ==
    \A p \in Peers : chan[p].status = "Closed" /\ chan'[p] # chan[p] =>
        /\ chan'[p] = NewChannel(chan'[p].capacity, chan'[p].fund)
        /\ chan'[p].fund # chan[p].fund

LEMMA InvStep == Inv /\ [Next]_vars => Inv' /\ FrozenStep
<1> SUFFICES ASSUME Inv, [Next]_vars PROVE Inv' /\ FrozenStep
  OBVIOUS
<1> USE TypeStep DEF Inv
<1>1. CASE UNCHANGED vars
  BY <1>1, TaskFrame DEF vars, FrozenStep
<1>2. ASSUME NEW p \in Peers, RegisterKey(p) PROVE Inv' /\ FrozenStep
  BY <1>2, TaskFrame DEF RegisterKey, FrozenStep
<1>3. ASSUME NEW p \in Peers, Confirm(p) PROVE Inv' /\ FrozenStep
  <2>1. chan[p] \in Channels BY <1>3, StatusType DEF Confirm
  <2>2. \A q \in Peers, t \in Tasks : task'[q][t] = task[q][t]
    BY <1>3 DEF Confirm
  <2>3. Inv' /\ \A q \in Peers : q # p => chan'[q] = chan[q]
    BY <1>3, <2>1, <2>2, StatusFrame DEF Confirm, Statuses
  <2> QED BY <1>3, <2>3 DEF Confirm, FrozenStep
<1>4. ASSUME NEW p \in Peers, NEW a \in Amounts, Pay(p, a) PROVE Inv' /\ FrozenStep
  <2>1. FrozenStep
    BY <1>4 DEF Pay, Payable, Operational, FrozenStep, TypeOK
  <2> QED BY <1>4, <2>1, PayStep
<1>5. ASSUME NEW p \in Peers, NEW u \in updates, ReceivePayment(p, u)
      PROVE Inv' /\ FrozenStep
  <2>1. FrozenStep
    BY <1>5 DEF ReceivePayment, Acceptable, Operational, FrozenStep, TypeOK
  <2> QED BY <1>5, <2>1, ReceiveStep
<1>6. ASSUME NEW p \in Peers, CloseChannel(p) PROVE Inv' /\ FrozenStep
  <2>1. chan[p] \in Channels BY <1>6, StatusType DEF CloseChannel
  <2>2. \A q \in Peers, t \in Tasks : task'[q][t] = task[q][t]
    BY <1>6 DEF CloseChannel
  <2>3. Inv' /\ \A q \in Peers : q # p => chan'[q] = chan[q]
    BY <1>6, <2>1, <2>2, StatusFrame DEF CloseChannel, Statuses
  <2> QED BY <1>6, <2>3 DEF CloseChannel, FrozenStep
<1>7. ASSUME NEW p \in Peers, ChannelExpires(p) PROVE Inv' /\ FrozenStep
  <2>1. chan[p] \in Channels BY <1>7, StatusType DEF ChannelExpires
  <2>2. /\ chan'[p] = [chan[p] EXCEPT !.expired = TRUE]
        /\ \A q \in Peers : q # p => chan'[q] = chan[q]
    BY <1>7 DEF ChannelExpires, TypeOK
  <2>3. /\ chan'[p].local = chan[p].local /\ chan'[p].remote = chan[p].remote
        /\ chan'[p].capacity = chan[p].capacity /\ chan'[p].nonce = chan[p].nonce
        /\ chan'[p].fund = chan[p].fund /\ chan'[p].status = chan[p].status
    BY <2>1, <2>2 DEF Channels
  <2>4. HasRecord(p) /\ HasRecord(p)'
    BY <1>7, <2>3 DEF ChannelExpires, HasRecord, NoChannel
  <2>5. UNCHANGED <<escrow, log, task>> BY <1>7 DEF ChannelExpires
  <2>6. Inv'
    BY <2>2, <2>3, <2>4, <2>5, RecordFrame
  <2> QED BY <1>7, <2>2, <2>6 DEF ChannelExpires, FrozenStep
<1>8. ASSUME NEW p \in Peers, NEW t \in Tasks, NEW n \in Capacities, OpenCheck(p, t, n)
      PROVE Inv' /\ FrozenStep
  <2>1. [at |-> "fund", capacity |-> n] \in TaskState
    BY CapacityAssumption DEF TaskState
  <2>2. \A q \in Peers, u \in Tasks : task'[q][u].at = "store" => task'[q][u] = task[q][u]
    BY <1>8, <2>1, TaskUpdate DEF OpenCheck
  <2> QED BY <1>8, <2>2, TaskFrame DEF OpenCheck, FrozenStep
<1>9. ASSUME NEW p \in Peers, NEW t \in Tasks, OpenFund(p, t) PROVE Inv' /\ FrozenStep
  BY <1>9, FundStep DEF OpenFund, FrozenStep
<1>10. ASSUME NEW p \in Peers, NEW t \in Tasks, OpenStore(p, t) PROVE Inv' /\ FrozenStep
  <2>1. Inv' /\ chan'[p] = NewChannel(chan'[p].capacity, chan'[p].fund)
    BY <1>10, StoreStep
  <2>2. chan[p].status = "Closed" => chan'[p].fund # chan[p].fund
    BY <1>10, StoreStep DEF HasRecord, NoChannel
  <2>3. \A q \in Peers : q # p => chan'[q] = chan[q]
    BY <1>10 DEF OpenStore, TypeOK
  <2> QED BY <2>1, <2>2, <2>3 DEF FrozenStep
<1>11. ASSUME NEW p \in Peers, NEW t \in Tasks, OpenIndex(p, t) PROVE Inv' /\ FrozenStep
  <2>1. Idle \in TaskState BY DEF TaskState
  <2>2. \A q \in Peers, u \in Tasks : task'[q][u].at = "store" => task'[q][u] = task[q][u]
    BY <1>11, <2>1, TaskUpdate DEF OpenIndex, Idle
  <2> QED BY <1>11, <2>2, TaskFrame DEF OpenIndex, FrozenStep
<1>12. ASSUME NEW p \in Peers, NEW t \in Tasks, NEW r \in closes, FinalizeClose(p, t, r)
       PROVE Inv' /\ FrozenStep
  <2>1. chan[p] \in Channels BY <1>12, StatusType DEF FinalizeClose
  <2>3. [at |-> "unindex"] \in TaskState BY DEF TaskState
  <2>4. \A q \in Peers, u \in Tasks : task'[q][u].at = "store" => task'[q][u] = task[q][u]
    BY <1>12, <2>3, TaskUpdate DEF FinalizeClose
  <2>5. Inv' /\ \A q \in Peers : q # p => chan'[q] = chan[q]
    BY <1>12, <2>1, <2>4, StatusFrame DEF FinalizeClose, Statuses
  <2> QED BY <1>12, <2>5 DEF FinalizeClose, FrozenStep
<1>13. ASSUME NEW p \in Peers, NEW t \in Tasks, ForceCloseExpired(p, t)
       PROVE Inv' /\ FrozenStep
  <2>1. chan[p] \in Channels BY <1>13, RecordType DEF ForceCloseExpired
  <2>3. [at |-> "unindex"] \in TaskState BY DEF TaskState
  <2>4. \A q \in Peers, u \in Tasks : task'[q][u].at = "store" => task'[q][u] = task[q][u]
    BY <1>13, <2>3, TaskUpdate DEF ForceCloseExpired
  <2>5. Inv' /\ \A q \in Peers : q # p => chan'[q] = chan[q]
    BY <1>13, <2>1, <2>4, StatusFrame DEF ForceCloseExpired, Statuses
  <2> QED BY <1>13, <2>5 DEF ForceCloseExpired, FrozenStep
<1>14. ASSUME NEW p \in Peers, NEW t \in Tasks, Unindex(p, t) PROVE Inv' /\ FrozenStep
  <2>1. Idle \in TaskState BY DEF TaskState
  <2>2. \A q \in Peers, u \in Tasks : task'[q][u].at = "store" => task'[q][u] = task[q][u]
    BY <1>14, <2>1, TaskUpdate DEF Unindex, Idle
  <2> QED BY <1>14, <2>2, TaskFrame DEF Unindex, FrozenStep
<1> QED
  BY <1>1, <1>2, <1>3, <1>4, <1>5, <1>6, <1>7, <1>8, <1>9, <1>10, <1>11, <1>12, <1>13, <1>14
     DEF Next, PeerStep, ManagerCall

LEMMA Invariance == Spec => []Inv
<1>1. Init => Inv
  BY InitInv
<1>2. Inv /\ [Next]_vars => Inv'
  BY InvStep
<1> QED BY <1>1, <1>2, PTL DEF Spec

\* Every record, message and call in flight is of its type (channel/mod.rs).
THEOREM ChannelTypeCorrect == Spec => []TypeOK
<1>1. Inv => TypeOK BY DEF Inv
<1> QED BY <1>1, Invariance, PTL

\* Balances add up to a capacity that an escrow of this very channel locked, however
\* opens, payments and late or repeated updates are interleaved (open_channel,
\* create_payment, receive_payment).
THEOREM ChannelCapacityKept == Spec => []CapacityKept
<1>1. Inv => CapacityKept BY DEF Inv
<1> QED BY <1>1, Invariance, PTL

\* No update is applied twice or out of the signer's order in one life of a channel
\* (the nonce test of receive_payment).
THEOREM ChannelNoReplay == Spec => []NoReplay
<1>1. Inv => NoReplay
  <2> SUFFICES ASSUME Inv, NEW p \in Peers, NEW i \in DOMAIN log[p], NEW j \in DOMAIN log[p],
                      i < j
               PROVE  log[p][i].nonce < log[p][j].nonce
    BY DEF NoReplay
  <2>1. DOMAIN log[p] = 1..Len(log[p]) BY DEF Inv, TypeOK
  <2>2. log[p][i].nonce = i /\ log[p][j].nonce = j
    BY <2>1 DEF Inv, Numbered
  <2> QED BY <2>2
<1> QED BY <1>1, Invariance, PTL

\* A closed channel changes only when it is opened again, with another escrow
\* (finalize_close, force_close_expired, open_channel).
THEOREM ChannelClosedFrozen == Spec => ClosedFrozen
<1>1. Inv /\ [Next]_vars =>
        [\A p \in Peers :
           (chan[p].status = "Closed" /\ chan'[p] # chan[p])
              => /\ chan'[p] = NewChannel(chan'[p].capacity, chan'[p].fund)
                 /\ chan'[p].fund # chan[p].fund]_vars
  BY InvStep DEF FrozenStep
<1> QED BY <1>1, Invariance, PTL DEF Spec, ClosedFrozen

-----------------------------------------------------------------------------
(* Two records of the same history.                                        *)

\* A signer numbers what it signs in one life of its record without a gap or a
\* repetition, and a life that is yet to be stored has signed nothing.
SignedBefore ==
    \A u \in updates :
        /\ u.life \in DOMAIN escrow[u.by]
        /\ HasRecord(u.by) /\ chan[u.by].fund = u.life => u.nonce <= chan[u.by].nonce
        /\ \A t \in Tasks : task[u.by][t].at = "store" => task[u.by][t].fund # u.life

SignedOnce ==
    \A u, v \in updates : u.by = v.by /\ u.life = v.life /\ u.nonce = v.nonce => u = v

\* The balances of record c of peer p are those of update u, seen from p's side.
Shows(p, c, u) ==
    IF u.by = p THEN c.local = u.local /\ c.remote = u.remote
                ELSE c.local = u.remote /\ c.remote = u.local

LastShown ==
    \A p \in Peers : log[p] # <<>> =>
        HasRecord(p) /\ \E u \in updates : log[p][Len(log[p])] = Entry(u) /\ Shows(p, chan[p], u)

SignedInv == SignedBefore /\ SignedOnce /\ LastShown

\* The channel that pay_peer would find.
Live(p) == HasRecord(p) /\ chan[p].status # "Closed"

\* Where no call began during an open there is one call at a time, and by_peer
\* follows the record when it is over.
OneCall(p) ==
    /\ \A t, u \in Tasks : task[p][t].at # "idle" /\ task[p][u].at # "idle" => t = u
    /\ (\A t \in Tasks : task[p][t].at = "idle") => (index[p] <=> Live(p))
    /\ \A t \in Tasks :
         /\ task[p][t].at \in {"fund", "store"} => ~index[p] /\ ~Live(p)
         /\ task[p][t].at = "index" => Live(p)
         /\ task[p][t].at = "unindex" => index[p] /\ ~Live(p)

OneCallApart == \A p \in Peers : ~overlap[p] => OneCall(p)

LEMMA SignedInit == Init => SignedInv /\ OneCallApart
<1> SUFFICES ASSUME Init PROVE SignedInv /\ OneCallApart
  OBVIOUS
<1>1. \A p \in Peers : HasRecord(p) = FALSE /\ log[p] = <<>> /\ \A t \in Tasks : task[p][t].at = "idle"
  BY DEF Init, HasRecord, Idle
<1>2. SignedInv
  BY <1>1 DEF Init, SignedInv, SignedBefore, SignedOnce, LastShown
<1>3. OneCallApart
  BY <1>1 DEF Init, OneCallApart, OneCall, Live
<1> QED BY <1>2, <1>3

\* No record is made, and none changes its balances, its number or its escrow.
SameRecords ==
    \A q \in Peers :
        /\ HasRecord(q)' <=> HasRecord(q)
        /\ HasRecord(q) =>
             /\ chan'[q].local = chan[q].local /\ chan'[q].remote = chan[q].remote
             /\ chan'[q].nonce = chan[q].nonce /\ chan'[q].fund = chan[q].fund

LEMMA StatusSame ==
    ASSUME TypeOK, NEW p \in Peers, chan[p] \in Channels, NEW s \in Statuses,
           chan' = [chan EXCEPT ![p].status = s]
    PROVE  SameRecords /\ chan'[p].status = s /\ HasRecord(p) /\ HasRecord(p)'
<1>1. /\ chan'[p] = [chan[p] EXCEPT !.status = s]
      /\ \A q \in Peers : q # p => chan'[q] = chan[q]
  BY StatusUpdate
<1>2. /\ chan'[p].local = chan[p].local /\ chan'[p].remote = chan[p].remote
      /\ chan'[p].nonce = chan[p].nonce /\ chan'[p].fund = chan[p].fund
      /\ chan'[p].status = s /\ chan[p].status \in Statuses
  BY <1>1 DEF Channels
<1>3. HasRecord(p) /\ HasRecord(p)'
  BY <1>2 DEF HasRecord, NoChannel, Statuses
<1> QED BY <1>1, <1>2, <1>3 DEF SameRecords, HasRecord

\* Steps that neither sign nor apply an update, nor make a record.
LEMMA SignedFrame ==
    ASSUME TypeOK, SignedInv, UNCHANGED <<updates, log>>, SameRecords,
           \A q \in Peers : DOMAIN escrow[q] \subseteq DOMAIN escrow'[q],
           \A q \in Peers, t \in Tasks : task'[q][t].at = "store" =>
               \/ task'[q][t] = task[q][t]
               \/ task'[q][t].fund \notin DOMAIN escrow[q]
    PROVE  SignedInv'
<1>1. \A u \in updates : u.by \in Peers
  BY DEF TypeOK, Updates
<1>2. SignedBefore'
  BY <1>1 DEF SignedInv, SignedBefore, SameRecords
<1>3. SignedOnce'
  BY DEF SignedInv, SignedOnce
<1>4. LastShown'
  BY DEF SignedInv, LastShown, Shows, SameRecords
<1> QED BY <1>2, <1>3, <1>4 DEF SignedInv

\* pay: the new update has a number of its own.
LEMMA SignedPay ==
    ASSUME Inv, TypeOK', SignedInv, NEW p \in Peers, NEW a \in Amounts, Pay(p, a)
    PROVE  SignedInv'
<1> DEFINE c == CreatePayment(chan[p], a)
           u == [by |-> p, nonce |-> c.nonce, local |-> c.local,
                 remote |-> c.remote, life |-> c.fund, amount |-> a]
<1>1. chan[p] \in Channels /\ HasRecord(p)
  BY RecordType DEF Pay, Inv
<1>2. c.nonce = chan[p].nonce + 1 /\ c.fund = chan[p].fund /\ chan[p].nonce \in Nat
  BY <1>1 DEF CreatePayment, Channels
<1>3. /\ chan'[p] = c /\ updates' = updates \cup {u}
      /\ log'[p] = Append(log[p], Entry(u))
      /\ \A q \in Peers : q # p => chan'[q] = chan[q] /\ log'[q] = log[q]
      /\ UNCHANGED <<escrow, task>>
  BY DEF Pay, Inv, TypeOK
<1>4. u.by = p /\ u.nonce = c.nonce /\ u.life = c.fund /\ u.local = c.local /\ u.remote = c.remote
  OBVIOUS
<1>5. c \in Channels
  <2>1. a \in Nat /\ a <= chan[p].local
    BY CapacityAssumption DEF Pay, Payable
  <2> QED BY <1>1, <2>1, CreatePaymentType
<1>6. c # NoChannel /\ HasRecord(p)'
  <2>1. c.status \in Statuses
    BY <1>5 DEF Channels
  <2> QED BY <1>3, <2>1 DEF HasRecord, NoChannel, Statuses
<1> HIDE DEF c, u
<1>7. \A v \in updates : v.by \in Peers /\ v.nonce \in Nat
  BY DEF Inv, TypeOK, Updates
<1>8. SignedBefore'
  <2>1. ASSUME NEW v \in updates
        PROVE  /\ v.life \in DOMAIN escrow[v.by]
               /\ HasRecord(v.by)' /\ chan'[v.by].fund = v.life => v.nonce <= chan'[v.by].nonce
               /\ \A t \in Tasks : task[v.by][t].at = "store" => task[v.by][t].fund # v.life
    <3>1. CASE v.by = p
      BY <1>1, <1>2, <1>3, <1>7, <3>1 DEF SignedInv, SignedBefore
    <3>2. CASE v.by # p
      BY <1>3, <1>7, <3>2 DEF SignedInv, SignedBefore, HasRecord
    <3> QED BY <3>1, <3>2
  <2>2. /\ c.fund \in DOMAIN escrow[p]
        /\ \A t \in Tasks : task[p][t].at = "store" => task[p][t].fund # c.fund
    BY <1>1, <1>2 DEF Inv, CapacityKept, FundsApart
  <2>3. c.nonce <= c.nonce
    BY <1>2
  <2> QED BY <1>3, <1>4, <2>1, <2>2, <2>3 DEF SignedBefore
<1>9. SignedOnce'
  <2>1. \A v \in updates : ~(v.by = p /\ v.life = c.fund /\ v.nonce = c.nonce)
    BY <1>1, <1>2, <1>7 DEF SignedInv, SignedBefore
  <2> QED BY <1>3, <1>4, <2>1 DEF SignedInv, SignedOnce
<1>10. LastShown'
  <2>1. log[p] \in Seq([by : Peers, life : Nat, nonce : Nat])
    BY DEF Inv, TypeOK
  <2>2. log'[p][Len(log'[p])] = Entry(u)
    BY <1>3, <2>1
  <2>3. Shows(p, c, u)
    BY <1>4 DEF Shows
  <2> QED BY <1>3, <1>6, <2>2, <2>3 DEF SignedInv, LastShown, HasRecord
<1> QED BY <1>8, <1>9, <1>10 DEF SignedInv

\* receive_payment: the record shows what the update says, from the other side.
LEMMA SignedReceive ==
    ASSUME Inv, TypeOK', SignedInv, NEW p \in Peers, NEW u \in updates, ReceivePayment(p, u)
    PROVE  SignedInv'
<1> DEFINE c == ApplyUpdate(chan[p], u)
<1>1. chan[p] \in Channels /\ HasRecord(p) /\ u \in Updates
  BY RecordType DEF ReceivePayment, Inv, TypeOK
<1>2. u.nonce = chan[p].nonce + 1 /\ chan[p].nonce \in Nat
  BY <1>1 DEF ReceivePayment, Acceptable, Channels
<1>3. c.local = u.remote /\ c.remote = u.local /\ c.nonce = u.nonce /\ c.fund = chan[p].fund
  BY <1>1 DEF ApplyUpdate, Channels
<1>4. /\ chan'[p] = c /\ log'[p] = Append(log[p], Entry(u))
      /\ \A q \in Peers : q # p => chan'[q] = chan[q] /\ log'[q] = log[q]
      /\ UNCHANGED <<escrow, task, updates>>
  BY DEF ReceivePayment, Inv, TypeOK
<1>5. c \in Channels
  BY <1>1, ApplyUpdateType
<1>6. c # NoChannel /\ HasRecord(p)'
  <2>1. c.status \in Statuses
    BY <1>5 DEF Channels
  <2> QED BY <1>4, <2>1 DEF HasRecord, NoChannel, Statuses
<1>7. u.by # p
  <2>1. \E q \in Peers : q # p
    <3> SUFFICES ASSUME Peers = {p} PROVE FALSE
      OBVIOUS
    <3> QED BY FS_Singleton, PeersAssumption
  <2> QED BY <2>1 DEF ReceivePayment, Other
<1> HIDE DEF c
<1>8. \A v \in updates : v.by \in Peers /\ v.nonce \in Nat
  BY DEF Inv, TypeOK, Updates
<1>9. SignedBefore'
  <2>1. ASSUME NEW v \in updates, HasRecord(v.by)', chan'[v.by].fund = v.life
        PROVE  v.nonce <= chan'[v.by].nonce
    <3>1. CASE v.by = p
      BY <1>1, <1>2, <1>3, <1>4, <1>8, <2>1, <3>1 DEF SignedInv, SignedBefore
    <3>2. CASE v.by # p
      BY <1>4, <1>8, <2>1, <3>2 DEF SignedInv, SignedBefore, HasRecord
    <3> QED BY <3>1, <3>2
  <2> QED BY <1>4, <2>1 DEF SignedInv, SignedBefore
<1>10. SignedOnce'
  BY <1>4 DEF SignedInv, SignedOnce
<1>11. LastShown'
  <2>1. log[p] \in Seq([by : Peers, life : Nat, nonce : Nat])
    BY DEF Inv, TypeOK
  <2>2. log'[p][Len(log'[p])] = Entry(u)
    BY <1>4, <2>1
  <2>3. Shows(p, c, u)
    BY <1>3, <1>7 DEF Shows
  <2> QED BY <1>4, <1>6, <2>2, <2>3 DEF SignedInv, LastShown, HasRecord
<1> QED BY <1>9, <1>10, <1>11 DEF SignedInv

\* open_channel: an escrow of its own, then a record that has signed nothing.
LEMMA SignedFund ==
    ASSUME Inv, TypeOK', SignedInv, NEW p \in Peers, NEW t \in Tasks, OpenFund(p, t)
    PROVE  SignedInv'
<1>1. UNCHANGED <<chan, updates, log>>
  BY DEF OpenFund
<1>2. SameRecords
  BY <1>1 DEF SameRecords, HasRecord
<1>3. CASE UNCHANGED escrow /\ task' = [task EXCEPT ![p][t] = Idle]
  <2>1. Idle \in TaskState BY DEF TaskState
  <2>2. \A q \in Peers, w \in Tasks : task'[q][w].at = "store" => task'[q][w] = task[q][w]
    BY <1>3, <2>1, TaskUpdate DEF Inv, Idle
  <2> QED BY <1>1, <1>2, <1>3, <2>2, SignedFrame DEF Inv
<1>4. CASE /\ escrow' = [escrow EXCEPT ![p] = Append(@, task[p][t].capacity)]
           /\ task' = [task EXCEPT ![p][t] = [at |-> "store", capacity |-> @.capacity,
                                             fund |-> Len(escrow[p]) + 1]]
  <2> DEFINE v == [at |-> "store", capacity |-> task[p][t].capacity,
                   fund |-> Len(escrow[p]) + 1]
  <2>1. task[p][t] \in [at : {"fund"}, capacity : Nat] /\ escrow[p] \in Seq(Nat)
    BY TaskType DEF OpenFund, Inv, TypeOK
  <2>2. v \in TaskState BY <2>1 DEF TaskState
  <2>3. /\ task'[p][t] = v
        /\ \A q \in Peers, w \in Tasks : q # p \/ w # t => task'[q][w] = task[q][w]
    <3>1. task' = [task EXCEPT ![p][t] = v] BY <1>4 DEF Inv, TypeOK
    <3> HIDE DEF v
    <3> QED BY <3>1, <2>2, TaskUpdate DEF Inv
  <2>4. /\ \A q \in Peers : DOMAIN escrow[q] \subseteq DOMAIN escrow'[q]
        /\ v.fund \notin DOMAIN escrow[p]
    BY <1>4, <2>1 DEF Inv, TypeOK
  <2> HIDE DEF v
  <2> QED BY <1>1, <1>2, <2>3, <2>4, SignedFrame DEF Inv
<1> QED BY <1>3, <1>4 DEF OpenFund

LEMMA SignedStore ==
    ASSUME Inv, TypeOK', SignedInv, NEW p \in Peers, NEW t \in Tasks, OpenStore(p, t)
    PROVE  SignedInv'
<1> DEFINE c == NewChannel(task[p][t].capacity, task[p][t].fund)
           v == [task[p][t] EXCEPT !.at = "index"]
<1>1. /\ task[p][t] \in [at : {"store", "index"}, capacity : Nat, fund : Nat]
      /\ task[p][t].at = "store"
  BY TaskType DEF OpenStore, Inv
<1>2. v \in TaskState /\ v.at = "index"
  BY <1>1 DEF TaskState
<1>3. /\ task'[p][t] = v
      /\ \A q \in Peers, w \in Tasks : q # p \/ w # t => task'[q][w] = task[q][w]
  BY DEF OpenStore, Inv, TypeOK
<1>4. c.fund = task[p][t].fund
  BY DEF NewChannel
<1>5. /\ chan'[p] = c /\ log'[p] = <<>>
      /\ \A q \in Peers : q # p => chan'[q] = chan[q] /\ log'[q] = log[q]
      /\ UNCHANGED <<escrow, updates>>
  BY DEF OpenStore, Inv, TypeOK
<1> HIDE DEF c, v
<1>6. \A u \in updates : u.by \in Peers
  BY DEF Inv, TypeOK, Updates
<1>7. SignedBefore'
  <2> SUFFICES ASSUME NEW u \in updates
               PROVE  /\ u.life \in DOMAIN escrow'[u.by]
                      /\ HasRecord(u.by)' /\ chan'[u.by].fund = u.life => u.nonce <= chan'[u.by].nonce
                      /\ \A w \in Tasks : task'[u.by][w].at = "store" => task'[u.by][w].fund # u.life
    BY <1>5 DEF SignedBefore
  <2>1. \A w \in Tasks : task'[u.by][w].at = "store" => task'[u.by][w] = task[u.by][w]
    BY <1>2, <1>3, <1>6
  <2>2. u.by = p => c.fund # u.life
    BY <1>1, <1>4 DEF SignedInv, SignedBefore
  <2>3. u.by # p => chan'[u.by] = chan[u.by]
    BY <1>5, <1>6
  <2> QED BY <1>5, <2>1, <2>2, <2>3 DEF SignedInv, SignedBefore, HasRecord
<1>8. SignedOnce'
  BY <1>5 DEF SignedInv, SignedOnce
<1>9. LastShown'
  BY <1>5 DEF SignedInv, LastShown, HasRecord
<1> QED BY <1>7, <1>8, <1>9 DEF SignedInv

LEMMA SignedStep == Inv /\ SignedInv /\ [Next]_vars => SignedInv'
<1> SUFFICES ASSUME Inv, SignedInv, [Next]_vars PROVE SignedInv'
  OBVIOUS
<1>0. TypeOK /\ TypeOK'
  BY TypeStep DEF Inv
<1>a. ASSUME UNCHANGED chan PROVE SameRecords
  BY <1>a DEF SameRecords, HasRecord
<1>b. ASSUME NEW p \in Peers, NEW t \in Tasks, NEW v \in TaskState, v.at # "store",
             task' = [task EXCEPT ![p][t] = v]
      PROVE  \A q \in Peers, w \in Tasks : task'[q][w].at = "store" => task'[q][w] = task[q][w]
  BY <1>0, <1>b, TaskUpdate
<1>1. CASE UNCHANGED vars
  BY <1>0, <1>1, <1>a, SignedFrame DEF vars
<1>2. ASSUME NEW p \in Peers, RegisterKey(p) PROVE SignedInv'
  BY <1>0, <1>2, <1>a, SignedFrame DEF RegisterKey
<1>3. ASSUME NEW p \in Peers, Confirm(p) PROVE SignedInv'
  <2>1. chan[p] \in Channels BY <1>0, <1>3, StatusType DEF Confirm
  <2>2. SameRecords BY <1>0, <1>3, <2>1, StatusSame DEF Confirm, Statuses
  <2> QED BY <1>0, <1>3, <2>2, SignedFrame DEF Confirm
<1>4. ASSUME NEW p \in Peers, NEW a \in Amounts, Pay(p, a) PROVE SignedInv'
  BY <1>0, <1>4, SignedPay
<1>5. ASSUME NEW p \in Peers, NEW u \in updates, ReceivePayment(p, u) PROVE SignedInv'
  BY <1>0, <1>5, SignedReceive
<1>6. ASSUME NEW p \in Peers, CloseChannel(p) PROVE SignedInv'
  <2>1. chan[p] \in Channels BY <1>0, <1>6, StatusType DEF CloseChannel
  <2>2. SameRecords BY <1>0, <1>6, <2>1, StatusSame DEF CloseChannel, Statuses
  <2> QED BY <1>0, <1>6, <2>2, SignedFrame DEF CloseChannel
<1>7. ASSUME NEW p \in Peers, ChannelExpires(p) PROVE SignedInv'
  <2>1. chan[p] \in Channels BY <1>0, <1>7, StatusType DEF ChannelExpires
  <2>2. /\ chan'[p] = [chan[p] EXCEPT !.expired = TRUE]
        /\ \A q \in Peers : q # p => chan'[q] = chan[q]
    BY <1>0, <1>7 DEF ChannelExpires, TypeOK
  <2>3. /\ chan'[p].local = chan[p].local /\ chan'[p].remote = chan[p].remote
        /\ chan'[p].nonce = chan[p].nonce /\ chan'[p].fund = chan[p].fund
        /\ chan'[p].status = chan[p].status
    BY <2>1, <2>2 DEF Channels
  <2>4. HasRecord(p) /\ HasRecord(p)'
    BY <1>7, <2>3 DEF ChannelExpires, HasRecord, NoChannel
  <2>5. SameRecords BY <2>2, <2>3, <2>4 DEF SameRecords, HasRecord
  <2> QED BY <1>0, <1>7, <2>5, SignedFrame DEF ChannelExpires
<1>8. ASSUME NEW p \in Peers, NEW t \in Tasks, NEW n \in Capacities, OpenCheck(p, t, n)
      PROVE SignedInv'
  <2>1. [at |-> "fund", capacity |-> n] \in TaskState
    BY CapacityAssumption DEF TaskState
  <2>2. \A q \in Peers, w \in Tasks : task'[q][w].at = "store" => task'[q][w] = task[q][w]
    BY <1>8, <1>b, <2>1 DEF OpenCheck
  <2> QED BY <1>0, <1>8, <1>a, <2>2, SignedFrame DEF OpenCheck
<1>9. ASSUME NEW p \in Peers, NEW t \in Tasks, OpenFund(p, t) PROVE SignedInv'
  BY <1>0, <1>9, SignedFund
<1>10. ASSUME NEW p \in Peers, NEW t \in Tasks, OpenStore(p, t) PROVE SignedInv'
  BY <1>0, <1>10, SignedStore
<1>11. ASSUME NEW p \in Peers, NEW t \in Tasks, OpenIndex(p, t) \/ Unindex(p, t)
       PROVE SignedInv'
  <2>1. Idle \in TaskState /\ Idle.at # "store" BY DEF TaskState, Idle
  <2>2. \A q \in Peers, w \in Tasks : task'[q][w].at = "store" => task'[q][w] = task[q][w]
    BY <1>11, <1>b, <2>1 DEF OpenIndex, Unindex
  <2> QED BY <1>0, <1>11, <1>a, <2>2, SignedFrame DEF OpenIndex, Unindex
<1>12. ASSUME NEW p \in Peers, NEW t \in Tasks, chan[p] \in Channels,
              chan' = [chan EXCEPT ![p].status = "Closed"],
              task' = [task EXCEPT ![p][t] = [at |-> "unindex"]],
              UNCHANGED <<escrow, updates, log>>
       PROVE SignedInv'
  <2>1. [at |-> "unindex"] \in TaskState BY DEF TaskState
  <2>2. \A q \in Peers, w \in Tasks : task'[q][w].at = "store" => task'[q][w] = task[q][w]
    BY <1>12, <1>b, <2>1
  <2>3. SameRecords BY <1>0, <1>12, StatusSame DEF Statuses
  <2> QED BY <1>0, <1>12, <2>2, <2>3, SignedFrame
<1>13. ASSUME NEW p \in Peers, NEW t \in Tasks, NEW r \in closes, FinalizeClose(p, t, r)
       PROVE SignedInv'
  <2>1. chan[p] \in Channels BY <1>0, <1>13, StatusType DEF FinalizeClose
  <2> QED BY <1>12, <1>13, <2>1 DEF FinalizeClose
<1>14. ASSUME NEW p \in Peers, NEW t \in Tasks, ForceCloseExpired(p, t) PROVE SignedInv'
  <2>1. chan[p] \in Channels BY <1>0, <1>14, RecordType DEF ForceCloseExpired
  <2> QED BY <1>12, <1>14, <2>1 DEF ForceCloseExpired
<1> QED
  BY <1>1, <1>2, <1>3, <1>4, <1>5, <1>6, <1>7, <1>8, <1>9, <1>10, <1>11, <1>13, <1>14
     DEF Next, PeerStep, ManagerCall

\* Two peers that went through the same updates see the same balances, each from its
\* own side, however often either of them opens the channel again (create_payment,
\* receive_payment, open_channel).
THEOREM ChannelMirrored == Spec => []Mirrored
<1>1. TypeOK /\ SignedInv => Mirrored
  <2> SUFFICES ASSUME TypeOK, SignedInv, NEW p \in Peers, NEW q \in Peers,
                      p # q, log[p] = log[q], log[p] # <<>>
               PROVE  chan[p].local = chan[q].remote /\ chan[p].remote = chan[q].local
    BY DEF Mirrored
  <2>1. PICK u \in updates : log[p][Len(log[p])] = Entry(u) /\ Shows(p, chan[p], u)
    BY DEF SignedInv, LastShown
  <2>2. PICK v \in updates : log[q][Len(log[q])] = Entry(v) /\ Shows(q, chan[q], v)
    BY DEF SignedInv, LastShown
  <2>3. u = v
    <3>1. Entry(u) = Entry(v)
      BY <2>1, <2>2
    <3>2. u.by = v.by /\ u.life = v.life /\ u.nonce = v.nonce
      BY <3>1 DEF Entry
    <3> QED BY <3>2 DEF SignedInv, SignedOnce
  <2>4. u.by \in {p, q}
    <3>1. u.by \in Peers
      BY DEF TypeOK, Updates
    <3>2. {p, q} = Peers
      <4>1. IsFiniteSet({p}) /\ Cardinality({p}) = 1
        BY FS_Singleton
      <4>2. Cardinality({p} \cup {q}) = 2
        BY <4>1, FS_AddElement
      <4>3. {p} \cup {q} = {p, q} /\ {p, q} \in SUBSET Peers
        OBVIOUS
      <4> QED BY <4>2, <4>3, FS_Subset, PeersAssumption
    <3> QED BY <3>1, <3>2
  <2> QED BY <2>1, <2>2, <2>3, <2>4 DEF Shows
<1>2. Init => SignedInv
  BY SignedInit
<1>3. Inv => TypeOK
  BY DEF Inv
<1> QED BY <1>1, <1>2, <1>3, SignedStep, Invariance, PTL DEF Spec

-----------------------------------------------------------------------------
(* by_peer and the records.                                                *)

\* What a step of one peer means for the claim about another, or where an open was
\* overlapped.
LEMMA OneCallFrame ==
    ASSUME OneCallApart, NEW p \in Peers,
           \A q \in Peers : q # p =>
               /\ chan'[q] = chan[q] /\ index'[q] = index[q]
               /\ overlap'[q] = overlap[q] /\ task'[q] = task[q],
           ~overlap'[p] => OneCall(p)'
    PROVE  OneCallApart'
<1>1. ASSUME NEW q \in Peers, q # p, ~overlap'[q] PROVE OneCall(q)'
  <2>1. OneCall(q)
    BY <1>1 DEF OneCallApart
  <2>2. Live(q)' <=> Live(q)
    BY <1>1 DEF Live, HasRecord
  <2> QED BY <1>1, <2>1, <2>2 DEF OneCall
<1> QED BY <1>1 DEF OneCallApart

\* The places of a peer's calls when one of them moves.
LEMMA CallsMove ==
    ASSUME TypeOK, NEW p \in Peers, NEW t \in Tasks, NEW v \in TaskState,
           task' = [task EXCEPT ![p][t] = v]
    PROVE  /\ task'[p][t].at = v.at
           /\ \A u \in Tasks : u # t => task'[p][u].at = task[p][u].at
           /\ \A q \in Peers : q # p => task'[q] = task[q]
BY TaskUpdate DEF TypeOK

LEMMA Noted ==
    ASSUME TypeOK, NEW p \in Peers, NoteOverlap(p)
    PROVE  /\ \A q \in Peers : q # p => overlap'[q] = overlap[q]
           /\ ~overlap'[p] => ~overlap[p] /\ \A t \in Tasks : task[p][t].at \notin {"fund", "store", "index"}
BY DEF TypeOK, NoteOverlap

\* A call of a kind is the only one, if the claim is made for its peer.
LEMMA OneCallMoves ==
    ASSUME NEW p \in Peers, NEW t \in Tasks,
           ~overlap[p] => OneCall(p), overlap'[p] = overlap[p], task[p][t].at # "idle",
           \A u \in Tasks : u # t => task'[p][u].at = task[p][u].at,
           ~overlap[p] => CASE task'[p][t].at = "idle" -> index'[p] <=> Live(p)'
                            [] task'[p][t].at \in {"fund", "store"} -> ~index'[p] /\ ~Live(p)'
                            [] task'[p][t].at = "index" -> Live(p)'
                            [] task'[p][t].at = "unindex" -> index'[p] /\ ~Live(p)'
                            [] OTHER -> FALSE
    PROVE  ~overlap'[p] => OneCall(p)'
<1> SUFFICES ASSUME ~overlap[p] PROVE OneCall(p)'
  OBVIOUS
<1>1. \A u \in Tasks : u # t => task[p][u].at = "idle"
  BY DEF OneCall
<1> QED BY <1>1 DEF OneCall

\* A call begins while no other is in flight, if the claim is made for its peer.
LEMMA OneCallBegins ==
    ASSUME NEW p \in Peers, NEW t \in Tasks,
           ~overlap[p] => OneCall(p), ~overlap'[p] => ~overlap[p],
           ~overlap'[p] => \A u \in Tasks : task[p][u].at = "idle",
           \A u \in Tasks : u # t => task'[p][u].at = task[p][u].at,
           ~overlap'[p] => \/ task'[p][t].at = "fund" /\ ~index'[p] /\ ~Live(p)'
                           \/ task'[p][t].at = "unindex" /\ index'[p] /\ ~Live(p)'
    PROVE  ~overlap'[p] => OneCall(p)'
BY DEF OneCall

\* A step on the record alone that keeps it live, or leaves it as it was.
LEMMA OneCallRecord ==
    ASSUME NEW p \in Peers, ~overlap[p] => OneCall(p), overlap'[p] = overlap[p],
           index'[p] = index[p], task'[p] = task[p], Live(p)' <=> Live(p)
    PROVE  ~overlap'[p] => OneCall(p)'
BY DEF OneCall

LEMMA OneCallStep == Inv /\ OneCallApart /\ [Next]_vars => OneCallApart'
<1> SUFFICES ASSUME TypeOK, OneCallApart, [Next]_vars PROVE OneCallApart'
  BY DEF Inv
<1>0. \A p \in Peers : ~overlap[p] => OneCall(p)
  BY DEF OneCallApart
<1>a. Idle \in TaskState /\ Idle.at = "idle"
  BY DEF TaskState, Idle
<1>b. [at |-> "unindex"] \in TaskState
  BY DEF TaskState
<1>1. CASE UNCHANGED vars
  BY <1>1 DEF vars, OneCallApart, OneCall, Live, HasRecord
<1>2. ASSUME NEW p \in Peers, RegisterKey(p) PROVE OneCallApart'
  BY <1>2 DEF RegisterKey, OneCallApart, OneCall, Live, HasRecord
<1>3. ASSUME NEW p \in Peers, NEW s \in Statuses \ {"Closed"},
             chan' = [chan EXCEPT ![p].status = s], chan[p].status \in Statuses \ {"Closed"},
             UNCHANGED <<index, overlap, task>>
      PROVE  OneCallApart'
  <2>1. chan[p] \in Channels BY <1>3, StatusType DEF Statuses
  <2>2. Live(p)' /\ Live(p) BY <1>3, <2>1, StatusSame DEF Live
  <2>3. \A q \in Peers : q # p => chan'[q] = chan[q] BY <1>3, <2>1, StatusUpdate
  <2>4. ~overlap'[p] => OneCall(p)' BY <1>0, <1>3, <2>2, OneCallRecord
  <2> QED BY <1>3, <2>3, <2>4, OneCallFrame
<1>4. ASSUME NEW p \in Peers, Confirm(p) \/ CloseChannel(p) PROVE OneCallApart'
  BY <1>3, <1>4 DEF Confirm, CloseChannel, Statuses
<1>5. ASSUME NEW p \in Peers, NEW c \in Channels, HasRecord(p), chan' = [chan EXCEPT ![p] = c],
             c.status = chan[p].status, UNCHANGED <<index, overlap, task>>
      PROVE  OneCallApart'
  <2>1. /\ chan'[p] = c /\ \A q \in Peers : q # p => chan'[q] = chan[q]
    BY <1>5 DEF TypeOK
  <2>2. c # NoChannel
    BY DEF Channels, Statuses, NoChannel
  <2>3. Live(p)' <=> Live(p) BY <1>5, <2>1, <2>2 DEF Live, HasRecord
  <2>4. ~overlap'[p] => OneCall(p)' BY <1>0, <1>5, <2>3, OneCallRecord
  <2> QED BY <1>5, <2>1, <2>4, OneCallFrame
<1>6. ASSUME NEW p \in Peers, NEW a \in Amounts, Pay(p, a) PROVE OneCallApart'
  <2> DEFINE c == CreatePayment(chan[p], a)
  <2>1. chan[p] \in Channels /\ HasRecord(p) BY <1>6, RecordType DEF Pay
  <2>2. a \in Nat /\ a <= chan[p].local BY <1>6, CapacityAssumption DEF Pay, Payable
  <2>3. c \in Channels BY <2>1, <2>2, CreatePaymentType
  <2>4. c.status = chan[p].status BY <2>1 DEF CreatePayment, Channels
  <2>5. chan' = [chan EXCEPT ![p] = c] /\ UNCHANGED <<index, overlap, task>> BY <1>6 DEF Pay
  <2> HIDE DEF c
  <2> QED BY <1>5, <2>1, <2>3, <2>4, <2>5
<1>7. ASSUME NEW p \in Peers, NEW u \in updates, ReceivePayment(p, u) PROVE OneCallApart'
  <2> DEFINE c == ApplyUpdate(chan[p], u)
  <2>1. chan[p] \in Channels /\ HasRecord(p) BY <1>7, RecordType DEF ReceivePayment
  <2>2. c \in Channels BY <2>1, ApplyUpdateType DEF TypeOK
  <2>3. c.status = chan[p].status BY <2>1 DEF ApplyUpdate, Channels
  <2>4. chan' = [chan EXCEPT ![p] = c] /\ UNCHANGED <<index, overlap, task>>
    BY <1>7 DEF ReceivePayment
  <2> HIDE DEF c
  <2> QED BY <1>5, <2>1, <2>2, <2>3, <2>4
<1>8. ASSUME NEW p \in Peers, ChannelExpires(p) PROVE OneCallApart'
  <2> DEFINE c == [chan[p] EXCEPT !.expired = TRUE]
  <2>1. chan[p] \in Channels BY <1>8, StatusType DEF ChannelExpires
  <2>2. c \in Channels /\ c.status = chan[p].status BY <2>1 DEF Channels
  <2>3. HasRecord(p) BY <2>1 DEF HasRecord, Channels, Statuses, NoChannel
  <2>4. chan' = [chan EXCEPT ![p] = c] /\ UNCHANGED <<index, overlap, task>>
    BY <1>8 DEF ChannelExpires, TypeOK
  <2> HIDE DEF c
  <2> QED BY <1>5, <2>2, <2>3, <2>4
<1>9. ASSUME NEW p \in Peers, NEW t \in Tasks, NEW n \in Capacities, OpenCheck(p, t, n)
      PROVE OneCallApart'
  <2> DEFINE v == [at |-> "fund", capacity |-> n]
  <2>1. v \in TaskState /\ v.at = "fund" BY CapacityAssumption DEF TaskState
  <2>2. task' = [task EXCEPT ![p][t] = v] /\ ~index[p] /\ NoteOverlap(p) /\ UNCHANGED <<chan, index>>
    BY <1>9 DEF OpenCheck
  <2> HIDE DEF v
  <2>3. /\ task'[p][t].at = "fund"
        /\ \A u \in Tasks : u # t => task'[p][u].at = task[p][u].at
        /\ \A q \in Peers : q # p => task'[q] = task[q]
    BY <2>1, <2>2, CallsMove
  <2>4. /\ \A q \in Peers : q # p => overlap'[q] = overlap[q]
        /\ ~overlap'[p] => ~overlap[p] /\ \A u \in Tasks : task[p][u].at \notin {"fund", "store", "index"}
    BY <2>2, Noted
  <2>5. ASSUME ~overlap'[p] PROVE \A u \in Tasks : task[p][u].at = "idle"
    <3>1. \A u \in Tasks : task[p][u].at \in {"idle", "unindex", "fund", "store", "index"}
      BY DEF TypeOK, TaskState, Idle
    <3>2. \A u \in Tasks : task[p][u].at # "unindex"
      BY <1>0, <2>2, <2>4, <2>5 DEF OneCall
    <3> QED BY <2>4, <2>5, <3>1, <3>2
  <2>6. ~overlap'[p] => ~Live(p)
    BY <1>0, <2>2, <2>4, <2>5 DEF OneCall
  <2>7. Live(p)' <=> Live(p)
    BY <2>2 DEF Live, HasRecord
  <2>8. ~overlap'[p] => OneCall(p)'
    BY <1>0, <2>2, <2>3, <2>4, <2>5, <2>6, <2>7, OneCallBegins
  <2> QED BY <2>2, <2>3, <2>4, <2>8, OneCallFrame
<1>10. ASSUME NEW p \in Peers, NEW t \in Tasks, NEW v \in TaskState,
              task' = [task EXCEPT ![p][t] = v], task[p][t].at # "idle",
              UNCHANGED overlap,
              \A q \in Peers : q # p => chan'[q] = chan[q] /\ index'[q] = index[q],
              ~overlap[p] => CASE v.at = "idle" -> index'[p] <=> Live(p)'
                               [] v.at \in {"fund", "store"} -> ~index'[p] /\ ~Live(p)'
                               [] v.at = "index" -> Live(p)'
                               [] v.at = "unindex" -> index'[p] /\ ~Live(p)'
                               [] OTHER -> FALSE
       PROVE  OneCallApart'
  <2>1. /\ task'[p][t].at = v.at
        /\ \A u \in Tasks : u # t => task'[p][u].at = task[p][u].at
        /\ \A q \in Peers : q # p => task'[q] = task[q]
    BY <1>10, CallsMove
  <2>2. ~overlap'[p] => OneCall(p)'
    BY <1>0, <1>10, <2>1, OneCallMoves
  <2> QED BY <1>10, <2>1, <2>2, OneCallFrame
<1>11. ASSUME NEW p \in Peers, NEW t \in Tasks, OpenFund(p, t) PROVE OneCallApart'
  <2>1. /\ task[p][t].at = "fund" /\ UNCHANGED <<chan, index, overlap>>
        /\ task[p][t] \in [at : {"fund"}, capacity : Nat]
    BY <1>11, TaskType DEF OpenFund
  <2>2. /\ ~overlap[p] => ~index'[p] /\ ~Live(p)'
    BY <1>0, <2>1 DEF OneCall, Live, HasRecord
  <2>3. CASE task' = [task EXCEPT ![p][t] = Idle]
    BY <1>10, <1>a, <2>1, <2>2, <2>3
  <2>4. CASE task' = [task EXCEPT ![p][t] = [at |-> "store", capacity |-> @.capacity,
                                            fund |-> Len(escrow[p]) + 1]]
    <3> DEFINE v == [at |-> "store", capacity |-> task[p][t].capacity, fund |-> Len(escrow[p]) + 1]
    <3>1. v \in TaskState /\ v.at = "store"
      <4>1. Len(escrow[p]) + 1 \in Nat BY DEF TypeOK
      <4> QED BY <2>1, <4>1 DEF TaskState
    <3>2. task' = [task EXCEPT ![p][t] = v] BY <2>4 DEF TypeOK
    <3> HIDE DEF v
    <3> QED BY <1>10, <2>1, <2>2, <3>1, <3>2
  <2> QED BY <1>11, <2>3, <2>4 DEF OpenFund
<1>12. ASSUME NEW p \in Peers, NEW t \in Tasks, OpenStore(p, t) PROVE OneCallApart'
  <2> DEFINE v == [task[p][t] EXCEPT !.at = "index"]
             c == NewChannel(task[p][t].capacity, task[p][t].fund)
  <2>1. /\ task[p][t] \in [at : {"store", "index"}, capacity : Nat, fund : Nat]
        /\ task[p][t].at = "store"
    BY <1>12, TaskType DEF OpenStore
  <2>2. v \in TaskState /\ v.at = "index" BY <2>1 DEF TaskState
  <2>3. c.status = "Opening" BY DEF NewChannel
  <2>4. /\ task' = [task EXCEPT ![p][t] = v] /\ chan'[p] = c
        /\ \A q \in Peers : q # p => chan'[q] = chan[q] /\ index'[q] = index[q]
        /\ UNCHANGED overlap
    BY <1>12 DEF OpenStore, TypeOK
  <2> HIDE DEF v, c
  <2>5. Live(p)' BY <2>3, <2>4 DEF Live, HasRecord, NoChannel
  <2> QED BY <1>10, <2>1, <2>2, <2>4, <2>5
<1>13. ASSUME NEW p \in Peers, NEW t \in Tasks, OpenIndex(p, t) PROVE OneCallApart'
  <2>1. /\ task[p][t].at = "index" /\ task' = [task EXCEPT ![p][t] = Idle] /\ index'[p]
        /\ \A q \in Peers : q # p => index'[q] = index[q]
        /\ UNCHANGED <<chan, overlap>>
    BY <1>13 DEF OpenIndex, TypeOK
  <2>2. ~overlap[p] => Live(p)'
    BY <1>0, <2>1 DEF OneCall, Live, HasRecord
  <2> QED BY <1>10, <1>a, <2>1, <2>2
<1>14. ASSUME NEW p \in Peers, NEW t \in Tasks, Unindex(p, t) PROVE OneCallApart'
  <2>1. /\ task[p][t].at = "unindex" /\ task' = [task EXCEPT ![p][t] = Idle] /\ ~index'[p]
        /\ \A q \in Peers : q # p => index'[q] = index[q]
        /\ UNCHANGED <<chan, overlap>>
    BY <1>14 DEF Unindex, TypeOK
  <2>2. ~overlap[p] => ~Live(p)'
    BY <1>0, <2>1 DEF OneCall, Live, HasRecord
  <2> QED BY <1>10, <1>a, <2>1, <2>2
<1>15. ASSUME NEW p \in Peers, NEW t \in Tasks, chan[p] \in Channels, chan[p].status # "Closed",
              chan' = [chan EXCEPT ![p].status = "Closed"],
              task' = [task EXCEPT ![p][t] = [at |-> "unindex"]],
              NoteOverlap(p), UNCHANGED index
       PROVE OneCallApart'
  <2>1. /\ \A q \in Peers : q # p => chan'[q] = chan[q]
        /\ HasRecord(p) /\ chan'[p].status = "Closed"
    BY <1>15, StatusUpdate, StatusSame DEF Statuses
  <2>2. Live(p) /\ ~Live(p)'
    BY <1>15, <2>1 DEF Live
  <2> DEFINE v == [at |-> "unindex"]
  <2>3. /\ task'[p][t].at = "unindex"
        /\ \A u \in Tasks : u # t => task'[p][u].at = task[p][u].at
        /\ \A q \in Peers : q # p => task'[q] = task[q]
    <3>1. v \in TaskState /\ v.at = "unindex" BY <1>b
    <3>2. task' = [task EXCEPT ![p][t] = v] BY <1>15
    <3> HIDE DEF v
    <3> QED BY <3>1, <3>2, CallsMove
  <2>4. /\ \A q \in Peers : q # p => overlap'[q] = overlap[q]
        /\ ~overlap'[p] => ~overlap[p] /\ \A u \in Tasks : task[p][u].at \notin {"fund", "store", "index"}
    BY <1>15, Noted
  <2>5. ASSUME ~overlap'[p] PROVE \A u \in Tasks : task[p][u].at = "idle"
    <3>1. \A u \in Tasks : task[p][u].at \in {"idle", "unindex", "fund", "store", "index"}
      BY DEF TypeOK, TaskState, Idle
    <3>2. \A u \in Tasks : task[p][u].at # "unindex"
      BY <1>0, <2>2, <2>4, <2>5 DEF OneCall
    <3> QED BY <2>4, <2>5, <3>1, <3>2
  <2>6. ~overlap'[p] => index'[p]
    BY <1>0, <1>15, <2>2, <2>4, <2>5 DEF OneCall
  <2>7. ~overlap'[p] => OneCall(p)'
    BY <1>0, <2>2, <2>3, <2>4, <2>5, <2>6, OneCallBegins
  <2> QED BY <1>15, <2>1, <2>3, <2>4, <2>7, OneCallFrame
<1>16. ASSUME NEW p \in Peers, NEW t \in Tasks, NEW r \in closes, FinalizeClose(p, t, r)
       PROVE OneCallApart'
  <2>1. chan[p] \in Channels BY <1>16, StatusType DEF FinalizeClose
  <2> QED BY <1>15, <1>16, <2>1 DEF FinalizeClose
<1>17. ASSUME NEW p \in Peers, NEW t \in Tasks, ForceCloseExpired(p, t) PROVE OneCallApart'
  <2>1. chan[p] \in Channels BY <1>17, RecordType DEF ForceCloseExpired
  <2> QED BY <1>15, <1>17, <2>1 DEF ForceCloseExpired
<1> QED
  BY <1>1, <1>2, <1>4, <1>6, <1>7, <1>8, <1>9, <1>11, <1>12, <1>13, <1>14, <1>16, <1>17
     DEF Next, PeerStep, ManagerCall

\* by_peer has the other peer exactly when the record is of a channel that is not
\* closed, once no call is in flight and none began during an open (open_channel,
\* finalize_close, force_close_expired).
THEOREM ChannelIndexAgrees == Spec => []IndexAgrees
<1>1. OneCallApart => IndexAgrees
  BY DEF OneCallApart, OneCall, IndexAgrees, Idle, Live
<1>2. Init => OneCallApart
  BY SignedInit
<1> QED BY <1>1, <1>2, OneCallStep, Invariance, PTL DEF Spec

===============================================================================
