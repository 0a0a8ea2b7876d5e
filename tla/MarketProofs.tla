----------------------------- MODULE MarketProofs -----------------------------
(***************************************************************************)
(* The safety of JobMarket for any jobs, peers, prices and messages.  The  *)
(* inductive invariant adds to the properties where each job is (Placed),  *)
(* what the holder of the lock may rely on (Settling), which escrow is     *)
(* whose (Funded) and what a message says of the past (Heard).             *)
(***************************************************************************)
EXTENDS JobMarket, SequenceTheorems, FiniteSetTheorems, TLAPS

USE MarketAssumption

\* A job that was asked for and is no longer requested.
Past(j) == j \in created /\ j \notin requests

Placed ==
    /\ requests \subseteq created
    /\ \A j \in Jobs : active[j] # None => Past(j)
    /\ \A i \in 1 .. Len(completed) :
         /\ Past(completed[i]) /\ active[completed[i]] = None
         /\ \A k \in 1 .. Len(completed) : completed[i] = completed[k] => i = k

Settling ==
    /\ lock.step # "free" => lock.job \in Jobs
    /\ lock.step = "submitted" => active[lock.job] # None /\ active[lock.job].result
    /\ lock.step = "released" =>
         /\ Past(lock.job) /\ active[lock.job] = None
         /\ \A i \in 1 .. Len(completed) : completed[i] # lock.job
         /\ \E e \in EscrowIds : escrows[e].job = lock.job /\ escrows[e].status = "Released"

\* The escrow of an active job is locked or swept, and nobody else's.
Funded ==
    /\ \A j \in Jobs : active[j] # None =>
         LET e == active[j].escrow
         IN  /\ escrows[e].job = j /\ escrows[e].recipient = active[j].winner
             /\ escrows[e].status \in {"Active", "Expired"}
    /\ \A e \in EscrowIds :
         /\ escrows[e].status # "Absent" => escrows[e].job \in created
         /\ escrows[e].status = "Released" =>
              Past(escrows[e].job) /\ active[escrows[e].job] = None
    /\ EscrowHasJob
    /\ PaidOnce

\* The winner of a job, if it is active, is p.
WonBy(j, p) == Past(j) /\ (active[j] # None => active[j].winner = p)

Executed(j, p) == \E x \in executed : x.job = j /\ x.provider = p

\* Only the winner is told that it won, and only who executed sends a result.
Heard ==
    /\ \A m \in net : m.type = "accepted" => WonBy(m.job, m.winner)
    /\ \A m \in net : m.type = "result" =>
         WonBy(m.job, m.provider) /\ Executed(m.job, m.provider)
    /\ \A j \in Jobs : active[j] # None /\ active[j].result => Executed(j, active[j].winner)
    /\ WorkPaid

Inv == TypeOK /\ Placed /\ Settling /\ Funded /\ Heard

-------------------------------------------------------------------------------
(* Facts about the data                                                    *)

LEMMA MessageTypes ==
    ASSUME NEW m \in Messages
    PROVE  /\ m.job \in Jobs
           /\ m.type = "request" => m.copy \in Copies
           /\ m.type = "bid" => m.bid \in Bids
           /\ m.type = "accepted" => m.winner \in Providers
           /\ m.type = "result" => m.provider \in Providers
BY DEF Messages

LEMMA BidTypes ==
    ASSUME NEW b \in Bids
    PROVE  b.bidder \in Providers /\ Price[b.bidder] \in Nat
BY DEF Bids

LEMMA MessagesMade ==
    ASSUME NEW j \in Jobs, NEW p \in Providers
    PROVE  /\ \A copies \in SUBSET Copies :
                /\ RequestMessages(j, copies) \subseteq Messages
                /\ [type : {"accepted"}, job : {j}, winner : {p}, copy : copies] \subseteq Messages
           /\ \A c \in Copies :
                [type |-> "bid", job |-> j, bid |-> [bidder |-> p, copy |-> c]] \in Messages
           /\ \A ok \in BOOLEAN :
                [type |-> "result", job |-> j, provider |-> p, ok |-> ok] \in Messages
<1>1. ASSUME NEW copies \in SUBSET Copies
      PROVE  /\ RequestMessages(j, copies) \subseteq Messages
             /\ [type : {"accepted"}, job : {j}, winner : {p}, copy : copies] \subseteq Messages
  BY DEF RequestMessages, Messages
<1>2. ASSUME NEW c \in Copies
      PROVE  [type |-> "bid", job |-> j, bid |-> [bidder |-> p, copy |-> c]] \in Messages
  BY DEF Messages, Bids
<1>3. ASSUME NEW ok \in BOOLEAN
      PROVE  [type |-> "result", job |-> j, provider |-> p, ok |-> ok] \in Messages
  BY DEF Messages
<1> QED
  BY <1>1, <1>2, <1>3

\* The list of completed jobs keeps its last elements.
LEMMA LastOfProperties ==
    ASSUME NEW s \in Seq(Jobs), NEW n \in Nat \ {0}
    PROVE  /\ LastOf(s, n) \in Seq(Jobs) /\ Len(LastOf(s, n)) <= n
           /\ \E d \in Nat :
                /\ Len(LastOf(s, n)) + d = Len(s)
                /\ \A i \in 1 .. Len(LastOf(s, n)) : LastOf(s, n)[i] = s[i + d]
<1> DEFINE d == IF Len(s) > n THEN Len(s) - n ELSE 0
           last == SubSeq(s, d + 1, Len(s))
<1>1. Len(s) \in Nat /\ d \in Nat /\ d <= Len(s) /\ Len(s) - d <= n
  OBVIOUS
<1>2. LastOf(s, n) = last
  BY DEF LastOf
<1> HIDE DEF d
<1>3. d + 1 \in Int /\ Len(s) \in Int /\ \A i \in d + 1 .. Len(s) : s[i] \in Jobs
  BY <1>1
<1>4. /\ last \in Seq(Jobs)
      /\ Len(last) = IF d + 1 <= Len(s) THEN Len(s) - (d + 1) + 1 ELSE 0
      /\ \A i \in 1 .. Len(s) - (d + 1) + 1 : last[i] = s[(d + 1) + i - 1]
  BY <1>3, SubSeqProperties
<1> HIDE DEF last
<1>5. Len(last) = Len(s) - d
  BY <1>1, <1>4
<1>6. \A i \in 1 .. Len(last) : last[i] = s[i + d]
  BY <1>1, <1>4, <1>5
<1> QED
  BY <1>1, <1>2, <1>4, <1>5, <1>6

-------------------------------------------------------------------------------
(* The invariant                                                           *)

LEMMA InitInv == Init => Inv
<1> SUFFICES ASSUME Init PROVE Inv
  OBVIOUS
<1> USE DEF Init
<1>1. TypeOK
  BY DEF TypeOK, Free, ExecStates
<1>2. Placed
  BY DEF Placed
<1>3. Settling
  BY DEF Settling, Free
<1>4. Funded
  BY DEF Funded, EscrowHasJob, PaidOnce
<1>5. Heard
  BY DEF Heard, WorkPaid
<1> QED
  BY <1>1, <1>2, <1>3, <1>4, <1>5 DEF Inv

\* A new job is in no list yet, and no message speaks of it.
LEMMA CreateInv ==
    ASSUME Inv, NEW j \in Jobs, NEW copies \in SUBSET Copies, CreateRequest(j, copies),
           exec' \in [ExecJobs -> ExecStates], UNCHANGED chosen
    PROVE  Inv'
<1> USE DEF Inv, CreateRequest, wallet
<1>1. \A m \in net' : m \in net \/ m.type = "request"
  BY DEF RequestMessages
<1>2. TypeOK'
  <2>1. net' \subseteq Messages
    BY MessagesMade DEF TypeOK, RequestMessages, Messages
  <2> QED
    BY <2>1 DEF TypeOK
<1>3. Placed'
  BY DEF TypeOK, Placed, Past
<1>4. Settling'
  BY DEF TypeOK, Settling, Placed, Past, Free
<1>5. Funded'
  BY DEF TypeOK, Funded, Past, EscrowHasJob, PaidOnce
<1>6. Heard'
  <2>1. ASSUME NEW i \in Jobs, NEW p, WonBy(i, p) PROVE WonBy(i, p)'
    BY <2>1 DEF WonBy, Past
  <2>2. \A m \in net : m.job \in Jobs
    BY MessageTypes DEF TypeOK
  <2>3. \A i, p : Executed(i, p) => Executed(i, p)'
    BY DEF Executed
  <2> QED
    BY <1>1, <2>1, <2>2, <2>3 DEF Heard, WorkPaid
<1> QED
  BY <1>2, <1>3, <1>4, <1>5, <1>6

\* A peer's bid says nothing that Heard speaks of.
LEMMA RequestInv ==
    ASSUME Inv, NEW m \in net, NEW p \in Providers, HandleRequest(p, m)
    PROVE  Inv'
<1> USE DEF Inv, HandleRequest, executor, manager, wallet, history
<1>1. TypeOK'
  <2>1. m.job \in Jobs /\ m.copy \in Copies
    BY MessageTypes DEF TypeOK
  <2>2. net' \subseteq Messages
    BY <2>1, MessagesMade DEF TypeOK
  <2>3. pending' \in [Providers -> SUBSET Jobs]
    BY <2>1 DEF TypeOK
  <2> QED
    BY <2>2, <2>3 DEF TypeOK
<1>2. Placed' /\ Settling' /\ Funded'
  BY DEF Placed, Past, Settling, Funded, EscrowHasJob, PaidOnce
<1>3. \A n \in net' : n \in net \/ n.type = "bid"
  OBVIOUS
<1>4. Heard'
  BY <1>3 DEF Heard, WonBy, Past, Executed, WorkPaid
<1> QED
  BY <1>1, <1>2, <1>4

LEMMA BidInv ==
    ASSUME Inv, NEW m \in net, ReceiveBid(m)
    PROVE  Inv'
<1> USE DEF Inv, ReceiveBid, executor, wallet, history
<1>1. m.job \in Jobs /\ m.bid \in Bids
  BY MessageTypes DEF TypeOK
<1>2. TypeOK'
  BY <1>1 DEF TypeOK
<1>3. Placed' /\ Settling' /\ Funded' /\ Heard'
  BY DEF Placed, Past, Settling, Funded, EscrowHasJob, PaidOnce, Heard, WonBy, Executed, WorkPaid
<1> QED
  BY <1>2, <1>3

\* An accepted job gets an escrow that no job has, and is announced to its
\* winner; before it was requested, so that no message speaks of it.
LEMMA AcceptInv ==
    ASSUME Inv, NEW j \in Jobs, NEW b \in Bids, NEW e \in EscrowIds,
           NEW copies \in SUBSET Copies, AcceptBid(j, b, e, copies),
           exec' \in [ExecJobs -> ExecStates], UNCHANGED chosen
    PROVE  Inv'
<1> USE DEF Inv, AcceptBid, LockFunds, Fresh, history
<1> DEFINE p == b.bidder
<1>1. p \in Providers /\ Price[p] \in Nat
  BY BidTypes
<1>2. active' = [active EXCEPT ![j] = [winner |-> p, escrow |-> e, result |-> FALSE]]
  OBVIOUS
<1>3. escrows' = [escrows EXCEPT ![e] = [status |-> "Active", amount |-> Price[p],
                                         job |-> j, recipient |-> p]]
  OBVIOUS
<1>4. TypeOK'
  <2>1. net' \subseteq Messages
    <3>1. [type : {"accepted"}, job : {j}, winner : {p}, copy : copies] \subseteq Messages
      BY <1>1, MessagesMade
    <3> QED
      BY <3>1 DEF TypeOK
  <2>2. available' \in Nat
    BY <1>1 DEF TypeOK, Affordable
  <2>3. active' \in [Jobs -> ActiveJobs \cup {None}]
    BY <1>1 DEF TypeOK, ActiveJobs
  <2>4. escrows' \in [EscrowIds -> [status : {"Absent", "Active", "Released", "Expired"},
                                    amount : Nat, job : Jobs \cup {None},
                                    recipient : Providers \cup {None}]]
    BY <1>1 DEF TypeOK
  <2> QED
    BY <2>1, <2>2, <2>3, <2>4 DEF TypeOK
<1>5. active[j] = None /\ \A i \in 1 .. Len(completed) : completed[i] # j
  BY DEF Placed, Past
<1>6. Placed'
  BY <1>5 DEF TypeOK, Placed, Past
<1>7. Settling'
  BY DEF Settling, Free
<1>8. \A i \in Jobs : active'[i] = IF i = j THEN [winner |-> p, escrow |-> e, result |-> FALSE]
                                   ELSE active[i]
  BY DEF TypeOK
<1>9. \A f \in EscrowIds : escrows'[f] = IF f = e THEN [status |-> "Active", amount |-> Price[p],
                                                        job |-> j, recipient |-> p]
                                         ELSE escrows[f]
  BY DEF TypeOK
<1>10. Funded'
  <2>1. j \in created /\ [winner |-> p, escrow |-> e, result |-> FALSE] # None
    <3>1. [winner |-> p, escrow |-> e, result |-> FALSE] \in ActiveJobs
      BY <1>1 DEF ActiveJobs
    <3> QED
      BY <3>1 DEF Placed
  <2>2. \A i \in Jobs : active[i] # None => active[i].escrow # e
    BY DEF Funded
  <2>3. \A f \in EscrowIds : escrows[f].status = "Released" => escrows[f].job # j
    BY DEF Funded, Past
  <2>4. \A f \in EscrowIds : escrows[f].status # "Absent" => escrows[f].job \in Jobs
    BY DEF Funded, TypeOK
  <2>5. EscrowHasJob'
    BY <1>5, <1>8, <1>9, <2>1, <2>4 DEF Funded, EscrowHasJob
  <2>6. PaidOnce'
    BY <1>9 DEF Funded, PaidOnce
  <2>7. \A i \in Jobs : active'[i] # None =>
          LET f == active'[i].escrow
          IN  /\ escrows'[f].job = i /\ escrows'[f].recipient = active'[i].winner
              /\ escrows'[f].status \in {"Active", "Expired"}
    <3> SUFFICES ASSUME NEW i \in Jobs, active'[i] # None
                 PROVE  /\ escrows'[active'[i].escrow].job = i
                        /\ escrows'[active'[i].escrow].recipient = active'[i].winner
                        /\ escrows'[active'[i].escrow].status \in {"Active", "Expired"}
      OBVIOUS
    <3>1. CASE i = j
      BY <1>8, <1>9, <3>1
    <3>2. CASE i # j
      <4>1. active'[i] = active[i] /\ active[i].escrow \in EscrowIds \ {e}
        BY <1>8, <2>2, <3>2 DEF TypeOK, ActiveJobs
      <4> QED
        BY <1>9, <4>1 DEF Funded
    <3> QED
      BY <3>1, <3>2
  <2>8. \A f \in EscrowIds :
          /\ escrows'[f].status # "Absent" => escrows'[f].job \in created
          /\ escrows'[f].status = "Released" =>
               Past(escrows[f].job)' /\ active'[escrows'[f].job] = None
    BY <1>8, <1>9, <2>1, <2>3, <2>4 DEF Funded, Past
  <2> QED
    BY <2>5, <2>6, <2>7, <2>8 DEF Funded
<1>11. Heard'
  <2>1. ASSUME NEW i \in Jobs, NEW q, WonBy(i, q) PROVE WonBy(i, q)'
    BY <1>8, <2>1 DEF WonBy, Past
  <2>2. \A n \in net : n.job \in Jobs
    BY MessageTypes DEF TypeOK
  <2>3. WonBy(j, p)'
    BY <1>8 DEF WonBy, Past, Placed
  <2>4. \A n \in net' : n \in net \/ (n.type = "accepted" /\ n.job = j /\ n.winner = p)
    OBVIOUS
  <2>5. \A i, q : Executed(i, q) => Executed(i, q)'
    BY DEF Executed
  <2>6. WorkPaid'
    BY <1>9 DEF Heard, WorkPaid
  <2>7. \A i \in Jobs : active'[i] # None /\ active'[i].result => Executed(i, active[i].winner)'
    BY <1>8, <2>5 DEF Heard
  <2> QED
    BY <2>1, <2>2, <2>3, <2>4, <2>5, <2>6, <2>7 DEF Heard
<1> QED
  BY <1>4, <1>6, <1>7, <1>10, <1>11

LEMMA EscrowOfJob ==
    ASSUME Inv
    PROVE  \A i \in Jobs : active[i] # None => active[i].escrow \in EscrowIds
BY DEF Inv, TypeOK, ActiveJobs

\* Funds that a failed save leaves behind are an escrow without a job.
LEMMA UnsavedInv ==
    ASSUME Inv, NEW j \in Jobs, NEW b \in Bids, NEW e \in EscrowIds, AcceptBidUnsaved(j, b, e)
    PROVE  Inv'
<1> USE DEF Inv, AcceptBidUnsaved, LockFunds, Fresh, manager
<1> DEFINE p == b.bidder
<1>1. p \in Providers /\ Price[p] \in Nat
  BY BidTypes
<1>2. escrows' = [escrows EXCEPT ![e] = [status |-> "Active", amount |-> Price[p],
                                         job |-> j, recipient |-> p]]
  OBVIOUS
<1>3. \A f \in EscrowIds : escrows'[f] = IF f = e THEN [status |-> "Active", amount |-> Price[p],
                                                        job |-> j, recipient |-> p]
                                         ELSE escrows[f]
  BY DEF TypeOK
<1>4. TypeOK'
  <2>1. available' \in Nat
    BY <1>1 DEF TypeOK, Affordable
  <2>2. escrows' \in [EscrowIds -> [status : {"Absent", "Active", "Released", "Expired"},
                                    amount : Nat, job : Jobs \cup {None},
                                    recipient : Providers \cup {None}]]
    BY <1>1 DEF TypeOK
  <2>3. exec' \in [ExecJobs -> ExecStates]
    BY DEF TypeOK, ExecStates
  <2> QED
    BY <2>1, <2>2, <2>3 DEF TypeOK
<1>5. Placed' /\ Settling'
  BY <1>3 DEF TypeOK, Placed, Past, Settling, Free
<1>6. Funded'
  <2>1. EscrowHasJob' /\ PaidOnce'
    BY <1>3 DEF Funded, EscrowHasJob, PaidOnce
  <2>2. \A i \in Jobs : active[i] # None => active[i].escrow \in EscrowIds \ {e}
    <3>1. \A i \in Jobs : active[i] # None => active[i].escrow \in EscrowIds
      BY EscrowOfJob
    <3>2. \A i \in Jobs : active[i] # None => escrows[active[i].escrow].status # "Absent"
      BY DEF Funded
    <3>3. escrows[e].status = "Absent"
      OBVIOUS
    <3> QED
      BY <3>1, <3>2, <3>3
  <2>3. j \in created
    BY DEF Placed
  <2> QED
    BY <1>3, <2>1, <2>2, <2>3 DEF Funded, Past
<1>7. Heard'
  BY <1>3 DEF Heard, WonBy, Past, Executed, WorkPaid
<1> QED
  BY <1>4, <1>5, <1>6, <1>7

\* What a step that changes nothing but exec, chosen and missed leaves true.
LEMMA ExecInv ==
    ASSUME Inv, exec' \in [ExecJobs -> ExecStates], missed' \subseteq ExecJobs,
           chosen' \in [ExecJobs -> Bids \cup {None}],
           UNCHANGED <<manager, pending, net, wallet>>,
           UNCHANGED <<created, executed, arrived, orphaned, failures, crashes>>
    PROVE  Inv'
<1> USE DEF Inv, manager, wallet
<1>1. TypeOK'
  BY DEF TypeOK
<1>2. Placed' /\ Settling' /\ Funded' /\ Heard'
  BY DEF Placed, Past, Settling, Funded, EscrowHasJob, PaidOnce, Heard, WonBy, Executed, WorkPaid
<1> QED
  BY <1>1, <1>2

\* A peer executes a job that it was told it won.
LEMMA ExecuteInv ==
    ASSUME Inv, NEW m \in net, NEW p \in Providers, NEW ok \in BOOLEAN,
           HandleBidAccepted(p, m, ok)
    PROVE  Inv'
<1> USE DEF Inv, HandleBidAccepted, executor, manager, wallet
<1>1. m.job \in Jobs
  BY MessageTypes DEF TypeOK
<1>2. TypeOK'
  <2>1. net' \subseteq Messages
    <3>1. [type |-> "result", job |-> m.job, provider |-> p, ok |-> ok] \in Messages
      BY <1>1, MessagesMade
    <3> QED
      BY <3>1 DEF TypeOK
  <2>2. executed' \subseteq [job : Jobs, provider : Providers, ok : BOOLEAN]
    BY <1>1 DEF TypeOK
  <2>3. pending' \in [Providers -> SUBSET Jobs]
    BY DEF TypeOK
  <2> QED
    BY <2>1, <2>2, <2>3 DEF TypeOK
<1>3. Placed' /\ Settling' /\ Funded'
  BY DEF Placed, Past, Settling, Funded, EscrowHasJob, PaidOnce
<1>4. Heard'
  <2>1. \A i, q : Executed(i, q) => Executed(i, q)'
    BY DEF Executed
  <2>2. \A i, q : WonBy(i, q) => WonBy(i, q)'
    BY DEF WonBy, Past
  <2>3. WonBy(m.job, p)
    BY DEF Heard
  <2>4. \A n \in net' : \/ n \in net
                        \/ /\ n.type = "result" /\ n.job = m.job /\ n.provider = p
                           /\ Executed(m.job, p)'
    <3>1. CASE m.job \in pending[p]
      <4>1. [job |-> m.job, provider |-> p, ok |-> ok] \in executed'
        BY <3>1
      <4>2. Executed(m.job, p)'
        BY <4>1 DEF Executed
      <4> QED
        BY <3>1, <4>2
    <3>2. CASE m.job \notin pending[p]
      BY <3>2
    <3> QED
      BY <3>1, <3>2
  <2>5. WorkPaid'
    BY DEF Heard, WorkPaid
  <2> QED
    BY <2>1, <2>2, <2>3, <2>4, <2>5 DEF Heard
<1> QED
  BY <1>2, <1>3, <1>4

\* A result is noted with the job that is still active, whose winner sent it.
LEMMA ResultInv ==
    ASSUME Inv, NEW m \in net, HandleResult(m)
    PROVE  Inv'
<1> USE DEF Inv, HandleResult, executor, wallet
<1>1. m.job \in Jobs
  BY MessageTypes DEF TypeOK
<1>2. CASE active[m.job] = None
  <2>1. TypeOK'
    BY <1>2 DEF TypeOK
  <2>2. Placed' /\ Settling' /\ Funded' /\ Heard'
    BY <1>2 DEF Placed, Past, Settling, Funded, EscrowHasJob, PaidOnce, Heard, WonBy,
                Executed, WorkPaid
  <2> QED
    BY <2>1, <2>2
<1>3. CASE active[m.job] # None
  <2>1. active[m.job] \in ActiveJobs
    BY <1>1, <1>3 DEF TypeOK
  <2>2. /\ active' = [active EXCEPT ![m.job] = [@ EXCEPT !.result = TRUE]]
        /\ lock' = [step |-> "submitted", job |-> m.job]
    BY <1>3
  <2>3. /\ active'[m.job] \in ActiveJobs /\ active'[m.job].result
        /\ active'[m.job].winner = active[m.job].winner
        /\ active'[m.job].escrow = active[m.job].escrow
        /\ \A i \in Jobs \ {m.job} : active'[i] = active[i]
    BY <1>1, <2>1, <2>2 DEF TypeOK, ActiveJobs
  <2>4. active'[m.job] # None
    BY <2>3
  <2>5. TypeOK'
    <3>1. active' \in [Jobs -> ActiveJobs \cup {None}]
      BY <2>2, <2>3 DEF TypeOK
    <3>2. arrived' \subseteq ExecJobs
      BY <1>3 DEF TypeOK
    <3> QED
      BY <1>1, <2>2, <3>1, <3>2 DEF TypeOK
  <2>6. Placed' /\ Settling'
    BY <1>1, <1>3, <2>2, <2>3, <2>4 DEF TypeOK, Placed, Past, Settling
  <2>7. Funded'
    <3>1. EscrowHasJob' /\ PaidOnce'
      BY <1>1, <1>3, <2>3, <2>4 DEF Funded, EscrowHasJob, PaidOnce, TypeOK
    <3>2. \A i \in Jobs : active'[i] # None =>
            active[i] # None /\ active'[i].escrow = active[i].escrow
              /\ active'[i].winner = active[i].winner
      BY <1>3, <2>3
    <3>3. \A i : i \in Jobs /\ active[i] = None => active'[i] = None
      BY <1>3, <2>3
    <3> QED
      <4>1. \A i \in Jobs : active'[i] # None =>
              LET e == active'[i].escrow
              IN  /\ escrows'[e].job = i /\ escrows'[e].recipient = active'[i].winner
                  /\ escrows'[e].status \in {"Active", "Expired"}
        BY <3>2 DEF Funded
      <4>2. \A e \in EscrowIds : escrows[e].status # "Absent" => escrows[e].job \in Jobs
        BY DEF Funded, TypeOK
      <4>3. \A e \in EscrowIds :
              /\ escrows'[e].status # "Absent" => escrows'[e].job \in created'
              /\ escrows'[e].status = "Released" =>
                   Past(escrows[e].job)' /\ active'[escrows'[e].job] = None
        BY <3>3, <4>2 DEF Funded, Past
      <4> QED
        BY <3>1, <4>1, <4>3 DEF Funded
  <2>8. Heard'
    <3>1. \A i \in Jobs : \A q : WonBy(i, q) => WonBy(i, q)'
      BY <1>3, <2>3 DEF WonBy, Past
    <3>2. \A n \in net : n.job \in Jobs
      BY MessageTypes DEF TypeOK
    <3>3. Executed(m.job, active[m.job].winner)
      BY <1>3 DEF Heard, WonBy
    <3>4. \A i, q : Executed(i, q) => Executed(i, q)'
      BY DEF Executed
    <3>5. WorkPaid'
      BY DEF Heard, WorkPaid
    <3>6. \A i \in Jobs : active'[i] # None /\ active'[i].result => Executed(i, active[i].winner)'
      BY <2>3, <3>3, <3>4 DEF Heard
    <3> QED
      BY <3>1, <3>2, <3>4, <3>5, <3>6 DEF Heard
  <2> QED
    BY <2>5, <2>6, <2>7, <2>8
<1> QED
  BY <1>2, <1>3

\* Settling releases the escrow of the job, which no other escrow paid before.
LEMMA ReleaseInv ==
    ASSUME Inv, SettleRelease
    PROVE  Inv'
<1> USE DEF Inv, SettleRelease
<1> DEFINE j == lock.job
           e == active[j].escrow
<1>1. j \in Jobs /\ active[j] # None /\ active[j] \in ActiveJobs /\ e \in EscrowIds
  BY DEF Settling, TypeOK, ActiveJobs
<1>2. escrows[e].job = j /\ escrows[e].recipient = active[j].winner
  BY <1>1 DEF Funded
<1>3. \A i \in Jobs : active'[i] = IF i = j THEN None ELSE active[i]
  BY <1>1 DEF TypeOK
<1>4. exec' \in [ExecJobs -> ExecStates]
  BY DEF TypeOK, ExecSettled, ExecStates
<1>5. Past(j) /\ \A i \in 1 .. Len(completed) : completed[i] # j
  BY <1>1 DEF Placed
<1>6. CASE /\ escrows[e].status = "Active"
           /\ escrows' = [escrows EXCEPT ![e] = [@ EXCEPT !.status = "Released"]]
           /\ lock' \in {Free, [step |-> "released", job |-> j]}
           /\ failures' \in Nat
  <2>1. \A f \in EscrowIds :
          /\ escrows'[f].job = escrows[f].job /\ escrows'[f].recipient = escrows[f].recipient
          /\ escrows'[f].status = IF f = e THEN "Released" ELSE escrows[f].status
    BY <1>1, <1>6 DEF TypeOK
  <2>2. TypeOK'
    <3>1. escrows' \in [EscrowIds -> [status : {"Absent", "Active", "Released", "Expired"},
                                      amount : Nat, job : Jobs \cup {None},
                                      recipient : Providers \cup {None}]]
      <4>1. escrows[e] \in [status : {"Absent", "Active", "Released", "Expired"}, amount : Nat,
                            job : Jobs \cup {None}, recipient : Providers \cup {None}]
        BY <1>1 DEF TypeOK
      <4>2. [escrows[e] EXCEPT !.status = "Released"]
              \in [status : {"Absent", "Active", "Released", "Expired"}, amount : Nat,
                   job : Jobs \cup {None}, recipient : Providers \cup {None}]
        BY <4>1
      <4> QED
        BY <1>6, <4>2 DEF TypeOK
    <3>2. lock' \in [step : {"free", "submitted", "released"}, job : Jobs \cup {None}]
      BY <1>1, <1>6 DEF Free
    <3> QED
      BY <1>4, <1>6, <3>1, <3>2 DEF TypeOK
  <2>3. Placed'
    BY <1>1, <1>3, <1>5 DEF TypeOK, Placed, Past
  <2>4. Settling'
    <3>1. CASE lock' = Free
      BY <3>1 DEF Free, Settling
    <3>2. CASE lock' = [step |-> "released", job |-> j]
      <4>1. escrows'[e].job = j /\ escrows'[e].status = "Released"
        BY <1>1, <1>2, <2>1
      <4> QED
        BY <1>1, <1>3, <1>5, <3>2, <4>1 DEF Settling, Past
    <3> QED
      BY <1>6, <3>1, <3>2
  <2>5. EscrowHasJob'
    BY <1>1, <1>2, <1>3, <2>1 DEF Funded, EscrowHasJob, TypeOK
  <2>6. PaidOnce'
    BY <1>1, <1>2, <2>1 DEF Funded, PaidOnce
  <2>7. \A i \in Jobs \ {j} : active[i] # None => active[i].escrow \in EscrowIds \ {e}
    BY <1>1, <1>2 DEF Funded, TypeOK, ActiveJobs
  <2>8. Funded'
    <3>1. \A i \in Jobs : active'[i] # None =>
            LET f == active'[i].escrow
            IN  /\ escrows'[f].job = i /\ escrows'[f].recipient = active'[i].winner
                /\ escrows'[f].status \in {"Active", "Expired"}
      BY <1>3, <2>1, <2>7 DEF Funded
    <3>2. \A f \in EscrowIds :
            /\ escrows'[f].status # "Absent" => escrows'[f].job \in created
            /\ escrows'[f].status = "Released" =>
                 /\ escrows'[f].job \in created /\ escrows'[f].job \notin requests
                 /\ active'[escrows'[f].job] = None
      <4> SUFFICES ASSUME NEW f \in EscrowIds
                   PROVE  /\ escrows'[f].status # "Absent" => escrows'[f].job \in created
                          /\ escrows'[f].status = "Released" =>
                               /\ escrows'[f].job \in created /\ escrows'[f].job \notin requests
                               /\ active'[escrows'[f].job] = None
        OBVIOUS
      <4>1. CASE f = e
        BY <1>1, <1>2, <1>3, <1>5, <2>1, <4>1 DEF Past
      <4>2. CASE f # e
        BY <1>3, <2>1, <4>2 DEF Funded, Past, TypeOK
      <4> QED
        BY <4>1, <4>2
    <3> QED
      BY <2>5, <2>6, <3>1, <3>2 DEF Funded, Past
  <2>9. Heard'
    <3>1. \A i \in Jobs : \A q : WonBy(i, q) => WonBy(i, q)'
      BY <1>3 DEF WonBy, Past
    <3>2. \A n \in net : n.job \in Jobs
      BY MessageTypes DEF TypeOK
    <3>3. \A i, q : Executed(i, q) => Executed(i, q)'
      BY DEF Executed
    <3>4. Executed(j, active[j].winner)
      BY <1>1 DEF Settling, Heard
    <3>5. WorkPaid'
      BY <1>1, <1>2, <2>1, <3>4 DEF Heard, WorkPaid, Executed
    <3>6. \A i \in Jobs : active'[i] # None /\ active'[i].result => Executed(i, active[i].winner)'
      BY <1>3, <3>3 DEF Heard
    <3> QED
      BY <1>3, <3>1, <3>2, <3>3, <3>5, <3>6 DEF Heard
  <2> QED
    BY <2>2, <2>3, <2>4, <2>8, <2>9
<1>7. CASE /\ escrows[e].status # "Active" /\ UNCHANGED escrows
           /\ lock' = Free /\ UNCHANGED failures
  <2>1. TypeOK'
    BY <1>4, <1>7 DEF TypeOK, Free
  <2>2. Placed' /\ Settling'
    BY <1>1, <1>3, <1>5, <1>7 DEF TypeOK, Placed, Past, Settling, Free
  <2>3. Funded'
    <3>1. EscrowHasJob' /\ PaidOnce'
      BY <1>1, <1>2, <1>3, <1>7 DEF Funded, EscrowHasJob, PaidOnce, TypeOK
    <3> QED
      BY <1>3, <1>7, <3>1 DEF Funded, Past, TypeOK
  <2>4. Heard'
    <3>1. \A i \in Jobs : \A q : WonBy(i, q) => WonBy(i, q)'
      BY <1>3 DEF WonBy, Past
    <3>2. \A n \in net : n.job \in Jobs
      BY MessageTypes DEF TypeOK
    <3>3. \A i, q : Executed(i, q) => Executed(i, q)'
      BY DEF Executed
    <3> QED
      BY <1>3, <1>7, <3>1, <3>2, <3>3 DEF Heard, WorkPaid
  <2> QED
    BY <2>1, <2>2, <2>3, <2>4
<1>8. failures + 1 \in Nat
  BY DEF TypeOK
<1>9. \/ /\ escrows[e].status = "Active"
         /\ escrows' = [escrows EXCEPT ![e] = [@ EXCEPT !.status = "Released"]]
         /\ lock' \in {Free, [step |-> "released", job |-> j]}
         /\ failures' \in Nat
      \/ /\ escrows[e].status # "Active" /\ UNCHANGED escrows
         /\ lock' = Free /\ UNCHANGED failures
  BY <1>8 DEF TypeOK
<1> QED
  BY <1>6, <1>7, <1>9

\* A settled job joins the list of completed jobs, which it was not in.
LEMMA CreditInv ==
    ASSUME Inv, SettleCredit
    PROVE  Inv'
<1> USE DEF Inv, SettleCredit, history
<1> DEFINE j == lock.job
           longer == Append(completed, j)
<1>1. /\ j \in Jobs /\ Past(j) /\ active[j] = None
      /\ \A i \in 1 .. Len(completed) : completed[i] # j
      /\ \E e \in EscrowIds : escrows[e].job = j /\ escrows[e].status = "Released"
  BY DEF Settling
<1>2. PaidFor(j) \in EscrowIds
  BY <1>1 DEF PaidFor
<1>3. /\ longer \in Seq(Jobs) /\ Len(longer) = Len(completed) + 1
      /\ \A i \in 1 .. Len(completed) : longer[i] = completed[i]
      /\ longer[Len(completed) + 1] = j
  BY <1>1, AppendProperties DEF TypeOK
<1>4. Len(completed) \in Nat
  BY DEF TypeOK
<1>5. \A i, k \in 1 .. Len(longer) :
        /\ Past(longer[i]) /\ active[longer[i]] = None
        /\ longer[i] = longer[k] => i = k
  <2> SUFFICES ASSUME NEW i \in 1 .. Len(longer), NEW k \in 1 .. Len(longer)
               PROVE  /\ Past(longer[i]) /\ active[longer[i]] = None
                      /\ longer[i] = longer[k] => i = k
    OBVIOUS
  <2> HIDE DEF longer
  <2>1. \A l \in 1 .. Len(longer) : l \in 1 .. Len(completed) \/ l = Len(completed) + 1
    BY <1>3, <1>4
  <2>2. Past(longer[i]) /\ active[longer[i]] = None
    BY <1>1, <1>3, <2>1 DEF Placed
  <2>3. longer[i] = longer[k] => i = k
    BY <1>1, <1>3, <2>1 DEF Placed
  <2> QED
    BY <2>2, <2>3
<1> HIDE DEF longer
<1>6. completed' = LastOf(longer, MaxCompleted)
  BY DEF longer
<1>7. completed' \in Seq(Jobs) /\ Len(completed') <= MaxCompleted
  BY <1>3, <1>6, LastOfProperties
<1>8. PICK d \in Nat : /\ Len(completed') + d = Len(longer)
                       /\ \A i \in 1 .. Len(completed') : completed'[i] = longer[i + d]
  <2>1. \E d \in Nat :
          /\ Len(LastOf(longer, MaxCompleted)) + d = Len(longer)
          /\ \A i \in 1 .. Len(LastOf(longer, MaxCompleted)) :
               LastOf(longer, MaxCompleted)[i] = longer[i + d]
    BY <1>3, LastOfProperties
  <2> QED
    BY <1>6, <2>1, Zenon
<1>9. \A i \in 1 .. Len(completed') : i + d \in 1 .. Len(longer)
  BY <1>3, <1>4, <1>7, <1>8
<1>10. TypeOK'
  <2>1. available' \in Nat
    BY <1>2 DEF TypeOK
  <2>2. exec' \in [ExecJobs -> ExecStates]
    BY DEF TypeOK, ExecSettled, ExecStates
  <2>3. lock' \in [step : {"free", "submitted", "released"}, job : Jobs \cup {None}]
    BY DEF Free
  <2> QED
    BY <1>7, <2>1, <2>2, <2>3 DEF TypeOK
<1>11. Placed'
  <2>1. \A i, k \in 1 .. Len(completed') :
          /\ Past(completed[i])' /\ active[completed'[i]] = None
          /\ completed'[i] = completed'[k] => i = k
    BY <1>5, <1>8, <1>9 DEF Past
  <2> QED
    BY <2>1 DEF Placed, Past
<1>12. Settling' /\ Funded' /\ Heard'
  BY DEF Settling, Free, Past, Funded, EscrowHasJob, PaidOnce, Heard, WonBy, Executed, WorkPaid
<1> QED
  BY <1>10, <1>11, <1>12

LEMMA PollInv ==
    ASSUME Inv, NEW j \in ExecJobs, Poll(j)
    PROVE  Inv'
<1> USE DEF Inv, Poll, wallet
<1>1. CASE active[j] # None /\ active[j].result
  <2>1. TypeOK'
    <3>1. lock' \in [step : {"free", "submitted", "released"}, job : Jobs \cup {None}]
      BY <1>1
    <3>2. exec' \in [ExecJobs -> ExecStates]
      BY <1>1 DEF TypeOK, ExecStates
    <3>3. UNCHANGED missed
      BY <1>1
    <3> QED
      BY <3>1, <3>2, <3>3 DEF TypeOK
  <2>2. Placed' /\ Settling' /\ Funded' /\ Heard'
    BY <1>1 DEF Placed, Past, Settling, Funded, EscrowHasJob, PaidOnce, Heard, WonBy,
                Executed, WorkPaid
  <2> QED
    BY <2>1, <2>2
<1>2. CASE ~ (active[j] # None /\ active[j].result)
  BY <1>2, ExecInv DEF TypeOK, manager
<1> QED
  BY <1>1, <1>2

LEMMA SweepInv ==
    ASSUME Inv, NEW e \in EscrowIds, SweepExpired(e)
    PROVE  Inv'
<1> USE DEF Inv, SweepExpired, executor, manager, history
<1>1. \A f \in EscrowIds :
        /\ escrows'[f].job = escrows[f].job /\ escrows'[f].recipient = escrows[f].recipient
        /\ escrows'[f].status = IF f = e THEN "Expired" ELSE escrows[f].status
  BY DEF TypeOK
<1>2. TypeOK'
  <2>1. escrows[e] \in [status : {"Absent", "Active", "Released", "Expired"}, amount : Nat,
                        job : Jobs \cup {None}, recipient : Providers \cup {None}]
    BY DEF TypeOK
  <2>2. [escrows[e] EXCEPT !.status = "Expired"]
          \in [status : {"Absent", "Active", "Released", "Expired"}, amount : Nat,
               job : Jobs \cup {None}, recipient : Providers \cup {None}]
    BY <2>1
  <2>3. available' \in Nat
    BY <2>1 DEF TypeOK
  <2> QED
    BY <2>2, <2>3 DEF TypeOK
<1>3. Placed' /\ Settling'
  BY <1>1 DEF Placed, Past, Settling
<1>4. Funded'
  <2>1. EscrowHasJob' /\ PaidOnce'
    BY <1>1 DEF Funded, EscrowHasJob, PaidOnce
  <2>2. \A j \in Jobs : active[j] # None => active[j].escrow \in EscrowIds
    BY DEF TypeOK, ActiveJobs
  <2> QED
    BY <1>1, <2>1, <2>2 DEF Funded, Past
<1>5. Heard'
  BY <1>1 DEF Heard, WonBy, Past, Executed, WorkPaid
<1> QED
  BY <1>2, <1>3, <1>4, <1>5

\* A crash forgets the jobs and leaves their escrows to the sweep.
LEMMA CrashInv == Inv /\ Crash => Inv'
<1> SUFFICES ASSUME Inv, Crash PROVE Inv'
  OBVIOUS
<1> USE DEF Inv, Crash, wallet
<1>1. TypeOK'
  BY DEF TypeOK, Free, ExecStates
<1>2. Placed' /\ Settling'
  BY DEF Placed, Past, Settling, Free
<1>3. Funded'
  <2>1. \A e \in EscrowIds : escrows[e].status # "Absent" => escrows[e].job \in Jobs
    BY DEF Funded, TypeOK
  <2> QED
    BY <2>1 DEF Funded, Past, EscrowHasJob, PaidOnce
<1>4. Heard'
  <2>1. \A n \in net : n.job \in Jobs
    BY MessageTypes DEF TypeOK
  <2>2. \A i \in Jobs : \A q : WonBy(i, q) => WonBy(i, q)'
    BY DEF WonBy, Past
  <2> QED
    BY <2>1, <2>2 DEF Heard, Executed, WorkPaid
<1> QED
  BY <1>1, <1>2, <1>3, <1>4

LEMMA StepInv == Inv /\ [Next]_vars => Inv'
<1> SUFFICES ASSUME Inv, [Next]_vars PROVE Inv'
  OBVIOUS
<1>1. ASSUME NEW j \in Jobs, SubmitJob(j) \/ BroadcastRequest(j) PROVE Inv'
  <2>1. exec' \in [ExecJobs -> ExecStates]
    <3>1. \/ UNCHANGED exec \/ exec' = [exec EXCEPT ![j] = "collecting"]
          \/ exec' = [exec EXCEPT ![j] = "declined"]
      BY <1>1 DEF SubmitJob, BroadcastRequest, executor
    <3> QED
      BY <3>1 DEF Inv, TypeOK, ExecStates
  <2>2. {"channel"} \in SUBSET Copies /\ Copies \in SUBSET Copies
    BY DEF Copies
  <2> QED
    BY <1>1, <2>1, <2>2, CreateInv DEF SubmitJob, BroadcastRequest, executor
<1>2. ASSUME NEW m \in net, NEW p \in Providers, HandleRequest(p, m) PROVE Inv'
  BY <1>2, RequestInv
<1>3. ASSUME NEW m \in net, NEW p \in Providers, NEW ok \in BOOLEAN,
             HandleBidAccepted(p, m, ok)
      PROVE  Inv'
  BY <1>3, ExecuteInv
<1>4. ASSUME NEW m \in net, ReceiveBid(m) \/ HandleResult(m) PROVE Inv'
  BY <1>4, BidInv, ResultInv
<1>5. ASSUME NEW j \in Jobs, NEW b \in Bids, NEW e \in EscrowIds,
             AutoAcceptBid(j, b, e) \/ ExecuteWithBid(j, b, e)
      PROVE  Inv'
  <2>1. exec' \in [ExecJobs -> ExecStates]
    <3>1. \/ UNCHANGED exec \/ exec' = [exec EXCEPT ![j] = "waiting"]
          \/ exec' = [exec EXCEPT ![j] = "error"]
      BY <1>5 DEF AutoAcceptBid, ExecuteWithBid, executor
    <3> QED
      BY <3>1 DEF Inv, TypeOK, ExecStates
  <2>2. {"channel"} \in SUBSET Copies /\ Copies \in SUBSET Copies
    BY DEF Copies
  <2> QED
    BY <1>5, <2>1, <2>2, AcceptInv DEF AutoAcceptBid, ExecuteWithBid, executor
<1>6. ASSUME NEW j \in Jobs, NEW b \in Bids, NEW e \in EscrowIds, AcceptBidUnsaved(j, b, e)
      PROVE  Inv'
  BY <1>6, UnsavedInv
<1>7. ASSUME NEW j \in ExecJobs, CollectBids(j) \/ BidRefused(j) \/ ResultTimeout(j)
      PROVE  Inv'
  <2>1. exec' \in [ExecJobs -> ExecStates] /\ missed' \subseteq ExecJobs
    <3>1. \E s \in ExecStates : exec' = [exec EXCEPT ![j] = s]
      BY <1>7 DEF CollectBids, BidRefused, ResultTimeout, ExecStates
    <3> QED
      BY <1>7, <3>1 DEF CollectBids, BidRefused, ResultTimeout, Inv, TypeOK, history
  <2>2. chosen' \in [ExecJobs -> Bids \cup {None}]
    <3>1. bids[j] \subseteq Bids
      BY DEF Inv, TypeOK
    <3>2. UNCHANGED chosen \/ \E b \in Bids : chosen' = [chosen EXCEPT ![j] = b]
      BY <1>7, <3>1 DEF CollectBids, BidRefused, ResultTimeout
    <3> QED
      BY <3>2 DEF Inv, TypeOK
  <2> QED
    BY <1>7, <2>1, <2>2, ExecInv DEF CollectBids, BidRefused, ResultTimeout, history
<1>8. ASSUME NEW j \in ExecJobs, Poll(j) PROVE Inv'
  BY <1>8, PollInv
<1>9. CASE SettleRelease \/ SettleCredit
  BY <1>9, ReleaseInv, CreditInv
<1>10. ASSUME NEW e \in EscrowIds, SweepExpired(e) PROVE Inv'
  BY <1>10, SweepInv
<1>11. CASE Crash
  BY <1>11, CrashInv
<1>12. CASE UNCHANGED vars
  BY <1>12, ExecInv DEF vars, manager, executor, wallet, history, Inv, TypeOK
<1> QED
  BY <1>1, <1>2, <1>3, <1>4, <1>5, <1>6, <1>7, <1>8, <1>9, <1>10, <1>11, <1>12 DEF Next

LEMMA Invariance == Spec => []Inv
BY InitInv, StepInv, PTL DEF Spec

-------------------------------------------------------------------------------
(* What is committed before a bid is accepted                              *)

Early == {"idle", "collecting", "accepting", "declined"}

IdleFirst == \A j \in ExecJobs : j \notin created => exec[j] = "idle"

\* Only the request of a job sets out its execute.
LEMMA IdleKept ==
    ASSUME Inv, IdleFirst, [Next]_vars
    PROVE  IdleFirst'
<1> SUFFICES ASSUME NEW j \in ExecJobs, j \notin created' PROVE exec'[j] = "idle"
  BY DEF IdleFirst
<1>1. created \subseteq created' /\ exec \in [ExecJobs -> ExecStates]
  <2>1. ASSUME NEW i \in Jobs, SubmitJob(i) \/ BroadcastRequest(i) PROVE created \subseteq created'
    BY <2>1 DEF SubmitJob, BroadcastRequest, CreateRequest
  <2>2. ASSUME NEW m \in net,
               \/ ReceiveBid(m) \/ HandleResult(m)
               \/ \E p \in Providers :
                    HandleRequest(p, m) \/ \E ok \in BOOLEAN : HandleBidAccepted(p, m, ok)
        PROVE  UNCHANGED created
    BY <2>2 DEF HandleRequest, HandleBidAccepted, ReceiveBid, HandleResult, history
  <2>3. ASSUME NEW i \in Jobs, NEW b \in Bids, NEW e \in EscrowIds,
               AutoAcceptBid(i, b, e) \/ ExecuteWithBid(i, b, e) \/ AcceptBidUnsaved(i, b, e)
        PROVE  UNCHANGED created
    BY <2>3 DEF AutoAcceptBid, ExecuteWithBid, AcceptBid, AcceptBidUnsaved, history
  <2>4. ASSUME NEW i \in ExecJobs,
               CollectBids(i) \/ BidRefused(i) \/ Poll(i) \/ ResultTimeout(i)
        PROVE  UNCHANGED created
    BY <2>4 DEF CollectBids, BidRefused, Poll, ResultTimeout, history
  <2>5. SettleRelease => UNCHANGED created
    BY DEF SettleRelease
  <2>6. SettleCredit \/ Crash => UNCHANGED created
    BY DEF SettleCredit, Crash, history
  <2>7. (\E e \in EscrowIds : SweepExpired(e)) \/ UNCHANGED vars => UNCHANGED created
    BY DEF SweepExpired, history, vars
  <2>8. exec \in [ExecJobs -> ExecStates]
    BY DEF Inv, TypeOK
  <2> QED
    BY <2>1, <2>2, <2>3, <2>4, <2>5, <2>6, <2>7, <2>8 DEF Next
<1>2. exec[j] = "idle"
  BY <1>1 DEF IdleFirst
<1>3. ASSUME NEW i \in Jobs, SubmitJob(i) \/ BroadcastRequest(i) PROVE exec'[j] = "idle"
  BY <1>1, <1>2, <1>3 DEF SubmitJob, BroadcastRequest, CreateRequest, executor
<1>4. ASSUME NEW i \in Jobs, NEW b \in Bids, NEW e \in EscrowIds,
             AutoAcceptBid(i, b, e) \/ ExecuteWithBid(i, b, e) \/ AcceptBidUnsaved(i, b, e)
      PROVE  exec'[j] = "idle"
  BY <1>1, <1>2, <1>4 DEF AutoAcceptBid, ExecuteWithBid, AcceptBidUnsaved, executor
<1>5. ASSUME NEW i \in ExecJobs,
             CollectBids(i) \/ BidRefused(i) \/ Poll(i) \/ ResultTimeout(i)
      PROVE  exec'[j] = "idle"
  BY <1>1, <1>2, <1>5 DEF CollectBids, BidRefused, Poll, ResultTimeout
<1>6. CASE SettleRelease
  <2>1. UNCHANGED exec \/ ExecSettled(lock.job, "error")
    BY <1>6 DEF SettleRelease
  <2> QED
    BY <1>1, <1>2, <2>1 DEF ExecSettled
<1>7. CASE SettleCredit \/ Crash
  BY <1>1, <1>2, <1>7 DEF SettleCredit, ExecSettled, Crash
<1>8. ASSUME NEW m \in net,
             \/ ReceiveBid(m) \/ HandleResult(m)
             \/ \E p \in Providers :
                  HandleRequest(p, m) \/ \E ok \in BOOLEAN : HandleBidAccepted(p, m, ok)
      PROVE  exec'[j] = "idle"
  BY <1>2, <1>8 DEF HandleRequest, HandleBidAccepted, ReceiveBid, HandleResult, executor
<1>9. CASE (\E e \in EscrowIds : SweepExpired(e)) \/ UNCHANGED vars
  BY <1>2, <1>9 DEF SweepExpired, executor, vars
<1> QED
  BY <1>3, <1>4, <1>5, <1>6, <1>7, <1>8, <1>9 DEF Next

\* No execute goes back before the acceptance of its bid.
LEMMA NotEarlyAgain ==
    ASSUME Inv, IdleFirst, Next, NEW j \in ExecJobs, exec'[j] \in Early
    PROVE  exec[j] \in Early
<1> USE DEF Early
<1>0. exec \in [ExecJobs -> ExecStates]
  BY DEF Inv, TypeOK
<1>1. ASSUME NEW i \in Jobs, SubmitJob(i) \/ BroadcastRequest(i) PROVE exec[j] \in Early
  BY <1>0, <1>1 DEF SubmitJob, BroadcastRequest, CreateRequest, executor, IdleFirst
<1>2. ASSUME NEW i \in Jobs, NEW b \in Bids, NEW e \in EscrowIds,
             AutoAcceptBid(i, b, e) \/ ExecuteWithBid(i, b, e) \/ AcceptBidUnsaved(i, b, e)
      PROVE  exec[j] \in Early
  BY <1>0, <1>2 DEF AutoAcceptBid, ExecuteWithBid, AcceptBidUnsaved, executor
<1>3. ASSUME NEW i \in ExecJobs,
             CollectBids(i) \/ BidRefused(i) \/ Poll(i) \/ ResultTimeout(i)
      PROVE  exec[j] \in Early
  BY <1>0, <1>3 DEF CollectBids, BidRefused, Poll, ResultTimeout
<1>4. CASE SettleRelease
  <2>1. UNCHANGED exec \/ ExecSettled(lock.job, "error")
    BY <1>4 DEF SettleRelease
  <2> QED
    BY <1>0, <2>1 DEF ExecSettled
<1>5. CASE SettleCredit
  BY <1>0, <1>5 DEF SettleCredit, ExecSettled
<1>6. CASE Crash
  BY <1>0, <1>6 DEF Crash
<1>7. CASE UNCHANGED exec
  BY <1>7
<1>8. ASSUME NEW m \in net,
             \/ ReceiveBid(m) \/ HandleResult(m)
             \/ \E p \in Providers :
                  HandleRequest(p, m) \/ \E ok \in BOOLEAN : HandleBidAccepted(p, m, ok)
      PROVE  UNCHANGED exec
  BY <1>8 DEF HandleRequest, HandleBidAccepted, ReceiveBid, HandleResult, executor
<1>9. ASSUME NEW e \in EscrowIds, SweepExpired(e) PROVE UNCHANGED exec
  BY <1>9 DEF SweepExpired, executor
<1> QED
  BY <1>1, <1>2, <1>3, <1>4, <1>5, <1>6, <1>7, <1>8, <1>9 DEF Next

\* No step but the acceptance of its bid commits anything to a job.
Bare(j) == active[j] = None /\ \A e \in EscrowIds : escrows[e].job # j

LEMMA BareKept ==
    ASSUME Inv, Next, NEW j \in ExecJobs, Bare(j), exec'[j] \in Early
    PROVE  Bare(j)'
<1> USE DEF Bare, Early
<1>0. /\ j \in Jobs /\ exec \in [ExecJobs -> ExecStates]
      /\ active \in [Jobs -> ActiveJobs \cup {None}] /\ DOMAIN escrows = EscrowIds
  BY DEF Inv, TypeOK
<1>1. ASSUME NEW i \in Jobs, SubmitJob(i) \/ BroadcastRequest(i) PROVE Bare(j)'
  BY <1>1 DEF SubmitJob, BroadcastRequest, CreateRequest, wallet
<1>2. ASSUME NEW m \in net, NEW p \in Providers, HandleRequest(p, m) PROVE Bare(j)'
  BY <1>2 DEF HandleRequest, manager, wallet
<1>3. ASSUME NEW m \in net, NEW p \in Providers, NEW ok \in BOOLEAN,
             HandleBidAccepted(p, m, ok)
      PROVE  Bare(j)'
  BY <1>3 DEF HandleBidAccepted, manager, wallet
<1>4. ASSUME NEW m \in net, ReceiveBid(m) PROVE Bare(j)'
  BY <1>4 DEF ReceiveBid, wallet
<1>5. ASSUME NEW m \in net, HandleResult(m) PROVE Bare(j)'
  <2>1. CASE active[m.job] = None
    BY <1>5, <2>1 DEF HandleResult, wallet
  <2>2. CASE active[m.job] # None
    BY <1>0, <1>5, <2>2 DEF HandleResult, wallet
  <2> QED
    BY <2>1, <2>2
<1>6. ASSUME NEW i \in Jobs, NEW b \in Bids, NEW e \in EscrowIds,
             AutoAcceptBid(i, b, e) \/ ExecuteWithBid(i, b, e)
      PROVE  Bare(j)'
  <2>1. i # j
    BY <1>0, <1>6 DEF AutoAcceptBid, ExecuteWithBid, AcceptBid, ExecStates
  <2> QED
    BY <1>0, <1>6, <2>1 DEF AutoAcceptBid, ExecuteWithBid, AcceptBid, LockFunds
<1>7. ASSUME NEW i \in Jobs, NEW b \in Bids, NEW e \in EscrowIds, AcceptBidUnsaved(i, b, e)
      PROVE  Bare(j)'
  <2>1. i # j
    BY <1>0, <1>7 DEF AcceptBidUnsaved
  <2> QED
    BY <1>0, <1>7, <2>1 DEF AcceptBidUnsaved, LockFunds, manager
<1>8. ASSUME NEW i \in ExecJobs,
             CollectBids(i) \/ BidRefused(i) \/ Poll(i) \/ ResultTimeout(i)
      PROVE  Bare(j)'
  BY <1>8 DEF CollectBids, BidRefused, Poll, ResultTimeout, manager, wallet
<1>9. CASE SettleRelease
  <2>1. active'[j] = None
    BY <1>0, <1>9 DEF SettleRelease
  <2>2. ASSUME NEW e \in EscrowIds PROVE escrows'[e].job = escrows[e].job
    <3>1. UNCHANGED escrows
            \/ \E f \in EscrowIds :
                 escrows' = [escrows EXCEPT ![f] = [@ EXCEPT !.status = "Released"]]
      <4>1. lock.job \in Jobs /\ active[lock.job].escrow \in EscrowIds
        BY <1>9, EscrowOfJob DEF SettleRelease, Inv, Settling
      <4> QED
        BY <1>9, <4>1 DEF SettleRelease
    <3>2. ASSUME NEW f \in EscrowIds,
                 escrows' = [escrows EXCEPT ![f] = [@ EXCEPT !.status = "Released"]]
          PROVE  escrows'[e].job = escrows[e].job
      <4>1. escrows \in [EscrowIds -> [status : {"Absent", "Active", "Released", "Expired"},
                                       amount : Nat, job : Jobs \cup {None},
                                       recipient : Providers \cup {None}]]
        BY DEF Inv, TypeOK
      <4> QED
        BY <3>2, <4>1
    <3> QED
      BY <3>1, <3>2
  <2> QED
    BY <2>1, <2>2
<1>10. CASE SettleCredit
  BY <1>10 DEF SettleCredit
<1>11. ASSUME NEW e \in EscrowIds, SweepExpired(e) PROVE Bare(j)'
  BY <1>0, <1>11 DEF SweepExpired, manager
<1>12. CASE Crash
  BY <1>0, <1>12 DEF Crash, wallet
<1> QED
  BY <1>1, <1>2, <1>3, <1>4, <1>5, <1>6, <1>7, <1>8, <1>9, <1>10, <1>11, <1>12 DEF Next

-------------------------------------------------------------------------------
(* What is told of a job                                                   *)

LEMMA RowsAtMostOne ==
    ASSUME Inv, NEW j \in Jobs
    PROVE  Rows(j) <= 1
<1> DEFINE running == {i \in {j} : active[i] # None}
<1>1. /\ Cardinality({}) = 0 /\ \A x : Cardinality({x}) = 1
  BY FS_EmptySet, FS_Singleton
<1>2. Places(j) = {} \/ \E i \in Places(j) : Places(j) = {i}
  BY DEF Places, Inv, Placed
<1>3. {j} \cap requests = IF j \in requests THEN {j} ELSE {}
  OBVIOUS
<1>4. running = IF active[j] # None THEN {j} ELSE {}
  OBVIOUS
<1>5. /\ j \in requests => active[j] = None
      /\ Places(j) # {} => j \notin requests /\ active[j] = None
  BY DEF Places, Inv, Placed, Past
<1>6. /\ Cardinality(Places(j)) = IF Places(j) = {} THEN 0 ELSE 1
      /\ Cardinality({j} \cap requests) = IF j \in requests THEN 1 ELSE 0
      /\ Cardinality(running) = IF active[j] # None THEN 1 ELSE 0
  BY <1>1, <1>2, <1>3, <1>4
<1> HIDE DEF running
<1> QED
  BY <1>5, <1>6 DEF Rows, running

\* The job is under way: active, or settled and not yet completed.
UnderWay(j) == active[j] # None \/ lock = [step |-> "released", job |-> j]

ToldAsPlaced ==
    \A j \in Jobs :
      Told(j) = IF j \in requests THEN 1
                ELSE IF UnderWay(j) THEN 2
                ELSE IF Places(j) # {} THEN 3 ELSE 4

LEMMA ToldIs == Inv => ToldAsPlaced
<1> SUFFICES ASSUME Inv, NEW j \in Jobs
             PROVE  Told(j) = IF j \in requests THEN 1
                              ELSE IF UnderWay(j) THEN 2
                              ELSE IF Places(j) # {} THEN 3 ELSE 4
  BY DEF ToldAsPlaced
<1>1. j \in requests => ~ UnderWay(j)
  BY DEF Inv, Placed, Settling, Past, UnderWay
<1>2. Described(j) = IF j \in requests THEN 1
                     ELSE IF active[j] # None THEN 2
                     ELSE IF Places(j) # {} THEN 3 ELSE 4
  BY DEF Described
<1> QED
  BY <1>1, <1>2 DEF Told, UnderWay

\* What a step may do to the jobs that are requested and to those completed.
LEMMA ListsChange ==
    ASSUME Next
    PROVE  /\ requests' \cap created \subseteq requests
           /\ SettleCredit \/ Crash \/ UNCHANGED completed
<1>1. ASSUME NEW j \in Jobs, SubmitJob(j) \/ BroadcastRequest(j)
      PROVE  requests' \cap created \subseteq requests /\ UNCHANGED completed
  BY <1>1 DEF SubmitJob, BroadcastRequest, CreateRequest
<1>2. ASSUME NEW m \in net, NEW p \in Providers, NEW ok \in BOOLEAN,
             HandleRequest(p, m) \/ HandleBidAccepted(p, m, ok)
      PROVE  UNCHANGED <<requests, completed>>
  BY <1>2 DEF HandleRequest, HandleBidAccepted, manager
<1>3. ASSUME NEW m \in net, ReceiveBid(m) \/ HandleResult(m)
      PROVE  UNCHANGED <<requests, completed>>
  BY <1>3 DEF ReceiveBid, HandleResult
<1>4. ASSUME NEW j \in Jobs, NEW b \in Bids, NEW e \in EscrowIds,
             AutoAcceptBid(j, b, e) \/ ExecuteWithBid(j, b, e) \/ AcceptBidUnsaved(j, b, e)
      PROVE  requests' \subseteq requests /\ UNCHANGED completed
  BY <1>4 DEF AutoAcceptBid, ExecuteWithBid, AcceptBid, AcceptBidUnsaved, manager
<1>5. ASSUME NEW j \in ExecJobs,
             CollectBids(j) \/ BidRefused(j) \/ Poll(j) \/ ResultTimeout(j)
      PROVE  UNCHANGED <<requests, completed>>
  BY <1>5 DEF CollectBids, BidRefused, Poll, ResultTimeout, manager
<1>6. CASE SettleRelease
  BY <1>6 DEF SettleRelease
<1>7. CASE SettleCredit \/ Crash
  BY <1>7 DEF SettleCredit, Crash
<1>8. ASSUME NEW e \in EscrowIds, SweepExpired(e) PROVE UNCHANGED <<requests, completed>>
  BY <1>8 DEF SweepExpired, manager
<1> QED
  BY <1>1, <1>2, <1>3, <1>4, <1>5, <1>6, <1>7, <1>8 DEF Next

\* No step takes up a job that is not requested, ...
LEMMA NotTakenUpAgain ==
    ASSUME Inv, Next, NEW j \in created, j \notin requests, ~ UnderWay(j)
    PROVE  ~ UnderWay(j)'
<1> USE DEF Inv, UnderWay
<1>1. j \in Jobs /\ active[j] = None /\ lock # [step |-> "released", job |-> j]
  BY DEF TypeOK
<1>2. ASSUME NEW i \in Jobs, SubmitJob(i) \/ BroadcastRequest(i) PROVE ~ UnderWay(j)'
  BY <1>1, <1>2 DEF SubmitJob, BroadcastRequest, CreateRequest
<1>3. ASSUME NEW m \in net, NEW p \in Providers, HandleRequest(p, m) PROVE ~ UnderWay(j)'
  BY <1>1, <1>3 DEF HandleRequest, manager
<1>4. ASSUME NEW m \in net, NEW p \in Providers, NEW ok \in BOOLEAN, HandleBidAccepted(p, m, ok)
      PROVE  ~ UnderWay(j)'
  BY <1>1, <1>4 DEF HandleBidAccepted, manager
<1>5. ASSUME NEW m \in net, ReceiveBid(m) PROVE ~ UnderWay(j)'
  BY <1>1, <1>5 DEF ReceiveBid
<1>6. ASSUME NEW m \in net, HandleResult(m) PROVE ~ UnderWay(j)'
  <2>1. m.job \in Jobs
    BY MessageTypes DEF TypeOK
  <2>2. CASE active[m.job] = None
    BY <1>1, <1>6, <2>2 DEF HandleResult
  <2>3. CASE active[m.job] # None
    BY <1>1, <1>6, <2>1, <2>3 DEF HandleResult, TypeOK
  <2> QED
    BY <2>2, <2>3
<1>7. ASSUME NEW i \in Jobs, NEW b \in Bids, NEW e \in EscrowIds,
             AutoAcceptBid(i, b, e) \/ ExecuteWithBid(i, b, e)
      PROVE  ~ UnderWay(j)'
  BY <1>1, <1>7 DEF AutoAcceptBid, ExecuteWithBid, AcceptBid, LockFunds, TypeOK
<1>8. ASSUME NEW i \in Jobs, NEW b \in Bids, NEW e \in EscrowIds, AcceptBidUnsaved(i, b, e)
      PROVE  ~ UnderWay(j)'
  BY <1>1, <1>8 DEF AcceptBidUnsaved, manager
<1>9. ASSUME NEW i \in ExecJobs,
             CollectBids(i) \/ BidRefused(i) \/ Poll(i) \/ ResultTimeout(i)
      PROVE  ~ UnderWay(j)'
  BY <1>1, <1>9 DEF CollectBids, BidRefused, Poll, ResultTimeout, manager
<1>10. CASE SettleRelease
  <2>1. lock.job \in Jobs /\ active[lock.job] # None
    BY <1>10 DEF SettleRelease, Settling
  <2>2. lock' = Free \/ lock' = [step |-> "released", job |-> lock.job]
    BY <1>10 DEF SettleRelease
  <2>3. active'[j] = None
    BY <1>1, <1>10, <2>1 DEF SettleRelease, TypeOK
  <2> QED
    BY <1>1, <2>1, <2>2, <2>3 DEF Free
<1>11. CASE SettleCredit
  BY <1>1, <1>11 DEF SettleCredit, Free
<1>12. ASSUME NEW e \in EscrowIds, SweepExpired(e) PROVE ~ UnderWay(j)'
  BY <1>1, <1>12 DEF SweepExpired, manager
<1>13. CASE Crash
  BY <1>1, <1>13 DEF Crash, Free
<1> QED
  BY <1>2, <1>3, <1>4, <1>5, <1>6, <1>7, <1>8, <1>9, <1>10, <1>11, <1>12, <1>13 DEF Next

\* ... or completes one that is not under way.
LEMMA NotCompletedAgain ==
    ASSUME Inv, Next, NEW j \in Jobs, ~ UnderWay(j), Places(j) = {}
    PROVE  Places(j)' = {}
<1> USE DEF Inv, Places
<1>1. CASE SettleCredit
  <2> DEFINE longer == Append(completed, lock.job)
  <2>1. lock.job \in Jobs /\ lock.job # j
    <3>1. lock \in [step : {"free", "submitted", "released"}, job : Jobs \cup {None}]
      BY DEF TypeOK
    <3>2. lock = [step |-> "released", job |-> lock.job] /\ lock.job \in Jobs
      BY <1>1, <3>1 DEF SettleCredit, Settling
    <3> QED
      BY <3>2 DEF UnderWay
  <2>2. /\ longer \in Seq(Jobs) /\ Len(longer) = Len(completed) + 1
        /\ \A i \in 1 .. Len(completed) : longer[i] = completed[i]
        /\ longer[Len(completed) + 1] = lock.job
    BY <2>1, AppendProperties DEF TypeOK
  <2>3. Len(completed) \in Nat
    BY DEF TypeOK
  <2> HIDE DEF longer
  <2>4. \A i \in 1 .. Len(longer) : longer[i] # j
    <3>1. \A i \in 1 .. Len(longer) : i \in 1 .. Len(completed) \/ i = Len(completed) + 1
      BY <2>2, <2>3
    <3> QED
      BY <2>1, <2>2, <3>1
  <2>5. completed' = LastOf(longer, MaxCompleted)
    BY <1>1 DEF SettleCredit, longer
  <2>6. PICK d \in Nat :
          /\ Len(LastOf(longer, MaxCompleted)) + d = Len(longer)
          /\ \A i \in 1 .. Len(LastOf(longer, MaxCompleted)) :
               LastOf(longer, MaxCompleted)[i] = longer[i + d]
    BY <2>2, LastOfProperties
  <2>7. Len(completed') \in Nat
    BY <2>2, <2>5, LastOfProperties
  <2>8. \A i \in 1 .. Len(completed') : completed'[i] = longer[i + d] /\ i + d \in 1 .. Len(longer)
    BY <2>2, <2>3, <2>5, <2>6, <2>7
  <2> QED
    BY <2>4, <2>8
<1>2. CASE Crash
  BY <1>2 DEF Crash
<1>3. CASE ~ SettleCredit /\ ~ Crash
  <2>1. UNCHANGED completed
    BY <1>3, ListsChange
  <2> QED
    BY <2>1
<1> QED
  BY <1>1, <1>2, <1>3

-------------------------------------------------------------------------------
(* The theorems                                                            *)

\* The types, and each job in one list and completed once at most, whatever comes
\* twice, late or after a timeout (JobManager, job/mod.rs).
THEOREM JobInOnePhase == Spec => []OnePhase
<1>1. Inv => OnePhase
  BY RowsAtMostOne DEF OnePhase, Inv
<1> QED
  BY <1>1, Invariance, PTL

\* An escrow that nothing but the sweep would settle exists only after a crash or a
\* failed save, and no job is paid twice (accept_bid, settle_job).
THEOREM EscrowsStayApart == Spec => []EscrowsApart
<1>1. Inv => EscrowsApart
  BY DEF EscrowsApart, Inv, Funded
<1> QED
  BY <1>1, Invariance, PTL

\* Whoever is paid for a job has executed it (handle_gossip_message).
THEOREM PaidForWork == Spec => []WorkPaid
<1>1. Inv => WorkPaid
  BY DEF Inv, Heard
<1> QED
  BY <1>1, Invariance, PTL

\* Nobody commits funds to the job of an execute that still collects bids or gave
\* up (RemoteExecutor::execute, auto_accept_bids).
THEOREM NothingCommittedEarly == Spec => []UncommittedUntilAccepted
<1>1. Init => IdleFirst /\ UncommittedUntilAccepted
  BY DEF Init, IdleFirst, UncommittedUntilAccepted
<1>2. Inv /\ IdleFirst /\ UncommittedUntilAccepted /\ [Next]_vars
        => IdleFirst' /\ UncommittedUntilAccepted'
  <2> SUFFICES ASSUME Inv, IdleFirst, UncommittedUntilAccepted, [Next]_vars
               PROVE  UncommittedUntilAccepted'
    BY IdleKept
  <2>1. CASE Next
    <3>1. ASSUME NEW j \in ExecJobs, exec'[j] \in Early PROVE Bare(j)'
      <4>1. exec[j] \in Early
        BY <2>1, <3>1, NotEarlyAgain
      <4>2. Bare(j)
        BY <4>1 DEF UncommittedUntilAccepted, Early, Bare
      <4> QED
        BY <2>1, <3>1, <4>2, BareKept
    <3> QED
      BY <3>1 DEF UncommittedUntilAccepted, Early, Bare
  <2>2. CASE UNCHANGED vars
    BY <2>2 DEF UncommittedUntilAccepted, vars, manager, executor, wallet
  <2> QED
    BY <2>1, <2>2
<1> QED
  BY <1>1, <1>2, Invariance, PTL DEF Spec

\* job_status never takes back what it said of a job (describe_job_for_tools).
THEOREM ToldNeverBack == Spec => ToldForward
<1>1. ASSUME Inv, ToldAsPlaced', Next, NEW j \in created PROVE Told(j) <= Told(j)'
  <2>1. j \in Jobs
    BY <1>1 DEF Inv, TypeOK
  <2>2. Told(j) = IF j \in requests THEN 1
                  ELSE IF UnderWay(j) THEN 2 ELSE IF Places(j) # {} THEN 3 ELSE 4
    BY <1>1, <2>1, ToldIs DEF ToldAsPlaced
  <2>3. Told(j)' = IF j \in requests' THEN 1
                   ELSE IF UnderWay(j)' THEN 2 ELSE IF Places(j)' # {} THEN 3 ELSE 4
    BY <1>1, <2>1 DEF ToldAsPlaced
  <2>4. j \notin requests => j \notin requests'
    BY <1>1, ListsChange
  <2>5. j \notin requests /\ ~ UnderWay(j) => ~ UnderWay(j)'
    BY <1>1, NotTakenUpAgain
  <2>6. ~ UnderWay(j) /\ Places(j) = {} => Places(j)' = {}
    BY <1>1, <2>1, NotCompletedAgain
  <2> QED
    BY <2>2, <2>3, <2>4, <2>5, <2>6
<1>2. Inv /\ ToldAsPlaced' /\ [Next]_vars => [\A j \in created : Told(j) <= Told(j)']_vars
  BY <1>1
<1> QED
  BY <1>2, Invariance, ToldIs, PTL DEF Spec, ToldForward

===============================================================================
