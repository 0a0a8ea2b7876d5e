------------------------------ MODULE JobMarket -------------------------------
(***************************************************************************)
(* The job marketplace: the JobManager of a requesting node                *)
(* (src/src/job/mod.rs), the RemoteExecutor and JobProvider                *)
(* (src/src/executor/remote.rs), the gossip handler of Runtime             *)
(* (src/src/runtime.rs) and the serve loop (src/src/cli/serve.rs).         *)
(*                                                                         *)
(* One node requests jobs; its peers bid for them and execute them.  The   *)
(* JobManager sits behind one outer lock, which every operation takes for  *)
(* writing.  Settling a job takes several steps under that lock, between   *)
(* which the wallet's sweep runs, timeouts fire and the node may crash.    *)
(* The wallet's own operations are atomic here: module Wallet is about     *)
(* their steps.  Gossip loses and reorders messages, and the node sends    *)
(* most of them twice.  Time is abstract: bids and escrows may expire, and *)
(* timeouts fire, at any moment.                                           *)
(***************************************************************************)
EXTENDS Naturals, Sequences, FiniteSets

CONSTANTS
    Jobs,           \* job ids, used once each
    ExecJobs,       \* those requested through RemoteExecutor; others: web UI
    Providers,      \* the peers that bid
    Price,          \* what each peer's PricingStrategy asks
    MaxBudget,      \* JobRequest.max_budget
    Available,      \* the requester's balance at the start
    Reserve,        \* WalletConfig.reserve_balance
    MaxCompleted,   \* how many completed jobs are kept
    None,           \* Option::None
    MaxEscrows,     \* bound: escrows ever created
    MaxFailures,    \* bound: save_state failures
    MaxCrashes      \* bound: crashes of the requester

EscrowIds == 1 .. MaxEscrows

ActiveJobs == [winner : Providers, escrow : EscrowIds, result : BOOLEAN]

ASSUME MarketAssumption ==
    /\ ExecJobs \subseteq Jobs /\ None \notin Jobs \cup ActiveJobs
    /\ Price \in [Providers -> Nat] /\ MaxBudget \in Nat
    /\ Available \in Nat /\ Reserve \in Nat
    /\ MaxCompleted \in Nat \ {0} /\ MaxEscrows \in Nat
    /\ MaxFailures \in Nat /\ MaxCrashes \in Nat

VARIABLES
    requests,       \* JobManager.requests, by their ids
    bids,           \* JobManager.bids
    active,         \* JobManager.active_jobs
    completed,      \* JobManager.completed_jobs
    lock,           \* what the holder of the JobManager's lock is settling
    exec,           \* where each RemoteExecutor::execute is
    chosen,         \* the bid it chose from those collected
    pending,        \* JobProvider.pending_requests of every peer
    net,            \* gossip messages not delivered yet
    available,      \* the wallet: balance outside escrows, and the escrows
    escrows,
    created,        \* history: jobs requested so far
    executed,       \* history: executions by providers
    arrived,        \* history: jobs whose result came while execute waited
    missed,         \* history: jobs of these that a later poll did not find
    orphaned,       \* history: escrows whose job a crash or failure dropped
    failures, crashes

manager == <<requests, bids, active, completed, lock>>
executor == <<exec, chosen>>
wallet == <<available, escrows>>
history == <<created, executed, arrived, missed, orphaned, failures, crashes>>
vars == <<manager, executor, pending, net, wallet, history>>

\* Every message the JobManager broadcasts through its channel is published by
\* its caller once more.
Copies == {"channel", "direct"}

Bids == [bidder : Providers, copy : Copies]

Messages ==
    [type : {"request"}, job : Jobs, to : Providers, copy : Copies]
      \cup [type : {"bid"}, job : Jobs, bid : Bids]
      \cup [type : {"accepted"}, job : Jobs, winner : Providers, copy : Copies]
      \cup [type : {"result"}, job : Jobs, provider : Providers, ok : BOOLEAN]

\* "declined" is an execute that ended before a bid was accepted.
ExecStates == {"idle", "collecting", "accepting", "declined",
               "waiting", "settling", "returned", "timeout", "error"}

TypeOK ==
    /\ requests \subseteq Jobs
    /\ bids \in [Jobs -> SUBSET Bids]
    /\ active \in [Jobs -> ActiveJobs \cup {None}]
    /\ completed \in Seq(Jobs) /\ Len(completed) <= MaxCompleted
    /\ lock \in [step : {"free", "submitted", "released"}, job : Jobs \cup {None}]
    /\ exec \in [ExecJobs -> ExecStates]
    /\ chosen \in [ExecJobs -> Bids \cup {None}]
    /\ pending \in [Providers -> SUBSET Jobs]
    /\ net \subseteq Messages
    /\ available \in Nat
    /\ escrows \in [EscrowIds -> [status : {"Absent", "Active", "Released", "Expired"},
                                  amount : Nat, job : Jobs \cup {None},
                                  recipient : Providers \cup {None}]]
    /\ created \subseteq Jobs
    /\ executed \subseteq [job : Jobs, provider : Providers, ok : BOOLEAN]
    /\ arrived \subseteq ExecJobs /\ missed \subseteq ExecJobs
    /\ orphaned \subseteq EscrowIds
    /\ failures \in Nat /\ crashes \in Nat

Free == [step |-> "free", job |-> None]

Init ==
    /\ requests = {}
    /\ bids = [j \in Jobs |-> {}]
    /\ active = [j \in Jobs |-> None]
    /\ completed = <<>>
    /\ lock = Free
    /\ exec = [j \in ExecJobs |-> "idle"] /\ chosen = [j \in ExecJobs |-> None]
    /\ pending = [p \in Providers |-> {}]
    /\ net = {}
    /\ available = Available
    /\ escrows = [e \in EscrowIds |-> [status |-> "Absent", amount |-> 0,
                                       job |-> None, recipient |-> None]]
    /\ created = {} /\ executed = {} /\ arrived = {} /\ missed = {} /\ orphaned = {}
    /\ failures = 0 /\ crashes = 0

-------------------------------------------------------------------------------
(* The requester asks for a job.                                           *)

RequestMessages(j, copies) ==
    [type : {"request"}, job : {j}, to : Providers, copy : copies]

\* JobManager::create_request, which stores the request and broadcasts it; the
\* caller publishes it again, unless the network refuses.
CreateRequest(j, copies) ==
    /\ lock = Free
    /\ j \notin created
    /\ created' = created \cup {j}
    /\ requests' = requests \cup {j}
    /\ bids' = [bids EXCEPT ![j] = {}]
    /\ net' = net \cup RequestMessages(j, copies)
    /\ UNCHANGED <<active, completed, lock, pending, wallet>>
    /\ UNCHANGED <<executed, arrived, missed, orphaned, failures, crashes>>

\* handle_job_submit goes on when publishing fails ...
SubmitJob(j) ==
    /\ j \notin ExecJobs
    /\ \E copies \in {{"channel"}, Copies} : CreateRequest(j, copies)
    /\ UNCHANGED executor

\* ... RemoteExecutor::broadcast_request returns the error.
BroadcastRequest(j) ==
    /\ j \in ExecJobs
    /\ UNCHANGED chosen
    /\ \/ /\ CreateRequest(j, Copies)
          /\ exec' = [exec EXCEPT ![j] = "collecting"]
       \/ /\ CreateRequest(j, {"channel"})
          /\ exec' = [exec EXCEPT ![j] = "declined"]

\* JobProvider::handle_request on peer p: a bid if the budget covers its price.
HandleRequest(p, m) ==
    /\ m.type = "request" /\ m.to = p
    /\ Price[p] <= MaxBudget
    /\ pending' = [pending EXCEPT ![p] = @ \cup {m.job}]
    /\ net' = (net \ {m}) \cup {[type |-> "bid", job |-> m.job,
                                 bid |-> [bidder |-> p, copy |-> m.copy]]}
    /\ UNCHANGED <<manager, executor, wallet, history>>

\* A bid for a job that is no longer requested is NotFound and dropped.
ReceiveBid(m) ==
    /\ lock = Free
    /\ m.type = "bid"
    /\ bids' = [bids EXCEPT ![m.job] = IF m.job \in requests THEN @ \cup {m.bid} ELSE @]
    /\ net' = net \ {m}
    /\ UNCHANGED <<requests, active, completed, lock, executor, pending, wallet, history>>

-------------------------------------------------------------------------------
(* The requester accepts a bid.                                            *)

\* Wallet::create_escrow keeps the reserve out of reach.
Affordable(a) == a + Reserve <= available

\* The id of a new escrow.
Fresh(e) ==
    /\ escrows[e].status = "Absent"
    /\ \A f \in EscrowIds : f < e => escrows[f].status # "Absent"

LockFunds(j, b, e) ==
    /\ lock = Free
    /\ j \in requests /\ b \in bids[j]
    /\ Affordable(Price[b.bidder]) /\ Fresh(e)
    /\ available' = available - Price[b.bidder]
    /\ escrows' = [escrows EXCEPT ![e] = [status |-> "Active", amount |-> Price[b.bidder],
                                          job |-> j, recipient |-> b.bidder]]

\* Mutant: the request is not removed.
AcceptBidAgain(j, b, e, copies) ==
    /\ LockFunds(j, b, e)
    /\ active' = [active EXCEPT ![j] = [winner |-> b.bidder, escrow |-> e, result |-> FALSE]]
    /\ net' = net \cup [type : {"accepted"}, job : {j}, winner : {b.bidder}, copy : copies]
    /\ UNCHANGED <<requests, bids, completed, lock, pending, history>>

\* JobManager::accept_bid: escrow, move from requests to active, broadcast.
AcceptBid(j, b, e, copies) ==
    /\ LockFunds(j, b, e)
    /\ requests' = requests \ {j}
    /\ bids' = [bids EXCEPT ![j] = {}]
    /\ active' = [active EXCEPT ![j] = [winner |-> b.bidder, escrow |-> e, result |-> FALSE]]
    /\ net' = net \cup [type : {"accepted"}, job : {j}, winner : {b.bidder}, copy : copies]
    /\ UNCHANGED <<completed, lock, pending, history>>

\* Mutant: auto_accept_bids takes up every request, not those of the web UI only.
AutoAcceptEvery(j, b, e) ==
    /\ \E copies \in {{"channel"}, Copies} : AcceptBid(j, b, e, copies)
    /\ UNCHANGED executor

\* auto_accept_bids of the serve loop, for the jobs of the web UI: those of
\* RemoteExecutor name no requester.
AutoAcceptBid(j, b, e) ==
    /\ j \notin ExecJobs
    /\ \E copies \in {{"channel"}, Copies} : AcceptBid(j, b, e, copies)
    /\ UNCHANGED executor

\* RemoteExecutor::collect_bids, when its collection time is over: it reads the
\* bids that came so far, once, and execute chooses one or gives up.  The lock is
\* returned before the bid is accepted.
CollectBids(j) ==
    /\ j \in ExecJobs /\ exec[j] = "collecting"
    /\ lock = Free
    /\ \/ /\ bids[j] = {}
          /\ exec' = [exec EXCEPT ![j] = "declined"]
          /\ UNCHANGED chosen
       \/ /\ exec' = [exec EXCEPT ![j] = "accepting"]
          /\ \E b \in bids[j] : chosen' = [chosen EXCEPT ![j] = b]
    /\ UNCHANGED <<manager, pending, net, wallet, history>>

\* RemoteExecutor::execute_with_bid: accept, publish once more, wait.
ExecuteWithBid(j, b, e) ==
    /\ j \in ExecJobs /\ exec[j] = "accepting" /\ b = chosen[j]
    /\ UNCHANGED chosen
    /\ \/ /\ AcceptBid(j, b, e, Copies)
          /\ exec' = [exec EXCEPT ![j] = "waiting"]
       \/ /\ AcceptBid(j, b, e, {"channel"})
          /\ exec' = [exec EXCEPT ![j] = "error"]

\* accept_bid refuses: the bid has expired since it was read, or the wallet does
\* not lock its price.  The request and its bids stay.
BidRefused(j) ==
    /\ j \in ExecJobs /\ exec[j] = "accepting"
    /\ lock = Free
    /\ exec' = [exec EXCEPT ![j] = "declined"]
    /\ UNCHANGED <<chosen, manager, pending, net, wallet, history>>

\* create_escrow fails to save after it has locked the funds: accept_bid gives
\* up, the job stays requested and the escrow has no job.
AcceptBidUnsaved(j, b, e) ==
    /\ j \in ExecJobs => exec[j] = "accepting" /\ b = chosen[j]
    /\ failures < MaxFailures
    /\ LockFunds(j, b, e)
    /\ failures' = failures + 1
    /\ orphaned' = orphaned \cup {e}
    /\ exec' = [i \in ExecJobs |-> IF i = j THEN "error" ELSE exec[i]]
    /\ UNCHANGED <<chosen, manager, pending, net, created, executed, arrived, missed, crashes>>

-------------------------------------------------------------------------------
(* The winner executes the job.                                            *)

\* Mutant: every bidder takes itself for the winner.
EveryBidderExecutes(p, m, ok) ==
    /\ m.type = "accepted" /\ m.job \in pending[p]
    /\ net' = (net \ {m}) \cup {[type |-> "result", job |-> m.job, provider |-> p, ok |-> ok]}
    /\ executed' = executed \cup {[job |-> m.job, provider |-> p, ok |-> ok]}
    /\ pending' = [pending EXCEPT ![p] = @ \ {m.job}]
    /\ UNCHANGED <<manager, executor, wallet, created, arrived, missed, orphaned, failures, crashes>>

\* The BidAccepted branch of handle_gossip_message, execute_provider_job and
\* handle_bid_accepted.  A failed execution is sent as a result as well.
HandleBidAccepted(p, m, ok) ==
    /\ m.type = "accepted" /\ m.winner = p
    /\ IF m.job \in pending[p]
       THEN /\ net' = (net \ {m}) \cup {[type |-> "result", job |-> m.job,
                                         provider |-> p, ok |-> ok]}
            /\ executed' = executed \cup {[job |-> m.job, provider |-> p, ok |-> ok]}
       ELSE /\ net' = net \ {m}
            /\ UNCHANGED executed
    /\ pending' = [pending EXCEPT ![p] = @ \ {m.job}]
    /\ UNCHANGED <<manager, executor, wallet, created, arrived, missed, orphaned, failures, crashes>>

-------------------------------------------------------------------------------
(* The requester settles the job.                                          *)

\* The Result branch of handle_gossip_message: submit_result, and then, under
\* the same lock, settle_job(true).
HandleResult(m) ==
    /\ lock = Free
    /\ m.type = "result"
    /\ net' = net \ {m}
    /\ IF active[m.job] = None
       THEN UNCHANGED <<active, lock, arrived>>
       ELSE /\ active' = [active EXCEPT ![m.job] = [@ EXCEPT !.result = TRUE]]
            /\ lock' = [step |-> "submitted", job |-> m.job]
            /\ arrived' = arrived \cup {j \in {m.job} \cap ExecJobs : exec[j] = "waiting"}
    /\ UNCHANGED <<requests, bids, completed, executor, pending, wallet>>
    /\ UNCHANGED <<created, executed, missed, orphaned, failures, crashes>>

\* The executor that was settling j gets the outcome of settle_job.
ExecSettled(j, outcome) ==
    exec' = [i \in ExecJobs |-> IF i = j /\ exec[i] = "settling" THEN outcome ELSE exec[i]]

\* settle_job, to the end of release_escrow.  The job leaves active_jobs first;
\* an error (the escrow is not active, or the release cannot be saved) ends
\* settle_job there.
SettleRelease ==
    LET j == lock.job
        e == active[j].escrow IN
    /\ lock.step = "submitted"
    /\ active' = [active EXCEPT ![j] = None]
    /\ \/ /\ escrows[e].status = "Active"
          /\ escrows' = [escrows EXCEPT ![e] = [@ EXCEPT !.status = "Released"]]
          /\ \/ /\ lock' = [step |-> "released", job |-> j]
                /\ UNCHANGED <<exec, failures>>
             \/ /\ failures < MaxFailures
                /\ failures' = failures + 1
                /\ lock' = Free
                /\ ExecSettled(j, "error")
       \/ /\ escrows[e].status # "Active"
          /\ lock' = Free
          /\ ExecSettled(j, "error")
          /\ UNCHANGED <<escrows, failures>>
    /\ UNCHANGED <<requests, bids, completed, chosen, pending, net, available>>
    /\ UNCHANGED <<created, executed, arrived, missed, orphaned, crashes>>

PaidFor(j) == CHOOSE e \in EscrowIds : escrows[e].job = j /\ escrows[e].status = "Released"

LastOf(s, n) == SubSeq(s, IF Len(s) > n THEN Len(s) - n + 1 ELSE 1, Len(s))

\* The rest of settle_job: the payment is credited, to this node's own wallet,
\* and the job is completed.
SettleCredit ==
    LET j == lock.job IN
    /\ lock.step = "released"
    /\ available' = available + escrows[PaidFor(j)].amount
    /\ completed' = LastOf(Append(completed, j), MaxCompleted)
    /\ lock' = Free
    /\ ExecSettled(j, "returned")
    /\ UNCHANGED <<requests, bids, active, chosen, pending, net, escrows, history>>

\* A poll of wait_for_result: with a result, execute goes on to settle the job.
Poll(j) ==
    /\ lock = Free
    /\ exec[j] = "waiting" /\ j \in arrived
    /\ IF active[j] # None /\ active[j].result
       THEN /\ lock' = [step |-> "submitted", job |-> j]
            /\ exec' = [exec EXCEPT ![j] = "settling"]
            /\ UNCHANGED missed
       ELSE /\ missed' = missed \cup {j}
            /\ UNCHANGED <<lock, exec>>
    /\ UNCHANGED <<requests, bids, active, completed, chosen, pending, net, wallet>>
    /\ UNCHANGED <<created, executed, arrived, orphaned, failures, crashes>>

\* Mutant: a job that timed out is requested again.
ResultTimeoutRequests(j) ==
    /\ exec[j] = "waiting"
    /\ exec' = [exec EXCEPT ![j] = "timeout"]
    /\ requests' = requests \cup {j}
    /\ UNCHANGED <<bids, active, completed, lock, chosen, pending, net, wallet, history>>

\* The timeout around wait_for_result: the job stays active.
ResultTimeout(j) ==
    /\ exec[j] = "waiting"
    /\ exec' = [exec EXCEPT ![j] = "timeout"]
    /\ UNCHANGED <<chosen, manager, pending, net, wallet, history>>

-------------------------------------------------------------------------------

\* Wallet::sweep_expired_escrows, from the serve loop.
SweepExpired(e) ==
    /\ escrows[e].status = "Active"
    /\ escrows' = [escrows EXCEPT ![e] = [@ EXCEPT !.status = "Expired"]]
    /\ available' = available + escrows[e].amount
    /\ UNCHANGED <<manager, executor, pending, net, history>>

\* The requester restarts: the wallet is on disk, the JobManager is not.
Crash ==
    /\ crashes < MaxCrashes
    /\ crashes' = crashes + 1
    /\ requests' = {}
    /\ bids' = [j \in Jobs |-> {}]
    /\ active' = [j \in Jobs |-> None]
    /\ completed' = <<>>
    /\ lock' = Free
    /\ exec' = [j \in ExecJobs |-> IF exec[j] = "idle" THEN "idle" ELSE "error"]
    /\ orphaned' = orphaned \cup {e \in EscrowIds : escrows[e].status = "Active"}
    /\ UNCHANGED <<chosen, pending, net, wallet, created, executed, arrived, missed, failures>>

Next ==
    \/ \E j \in Jobs : SubmitJob(j) \/ BroadcastRequest(j)
    \/ \E m \in net, p \in Providers :
         HandleRequest(p, m) \/ \E ok \in BOOLEAN : HandleBidAccepted(p, m, ok)
    \/ \E m \in net : ReceiveBid(m) \/ HandleResult(m)
    \/ \E j \in Jobs, b \in Bids, e \in EscrowIds :
         AutoAcceptBid(j, b, e) \/ ExecuteWithBid(j, b, e) \/ AcceptBidUnsaved(j, b, e)
    \/ \E j \in ExecJobs : CollectBids(j) \/ BidRefused(j) \/ Poll(j) \/ ResultTimeout(j)
    \/ SettleRelease \/ SettleCredit
    \/ \E e \in EscrowIds : SweepExpired(e)
    \/ Crash

Spec == Init /\ [][Next]_vars

-------------------------------------------------------------------------------
(* What is told of a job.                                                  *)

Places(j) == {i \in 1 .. Len(completed) : completed[i] = j}

\* The rows of the dashboard's list, which shows pending requests, active jobs
\* and completed jobs one after the other.
Rows(j) ==
    Cardinality(Places(j)) + Cardinality({j} \cap requests)
      + Cardinality({i \in {j} : active[i] # None})

\* describe_job_for_tools: what job_status says, as 1 .. 4.  The job is looked up
\* where it would be first.
Described(j) ==
    CASE j \in requests -> 1              \* awaiting_bids
      [] j \notin requests /\ active[j] # None -> 2
      [] j \notin requests /\ active[j] = None /\ Places(j) # {} -> 3
      [] OTHER -> 4                        \* job not found

\* While a job is being settled the lock keeps everyone from asking.
Told(j) == IF lock = [step |-> "released", job |-> j] THEN 2 ELSE Described(j)

-------------------------------------------------------------------------------
(* Properties.                                                             *)

\* A job is in one of requests, active_jobs and completed_jobs at most, and
\* completed once at most, although requests, acceptances and results come
\* twice, late, or after a timeout.  Types are checked with it.
OnePhase == TypeOK /\ \A j \in Jobs : Rows(j) <= 1

\* What job_status says of a job goes on from waiting to active to completed and
\* is never taken back, whatever message, timeout, failure or sweep comes late.
ToldForward == [][\A j \in created : Told(j) <= Told(j)']_vars

\* Funds are locked for an active job or not at all: whatever ends a job also
\* settles its escrow, and no job locks two.  The exceptions are crashes and
\* failed saves, which leave their escrow to the sweep.
EscrowHasJob ==
    \A e \in EscrowIds :
        escrows[e].status = "Active" /\ e \notin orphaned
          => active[escrows[e].job] # None /\ active[escrows[e].job].escrow = e

\* A job is paid once at most.
PaidOnce ==
    \A d, e \in EscrowIds :
        (/\ escrows[d].status = "Released" /\ escrows[e].status = "Released"
         /\ escrows[d].job = escrows[e].job)
          => d = e

\* Each locked escrow has its job, and a job is paid once (job/mod.rs:234, :388).
EscrowsApart == EscrowHasJob /\ PaidOnce

\* A payment names a peer that executed its job.
WorkPaid ==
    \A e \in EscrowIds :
        escrows[e].status = "Released"
          => \E x \in executed : x.job = escrows[e].job /\ x.provider = escrows[e].recipient

\* Until an execute has accepted a bid, and for ever if it gave up without one,
\* nobody commits funds to its job: the request stays in the list, late bids join
\* it, and the serve loop accepts bids of that list as well (serve.rs:1333).
UncommittedUntilAccepted ==
    \A j \in ExecJobs :
        exec[j] \in {"idle", "collecting", "accepting", "declined"}
          => active[j] = None /\ \A e \in EscrowIds : escrows[e].job # j

\* RemoteExecutor::wait_for_result, "Wait for a job result to arrive": a poll
\* after the arrival finds it.
ResultFound == missed = {}

-------------------------------------------------------------------------------
(* Small instances.                                                        *)

\* Peers 1, 2, ... ask 1, 2, ...
MCPrice == [p \in Providers |-> p]
===============================================================================
