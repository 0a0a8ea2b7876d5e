-------------------------------- MODULE Wallet --------------------------------
(***************************************************************************)
(* The token wallet of a node: src/src/wallet/mod.rs and escrow.rs, with   *)
(* its start in Runtime::new (src/src/runtime.rs), its command line        *)
(* (src/src/cli/wallet.rs) and the escrow sweep of the serve loop.         *)
(*                                                                         *)
(* Every operation takes the write lock of WalletState for its change,     *)
(* drops it, and then saves the state to the database under a read lock.   *)
(* Spending operations check their limits under an earlier read lock.      *)
(* These are the steps a task takes here: check, change, save.  Between    *)
(* them other tasks run, and the process may crash.                        *)
(***************************************************************************)
EXTENDS Integers, FiniteSets

CONSTANTS
    Tasks,          \* concurrent callers of the wallet
    Amounts,        \* amounts callers ask for
    Timeouts,       \* escrow timeouts callers ask for
    Reserve,        \* WalletConfig.reserve_balance
    MaxPerTx,       \* WalletConfig.max_spend_per_tx
    MaxPerHour,     \* WalletConfig.max_spend_per_hour
    MaxPerDay,      \* WalletConfig.max_spend_per_day
    InitialGrant,   \* what Runtime::new credits to an empty wallet
    HourLen,        \* length of an hour and of a day, in clock ticks
    DayLen,
    MaxEscrows,     \* bound: escrows ever created
    MaxCredited,    \* bound: total of all credits
    MaxTime,        \* bound: the last time a spending call may begin
    MaxCrashes      \* bound: crashes and wallet commands

ASSUME ConstantsAssumption ==
    /\ Amounts \subseteq Nat /\ Timeouts \subseteq Nat
    /\ Reserve \in Nat /\ InitialGrant \in Nat
    /\ 0 < Reserve /\ Reserve <= InitialGrant
    /\ MaxPerTx \in Nat /\ MaxPerHour \in Nat /\ MaxPerDay \in Nat
    /\ HourLen \in Nat \ {0} /\ DayLen \in Nat \ {0}
    /\ MaxEscrows \in Nat /\ MaxCredited \in Nat
    /\ MaxTime \in Nat /\ MaxCrashes \in Nat

ASSUME TasksAssumption == IsFiniteSet(Tasks) /\ Tasks # {}

VARIABLES
    mem,            \* Wallet.state, the WalletState in memory
    disk,           \* the "wallet_state" setting in redb
    node,           \* "down", "granting" (in Runtime::new), "up", or a wallet
                    \* command before ("cli") and after ("called") its call
    task,           \* what each caller is doing
    sweeper,        \* the escrow sweep of the serve loop: "idle" or "saving"
    now,            \* the clock
    crashes,        \* crashes and wallet commands so far
    unsaved         \* history: a save_state failed and none succeeded since

vars == <<mem, disk, node, task, sweeper, now, crashes, unsaved>>

EscrowIds == 1 .. MaxEscrows

Statuses == {"Absent", "Active", "Released", "Refunded", "Expired"}

Escrows ==
    [amount : Nat, status : Statuses, created_at : Nat, expires_at : Nat]

\* A HashMap from hours (days) to what was spent in them.  Only the entry of
\* the current hour (day) is ever read and time does not go back, so one
\* entry, the latest, stands for the map.
Trackers == [key : Nat, spent : Nat]

\* The last four fields are the transaction list, by its totals per kind.
WalletStates ==
    [available : Nat, in_escrow : Nat, staked : Nat,
     escrows : [EscrowIds -> Escrows],
     hourly_spend : Trackers, daily_spend : Trackers,
     credited : Nat, debited : Nat, released : Nat, grants : Nat]

DefaultState ==
    [available |-> 0, in_escrow |-> 0, staked |-> 0,
     escrows |-> [e \in EscrowIds |-> [amount |-> 0, status |-> "Absent",
                                       created_at |-> 0, expires_at |-> 0]],
     hourly_spend |-> [key |-> 0, spent |-> 0],
     daily_spend |-> [key |-> 0, spent |-> 0],
     credited |-> 0, debited |-> 0, released |-> 0, grants |-> 0]

Idle == [pc |-> "idle", kind |-> "none", amount |-> 0]
Saving == [pc |-> "saving", kind |-> "none", amount |-> 0]
Checked(k, a) == [pc |-> "checked", kind |-> k, amount |-> a]

TaskStates ==
    {Idle, Saving} \cup {Checked(k, a) : k \in {"debit", "create_escrow"}, a \in Amounts}

TypeOK ==
    /\ mem \in WalletStates
    /\ disk \in WalletStates
    /\ node \in {"down", "granting", "up", "cli", "called"}
    /\ task \in [Tasks -> TaskStates]
    /\ sweeper \in {"idle", "saving"}
    /\ now \in Nat
    /\ crashes \in Nat
    /\ unsaved \in BOOLEAN

Init ==
    /\ mem = DefaultState
    /\ disk = DefaultState
    /\ node = "down"
    /\ task = [c \in Tasks |-> Idle]
    /\ sweeper = "idle"
    /\ now = 0
    /\ crashes = 0
    /\ unsaved = FALSE

-------------------------------------------------------------------------------
(* What the operations compute.                                            *)

Hour == now \div HourLen
Day == now \div DayLen

SpentIn(tracker, key) == IF tracker.key = key THEN tracker.spent ELSE 0

Spend(tracker, key, a) == [key |-> key, spent |-> SpentIn(tracker, key) + a]

\* Mutant: no hourly and daily limits.
PerTxLimitOnly(a) == a <= MaxPerTx

\* check_spending_limits
WithinLimits(a) ==
    /\ a <= MaxPerTx
    /\ SpentIn(mem.hourly_spend, Hour) + a <= MaxPerHour
    /\ SpentIn(mem.daily_spend, Day) + a <= MaxPerDay

\* u64::saturating_sub
SaturatingSub(x, y) == IF x >= y THEN x - y ELSE 0

\* Mutant: the reserve can be spent.
AllAvailable == mem.available

\* What spending may use: all but the reserve.
EffectiveAvailable == SaturatingSub(mem.available, Reserve)

\* BalanceSnapshot.total
BalanceTotal(s) == s.available + s.in_escrow + s.staked

\* The sum f[1] + ... + f[n], as the last value of the running totals.
Total(f, n) ==
    LET run[i \in 0 .. n] == IF i = 0 THEN 0 ELSE run[i - 1] + f[i]
    IN  run[n]

Active(s, e) == s.escrows[e].status = "Active"

LockedIn(s) == [e \in EscrowIds |-> IF Active(s, e) THEN s.escrows[e].amount ELSE 0]

\* The escrows after e has got another status.
WithStatus(s, e, status) ==
    [s.escrows EXCEPT ![e] = [s.escrows[e] EXCEPT !.status = status]]

Credited(s, a) == [s EXCEPT !.available = @ + a, !.credited = @ + a]

\* Who calls the wallet: the tasks of a serving node, ...
Serving(c) == node = "up" /\ task[c] = Idle

\* ... or one wallet command, which makes one call and exits.
Command(c) == node = "cli" /\ task[c] = Idle

Calling == node' = IF node = "cli" THEN "called" ELSE node

-------------------------------------------------------------------------------
(* Operations.  A rejected call returns early and changes nothing; it is an *)
(* action only where it gives up something the task had.                   *)

\* Bound: a call for an escrow begins only while there is an identity for it.
EscrowLeft ==
    Cardinality({c \in Tasks : task[c].kind = "create_escrow"})
      < Cardinality({e \in EscrowIds : mem.escrows[e].status = "Absent"})

CheckSpendingLimits(c, k, a) ==
    /\ Serving(c) \/ (Command(c) /\ k = "create_escrow")
    /\ WithinLimits(a)
    /\ now <= MaxTime /\ (k = "create_escrow" => EscrowLeft)
    /\ task' = [task EXCEPT ![c] = Checked(k, a)]
    /\ Calling
    /\ UNCHANGED <<mem, disk, sweeper, now, crashes, unsaved>>

\* The change is made and the write lock dropped: save_state comes next.
Changed(c, s) ==
    /\ mem' = s
    /\ task' = [task EXCEPT ![c] = Saving]
    /\ Calling
    /\ UNCHANGED <<disk, sweeper, now, crashes, unsaved>>

InsufficientBalance(c) ==
    /\ task[c].pc = "checked"
    /\ task[c].amount > EffectiveAvailable
    /\ task' = [task EXCEPT ![c] = Idle]
    /\ UNCHANGED <<mem, disk, node, sweeper, now, crashes, unsaved>>

Debit(c) ==
    LET a == task[c].amount IN
    /\ task[c] = Checked("debit", a)
    /\ a <= EffectiveAvailable
    /\ Changed(c, [mem EXCEPT !.available = @ - a,
                              !.hourly_spend = Spend(@, Hour, a),
                              !.daily_spend = Spend(@, Day, a),
                              !.debited = @ + a])

NewEscrow(a, timeout) ==
    [amount |-> a, status |-> "Active", created_at |-> now, expires_at |-> now + timeout]

CreateEscrow(c, e, timeout) ==
    LET a == task[c].amount IN
    /\ task[c] = Checked("create_escrow", a)
    /\ a <= EffectiveAvailable
    /\ mem.escrows[e].status = "Absent"
    /\ \A f \in EscrowIds : f < e => mem.escrows[f].status # "Absent"
    /\ Changed(c, [mem EXCEPT !.available = @ - a,
                              !.in_escrow = @ + a,
                              !.escrows = [@ EXCEPT ![e] = NewEscrow(a, timeout)]])

Credit(c, a) ==
    /\ Serving(c)
    /\ a > 0
    /\ mem.credited + a <= MaxCredited
    /\ Changed(c, Credited(mem, a))

\* Mutant: the escrow stays Active.
ReleaseUnmarked(c, e) ==
    /\ Serving(c)
    /\ Active(mem, e)
    /\ Changed(c, [mem EXCEPT !.in_escrow = @ - mem.escrows[e].amount,
                              !.released = @ + mem.escrows[e].amount])

ReleaseEscrow(c, e) ==
    /\ Serving(c)
    /\ Active(mem, e)
    /\ Changed(c, [mem EXCEPT !.escrows = WithStatus(mem, e, "Released"),
                              !.in_escrow = @ - mem.escrows[e].amount,
                              !.released = @ + mem.escrows[e].amount])

\* Mutant: an escrow the sweep has returned is refunded once more.
RefundUnresolved(c, e) ==
    /\ Serving(c)
    /\ mem.escrows[e].status \in {"Active", "Expired"}
    /\ Changed(c, [mem EXCEPT !.escrows = WithStatus(mem, e, "Refunded"),
                              !.in_escrow = SaturatingSub(@, mem.escrows[e].amount),
                              !.available = @ + mem.escrows[e].amount])

RefundEscrow(c, e) ==
    /\ Serving(c)
    /\ Active(mem, e)
    /\ Changed(c, [mem EXCEPT !.escrows = WithStatus(mem, e, "Refunded"),
                              !.in_escrow = @ - mem.escrows[e].amount,
                              !.available = @ + mem.escrows[e].amount])

Stake(c, a) ==
    /\ Command(c)
    /\ a <= mem.available
    /\ Changed(c, [mem EXCEPT !.available = @ - a, !.staked = @ + a])

Unstake(c, a) ==
    /\ Command(c)
    /\ a <= mem.staked
    /\ Changed(c, [mem EXCEPT !.staked = @ - a, !.available = @ + a])

\* Mutant: the balances are saved and the escrows are not.
SaveBalances(c) ==
    /\ task[c] = Saving
    /\ disk' = [mem EXCEPT !.escrows = disk.escrows]
    /\ unsaved' = FALSE
    /\ task' = [task EXCEPT ![c] = Idle]
    /\ UNCHANGED <<mem, node, sweeper, now, crashes>>

\* save_state: the state as it is now, not as this task left it.
SaveState(c) ==
    /\ task[c] = Saving
    /\ disk' = mem
    /\ unsaved' = FALSE
    /\ task' = [task EXCEPT ![c] = Idle]
    /\ UNCHANGED <<mem, node, sweeper, now, crashes>>

\* The database refuses: the caller gets the error, the change stays in memory.
SaveStateFails(c) ==
    /\ task[c] = Saving
    /\ unsaved' = TRUE
    /\ task' = [task EXCEPT ![c] = Idle]
    /\ UNCHANGED <<mem, disk, node, sweeper, now, crashes>>

\* Mutants: the sweep does not look at the status; it compares the wrong way.
PastExpiry == {e \in EscrowIds : mem.escrows[e].status # "Absent" /\ now > mem.escrows[e].expires_at}
BeforeExpiry == {e \in EscrowIds : Active(mem, e) /\ now < mem.escrows[e].expires_at}

\* sweep_expired_escrows
ExpiredIds == {e \in EscrowIds : Active(mem, e) /\ now > mem.escrows[e].expires_at}

SweptAmounts == [e \in EscrowIds |-> IF e \in ExpiredIds THEN mem.escrows[e].amount ELSE 0]

\* The saturating subtractions of the loop, one after the other, are one of
\* their total.
SweepExpiredEscrows ==
    /\ node = "up"
    /\ sweeper = "idle"
    /\ ExpiredIds # {}
    /\ LET swept == Total(SweptAmounts, MaxEscrows) IN
         mem' = [mem EXCEPT
                   !.escrows = [e \in EscrowIds |->
                                  IF e \in ExpiredIds
                                  THEN [mem.escrows[e] EXCEPT !.status = "Expired"]
                                  ELSE mem.escrows[e]],
                   !.in_escrow = SaturatingSub(@, swept),
                   !.available = @ + swept]
    /\ sweeper' = "saving"
    /\ UNCHANGED <<disk, node, task, now, crashes, unsaved>>

\* Mutant: the sweep's change is not saved.
SweepOnly ==
    /\ sweeper = "saving"
    /\ sweeper' = "idle"
    /\ UNCHANGED <<mem, disk, node, task, now, crashes, unsaved>>

SweepSave ==
    /\ sweeper = "saving"
    /\ sweeper' = "idle"
    /\ disk' = mem
    /\ unsaved' = FALSE
    /\ UNCHANGED <<mem, node, task, now, crashes>>

SweepSaveFails ==
    /\ sweeper = "saving"
    /\ sweeper' = "idle"
    /\ unsaved' = TRUE
    /\ UNCHANGED <<mem, disk, node, task, now, crashes>>

-------------------------------------------------------------------------------
(* The process.                                                            *)

\* Runtime::new: load the state; an empty wallet is credited the grant.
Start ==
    /\ node = "down"
    /\ IF BalanceTotal(mem) = 0
       THEN /\ mem' = [Credited(mem, InitialGrant) EXCEPT !.grants = @ + 1]
            /\ node' = "granting"
       ELSE /\ node' = "up"
            /\ UNCHANGED mem
    /\ UNCHANGED <<disk, task, sweeper, now, crashes, unsaved>>

GrantSaved ==
    /\ node = "granting"
    /\ node' = "up"
    /\ disk' = mem
    /\ UNCHANGED <<mem, task, sweeper, now, crashes, unsaved>>

\* load_wallet of the wallet commands: no grant, and no sweep.
LoadWallet ==
    /\ node = "down"
    /\ crashes < MaxCrashes
    /\ crashes' = crashes + 1
    /\ node' = "cli"
    /\ UNCHANGED <<mem, disk, task, sweeper, now, unsaved>>

\* What a later start finds is the disk.
Stopped ==
    /\ node' = "down"
    /\ mem' = disk
    /\ task' = [c \in Tasks |-> Idle]
    /\ sweeper' = "idle"
    /\ unsaved' = FALSE
    /\ UNCHANGED <<disk, now>>

CommandExits ==
    /\ node \in {"cli", "called"}
    /\ \A c \in Tasks : task[c] = Idle
    /\ Stopped
    /\ UNCHANGED crashes

\* The process dies between any two steps.
Crash ==
    /\ node # "down"
    /\ crashes < MaxCrashes
    /\ crashes' = crashes + 1
    /\ Stopped

\* The clock runs to the bound, and on while an escrow waits to expire.
Tick ==
    /\ \/ now < MaxTime
       \/ \E e \in EscrowIds : Active(mem, e) /\ now <= mem.escrows[e].expires_at
    /\ now' = now + 1
    /\ UNCHANGED <<mem, disk, node, task, sweeper, crashes, unsaved>>

TaskStep(c) ==
    \/ \E a \in Amounts : \/ \E k \in {"debit", "create_escrow"} : CheckSpendingLimits(c, k, a)
                          \/ Credit(c, a) \/ Stake(c, a) \/ Unstake(c, a)
    \/ Debit(c) \/ InsufficientBalance(c) \/ SaveState(c) \/ SaveStateFails(c)
    \/ \E e \in EscrowIds : \/ \E t \in Timeouts : CreateEscrow(c, e, t)
                            \/ ReleaseEscrow(c, e) \/ RefundEscrow(c, e)

\* A task that has passed its check goes on to the change or the rejection.
CallReturns(c) ==
    \/ Debit(c) \/ InsufficientBalance(c)
    \/ \E e \in EscrowIds, t \in Timeouts : CreateEscrow(c, e, t)

Next ==
    \/ \E c \in Tasks : TaskStep(c)
    \/ SweepExpiredEscrows \/ SweepSave \/ SweepSaveFails
    \/ Start \/ GrantSaved \/ LoadWallet \/ CommandExits \/ Crash \/ Tick

Spec == Init /\ [][Next]_vars

\* The serve loop keeps sweeping, a node that is down is started again, calls
\* return, wallet commands end, and time passes.
Fairness ==
    /\ WF_vars(SweepExpiredEscrows) /\ WF_vars(SweepSave \/ SweepSaveFails)
    /\ WF_vars(Start) /\ WF_vars(GrantSaved) /\ WF_vars(CommandExits)
    /\ \A c \in Tasks : WF_vars(SaveState(c) \/ SaveStateFails(c))
    /\ \A c \in Tasks : WF_vars(CallReturns(c))
    /\ WF_vars(Tick)

FairSpec == Spec /\ Fairness

-------------------------------------------------------------------------------
(* Properties.                                                             *)

\* The counter in_escrow is always what the Active escrows hold together, in
\* memory and in the snapshot a restart loads: release_escrow and
\* refund_escrow never underflow `in_escrow -= amount`, and the sweep's
\* saturating_sub never hides a loss.
EscrowBacked ==
    \A s \in {mem, disk} : s.in_escrow = Total(LockedIn(s), MaxEscrows)

\* Tokens are neither made nor lost: the balance is what was credited less
\* what was debited and what was paid out of escrow.
Conserved ==
    \A s \in {mem, disk} :
        BalanceTotal(s) + s.debited + s.released = s.credited

\* The 1000 PCLAW of Runtime::new are credited once in the life of a wallet:
\* the test for "balance == 0" cannot be met again by spending, staking,
\* paying and crashing.
GrantedOnce == mem.grants <= 1 /\ disk.grants <= 1

\* Staked and available funds never fall below the reserve again, whatever is
\* debited, escrowed, released, staked or unstaked.
ReserveHeld ==
    \A s \in {mem, disk} : s.grants > 0 => s.available + s.staked >= Reserve

\* When nobody is about to save and no save has failed, what a crash would
\* load is exactly what is in memory: no interleaving of changes and saves
\* loses an update.
PersistedWhenQuiet ==
    (/\ node # "granting"
     /\ \A c \in Tasks : task[c] # Saving
     /\ sweeper = "idle"
     /\ ~unsaved)
        => disk = mem

\* The limits are checked under one lock and applied under another: tasks that
\* pass the check together can exceed the hourly limit of debits, by at most
\* one transaction of every task but one.
OvershootBounded ==
    LET others == Cardinality(Tasks) - 1 IN
    /\ SpentIn(mem.hourly_spend, Hour) <= MaxPerHour + others * MaxPerTx
    /\ SpentIn(mem.daily_spend, Day) <= MaxPerDay + others * MaxPerTx

\* src/README.md, "budget limits (per-request/hour/day/total)": what is debited
\* in an hour, and paid from escrows created in it, is within the limit.
HourlyLimit ==
    SpentIn(mem.hourly_spend, Hour)
      + Total([e \in EscrowIds |->
                 IF mem.escrows[e].status = "Released" /\ mem.escrows[e].created_at \div HourLen = Hour
                 THEN mem.escrows[e].amount ELSE 0], MaxEscrows) <= MaxPerHour

\* An escrow is settled once: while the process lives, a released, refunded or
\* expired escrow stays as it is, and an active one keeps its terms.
SettledOnce ==
    [][\A e \in EscrowIds :
         (node # "down" /\ node' # "down" /\ mem.escrows[e].status # "Absent")
           => /\ mem'.escrows[e].amount = mem.escrows[e].amount
              /\ mem'.escrows[e].expires_at = mem.escrows[e].expires_at
              /\ ~Active(mem, e) => mem'.escrows[e] = mem.escrows[e]]_vars

\* No tokens stay locked for ever: every active escrow is settled in the end,
\* by its owner or by the sweep after it has expired.
NoLockup == \A e \in EscrowIds : Active(mem, e) ~> ~Active(mem, e)

-------------------------------------------------------------------------------
(* The wallet implements the abstract ledger.                              *)

LedgerStatus ==
    [Absent |-> "Absent", Active |-> "Active", Released |-> "Paid",
     Refunded |-> "Returned", Expired |-> "Returned"]

LedgerOf(s) ==
    [owned |-> s.available + s.staked,
     escrows |-> [e \in EscrowIds |->
                    [amount |-> s.escrows[e].amount,
                     status |-> LedgerStatus[s.escrows[e].status]]]]

L == INSTANCE Ledger WITH cur <- LedgerOf(mem), dur <- LedgerOf(disk)

\* Checks, changes and saves interleaved as above look like the atomic
\* deposits, payments, refunds and crashes of the ledger.
ImplementsLedger == L!Spec
===============================================================================
