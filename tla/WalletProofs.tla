----------------------------- MODULE WalletProofs -----------------------------
(***************************************************************************)
(* The safety of Wallet for any number of tasks, escrows, amounts and      *)
(* crashes.  The inductive invariant says the same of the state in memory  *)
(* and of the one on disk, so that a crash preserves it: the state is well *)
(* typed, its counter in_escrow is backed by the active escrows, its       *)
(* balance is what the log says, and a wallet that was granted its initial *)
(* balance keeps the reserve, which is why it is never granted again.      *)
(* A second invariant, SpendInv, rests on it: how far debits that were     *)
(* checked together can go over the limits.  From the first one every step *)
(* of the wallet is shown to be a step of the atomic Ledger, or none.      *)
(***************************************************************************)
EXTENDS Wallet, FiniteSetTheorems, WellFoundedInduction, NaturalsInduction, TLAPS

USE ConstantsAssumption

Backed(s) == s.in_escrow = Total(LockedIn(s), MaxEscrows)

Balanced(s) == BalanceTotal(s) + s.debited + s.released = s.credited

Granted(s) ==
    /\ s.grants <= 1
    /\ s.grants > 0 => s.available + s.staked >= Reserve

Sound(s) == s \in WalletStates /\ Backed(s) /\ Balanced(s) /\ Granted(s)

Inv == TypeOK /\ Sound(mem) /\ Sound(disk)

-------------------------------------------------------------------------------
(* Induction on numbers, and the laws of totals                              *)

\* Every non-empty set of naturals has a least element.
LEMMA LeastElement ==
    ASSUME NEW T, T \subseteq Nat, T # {}
    PROVE  \E x \in T : \A y \in T : x <= y
<1>1. IsWellFoundedOn(OpToRel(<, Nat), Nat)
  BY NatLessThanWellFounded
<1>2. PICK x \in T : \A y \in T : ~ (<<y, x>> \in OpToRel(<, Nat))
  BY <1>1, WFMin
<1>3. \A y \in T : ~ (y < x)
  BY <1>2 DEF OpToRel
<1> QED
  BY <1>3

LEMMA SetInduction ==
    ASSUME NEW S, 0 \in S, \A i \in Nat : i \in S => i + 1 \in S
    PROVE  \A i \in Nat : i \in S
<1> DEFINE T == {i \in Nat : i \notin S}
<1>1. SUFFICES ASSUME T # {} PROVE FALSE
  OBVIOUS
<1>2. PICK x \in T : \A y \in T : x <= y
  <2> HIDE DEF T
  <2>1. T \subseteq Nat
    BY DEF T
  <2> QED
    BY <1>1, <2>1, LeastElement
<1>3. x \in Nat /\ x \notin S /\ x # 0
  OBVIOUS
<1>4. x - 1 \in Nat /\ x - 1 \notin T
  BY <1>2, <1>3
<1> QED
  BY <1>3, <1>4

\* g holds the running totals of f up to n.
Running(g, f, n) ==
    /\ g \in [0 .. n -> Nat]
    /\ g[0] = 0
    /\ \A i \in 1 .. n : g[i] = g[i - 1] + f[i]

\* The running totals of n amounts exist.
LEMMA RunningExists ==
    ASSUME NEW n \in Nat, NEW f \in [1 .. n -> Nat]
    PROVE  \E g : Running(g, f, n)
<1> DEFINE S == {m \in Nat : m <= n => \E g : Running(g, f, m)}
<1>1. 0 \in S
  <2>1. Running([i \in 0 .. 0 |-> 0], f, 0)
    BY DEF Running
  <2> QED
    BY <2>1
<1>2. ASSUME NEW m \in Nat, m \in S PROVE m + 1 \in S
  <2>1. SUFFICES ASSUME m + 1 <= n PROVE \E g : Running(g, f, m + 1)
    OBVIOUS
  <2>2. PICK g : Running(g, f, m)
    BY <1>2, <2>1
  <2> DEFINE h == [i \in 0 .. m + 1 |-> IF i <= m THEN g[i] ELSE g[m] + f[m + 1]]
  <2>3. f[m + 1] \in Nat /\ g[m] \in Nat
    BY <2>1, <2>2 DEF Running
  <2>4. h \in [0 .. m + 1 -> Nat] /\ h[0] = 0
    BY <2>2, <2>3 DEF Running
  <2>5. ASSUME NEW i \in 1 .. m + 1 PROVE h[i] = h[i - 1] + f[i]
    <3>1. CASE i <= m
      BY <2>2, <3>1 DEF Running
    <3>2. CASE i = m + 1
      BY <2>2, <3>2 DEF Running
    <3> QED
      BY <3>1, <3>2
  <2> QED
    BY <2>4, <2>5 DEF Running
<1>3. \A m \in Nat : m \in S
  <2> HIDE DEF S
  <2> QED
    BY <1>1, <1>2, SetInduction
<1> QED
  BY <1>3

\* They are unique, so Total is the last of them.
LEMMA TotalIsLast ==
    ASSUME NEW n \in Nat, NEW f, NEW g, Running(g, f, n)
    PROVE  Total(f, n) = g[n]
<1> DEFINE F(r) == [i \in 0 .. n |-> IF i = 0 THEN 0 ELSE r[i - 1] + f[i]]
           run == CHOOSE r : r = F(r)
<1>1. g = F(g)
  BY DEF Running
<1>2. run = F(run)
  <2> HIDE DEF F
  <2> QED
    BY <1>1, Zenon
<1>3. Total(f, n) = run[n]
  BY DEF Total
<1> HIDE DEF run
<1>4. \A i \in 0 .. n : run[i] = IF i = 0 THEN 0 ELSE run[i - 1] + f[i]
  BY <1>2
<1> DEFINE S == {i \in Nat : i <= n => run[i] = g[i]}
<1>5. 0 \in S
  BY <1>4 DEF Running
<1>6. ASSUME NEW i \in Nat, i \in S PROVE i + 1 \in S
  BY <1>4, <1>6 DEF Running
<1>7. \A i \in Nat : i \in S
  <2> HIDE DEF S
  <2> QED
    BY <1>5, <1>6, SetInduction
<1> QED
  BY <1>3, <1>7

LEMMA TotalType ==
    ASSUME NEW n \in Nat, NEW f \in [1 .. n -> Nat]
    PROVE  Total(f, n) \in Nat
<1>1. PICK g : Running(g, f, n)
  BY RunningExists
<1>2. Total(f, n) = g[n]
  BY <1>1, TotalIsLast
<1> QED
  BY <1>1, <1>2 DEF Running

\* The total of pointwise sums is the sum of the totals.
LEMMA TotalPlus ==
    ASSUME NEW n \in Nat, NEW f \in [1 .. n -> Nat], NEW h \in [1 .. n -> Nat],
           NEW s \in [1 .. n -> Nat], \A i \in 1 .. n : s[i] = f[i] + h[i]
    PROVE  Total(s, n) = Total(f, n) + Total(h, n)
<1>1. PICK g1 : Running(g1, f, n)
  BY RunningExists
<1>2. PICK g2 : Running(g2, h, n)
  BY RunningExists
<1> DEFINE g == [i \in 0 .. n |-> g1[i] + g2[i]]
<1>3. Running(g, s, n)
  <2>1. g \in [0 .. n -> Nat] /\ g[0] = 0
    BY <1>1, <1>2 DEF Running
  <2>2. ASSUME NEW i \in 1 .. n PROVE g[i] = g[i - 1] + s[i]
    <3>1. i \in 0 .. n /\ i - 1 \in 0 .. n
      OBVIOUS
    <3>2. /\ g1[i] = g1[i - 1] + f[i] /\ g1[i - 1] \in Nat
          /\ g2[i] = g2[i - 1] + h[i] /\ g2[i - 1] \in Nat
          /\ s[i] = f[i] + h[i] /\ f[i] \in Nat /\ h[i] \in Nat
      BY <1>1, <1>2, <3>1 DEF Running
    <3>3. g[i] = g1[i] + g2[i] /\ g[i - 1] = g1[i - 1] + g2[i - 1]
      BY <3>1
    <3> QED
      BY <3>2, <3>3
  <2> QED
    BY <2>1, <2>2 DEF Running
<1>4. g[n] = g1[n] + g2[n]
  OBVIOUS
<1> QED
  BY <1>1, <1>2, <1>3, <1>4, TotalIsLast

\* When only one of the amounts is not zero, it is the total.
LEMMA TotalSingle ==
    ASSUME NEW n \in Nat, NEW k \in 1 .. n, NEW f \in [1 .. n -> Nat],
           \A i \in 1 .. n : i # k => f[i] = 0
    PROVE  Total(f, n) = f[k]
<1> DEFINE g == [i \in 0 .. n |-> IF i < k THEN 0 ELSE f[k]]
<1>1. Running(g, f, n)
  BY DEF Running
<1> QED
  BY <1>1, TotalIsLast

\* Changing one amount changes the total by as much.
LEMMA TotalUpdate ==
    ASSUME NEW n \in Nat, NEW k \in 1 .. n,
           NEW f \in [1 .. n -> Nat], NEW h \in [1 .. n -> Nat],
           \A i \in 1 .. n : i # k => h[i] = f[i]
    PROVE  Total(h, n) + f[k] = Total(f, n) + h[k]
<1> DEFINE r == [i \in 1 .. n |-> IF i = k THEN 0 ELSE f[i]]
           u == [i \in 1 .. n |-> IF i = k THEN f[k] ELSE 0]
           v == [i \in 1 .. n |-> IF i = k THEN h[k] ELSE 0]
<1>1. r \in [1 .. n -> Nat] /\ u \in [1 .. n -> Nat] /\ v \in [1 .. n -> Nat]
  OBVIOUS
<1>2. Total(u, n) = f[k] /\ Total(v, n) = h[k]
  <2>1. \A i \in 1 .. n : i # k => u[i] = 0 /\ v[i] = 0
    OBVIOUS
  <2>2. u[k] = f[k] /\ v[k] = h[k]
    OBVIOUS
  <2> HIDE DEF u, v
  <2> QED
    BY <1>1, <2>1, <2>2, TotalSingle
<1>3. Total(f, n) = Total(r, n) + Total(u, n)
  <2>1. \A i \in 1 .. n : f[i] = r[i] + u[i]
    OBVIOUS
  <2> HIDE DEF r, u
  <2> QED
    BY <1>1, <2>1, TotalPlus
<1>4. Total(h, n) = Total(r, n) + Total(v, n)
  <2>1. \A i \in 1 .. n : h[i] = r[i] + v[i]
    OBVIOUS
  <2> HIDE DEF r, v
  <2> QED
    BY <1>1, <2>1, TotalPlus
<1>5. Total(r, n) \in Nat
  <2> HIDE DEF r
  <2> QED
    BY <1>1, TotalType
<1>6. f[k] \in Nat /\ h[k] \in Nat
  OBVIOUS
<1> QED
  BY <1>2, <1>3, <1>4, <1>5, <1>6

-------------------------------------------------------------------------------

LEMMA LockedType ==
    ASSUME NEW s \in WalletStates
    PROVE  LockedIn(s) \in [1 .. MaxEscrows -> Nat]
BY DEF LockedIn, Active, WalletStates, EscrowIds, Escrows

\* The amount of an active escrow is covered by the total.
LEMMA ActiveCovered ==
    ASSUME NEW s \in WalletStates, NEW e \in EscrowIds, Active(s, e)
    PROVE  /\ Total(LockedIn(s), MaxEscrows) \in Nat
           /\ s.escrows[e].amount \in Nat
           /\ s.escrows[e].amount <= Total(LockedIn(s), MaxEscrows)
<1> DEFINE f == LockedIn(s)
           h == [f EXCEPT ![e] = 0]
<1>1. f \in [1 .. MaxEscrows -> Nat] /\ h \in [1 .. MaxEscrows -> Nat]
  BY LockedType
<1>2. e \in 1 .. MaxEscrows /\ MaxEscrows \in Nat
  BY DEF EscrowIds
<1>3. f[e] = s.escrows[e].amount /\ h[e] = 0
  BY <1>1, <1>2 DEF LockedIn
<1>4. \A i \in 1 .. MaxEscrows : i # e => h[i] = f[i]
  BY <1>1
<1>5. Total(f, MaxEscrows) \in Nat /\ Total(h, MaxEscrows) \in Nat
  <2> HIDE DEF f, h
  <2> QED
    BY <1>1, <1>2, TotalType
<1>6. Total(h, MaxEscrows) + f[e] = Total(f, MaxEscrows) + h[e]
  <2> HIDE DEF f, h
  <2> QED
    BY <1>1, <1>2, <1>4, TotalUpdate
<1>7. s.escrows[e].amount \in Nat
  BY DEF WalletStates, Escrows
<1> HIDE DEF f, h
<1>8. s.escrows[e].amount <= Total(f, MaxEscrows)
  BY <1>3, <1>5, <1>6, <1>7
<1> QED
  BY <1>5, <1>7, <1>8 DEF f

\* The locked total after one escrow has changed.
LEMMA LockedUpdate ==
    ASSUME NEW s \in WalletStates, NEW t \in WalletStates, NEW e \in EscrowIds,
           \A i \in EscrowIds : i # e => t.escrows[i] = s.escrows[i]
    PROVE  Total(LockedIn(t), MaxEscrows) + LockedIn(s)[e]
             = Total(LockedIn(s), MaxEscrows) + LockedIn(t)[e]
<1>1. LockedIn(s) \in [1 .. MaxEscrows -> Nat] /\ LockedIn(t) \in [1 .. MaxEscrows -> Nat]
  BY LockedType
<1>2. \A i \in 1 .. MaxEscrows : i # e => LockedIn(t)[i] = LockedIn(s)[i]
  BY DEF LockedIn, Active, EscrowIds
<1>3. e \in 1 .. MaxEscrows /\ MaxEscrows \in Nat
  BY DEF EscrowIds
<1> QED
  BY <1>1, <1>2, <1>3, TotalUpdate

LEMMA SameEscrows ==
    ASSUME NEW s, NEW t, t.escrows = s.escrows
    PROVE  LockedIn(t) = LockedIn(s)
BY DEF LockedIn, Active

LEMMA FieldTypes ==
    ASSUME NEW s \in WalletStates
    PROVE  /\ s.available \in Nat /\ s.in_escrow \in Nat /\ s.staked \in Nat
           /\ s.escrows \in [EscrowIds -> Escrows]
           /\ s.hourly_spend \in Trackers /\ s.daily_spend \in Trackers
           /\ s.credited \in Nat /\ s.debited \in Nat
           /\ s.released \in Nat /\ s.grants \in Nat
BY DEF WalletStates

LEMMA WithStatusType ==
    ASSUME NEW s \in WalletStates, NEW e \in EscrowIds, NEW st \in Statuses
    PROVE  /\ WithStatus(s, e, st) \in [EscrowIds -> Escrows]
           /\ WithStatus(s, e, st)[e].status = st
           /\ \A i \in EscrowIds : i # e => WithStatus(s, e, st)[i] = s.escrows[i]
<1>1. s.escrows \in [EscrowIds -> Escrows]
  BY FieldTypes
<1>2. s.escrows[e] \in Escrows
  BY <1>1
<1>3. [s.escrows[e] EXCEPT !.status = st] \in Escrows
  BY <1>2 DEF Escrows
<1>4. [s.escrows[e] EXCEPT !.status = st].status = st
  BY <1>2 DEF Escrows
<1> QED
  BY <1>1, <1>3, <1>4 DEF WithStatus

LEMMA SumIsZero ==
    ASSUME NEW x \in Nat, NEW y \in Nat, NEW z \in Nat, x + y + z = 0
    PROVE  x = 0 /\ z = 0
OBVIOUS

LEMMA TaskStateTypes ==
    /\ Idle \in TaskStates /\ Saving \in TaskStates
    /\ \A k \in {"debit", "create_escrow"}, a \in Amounts : Checked(k, a) \in TaskStates
BY DEF TaskStates

LEMMA HoursType ==
    ASSUME now \in Nat
    PROVE  Hour \in Nat /\ Day \in Nat
BY DEF Hour, Day

-------------------------------------------------------------------------------
(* Every change of the state in memory keeps it sound.                     *)

LEMMA TaskAmount ==
    ASSUME TypeOK, NEW c \in Tasks
    PROVE  /\ task[c].amount \in Nat
           /\ task[c].pc = "checked" => task[c].amount \in Amounts
BY DEF TypeOK, TaskStates, Idle, Saving, Checked

LEMMA DebitSound ==
    ASSUME Inv, NEW c \in Tasks, Debit(c)
    PROVE  Sound(mem')
<1> DEFINE a == task[c].amount
<1>1. a \in Nat /\ Hour \in Nat /\ Day \in Nat
  BY TaskAmount, HoursType DEF Inv, TypeOK
<1>2. mem \in WalletStates /\ mem.available >= a
  BY <1>1 DEF Inv, TypeOK, Debit, EffectiveAvailable, SaturatingSub, WalletStates
<1>3. /\ SpentIn(mem.hourly_spend, Hour) \in Nat
      /\ SpentIn(mem.daily_spend, Day) \in Nat
  BY <1>2 DEF SpentIn, WalletStates, Trackers
<1>4. mem' \in WalletStates
  <2>1. mem.available - a \in Nat /\ mem.debited + a \in Nat
    BY <1>1, <1>2, FieldTypes
  <2>2. Spend(mem.hourly_spend, Hour, a) \in Trackers /\ Spend(mem.daily_spend, Day, a) \in Trackers
    BY <1>1, <1>3 DEF Spend, Trackers
  <2> QED
    BY <1>2, <2>1, <2>2 DEF Debit, Changed, WalletStates
<1>5. Backed(mem')
  BY <1>2, SameEscrows DEF Inv, Sound, Backed, Debit, Changed, WalletStates
<1>6. Balanced(mem')
  BY <1>1, <1>2 DEF Inv, Sound, Balanced, BalanceTotal, Debit, Changed, WalletStates
<1>7. Granted(mem')
  BY <1>1, <1>2 DEF Inv, Sound, Granted, Debit, Changed, EffectiveAvailable, SaturatingSub, WalletStates
<1> QED
  BY <1>4, <1>5, <1>6, <1>7 DEF Sound

LEMMA CreateEscrowSound ==
    ASSUME Inv, NEW c \in Tasks, NEW e \in EscrowIds, NEW t \in Timeouts, CreateEscrow(c, e, t)
    PROVE  Sound(mem')
<1> DEFINE a == task[c].amount
<1>1. a \in Nat /\ t \in Nat /\ now \in Nat
  BY TaskAmount DEF Inv, TypeOK
<1>2. mem \in WalletStates /\ mem.available >= a
  BY <1>1 DEF Inv, TypeOK, CreateEscrow, EffectiveAvailable, SaturatingSub, WalletStates
<1>3. NewEscrow(a, t) \in Escrows
  BY <1>1 DEF NewEscrow, Escrows, Statuses
<1>4. mem' \in WalletStates
  <2>1. mem.available - a \in Nat /\ mem.in_escrow + a \in Nat
    BY <1>1, <1>2, FieldTypes
  <2>2. [mem.escrows EXCEPT ![e] = NewEscrow(a, t)] \in [EscrowIds -> Escrows]
    BY <1>2, <1>3, FieldTypes
  <2> QED
    BY <1>2, <2>1, <2>2 DEF CreateEscrow, Changed, WalletStates
<1>5. Backed(mem')
  <2>1. LockedIn(mem)[e] = 0 /\ LockedIn(mem')[e] = a
    BY <1>2, <1>4 DEF LockedIn, Active, CreateEscrow, Changed, NewEscrow, WalletStates
  <2>2. \A i \in EscrowIds : i # e => mem'.escrows[i] = mem.escrows[i]
    BY <1>2 DEF CreateEscrow, Changed, WalletStates
  <2>3. Total(LockedIn(mem'), MaxEscrows) + 0 = Total(LockedIn(mem), MaxEscrows) + a
    BY <1>2, <1>4, <2>1, <2>2, LockedUpdate
  <2>4. mem'.in_escrow = mem.in_escrow + a
    BY <1>2 DEF CreateEscrow, Changed, WalletStates
  <2>5. Total(LockedIn(mem'), MaxEscrows) \in Nat
    BY <1>4, LockedType, TotalType
  <2> QED
    BY <2>3, <2>4, <2>5 DEF Inv, Sound, Backed
<1>6. Balanced(mem')
  BY <1>1, <1>2 DEF Inv, Sound, Balanced, BalanceTotal, CreateEscrow, Changed, WalletStates
<1>7. Granted(mem')
  BY <1>1, <1>2 DEF Inv, Sound, Granted, CreateEscrow, Changed, EffectiveAvailable, SaturatingSub, WalletStates
<1> QED
  BY <1>4, <1>5, <1>6, <1>7 DEF Sound

LEMMA CreditedSound ==
    ASSUME NEW s, Sound(s), NEW a \in Nat
    PROVE  Sound(Credited(s, a))
<1> DEFINE t == Credited(s, a)
<1>1. s \in WalletStates
  BY DEF Sound
<1>2. t \in WalletStates
  <2>1. s.available + a \in Nat /\ s.credited + a \in Nat
    BY <1>1, FieldTypes
  <2> QED
    BY <1>1, <2>1 DEF Credited, WalletStates
<1>3. Backed(t)
  BY <1>1, SameEscrows DEF Sound, Backed, Credited, WalletStates
<1>4. Balanced(t) /\ Granted(t)
  BY <1>1 DEF Sound, Balanced, Granted, BalanceTotal, Credited, WalletStates
<1> QED
  BY <1>2, <1>3, <1>4 DEF Sound

\* release_escrow and refund_escrow: the amount leaves in_escrow, and g of it
\* goes to available.
LEMMA SettleSound ==
    ASSUME Inv, NEW e \in EscrowIds, Active(mem, e),
           NEW st \in {"Released", "Refunded"},
           NEW t, t = [mem EXCEPT !.escrows = WithStatus(mem, e, st),
                                  !.in_escrow = @ - mem.escrows[e].amount,
                                  !.available = t.available,
                                  !.released = t.released],
           \/ /\ t.available = mem.available
              /\ t.released = mem.released + mem.escrows[e].amount
           \/ /\ t.available = mem.available + mem.escrows[e].amount
              /\ t.released = mem.released
    PROVE  Sound(t)
<1> DEFINE a == mem.escrows[e].amount
<1>1. mem \in WalletStates /\ mem.in_escrow = Total(LockedIn(mem), MaxEscrows)
  BY DEF Inv, Sound, Backed
<1>2. a \in Nat /\ a <= mem.in_escrow
  BY <1>1, ActiveCovered
<1>3. /\ WithStatus(mem, e, st) \in [EscrowIds -> Escrows]
      /\ WithStatus(mem, e, st)[e].status = st
      /\ \A i \in EscrowIds : i # e => WithStatus(mem, e, st)[i] = mem.escrows[i]
  BY <1>1, WithStatusType DEF Statuses
<1>4. /\ mem.available \in Nat /\ mem.in_escrow \in Nat /\ mem.staked \in Nat
      /\ mem.released \in Nat /\ mem.credited \in Nat /\ mem.debited \in Nat
      /\ mem.grants \in Nat /\ mem.escrows \in [EscrowIds -> Escrows]
  BY <1>1 DEF WalletStates
<1>5. t.available \in Nat /\ t.released \in Nat
  BY <1>2, <1>4 DEF WalletStates
<1>6. t \in WalletStates /\ t.escrows = WithStatus(mem, e, st)
  <2>1. mem.in_escrow - a \in Nat
    BY <1>2, <1>4
  <2> QED
    BY <1>1, <1>3, <1>5, <2>1 DEF WalletStates
<1>7. Backed(t)
  <2>1. LockedIn(mem)[e] = a /\ LockedIn(t)[e] = 0
    BY <1>3, <1>6 DEF LockedIn, Active
  <2>2. \A i \in EscrowIds : i # e => t.escrows[i] = mem.escrows[i]
    BY <1>3, <1>6
  <2>3. Total(LockedIn(t), MaxEscrows) + a = Total(LockedIn(mem), MaxEscrows) + 0
    BY <1>1, <1>6, <2>1, <2>2, LockedUpdate
  <2>4. t.in_escrow = mem.in_escrow - a
    BY <1>1 DEF WalletStates
  <2>5. Total(LockedIn(t), MaxEscrows) \in Nat
    BY <1>6, LockedType, TotalType
  <2> QED
    BY <1>1, <1>2, <1>4, <2>3, <2>4, <2>5 DEF Backed
<1>8. /\ t.staked = mem.staked /\ t.in_escrow = mem.in_escrow - a
      /\ t.debited = mem.debited /\ t.credited = mem.credited
      /\ t.grants = mem.grants
  BY <1>1 DEF WalletStates
<1>9. Balanced(t)
  BY <1>2, <1>4, <1>5, <1>8 DEF Inv, Sound, Balanced, BalanceTotal
<1>10. Granted(t)
  BY <1>2, <1>4, <1>5, <1>8 DEF Inv, Sound, Granted
<1> QED
  BY <1>6, <1>7, <1>9, <1>10 DEF Sound

LEMMA ReleaseSound ==
    ASSUME Inv, NEW c \in Tasks, NEW e \in EscrowIds, ReleaseEscrow(c, e)
    PROVE  Sound(mem')
<1>1. mem \in WalletStates
  BY DEF Inv, TypeOK
<1>2. /\ mem' = [mem EXCEPT !.escrows = WithStatus(mem, e, "Released"),
                            !.in_escrow = @ - mem.escrows[e].amount,
                            !.available = mem'.available,
                            !.released = mem'.released]
      /\ mem'.available = mem.available
      /\ mem'.released = mem.released + mem.escrows[e].amount
  BY <1>1 DEF ReleaseEscrow, Changed, WalletStates
<1>3. Active(mem, e)
  BY DEF ReleaseEscrow
<1> QED
  BY <1>2, <1>3, SettleSound

LEMMA RefundSound ==
    ASSUME Inv, NEW c \in Tasks, NEW e \in EscrowIds, RefundEscrow(c, e)
    PROVE  Sound(mem')
<1>1. mem \in WalletStates
  BY DEF Inv, TypeOK
<1>2. /\ mem' = [mem EXCEPT !.escrows = WithStatus(mem, e, "Refunded"),
                            !.in_escrow = @ - mem.escrows[e].amount,
                            !.available = mem'.available,
                            !.released = mem'.released]
      /\ mem'.available = mem.available + mem.escrows[e].amount
      /\ mem'.released = mem.released
  BY <1>1 DEF RefundEscrow, Changed, WalletStates
<1>3. Active(mem, e)
  BY DEF RefundEscrow
<1> QED
  BY <1>2, <1>3, SettleSound

\* stake and unstake: x and y are the new available and staked amounts.
LEMMA StakeSound ==
    ASSUME Inv, NEW c \in Tasks, NEW a \in Amounts, Stake(c, a) \/ Unstake(c, a)
    PROVE  Sound(mem')
<1>1. mem \in WalletStates /\ a \in Nat
  BY DEF Inv, TypeOK
<1>2. PICK x \in Nat, y \in Nat : /\ mem' = [mem EXCEPT !.available = x, !.staked = y]
                                 /\ x + y = mem.available + mem.staked
  <2>1. CASE Stake(c, a)
    <3>1. /\ mem' = [mem EXCEPT !.available = mem.available - a, !.staked = mem.staked + a]
          /\ a <= mem.available
      BY <2>1 DEF Stake, Changed
    <3>2. /\ mem.available - a \in Nat /\ mem.staked + a \in Nat
          /\ (mem.available - a) + (mem.staked + a) = mem.available + mem.staked
      BY <1>1, <3>1, FieldTypes
    <3> QED
      BY <3>1, <3>2
  <2>2. CASE Unstake(c, a)
    <3>1. /\ mem' = [mem EXCEPT !.staked = mem.staked - a, !.available = mem.available + a]
          /\ a <= mem.staked
      BY <2>2 DEF Unstake, Changed
    <3>2. mem' = [mem EXCEPT !.available = mem.available + a, !.staked = mem.staked - a]
      BY <1>1, <3>1 DEF WalletStates
    <3>3. /\ mem.available + a \in Nat /\ mem.staked - a \in Nat
          /\ (mem.available + a) + (mem.staked - a) = mem.available + mem.staked
      BY <1>1, <3>1, FieldTypes
    <3> QED
      BY <3>2, <3>3
  <2> QED
    BY <2>1, <2>2
<1>3. mem' \in WalletStates
  BY <1>1, <1>2 DEF WalletStates
<1>4. /\ mem'.available = x /\ mem'.staked = y
      /\ mem'.escrows = mem.escrows /\ mem'.in_escrow = mem.in_escrow
      /\ mem'.credited = mem.credited /\ mem'.debited = mem.debited
      /\ mem'.released = mem.released /\ mem'.grants = mem.grants
  BY <1>1, <1>2 DEF WalletStates
<1>5. Backed(mem')
  BY <1>4, SameEscrows DEF Inv, Sound, Backed
<1>6. Balanced(mem') /\ Granted(mem')
  BY <1>1, <1>2, <1>4, FieldTypes DEF Inv, Sound, Balanced, Granted, BalanceTotal
<1> QED
  BY <1>3, <1>5, <1>6 DEF Sound

\* The sweep: what it takes from the active escrows is what the counter loses,
\* so its saturating subtraction is exact.
LEMMA SweepSound ==
    ASSUME Inv, SweepExpiredEscrows
    PROVE  /\ Sound(mem')
           /\ mem'.available + mem'.in_escrow = mem.available + mem.in_escrow
<1> DEFINE swept == Total(SweptAmounts, MaxEscrows)
           es == [e \in EscrowIds |-> IF e \in ExpiredIds
                                     THEN [mem.escrows[e] EXCEPT !.status = "Expired"]
                                     ELSE mem.escrows[e]]
           after == [e \in EscrowIds |-> IF es[e].status = "Active" THEN es[e].amount ELSE 0]
<1>1. mem \in WalletStates /\ mem.in_escrow = Total(LockedIn(mem), MaxEscrows)
  BY DEF Inv, Sound, Backed
<1>2. es \in [EscrowIds -> Escrows]
  <2>1. ASSUME NEW e \in EscrowIds PROVE [mem.escrows[e] EXCEPT !.status = "Expired"] \in Escrows
    BY <1>1, FieldTypes DEF Escrows, Statuses
  <2>2. mem.escrows \in [EscrowIds -> Escrows]
    BY <1>1, FieldTypes
  <2> QED
    BY <2>1, <2>2
<1>3. \A e \in ExpiredIds : es[e].status = "Expired" /\ mem.escrows[e].status = "Active"
  BY <1>1, FieldTypes DEF ExpiredIds, Active, Escrows
<1>4. /\ LockedIn(mem) \in [1 .. MaxEscrows -> Nat]
      /\ after \in [1 .. MaxEscrows -> Nat]
      /\ SweptAmounts \in [1 .. MaxEscrows -> Nat]
  <2>1. \A e \in EscrowIds : mem.escrows[e].amount \in Nat
    BY <1>1, FieldTypes DEF Escrows
  <2>2. after \in [EscrowIds -> Nat]
    BY <1>2 DEF Escrows
  <2> QED
    BY <1>1, <2>1, <2>2, LockedType DEF EscrowIds, SweptAmounts
<1>5. \A e \in 1 .. MaxEscrows : LockedIn(mem)[e] = after[e] + SweptAmounts[e]
  <2> SUFFICES ASSUME NEW e \in EscrowIds PROVE LockedIn(mem)[e] = after[e] + SweptAmounts[e]
    BY DEF EscrowIds
  <2>1. mem.escrows[e].amount \in Nat
    BY <1>1, FieldTypes DEF Escrows
  <2>2. CASE e \in ExpiredIds
    <3>1. es[e].status = "Expired" /\ mem.escrows[e].status = "Active"
      BY <1>3, <2>2
    <3>2. after[e] = 0
      <4> HIDE DEF es
      <4> QED
        BY <3>1
    <3>3. LockedIn(mem)[e] = mem.escrows[e].amount /\ SweptAmounts[e] = mem.escrows[e].amount
      BY <2>2, <3>1 DEF LockedIn, Active, SweptAmounts
    <3> QED
      BY <2>1, <3>2, <3>3
  <2>3. CASE e \notin ExpiredIds
    BY <2>1, <2>3 DEF LockedIn, Active, SweptAmounts
  <2> QED
    BY <2>2, <2>3
<1>6. /\ mem.in_escrow = Total(after, MaxEscrows) + swept
      /\ Total(after, MaxEscrows) \in Nat /\ swept \in Nat
  <2> HIDE DEF after
  <2> QED
    BY <1>1, <1>4, <1>5, TotalPlus, TotalType
<1> HIDE DEF es, swept
<1>7. mem' = [mem EXCEPT !.escrows = es, !.in_escrow = SaturatingSub(mem.in_escrow, swept),
                         !.available = mem.available + swept]
  BY DEF SweepExpiredEscrows, es, swept
<1>8. SaturatingSub(mem.in_escrow, swept) = Total(after, MaxEscrows)
  <2> HIDE DEF after
  <2> QED
    BY <1>6 DEF SaturatingSub
<1>9. mem.available + swept \in Nat
  BY <1>1, <1>6, FieldTypes
<1> HIDE DEF after
<1>10. mem' \in WalletStates
  BY <1>1, <1>2, <1>6, <1>7, <1>8, <1>9 DEF WalletStates
<1>11. /\ mem'.escrows = es /\ mem'.in_escrow = Total(after, MaxEscrows)
       /\ mem'.available = mem.available + swept /\ mem'.staked = mem.staked
       /\ mem'.credited = mem.credited /\ mem'.debited = mem.debited
       /\ mem'.released = mem.released /\ mem'.grants = mem.grants
  BY <1>1, <1>7, <1>8 DEF WalletStates
<1>12. Backed(mem')
  <2>1. LockedIn(mem') = after
    BY <1>11 DEF LockedIn, Active, after
  <2> QED
    BY <1>11, <2>1 DEF Backed
<1>13. Balanced(mem') /\ Granted(mem')
  BY <1>1, <1>6, <1>11, FieldTypes DEF Inv, Sound, Balanced, Granted, BalanceTotal
<1>14. mem'.available + mem'.in_escrow = mem.available + mem.in_escrow
  BY <1>1, <1>6, <1>11, FieldTypes
<1> QED
  BY <1>10, <1>12, <1>13, <1>14 DEF Sound

\* Runtime::new grants only to a wallet that was never granted: any other one
\* still holds its reserve.
LEMMA StartSound ==
    ASSUME Inv, Start
    PROVE  Sound(mem')
<1>1. mem \in WalletStates
  BY DEF Inv, TypeOK
<1>2. CASE mem' = mem
  BY <1>2 DEF Inv
<1>3. CASE /\ BalanceTotal(mem) = 0
           /\ mem' = [Credited(mem, InitialGrant) EXCEPT !.grants = @ + 1]
  <2> DEFINE t == Credited(mem, InitialGrant)
  <2>1. Sound(t) /\ t \in WalletStates
    BY CreditedSound DEF Inv, Sound
  <2>2. mem.available = 0 /\ mem.staked = 0
    <3>1. mem.available \in Nat /\ mem.in_escrow \in Nat /\ mem.staked \in Nat
      BY <1>1, FieldTypes
    <3>2. mem.available + mem.in_escrow + mem.staked = 0
      BY <1>3 DEF BalanceTotal
    <3> QED
      BY <3>1, <3>2, SumIsZero
  <2>3. mem.grants = 0
    BY <1>1, <2>2, FieldTypes DEF Inv, Sound, Granted
  <2>4. t.available = InitialGrant /\ t.staked = 0 /\ t.grants = 0
    BY <1>1, <2>2, <2>3, FieldTypes DEF Credited, WalletStates
  <2>5. mem' = [t EXCEPT !.grants = 1]
    BY <1>3, <2>4
  <2> HIDE DEF t
  <2>6. mem' \in WalletStates
    BY <2>1, <2>5 DEF WalletStates
  <2>7. /\ mem'.escrows = t.escrows /\ mem'.in_escrow = t.in_escrow
        /\ mem'.available = InitialGrant /\ mem'.staked = 0 /\ mem'.grants = 1
        /\ mem'.credited = t.credited /\ mem'.debited = t.debited /\ mem'.released = t.released
    BY <2>1, <2>4, <2>5 DEF WalletStates
  <2>8. Backed(mem')
    BY <2>1, <2>7, SameEscrows DEF Sound, Backed
  <2>9. Balanced(mem') /\ Granted(mem')
    BY <2>1, <2>4, <2>7 DEF Sound, Balanced, Granted, BalanceTotal
  <2> QED
    BY <2>6, <2>8, <2>9 DEF Sound
<1> QED
  BY <1>2, <1>3 DEF Start

-------------------------------------------------------------------------------
(* The invariant.                                                          *)

LEMMA InitInv == Init => Inv
<1> SUFFICES ASSUME Init PROVE Inv
  OBVIOUS
<1> DEFINE d == DefaultState
<1>1. d \in WalletStates
  BY DEF DefaultState, WalletStates, Escrows, Statuses, Trackers
<1>2. Total(LockedIn(d), MaxEscrows) = 0
  <2> DEFINE f == LockedIn(d)
  <2>1. f \in [1 .. MaxEscrows -> Nat] /\ \A i \in 1 .. MaxEscrows : f[i] = 0
    BY <1>1, LockedType DEF LockedIn, Active, DefaultState, EscrowIds
  <2>2. Running([i \in 0 .. MaxEscrows |-> 0], f, MaxEscrows)
    <3> HIDE DEF f
    <3> QED
      BY <2>1 DEF Running
  <2> HIDE DEF f
  <2>3. Total(f, MaxEscrows) = 0
    BY <2>2, TotalIsLast
  <2> QED
    BY <2>3 DEF f
<1>3. Sound(d)
  BY <1>1, <1>2 DEF Sound, Backed, Balanced, Granted, BalanceTotal, DefaultState
<1> HIDE DEF d
<1>4. TypeOK
  <2>1. task \in [Tasks -> TaskStates]
    BY TaskStateTypes DEF Init
  <2>2. unsaved \in BOOLEAN
    BY Zenon DEF Init
  <2> QED
    BY <1>1, <2>1, <2>2 DEF Init, TypeOK, d
<1> QED
  BY <1>3, <1>4 DEF Init, Inv, d

\* A step that makes one of the changes above, and any other, keeps Inv.
LEMMA NextSound ==
    ASSUME Inv, Next
    PROVE  Sound(mem') /\ Sound(disk')
<1>1. ASSUME NEW c \in Tasks, TaskStep(c) PROVE Sound(mem') /\ Sound(disk')
  <2>1. ASSUME NEW a \in Amounts, NEW k, CheckSpendingLimits(c, k, a)
        PROVE  Sound(mem') /\ Sound(disk')
    BY <2>1 DEF Inv, CheckSpendingLimits
  <2>2. ASSUME NEW a \in Amounts, Credit(c, a) PROVE Sound(mem') /\ Sound(disk')
    BY <2>2, CreditedSound DEF Inv, Credit, Changed
  <2>3. ASSUME NEW a \in Amounts, Stake(c, a) \/ Unstake(c, a)
        PROVE  Sound(mem') /\ Sound(disk')
    BY <2>3, StakeSound DEF Inv, Stake, Unstake, Changed
  <2>4. CASE Debit(c)
    BY <2>4, DebitSound DEF Inv, Debit, Changed
  <2>5. CASE InsufficientBalance(c) \/ SaveState(c) \/ SaveStateFails(c)
    BY <2>5 DEF Inv, InsufficientBalance, SaveState, SaveStateFails
  <2>6. ASSUME NEW e \in EscrowIds, NEW t \in Timeouts, CreateEscrow(c, e, t)
        PROVE  Sound(mem') /\ Sound(disk')
    BY <2>6, CreateEscrowSound DEF Inv, CreateEscrow, Changed
  <2>7. ASSUME NEW e \in EscrowIds, ReleaseEscrow(c, e) PROVE Sound(mem') /\ Sound(disk')
    BY <2>7, ReleaseSound DEF Inv, ReleaseEscrow, Changed
  <2>8. ASSUME NEW e \in EscrowIds, RefundEscrow(c, e) PROVE Sound(mem') /\ Sound(disk')
    BY <2>8, RefundSound DEF Inv, RefundEscrow, Changed
  <2> QED
    BY <1>1, <2>1, <2>2, <2>3, <2>4, <2>5, <2>6, <2>7, <2>8 DEF TaskStep
<1>2. CASE SweepExpiredEscrows
  BY <1>2, SweepSound DEF Inv, SweepExpiredEscrows
<1>3. CASE SweepSave \/ SweepSaveFails
  BY <1>3 DEF Inv, SweepSave, SweepSaveFails
<1>4. CASE Start
  BY <1>4, StartSound DEF Inv, Start
<1>5. CASE GrantSaved \/ LoadWallet \/ Tick
  BY <1>5 DEF Inv, GrantSaved, LoadWallet, Tick
<1>6. CASE CommandExits \/ Crash
  BY <1>6 DEF Inv, CommandExits, Crash, Stopped
<1> QED
  BY <1>1, <1>2, <1>3, <1>4, <1>5, <1>6 DEF Next

LEMMA NextTypes ==
    ASSUME Inv, Next
    PROVE  TypeOK'
<1>1. mem' \in WalletStates /\ disk' \in WalletStates
  BY NextSound DEF Sound
<1>2. TypeOK
  BY DEF Inv
<1>3. ASSUME NEW c \in Tasks, NEW u \in TaskStates, task' = [task EXCEPT ![c] = u]
      PROVE  task' \in [Tasks -> TaskStates]
  BY <1>2, <1>3 DEF TypeOK
<1>4. ASSUME NEW c \in Tasks, TaskStep(c) PROVE TypeOK'
  <2>1. ASSUME NEW a \in Amounts, NEW k \in {"debit", "create_escrow"}, CheckSpendingLimits(c, k, a)
        PROVE  TypeOK'
    <3>1. task' \in [Tasks -> TaskStates]
      BY <1>3, <2>1, TaskStateTypes DEF CheckSpendingLimits
    <3> QED
      BY <1>1, <1>2, <2>1, <3>1 DEF TypeOK, CheckSpendingLimits, Calling
  <2>2. ASSUME NEW s, Changed(c, s) PROVE TypeOK'
    <3>1. task' \in [Tasks -> TaskStates]
      BY <1>3, <2>2, TaskStateTypes DEF Changed
    <3> QED
      BY <1>1, <1>2, <2>2, <3>1 DEF TypeOK, Changed, Calling
  <2>3. CASE InsufficientBalance(c) \/ SaveState(c) \/ SaveStateFails(c)
    <3>1. task' \in [Tasks -> TaskStates]
      BY <1>3, <2>3, TaskStateTypes DEF InsufficientBalance, SaveState, SaveStateFails
    <3>2. unsaved' \in BOOLEAN
      BY <1>2, <2>3, Zenon DEF TypeOK, InsufficientBalance, SaveState, SaveStateFails
    <3> QED
      BY <1>1, <1>2, <2>3, <3>1, <3>2 DEF TypeOK, InsufficientBalance, SaveState, SaveStateFails
  <2> QED
    BY <1>4, <2>1, <2>2, <2>3
       DEF TaskStep, Credit, Stake, Unstake, Debit, CreateEscrow, ReleaseEscrow, RefundEscrow
<1>5. CASE SweepExpiredEscrows \/ SweepSave \/ SweepSaveFails
  <2>1. unsaved' \in BOOLEAN
    BY <1>2, <1>5, Zenon DEF TypeOK, SweepExpiredEscrows, SweepSave, SweepSaveFails
  <2> QED
    BY <1>1, <1>2, <1>5, <2>1 DEF TypeOK, SweepExpiredEscrows, SweepSave, SweepSaveFails
<1>6. CASE Start \/ GrantSaved \/ LoadWallet \/ Tick
  BY <1>1, <1>2, <1>6 DEF TypeOK, Start, GrantSaved, LoadWallet, Tick
<1>7. CASE CommandExits \/ Crash
  <2>1. task' \in [Tasks -> TaskStates]
    BY <1>7, TaskStateTypes DEF CommandExits, Crash, Stopped
  <2>2. unsaved' \in BOOLEAN
    BY <1>7, Zenon DEF CommandExits, Crash, Stopped
  <2> QED
    BY <1>1, <1>2, <1>7, <2>1, <2>2 DEF TypeOK, CommandExits, Crash, Stopped
<1> QED
  BY <1>4, <1>5, <1>6, <1>7 DEF Next

LEMMA StepInv == Inv /\ [Next]_vars => Inv'
<1> SUFFICES ASSUME Inv, [Next]_vars PROVE Inv'
  OBVIOUS
<1>1. CASE Next
  BY <1>1, NextSound, NextTypes DEF Inv
<1>2. CASE UNCHANGED vars
  BY <1>2 DEF vars, Inv, TypeOK
<1> QED
  BY <1>1, <1>2

LEMMA InvAlways == Spec => []Inv
BY InitInv, StepInv, PTL DEF Spec

\* The wallet's variables keep their types; in particular no subtraction of
\* u64 amounts underflows.
THEOREM TypeCorrect == Spec => []TypeOK
BY InvAlways, PTL DEF Inv

\* The counter in_escrow is the total of the active escrows, whatever tasks
\* and crashes interleave.
THEOREM EscrowsBacked == Spec => []EscrowBacked
<1>1. Inv => EscrowBacked
  BY DEF Inv, Sound, Backed, EscrowBacked
<1> QED
  BY <1>1, InvAlways, PTL

\* No token is made or lost.
THEOREM TokensConserved == Spec => []Conserved
<1>1. Inv => Conserved
  BY DEF Inv, Sound, Balanced, Conserved
<1> QED
  BY <1>1, InvAlways, PTL

\* The initial grant of Runtime::new is given once, because a granted wallet
\* never gives up its reserve.
THEOREM GrantOnlyOnce == Spec => [](GrantedOnce /\ ReserveHeld)
<1>1. Inv => GrantedOnce /\ ReserveHeld
  BY DEF Inv, Sound, Granted, GrantedOnce, ReserveHeld
<1> QED
  BY <1>1, InvAlways, PTL

\* What is in memory and not on disk is about to be saved or was refused by
\* the database, whatever changes and saves interleave.
THEOREM PersistedAlways == Spec => []PersistedWhenQuiet
<1>1. Init => PersistedWhenQuiet
  BY DEF Init, PersistedWhenQuiet
<1>2. Inv /\ PersistedWhenQuiet /\ [Next]_vars => PersistedWhenQuiet'
  <2> SUFFICES ASSUME Inv, PersistedWhenQuiet, [Next]_vars PROVE PersistedWhenQuiet'
    OBVIOUS
  <2>1. Idle # Saving /\ \A k, a : Checked(k, a) # Saving
    BY DEF Idle, Saving, Checked
  <2>2. ASSUME NEW c \in Tasks, NEW s, Changed(c, s) PROVE PersistedWhenQuiet'
    <3>1. task'[c] = Saving
      BY <2>2 DEF Inv, TypeOK, Changed
    <3> QED
      BY <3>1 DEF PersistedWhenQuiet
  <2>3. ASSUME NEW c \in Tasks, NEW u, task[c] # Saving, task' = [task EXCEPT ![c] = u],
               node' = "granting" \/ node # "granting",
               UNCHANGED <<mem, disk, sweeper, unsaved>>
        PROVE  PersistedWhenQuiet'
    <3>1. ASSUME NEW d \in Tasks, task[d] = Saving PROVE task'[d] = Saving
      BY <2>3, <3>1 DEF Inv, TypeOK
    <3> QED
      BY <2>3, <3>1 DEF PersistedWhenQuiet
  <2>4. ASSUME NEW c \in Tasks, TaskStep(c) PROVE PersistedWhenQuiet'
    <3>1. ASSUME NEW a \in Amounts, NEW k, CheckSpendingLimits(c, k, a)
          PROVE  PersistedWhenQuiet'
      BY <2>1, <2>3, <3>1 DEF CheckSpendingLimits, Serving, Command, Calling
    <3>2. CASE InsufficientBalance(c)
      <4>1. task[c] # Saving
        BY <3>2 DEF InsufficientBalance, Saving
      <4> QED
        BY <2>3, <3>2, <4>1 DEF InsufficientBalance
    <3>3. CASE SaveState(c)
      BY <3>3 DEF SaveState, PersistedWhenQuiet
    <3>4. CASE SaveStateFails(c)
      BY <3>4 DEF SaveStateFails, PersistedWhenQuiet
    <3> QED
      BY <2>2, <2>4, <3>1, <3>2, <3>3, <3>4
         DEF TaskStep, Credit, Stake, Unstake, Debit, CreateEscrow, ReleaseEscrow, RefundEscrow
  <2>5. CASE SweepExpiredEscrows \/ SweepSave \/ SweepSaveFails
    BY <2>5 DEF SweepExpiredEscrows, SweepSave, SweepSaveFails, PersistedWhenQuiet
  <2>6. CASE Start \/ GrantSaved \/ LoadWallet \/ Tick
    BY <2>6 DEF Start, GrantSaved, LoadWallet, Tick, PersistedWhenQuiet
  <2>7. CASE CommandExits \/ Crash
    BY <2>7 DEF CommandExits, Crash, Stopped, PersistedWhenQuiet
  <2>8. CASE UNCHANGED vars
    BY <2>8 DEF vars, PersistedWhenQuiet
  <2> QED
    BY <2>4, <2>5, <2>6, <2>7, <2>8 DEF Next
<1> QED
  BY <1>1, <1>2, InvAlways, PTL DEF Spec

\* Escrows are settled once: no task, sweep or start touches a released,
\* refunded or expired escrow, or the terms of an active one.
THEOREM EscrowsSettledOnce == Spec => SettledOnce
<1> DEFINE Kept(e) == /\ mem'.escrows[e].amount = mem.escrows[e].amount
                      /\ mem'.escrows[e].expires_at = mem.escrows[e].expires_at
                      /\ ~Active(mem, e) => mem'.escrows[e] = mem.escrows[e]
           Settles == \A e \in EscrowIds :
                        (node # "down" /\ node' # "down" /\ mem.escrows[e].status # "Absent")
                          => Kept(e)
<1>1. Inv /\ [Next]_vars => [Settles]_vars
  <2> SUFFICES ASSUME Inv, Next, NEW e \in EscrowIds, node # "down", node' # "down",
                      mem.escrows[e].status # "Absent"
               PROVE  Kept(e)
    BY DEF vars
  <2>1. mem \in WalletStates /\ mem.escrows \in [EscrowIds -> Escrows]
    BY FieldTypes DEF Inv, TypeOK
  <2>2. CASE mem'.escrows = mem.escrows
    BY <2>2
  <2>3. ASSUME NEW i \in EscrowIds, Active(mem, i), NEW st \in Statuses,
               mem'.escrows = WithStatus(mem, i, st)
        PROVE  Kept(e)
    BY <2>1, <2>3 DEF WithStatus, Active, Escrows
  <2>4. ASSUME NEW c \in Tasks, TaskStep(c) PROVE Kept(e)
    <3>1. ASSUME NEW a \in Amounts, NEW k, CheckSpendingLimits(c, k, a) PROVE Kept(e)
      BY <2>2, <3>1 DEF CheckSpendingLimits
    <3>2. ASSUME NEW a \in Amounts, Credit(c, a) \/ Stake(c, a) \/ Unstake(c, a) PROVE Kept(e)
      BY <2>1, <2>2, <3>2 DEF Credit, Credited, Stake, Unstake, Changed, WalletStates
    <3>3. CASE Debit(c)
      BY <2>1, <2>2, <3>3 DEF Debit, Changed, WalletStates
    <3>4. CASE InsufficientBalance(c) \/ SaveState(c) \/ SaveStateFails(c)
      BY <2>2, <3>4 DEF InsufficientBalance, SaveState, SaveStateFails
    <3>5. ASSUME NEW i \in EscrowIds, NEW t \in Timeouts, CreateEscrow(c, i, t) PROVE Kept(e)
      <4>1. i # e /\ mem'.escrows = [mem.escrows EXCEPT ![i] = NewEscrow(task[c].amount, t)]
        BY <2>1, <3>5 DEF CreateEscrow, Changed, WalletStates
      <4> QED
        BY <2>1, <4>1
    <3>6. ASSUME NEW i \in EscrowIds, ReleaseEscrow(c, i) PROVE Kept(e)
      <4>1. Active(mem, i) /\ mem'.escrows = WithStatus(mem, i, "Released")
        BY <2>1, <3>6 DEF ReleaseEscrow, Changed, WalletStates
      <4> QED
        BY <2>3, <4>1 DEF Statuses
    <3>7. ASSUME NEW i \in EscrowIds, RefundEscrow(c, i) PROVE Kept(e)
      <4>1. Active(mem, i) /\ mem'.escrows = WithStatus(mem, i, "Refunded")
        BY <2>1, <3>7 DEF RefundEscrow, Changed, WalletStates
      <4> QED
        BY <2>3, <4>1 DEF Statuses
    <3> QED
      BY <2>4, <3>1, <3>2, <3>3, <3>4, <3>5, <3>6, <3>7 DEF TaskStep
  <2>5. CASE SweepExpiredEscrows
    <3>1. mem'.escrows[e] = IF e \in ExpiredIds
                            THEN [mem.escrows[e] EXCEPT !.status = "Expired"]
                            ELSE mem.escrows[e]
      BY <2>1, <2>5 DEF SweepExpiredEscrows, WalletStates
    <3> QED
      BY <2>1, <3>1 DEF ExpiredIds, Escrows
  <2>6. CASE SweepSave \/ SweepSaveFails \/ GrantSaved \/ LoadWallet \/ Tick
    BY <2>2, <2>6 DEF SweepSave, SweepSaveFails, GrantSaved, LoadWallet, Tick
  <2>7. ~Start /\ ~CommandExits /\ ~Crash
    BY DEF Start, CommandExits, Crash, Stopped
  <2> QED
    BY <2>4, <2>5, <2>6, <2>7 DEF Next
<1> QED
  BY <1>1, InvAlways, PTL DEF Spec, SettledOnce

-------------------------------------------------------------------------------
(* Debits checked together.  What is spent in the hour and what the tasks  *)
(* that have passed their check may still spend stay within the limit and  *)
(* one transaction of every task but one: the limit covers one of those    *)
(* that are pending, MaxPerTx each of the others.                          *)

Slack(n) == (Cardinality(Tasks) - n) * MaxPerTx

Pending == {c \in Tasks : task[c].pc = "checked" /\ task[c].kind = "debit"}

\* P: the tasks that are pending; f: what they are doing.
Room(P, f, spent, limit) ==
    IF P = {}
    THEN spent <= limit + Slack(1)
    ELSE \E c \in P : spent + f[c].amount <= limit + Slack(Cardinality(P))

\* No tracker is of an hour or a day to come: a new one starts from nothing.
Dated(s) == s.hourly_spend.key <= Hour /\ s.daily_spend.key <= Day

SpendInv ==
    /\ Dated(mem) /\ Dated(disk)
    /\ \A c \in Pending : task[c].amount <= MaxPerTx
    /\ Room(Pending, task, SpentIn(mem.hourly_spend, Hour), MaxPerHour)
    /\ Room(Pending, task, SpentIn(mem.daily_spend, Day), MaxPerDay)
    /\ SpentIn(disk.hourly_spend, Hour) <= MaxPerHour + Slack(1)
    /\ SpentIn(disk.daily_spend, Day) <= MaxPerDay + Slack(1)

LEMMA SlackLaws ==
    ASSUME NEW n \in Int, NEW m \in Int, n <= m
    PROVE  /\ Cardinality(Tasks) \in Nat /\ 1 <= Cardinality(Tasks)
           /\ Slack(n) \in Int
           /\ Slack(m) <= Slack(n)
           /\ Slack(n) = Slack(n + 1) + MaxPerTx
           /\ n <= Cardinality(Tasks) => 0 <= Slack(n)
<1> DEFINE N == Cardinality(Tasks)
<1>1. N \in Nat /\ N # 0
  BY TasksAssumption, FS_CardinalityType, FS_EmptySet
<1> HIDE DEF N
<1>2. \A x, y, z \in Int : (x - y) * z = (x - (y + 1)) * z + z
  OBVIOUS
<1>3. \A x, y \in Nat : x * y \in Nat
  OBVIOUS
<1>4. (N - n) * MaxPerTx = (N - m) * MaxPerTx + (m - n) * MaxPerTx
  BY <1>1
<1>5. (m - n) * MaxPerTx \in Nat /\ (N - n) * MaxPerTx \in Int /\ (N - m) * MaxPerTx \in Int
  BY <1>1, <1>3
<1>6. n <= N => (N - n) * MaxPerTx \in Nat
  BY <1>1, <1>3
<1>7. (N - n) * MaxPerTx = (N - (n + 1)) * MaxPerTx + MaxPerTx
  BY <1>1, <1>2
<1> QED
  BY <1>1, <1>4, <1>5, <1>6, <1>7 DEF Slack, N

LEMMA PartOfTasks ==
    ASSUME NEW P, P \subseteq Tasks
    PROVE  /\ IsFiniteSet(P) /\ Cardinality(P) \in Nat
           /\ Cardinality(P) <= Cardinality(Tasks)
           /\ P # {} => 1 <= Cardinality(P)
<1>1. IsFiniteSet(P) /\ Cardinality(P) <= Cardinality(Tasks)
  BY TasksAssumption, FS_Subset
<1>2. Cardinality(P) \in Nat /\ (Cardinality(P) = 0 <=> P = {})
  BY <1>1, FS_CardinalityType, FS_EmptySet
<1> QED
  BY <1>1, <1>2

\* Room as a set of pending tasks gives it: every amount is known and at most
\* MaxPerTx.
Fits(P, f) == P \subseteq Tasks /\ \A d \in P : f[d].amount \in Nat /\ f[d].amount <= MaxPerTx

LEMMA RoomEnough ==
    ASSUME NEW P, NEW f, Fits(P, f), NEW spent \in Nat, NEW limit \in Nat,
           Room(P, f, spent, limit)
    PROVE  spent <= limit + Slack(1)
<1>1. CASE P = {}
  BY <1>1 DEF Room
<1>2. CASE P # {}
  <2>1. Cardinality(P) \in Nat /\ 1 <= Cardinality(P)
    BY <1>2, PartOfTasks DEF Fits
  <2>2. Slack(Cardinality(P)) <= Slack(1) /\ Slack(1) \in Int /\ Slack(Cardinality(P)) \in Int
    BY <2>1, SlackLaws
  <2>3. PICK c \in P : spent + f[c].amount <= limit + Slack(Cardinality(P))
    BY <1>2 DEF Room
  <2>4. f[c].amount \in Nat
    BY <2>3 DEF Fits
  <2> QED
    BY <2>2, <2>3, <2>4
<1> QED
  BY <1>1, <1>2

\* Time passes, or nothing does.
LEMMA RoomKept ==
    ASSUME NEW P, NEW f, NEW g, Fits(P, f), \A d \in P : g[d] = f[d],
           NEW spent \in Nat, NEW limit \in Nat, Room(P, f, spent, limit),
           NEW x \in Nat, x <= spent
    PROVE  Room(P, g, x, limit) /\ Fits(P, g)
<1>1. Slack(1) \in Int
  BY SlackLaws
<1>2. CASE P = {}
  BY <1>1, <1>2 DEF Room, Fits
<1>3. CASE P # {}
  <2>1. Cardinality(P) \in Nat
    BY PartOfTasks DEF Fits
  <2>2. Slack(Cardinality(P)) \in Int
    BY <2>1, SlackLaws
  <2>3. PICK c \in P : spent + f[c].amount <= limit + Slack(Cardinality(P))
    BY <1>3 DEF Room
  <2>4. f[c].amount \in Nat /\ g[c].amount = f[c].amount
    BY <2>3 DEF Fits
  <2>5. x + g[c].amount <= limit + Slack(Cardinality(P))
    BY <2>2, <2>3, <2>4
  <2>6. Fits(P, g)
    BY DEF Fits
  <2> QED
    BY <1>3, <2>3, <2>5, <2>6 DEF Room
<1> QED
  BY <1>2, <1>3

\* A pending task goes on, and spends its amount or nothing of it.
LEMMA RoomLeft ==
    ASSUME NEW P, NEW f, NEW g, Fits(P, f), NEW c \in P, \A d \in P \ {c} : g[d] = f[d],
           NEW spent \in Nat, NEW limit \in Nat, Room(P, f, spent, limit),
           NEW x \in Nat, x <= spent + f[c].amount
    PROVE  Room(P \ {c}, g, x, limit) /\ Fits(P \ {c}, g)
<1> DEFINE n == Cardinality(P)
<1>1. n \in Nat /\ 1 <= n /\ Cardinality(P \ {c}) = n - 1
  BY PartOfTasks, FS_RemoveElement DEF Fits
<1>2. /\ Slack(n - 1) = Slack(n) + MaxPerTx
      /\ Slack(n) <= Slack(1) /\ Slack(n) \in Int /\ Slack(1) \in Int
  <2>1. Slack(n - 1) = Slack((n - 1) + 1) + MaxPerTx
    BY <1>1, SlackLaws
  <2>2. (n - 1) + 1 = n
    BY <1>1
  <2> QED
    BY <1>1, <2>1, <2>2, SlackLaws
<1>3. PICK w \in P : spent + f[w].amount <= limit + Slack(n)
  BY DEF Room
<1>4. /\ f[w].amount \in Nat /\ f[c].amount \in Nat
      /\ f[w].amount <= MaxPerTx /\ f[c].amount <= MaxPerTx
  BY DEF Fits
<1> HIDE DEF n
<1>5. Fits(P \ {c}, g)
  BY DEF Fits
<1>6. CASE P \ {c} = {}
  <2>1. w = c
    BY <1>6
  <2>2. x <= limit + Slack(1)
    BY <1>2, <1>3, <1>4, <2>1
  <2> QED
    BY <1>5, <1>6, <2>2 DEF Room
<1>7. CASE P \ {c} # {}
  <2>1. PICK d \in P \ {c} : (w # c => d = w)
    BY <1>7
  <2>2. g[d].amount = f[d].amount /\ f[d].amount \in Nat /\ f[d].amount <= MaxPerTx
    BY <2>1 DEF Fits
  <2>3. x + f[d].amount <= limit + (Slack(n) + MaxPerTx)
    <3>1. CASE w = c
      BY <1>2, <1>3, <1>4, <2>2, <3>1
    <3>2. CASE w # c
      BY <1>2, <1>3, <1>4, <2>1, <3>2
    <3> QED
      BY <3>1, <3>2
  <2>4. x + g[d].amount <= limit + Slack(Cardinality(P \ {c}))
    BY <1>1, <1>2, <2>2, <2>3
  <2> QED
    BY <1>5, <1>7, <2>1, <2>4 DEF Room
<1> QED
  BY <1>6, <1>7

\* A task passes its check: what is spent and its amount are within the limit.
LEMMA RoomTaken ==
    ASSUME NEW P, NEW f, NEW g, Fits(P, f), NEW c \in Tasks \ P, \A d \in P : g[d] = f[d],
           NEW spent \in Nat, NEW limit \in Nat,
           g[c].amount \in Nat, g[c].amount <= MaxPerTx, spent + g[c].amount <= limit
    PROVE  Room(P \cup {c}, g, spent, limit) /\ Fits(P \cup {c}, g)
<1> DEFINE Q == P \cup {c}
<1>1. Fits(Q, g) /\ Q # {} /\ c \in Q
  BY DEF Fits
<1>2. Cardinality(Q) \in Nat /\ Cardinality(Q) <= Cardinality(Tasks)
  BY <1>1, PartOfTasks DEF Fits
<1>3. 0 <= Slack(Cardinality(Q)) /\ Slack(Cardinality(Q)) \in Int
  BY <1>2, SlackLaws
<1> HIDE DEF Q
<1>4. spent + g[c].amount <= limit + Slack(Cardinality(Q))
  BY <1>3
<1> QED
  BY <1>1, <1>4 DEF Room, Q

LEMMA SpentNumber ==
    ASSUME NEW tr \in Trackers, NEW k
    PROVE  SpentIn(tr, k) \in Nat
BY DEF SpentIn, Trackers

LEMMA SpentLaws ==
    ASSUME NEW tr \in Trackers, NEW k \in Nat, NEW j \in Nat, tr.key <= k, k <= j,
           NEW a \in Nat
    PROVE  /\ SpentIn(tr, k) \in Nat /\ SpentIn(tr, j) \in Nat
           /\ SpentIn(tr, j) <= SpentIn(tr, k) /\ tr.key <= j
           /\ Spend(tr, k, a).key = k
           /\ SpentIn(Spend(tr, k, a), k) = SpentIn(tr, k) + a
BY DEF SpentIn, Spend, Trackers

LEMMA TimeForward ==
    ASSUME NEW t \in Nat, NEW len \in Nat \ {0}
    PROVE  t \div len \in Nat /\ t \div len <= (t + 1) \div len
<1> DEFINE q == t \div len
           r == (t + 1) \div len
<1>1. q \in Nat /\ r \in Nat /\ len * q <= t /\ t + 1 < len * (r + 1)
  OBVIOUS
<1> HIDE DEF q, r
<1>2. ASSUME r < q PROVE FALSE
  <2>1. PICK k \in Nat : q = (r + 1) + k
    <3>1. q - (r + 1) \in Nat /\ q = (r + 1) + (q - (r + 1))
      BY <1>1, <1>2
    <3> QED
      BY <3>1
  <2>2. len * q = len * (r + 1) + len * k
    BY <1>1, <2>1
  <2>3. len * k \in Nat /\ len * (r + 1) \in Nat
    BY <1>1
  <2> QED
    BY <1>1, <2>2, <2>3
<1> QED
  BY <1>1, <1>2 DEF q, r

-------------------------------------------------------------------------------
(* The steps.                                                              *)

LEMMA TrackerTypes ==
    ASSUME Inv
    PROVE  /\ mem.hourly_spend \in Trackers /\ mem.daily_spend \in Trackers
           /\ disk.hourly_spend \in Trackers /\ disk.daily_spend \in Trackers
           /\ Hour \in Nat /\ Day \in Nat
           /\ MaxPerHour \in Nat /\ MaxPerDay \in Nat /\ MaxPerTx \in Nat
BY HoursType DEF Inv, TypeOK, WalletStates

LEMMA SpentTypes ==
    ASSUME Inv
    PROVE  /\ SpentIn(mem.hourly_spend, Hour) \in Nat
           /\ SpentIn(mem.daily_spend, Day) \in Nat
           /\ SpentIn(disk.hourly_spend, Hour) \in Nat
           /\ SpentIn(disk.daily_spend, Day) \in Nat
<1>1. \A tr \in Trackers : SpentIn(tr, Hour) \in Nat /\ SpentIn(tr, Day) \in Nat
  BY SpentNumber
<1> QED
  BY <1>1, TrackerTypes

LEMMA PendingFits ==
    ASSUME Inv, SpendInv
    PROVE  Fits(Pending, task)
<1>1. \A c \in Tasks : task[c].amount \in Nat
  BY TaskAmount DEF Inv
<1> QED
  BY <1>1 DEF SpendInv, Fits, Pending

\* What is spent and still pending leaves the state in memory, and one saved
\* now, within the bound.
LEMMA SpentEnough ==
    ASSUME Inv, SpendInv
    PROVE  /\ SpentIn(mem.hourly_spend, Hour) <= MaxPerHour + Slack(1)
           /\ SpentIn(mem.daily_spend, Day) <= MaxPerDay + Slack(1)
<1>1. /\ SpentIn(mem.hourly_spend, Hour) \in Nat /\ SpentIn(mem.daily_spend, Day) \in Nat
      /\ MaxPerHour \in Nat /\ MaxPerDay \in Nat
  BY SpentTypes, TrackerTypes DEF SpendInv
<1> QED
  BY <1>1, PendingFits, RoomEnough DEF SpendInv

\* A step that leaves the trackers, the clock and the tasks in P alone; other
\* tasks are no longer pending.
LEMMA SpendFrame ==
    ASSUME Inv, SpendInv,
           mem'.hourly_spend = mem.hourly_spend, mem'.daily_spend = mem.daily_spend,
           disk' = disk \/ disk' = mem, now' = now,
           \/ Pending' = Pending
           \/ \E c \in Pending : Pending' = Pending \ {c},
           \A d \in Pending' : task'[d] = task[d]
    PROVE  SpendInv'
<1> DEFINE sh == SpentIn(mem.hourly_spend, Hour)
           sd == SpentIn(mem.daily_spend, Day)
<1>1. /\ sh \in Nat /\ sd \in Nat /\ MaxPerHour \in Nat /\ MaxPerDay \in Nat
      /\ sh <= sh /\ sd <= sd
  BY SpentTypes, TrackerTypes DEF SpendInv
<1>2. Hour' = Hour /\ Day' = Day
  BY DEF Hour, Day
<1>3. Fits(Pending, task)
  BY PendingFits
<1>4. Room(Pending, task, sh, MaxPerHour) /\ Room(Pending, task, sd, MaxPerDay)
  BY DEF SpendInv
<1> HIDE DEF sh, sd
<1>5. /\ Room(Pending', task', sh, MaxPerHour) /\ Room(Pending', task', sd, MaxPerDay)
      /\ Fits(Pending', task')
  <2>1. CASE Pending' = Pending
    BY <1>1, <1>3, <1>4, <2>1, RoomKept
  <2>2. ASSUME NEW c \in Pending, Pending' = Pending \ {c}
        PROVE  /\ Room(Pending', task', sh, MaxPerHour) /\ Room(Pending', task', sd, MaxPerDay)
               /\ Fits(Pending', task')
    <3>1. sh <= sh + task[c].amount /\ sd <= sd + task[c].amount
      BY <1>1, <1>3 DEF Fits
    <3>2. \A d \in Pending \ {c} : task'[d] = task[d]
      BY <2>2
    <3> QED
      BY <1>1, <1>3, <1>4, <2>2, <3>1, <3>2, RoomLeft
  <2> QED
    BY <2>1, <2>2
<1>6. \A c \in Pending' : task'[c].amount <= MaxPerTx
  BY <1>5 DEF Fits
<1>7. Dated(mem)' /\ Dated(disk)'
  BY <1>2 DEF SpendInv, Dated
<1>8. /\ SpentIn(disk.hourly_spend, Hour)' <= MaxPerHour + Slack(1)
      /\ SpentIn(disk.daily_spend, Day)' <= MaxPerDay + Slack(1)
  BY <1>2, SpentEnough DEF SpendInv, SpentIn
<1>9. SpentIn(mem.hourly_spend, Hour)' = sh /\ SpentIn(mem.daily_spend, Day)' = sd
  BY <1>2 DEF SpentIn, sh, sd
<1> QED
  BY <1>5, <1>6, <1>7, <1>8, <1>9 DEF SpendInv

\* What a task was doing tells whether it was pending.
LEMMA PendingMoves ==
    ASSUME Inv, NEW c \in Tasks, NEW v \in TaskStates, task' = [task EXCEPT ![c] = v]
    PROVE  /\ v.kind = "debit" <=> c \in Pending'
           /\ c \notin Pending' => Pending' = Pending \ {c}
           /\ c \in Pending' => Pending' = Pending \cup {c}
           /\ \A d \in Tasks : d # c => task'[d] = task[d]
           /\ task'[c] = v
           /\ Pending \subseteq Tasks /\ Pending' \subseteq Tasks
<1>1. task' \in [Tasks -> TaskStates] /\ task'[c] = v
      /\ \A d \in Tasks : d # c => task'[d] = task[d]
  BY DEF Inv, TypeOK
<1>2. v.kind = "debit" <=> v.pc = "checked" /\ v.kind = "debit"
  BY DEF TaskStates, Idle, Saving, Checked
<1> QED
  BY <1>1, <1>2 DEF Pending

LEMMA RestingKinds == Idle.kind # "debit" /\ Saving.kind # "debit"
BY DEF Idle, Saving

\* A task goes to rest or to its save, and no tracker has changed.
LEMMA RestingStep ==
    ASSUME Inv, SpendInv, NEW c \in Tasks,
           task' = [task EXCEPT ![c] = Idle] \/ task' = [task EXCEPT ![c] = Saving],
           mem'.hourly_spend = mem.hourly_spend, mem'.daily_spend = mem.daily_spend,
           disk' = disk \/ disk' = mem, now' = now
    PROVE  SpendInv'
<1>1. PICK v \in {Idle, Saving} : task' = [task EXCEPT ![c] = v]
  OBVIOUS
<1>2. v \in TaskStates /\ v.kind # "debit"
  BY <1>1, TaskStateTypes, RestingKinds
<1>3. /\ Pending' = Pending \ {c}
      /\ \A d \in Pending' : task'[d] = task[d]
  <2>1. /\ c \notin Pending' /\ Pending' = Pending \ {c} /\ Pending' \subseteq Tasks
        /\ \A d \in Tasks : d # c => task'[d] = task[d]
    BY <1>1, <1>2, PendingMoves
  <2> QED
    BY <2>1
<1>4. c \in Pending \/ Pending' = Pending
  BY <1>3
<1> QED
  BY <1>3, <1>4, SpendFrame

LEMMA TrackersKept ==
    ASSUME Inv, NEW c \in Tasks, NEW a, NEW e, NEW t,
           \/ CreateEscrow(c, e, t) \/ Credit(c, a) \/ ReleaseEscrow(c, e)
           \/ RefundEscrow(c, e) \/ Stake(c, a) \/ Unstake(c, a)
    PROVE  /\ mem'.hourly_spend = mem.hourly_spend /\ mem'.daily_spend = mem.daily_spend
           /\ disk' = disk /\ now' = now /\ task' = [task EXCEPT ![c] = Saving]
<1>1. mem \in WalletStates
  BY DEF Inv, Sound
<1>2. CASE CreateEscrow(c, e, t)
  BY <1>1, <1>2 DEF CreateEscrow, Changed, WalletStates
<1>3. CASE Credit(c, a)
  BY <1>1, <1>3 DEF Credit, Credited, Changed, WalletStates
<1>4. CASE ReleaseEscrow(c, e) \/ RefundEscrow(c, e)
  BY <1>1, <1>4 DEF ReleaseEscrow, RefundEscrow, Changed, WalletStates
<1>5. CASE Stake(c, a) \/ Unstake(c, a)
  BY <1>1, <1>5 DEF Stake, Unstake, Changed, WalletStates
<1> QED
  BY <1>2, <1>3, <1>4, <1>5

LEMMA CheckSpend ==
    ASSUME Inv, SpendInv, NEW c \in Tasks, NEW k \in {"debit", "create_escrow"},
           NEW a \in Amounts, CheckSpendingLimits(c, k, a)
    PROVE  SpendInv'
<1> DEFINE v == Checked(k, a)
<1>1. /\ task' = [task EXCEPT ![c] = v] /\ mem' = mem /\ disk' = disk /\ now' = now
      /\ task[c] = Idle /\ WithinLimits(a)
  BY DEF CheckSpendingLimits, Serving, Command
<1>2. v \in TaskStates /\ v.kind = k /\ v.amount = a /\ a \in Nat
  BY TaskStateTypes DEF Checked
<1> HIDE DEF v
<1>3. c \notin Pending
  BY <1>1, RestingKinds DEF Pending
<1>4. CASE k = "create_escrow"
  <2>1. /\ c \notin Pending' /\ Pending' = Pending \ {c} /\ Pending' \subseteq Tasks
        /\ \A d \in Tasks : d # c => task'[d] = task[d]
    <3>1. v.kind # "debit"
      BY <1>2, <1>4
    <3> QED
      BY <1>1, <1>2, <3>1, PendingMoves
  <2>2. Pending' = Pending /\ \A d \in Pending' : task'[d] = task[d]
    BY <1>3, <2>1
  <2> QED
    BY <1>1, <2>2, SpendFrame
<1>5. CASE k = "debit"
  <2>1. /\ Pending' = Pending \cup {c} /\ \A d \in Pending : task'[d] = task[d]
        /\ task'[c] = v
    <3>1. v.kind = "debit"
      BY <1>2, <1>5
    <3>2. /\ c \in Pending' /\ Pending' = Pending \cup {c} /\ Pending \subseteq Tasks
          /\ \A d \in Tasks : d # c => task'[d] = task[d]
          /\ task'[c] = v
      BY <1>1, <1>2, <3>1, PendingMoves
    <3> QED
      BY <1>3, <3>2
  <2>2. /\ a <= MaxPerTx
        /\ SpentIn(mem.hourly_spend, Hour) + a <= MaxPerHour
        /\ SpentIn(mem.daily_spend, Day) + a <= MaxPerDay
    BY <1>1 DEF WithinLimits
  <2>3. /\ Fits(Pending \cup {c}, task')
        /\ Room(Pending \cup {c}, task', SpentIn(mem.hourly_spend, Hour), MaxPerHour)
        /\ Room(Pending \cup {c}, task', SpentIn(mem.daily_spend, Day), MaxPerDay)
    <3>1. c \in Tasks \ Pending /\ task'[c].amount = a
      BY <1>2, <1>3, <2>1
    <3>2. /\ SpentIn(mem.hourly_spend, Hour) \in Nat /\ SpentIn(mem.daily_spend, Day) \in Nat
          /\ MaxPerHour \in Nat /\ MaxPerDay \in Nat
      BY SpentTypes, TrackerTypes DEF SpendInv
    <3> QED
      BY <1>2, <2>1, <2>2, <3>1, <3>2, PendingFits, RoomTaken
  <2>4. Hour' = Hour /\ Day' = Day
    BY <1>1 DEF Hour, Day
  <2>5. \A d \in Pending' : task'[d].amount <= MaxPerTx
    BY <2>1, <2>3 DEF Fits
  <2> QED
    BY <1>1, <2>1, <2>3, <2>4, <2>5 DEF SpendInv, Dated, SpentIn
<1> QED
  BY <1>4, <1>5

LEMMA DebitSpend ==
    ASSUME Inv, SpendInv, NEW c \in Tasks, Debit(c)
    PROVE  SpendInv'
<1> DEFINE a == task[c].amount
           th == mem.hourly_spend
           td == mem.daily_spend
<1>1. /\ c \in Pending /\ a \in Nat
      /\ mem'.hourly_spend = Spend(th, Hour, a) /\ mem'.daily_spend = Spend(td, Day, a)
      /\ disk' = disk /\ now' = now /\ task' = [task EXCEPT ![c] = Saving]
  <2>1. mem \in WalletStates
    BY DEF Inv, Sound
  <2>2. task[c] = Checked("debit", a)
    BY DEF Debit
  <2>3. c \in Pending
    BY <2>2 DEF Pending, Checked
  <2>4. a \in Nat
    BY TaskAmount DEF Inv
  <2> QED
    BY <2>1, <2>3, <2>4 DEF Debit, Changed, WalletStates
<1>2. /\ Pending' = Pending \ {c}
      /\ \A d \in Pending \ {c} : task'[d] = task[d]
  BY <1>1, TaskStateTypes, RestingKinds, PendingMoves DEF Pending
<1>3. Hour' = Hour /\ Day' = Day
  BY <1>1 DEF Hour, Day
<1> HIDE DEF a, th, td
<1>4. /\ th \in Trackers /\ td \in Trackers /\ th.key <= Hour /\ td.key <= Day
      /\ Hour \in Nat /\ Day \in Nat /\ MaxPerHour \in Nat /\ MaxPerDay \in Nat
  BY TrackerTypes DEF SpendInv, Dated, th, td
<1>5. /\ SpentIn(th, Hour) \in Nat /\ SpentIn(td, Day) \in Nat
      /\ SpentIn(Spend(th, Hour, a), Hour) = SpentIn(th, Hour) + a
      /\ SpentIn(Spend(td, Day, a), Day) = SpentIn(td, Day) + a
      /\ Spend(th, Hour, a).key = Hour /\ Spend(td, Day, a).key = Day
  BY <1>1, <1>4, SpentLaws
<1>6. /\ Room(Pending \ {c}, task', SpentIn(th, Hour) + a, MaxPerHour)
      /\ Room(Pending \ {c}, task', SpentIn(td, Day) + a, MaxPerDay)
      /\ Fits(Pending \ {c}, task')
  <2>1. /\ Room(Pending, task, SpentIn(th, Hour), MaxPerHour)
        /\ Room(Pending, task, SpentIn(td, Day), MaxPerDay)
    BY DEF SpendInv, th, td
  <2>2. /\ SpentIn(th, Hour) + a \in Nat /\ SpentIn(th, Hour) + a <= SpentIn(th, Hour) + task[c].amount
        /\ SpentIn(td, Day) + a \in Nat /\ SpentIn(td, Day) + a <= SpentIn(td, Day) + task[c].amount
    BY <1>1, <1>5 DEF a
  <2> QED
    BY <1>1, <1>2, <1>4, <1>5, <2>1, <2>2, PendingFits, RoomLeft
<1>7. \A d \in Pending' : task'[d].amount <= MaxPerTx
  BY <1>2, <1>6 DEF Fits
<1>8. Dated(mem)' /\ Dated(disk)'
  BY <1>1, <1>3, <1>4, <1>5 DEF SpendInv, Dated
<1>9. /\ SpentIn(mem.hourly_spend, Hour)' = SpentIn(th, Hour) + a
      /\ SpentIn(mem.daily_spend, Day)' = SpentIn(td, Day) + a
  BY <1>1, <1>3, <1>5 DEF SpentIn
<1>10. /\ SpentIn(disk.hourly_spend, Hour)' <= MaxPerHour + Slack(1)
       /\ SpentIn(disk.daily_spend, Day)' <= MaxPerDay + Slack(1)
  BY <1>1, <1>3 DEF SpendInv, SpentIn
<1> QED
  BY <1>2, <1>6, <1>7, <1>8, <1>9, <1>10 DEF SpendInv

\* An hour that begins finds nothing spent in it, and nothing pending less.
LEMMA TickSpend ==
    ASSUME Inv, SpendInv, Tick
    PROVE  SpendInv'
<1>1. /\ mem' = mem /\ disk' = disk /\ task' = task /\ now' = now + 1 /\ now \in Nat
      /\ HourLen \in Nat \ {0} /\ DayLen \in Nat \ {0}
  BY DEF Tick, Inv, TypeOK
<1>2. Hour \in Nat /\ Day \in Nat /\ Hour <= Hour' /\ Day <= Day' /\ Hour' \in Nat /\ Day' \in Nat
  <2>1. Hour' = (now + 1) \div HourLen /\ Day' = (now + 1) \div DayLen
    BY <1>1 DEF Hour, Day
  <2>2. now + 1 \in Nat
    BY <1>1
  <2> QED
    BY <1>1, <2>1, <2>2, TimeForward DEF Hour, Day
<1>3. Pending' = Pending
  BY <1>1 DEF Pending
<1>4. ASSUME NEW tr \in Trackers, NEW k \in Nat, NEW j \in Nat, tr.key <= k, k <= j
      PROVE  /\ SpentIn(tr, k) \in Nat /\ SpentIn(tr, j) \in Nat
             /\ SpentIn(tr, j) <= SpentIn(tr, k) /\ tr.key <= j
  BY <1>4, SpentLaws
<1>5. /\ mem.hourly_spend.key <= Hour /\ mem.daily_spend.key <= Day
      /\ disk.hourly_spend.key <= Hour /\ disk.daily_spend.key <= Day
      /\ mem.hourly_spend \in Trackers /\ mem.daily_spend \in Trackers
      /\ disk.hourly_spend \in Trackers /\ disk.daily_spend \in Trackers
      /\ MaxPerHour \in Nat /\ MaxPerDay \in Nat
  BY TrackerTypes DEF SpendInv, Dated
<1>6. /\ Room(Pending, task, SpentIn(mem.hourly_spend, Hour'), MaxPerHour)
      /\ Room(Pending, task, SpentIn(mem.daily_spend, Day'), MaxPerDay)
  <2>1. /\ Room(Pending, task, SpentIn(mem.hourly_spend, Hour), MaxPerHour)
        /\ Room(Pending, task, SpentIn(mem.daily_spend, Day), MaxPerDay)
        /\ \A d \in Pending : task[d] = task[d]
    BY DEF SpendInv
  <2>2. /\ SpentIn(mem.hourly_spend, Hour) \in Nat /\ SpentIn(mem.hourly_spend, Hour') \in Nat
        /\ SpentIn(mem.hourly_spend, Hour') <= SpentIn(mem.hourly_spend, Hour)
        /\ SpentIn(mem.daily_spend, Day) \in Nat /\ SpentIn(mem.daily_spend, Day') \in Nat
        /\ SpentIn(mem.daily_spend, Day') <= SpentIn(mem.daily_spend, Day)
    BY <1>2, <1>4, <1>5
  <2> QED
    BY <1>5, <2>1, <2>2, PendingFits, RoomKept
<1>7. /\ SpentIn(disk.hourly_spend, Hour') <= MaxPerHour + Slack(1)
      /\ SpentIn(disk.daily_spend, Day') <= MaxPerDay + Slack(1)
  <2>1. /\ SpentIn(disk.hourly_spend, Hour) \in Nat /\ SpentIn(disk.hourly_spend, Hour') \in Nat
        /\ SpentIn(disk.hourly_spend, Hour') <= SpentIn(disk.hourly_spend, Hour)
        /\ SpentIn(disk.daily_spend, Day) \in Nat /\ SpentIn(disk.daily_spend, Day') \in Nat
        /\ SpentIn(disk.daily_spend, Day') <= SpentIn(disk.daily_spend, Day)
    BY <1>2, <1>4, <1>5
  <2>2. /\ SpentIn(disk.hourly_spend, Hour) <= MaxPerHour + Slack(1)
        /\ SpentIn(disk.daily_spend, Day) <= MaxPerDay + Slack(1)
        /\ Slack(1) \in Int
    BY SlackLaws DEF SpendInv
  <2> QED
    BY <1>5, <2>1, <2>2
<1>8. Dated(mem)' /\ Dated(disk)'
  <2>1. /\ mem.hourly_spend.key <= Hour' /\ mem.daily_spend.key <= Day'
        /\ disk.hourly_spend.key <= Hour' /\ disk.daily_spend.key <= Day'
    BY <1>2, <1>4, <1>5
  <2> QED
    BY <1>1, <2>1 DEF Dated
<1> QED
  BY <1>1, <1>3, <1>6, <1>7, <1>8 DEF SpendInv, SpentIn

\* A node that stops loses what is pending and goes back to what was saved.
LEMMA StoppedSpend ==
    ASSUME Inv, SpendInv, Stopped
    PROVE  SpendInv'
<1>1. mem' = disk /\ disk' = disk /\ now' = now /\ Pending' = {}
  BY RestingKinds DEF Stopped, Pending
<1>2. Hour' = Hour /\ Day' = Day
  BY <1>1 DEF Hour, Day
<1>3. /\ Room(Pending', task', SpentIn(disk.hourly_spend, Hour), MaxPerHour)
      /\ Room(Pending', task', SpentIn(disk.daily_spend, Day), MaxPerDay)
  BY <1>1 DEF Room, SpendInv
<1> QED
  BY <1>1, <1>2, <1>3 DEF SpendInv, Dated, SpentIn

LEMMA SpendInit == Init => SpendInv
<1> SUFFICES ASSUME Init PROVE SpendInv
  OBVIOUS
<1>1. Hour \in Nat /\ Day \in Nat
  BY HoursType DEF Init
<1>2. Pending = {}
  BY RestingKinds DEF Init, Pending
<1>3. /\ mem = DefaultState /\ disk = DefaultState
      /\ \A k \in Nat : SpentIn(DefaultState.hourly_spend, k) = 0
      /\ \A k \in Nat : SpentIn(DefaultState.daily_spend, k) = 0
      /\ DefaultState.hourly_spend.key = 0 /\ DefaultState.daily_spend.key = 0
  BY DEF Init, DefaultState, SpentIn
<1>4. 0 <= MaxPerHour + Slack(1) /\ 0 <= MaxPerDay + Slack(1)
  <2>1. 0 <= Slack(1) /\ Slack(1) \in Int
    BY SlackLaws
  <2> QED
    BY <2>1
<1> QED
  BY <1>1, <1>2, <1>3, <1>4 DEF SpendInv, Dated, Room

LEMMA SpendStep == Inv /\ SpendInv /\ [Next]_vars => SpendInv'
<1> SUFFICES ASSUME Inv, SpendInv, [Next]_vars PROVE SpendInv'
  OBVIOUS
<1>1. ASSUME NEW c \in Tasks, TaskStep(c) PROVE SpendInv'
  <2>1. ASSUME NEW a \in Amounts, NEW k \in {"debit", "create_escrow"}, CheckSpendingLimits(c, k, a)
        PROVE  SpendInv'
    BY <2>1, CheckSpend
  <2>2. ASSUME NEW a, Credit(c, a) \/ Stake(c, a) \/ Unstake(c, a) PROVE SpendInv'
    BY <2>2, TrackersKept, RestingStep
  <2>3. CASE Debit(c)
    BY <2>3, DebitSpend
  <2>4. CASE InsufficientBalance(c) \/ SaveState(c) \/ SaveStateFails(c)
    BY <2>4, RestingStep DEF InsufficientBalance, SaveState, SaveStateFails
  <2>5. ASSUME NEW e, NEW t, CreateEscrow(c, e, t) \/ ReleaseEscrow(c, e) \/ RefundEscrow(c, e)
        PROVE  SpendInv'
    BY <2>5, TrackersKept, RestingStep
  <2> QED
    BY <1>1, <2>1, <2>2, <2>3, <2>4, <2>5 DEF TaskStep
<1>2. ASSUME mem'.hourly_spend = mem.hourly_spend, mem'.daily_spend = mem.daily_spend,
             disk' = disk \/ disk' = mem, now' = now, task' = task
      PROVE  SpendInv'
  <2>1. Pending' = Pending /\ \A d \in Pending' : task'[d] = task[d]
    BY <1>2 DEF Pending
  <2> QED
    BY <1>2, <2>1, SpendFrame
<1>3. CASE SweepExpiredEscrows \/ Start
  <2>1. mem \in WalletStates
    BY DEF Inv, Sound
  <2>2. mem'.hourly_spend = mem.hourly_spend /\ mem'.daily_spend = mem.daily_spend
    BY <1>3, <2>1 DEF SweepExpiredEscrows, Start, Credited, WalletStates
  <2> QED
    BY <1>2, <1>3, <2>2 DEF SweepExpiredEscrows, Start
<1>4. CASE SweepSave \/ SweepSaveFails \/ GrantSaved \/ LoadWallet
  BY <1>2, <1>4 DEF SweepSave, SweepSaveFails, GrantSaved, LoadWallet
<1>5. CASE CommandExits \/ Crash
  BY <1>5, StoppedSpend DEF CommandExits, Crash
<1>6. CASE Tick
  BY <1>6, TickSpend
<1>7. CASE UNCHANGED vars
  BY <1>2, <1>7 DEF vars
<1> QED
  BY <1>1, <1>3, <1>4, <1>5, <1>6, <1>7 DEF Next

\* The limits are checked under one lock and applied under another: however
\* many tasks pass the check together, across hours and restarts, debits go
\* over the hourly and the daily limit by at most one transaction of every task
\* but one.
THEOREM OvershootLimited == Spec => []OvershootBounded
<1>1. Inv /\ SpendInv => OvershootBounded
  BY SpentEnough DEF OvershootBounded, Slack
<1> QED
  BY <1>1, InvAlways, SpendInit, SpendStep, PTL DEF Spec

-------------------------------------------------------------------------------
(* The wallet implements the ledger                                        *)

LEMMA StatusMapped ==
    /\ \A st \in Statuses : (LedgerStatus[st] = "Active") <=> (st = "Active")
    /\ LedgerStatus["Absent"] = "Absent" /\ LedgerStatus["Active"] = "Active"
    /\ LedgerStatus["Released"] = "Paid"
    /\ LedgerStatus["Refunded"] = "Returned" /\ LedgerStatus["Expired"] = "Returned"
BY DEF Statuses, LedgerStatus

\* The escrows of a state, as the ledger has them.
Listed(s) ==
    [e \in EscrowIds |-> [amount |-> s.escrows[e].amount,
                          status |-> LedgerStatus[s.escrows[e].status]]]

LEMMA LedgerFields ==
    ASSUME NEW s
    PROVE  /\ LedgerOf(s) = [owned |-> s.available + s.staked, escrows |-> Listed(s)]
           /\ LedgerOf(s).owned = s.available + s.staked
           /\ LedgerOf(s).escrows = Listed(s)
BY DEF LedgerOf, Listed

LEMMA SameIds == L!Ids = EscrowIds
BY DEF L!Ids, EscrowIds

LEMMA LedgerWorth ==
    ASSUME NEW s \in WalletStates
    PROVE  L!Worth(LedgerOf(s)) = s.available + s.staked + Total(LockedIn(s), MaxEscrows)
<1> DEFINE f == [e \in L!Ids |-> IF L!Status(LedgerOf(s), e) = "Active"
                                 THEN LedgerOf(s).escrows[e].amount ELSE 0]
<1>1. f = LockedIn(s)
  <2>1. ASSUME NEW e \in EscrowIds PROVE f[e] = LockedIn(s)[e]
    <3>1. s.escrows[e].status \in Statuses
      BY FieldTypes DEF Escrows
    <3>2. LedgerOf(s).escrows[e] = [amount |-> s.escrows[e].amount,
                                    status |-> LedgerStatus[s.escrows[e].status]]
      <4>1. LedgerOf(s).escrows = Listed(s)
        BY LedgerFields
      <4>2. Listed(s)[e] = [amount |-> s.escrows[e].amount,
                            status |-> LedgerStatus[s.escrows[e].status]]
        BY DEF Listed
      <4> QED
        BY <4>1, <4>2
    <3>3. L!Status(LedgerOf(s), e) = LedgerStatus[s.escrows[e].status]
      BY <3>2 DEF L!Status
    <3>4. f[e] = IF s.escrows[e].status = "Active" THEN s.escrows[e].amount ELSE 0
      BY <3>1, <3>2, <3>3, SameIds, StatusMapped
    <3> QED
      BY <3>4 DEF LockedIn, Active
  <2>2. f = [e \in EscrowIds |-> f[e]] /\ LockedIn(s) = [e \in EscrowIds |-> LockedIn(s)[e]]
    BY SameIds DEF LockedIn
  <2> HIDE DEF f
  <2> QED
    BY <2>1, <2>2
<1>2. L!Total(f, MaxEscrows) = Total(f, MaxEscrows)
  BY DEF L!Total, Total
<1> QED
  BY <1>1, <1>2, LedgerFields DEF L!Worth

\* An operation that touches no escrow moves owned funds at most.
LEMMA OwnedMaps ==
    ASSUME NEW s, NEW t, t.escrows = s.escrows
    PROVE  LedgerOf(t) = L!Book(LedgerOf(t).owned, LedgerOf(s).escrows)
<1>1. Listed(t) = Listed(s)
  BY DEF Listed
<1> QED
  BY <1>1, LedgerFields DEF L!Book

LEMMA StutterMaps ==
    ASSUME NEW s, NEW t, t.escrows = s.escrows,
           t.available + t.staked = s.available + s.staked
    PROVE  LedgerOf(t) = LedgerOf(s)
BY DEF LedgerOf

\* The ledger's view of one escrow.
LEMMA EscrowMaps ==
    ASSUME NEW s \in WalletStates, NEW e \in EscrowIds
    PROVE  /\ LedgerOf(s).escrows[e].amount = s.escrows[e].amount
           /\ L!Status(LedgerOf(s), e) = LedgerStatus[s.escrows[e].status]
           /\ LedgerOf(s).escrows[e] = [amount |-> s.escrows[e].amount,
                                        status |-> LedgerStatus[s.escrows[e].status]]
<1>1. LedgerOf(s).escrows = Listed(s)
  BY LedgerFields
<1>2. LedgerOf(s).escrows[e] = [amount |-> s.escrows[e].amount,
                                status |-> LedgerStatus[s.escrows[e].status]]
  BY <1>1 DEF Listed
<1> QED
  BY <1>2 DEF L!Status

\* An operation on one escrow changes the ledger there, and in owned funds.
LEMMA UpdateMaps ==
    ASSUME NEW s \in WalletStates, NEW t \in WalletStates, NEW e \in EscrowIds,
           \A i \in EscrowIds : i # e => t.escrows[i] = s.escrows[i]
    PROVE  LedgerOf(t) = L!Book(LedgerOf(t).owned,
                                [LedgerOf(s).escrows EXCEPT ![e] = LedgerOf(t).escrows[e]])
<1>1. Listed(t) = [Listed(s) EXCEPT ![e] = Listed(t)[e]]
  BY DEF Listed
<1> QED
  BY <1>1, LedgerFields DEF L!Book

LEMMA WorthMaps ==
    ASSUME NEW s, Sound(s)
    PROVE  L!Worth(LedgerOf(s)) = s.available + s.staked + s.in_escrow
BY LedgerWorth DEF Sound, Backed

\* What the operations do to the ledger.
LEMMA Bridge ==
    /\ LedgerOf(mem)' = LedgerOf(mem')
    /\ LedgerOf(disk)' = LedgerOf(disk')
BY DEF LedgerOf

\* Amounts above the reserve.
LEMMA AboveReserve ==
    ASSUME NEW a \in Nat, NEW v \in Nat, NEW z \in Nat, 0 < a,
           a <= SaturatingSub(v, Reserve)
    PROVE  Reserve <= (v - a) + z
BY DEF SaturatingSub

LEMMA StutterStep ==
    ASSUME mem'.escrows = mem.escrows, disk' = disk,
           mem'.available + mem'.staked = mem.available + mem.staked
    PROVE  (UNCHANGED L!vars)
BY StutterMaps, Bridge DEF L!vars

LEMMA PersistStep ==
    ASSUME disk' = mem, mem' = mem
    PROVE  L!Persist
BY Bridge DEF L!Persist

LEMMA CrashStep ==
    ASSUME disk' = disk, mem' = disk
    PROVE  L!Crash
BY Bridge DEF L!Crash

LEMMA DepositStep ==
    ASSUME Inv, Inv', NEW a \in Nat, 0 < a, disk' = disk, mem'.escrows = mem.escrows,
           mem'.available = mem.available + a, mem'.staked = mem.staked
    PROVE  L!Deposit
<1>1. mem \in WalletStates /\ mem' \in WalletStates
  BY DEF Inv, Sound
<1>2. LedgerOf(mem').owned > LedgerOf(mem).owned
  BY <1>1, LedgerFields, FieldTypes
<1> QED
  BY <1>2, Bridge, OwnedMaps DEF L!Deposit

LEMMA DebitStep ==
    ASSUME Inv, Inv', NEW c \in Tasks, Debit(c)
    PROVE  L!Next \/ UNCHANGED L!vars
<1> DEFINE a == task[c].amount
<1>1. mem \in WalletStates /\ mem' \in WalletStates /\ a \in Nat
  BY TaskAmount DEF Inv, Sound
<1>2. /\ mem'.escrows = mem.escrows /\ disk' = disk
      /\ mem'.available = mem.available - a /\ mem'.staked = mem.staked
      /\ a <= EffectiveAvailable
  BY <1>1 DEF Debit, Changed, WalletStates
<1>3. CASE a = 0
  BY <1>1, <1>2, <1>3, StutterStep, FieldTypes
<1>4. CASE 0 < a
  <2>1. Reserve <= LedgerOf(mem').owned /\ LedgerOf(mem').owned < LedgerOf(mem).owned
    <3>1. Reserve <= (mem.available - a) + mem.staked
      BY <1>1, <1>2, <1>4, FieldTypes, AboveReserve DEF EffectiveAvailable
    <3> QED
      BY <1>1, <1>2, <1>4, <3>1, FieldTypes, LedgerFields
  <2>2. L!Spend
    BY <1>2, <2>1, Bridge, OwnedMaps DEF L!Spend
  <2> QED
    BY <2>2 DEF L!Next
<1> QED
  BY <1>1, <1>3, <1>4

LEMMA LockStep ==
    ASSUME Inv, Inv', NEW c \in Tasks, NEW e \in EscrowIds, NEW t \in Timeouts,
           CreateEscrow(c, e, t)
    PROVE  L!Lock(e)
<1> DEFINE a == task[c].amount
<1>1. mem \in WalletStates /\ mem' \in WalletStates /\ a \in Nat
  BY TaskAmount DEF Inv, Sound
<1>2. /\ mem'.escrows = [mem.escrows EXCEPT ![e] = NewEscrow(a, t)]
      /\ disk' = disk /\ mem'.available = mem.available - a
      /\ mem'.staked = mem.staked /\ mem'.in_escrow = mem.in_escrow + a
      /\ a <= EffectiveAvailable /\ mem.escrows[e].status = "Absent"
  BY <1>1 DEF CreateEscrow, Changed, WalletStates
<1>3. mem'.escrows[e].status = "Active" /\ \A i \in EscrowIds : i # e => mem'.escrows[i] = mem.escrows[i]
  BY <1>1, <1>2, FieldTypes DEF NewEscrow
<1>4. L!Status(LedgerOf(mem), e) = "Absent" /\ L!Status(LedgerOf(mem'), e) = "Active"
  <2>1. L!Status(LedgerOf(mem), e) = LedgerStatus[mem.escrows[e].status]
    BY <1>1, EscrowMaps
  <2>2. L!Status(LedgerOf(mem'), e) = LedgerStatus["Active"]
    BY <1>1, <1>3, EscrowMaps
  <2> QED
    BY <1>2, <2>1, <2>2, StatusMapped
<1>5. Reserve <= LedgerOf(mem').owned \/ LedgerOf(mem').owned = LedgerOf(mem).owned
  <2>1. CASE a = 0
    BY <1>1, <1>2, <2>1, FieldTypes, LedgerFields
  <2>2. CASE 0 < a
    <3>1. Reserve <= (mem.available - a) + mem.staked
      BY <1>1, <1>2, <2>2, FieldTypes, AboveReserve DEF EffectiveAvailable
    <3> QED
      BY <1>1, <1>2, <3>1, FieldTypes, LedgerFields
  <2> QED
    BY <1>1, <2>1, <2>2
<1>6. LedgerOf(mem') = L!Book(LedgerOf(mem').owned,
                              [LedgerOf(mem).escrows EXCEPT ![e] = LedgerOf(mem').escrows[e]])
  BY <1>1, <1>3, UpdateMaps
<1>7. L!Worth(LedgerOf(mem')) = L!Worth(LedgerOf(mem))
  BY <1>1, <1>2, WorthMaps, FieldTypes DEF Inv
<1> QED
  BY <1>2, <1>4, <1>5, <1>6, <1>7, Bridge DEF L!Lock

LEMMA PayStep ==
    ASSUME Inv, Inv', NEW c \in Tasks, NEW e \in EscrowIds, ReleaseEscrow(c, e)
    PROVE  L!Pay(e)
<1>1. mem \in WalletStates /\ mem' \in WalletStates
  BY DEF Inv, Sound
<1>2. /\ mem'.escrows = WithStatus(mem, e, "Released")
      /\ disk' = disk /\ mem'.available = mem.available /\ mem'.staked = mem.staked
      /\ mem.escrows[e].status = "Active"
  BY <1>1 DEF ReleaseEscrow, Changed, WalletStates, Active
<1>3. /\ mem'.escrows[e].status = "Released"
      /\ mem'.escrows[e].amount = mem.escrows[e].amount
      /\ \A i \in EscrowIds : i # e => mem'.escrows[i] = mem.escrows[i]
  <2>1. mem.escrows[e] \in Escrows
    BY <1>1, FieldTypes
  <2>2. mem'.escrows[e] = [mem.escrows[e] EXCEPT !.status = "Released"]
    BY <1>1, <1>2, FieldTypes DEF WithStatus
  <2> QED
    BY <1>1, <1>2, <2>1, <2>2, FieldTypes DEF WithStatus, Escrows
<1>4. L!Status(LedgerOf(mem), e) = "Active"
  <2>1. L!Status(LedgerOf(mem), e) = LedgerStatus["Active"]
    BY <1>1, <1>2, EscrowMaps
  <2> QED
    BY <2>1, StatusMapped
<1>5. LedgerOf(mem').escrows[e] = L!Settled(e, "Paid")
  <2>1. LedgerOf(mem').escrows[e] = [amount |-> mem.escrows[e].amount,
                                     status |-> LedgerStatus["Released"]]
    BY <1>1, <1>3, EscrowMaps
  <2>2. LedgerOf(mem).escrows[e].amount = mem.escrows[e].amount
    BY <1>1, EscrowMaps
  <2> QED
    BY <2>1, <2>2, StatusMapped DEF L!Settled
<1>6. LedgerOf(mem') = L!Book(LedgerOf(mem').owned,
                              [LedgerOf(mem).escrows EXCEPT ![e] = LedgerOf(mem').escrows[e]])
  BY <1>1, <1>3, UpdateMaps
<1>7. LedgerOf(mem').owned = LedgerOf(mem).owned
  BY <1>2, LedgerFields
<1> QED
  BY <1>2, <1>4, <1>5, <1>6, <1>7, Bridge DEF L!Pay

\* Whatever returns escrows with all their funds, one or many, is a Return.
LEMMA ReturnStep ==
    ASSUME Inv, Inv', disk' = disk, mem'.staked = mem.staked,
           mem'.available + mem'.in_escrow = mem.available + mem.in_escrow,
           NEW st \in {"Refunded", "Expired"},
           \A i \in EscrowIds : \/ mem'.escrows[i] = mem.escrows[i]
                                \/ /\ mem.escrows[i].status = "Active"
                                   /\ mem'.escrows[i] = [mem.escrows[i] EXCEPT !.status = st]
    PROVE  L!Return
<1>1. mem \in WalletStates /\ mem' \in WalletStates
  BY DEF Inv, Sound
<1>2. ASSUME NEW e \in EscrowIds
      PROVE  \/ LedgerOf(mem').escrows[e] = LedgerOf(mem).escrows[e]
             \/ /\ L!Status(LedgerOf(mem), e) = "Active"
                /\ LedgerOf(mem').escrows[e] = L!Settled(e, "Returned")
  <2>1. CASE mem'.escrows[e] = mem.escrows[e]
    <3>1. LedgerOf(mem).escrows[e] = [amount |-> mem.escrows[e].amount,
                                      status |-> LedgerStatus[mem.escrows[e].status]]
      BY <1>1, EscrowMaps
    <3>2. LedgerOf(mem').escrows[e] = [amount |-> mem'.escrows[e].amount,
                                       status |-> LedgerStatus[mem'.escrows[e].status]]
      BY <1>1, EscrowMaps
    <3> QED
      BY <2>1, <3>1, <3>2
  <2>2. CASE /\ mem.escrows[e].status = "Active"
             /\ mem'.escrows[e] = [mem.escrows[e] EXCEPT !.status = st]
    <3>1. mem.escrows[e] \in Escrows
      BY <1>1, FieldTypes
    <3>2. mem'.escrows[e].status = st /\ mem'.escrows[e].amount = mem.escrows[e].amount
      BY <2>2, <3>1 DEF Escrows
    <3>3. L!Status(LedgerOf(mem), e) = LedgerStatus[mem.escrows[e].status]
      BY <1>1, EscrowMaps
    <3>4. LedgerOf(mem').escrows[e] = [amount |-> mem.escrows[e].amount,
                                       status |-> LedgerStatus[st]]
      BY <1>1, <3>2, EscrowMaps
    <3>5. LedgerOf(mem).escrows[e].amount = mem.escrows[e].amount
      BY <1>1, EscrowMaps
    <3>6. LedgerStatus[st] = "Returned"
      BY StatusMapped
    <3> QED
      BY <2>2, <3>3, <3>4, <3>5, <3>6, StatusMapped DEF L!Settled
  <2> QED
    BY <2>1, <2>2
<1>3. LedgerOf(mem') = L!Book(LedgerOf(mem').owned, LedgerOf(mem').escrows)
  BY LedgerFields DEF L!Book
<1>4. L!Worth(LedgerOf(mem')) = L!Worth(LedgerOf(mem))
  BY <1>1, WorthMaps, FieldTypes DEF Inv
<1> QED
  BY <1>2, <1>3, <1>4, SameIds, Bridge DEF L!Return

LEMMA InitMaps ==
    ASSUME Init
    PROVE  L!Init
<1>1. Listed(DefaultState) = [e \in L!Ids |-> [amount |-> 0, status |-> "Absent"]]
  BY SameIds, StatusMapped DEF Listed, DefaultState
<1>2. LedgerOf(DefaultState).owned = 0
  BY LedgerFields DEF DefaultState
<1>3. LedgerOf(DefaultState) = [owned |-> 0, escrows |-> Listed(DefaultState)]
  BY <1>2, LedgerFields
<1> QED
  BY <1>1, <1>3 DEF Init, L!Init

LEMMA RefundStep ==
    ASSUME Inv, Inv', NEW c \in Tasks, NEW e \in EscrowIds, RefundEscrow(c, e)
    PROVE  L!Return
<1>1. mem \in WalletStates /\ Active(mem, e)
  BY DEF Inv, Sound, RefundEscrow
<1>2. mem.escrows[e].amount \in Nat /\ mem.in_escrow \in Nat
  BY <1>1, FieldTypes DEF Escrows
<1>3. /\ mem'.escrows = WithStatus(mem, e, "Refunded")
      /\ disk' = disk /\ mem'.staked = mem.staked
      /\ mem'.available = mem.available + mem.escrows[e].amount
      /\ mem'.in_escrow = mem.in_escrow - mem.escrows[e].amount
  BY <1>1 DEF RefundEscrow, Changed, WalletStates
<1>4. mem'.available + mem'.in_escrow = mem.available + mem.in_escrow
  BY <1>1, <1>2, <1>3, FieldTypes
<1>5. ASSUME NEW i \in EscrowIds
      PROVE  \/ mem'.escrows[i] = mem.escrows[i]
             \/ /\ mem.escrows[i].status = "Active"
                /\ mem'.escrows[i] = [mem.escrows[i] EXCEPT !.status = "Refunded"]
  BY <1>1, <1>3, FieldTypes DEF WithStatus, Active
<1> QED
  BY <1>3, <1>4, <1>5, ReturnStep

LEMMA SweepStep ==
    ASSUME Inv, Inv', SweepExpiredEscrows
    PROVE  L!Return
<1>1. mem \in WalletStates
  BY DEF Inv, Sound
<1>2. /\ mem'.escrows = [i \in EscrowIds |-> IF i \in ExpiredIds
                                             THEN [mem.escrows[i] EXCEPT !.status = "Expired"]
                                             ELSE mem.escrows[i]]
      /\ disk' = disk /\ mem'.staked = mem.staked
  BY <1>1 DEF SweepExpiredEscrows, WalletStates
<1>3. mem'.available + mem'.in_escrow = mem.available + mem.in_escrow
  BY SweepSound
<1>4. ASSUME NEW i \in EscrowIds
      PROVE  \/ mem'.escrows[i] = mem.escrows[i]
             \/ /\ mem.escrows[i].status = "Active"
                /\ mem'.escrows[i] = [mem.escrows[i] EXCEPT !.status = "Expired"]
  BY <1>2 DEF ExpiredIds, Active
<1> QED
  BY <1>2, <1>3, <1>4, ReturnStep

LEMMA TaskStepMaps ==
    ASSUME Inv, Inv', NEW c \in Tasks, TaskStep(c)
    PROVE  L!Next \/ UNCHANGED L!vars
<1>1. mem \in WalletStates /\ mem' \in WalletStates
  BY DEF Inv, Sound
<1>2. ASSUME NEW a \in Amounts, NEW k, CheckSpendingLimits(c, k, a)
      PROVE  UNCHANGED L!vars
  BY <1>2, StutterStep DEF CheckSpendingLimits
<1>3. ASSUME NEW a \in Amounts, Credit(c, a) PROVE L!Deposit
  <2>1. /\ a \in Nat /\ 0 < a /\ disk' = disk /\ mem'.escrows = mem.escrows
        /\ mem'.available = mem.available + a /\ mem'.staked = mem.staked
    BY <1>1, <1>3 DEF Credit, Credited, Changed, WalletStates
  <2> QED
    BY <2>1, DepositStep
<1>4. ASSUME NEW a \in Amounts, Stake(c, a) \/ Unstake(c, a) PROVE UNCHANGED L!vars
  <2>1. mem'.escrows = mem.escrows /\ disk' = disk /\ a \in Nat
    BY <1>1, <1>4 DEF Stake, Unstake, Changed, WalletStates
  <2>2. mem'.available + mem'.staked = mem.available + mem.staked
    <3>1. CASE Stake(c, a)
      <4>1. mem'.available = mem.available - a /\ mem'.staked = mem.staked + a
        BY <1>1, <3>1 DEF Stake, Changed, WalletStates
      <4> QED
        BY <1>1, <2>1, <4>1, FieldTypes
    <3>2. CASE Unstake(c, a)
      <4>1. mem'.available = mem.available + a /\ mem'.staked = mem.staked - a
        BY <1>1, <3>2 DEF Unstake, Changed, WalletStates
      <4> QED
        BY <1>1, <2>1, <4>1, FieldTypes
    <3> QED
      BY <1>4, <3>1, <3>2
  <2> QED
    BY <2>1, <2>2, StutterStep
<1>5. CASE InsufficientBalance(c) \/ SaveStateFails(c)
  BY <1>5, StutterStep DEF InsufficientBalance, SaveStateFails
<1>6. CASE SaveState(c)
  BY <1>6, PersistStep DEF SaveState, L!Next
<1>7. CASE Debit(c)
  BY <1>7, DebitStep
<1>8. ASSUME NEW e \in EscrowIds, NEW t \in Timeouts, CreateEscrow(c, e, t) PROVE L!Next
  BY <1>8, LockStep, SameIds DEF L!Next
<1>9. ASSUME NEW e \in EscrowIds, ReleaseEscrow(c, e) \/ RefundEscrow(c, e) PROVE L!Next
  BY <1>9, PayStep, RefundStep, SameIds DEF L!Next
<1> QED
  BY <1>2, <1>3, <1>4, <1>5, <1>6, <1>7, <1>8, <1>9 DEF TaskStep, L!Next

LEMMA StartMaps ==
    ASSUME Inv, Inv', Start
    PROVE  L!Next \/ UNCHANGED L!vars
<1>1. mem \in WalletStates
  BY DEF Inv, Sound
<1>2. CASE BalanceTotal(mem) = 0
  <2>1. /\ disk' = disk /\ mem'.escrows = mem.escrows /\ mem'.staked = mem.staked
        /\ mem'.available = mem.available + InitialGrant
    BY <1>1, <1>2 DEF Start, Credited, WalletStates
  <2>2. L!Deposit
    BY <2>1, DepositStep
  <2> QED
    BY <2>2 DEF L!Next
<1>3. CASE BalanceTotal(mem) # 0
  BY <1>3, StutterStep DEF Start
<1> QED
  BY <1>2, <1>3

\* The locking, saving and crashing wallet looks like the atomic ledger: every
\* step of it is a deposit, a payment, a lock, a return of escrows, a
\* checkpoint or a crash of the ledger, or changes nothing there.
THEOREM WalletIsLedger == Spec => ImplementsLedger
<1>1. Inv /\ Inv' /\ [Next]_vars => [L!Next]_(L!vars)
  <2> SUFFICES ASSUME Inv, Inv', [Next]_vars PROVE L!Next \/ UNCHANGED L!vars
    OBVIOUS
  <2>1. ASSUME NEW c \in Tasks, TaskStep(c) PROVE L!Next \/ UNCHANGED L!vars
    BY <2>1, TaskStepMaps
  <2>2. CASE SweepExpiredEscrows
    BY <2>2, SweepStep DEF L!Next
  <2>3. CASE SweepSave \/ GrantSaved
    BY <2>3, PersistStep DEF SweepSave, GrantSaved, L!Next
  <2>4. CASE SweepSaveFails \/ LoadWallet \/ Tick
    BY <2>4, StutterStep DEF SweepSaveFails, LoadWallet, Tick
  <2>5. CASE Start
    BY <2>5, StartMaps
  <2>6. CASE CommandExits \/ Crash
    BY <2>6, CrashStep DEF CommandExits, Crash, Stopped, L!Next
  <2>7. CASE UNCHANGED vars
    BY <2>7, StutterStep DEF vars
  <2> QED
    BY <2>1, <2>2, <2>3, <2>4, <2>5, <2>6, <2>7 DEF Next
<1> QED
  BY <1>1, InitMaps, InvAlways, PTL DEF Spec, ImplementsLedger, L!Spec

===============================================================================
