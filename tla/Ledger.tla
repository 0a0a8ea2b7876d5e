-------------------------------- MODULE Ledger --------------------------------
(***************************************************************************)
(* What the wallet (src/src/wallet/mod.rs) promises to the rest of the     *)
(* node, without its counters, locks, spending trackers or tasks: funds    *)
(* enter by deposits, leave by spending or by paying an escrow out, and    *)
(* are otherwise either owned or locked in exactly one escrow, which is    *)
(* settled once.  A crash takes the node back to a whole earlier ledger,   *)
(* never to a mixture of two.                                              *)
(***************************************************************************)
EXTENDS Integers

CONSTANTS
    MaxEscrows,     \* bound: how many escrows there can be
    Reserve         \* funds that spending may not touch

VARIABLES
    cur,            \* the ledger the running node works on
    dur             \* the ledger a restart begins with

vars == <<cur, dur>>

Ids == 1 .. MaxEscrows

\* The sum f[1] + ... + f[n], as the last value of the running totals.
Total(f, n) ==
    LET run[i \in 0 .. n] == IF i = 0 THEN 0 ELSE run[i - 1] + f[i]
    IN  run[n]

Status(l, e) == l.escrows[e].status

\* Locked and owned funds together.
Worth(l) ==
    l.owned + Total([e \in Ids |-> IF Status(l, e) = "Active"
                                   THEN l.escrows[e].amount ELSE 0], MaxEscrows)

Init ==
    /\ cur = [owned |-> 0,
              escrows |-> [e \in Ids |-> [amount |-> 0, status |-> "Absent"]]]
    /\ dur = cur

-------------------------------------------------------------------------------

Book(owned, escrows) == [owned |-> owned, escrows |-> escrows]

Settled(e, status) == [amount |-> cur.escrows[e].amount, status |-> status]

Deposit ==
    /\ cur'.owned > cur.owned
    /\ cur' = Book(cur'.owned, cur.escrows)
    /\ dur' = dur

\* Only what is above the reserve can be spent ...
Spend ==
    /\ Reserve <= cur'.owned /\ cur'.owned < cur.owned
    /\ cur' = Book(cur'.owned, cur.escrows)
    /\ dur' = dur

\* ... or locked, and what is locked is no longer owned.
Lock(e) ==
    /\ Status(cur, e) = "Absent" /\ Status(cur', e) = "Active"
    /\ Reserve <= cur'.owned \/ cur'.owned = cur.owned
    /\ cur' = Book(cur'.owned, [cur.escrows EXCEPT ![e] = cur'.escrows[e]])
    /\ Worth(cur') = Worth(cur)
    /\ dur' = dur

\* The locked funds leave the ledger.
Pay(e) ==
    /\ Status(cur, e) = "Active"
    /\ cur' = Book(cur.owned, [cur.escrows EXCEPT ![e] = Settled(e, "Paid")])
    /\ dur' = dur

\* Several escrows go back to the owner in one step, with all their funds.
Return ==
    /\ \A e \in Ids :
         \/ cur'.escrows[e] = cur.escrows[e]
         \/ Status(cur, e) = "Active" /\ cur'.escrows[e] = Settled(e, "Returned")
    /\ cur' = Book(cur'.owned, cur'.escrows)
    /\ Worth(cur') = Worth(cur)
    /\ dur' = dur

Persist == dur' = cur /\ cur' = cur

Crash == cur' = dur /\ dur' = dur

Next ==
    \/ Deposit \/ Spend \/ Return \/ Persist \/ Crash
    \/ \E e \in Ids : Lock(e) \/ Pay(e)

Spec == Init /\ [][Next]_vars
===============================================================================
