------------------------------ MODULE MeteredProxy ------------------------------
(***************************************************************************)
(* The HTTP 402 proxy (src/src/proxy): a request of a client is looked up  *)
(* in the rate limit, priced by the first rule that matches its path, paid *)
(* for or taken from the free tier, and then counted.  Every look and      *)
(* every count takes a lock of its own, so requests overlap, and an hour   *)
(* or a minute may end in between.  Upstream forwarding is a placeholder.  *)
(*                                                                         *)
(* A path is a sequence of segments.  There is one client, clients share   *)
(* nothing, and no hourly multiplier.  A list of rules is what the rules   *)
(* of the configuration are for the method of a request: those of any      *)
(* method and those of that one, in their order.                           *)
(***************************************************************************)
EXTENDS Naturals, Sequences, FiniteSets

CONSTANTS
    Requests, MaxRequests,      \* handlers, and a bound on the requests they take
    RuleSets, DefaultPrice,     \* sequences of pricing rules: [pattern, price]
    Paths, Amounts,
    FreeLimit, RateLimit,       \* in an hour, in a minute
    MaxMinutes, MinutesInHour,  \* a bound on time
    None

Sequence(s) == Len(s) \in Nat /\ DOMAIN s = 1 .. Len(s)
Taken == [free : BOOLEAN, stage : {"priced", "free", "paid"}, enough : BOOLEAN]
Entries == [period : Nat, count : Nat]

ProxyAssumption ==
    /\ IsFiniteSet(Requests) /\ Requests # {}
    /\ MaxRequests \in Nat /\ MaxMinutes \in Nat /\ MinutesInHour \in Nat \ {0}
    /\ FreeLimit \in Nat \ {0} /\ RateLimit \in Nat \ {0}
    /\ \A rs \in RuleSets : Sequence(rs) /\ \A i \in DOMAIN rs : Sequence(rs[i].pattern)
    /\ \A path \in Paths : Sequence(path)
    /\ None \notin Taken /\ None \notin Entries

\* A header that cannot be read is no proof; an empty part makes it invalid.
Proofs == {"none", "invalid", "valid"}

VARIABLES
    rules,              \* of the configuration
    request,            \* of each handler: without a proof, with one that is enough; its stage
    free, rate,         \* the entry of the client: [period, count], or None
    minute,
    served,             \* requests served free in each hour
    passed,             \* requests let through in each minute
    taken

vars == <<rules, request, free, rate, minute, served, passed, taken>>

Hour == minute \div MinutesInHour

Init ==
    /\ rules \in RuleSets /\ request = [r \in Requests |-> None] /\ free = None /\ rate = None /\ minute = 0
    /\ served = [h \in 0..(MaxMinutes \div MinutesInHour) |-> 0]
    /\ passed = [m \in 0..MaxMinutes |-> 0] /\ taken = 0

-------------------------------------------------------------------------------
(* Pricing                                                                 *)

\* pattern_matches: one pass over both, with a search after a "**".
Matches(pattern, path) ==
    LET pn == Len(pattern)
        an == Len(path)
        Search(i, j) ==
            LET hits == {k \in j..an : pattern[i] \in {"*", path[k]}}
            IN  IF hits = {} THEN an + 1 ELSE CHOOSE k \in hits : \A l \in hits : k <= l
        go[i \in 1..(pn + 1)] == [j \in 1..(an + 1) |->
            IF i > pn \/ j > an THEN i > pn /\ j > an
            ELSE IF pattern[i] = "**" THEN i = pn \/ go[i + 1][Search(i + 1, j)]
            ELSE pattern[i] \in {"*", path[j]} /\ go[i + 1][j + 1]]
    IN  pattern = path \/ pattern = <<"**">> \/ go[1][1]

\* What the wildcards mean: "*" one segment, "**" zero or more.
Means(pattern, path) ==
    LET m[i \in 1..(Len(pattern) + 1)] == [j \in 1..(Len(path) + 1) |->
            IF i > Len(pattern) THEN j > Len(path)
            ELSE IF pattern[i] = "**" THEN \E k \in j..(Len(path) + 1) : m[i + 1][k]
            ELSE j <= Len(path) /\ pattern[i] \in {"*", path[j]} /\ m[i + 1][j + 1]]
    IN  m[1][1]

Rule(path) ==
    LET hits == {i \in DOMAIN rules : Matches(rules[i].pattern, path)}
    IN  IF hits = {} THEN None ELSE CHOOSE i \in hits : \A k \in hits : i <= k

Price(path) == IF Rule(path) = None THEN DefaultPrice ELSE rules[Rule(path)].price

-------------------------------------------------------------------------------
(* Requests                                                                *)

Within(entry, period, limit) == entry = None \/ entry.period # period \/ entry.count < limit

Counted(entry, period) ==
    [period |-> period,
     count |-> IF entry = None \/ entry.period # period THEN 1 ELSE entry.count + 1]

Stage(r, s) == request' = [request EXCEPT ![r].stage = s]
Refuse(r) == request' = [request EXCEPT ![r] = None]

Arrive(r, path, proof, amount) ==
    /\ request[r] = None /\ taken < MaxRequests
    /\ taken' = taken + 1
    /\ request' = [request EXCEPT ![r] =
                      IF Within(rate, minute, RateLimit)
                      THEN [free |-> proof = "none", stage |-> "priced",
                            enough |-> proof = "valid" /\ amount >= Price(path)]
                      ELSE None]
    /\ UNCHANGED <<rules, free, rate, minute, served, passed>>

\* verify: a proof that is invalid, or for less, is refused.
Pay(r) ==
    /\ request[r] # None /\ request[r].stage = "priced" /\ ~request[r].free
    /\ IF request[r].enough THEN Stage(r, "paid") ELSE Refuse(r)
    /\ UNCHANGED <<rules, free, rate, minute, served, passed, taken>>

CheckFree(r) ==
    /\ request[r] # None /\ request[r].stage = "priced" /\ request[r].free
    /\ IF Within(free, Hour, FreeLimit) THEN Stage(r, "free") ELSE Refuse(r)
    /\ UNCHANGED <<rules, free, rate, minute, served, passed, taken>>

UseFree(r) ==
    /\ request[r] # None /\ request[r].stage = "free"
    /\ free' = Counted(free, Hour)
    /\ served' = [served EXCEPT ![Hour] = @ + 1]
    /\ Stage(r, "paid")
    /\ UNCHANGED <<rules, rate, minute, passed, taken>>

Record(r) ==
    /\ request[r] # None /\ request[r].stage = "paid"
    /\ rate' = Counted(rate, minute)
    /\ passed' = [passed EXCEPT ![minute] = @ + 1]
    /\ Refuse(r)
    /\ UNCHANGED <<rules, free, minute, served, taken>>

MinuteEnds ==
    /\ minute < MaxMinutes /\ minute' = minute + 1
    /\ UNCHANGED <<rules, request, free, rate, served, passed, taken>>

Next ==
    \/ \E r \in Requests :
          \/ \E path \in Paths, proof \in Proofs, amount \in Amounts :
                Arrive(r, path, proof, amount)
          \/ Pay(r) \/ CheckFree(r) \/ UseFree(r) \/ Record(r)
    \/ MinuteEnds

Spec == Init /\ [][Next]_vars

-------------------------------------------------------------------------------
(* Properties                                                              *)

\* Requests overlap between a look and its count, but no more than the other
\* handlers get past a limit, whenever the hour or the minute ends.
OvershootBounded ==
    LET others == Cardinality(Requests) - 1 IN
    /\ \A h \in DOMAIN served : served[h] <= FreeLimit + others
    /\ \A m \in DOMAIN passed : passed[m] <= RateLimit + others

\* A rule prices only paths that its wildcards mean.
PricedByRule ==
    \A path \in Paths : Rule(path) # None => Means(rules[Rule(path)].pattern, path)

\* A rule prices every path that its wildcards mean (pricing.rs: "** matches
\* zero or more segments").
RuleMatchesAll ==
    \A path \in Paths : (\E i \in DOMAIN rules : Means(rules[i].pattern, path)) => Rule(path) # None

===============================================================================
