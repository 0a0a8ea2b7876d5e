------------------------------- MODULE SkillBook -------------------------------
(***************************************************************************)
(* The skills of a node (src/src/skills): files that commands and the      *)
(* studio of the dashboard write, the registry that a scan loads from      *)
(* them, the switches of the dashboard, the choice of a skill for a chat   *)
(* and the skills that other peers announce.                               *)
(*                                                                         *)
(* A file is what it says: the name in its header and whether its          *)
(* requirements are met, or Broken when it does not parse.  What a text    *)
(* matches is left to the text: any skill that can be used may fit best.   *)
(***************************************************************************)
EXTENDS Naturals, Sequences

CONSTANTS
    Names, Providers, Prices,
    Me,                         \* this node among the providers
    MaxEdits, MaxBatches,       \* bounds on changes of files and on batches sent
    Broken, None

SkillsAssumption ==
    /\ MaxEdits \in Nat /\ MaxBatches \in Nat /\ Prices \subseteq Nat /\ Me \in Providers

VARIABLES
    disk,           \* the files: <name>.md and <name>/SKILL.md
    skills,         \* the registry: met or not, None for a name it does not hold
    disabled,
    network,        \* for each name the offers of peers, the first is offered
    injected,       \* the skill in the prompt of the latest chat
    flying,         \* batches sent and not received
    edits, batches

vars == <<disk, skills, disabled, network, injected, flying, edits, batches>>

Layouts == {"flat", "nested"}
Contents == [name : Names, met : BOOLEAN]
Offers == [provider : Providers, price : Prices]

\* What the files say of a name: which of them wins depends on the order in
\* which the directory is read.
Says(n) == {disk[f].met : f \in {g \in Names \X Layouts : disk[g] \in Contents /\ disk[g].name = n}}

Scans == {s \in [Names -> BOOLEAN \cup {None}] :
             \A n \in Names : IF Says(n) = {} THEN s[n] = None ELSE s[n] \in Says(n)}

Init ==
    /\ disk = [f \in Names \X Layouts |-> None]
    /\ skills = [n \in Names |-> None] /\ disabled = {}
    /\ network = [n \in Names |-> <<>>]
    /\ injected = None /\ flying = {} /\ edits = 0 /\ batches = 0

Edit(f, content) ==
    /\ edits < MaxEdits /\ edits' = edits + 1
    /\ disk' = [disk EXCEPT ![f] = content]
    /\ UNCHANGED <<skills, disabled, network, injected, flying, batches>>

\* Commands run in processes of their own and scan the files first.
Install(content) == Edit(<<content.name, "flat">>, content)

Create(n) == disk[<<n, "flat">>] = None /\ Edit(<<n, "flat">>, [name |-> n, met |-> TRUE])

\* /skill create of a chat looks for the same file, in its own process.
CreateInChat(n) == Create(n)

\* Only <name>.md goes, whatever file the skill came from.
Remove(n) == Says(n) # {} /\ Edit(<<n, "flat">>, None)

\* The studio always writes <slug>/SKILL.md, and what it is given.
Put(n, content) == Edit(<<n, "nested">>, content)

\* The map is cleared before the directory is read.
Scan ==
    /\ skills' \in Scans \cup {[n \in Names |-> None]}
    /\ UNCHANGED <<disk, disabled, network, injected, flying, edits, batches>>

Toggled(n) == IF n \in disabled THEN disabled \ {n} ELSE disabled \cup {n}

Toggle(n) ==
    /\ skills[n] # None \/ network[n] # <<>>
    /\ disabled' = Toggled(n)
    /\ UNCHANGED <<disk, skills, network, injected, flying, edits, batches>>

\* select_best: among the local skills whose requirements are met.
Select(n) ==
    /\ skills[n] = TRUE
    /\ injected' = n
    /\ UNCHANGED <<disk, skills, disabled, network, flying, edits, batches>>

NothingFits ==
    /\ injected # None /\ injected' = None
    /\ UNCHANGED <<disk, skills, disabled, network, flying, edits, batches>>

\* A batch holds one announcement of each skill that its peer shares.
Send(p, priced) ==
    /\ batches < MaxBatches /\ batches' = batches + 1
    /\ flying' = flying \cup {[peer |-> p, priced |-> priced, number |-> batches]}
    /\ UNCHANGED <<disk, skills, disabled, network, injected, edits>>

\* Mutant: an offer that is replaced stays where it is.
PlacedUnsorted(offers, p, price) ==
    LET at == {i \in DOMAIN offers : offers[i].provider = p}
    IN  IF at = {} THEN Append(offers, [provider |-> p, price |-> price])
        ELSE [offers EXCEPT ![CHOOSE i \in at : TRUE].price = price]

\* sort_by of the prices, which keeps the order of equal ones: where each offer
\* of the sorted list was.
Order(offers) ==
    CHOOSE was \in [DOMAIN offers -> DOMAIN offers] :
        \A i, j \in DOMAIN offers : i < j =>
            \/ offers[was[i]].price < offers[was[j]].price
            \/ offers[was[i]].price = offers[was[j]].price /\ was[i] < was[j]

Sorted(offers) == [i \in DOMAIN offers |-> offers[Order(offers)[i]]]

\* The offer of a provider is replaced or added, and the offers are sorted by
\* price again.
Placed(offers, p, price) ==
    LET at == {i \in DOMAIN offers : offers[i].provider = p}
        new == [provider |-> p, price |-> price]
        listed == IF at = {} THEN Append(offers, new)
                  ELSE [offers EXCEPT ![CHOOSE i \in at : TRUE] = new]
    IN  Sorted(listed)

\* Batches come in any order.  One of our own, one older than ten minutes and
\* one whose source is not its peer are ignored.  Each announcement names its
\* provider, which is not compared with the peer.
Receive(b, by, good) ==
    /\ b \in flying /\ flying' = flying \ {b}
    /\ network' = IF ~good \/ b.peer = Me THEN network
                  ELSE [n \in Names |-> IF b.priced[n] = None THEN network[n]
                                        ELSE Placed(network[n], by[n], b.priced[n])]
    /\ UNCHANGED <<disk, skills, disabled, injected, edits, batches>>

\* Switches and offers are in memory only, and the new process scans.
Restart ==
    /\ skills' \in Scans /\ disabled' = {} /\ network' = [n \in Names |-> <<>>]
    /\ injected' = None
    /\ UNCHANGED <<disk, flying, edits, batches>>

Next ==
    \/ \E c \in Contents : Install(c)
    \/ \E n \in Names : Create(n) \/ CreateInChat(n) \/ Remove(n) \/ Toggle(n) \/ Select(n)
    \/ \E n \in Names, c \in Contents \cup {Broken} : Put(n, c)
    \/ Scan \/ NothingFits \/ Restart
    \/ \E p \in Providers, priced \in [Names -> Prices \cup {None}] : Send(p, priced)
    \/ \E b \in flying, by \in [Names -> Providers], good \in BOOLEAN : Receive(b, by, good)

Spec == Init /\ [][Next]_vars

-------------------------------------------------------------------------------
(* Properties                                                              *)

TypeOK ==
    /\ disk \in [Names \X Layouts -> Contents \cup {Broken, None}]
    /\ skills \in [Names -> BOOLEAN \cup {None}]
    /\ disabled \subseteq Names /\ injected \in Names \cup {None}
    /\ \A n \in Names : \A i \in DOMAIN network[n] : network[n][i] \in Offers
    /\ edits \in 0..MaxEdits /\ batches \in 0..MaxBatches

\* However batches are delayed and repeated, each provider has one offer of a skill
\* and the first of them, the one that is listed, is the cheapest
\* (register_network_skill, list_all).
OffersOrdered ==
    \A n \in Names : \A i, j \in DOMAIN network[n] :
        i < j => /\ network[n][i].provider # network[n][j].provider
                 /\ network[n][i].price <= network[n][j].price

\* A skill that the user switched off is not put into a prompt (registry.rs:
\* "Disabled skill names (toggled off by the user)").
SelectedIsEnabled == injected' # injected => injected' \notin disabled

===============================================================================
