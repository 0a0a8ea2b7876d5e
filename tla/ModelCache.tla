------------------------------ MODULE ModelCache ------------------------------
(***************************************************************************)
(* The cache of loaded models (src/src/inference/cache.rs), as load_model  *)
(* of the engine fills it and its users hold entries of it.  The table of  *)
(* models and the memory counter have a lock each, and insert decides      *)
(* about room, changes the table and changes the counter under separate    *)
(* locks.  A model may be asked for by a prefix of its name; the table     *)
(* knows it by its full name only, so such a load is made anew each time.  *)
(***************************************************************************)
EXTENDS Integers, FiniteSets

CONSTANTS
    Tasks,          \* callers, which load, hold and release models
    Models,         \* full names; both are numbered from 1
    Size,           \* estimate_ram_mb of each
    Largest,        \* no model takes more
    MaxModels, MaxMemory,
    None

CacheAssumption ==
    /\ IsFiniteSet(Tasks) /\ Tasks = 1 .. Cardinality(Tasks) /\ Tasks # {}
    /\ IsFiniteSet(Models) /\ Models = 1 .. Cardinality(Models)
    /\ None \notin Models
    /\ Size \in [Models -> Nat \ {0}]
    /\ Largest \in Nat /\ \A m \in Models : Size[m] <= Largest
    /\ MaxModels \in Nat \ {0} /\ MaxMemory \in Nat

VARIABLES
    loaded,         \* the models in the table
    refs,           \* ref_count of each entry
    memory,         \* current_memory_mb
    at,             \* where each task is in load_model
    wants,          \* the model it loads
    fits,           \* whether it fitted, by the counter as it was read first
    holds           \* the entries a task got and has not released

table == <<loaded, refs>>
loading == <<at, wants, fits>>
vars == <<table, memory, loading, holds>>

Steps == {"out", "measure", "count", "evict", "fit", "empty", "evictfit", "insert", "account"}

\* The sum f[1] + ... + f[n], as the last value of the running totals.
Total(f, n) ==
    LET run[i \in 0 .. n] == IF i = 0 THEN 0 ELSE run[i - 1] + f[i]
    IN  run[n]

\* The memory of the models in S.
Sum(S) == Total([m \in Models |-> IF m \in S THEN Size[m] ELSE 0], Cardinality(Models))

Init ==
    /\ loaded = {} /\ refs = [m \in Models |-> 0] /\ memory = 0
    /\ at = [t \in Tasks |-> "out"] /\ wants = [t \in Tasks |-> None]
    /\ fits = [t \in Tasks |-> FALSE] /\ holds = [t \in Tasks |-> {}]

-------------------------------------------------------------------------------
(* load_model                                                              *)

Go(t, from, to) == at[t] = from /\ at' = [at EXCEPT ![t] = to]

\* load_model returns.
Back(t, from) ==
    /\ Go(t, from, "out")
    /\ wants' = [wants EXCEPT ![t] = None] /\ fits' = [fits EXCEPT ![t] = FALSE]

\* By the full name of a model that is loaded there is nothing to do; by a
\* prefix of it the registry finds the same model, and it is loaded again.
Load(t, m, prefix) ==
    /\ prefix \/ m \notin loaded
    /\ Go(t, "out", "measure")
    /\ wants' = [wants EXCEPT ![t] = m]
    /\ UNCHANGED <<table, memory, fits, holds>>

Measure(t) ==
    /\ Go(t, "measure", "count")
    /\ fits' = [fits EXCEPT ![t] = memory + Size[wants[t]] <= MaxMemory]
    /\ UNCHANGED <<table, memory, wants, holds>>

\* What comes after the number of models is right: the counter as it was read
\* before decides whether anything has to go.
Room(t) == IF fits[t] THEN "insert" ELSE "fit"

CountModels(t) ==
    /\ Go(t, "count", IF Cardinality(loaded) >= MaxModels THEN "evict" ELSE Room(t))
    /\ UNCHANGED <<table, memory, wants, fits, holds>>

Unused == {m \in loaded : refs[m] = 0}

\* Which of the unused models was used least recently is left open.
EvictLRU ==
    \E m \in Unused :
      /\ loaded' = loaded \ {m}
      /\ memory' = IF Size[m] > memory THEN 0 ELSE memory - Size[m]
      /\ UNCHANGED refs

Evict(t) ==
    /\ Go(t, "evict", Room(t)) /\ EvictLRU
    /\ UNCHANGED <<wants, fits, holds>>

Fit(t) ==
    /\ Go(t, "fit", IF memory + Size[wants[t]] <= MaxMemory THEN "insert" ELSE "empty")
    /\ UNCHANGED <<table, memory, wants, fits, holds>>

NotEmpty(t) ==
    /\ loaded # {} /\ Go(t, "empty", "evictfit")
    /\ UNCHANGED <<table, memory, wants, fits, holds>>

EvictToFit(t) ==
    /\ Go(t, "evictfit", "fit") /\ EvictLRU
    /\ UNCHANGED <<wants, fits, holds>>

\* AllModelsInUse, or InsufficientMemory.
Refuse(t) ==
    /\ \/ at[t] \in {"evict", "evictfit"} /\ Unused = {}
       \/ at[t] = "empty" /\ loaded = {}
    /\ Back(t, at[t])
    /\ UNCHANGED <<table, memory, holds>>

\* The entry of a model that is loaded already is replaced by one nobody holds.
Insert(t) ==
    /\ Go(t, "insert", "account")
    /\ loaded' = loaded \cup {wants[t]} /\ refs' = [refs EXCEPT ![wants[t]] = 0]
    /\ UNCHANGED <<memory, wants, fits, holds>>

\* A load that has replaced an entry of the table is not counted.
AccountOthers(t) ==
    /\ Back(t, "account")
    /\ memory' = IF \E u \in Tasks \ {t} : wants[u] = wants[t]
                 THEN memory ELSE memory + Size[wants[t]]
    /\ UNCHANGED <<table, holds>>

Account(t) ==
    /\ Back(t, "account")
    /\ memory' = memory + Size[wants[t]]
    /\ UNCHANGED <<table, holds>>

-------------------------------------------------------------------------------
(* Users of a model                                                        *)

Get(t, m) ==
    /\ at[t] = "out" /\ m \in loaded \ holds[t]
    /\ refs' = [refs EXCEPT ![m] = @ + 1]
    /\ holds' = [holds EXCEPT ![t] = @ \cup {m}]
    /\ UNCHANGED <<loaded, memory, loading>>

Release(t, m) ==
    /\ at[t] = "out" /\ m \in holds[t]
    /\ holds' = [holds EXCEPT ![t] = @ \ {m}]
    /\ refs' = IF m \in loaded /\ refs[m] > 0 THEN [refs EXCEPT ![m] = @ - 1] ELSE refs
    /\ UNCHANGED <<loaded, memory, loading>>

Clear ==
    /\ loaded # {} /\ Unused = loaded
    /\ loaded' = {} /\ memory' = 0
    /\ UNCHANGED <<refs, loading, holds>>

-------------------------------------------------------------------------------

Step(t) ==
    \/ Measure(t) \/ CountModels(t) \/ Evict(t) \/ Fit(t) \/ NotEmpty(t)
    \/ EvictToFit(t) \/ Refuse(t) \/ Insert(t) \/ Account(t)

Call(t) ==
    \E m \in Models :
      \/ \E prefix \in BOOLEAN : Load(t, m, prefix)
      \/ Get(t, m)
      \/ Release(t, m)

Next == (\E t \in Tasks : Step(t) \/ Call(t)) \/ Clear

Spec == Init /\ [][Next]_vars

-------------------------------------------------------------------------------
(* Properties                                                              *)

TypeOK ==
    /\ loaded \subseteq Models /\ refs \in [Models -> Nat] /\ memory \in Nat
    /\ at \in [Tasks -> Steps] /\ wants \in [Tasks -> Models \cup {None}]
    /\ fits \in [Tasks -> BOOLEAN] /\ holds \in [Tasks -> SUBSET Models]

\* What was inserted and is not in the counter yet.
Uncounted ==
    Total([t \in Tasks |-> IF at[t] = "account" THEN Size[wants[t]] ELSE 0], Cardinality(Tasks))

\* The counter falls short of the memory of the models in the table by no more
\* than what was inserted and is still to be added to it, whatever is evicted or
\* cleared between an insertion and its accounting.
MemoryCovers ==
    memory + Uncounted >= Sum(loaded)

\* Loaders that look at the counter before the others have added to it are
\* promised the same room, so the table may pass max_memory_mb.  What is
\* counted and still to be counted, hence by MemoryCovers the table, passes it
\* by one model for each other loader at most, however long loading goes on.
MemoryBounded ==
    memory + Uncounted <= MaxMemory + (Cardinality(Tasks) - 1) * Largest

\* Every loader counts the models before the others have inserted theirs.  The
\* table may hold one model too many for each other loader; that is the most,
\* however long the loading goes on.
TableBounded == Cardinality(loaded) <= MaxModels + Cardinality(Tasks) - 1

===============================================================================
