-------------------------------- MODULE Memories --------------------------------
(***************************************************************************)
(* What agents remember.  The tools memory_write and memory_search share a *)
(* store that the first caller creates (tools/builtin/memory.rs); an agent *)
(* saves its tasks in the node's store and recalls them for the next one   *)
(* (agent/runtime.rs: save_task_memory, recall_memories), into which the   *)
(* dashboard inserts as well (web/mod.rs: api_vector_insert).  Scores are  *)
(* those of one query.                                                     *)
(***************************************************************************)
EXTENDS Naturals, Sequences, FiniteSets

CONSTANTS Callers, Notes, Tasks, Scores, Limit, MaxMemories, MaxTop, MinScore, None

\* Vectors weigh 0.7 and texts 0.3; scores are tenths.  What is found by one
\* of them only has that part of its score.
Parts(s, n) == {7 * s[n].vector, 3 * s[n].text, 7 * s[n].vector + 3 * s[n].text}

\* Ranks tell any two memories apart: the order of equals is the library's.
MemoriesAssumption ==
    /\ Tasks \subseteq Notes /\ \A S \in SUBSET Notes : S # None
    /\ Scores \subseteq [Notes -> [vector : Nat, text : Nat]]
    /\ \A s \in Scores : \A m, n \in Notes : m # n =>
         /\ s[m].vector # s[n].vector
         /\ s[m].text # s[n].text \/ s[m].text = 0
         /\ Parts(s, m) \cap Parts(s, n) \subseteq {0}
    /\ Limit \in Nat \ {0} /\ MaxMemories \in Nat \ {0}
    /\ MaxTop \in Nat \ {0} /\ MinScore \in Nat

VARIABLES
    score,      \* how near each memory is to the query
    store,      \* the store of the tools, or None
    caller,     \* where a call of a tool is
    written,    \* the memories that memory_write said are indexed
    node,       \* the memories of the node's store
    texts       \* those of them that have a text

vars == <<score, store, caller, written, node, texts>>

Init ==
    /\ score \in Scores
    /\ store = None /\ caller = [c \in Callers |-> "idle"] /\ written = {}
    /\ node = {} /\ texts = {}

-------------------------------------------------------------------------------
(* Searches                                                                *)

\* Those of S whose rank in f is above that of m.
Above(S, f, m) == {other \in S : f[other] > f[m]}

\* The n best of S: what the library returns for a limit n, in this order.
Best(S, f, n) == {m \in S : Cardinality(Above(S, f, m)) < n}
InOrder(S, f) ==
    [i \in 1 .. Cardinality(S) |-> CHOOSE m \in S : Cardinality(Above(S, f, m)) = i - 1]

near == [m \in Notes |-> score[m].vector]
text == [m \in Notes |-> score[m].text]

\* api_vector_search, with the top_k asked for and its cap.
ApiFound(k) == InOrder(Best(node, near, IF k > MaxTop THEN MaxTop ELSE k), near)

\* hybrid_search: both lists, weighted, cut to n.
Nearest(S, n) == Best(S, near, 2 * n)
Matching(S, n) == Best({m \in S : text[m] > 0}, text, 2 * n)
Weight(S, n) ==
    [m \in Notes |-> (IF m \in Nearest(S, n) THEN 7 * near[m] ELSE 0)
                    + (IF m \in Matching(S, n) THEN 3 * text[m] ELSE 0)]
Hybrid(S, n) == Best(Nearest(S, n) \cup Matching(S, n), Weight(S, n), n)

\* memory_search without a category: those of the hits that score enough.
Shown(S) == Weight(S, 2 * Limit)
Found(S) ==
    LET shown == {m \in Hybrid(S, 2 * Limit) : Shown(S)[m] >= MinScore}
    IN  InOrder(Best(shown, Shown(S), Limit), Shown(S))

\* recall_memories: the text is looked for last.
Recalled ==
    LET close == {m \in Best(node, near, 2 * MaxMemories) : 10 * near[m] >= MinScore}
    IN  InOrder(Best(close, near, MaxMemories) \cap texts, near)

-------------------------------------------------------------------------------
(* The tools                                                               *)

At(c, step) == caller[c] = step
Go(c, step) == caller' = [caller EXCEPT ![c] = step]

\* get_memory_store looks under the lock for reading, and again under the one
\* for writing before it creates a store.
Lookup(c) ==
    /\ At(c, "idle") /\ Go(c, IF store = None THEN "create" ELSE "ready")
    /\ UNCHANGED <<score, store, written, node, texts>>

CreateStore(c) ==
    /\ At(c, "create") /\ Go(c, "ready")
    /\ store' = IF store = None THEN {} ELSE store
    /\ UNCHANGED <<score, written, node, texts>>

Write(c, m) ==
    /\ At(c, "ready") /\ Go(c, "idle")
    /\ store' = store \cup {m} /\ written' = written \cup {m}
    /\ UNCHANGED <<score, node, texts>>

\* A search, or a write that is refused (empty, too large, no embedding).
OtherCall(c) ==
    /\ At(c, "ready") /\ Go(c, "idle")
    /\ UNCHANGED <<score, store, written, node, texts>>

-------------------------------------------------------------------------------
(* The node's store                                                        *)

\* The memory of a task has a text; an insertion over the API need not have
\* one.
Insert(m, textual) ==
    /\ m \notin node
    /\ node' = node \cup {m} /\ texts' = IF textual THEN texts \cup {m} ELSE texts
    /\ UNCHANGED <<score, store, caller, written>>

SaveTask(m) == Insert(m, TRUE)
ApiInsert(m) == \E textual \in BOOLEAN : Insert(m, textual)

\* Neither store has a file in the program.
Restart ==
    /\ store' = None /\ written' = {} /\ node' = {} /\ texts' = {}
    /\ caller' = [c \in Callers |-> "idle"]
    /\ UNCHANGED score

Next ==
    \/ Restart
    \/ \E c \in Callers : Lookup(c) \/ CreateStore(c) \/ OtherCall(c) \/ \E m \in Notes : Write(c, m)
    \/ \E m \in Tasks : SaveTask(m) \/ ApiInsert(m)

Spec == Init /\ [][Next]_vars

-------------------------------------------------------------------------------
(* Properties                                                              *)

\* What memory_write said is indexed stays in the one store that all callers
\* see, also when two of them create it at once (get_memory_store).
WrittenIsKept == written # {} => store # None /\ written \subseteq store

\* Neither the cut of the two lists nor that of their sum hides a memory that is
\* nearest by vector and by text, and results come in the order of their
\* scores (hybrid_search, memory_search).
BestIsFound ==
    store # None =>
      LET found == Found(store)
      IN  /\ Len(found) <= Limit
          /\ \A i, j \in DOMAIN found : i < j => Shown(store)[found[i]] > Shown(store)[found[j]]
          /\ \A m \in store :
               /\ 7 * near[m] + 3 * text[m] >= MinScore
               /\ \A n \in store : near[n] <= near[m] /\ text[n] <= text[m]
               => found # <<>> /\ found[1] = m

\* Who asks for more is given the same first, up to the cap (api_vector_search).
MoreIsLonger ==
    \A k \in 1 .. MaxTop : SubSeq(ApiFound(k + 1), 1, Len(ApiFound(k))) = ApiFound(k)

\* A prompt is given the nearest memories that are near enough, except those
\* without a text, which cost a place (recall_memories).
RecalledAreNearest ==
    /\ Len(Recalled) <= MaxMemories
    /\ \A m \in texts : 10 * near[m] >= MinScore =>
         \/ \E i \in DOMAIN Recalled : Recalled[i] = m
         \/ Cardinality(Above(node, near, m)) >= MaxMemories

===============================================================================
