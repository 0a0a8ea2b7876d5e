------------------------------ MODULE ChatSessions ------------------------------
(***************************************************************************)
(* One chat session of the dashboard (src/src/web/mod.rs): the handlers    *)
(* that answer a message put earlier turns before it and append the new    *)
(* ones when the answer is there.  Turns are kept in a cache and, by some  *)
(* of the handlers, in the database (SessionStore,                         *)
(* src/src/agent/session.rs), which outlives a restart of the node.        *)
(*                                                                         *)
(* A turn is <<r, role>>, for the message of request r or its answer.      *)
(* The cut of the history to 6000 characters is left out.                  *)
(***************************************************************************)
EXTENDS Naturals, Sequences

CONSTANTS
    Requests,
    MaxMessages,        \* MAX_MSGS of the cache
    MaxTurns,           \* turns that are loaded from the database
    Restarts,           \* bound on the number of restarts
    None

SessionAssumption ==
    /\ MaxMessages \in Nat /\ MaxMessages % 2 = 0
    /\ MaxTurns \in Nat /\ Restarts \in Nat /\ None \notin Requests

\* agentic: a chat with tools; plain: one without; stream: its answer is
\* streamed; task: a background task with a session.
Kinds == {"agentic", "plain", "stream", "task"}

\* build_prompt_with_history of streams and tasks knows the cache only.
LooksAtDisk(kind) == kind \in {"agentic", "plain"}
\* save_session_turn of plain chats and tasks knows the cache only.
SavesToDisk(kind) == kind \in {"agentic", "stream"}

VARIABLES
    cache,              \* chat_sessions: the turns of the session
    disk,               \* its turns in the database
    kind,               \* of each request, None before it is made
    at,                 \* where each request is
    history,            \* the turns each was prompted with
    saving,             \* the request that holds the write lock, or None
    order,              \* history: requests in the order they were saved in
    broken,             \* history: a turn was not written, or a crash came between
    restarts

vars == <<cache, disk, kind, at, history, saving, order, broken, restarts>>

Stages == {"new", "load", "model", "user", "assistant", "done", "gone"}

Init ==
    /\ cache = <<>> /\ disk = <<>> /\ saving = None /\ order = <<>>
    /\ kind = [r \in Requests |-> None] /\ at = [r \in Requests |-> "new"]
    /\ history = [r \in Requests |-> <<>>]
    /\ broken = FALSE /\ restarts = 0

Pair(r) == <<<<r, "user">>, <<r, "assistant">>>>

Latest(n, s) == IF Len(s) <= n THEN s ELSE SubSeq(s, Len(s) - n + 1, Len(s))

-------------------------------------------------------------------------------

\* The cache is read under its lock; the database after the lock is dropped.
Ask(r, k) ==
    /\ at[r] = "new" /\ saving = None
    /\ kind' = [kind EXCEPT ![r] = k] /\ history' = [history EXCEPT ![r] = cache]
    /\ at' = [at EXCEPT ![r] = IF cache = <<>> /\ LooksAtDisk(k) THEN "load" ELSE "model"]
    /\ UNCHANGED <<cache, disk, saving, order, broken, restarts>>

Chat(r) == Ask(r, "agentic") \/ Ask(r, "plain")
Stream(r) == Ask(r, "stream")
Task(r) == Ask(r, "task")

\* The safety layer refuses a message before anything is read or kept.
Refuse(r) ==
    /\ at[r] = "new" /\ at' = [at EXCEPT ![r] = "gone"]
    /\ UNCHANGED <<cache, disk, kind, history, saving, order, broken, restarts>>

Load(r) ==
    /\ at[r] = "load"
    /\ at' = [at EXCEPT ![r] = "model"]
    /\ history' = [history EXCEPT ![r] = Latest(MaxTurns, disk)]
    /\ UNCHANGED <<cache, disk, kind, saving, order, broken, restarts>>

\* A chat or task that fails or times out says so and is not saved; a stream
\* saves the error as its answer, but not when its client has gone.
Fail(r) ==
    /\ at[r] = "model" /\ at' = [at EXCEPT ![r] = "gone"]
    /\ UNCHANGED <<cache, disk, kind, history, saving, order, broken, restarts>>

\* Only one turn at a time is dropped.
DropOldest(s) == IF Len(s) <= MaxMessages THEN s ELSE Tail(s)
Capped(s) == Latest(MaxMessages, s)

\* The write lock is held until both turns are in the database.
SaveCache(r) ==
    /\ at[r] = "model" /\ saving = None
    /\ cache' = Capped(cache \o Pair(r)) /\ order' = Append(order, r)
    /\ IF SavesToDisk(kind[r])
       THEN saving' = r /\ at' = [at EXCEPT ![r] = "user"]
       ELSE at' = [at EXCEPT ![r] = "done"] /\ UNCHANGED saving
    /\ UNCHANGED <<disk, kind, history, broken, restarts>>

ChatAnswered(r) == kind[r] \in {"agentic", "plain"} /\ SaveCache(r)
StreamEnded(r) == kind[r] = "stream" /\ SaveCache(r)
TaskAnswered(r) == kind[r] = "task" /\ SaveCache(r)

\* Each turn is a transaction of its own; one that fails is logged.
SaveTurn(r, role, fails) ==
    /\ at[r] = role
    /\ disk' = IF fails THEN disk ELSE Append(disk, <<r, role>>)
    /\ broken' = (broken \/ fails)
    /\ at' = [at EXCEPT ![r] = IF role = "user" THEN "assistant" ELSE "done"]
    /\ saving' = IF role = "user" THEN saving ELSE None
    /\ UNCHANGED <<cache, kind, history, order, restarts>>

Restart ==
    /\ restarts < Restarts /\ restarts' = restarts + 1
    /\ cache' = <<>> /\ saving' = None /\ broken' = (broken \/ saving # None)
    /\ at' = [r \in Requests |-> IF at[r] \in {"new", "done"} THEN at[r] ELSE "gone"]
    /\ UNCHANGED <<disk, kind, history, order>>

Next ==
    \/ \E r \in Requests :
         \/ Refuse(r) \/ Chat(r) \/ Stream(r) \/ Task(r) \/ Load(r) \/ Fail(r)
         \/ ChatAnswered(r) \/ StreamEnded(r) \/ TaskAnswered(r)
         \/ \E role \in {"user", "assistant"}, fails \in BOOLEAN : SaveTurn(r, role, fails)
    \/ Restart

Spec == Init /\ [][Next]_vars

-------------------------------------------------------------------------------
(* Properties                                                              *)

Turns == Requests \X {"user", "assistant"}

TypeOK ==
    /\ cache \in Seq(Turns) /\ disk \in Seq(Turns)
    /\ kind \in [Requests -> Kinds \cup {None}] /\ at \in [Requests -> Stages]
    /\ \A r \in Requests : history[r] \in Seq(Turns)
    /\ saving \in Requests \cup {None} /\ restarts \in 0 .. Restarts

InPairs(s) ==
    /\ Len(s) % 2 = 0
    /\ \A i \in DOMAIN s : i % 2 = 1 => s[i][2] = "user" /\ s[i + 1] = <<s[i][1], "assistant">>

InOrder(s) ==
    \A i, j \in DOMAIN s : i < j =>
      \/ s[i][1] = s[j][1] /\ s[i][2] = "user" /\ s[j][2] = "assistant"
      \/ \E m, n \in DOMAIN order : m < n /\ order[m] = s[i][1] /\ order[n] = s[j][1]

\* However requests of one session overlap and the cache is cut, it holds whole
\* exchanges, in the order in which they ended.
CacheInPairs == InPairs(cache) /\ InOrder(cache) /\ Len(cache) <= MaxMessages

\* The database never mixes two exchanges and never holds one twice; it holds
\* whole exchanges as long as no write failed and no crash came between.
DiskInPairs == InOrder(disk) /\ (~broken /\ saving = None => InPairs(disk))

\* What a request is prompted with are exchanges that had ended, in order; a
\* turn of its own is never among them.
HistoryIsPast ==
    \A r \in Requests :
      /\ InOrder(history[r])
      /\ \A i \in DOMAIN history[r] : history[r][i][1] # r

\* "Sessions survive restarts." (session.rs): an exchange that was answered is
\* in the database.
SurvivesRestart ==
    \A r \in Requests : at[r] = "done" /\ ~broken => \E i \in DOMAIN disk : disk[i] = <<r, "assistant">>

===============================================================================
