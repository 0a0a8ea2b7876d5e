-------------------------------- MODULE WebTasks --------------------------------
(***************************************************************************)
(* The background tasks of the dashboard (src/src/web/mod.rs).  A task is  *)
(* run by the agent of --agent, which the main loop of the node serves, by *)
(* a loop of its own (UnifiedLoop) with the tools of the node, or by one   *)
(* with those of MCP servers only; without any of them it fails at once.   *)
(* A second task copies the text of a running loop into the record, chunk  *)
(* by chunk, and the handler of the stop button sets a flag that is        *)
(* registered while the task is in flight.                                 *)
(***************************************************************************)
EXTENDS Naturals, Sequences

CONSTANTS
    Tasks,
    MaxChunks,          \* bound on the chunks of one task
    None

VARIABLES
    path,               \* how each task is run
    at,                 \* where it is
    status, text,       \* its record: the status, and the pieces of its result
    registered,         \* agent_task_cancels
    stop,               \* tasks whose flag is set
    unread,             \* chunks that are sent and not copied yet
    sent,               \* chunks sent
    outcome             \* how the agent or the loop ended, None before it has

vars == <<path, at, status, text, registered, stop, unread, sent, outcome>>

Final == {"completed", "cancelled", "failed"}
Outcomes == {"answer", "stopped", "error"}
Ways == {"agent", "loop", "mcp"}
Loops == {"loop", "mcp"}
Places == {"new", "created", "started", "waiting", "ended", "closing", "over"}

WebTasksAssumption == MaxChunks \in Nat /\ None \notin Tasks \cup Outcomes

Init ==
    /\ path = [t \in Tasks |-> "none"] /\ at = [t \in Tasks |-> "new"]
    /\ status = [t \in Tasks |-> "pending"] /\ text = [t \in Tasks |-> <<>>]
    /\ registered = {} /\ stop = {}
    /\ unread = [t \in Tasks |-> 0] /\ sent = [t \in Tasks |-> 0]
    /\ outcome = [t \in Tasks |-> None]

Goes(t, place) == at' = [at EXCEPT ![t] = place]
Becomes(t, s, result) ==
    /\ status' = [status EXCEPT ![t] = s] /\ text' = [text EXCEPT ![t] = <<result>>]

\* The status for the outcome of a run.
StatusOf(how) ==
    CASE how = "answer" -> "completed" [] how = "stopped" -> "cancelled" [] OTHER -> "failed"

-------------------------------------------------------------------------------

Create(t) ==
    /\ at[t] = "new" /\ Goes(t, "created")
    /\ UNCHANGED <<path, status, text, registered, stop, unread, sent, outcome>>

\* The record is stored before it is known how the task can be run; its flag is
\* registered before the handler answers.
Route(t, p) ==
    /\ at[t] = "created"
    /\ path' = [path EXCEPT ![t] = p]
    /\ registered' = registered \cup {t} /\ Goes(t, "started")
    /\ UNCHANGED <<status, text, stop, unread, sent, outcome>>

\* MCP was asked for without a connected tool, or the node has neither an agent
\* nor tools nor inference.
NoWay(t) ==
    /\ at[t] = "created"
    /\ Becomes(t, "failed", "error") /\ Goes(t, "over")
    /\ UNCHANGED <<path, registered, stop, unread, sent, outcome>>

Start(t) ==
    /\ at[t] = "started" /\ status[t] = "pending"
    /\ status' = [status EXCEPT ![t] = "running"]
    /\ Goes(t, "waiting")
    /\ UNCHANGED <<path, text, registered, stop, unread, sent, outcome>>

\* Only flags of tasks in flight are found; their tasks are told to stop.
Stop(t) ==
    /\ t \in registered
    /\ stop' = stop \cup {t}
    /\ UNCHANGED <<path, at, status, text, registered, unread, sent, outcome>>

\* The agent or the loop ends; it is stopped only when it was told to.  An
\* agent goes on after its task has timed out.
Ends(t, how) ==
    /\ path[t] # "none" /\ at[t] \in {"waiting", "closing", "over"}
    /\ outcome[t] = None /\ status[t] # "pending"
    /\ how = "stopped" => t \in stop
    /\ outcome' = [outcome EXCEPT ![t] = how]
    /\ UNCHANGED <<path, at, status, text, registered, stop, unread, sent>>

-------------------------------------------------------------------------------
(* The task of an agent                                                    *)

\* The answer is stored, and then the flag is removed.
Answered(t) ==
    /\ path[t] = "agent" /\ at[t] = "waiting" /\ outcome[t] # None
    /\ Becomes(t, StatusOf(outcome[t]), outcome[t]) /\ Goes(t, "closing")
    /\ UNCHANGED <<path, registered, stop, unread, sent, outcome>>

\* The task still waits for the answer after the timeout.
GivenUpLate(t) ==
    /\ path[t] = "agent" /\ at[t] = "waiting"
    /\ Becomes(t, "failed", "error")
    /\ UNCHANGED <<path, at, registered, stop, unread, sent, outcome>>

\* The channel is closed, or 300 seconds are over.
GivenUp(t) ==
    /\ path[t] = "agent" /\ at[t] = "waiting"
    /\ Becomes(t, "failed", "error") /\ Goes(t, "closing")
    /\ UNCHANGED <<path, registered, stop, unread, sent, outcome>>

-------------------------------------------------------------------------------
(* The task of a loop                                                      *)

Chunk(t) ==
    /\ path[t] \in Loops /\ at[t] = "waiting" /\ outcome[t] = None
    /\ sent[t] < MaxChunks
    /\ sent' = [sent EXCEPT ![t] = @ + 1] /\ unread' = [unread EXCEPT ![t] = @ + 1]
    /\ UNCHANGED <<path, at, status, text, registered, stop, outcome>>

\* The flag is removed, and then the answer is stored.
Ended(t) ==
    /\ path[t] \in Loops /\ at[t] = "waiting" /\ outcome[t] # None
    /\ registered' = registered \ {t} /\ Goes(t, "ended")
    /\ UNCHANGED <<path, status, text, stop, unread, sent, outcome>>

\* The answer is put behind the chunks.
StoreBehind(t) ==
    /\ path[t] = "loop" /\ at[t] = "ended"
    /\ status' = [status EXCEPT ![t] = StatusOf(outcome[t])]
    /\ text' = [text EXCEPT ![t] = Append(@, outcome[t])] /\ Goes(t, "over")
    /\ UNCHANGED <<path, registered, stop, unread, sent, outcome>>

Store(t) ==
    /\ path[t] = "loop" /\ at[t] = "ended"
    /\ Becomes(t, StatusOf(outcome[t]), outcome[t]) /\ Goes(t, "over")
    /\ UNCHANGED <<path, registered, stop, unread, sent, outcome>>

StoreMcp(t) ==
    /\ path[t] = "mcp" /\ at[t] = "ended"
    /\ Becomes(t, StatusOf(outcome[t]), outcome[t]) /\ Goes(t, "over")
    /\ UNCHANGED <<path, registered, stop, unread, sent, outcome>>

\* The copying task has a lock of its own on the record, before or after the
\* answer is stored.
Copy(t) ==
    /\ unread[t] > 0
    /\ unread' = [unread EXCEPT ![t] = @ - 1]
    /\ text' = [text EXCEPT ![t] = Append(@, "chunk")]
    /\ UNCHANGED <<path, at, status, registered, stop, sent, outcome>>

-------------------------------------------------------------------------------

Unregister(t) ==
    /\ path[t] = "agent" /\ at[t] = "closing"
    /\ registered' = registered \ {t} /\ Goes(t, "over")
    /\ UNCHANGED <<path, status, text, stop, unread, sent, outcome>>

Next ==
    \E t \in Tasks :
      \/ Create(t) \/ Start(t) \/ Stop(t) \/ Answered(t) \/ GivenUp(t)
      \/ Chunk(t) \/ Ended(t) \/ Store(t) \/ StoreMcp(t) \/ Copy(t) \/ Unregister(t)
      \/ NoWay(t)
      \/ \E p \in Ways : Route(t, p)
      \/ \E how \in Outcomes : Ends(t, how)

Spec == Init /\ [][Next]_vars

-------------------------------------------------------------------------------
(* Properties                                                              *)

TypeOK ==
    /\ path \in [Tasks -> Ways \cup {"none"}] /\ at \in [Tasks -> Places]
    /\ status \in [Tasks -> {"pending", "running"} \cup Final]
    /\ \A t \in Tasks : text[t] \in Seq(Outcomes \cup {"chunk"})
    /\ registered \subseteq Tasks /\ stop \subseteq Tasks
    /\ \A t \in Tasks : unread[t] <= sent[t] /\ sent[t] <= MaxChunks
    /\ outcome \in [Tasks -> Outcomes \cup {None}]

\* A task that is over is shown with what it ended with: its result begins with
\* the answer, although chunks that were copied late may follow it, nothing is
\* cancelled that nobody stopped, and nobody can stop what is over.
ShownAsEnded ==
    \A t \in Tasks :
      /\ status[t] \in Final =>
           /\ status[t] = StatusOf(text[t][1])
           /\ status[t] = "cancelled" => t \in stop
      /\ at[t] = "over" => status[t] \in Final /\ t \notin registered
      /\ path[t] \in Loops /\ t \in registered => status[t] \notin Final

\* No late answer, chunk or stop changes the status of a task that has ended.
Settled == \A t \in Tasks : status[t] \in Final => status'[t] = status[t]
StatusIsFinal == [][Settled]_vars

===============================================================================
