-------------------------------- MODULE Routines --------------------------------
(***************************************************************************)
(* The routine engine (src/src/routines/mod.rs): routines are registered,  *)
(* and run when the engine starts, when their interval or schedule comes   *)
(* round, and when an event arrives.  Loops and tasks keep a copy of their *)
(* routine, so they go on for one that was unregistered or replaced.       *)
(*                                                                         *)
(* Loops of one routine differ in nothing, so they are counted, and only  *)
(* enabled routines are registered.  Starts do not overlap.                *)
(***************************************************************************)
EXTENDS Naturals, FiniteSets

CONSTANTS
    Routines,
    MaxStarts, MaxEvents,       \* bounds on starts of the engine and on events
    None

RoutinesAssumption ==
    /\ MaxStarts \in Nat /\ MaxEvents \in Nat
    /\ None # "Running" /\ \A some \in SUBSET Routines : some # None

\* timed: an interval or a cron schedule.
Triggers == {"startup", "timed", "event", "manual"}

VARIABLES
    trigger,            \* of each registered routine, None for others
    status, lastRun,
    running,            \* the flag of the engine
    startup,            \* startup routines left to run, None when not starting
    asleep,             \* loops of each routine that wait for their time
    spawned,            \* tasks of each routine that an event spawned
    busy,               \* runs of each routine, by who began them
    listening,          \* listeners that were spawned, and whether one has the lock
    events,             \* sent ever, and in the queue
    starts

vars == <<trigger, status, lastRun, running, startup, asleep, spawned, busy,
          listening, events, starts>>

Runners == {"start", "loop", "event"}
Outcomes == {"Completed", "Failed"}

Init ==
    /\ trigger = [r \in Routines |-> None] /\ lastRun = {} /\ running = FALSE /\ startup = None
    /\ status = [r \in Routines |-> None]
    /\ asleep = [r \in Routines |-> 0] /\ spawned = [r \in Routines |-> 0]
    /\ busy = [r \in Routines |-> [x \in Runners |-> 0]]
    /\ listening = [waiting |-> 0, recv |-> FALSE]
    /\ events = [sent |-> 0, queued |-> 0] /\ starts = 0

Register(r, g) ==
    /\ trigger' = [trigger EXCEPT ![r] = g]
    /\ status' = [status EXCEPT ![r] = "Idle"]
    /\ UNCHANGED <<lastRun, running, startup, asleep, spawned, busy, listening, events, starts>>

Unregister(r) ==
    /\ trigger[r] # None
    /\ trigger' = [trigger EXCEPT ![r] = None]
    /\ status' = [status EXCEPT ![r] = None]
    /\ UNCHANGED <<lastRun, running, startup, asleep, spawned, busy, listening, events, starts>>

\* start: first the startup routines, one after the other.
Start ==
    /\ startup = None /\ starts < MaxStarts
    /\ running' = TRUE /\ starts' = starts + 1
    /\ startup' = {r \in Routines : trigger[r] = "startup"}
    /\ UNCHANGED <<trigger, status, lastRun, asleep, spawned, busy, listening, events>>

\* Then a loop for each timed routine that is registered by then, and a
\* listener, whether or not those of an earlier start are still there.
Spawn ==
    /\ startup = {} /\ \A r \in Routines : busy[r]["start"] = 0
    /\ asleep' = [r \in Routines |-> asleep[r] + IF trigger[r] = "timed" THEN 1 ELSE 0]
    /\ listening' = [listening EXCEPT !.waiting = @ + 1]
    /\ startup' = None
    /\ UNCHANGED <<trigger, status, lastRun, running, spawned, busy, events, starts>>

Stop ==
    /\ running /\ running' = FALSE
    /\ UNCHANGED <<trigger, status, lastRun, startup, asleep, spawned, busy,
                   listening, events, starts>>

Begin(r, x) ==
    /\ status' = [status EXCEPT ![r] = "Running"]
    /\ busy' = [busy EXCEPT ![r][x] = @ + 1]

StartupBegins(r) ==
    /\ startup # None /\ r \in startup /\ \A q \in Routines : busy[q]["start"] = 0
    /\ startup' = startup \ {r}
    /\ Begin(r, "start")
    /\ UNCHANGED <<trigger, lastRun, running, asleep, spawned, listening, events, starts>>

\* A loop looks at the flag when it wakes, and leaves when the engine stopped.
Wake(r) ==
    /\ asleep[r] > 0
    /\ asleep' = [asleep EXCEPT ![r] = @ - 1]
    /\ IF running THEN Begin(r, "loop") ELSE UNCHANGED <<status, busy>>
    /\ UNCHANGED <<trigger, lastRun, running, startup, spawned, listening, events, starts>>

SendEvent ==
    /\ events.sent < MaxEvents
    /\ events' = [sent |-> events.sent + 1, queued |-> events.queued + 1]
    /\ UNCHANGED <<trigger, status, lastRun, running, startup, asleep, spawned, busy,
                   listening, starts>>

\* The next listener takes the lock, and looks at the flag.
Listen ==
    /\ ~listening.recv /\ listening.waiting > 0
    /\ listening' = [waiting |-> listening.waiting - 1, recv |-> running]
    /\ UNCHANGED <<trigger, status, lastRun, running, startup, asleep, spawned, busy,
                   events, starts>>

\* An event, or the timeout; then the flag again.
Event ==
    /\ listening.recv /\ events.queued > 0
    /\ events' = [events EXCEPT !.queued = @ - 1]
    /\ spawned' = [r \in Routines |-> spawned[r] + IF trigger[r] = "event" THEN 1 ELSE 0]
    /\ listening' = [listening EXCEPT !.recv = running]
    /\ UNCHANGED <<trigger, status, lastRun, running, startup, asleep, busy, starts>>

ListenerLeaves ==
    /\ listening.recv /\ ~running
    /\ listening' = [listening EXCEPT !.recv = FALSE]
    /\ UNCHANGED <<trigger, status, lastRun, running, startup, asleep, spawned, busy,
                   events, starts>>

EventBegins(r) ==
    /\ spawned[r] > 0
    /\ spawned' = [spawned EXCEPT ![r] = @ - 1]
    /\ Begin(r, "event")
    /\ UNCHANGED <<trigger, lastRun, running, startup, asleep, listening, events, starts>>

\* The executor has its result; a loop looks at the flag and sleeps again.
End(r, x) ==
    /\ busy[r][x] > 0
    /\ busy' = [busy EXCEPT ![r][x] = @ - 1]
    /\ \E s \in Outcomes : status' = [status EXCEPT ![r] = s]
    /\ lastRun' = lastRun \cup {r}
    /\ asleep' = IF x = "loop" /\ running THEN [asleep EXCEPT ![r] = @ + 1] ELSE asleep
    /\ UNCHANGED <<trigger, running, startup, spawned, listening, events, starts>>

Next ==
    \/ \E r \in Routines :
          \/ \E g \in Triggers : Register(r, g)
          \/ Unregister(r) \/ StartupBegins(r) \/ Wake(r) \/ EventBegins(r)
          \/ \E x \in Runners : End(r, x)
    \/ Start \/ Spawn \/ Stop \/ SendEvent \/ Listen \/ Event \/ ListenerLeaves

Spec == Init /\ [][Next]_vars

-------------------------------------------------------------------------------
(* Properties                                                              *)

InProgress(r) == \E x \in Runners : busy[r][x] > 0

\* A routine that is shown as running is running, however its runs overlap and
\* whenever it was registered again.
RunningIsRunning == \A r \in Routines : status[r] = "Running" => InProgress(r)

\* A routine has at most one loop for each start of the engine, however starts,
\* stops and registrations overlap: those of an earlier start may stay.
LoopsBounded == \A r \in Routines : asleep[r] + busy[r]["loop"] <= starts

===============================================================================
