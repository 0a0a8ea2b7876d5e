-------------------------------- MODULE Executor --------------------------------
(***************************************************************************)
(* The task executor (src/src/executor): it routes a task by what the      *)
(* monitor of resources says, runs it here or offers it to peers, and      *)
(* counts what runs.                                                       *)
(*                                                                         *)
(* Tasks run at the same time; each step below lies between two awaits of  *)
(* one of them.  fits stands for the RAM and VRAM that a task of its kind  *)
(* needs; load for the utilisation, below both thresholds, between them or *)
(* above.  No model is ever registered as loaded.                          *)
(***************************************************************************)
EXTENDS Naturals, FiniteSets

CONSTANTS Tasks, MaxInference, MaxWasm, None

\* stream: execute_inference_streaming; print: ..._streaming_print.
Kinds == {"inference", "stream", "print", "wasm", "web"}
Types == {"inference", "wasm", "web"}

ExecutorAssumption ==
    /\ MaxInference \in Nat /\ MaxWasm \in Nat
    /\ IsFiniteSet(Tasks) /\ None \notin Kinds

TypeOf(k) == IF k \in {"stream", "print"} THEN "inference" ELSE k

VARIABLES
    setup,              \* what the executor was built with, and may do
    resources,          \* what the monitor says
    active,             \* active tasks, by type
    task,               \* the kind of each task, None before it is given
    place               \* where each task is, or how it ended

vars == <<setup, resources, active, task, place>>

Setups == [network : BOOLEAN, remote : BOOLEAN, mayOffload : BOOLEAN, peers : BOOLEAN]
Resources == [fits : BOOLEAN, load : {"free", "busy", "full"}]
Places == {"new", "here", "offload", "remote", "running",
           "done", "error", "answered", "refused"}
Ended == {"done", "error", "answered", "refused"}

\* The monitor has seen nothing until its updates are started.
Init ==
    /\ setup \in Setups
    /\ resources = [fits |-> FALSE, load |-> "full"]
    /\ active = [y \in Types |-> 0]
    /\ task = [t \in Tasks |-> None] /\ place = [t \in Tasks |-> "new"]

Measure ==
    /\ resources' \in Resources
    /\ UNCHANGED <<setup, active, task, place>>

PeersChange ==
    /\ setup' = [setup EXCEPT !.peers = ~@]
    /\ UNCHANGED <<resources, active, task, place>>

\* max_concurrent_inference and max_concurrent_wasm; the web has no limit.
BelowLimit(k) ==
    CASE k \in {"inference", "stream"} -> active["inference"] < MaxInference
      [] k = "wasm" -> active["wasm"] < MaxWasm
      [] OTHER -> TRUE

\* route_with_requirements.
Decision(k) ==
    IF resources.fits /\ resources.load = "free" /\ BelowLimit(k) THEN "here"
    ELSE IF setup.mayOffload /\ (~resources.fits \/ resources.load = "full") THEN "offload"
    ELSE "refused"

Route(t, k) ==
    /\ place[t] = "new"
    /\ task' = [task EXCEPT ![t] = k]
    /\ place' = [place EXCEPT ![t] = IF k = "print" THEN "running" ELSE Decision(k)]
    /\ UNCHANGED <<setup, resources, active>>

\* task_started and task_completed.
Started(t) == active' = [active EXCEPT ![TypeOf(task[t])] = @ + 1]
Completed(t) == active' = [active EXCEPT ![TypeOf(task[t])] = IF @ = 0 THEN 0 ELSE @ - 1]

Start(t) ==
    /\ place[t] = "here"
    /\ Started(t)
    /\ place' = [place EXCEPT ![t] = "running"]
    /\ UNCHANGED <<setup, resources, task>>

\* Without peers or without a remote executor a task stays here.  A stream does
\* not look for peers, and is counted while it is away.
Offload(t) ==
    /\ place[t] = "offload"
    /\ IF task[t] = "stream"
       THEN /\ Started(t)
            /\ place' = [place EXCEPT ![t] = IF setup.remote THEN "remote" ELSE "running"]
       ELSE /\ place' = [place EXCEPT ![t] =
                  IF setup.remote /\ (setup.network => setup.peers) THEN "remote" ELSE "here"]
            /\ UNCHANGED active
    /\ UNCHANGED <<setup, resources, task>>

\* A remote answer may itself be an error.
RemoteAnswers(t) ==
    /\ place[t] = "remote"
    /\ place' = [place EXCEPT ![t] = "answered"]
    /\ IF task[t] = "stream" THEN Completed(t) ELSE UNCHANGED active
    /\ UNCHANGED <<setup, resources, task>>

\* A task that fails remotely is done here; a stream is already counted.
RemoteFails(t) ==
    /\ place[t] = "remote"
    /\ place' = [place EXCEPT ![t] = IF task[t] = "stream" THEN "running" ELSE "here"]
    /\ UNCHANGED <<setup, resources, active, task>>

\* Mutant: a task that fails leaves before it is counted.
FinishUncounted(t) ==
    /\ place[t] = "running"
    /\ \E p \in {"done", "error"} :
          /\ place' = [place EXCEPT ![t] = p]
          /\ IF task[t] = "print" \/ p = "error" THEN UNCHANGED active ELSE Completed(t)
    /\ UNCHANGED <<setup, resources, task>>

\* The engine, the fetch, the search or the sandbox succeeds or fails; either
\* way the task is completed.  What is printed is not counted.
Finish(t) ==
    /\ place[t] = "running"
    /\ \E p \in {"done", "error"} : place' = [place EXCEPT ![t] = p]
    /\ IF task[t] = "print" THEN UNCHANGED active ELSE Completed(t)
    /\ UNCHANGED <<setup, resources, task>>

Next ==
    \/ Measure \/ PeersChange
    \/ \E t \in Tasks :
          \/ \E k \in Kinds : Route(t, k)
          \/ Start(t) \/ Offload(t) \/ RemoteAnswers(t) \/ RemoteFails(t) \/ Finish(t)

Spec == Init /\ [][Next]_vars

-------------------------------------------------------------------------------
(* Properties                                                              *)

\* The counters that routing looks at are the tasks that run here or, of
\* streams, are away, whichever way these came and ended.
CountsRunning ==
    \A y \in Types :
        active[y] = Cardinality({t \in Tasks :
            /\ task[t] # None /\ TypeOf(task[t]) = y /\ task[t] # "print"
            /\ place[t] = "running" \/ (place[t] = "remote" /\ task[t] = "stream")})

\* What a task may not do here it may do elsewhere: with offloading allowed no
\* task is refused ("Cannot execute - insufficient resources everywhere",
\* router.rs).
NeverRefused == setup.mayOffload => \A t \in Tasks : place[t] # "refused"

===============================================================================
