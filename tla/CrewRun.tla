-------------------------------- MODULE CrewRun --------------------------------
(***************************************************************************)
(* Crews: the records of their runs (src/src/crew/store.rs), the handlers  *)
(* that kick off and stop them (src/src/web/mod.rs), the loop of the node  *)
(* that runs them one after the other (src/src/cli/serve.rs), the tasks of *)
(* a run (src/src/crew/orchestrator.rs), and the offers of a distributed   *)
(* crew, which other nodes claim and answer (src/src/runtime.rs).          *)
(*                                                                         *)
(* A crew is [process, manager, distributed, tasks] and a task is [id,     *)
(* agent, context].  The answer of the i-th task of a run is the number i; *)
(* 0 is no answer, and a run without an output has the empty one.          *)
(* What the agents do is AgentTask and UnifiedLoop.                        *)
(***************************************************************************)
EXTENDS Naturals, Sequences, FiniteSets

CONSTANTS
    Runs,
    Crews,              \* crews that are kicked off
    Agents,             \* of every crew, but for the manager it may name
    TaskIds,
    Capacity,           \* of crew_kickoff_tx
    None

CrewAssumption ==
    /\ Capacity \in Nat \ {0} /\ None \notin Runs \cup Agents \cup Crews
    /\ Agents # {} /\ IsFiniteSet(Agents)
    /\ \A c \in Crews :
         /\ c.tasks \in Seq({c.tasks[i] : i \in DOMAIN c.tasks})
         /\ \A i \in DOMAIN c.tasks :
              c.tasks[i].id \in TaskIds /\ c.tasks[i].context \subseteq TaskIds

VARIABLES
    crew,               \* the crew of each run, None before its kickoff
    status, output,     \* its record
    stop,               \* its cancel flag
    accepted,           \* runs whose kickoff succeeded
    queue,              \* crew_kickoff_tx
    now,                \* the run that is running, None when there is none
    outputs,            \* answer of each task id
    done,               \* tasks_output
    busy,               \* the task that is running, or None
    gossip              \* messages published on CREW_TASK_TOPIC

records == <<crew, status, output, stop, accepted>>
running == <<now, outputs, done, busy>>
vars == <<records, queue, running, gossip>>


-------------------------------------------------------------------------------
(* Specifications                                                          *)

Managed == {"hierarchical", "delegate"}

\* The manager may be anyone.
ValidateTasks(c) ==
    /\ c.tasks # <<>>
    /\ \A i \in DOMAIN c.tasks :
         /\ c.tasks[i].agent \in Agents
         /\ c.tasks[i].context \subseteq {c.tasks[j].id : j \in DOMAIN c.tasks}

Validate(c) ==
    /\ c.tasks # <<>>
    /\ \A i \in DOMAIN c.tasks :
         /\ c.tasks[i].agent \in Agents
         /\ c.tasks[i].context \subseteq {c.tasks[j].id : j \in DOMAIN c.tasks}
    /\ c.process \in Managed /\ c.manager # None => c.manager \in Agents

\* Without a manager the first agent manages.
Managers(c) == IF c.manager = None THEN Agents ELSE {c.manager}

\* Who may run a task: in a delegating crew the agents other than the manager,
\* by a score, and the agent of the task only when there are none.
Chosen(c, task) ==
    IF c.process # "delegate" THEN {task.agent} \cap Agents
    ELSE {a \in Agents : \E m \in Managers(c) :
            a # m \/ (Agents \subseteq {m} /\ a = task.agent)}

-------------------------------------------------------------------------------

NoOutput == [raw |-> 0, tasks |-> <<>>]

Init ==
    /\ crew = [r \in Runs |-> None] /\ status = [r \in Runs |-> "none"]
    /\ output = [r \in Runs |-> NoOutput] /\ stop = [r \in Runs |-> FALSE]
    /\ accepted = {} /\ queue = <<>> /\ gossip = {}
    /\ now = None /\ outputs = [t \in TaskIds |-> 0] /\ done = <<>> /\ busy = None

\* A crew that is not valid leaves no record; the record of a valid one is
\* stored before the queue may turn out to be full.
Kickoff(r, c) ==
    /\ crew[r] = None /\ Validate(c)
    /\ crew' = [crew EXCEPT ![r] = c] /\ status' = [status EXCEPT ![r] = "pending"]
    /\ IF Len(queue) < Capacity
       THEN queue' = Append(queue, r) /\ accepted' = accepted \cup {r}
       ELSE UNCHANGED <<queue, accepted>>
    /\ UNCHANGED <<output, stop, running, gossip>>

Stop(r) ==
    /\ crew[r] # None /\ ~stop[r]
    /\ stop' = [stop EXCEPT ![r] = TRUE]
    /\ UNCHANGED <<crew, status, output, accepted, queue, running, gossip>>

Take ==
    /\ now = None /\ queue # <<>>
    /\ now' = Head(queue) /\ queue' = Tail(queue)
    /\ status' = [status EXCEPT ![Head(queue)] = "running"]
    /\ UNCHANGED <<crew, output, stop, accepted, outputs, done, busy, gossip>>

Finish(how, out) ==
    /\ status' = [status EXCEPT ![now] = how]
    /\ output' = [output EXCEPT ![now] = out]
    /\ now' = None
    /\ outputs' = [t \in TaskIds |-> 0] /\ done' = <<>>
    /\ UNCHANGED <<crew, stop, accepted, queue, busy>>

TaskOf(c) == c.tasks[Len(done) + 1]

\* A manager that is missing ends the run; one that plans and fails does not.
Lost(c) ==
    \/ Chosen(c, TaskOf(c)) = {}
    \/ c.process = "hierarchical" /\ c.manager \notin Agents \cup {None}

\* The context of a task: what there already is of the tasks it names.
Given(task) == {outputs[t] : t \in {u \in task.context : outputs[u] # 0}}

Begin ==
    /\ now # None /\ busy = None /\ Len(done) < Len(crew[now].tasks)
    /\ IF Lost(crew[now]) THEN Finish("failed", NoOutput) /\ UNCHANGED gossip
       ELSE /\ \E a \in Chosen(crew[now], TaskOf(crew[now])) :
                 busy' = [agent |-> a, given |-> Given(TaskOf(crew[now]))]
            /\ UNCHANGED <<records, queue, now, outputs, done, gossip>>

\* A task that failed or was stopped leaves an answer all the same.
End(success) ==
    /\ busy # None /\ (success => ~stop[now])
    /\ outputs' = [outputs EXCEPT ![TaskOf(crew[now]).id] = Len(done) + 1]
    /\ done' = Append(done, [id |-> TaskOf(crew[now]).id, agent |-> busy.agent,
                             given |-> busy.given, success |-> success])
    /\ busy' = None
    /\ UNCHANGED <<records, queue, now, gossip>>

\* A distributed crew offers its tasks to others once they are done here.
Complete ==
    /\ now # None /\ Len(done) = Len(crew[now].tasks)
    /\ Finish("completed", [raw |-> outputs[crew[now].tasks[Len(done)].id], tasks |-> done])
    /\ gossip' = IF crew[now].distributed
                 THEN gossip \cup {<<"offer", now, i>> : i \in DOMAIN done} ELSE gossip

\* Claims and results are read and only logged; offers are acted upon by a node
\* that is set to be a worker.
ActedUpon(message) == message[1] = "offer"

\* Another node claims an offer as soon as it hears of it; it answers unless it
\* has no model, and whether or not its model does.
Work(offer, answers) ==
    /\ offer \in gossip /\ ActedUpon(offer)
    /\ gossip' = gossip \cup {<<"claim", offer[2], offer[3]>>}
                        \cup (IF answers THEN {<<"result", offer[2], offer[3]>>} ELSE {})
    /\ UNCHANGED <<records, queue, running>>

Run == Begin \/ (\E success \in BOOLEAN : End(success)) \/ Complete

Next ==
    \/ \E r \in Runs : Stop(r) \/ \E c \in Crews : Kickoff(r, c)
    \/ Take \/ Run
    \/ \E offer \in gossip, answers \in BOOLEAN : Work(offer, answers)

Spec == Init /\ [][Next]_vars

-------------------------------------------------------------------------------
(* Properties                                                              *)

TypeOK ==
    /\ crew \in [Runs -> Crews \cup {None}] /\ stop \in [Runs -> BOOLEAN]
    /\ status \in [Runs -> {"none", "pending", "running", "completed", "failed"}]
    /\ accepted \subseteq Runs /\ Len(queue) <= Capacity
    /\ now \in Runs \cup {None} /\ outputs \in [TaskIds -> Nat]
    /\ busy = None \/ busy \in [agent : Agents, given : SUBSET Nat]

\* No crew that validate (spec.rs) lets pass fails for want of a manager or an
\* agent, which the orchestrator looks up again.
ValidIsEnough == \A r \in Runs : status[r] # "failed"

\* A run whose kickoff was reported as a success waits once in the queue, is
\* the one that runs, or has its output; one that was refused stays pending.
RecordsAgree ==
    \A r \in Runs :
      LET places == Cardinality({i \in DOMAIN queue : queue[i] = r})
      IN  /\ status[r] = "pending" => places = IF r \in accepted THEN 1 ELSE 0
          /\ status[r] = "running" <=> now = r
          /\ places > 0 => status[r] = "pending" /\ r \in accepted
          /\ status[r] = "completed" <=> output[r] # NoOutput

\* The output has one entry for each task in its order, ends with the answer of
\* the last, and each task was given the latest answers of the tasks it names
\* that stand before it, and of no others.
OutputIsWhole ==
    \A r \in Runs : output[r] # NoOutput =>
      LET c == crew[r] out == output[r].tasks
          Last(t, i) == {j \in 1 .. i - 1 : out[j].id = t /\ \A k \in j + 1 .. i - 1 : out[k].id # t}
      IN  /\ DOMAIN out = DOMAIN c.tasks /\ output[r].raw = Len(c.tasks)
          /\ \A i \in DOMAIN out :
               /\ out[i].id = c.tasks[i].id
               /\ c.process = "sequential" => out[i].agent = c.tasks[i].agent
               /\ out[i].given = UNION {Last(t, i) : t \in c.tasks[i].context}

\* A node answers what it has claimed, claims what was offered, and only tasks
\* of completed runs are offered.
OffersFollowRuns ==
    \A m \in gossip :
      /\ m[1] = "result" => <<"claim", m[2], m[3]>> \in gossip
      /\ m[1] = "claim" => <<"offer", m[2], m[3]>> \in gossip
      /\ status[m[2]] = "completed"

===============================================================================
