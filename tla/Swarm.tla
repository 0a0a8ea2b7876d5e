--------------------------------- MODULE Swarm ---------------------------------
(***************************************************************************)
(* The agents a node shows (swarm/manager.rs): its own and one for each    *)
(* peer, the timeline of their actions and the counts beside it, which are *)
(* behind locks of their own.  One task bridges the events of the network  *)
(* to the manager (node.rs).  Callers record actions, each in several      *)
(* steps; those of the program are offers of crews that this node works on *)
(* (runtime.rs: process_crew_worker_offer).                                *)
(***************************************************************************)
EXTENDS Naturals, Sequences, FiniteSets

CONSTANTS Locals, Remotes, Peers, Callers, MaxHistory, MaxActions, None

\* What is shown of an agent: the peer it stands for, None for the node's own.
Shown == [peer : Peers \cup {None}, state : {"idle", "offline"},
          actions : Nat, completed : Nat, failed : Nat]

\* Locals, Remotes: identifiers still to be given.  Bound: the actions begun.
SwarmAssumption ==
    /\ IsFiniteSet(Locals) /\ IsFiniteSet(Remotes) /\ IsFiniteSet(Callers)
    /\ Locals \cap Remotes = {} /\ Cardinality(Remotes) >= Cardinality(Peers)
    /\ None \notin Locals \cup Remotes \cup Peers /\ None \notin Shown
    /\ MaxHistory \in Nat \ {0} /\ MaxActions \in Nat

VARIABLES
    agents,     \* the agents by their identifier; None: not given yet
    index,      \* peer_to_agent
    bridge,     \* what the task that bridges still has to do
    op,         \* the action a caller records, and its next step
    stats,      \* total_actions and total_jobs
    history,    \* the numbers of the actions, oldest first
    begun,      \* actions begun
    offer       \* how far a caller is with the offer of a crew it works on

vars == <<agents, index, bridge, op, stats, history, begun, offer>>

NewAgent(p) == [peer |-> p, state |-> "idle", actions |-> 0, completed |-> 0, failed |-> 0]
Free == [step |-> "free", peer |-> None, agent |-> None]
Idle == [step |-> "idle", agent |-> None, number |-> 0]

\* serve and node register the node itself before anything else.
Init ==
    /\ \E a \in Locals : agents = [b \in Locals \cup Remotes |-> IF b = a THEN NewAgent(None) ELSE None]
    /\ index = [p \in Peers |-> None]
    /\ bridge = Free
    /\ op = [c \in Callers |-> Idle]
    /\ stats = [actions |-> 0, jobs |-> 0]
    /\ history = <<>> /\ begun = 0
    /\ offer = [c \in Callers |-> "none"]

Known == {a \in DOMAIN agents : agents[a] # None}

\* With --agent the node registers another one.
RegisterLocal(a) ==
    /\ a \in Locals \ Known
    /\ agents' = [agents EXCEPT ![a] = NewAgent(None)]
    /\ UNCHANGED <<index, bridge, op, stats, history, begun, offer>>

-------------------------------------------------------------------------------
(* Events of the network                                                   *)

\* A peer that is known keeps its agent, and its state.
PeerConnected(p, a) ==
    /\ bridge = Free /\ index[p] = None /\ a \in Remotes \ Known
    /\ agents' = [agents EXCEPT ![a] = NewAgent(p)]
    /\ bridge' = [step |-> "index", peer |-> p, agent |-> a]
    /\ UNCHANGED <<index, op, stats, history, begun, offer>>

\* The agent is in the table before it is in the index.
Indexed ==
    /\ bridge.step = "index" /\ bridge' = Free
    /\ index' = [index EXCEPT ![bridge.peer] = bridge.agent]
    /\ UNCHANGED <<agents, op, stats, history, begun, offer>>

SetState(a, state) ==
    /\ agents' = [agents EXCEPT ![a].state = state]
    /\ UNCHANGED <<index, bridge, op, stats, history, begun, offer>>

PeerDisconnected(p) ==
    /\ bridge = Free /\ index[p] # None
    /\ SetState(index[p], "offline")

\* A manifest of an unknown peer: the lock of the index is held for reading
\* while the peer is registered, which waits to write it.
Advertised(p) ==
    /\ bridge = Free /\ index[p] = None
    /\ \E a \in Remotes \ Known : agents' = [agents EXCEPT ![a] = NewAgent(p)]
    /\ bridge' = [bridge EXCEPT !.step = "stuck"]
    /\ UNCHANGED <<index, op, stats, history, begun, offer>>

-------------------------------------------------------------------------------
(* Recording an action                                                     *)

At(c, step) == op[c].step = step
Go(c, step) == op' = [op EXCEPT ![c].step = step]

\* record_job_action: a job that ended is counted first.
BeginAction(c, a, step) ==
    /\ At(c, "idle") /\ begun < MaxActions
    /\ begun' = begun + 1
    /\ op' = [op EXCEPT ![c] = [step |-> step, agent |-> a, number |-> begun + 1]]

RecordJob(c, a) ==
    /\ BeginAction(c, a, "job")
    /\ stats' = [stats EXCEPT !.jobs = @ + 1]
    /\ UNCHANGED <<agents, index, bridge, history, offer>>

JobResult(c) ==
    /\ At(c, "job") /\ Go(c, "agent")
    /\ \E result \in {"completed", "failed"} :
         agents' = [agents EXCEPT ![op[c].agent][result] = @ + 1]
    /\ UNCHANGED <<index, bridge, stats, history, begun, offer>>

\* record_action: the agent's count, the total and the timeline, one lock at a
\* time.
AgentCounts(c) ==
    /\ At(c, "agent") /\ Go(c, "total")
    /\ agents' = [agents EXCEPT ![op[c].agent].actions = @ + 1]
    /\ UNCHANGED <<index, bridge, stats, history, begun, offer>>

TotalCounts(c) ==
    /\ At(c, "total") /\ Go(c, "push")
    /\ stats' = [stats EXCEPT !.actions = @ + 1]
    /\ UNCHANGED <<agents, index, bridge, history, begun, offer>>

Trimmed(entries) == IF Len(entries) > MaxHistory THEN Tail(entries) ELSE entries

Push(c) ==
    /\ At(c, "push") /\ op' = [op EXCEPT ![c] = Idle]
    /\ history' = Trimmed(Append(history, op[c].number))
    /\ UNCHANGED <<agents, index, bridge, stats, begun, offer>>

-------------------------------------------------------------------------------
(* A crew's offer                                                          *)

\* Each stage is recorded for some local agent, with a type that is no job's.
Recorded(c, from, to) ==
    /\ offer[c] = from /\ offer' = [offer EXCEPT ![c] = to]
    /\ \E a \in Locals \cap Known : BeginAction(c, a, "agent")
    /\ UNCHANGED <<agents, index, bridge, stats, history>>

\* The offer is valid; the claim is published and recorded; the result of the
\* execution, or its error, as well.
TakeOffer(c) == Recorded(c, "none", "taken")
Claim(c) == Recorded(c, "taken", "claimed")
Result(c) == Recorded(c, "claimed", "none")

\* Without a local model, or when the executor refuses, the claim stands and no
\* result follows.
Abandon(c) ==
    /\ offer[c] = "claimed" /\ At(c, "idle")
    /\ offer' = [offer EXCEPT ![c] = "none"]
    /\ UNCHANGED <<agents, index, bridge, op, stats, history, begun>>

Next ==
    \/ \E a \in Locals : RegisterLocal(a)
    \/ \E p \in Peers : PeerDisconnected(p) \/ Advertised(p) \/ \E a \in Remotes : PeerConnected(p, a)
    \/ Indexed
    \/ \E c \in Callers :
         \/ \E a \in Known : RecordJob(c, a)
         \/ JobResult(c) \/ AgentCounts(c) \/ TotalCounts(c) \/ Push(c)
         \/ TakeOffer(c) \/ Claim(c) \/ Result(c) \/ Abandon(c)

Spec == Init /\ [][Next]_vars

-------------------------------------------------------------------------------
(* What the pages show                                                     *)

\* get_actions: a page of the timeline, counted from its end; subtraction
\* stops at 0.
Minus(m, n) == IF m > n THEN m - n ELSE 0
Page(limit, offset) ==
    LET total == Len(history)
    IN  IF offset >= total THEN <<>>
        ELSE SubSeq(history, Minus(total, offset + limit) + 1, Minus(total, offset))

\* api_swarm_topology: the node's own agents are connected with every peer's.
Edges == {e \in Known \X Known : agents[e[1]].peer = None /\ agents[e[2]].peer # None}

-------------------------------------------------------------------------------
(* Properties                                                              *)

Sum(f) ==
    LET sum[S \in SUBSET DOMAIN f] ==
          IF S = {} THEN 0 ELSE LET x == CHOOSE x \in S : TRUE IN f[x] + sum[S \ {x}]
    IN  sum[DOMAIN f]
Count(step) == Cardinality({c \in Callers : At(c, step)})

\* The counts of the agents, the totals and the timeline, kept under four locks
\* by several callers, differ by what is being recorded and nothing else; the
\* timeline holds the last actions, each once (record_action,
\* record_job_action).
CountsAgree ==
    /\ Sum([a \in Known |-> agents[a].actions]) = stats.actions + Count("total")
    /\ Sum([a \in Known |-> agents[a].completed + agents[a].failed]) + Count("job") = stats.jobs
    /\ LET stored == stats.actions - Count("push")
       IN  Len(history) = IF stored < MaxHistory THEN stored ELSE MaxHistory
    /\ \A i, j \in DOMAIN history : history[i] = history[j] => i = j

\* The pages of the timeline are the timeline, whatever their size (get_actions).
PagesWhole ==
    \A limit \in 1 .. MaxHistory :
      LET from[offset \in Nat] ==
            IF offset >= Len(history) THEN <<>> ELSE from[offset + limit] \o Page(limit, offset)
      IN  from[0] = history

\* The index names the one agent of each peer that is shown, unless it is just
\* being registered (register_peer_agent).
OneAgentEach ==
    \A a \in Known :
      LET p == agents[a].peer
      IN  p # None => index[p] = a \/ bridge.agent = a \/ bridge.step = "stuck"

===============================================================================
