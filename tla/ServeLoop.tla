------------------------------- MODULE ServeLoop -------------------------------
(***************************************************************************)
(* The main loop of `peerclaw serve` (src/src/cli/serve.rs) and those who  *)
(* wait for it: handlers of the web server (src/src/web/mod.rs), the tools *)
(* of agents (src/src/tools), and the TaskExecutor (src/src/executor) with *)
(* its marketplace requests.                                               *)
(*                                                                         *)
(* One task polls the network, receives from every channel in turn and     *)
(* awaits the work it receives before it goes on: inference, sub-agents,   *)
(* agent tasks, crews and flows all run inside the loop.  Some of them     *)
(* send to a channel that only the loop receives from.                     *)
(*                                                                         *)
(* An item <<who, n>> is the n-th piece of work of a caller or a run; it   *)
(* stands for the job id drawn when that work is offered to the network.   *)
(* What models answer and tools do is left open.                           *)
(***************************************************************************)
EXTENDS Naturals, Sequences, FiniteSets

CONSTANTS
    Chats,          \* web requests for one answer, which time out
    Tasks,          \* agentic web requests: a loop of model and tool calls
    Submits,        \* job submissions of the web UI
    Agents,         \* tasks for the agent of --agent
    Crews, Flows,   \* kicked off runs
    Offers,         \* jobs of other peers this node won
    SubAgent,       \* the agent of --agent, run by agent_spawn
    None,
    Capacity,       \* of every channel
    MaxTurns        \* AGENTIC_MAX_ITERS, MAX_ITERATIONS

Kickoffs == Crews \cup Flows
Callers == Chats \cup Tasks \cup Submits \cup Agents
Runs == Agents \cup Kickoffs
Workers == Callers \cup Kickoffs \cup Offers \cup {SubAgent}
Items == Workers \X (0 .. MaxTurns)

\* Who waits for an answer has a name of its own, apart from those of runs.
ASSUME ServeAssumption ==
    /\ Capacity \in Nat \ {0} /\ MaxTurns \in Nat \ {0}
    /\ None \notin Workers \cup Items
    /\ (Chats \cup Tasks \cup Submits) \cap (Runs \cup Offers \cup {SubAgent}) = {}
    /\ SubAgent \notin Kickoffs

VARIABLES
    withAgent,      \* setting: --agent was given
    offload,        \* setting: allow_network_offload
    at,             \* where the loop is
    exec,           \* the item TaskExecutor::execute is busy with
    run, step,      \* the agent run inside the loop, and where it is
    queue,          \* the channels the loop receives from
    state,          \* what each caller does
    turn,           \* model or tool calls of each worker so far
    record,         \* CrewRunStore, FlowRunStore: status of each run
    stop,           \* runs whose cancel flag is set
    peers,          \* the network has connected peers
    requested,      \* JobManager.requests
    named,          \* those that name this node as their requester
    unsent, sent,   \* requests handed to gossipsub; received by peers
    arrived, bids,  \* bids the swarm has not polled; JobManager.bids
    accepted,       \* history: items whose bid was accepted
    ranHere         \* history: items executed on this node

settings == <<withAgent, offload>>
market == <<peers, requested, named, unsent, sent, arrived, bids, accepted>>
runs == <<run, step, record, stop>>
vars == <<settings, at, exec, runs, queue, state, turn, market, ranHere>>

Stages == {"poll", "infer", "submit", "tools", "agent", "crews", "flows", "signal", "tick"}
Channels == {"infer", "submit", "tools", "agent", "crews", "flows"}
ToolAsks == {"query", "job", "llm", "spawn"}

\* The order of one iteration.
Following == [poll |-> "infer", infer |-> "submit", submit |-> "tools", tools |-> "agent",
              agent |-> "crews", crews |-> "flows", flows |-> "signal", signal |-> "tick",
              tick |-> "poll"]

Asks == {"run", "infer", "submit"} \cup ToolAsks

Messages == [who : Workers, n : 0 .. MaxTurns, ask : Asks]

Idle == [item |-> None, stage |-> "idle"]

TypeOK ==
    /\ withAgent \in BOOLEAN /\ offload \in BOOLEAN
    /\ at \in Stages \cup {"stopped"}
    /\ exec \in [item : Items \cup {None},
                 stage : {"idle", "collect", "local", "remote", "refused"}]
    /\ run \in Runs \cup {SubAgent, None}
    /\ step \in {"idle", "think", "model", "act", "self", "spawn"}
    /\ queue \in [Channels -> Seq(Messages)]
    /\ \A c \in Channels : Len(queue[c]) <= Capacity
    /\ state \in [Callers -> [is : {"idle", "sending", "waiting", "done", "gaveup", "gone"},
                              ask : Asks]]
    /\ turn \in [Workers -> 0 .. MaxTurns]
    /\ record \in [Kickoffs -> {"none", "pending", "running", "finished"}]
    /\ stop \subseteq Runs
    /\ peers \in BOOLEAN
    /\ requested \subseteq Items /\ named \subseteq requested /\ unsent \subseteq Items /\ sent \subseteq Items
    /\ arrived \subseteq Items /\ bids \subseteq Items
    /\ accepted \subseteq Items /\ ranHere \subseteq Items

Init ==
    /\ withAgent \in BOOLEAN /\ offload \in BOOLEAN
    /\ at = "poll"
    /\ exec = Idle
    /\ run = None /\ step = "idle"
    /\ queue = [c \in Channels |-> <<>>]
    /\ state = [c \in Callers |-> [is |-> "idle", ask |-> "run"]]
    /\ turn = [w \in Workers |-> 0]
    /\ record = [k \in Kickoffs |-> "none"]
    /\ stop = {}
    /\ peers = FALSE
    /\ requested = {} /\ named = {} /\ unsent = {} /\ sent = {} /\ arrived = {} /\ bids = {}
    /\ accepted = {} /\ ranHere = {}

-------------------------------------------------------------------------------
(* Channels.                                                               *)

ChannelOf(ask) == IF ask \in ToolAsks THEN "tools"
                  ELSE IF ask = "run" THEN "agent" ELSE ask

HasRoom(c) == Len(queue[c]) < Capacity

Put(c, m) == queue' = [queue EXCEPT ![c] = Append(@, m)]

Take(c) == queue' = [queue EXCEPT ![c] = Tail(@)]

\* Mutant: the error of a refused task is not sent back.
AnsweredUnlessRefused(m) ==
    IF m.who \in Callers /\ turn[m.who] = m.n /\ state[m.who].is = "waiting"
        /\ exec.stage # "refused"
    THEN [state EXCEPT ![m.who].is = IF m.who \in Tasks THEN "idle" ELSE "done"]
    ELSE state

\* The caller whose oneshot channel m carries gets an answer, if it still waits.
\* A task's answer lets it go on.
Answered(m) ==
    IF m.who \in Callers /\ turn[m.who] = m.n /\ state[m.who].is = "waiting"
    THEN [state EXCEPT ![m.who].is = IF m.who \in Tasks THEN "idle" ELSE "done"]
    ELSE state

-------------------------------------------------------------------------------
(* TaskExecutor::execute and execute_inference_streaming.  The resource    *)
(* monitor of the node is never started, so that the router finds 0 MB of  *)
(* RAM for every task: none is routed to this node.                        *)

\* RemoteExecutor::broadcast_request stores the request, which names no requester,
\* and then publishes it; gossipsub may refuse, and sends once the swarm is polled.
Publish(i, published) ==
    /\ requested' = requested \cup {i}
    /\ unsent' = unsent \cup {j \in {i} : published}
    /\ UNCHANGED <<peers, sent, arrived, bids, accepted>>

Broadcast(i, published) == Publish(i, published) /\ UNCHANGED named

Begin(i, stage) == exec' = [item |-> i, stage |-> stage]

Start(i, streaming) ==
    \/ /\ ~offload
       /\ Begin(i, "refused")
       /\ UNCHANGED market
    \* Only the streaming path offers a task when no peer is connected.
    \/ /\ offload /\ ~peers
       /\ Begin(i, "local")
       /\ IF streaming THEN Broadcast(i, FALSE) ELSE UNCHANGED market
    \/ /\ offload /\ peers
       /\ \E published \in BOOLEAN :
             /\ Begin(i, IF published THEN "collect" ELSE "local")
             /\ Broadcast(i, published)

\* JobManager::get_bids, when collect_bids has slept.
HasBid(i) == i \in bids

\* No bid: fall back to this node.
Collect ==
    /\ exec.stage = "collect"
    /\ exec' = [exec EXCEPT !.stage = IF HasBid(exec.item) THEN "remote" ELSE "local"]
    /\ accepted' = accepted \cup {i \in {exec.item} : HasBid(i)}
    /\ UNCHANGED <<settings, at, runs, queue, state, turn, ranHere>>
    /\ UNCHANGED <<peers, requested, named, unsent, sent, arrived, bids>>

\* Where the loop stands after the execution.
Resumed == IF run # None THEN at ELSE Following[at]

\* The result goes to whoever asked for it.
Finish ==
    /\ exec.stage \in {"local", "remote", "refused"}
    /\ exec' = Idle
    /\ ranHere' = ranHere \cup {i \in {exec.item} : exec.stage = "local"}
    /\ at' = Resumed
    /\ IF run # None
       THEN step' = "act" /\ UNCHANGED state
       ELSE /\ state' = Answered([who |-> exec.item[1], n |-> exec.item[2]])
            /\ UNCHANGED step
    /\ UNCHANGED <<settings, run, record, stop, queue, turn, market>>

-------------------------------------------------------------------------------
(* One iteration of the loop.                                              *)

Free(stage) == at = stage /\ exec = Idle /\ run = None

Advance == at' = Following[at]

\* A swarm event, or 10 ms without one.  Polling also sends what was published,
\* if a peer is connected.
Poll ==
    /\ Free("poll")
    /\ Advance
    /\ sent' = sent \cup {i \in unsent : peers}
    /\ unsent' = {}
    /\ \/ peers' \in BOOLEAN /\ UNCHANGED <<arrived, bids>>
       \/ /\ UNCHANGED peers
          /\ \E i \in arrived :
                /\ arrived' = arrived \ {i}
                /\ bids' = bids \cup ({i} \cap requested)
    /\ UNCHANGED <<settings, exec, runs, queue, state, turn, requested, named, accepted, ranHere>>

\* BidAccepted for a bid of this node: execute_provider_job.
PollOffer ==
    /\ Free("poll")
    /\ \E o \in Offers :
          /\ turn[o] = 0
          /\ turn' = [turn EXCEPT ![o] = 1]
          /\ Start(<<o, 1>>, FALSE)
    /\ UNCHANGED <<settings, at, runs, queue, state, ranHere>>

Skip(stage) ==
    /\ Free(stage)
    /\ queue[stage] = <<>>
    /\ Advance
    /\ UNCHANGED <<settings, exec, runs, queue, state, turn, market, ranHere>>

Infer ==
    /\ Free("infer")
    /\ queue["infer"] # <<>>
    /\ LET m == Head(queue["infer"])
       IN  \E streaming \in BOOLEAN : Start(<<m.who, m.n>>, streaming)
    /\ Take("infer")
    /\ UNCHANGED <<settings, at, runs, state, turn, ranHere>>

\* handle_job_submit, which may refuse the request, for the web UI and for tools.
SubmitJob(i) ==
    \/ /\ \E published \in BOOLEAN : Publish(i, published)
       /\ named' = named \cup {i}
    \/ UNCHANGED market

Submit ==
    /\ Free("submit")
    /\ queue["submit"] # <<>>
    /\ LET m == Head(queue["submit"])
       IN  /\ SubmitJob(<<m.who, m.n>>)
           /\ state' = Answered(m)
    /\ Take("submit")
    /\ Advance
    /\ UNCHANGED <<settings, exec, runs, turn, ranHere>>

\* NodeToolCommand: lookups, job submissions, llm_task, agent_spawn.
Tool ==
    /\ Free("tools")
    /\ queue["tools"] # <<>>
    /\ Take("tools")
    /\ LET m == Head(queue["tools"])
       IN  \/ /\ m.ask = "query" \/ (m.ask = "spawn" /\ ~withAgent)
             /\ state' = Answered(m)
             /\ Advance
             /\ UNCHANGED <<exec, run, step, market>>
          \/ /\ m.ask = "job"
             /\ SubmitJob(<<m.who, m.n>>)
             /\ state' = Answered(m)
             /\ Advance
             /\ UNCHANGED <<exec, run, step>>
          \/ /\ m.ask = "llm"
             /\ Start(<<m.who, m.n>>, FALSE)
             /\ UNCHANGED <<at, run, step, state>>
          \/ /\ m.ask = "spawn" /\ withAgent
             /\ run' = SubAgent /\ step' = "think"
             /\ UNCHANGED <<at, exec, state, market>>
    /\ UNCHANGED <<settings, record, stop, turn, ranHere>>

\* An agent task, a crew or a flow begins; the crews and flows that wait are run
\* one after the other in the same iteration.
StartRun(stage) ==
    /\ Free(stage)
    /\ queue[stage] # <<>>
    /\ LET m == Head(queue[stage])
       IN  /\ run' = m.who
           /\ record' = IF m.who \in Kickoffs
                        THEN [record EXCEPT ![m.who] = "running"] ELSE record
    /\ step' = "think"
    /\ Take(stage)
    /\ UNCHANGED <<settings, at, exec, stop, state, turn, market, ranHere>>

\* ctrl_c().now_or_never() listens for an instant; a signal at any other time is
\* not seen.
Signal(interrupted) ==
    /\ Free("signal")
    /\ IF interrupted
       THEN /\ at' = "stopped"
            /\ state' = [c \in Callers |-> IF state[c].is \in {"sending", "waiting"}
                                           THEN [state[c] EXCEPT !.is = "gone"] ELSE state[c]]
       ELSE Advance /\ UNCHANGED state
    /\ UNCHANGED <<settings, exec, runs, queue, turn, market, ranHere>>

\* Mutant: the requester is not compared.
MineUnchecked(i) == TRUE

\* auto_accept_bids looks at the requests whose requester is this node.
Mine(i) == i \in named

Acceptable == {i \in requested : Mine(i) /\ HasBid(i)}

Tick ==
    /\ Free("tick")
    /\ Advance
    /\ \E due \in SUBSET Acceptable :
          /\ accepted' = accepted \cup due
          /\ requested' = requested \ due
          /\ named' = named \ due
    /\ UNCHANGED <<settings, exec, runs, queue, state, turn, ranHere>>
    /\ UNCHANGED <<peers, unsent, sent, arrived, bids>>

-------------------------------------------------------------------------------
(* An agent run inside the loop: AgentRuntime::run_task_with_session.      *)

\* Mutant: a run that waits for the loop goes on.
AtIterationWaiting == run # None /\ step \in {"think", "self"}

\* The cancel flag of agent tasks and crews is read at the start of an iteration.
AtIteration == run # None /\ step = "think"

Stopped == run \in stop

MoreTurns == turn[run] < MaxTurns

NextTurn == [turn EXCEPT ![run] = @ + 1]

\* What a run waits for is sent to a channel of this loop; a full channel makes
\* it wait as well.
Request(ask, waiting) ==
    LET c == ChannelOf(ask)
        m == [who |-> run, n |-> turn[run], ask |-> ask]
    IN  IF HasRoom(c) THEN Put(c, m) /\ step' = waiting
                      ELSE step' = "self" /\ UNCHANGED queue

\* With an agent every model call goes through WebChannelInferenceSink; the
\* nodes of a flow may call the executor.
ThinkBySink ==
    /\ AtIteration /\ ~Stopped /\ MoreTurns
    /\ withAgent
    /\ Request("infer", "self")
    /\ turn' = NextTurn
    /\ UNCHANGED <<settings, at, exec, run, record, stop, state, market, ranHere>>

ThinkDirectly ==
    /\ AtIteration /\ ~Stopped /\ MoreTurns
    /\ ~withAgent \/ run \in Flows
    /\ Start(<<run, turn[run] + 1>>, FALSE)
    /\ step' = "model"
    /\ turn' = NextTurn
    /\ UNCHANGED <<settings, at, run, record, stop, queue, state, ranHere>>

\* A tool that answers by itself, and one that asks the loop; only agent_spawn
\* gives up waiting.  job_submit asks when nothing is missing in what it is given,
\* job_status, peer_discovery and wallet_balance always do.
AnswersItself == step' = "think" /\ UNCHANGED queue
AskToSubmit == Request("job", "self")
LookUp == Request("query", "self")
AskForWork == Request("llm", "self") \/ Request("spawn", "spawn")

UseTool ==
    /\ step = "act"
    /\ AnswersItself \/ AskToSubmit \/ LookUp \/ AskForWork
    /\ UNCHANGED <<settings, at, exec, run, record, stop, state, turn, market, ranHere>>

SpawnTimeout ==
    /\ step = "spawn"
    /\ step' = "act"
    /\ UNCHANGED <<settings, at, exec, run, record, stop, queue, state, turn, market, ranHere>>

\* Mutant: the result is not recorded.
CompletedForgotten == record

\* complete_ok and complete_err.
Completed == IF run \in Kickoffs THEN [record EXCEPT ![run] = "finished"] ELSE record

\* A final answer, a stop, the last iteration; or a specification that is not
\* valid, a flow without a model, a budget that is used up.
EndRun ==
    /\ \/ step = "act"
       \/ AtIteration /\ (Stopped \/ ~MoreTurns \/ run \in Kickoffs)
    /\ record' = Completed
    /\ run' = None /\ step' = "idle"
    /\ state' = IF run \in Callers THEN Answered([who |-> run, n |-> turn[run]]) ELSE state
    /\ at' = IF run \in Kickoffs THEN at ELSE Following[at]
    /\ UNCHANGED <<settings, exec, stop, queue, turn, market, ranHere>>

LoopStep ==
    \/ Poll \/ PollOffer
    \/ \E c \in Channels : Skip(c)
    \/ Infer \/ Submit \/ Tool
    \/ \E c \in {"agent", "crews", "flows"} : StartRun(c)
    \/ Signal(FALSE) \/ Tick
    \/ Collect \/ Finish
    \/ ThinkBySink \/ ThinkDirectly \/ UseTool \/ SpawnTimeout \/ EndRun

-------------------------------------------------------------------------------
(* Those who wait for the loop.                                            *)

Asked(c) ==
    CASE c \in Chats -> {"infer"}
      [] c \in Submits -> {"submit"}
      [] c \in Agents -> {a \in {"run"} : withAgent}
      [] c \in Tasks -> {"infer"} \cup ToolAsks

\* A new request, sent as soon as the channel has room.
Ask(c) ==
    /\ state[c].is = "idle" /\ turn[c] < (IF c \in Tasks THEN MaxTurns ELSE 1)
    /\ at # "stopped"
    /\ \E ask \in Asked(c) : state' = [state EXCEPT ![c] = [is |-> "sending", ask |-> ask]]
    /\ turn' = [turn EXCEPT ![c] = IF c \in Agents THEN 0 ELSE @ + 1]
    /\ UNCHANGED <<settings, at, exec, runs, queue, market, ranHere>>

Send(c) ==
    LET ask == state[c].ask
        m == [who |-> c, n |-> turn[c], ask |-> ask]
    IN  /\ state[c].is = "sending"
        /\ HasRoom(ChannelOf(ask))
        /\ Put(ChannelOf(ask), m)
        /\ state' = [state EXCEPT ![c].is = "waiting"]
        /\ UNCHANGED <<settings, at, exec, runs, turn, market, ranHere>>

\* 60 or 120 s for an answer, 30 s for a submission, 300 s for an agent task, the
\* timeout of agent_spawn; the model calls of a task have none.
Patient(c) == c \in Tasks /\ state[c].ask # "spawn"

GiveUp(c) ==
    /\ state[c].is = "waiting" /\ ~Patient(c)
    /\ state' = [state EXCEPT ![c].is = IF c \in Tasks THEN "idle" ELSE "gaveup"]
    /\ UNCHANGED <<settings, at, exec, runs, queue, turn, market, ranHere>>

\* api_crew_kickoff, api_flow_kickoff: the record is kept when the channel is full.
Kickoff(k) ==
    LET c == IF k \in Crews THEN "crews" ELSE "flows"
    IN  /\ record[k] = "none" /\ at # "stopped"
        /\ record' = [record EXCEPT ![k] = "pending"]
        /\ IF HasRoom(c) THEN Put(c, [who |-> k, n |-> 0, ask |-> "run"]) ELSE UNCHANGED queue
        /\ UNCHANGED <<settings, at, exec, run, step, stop, state, turn, market, ranHere>>

\* api_crew_stop, api_task_stop.
Stop(r) ==
    /\ r \notin stop
    /\ \/ r \in Agents /\ state[r].is \in {"sending", "waiting"}
       \/ r \in Crews /\ record[r] # "none"
    /\ stop' = stop \cup {r}
    /\ UNCHANGED <<settings, at, exec, run, step, record, queue, state, turn, market, ranHere>>

\* A peer that received a request bids for it.
PeerBid(i) ==
    /\ i \in sent /\ peers
    /\ sent' = sent \ {i}
    /\ arrived' = arrived \cup {i}
    /\ UNCHANGED <<settings, at, exec, runs, queue, state, turn, ranHere>>
    /\ UNCHANGED <<peers, requested, named, unsent, bids, accepted>>

Next ==
    \/ LoopStep
    \/ Signal(TRUE)
    \/ \E c \in Callers : Ask(c) \/ Send(c) \/ GiveUp(c)
    \/ \E k \in Kickoffs : Kickoff(k)
    \/ \E r \in Runs : Stop(r)
    \/ \E i \in Items : PeerBid(i)

\* The loop goes on: models, tools that answer by themselves, and timers end.  A
\* caller that waits for room gets its turn.
Fairness ==
    /\ WF_vars(LoopStep)
    /\ \A c \in Callers : SF_vars(Send(c))

Spec == Init /\ [][Next]_vars /\ Fairness

-------------------------------------------------------------------------------
(* Properties.                                                             *)

\* The inner wait that nothing ends: the loop waits for itself.
SelfWait == step = "self"

\* No task is ever executed by a peer: bids are received by the loop, which is
\* busy with the task until it has fallen back to this node (cli/serve.rs:516,
\* executor/remote.rs:167).
OffloadStaysHere == exec.stage # "remote"

\* A request that was offered to the network and then executed here is not paid
\* for, although it stays in JobManager.requests and its bids come in later
\* (executor/remote.rs:140, cli/serve.rs:1333).
NeverPaidTwice == accepted \cap ranHere = {}

\* A run's record says running exactly while the loop runs it (crew/store.rs:61,
\* flow/mod.rs:221, cli/serve.rs:905): one at a time, none is left behind.
RunningIsRun == \A k \in Kickoffs : (record[k] = "running") = (run = k)

\* The types, where an offloaded task may wait, and the records of runs: what is
\* recorded is what the loop does (crew/store.rs:61, cli/serve.rs:834).
RunRecordsTrue == TypeOK /\ OffloadStaysHere /\ RunningIsRun

\* Once the loop waits for itself nothing ends that: no answer, no stop, no
\* timeout of a caller, no signal (web/mod.rs:1660, agent/unified_loop.rs:327).
SelfWaitIsFinal == [][SelfWait => SelfWait']_vars

\* Nothing else keeps a caller or a run waiting: whoever sent a request or waits
\* for an answer gets it or gives up, and a run that was accepted into a channel
\* leaves it, unless the loop waits for itself or has stopped (cli/serve.rs:519).
Queued(k) == \E c \in Channels : \E i \in DOMAIN queue[c] : queue[c][i].who = k

ServedOrSelfWait ==
    /\ \A c \in Callers : state[c].is \in {"sending", "waiting"}
          ~> (state[c].is \notin {"sending", "waiting"} \/ SelfWait)
    /\ \A k \in Kickoffs : Queued(k) ~> (~Queued(k) \/ SelfWait \/ at = "stopped")

\* "Stop requested - exits after the current model or tool step" (web/mod.rs:4102):
\* an agent task that was told to stop ends.
StopHonoured == \A a \in Agents : (run = a /\ a \in stop) ~> run # a

===============================================================================
