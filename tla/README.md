# PeerClaw in TLA+

This directory holds TLA+ modules that model PeerClaw, the TLC configurations that
check them on small instances, and proofs that the safety properties the runs check hold
for every instance. Line numbers refer to the Rust sources under
`src/src/`.

## 1. The system and its parts

A PeerClaw node is one tokio process (`peerclaw serve`); other commands start
processes of their own in the same home directory. Components share state behind
`Arc<RwLock<..>>` and talk through channels, gossip topics, HTTP, and files: the redb
database, `config.toml`, the identity, models, skills, collections.

| component | state it keeps | operations | module |
|---|---|---|---|
| wallet (`wallet/`, `cli/wallet.rs`) | balance, escrows and their counter, spending per hour and day; a snapshot in redb | debit, credit, escrow, stake, sweep, initial grant, save | `Wallet` |
| job marketplace (`job/`, `executor/remote.rs`, `runtime.rs`) | requests, bids, active and completed jobs | request, bid, accept, execute, submit, settle | `JobMarket` |
| payment channels (`channel/`) | a record per pair of peers, an index by peer | open, confirm, pay, receive, close, force close | `PaymentChannel` |
| serve loop (`cli/serve.rs`) | its channels, callers that wait | poll the network, take from each channel in turn, await the work | `ServeLoop` |
| task executor (`executor/`) | counters of active tasks, the monitor | route, run here, offload, fall back | `Executor`, `ServeLoop` |
| inference engine (`inference/`) | queue, loaded models, live settings, breaker per provider | submit, batch, load, evict, choose a back end, cool down | `BatchQueue`, `ModelCache`, `Backends` |
| model back ends (`gguf.rs`, `ollama.rs`) | context of tokens, buffer of bytes | generate, stop, stream | `Generation`, `OllamaStream` |
| model distribution (`distribution.rs`, `models_hf.rs`, `cli/models.rs`) | chunks of downloads, the directory of models | announce, download from peers or Hugging Face, scan, remove | `ModelDownload`, `ModelShelf` |
| agent runtime (`agent/`) | budget, conversation, counts of tool calls, sessions | model/tool loop, prune, stop, spend, save turns | `AgentTask`, `UnifiedLoop`, `ChatSessions` |
| crews (`crew/`) | a record per run, cancel flags, outputs | validate, kick off, run, stop, offer to peers | `CrewRun` |
| flows (`flow/`) | a record per run; cursor, outputs, loop counters | validate, sort, visit, follow an edge | `FlowRun` |
| web server (`web/`) | sessions, background tasks, streams, the library of workflows | chat, stream, run, stop, save | `WebTasks`, `Completions`, `ChatSessions`, `AgentLibrary` |
| swarm (`swarm/`, `node.rs`) | agents, actions, counts | join, leave, record, page | `Swarm` |
| memory (`tools/builtin/memory.rs`, `agent/runtime.rs`) | two stores of texts and vectors | write, search, save a task, recall | `Memories` |
| vector store (`vector/`) | collections and their files | create, insert, delete, save, load | `VectorStore` |
| routines (`routines/`) | routines, loops, statuses | register, start, stop, fire | `Routines` |
| MCP (`mcp/`, `web/mod.rs`) | sessions, pending calls, configuration | connect, call, time out, reload | `McpSessions` |
| messaging (`messaging/`) | channels, the offset of a bot | connect, poll, queue, send | `Messaging` |
| peers and A2A (`p2p/`, `a2a/`) | connections and two lists of them, manifests, cards, tasks | dial, connect, announce, create, cancel | `PeerNet` |
| proxy (`proxy/`) | rate limits, free tier, prices | look up, price, charge, count | `MeteredProxy` |
| skills (`skills/`, `cli/skill.rs`) | files, registry, switches, offers of peers | scan, switch, select, install, remove | `SkillBook` |
| tools (`tools/`) | statistics, files, children and pipes | call, write, patch, run | `ToolRuns` |
| WASM (`wasm/`) | modules compiled and stored, fuel, memory | load, compile, execute, call the host | `WasmRuns` |
| chat of the command line (`cli/chat.rs`) | settings, history | ask, clear, compact, switch | `ChatCli` |
| home directory (`bootstrap.rs`, `identity/`, `config/`) | identity, `config.toml`, locks of databases | start, set up, load, save settings | `NodeHome` |
| safety filters, database, heartbeat, workspace and prompts, other commands | patterns, a wrapper of redb, code without callers, texts, terminal output | | section 6 |

What makes these parts hard:

- **Locks given up half way.** The wallet checks under a read lock, changes under
  a write lock, and saves after dropping it. `open_channel` takes four locks one
  after the other; the model cache decides, inserts and counts under three; the
  library of workflows is copied under its lock and written after it.
- **Memory and disk.** The wallet survives a crash as of its last save; the job
  manager, the channels and most histories are in memory only; a file is truncated
  before it is written.
- **Gossip.** The node broadcasts most messages twice, `try_send` and `publish`
  drop them, and nothing orders them.
- **Timeouts.** `RemoteExecutor::execute` gives up while the result may be on its
  way; a chat task times out while its agent goes on; an MCP call times out while
  its answer is under way.
- **Counters beside tables.** `queue_depth`, the memory of the model cache, active
  tasks, actions of the swarm and statistics of tools are changed under other locks,
  or at other times, than what they count.
- **Duplicates and lost updates between peers.** Two ends of a payment channel
  number their updates from the same counter.
- **One loop for everything.** The serve loop awaits each piece of work before it
  goes on, and some of that work asks the loop for an answer.
- **Two readings of one thing.** A flow is validated when it is kicked off and
  interpreted later; a turn is in a cache and in the database; a node's settings are
  in memory and in its file.
- **Children and streams.** A child blocks on a full pipe, a stream is cut anywhere,
  a client leaves in the middle, a slow page loses the oldest notices.

What makes each part correct:

- wallet: no tokens made or lost, the counter of escrowed funds equals the active
  escrows, an escrow is settled once, nothing stays locked for ever, a restart
  loads a consistent state;
- marketplace: a job is in one phase, locks one escrow, is paid once and only to a
  peer that executed it; nothing is committed for a bid that was not accepted; what a
  tool is told of a job goes forward only;
- channels: what a record says is backed by its escrow, updates are applied once
  and in order, both ends agree, a closed channel stays closed;
- serve loop: everyone who waits is served or gives up, a run's record says what
  the loop does, work done here is not also paid to a peer;
- flows: an accepted flow can be routed, what a node reads has been put out, loops
  end at their caps and every run ends;
- inference: one answer for each request, by a model whose name is as near to the one
  asked for as the code makes it; counters behind what they count, and limits passed,
  by no more than what is on its way; only whole files offered; every token fed and
  every piece streamed; nobody waits for ever;
- agents, chats, crews: limits and stops are kept to, the recent past is kept whole
  and in order, records and answers say what happened, an ended task stays as it
  ended;
- the rest: two records of one thing agree, what waits can be answered, what is lost
  between a sender and who takes it is only what is known to be, limits and prices
  are those configured.

`PROJECT.json` lists every component and, under `hazards`, the lines where these
difficulties bite, with the properties that cover each.

## 2. Modules

Specifications of their own:

| module | models | how |
|---|---|---|
| `Ledger` | what a wallet promises | abstract: `cur` and `dur` (in memory, durable); deposit, spend, lock, pay, return, persist, crash, each one step |
| `Wallet` | `wallet/mod.rs`, `wallet/escrow.rs`, `Runtime::new`, `cli/wallet.rs`, the sweep of `cli/serve.rs` | a task is `idle`, `checked` (limits read, lock dropped) or `saving` (changed, lock dropped); the process may crash between any two steps; a wallet command is a second way to start |
| `JobMarket` | `job/`, `executor/remote.rs`, gossip and provider parts of `runtime.rs`, submission and bid rounds of `cli/serve.rs` | one requester, several providers; messages form a set in which each copy is delivered in any order or dropped; settling is split where other tasks may run |
| `PaymentChannel` | `channel/mod.rs`, `channel/state.rs` | two ends; every signed message stays available and may be presented again; opens and closes are split where they give up their locks |
| `ServeLoop` | the loop of `cli/serve.rs`, those in `web/` and `tools/` who wait for it, the routing and fallback of `executor/` | where the loop is (`at`), the task it executes (`exec`), the agent, crew or flow it runs inline (`run`, `step`), its channels, and what each caller waits for |
| `FlowRun` | `flow/mod.rs`, `flow/interpreter.rs`, the kickoff in `web/` | one flow from its kickoff to the end of its run: the validation, Kahn's algorithm node by node, the legacy run in that order, and one action per kind of node of the interpreter |

Parts that are checked together. The parts of one group share no state that their
models keep: what one calls another for is an open choice in it. So a behaviour of
`MCAgents`, `MCInference` or `MCNode` is a behaviour of one of its parts, which the
initial state chooses; the parts have the same few variables `x1`, `x2`, ... for
their own, in the order of their declaration, and every property of the group says
for each part what it means there. The states are the sum of those of the parts, not
the product.

| group | module | in one sentence |
|---|---|---|
| `MCAgents` | `AgentTask` | the agent's own loop: an iteration calls the model within the budget, runs the tools, and prunes the conversation |
| | `UnifiedLoop` | the loop shared with the dashboard: how a reply is read as calls, blocked, merged and cut calls, nudges, stops, and the charge at the end |
| | `CrewRun` | records, queue, tasks in the three processes, and offers of distributed crews |
| | `ChatSessions` | overlapping requests of one session, their turns in cache and database, restarts |
| | `WebTasks` | a background task on its three paths, its record, its text and its stop flag |
| | `Completions` | a streamed or whole answer from the serve loop through a relay to a client that may leave |
| | `Swarm` | agents, actions recorded lock by lock, pages of the timeline, offers of crews worked on |
| | `Memories` | the two stores of memories and their ranked searches |
| | `AgentLibrary` | the library's list and file, requests that overlap, notices on web sockets and pages that load |
| `MCInference` | `BatchQueue` | callers, a bounded channel, the processor that answers them in batches |
| | `ModelCache` | loads, evictions and uses of models under separate locks |
| | `ModelDownload` | chunks, hashes, cancels and retries of a download from peers |
| | `ModelShelf` | downloads into the directory of models, scans, removals, restarts |
| | `Backends` | the choice of a back end while settings and registry change, with failover and cooling |
| | `Generation` | the token loop of llama.cpp with positions, chunks and stop sequences |
| | `OllamaStream` | lines put together from chunks |
| `MCNode` | `ChatCli` | several chats of the command line over shared files |
| | `Executor` | tasks routed, counted, offloaded, timed out |
| | `VectorStore` | a collection deleted and created again under its users |
| | `Routines` | loops that outlive stops, events, statuses |
| | `McpSessions` | pending calls, servers that go away, reloads |
| | `Messaging` | a bot's polling task, the registry, a network channel |
| | `PeerNet` | connections, two lists of peers, gossip and A2A tasks |
| | `MeteredProxy` | overlapping requests priced, charged and counted |
| | `SkillBook` | skill files, scans, switches and offers |
| | `ToolRuns` | calls and statistics, files written, children and their pipes |
| | `WasmRuns` | modules compiled and executed, with the host's functions |
| | `NodeHome` | starts of every program over one home directory, and the settings page |

`MCAgents` has general constants; the configuration takes the structured ones (limits,
crews, wishes of clients, scores) from its `MC...` definitions.
`MCFlowRun` gives its module constants and inputs; `Wallet`, `JobMarket`,
`PaymentChannel` and `ServeLoop` are run as they are, each by the configurations of
its name. `WalletProofs`, `MarketProofs`, `ChannelProofs`, `ServeProofs`,
`FlowProofs`, `InferenceProofs`, `NodeProofs` and `AgentProofs` hold the theorems,
section 5.

State and actions correspond to the code name by name (`CreateEscrow` is
`Wallet::create_escrow`, `HandleBidAccepted` is `Runtime::execute_provider_job`,
and so on); `map` in `PROJECT.json` gives the lines of every definition. An
action is the code between two points at which it awaits something that others may
use to run.

`ServeLoop` and `JobMarket` look at offloading from two sides. In a running node
nothing polls the network while `RemoteExecutor::execute` waits inside the loop, and
`ServeLoop` shows what follows (`OffloadStaysHere`). `JobMarket` checks
`RemoteExecutor` against the concurrency its interface is written for: a manager
that other tasks use while it waits.

Choices that are not visible in the names:

- **Wallet.** The transaction list is kept as totals per kind, and the maps of
  spending per hour and day as their last entry, because time does not go back.
  `save_state` writes the state *at the time of the save*, not the one its caller
  left, as in the code. `stake` ignores the reserve, as in the code.
- **JobMarket.** The wallet's operations are atomic here; `Wallet` is about their
  steps. Time is abstract: anything that may expire may expire now.
  `start_job`, `bid_accepted`, `submit_bid`, `settle_job(.., false)` and `cancel_job`
  are not reached in a running node (the command line's `cancel_job` acts on an empty
  manager of its own) and are left out; so is `execute_job_locally`, since a node does
  not win its own auction. Settling credits the requester's own wallet, as the code
  does: `docs/TOKENS.md:67` lists settlement between nodes as planned. A failing save
  in `create_escrow` leaves funds locked and the request open, so a second escrow
  may follow; `AcceptBidUnsaved` is that path.
- **PaymentChannel.** The channel id depends on the two peers only, so a pair has
  one id. `open_channel` is the only way to get a record, so the other end of a
  channel has opened it as well, with an escrow of its own, and both begin with
  the whole capacity. A signature is its signer. `create_escrow` succeeds or
  fails; nothing else in the channel depends on the wallet. The nonce of a close
  request is left out, since no code reads it. Registering a key is delayed to
  the first state in which the key matters. `IndexAgrees` speaks of opens and
  closes that do not overlap; the overlaps that break it are in section 4.
- **ServeLoop.** What a model answers and what a tool does is left open; an item
  `<<who, n>>` is the n-th piece of work of a caller or run and stands for its job
  id. Runtime does not start the resource monitor (`node.rs:134` is its only
  caller), so the router finds no memory and `Start` never runs a task here at
  once. The clean-up, statistics and advertisements of an iteration change no state
  another part reads here. A web task may be stopped between its passes, which
  looks like a task that asks nothing more. Gossip of other nodes enters as `Poll`
  (bids, connections) and `PollOffer`. A sub-agent of `agent_spawn` has the
  identifier `SubAgent`.
- **FlowRun.** Edges keep their order and their duplicates, because `pick_next` takes
  the first that matches and Kahn's algorithm counts each. Edges join existing nodes:
  `FlowSpec::validate` refuses others before anything here runs. It does not refuse two
  nodes with one id (`flow/mod.rs:346`); the interpreter then takes the first of them
  (`interpreter.rs:484`) and the legacy sort reports a cycle, because it finds fewer nodes than there
  are (`flow/mod.rs:411`). Such flows are outside the model, in which an id is one node. Kinds that compute something and may fail are one kind, `work`; what a
  condition, a check or a call yields is open at every visit. A template that a
  `transform` copies from is, like the source of a guardrail, only checked to be
  there. Kahn's queue starts in the order of a hash map, so any node in it may come
  next. The statuses `new`, `checking`, `ordering` and `rejected` are phases of the
  calls around the record, whose own are `pending`, `running`, `completed` and
  `failed`. `ServeLoop` models the same run from outside: where it is queued, and
  that it holds the loop.
- **The parts.** Data is what the properties tell apart: a message is its kind and
  size, a text the sequence of its pieces, a vector its dimension, a file the number
  of its write or `Torn`, a model its version, a score a rank. Arithmetic that may
  wrap keeps a width: `WasmRuns` computes addresses modulo a word, `UnifiedLoop` cuts
  an underflowing size as the release build does. Memory whose users race is shown by
  one action per lock, and history variables (`apart`, `overlapped`, `met`,
  `acked`, `torn`, `crossed`) record only what a property must except by name: two calls
  that overlapped, a write that failed or a crash left, a line cut inside a character.
- **Names of models.** `Backends` takes three relations of names as constants: the one
  a name has to its form without tag, case and dashes (`Norm`), which name begins which
  (`Begins`), and equality. Ollama is asked for whatever `resolve_model` makes of the
  name and of a list that may hold any models; the remote API for any model, since the
  settings may name one.
- **Tools.** A call has its own child and one program that this child started, which may
  hold its pipes or not and survives it. A price list (`MeteredProxy`) is read as the
  rules for one method. The balances of an update are numbers
  without a width: that their sum may wrap (`channel/mod.rs:233`) is outside the model.

## 3. Runs

| run | shows | instance |
|---|---|---|
| `wallet` | `EscrowBacked`, `Conserved`, `GrantedOnce`, `PersistedWhenQuiet`, `OvershootBounded`, `SettledOnce`, `NoLockup` (each active escrow is settled in the end), and `ImplementsLedger` | two callers, two escrows, a clock, three crashes or wallet commands |
| `market` | `OnePhase`, `EscrowsApart`, `ToldForward` | a job of the web UI and one of `RemoteExecutor`, one provider, every message twice, one failing save |
| `market_faults` | `WorkPaid`, `UncommittedUntilAccepted` | three peers (one too expensive), a crash and a failing save |
| `channel` | `CapacityKept`, `NoReplay`, `Mirrored`, `IndexAgrees`, `ClosedFrozen` | two peers, two concurrent calls, three opens, two updates, one close request |
| `serve` | `NeverPaidTwice`, `RunRecordsTrue`, `SelfWaitIsFinal` | a web task, a submission, a flow, a job of another peer; channels of one place; with and without `--agent` and offloading |
| `serve_live` | `ServedOrSelfWait` | a web task, an agent task, a crew |
| `flow` | `SortDecides`, `LegacyOrder`, `RoutedUnlessNote`, `OutputsReady`, `MCRunEnds` | eight thousand flows of four nodes |
| `agents` | `LimitsKept`, `ContextKept`, `RecordsTrue`, `StatusIsFinal` | the nine parts of `MCAgents` |
| `inference` | `CountersCover`, `AsAsked`, `StreamSound`, `WaitsEnd` | the seven parts of `MCInference` |
| `node` | `AccountsAgree`, `CallsCanEnd`, `NothingLost`, `PricesAndLimits` | the twelve parts of `MCNode` |
| `wallet_limit` | violates `HourlyLimit` | finding 1 |
| `market_result` | violates `ResultFound` | finding 2 |

Each property of a passing run has a mutant of the code in `PROJECT.json` that breaks
it under the same configuration. The properties of the three groups are conjunctions,
one conjunct for each question to a part; each is defined, with a comment, in the
module of its part:

| property | in | says |
|---|---|---|
| `LimitsKept` | `AgentTask!BudgetKept` | no limit is passed, although a call is checked by its estimate and charged by its tokens |
| | `UnifiedLoop!RepeatsBounded`, `StopHonouredBetween` | a call repeated too often is not run again; after a stop no further pass begins |
| `ContextKept` | `AgentTask!RecentKept`, `PrunedFits` | what is sent has the recent exchanges whole and fits, if anything old was left to drop |
| | `ChatSessions!CacheInPairs`, `DiskInPairs`, `HistoryIsPast` | turns are whole exchanges, and a request is shown only those that had ended |
| | `Memories!WrittenIsKept`, `BestIsFound`, `RecalledAreNearest`, `MoreIsLonger` | memories are kept, searches return the best of them |
| `RecordsTrue` | `CrewRun!ValidIsEnough`, `RecordsAgree`, `OutputIsWhole`, `OffersFollowRuns` | an accepted crew finds its agents; record, loop and output agree; offers are of runs |
| | `WebTasks!ShownAsEnded` | a task shown as ended has the result of its loop |
| | `Completions!ChunksInOrder`, `DoneAfterAll`, `DoneIsSaved` | a client reads chunks in order, the end after all of them, and what it was told is saved |
| | `Swarm!CountsAgree`, `PagesWhole`, `OneAgentEach` | counts and pages agree with the actions, and each peer has one agent |
| | `AgentLibrary!FileHasList`, `PageIsCurrent` | the file and the pages show the list, unless writes crossed, a save failed, or notices were lost |
| `StatusIsFinal` | `WebTasks!Settled` | no late answer, chunk or stop changes an ended task (an action property) |
| `CountersCover` | `BatchQueue!DepthCovers`, `ModelCache!MemoryCovers`, `MemoryBounded`, `TableBounded` | counters fall short of what they count by no more than what is on its way to be counted; loaders together pass the limits by at most one model for each other loader |
| `AsAsked` | `BatchQueue!OneAnswer`, `Backends!RightModel`, `LightStaysLight` | an answer each, from a model whose name the request's begins (GGUF; the very one if it is registered all the while) or is like (Ollama), and of the load routed |
| | `ModelDownload!OfferedIsWhole`, `MarksAreWritten`, `ModelShelf!SuccessIsWhole`, `WritersMet`, `SuccessIsRegistered` | what is offered or reported is a whole file |
| | `Generation!FittingIsAnswered`, `EveryTokenFed`, `StreamCoversText`, `CutAtStop` | tokens in their places, text cut at its stop, and a stream that shows all of it |
| `StreamSound` | `OllamaStream!TextsInOrder`, `OnlyTornDamaged` | the texts of the server's lines, in order and once each, however they were cut; damaged only in lines a chunk ended in a character of |
| `WaitsEnd` | `BatchQueue`, `Backends`, `Generation` | callers of the queue are answered, the settings page gets its lock, a generation ends (a liveness property) |
| `AccountsAgree` | `Executor!CountsRunning`, `VectorStore!DimensionsAgree`, `PeerNet!ListsAgree`, `NodeHome!NodeAndFileAgree`, `FlagsNotSaved`, `McpSessions!LiveAsConfigured`, `ToolRuns!CallsCounted` | two records of one thing agree |
| `CallsCanEnd` | `McpSessions!WaitingIsPending`, `Routines!RunningIsRunning`, `LoopsBounded` | who waits is known to who may answer; starts leave a bounded number of loops |
| `NothingLost` | `ChatCli!TalkKept`, `Messaging!NoUpdateLost`, `OnlyAllowed`, `VectorStore!SavedWhole`, `ToolRuns!OutputWhole`, `NoShellLeft`, `NodeHome!OneIdentity`, `SavesKept` | turns, updates, identities and settings are not lost; a saved collection is whole unless two saves overlapped; what is returned of a program has the beginning of each stream, and no shell outlives its call |
| `PricesAndLimits` | `MeteredProxy!OvershootBounded`, `PricedByRule`, `SkillBook!OffersOrdered`, `WasmRuns!HostKeepsRange`, `PartsOnlyTorn` | limits are passed by no more than what is on the way; the first matching rule is the price; a module reaches only its own memory; a part of a module is run by the registry only after a crash or a failed write |

`Typed` in each group holds the parts' type invariants and is checked with the first
property (`OllamaStream`'s with `StreamSound`); `RunRecordsTrue` is `TypeOK`, `OffloadStaysHere` and `RunningIsRun`;
`EscrowsApart` holds `EscrowHasJob` and `PaidOnce`.

**Bounds.** Two callers are enough to interleave a check, a change and a save of
one with those of the other; two escrows let one be swept while the other is
created; three crashes or wallet commands allow a crash on each side of the saving of
the grant, and a command that stakes followed by one that unstakes; one tick
of the clock ends an hour and lets an escrow expire. In the marketplace two jobs
share the manager's lock and the wallet, and one provider already sends everything
twice; the third peer of `market_faults` exists so that a bid above the budget occurs.
In the channel, three opens give both ends a record and one of them a second life in
which updates of the first arrive late; two updates give a duplicate, a reordering and
a conflict; capacities 1 and 2 make the ends disagree about the capacity. In the serve
loop one place in each channel makes every sender meet a full channel, and one model
or tool call of each caller already reaches each kind of wait; a second one meets the
same states of the loop. Interpreted flows have a start, an end and two nodes of any
kind with edges to each other and to themselves, enough for two nested loops, an
endless cycle, a branch that goes past a source, and a missing or doubled branch;
legacy flows have all the edges three nodes can have and a doubled edge to a fourth.
`DefaultCap` is 2 where the code says 100 and `MaxSteps` 16 where it says 10 000, so
that both runs occur: nested loops that end, and nested loops that meet the limit.

In the groups the limits are as small as they can be while both sides of each guard
occur: a queue of one place and batches of two or three, so that a batch fills, times
out and mixes two models; one model in the cache and memory for two, so that every load
evicts; three requests of a session, one of which overlaps two others; three tasks of
an agent, so that an hour and a day end between them; four passes of the shared loop
with two calls each, so that a call is blocked, merged and cut; a context of five
tokens and prompts up to it; two reloads of MCP and two calls; three starts of programs
in one home, two of them at once; two loops of a routine left by a stop; an executor
with one place of each kind for two tasks; a pipe of one piece, a child with two and
a text that is cut after one (`Kept`), and one child at a time (`MaxChildren`; the pipes of
one say nothing of another's); names of which one begins another and two differ by their
tag. Models and texts differ only where a property compares them.

**Fairness.** Safety runs assume none, the marketplace among them (that funds of an escrow come
back is `NoLockup`'s), except that `wallet` also checks `NoLockup`: it
assumes that a node that is down is started again, that calls and wallet commands end,
that time passes and that the serve loop goes on sweeping (`cli/serve.rs:1123`).
`serve` and `serve_live` assume that the loop goes on when it can
(weak fairness of its steps: models answer, timers end) and that a sender who waits for
room gets it when there is room again and again (strong fairness: tokio's channels
serve senders in order); callers need not give up, and an interrupt need not come.
`flow` assumes that a run goes on (weak fairness of its steps): each call it awaits
returns. `inference` assumes that the batch processor goes on, that callers get room in
turn (strong fairness, as above), that a request begun is served (back ends answer or
time out), that a free lock is given to who waits for it, and that llama.cpp goes on
decoding; nobody has to call `shutdown`, change settings or send another request.

**Deadlock.** Every configuration says `CHECK_DEADLOCK FALSE`: identifiers,
crashes, questions and messages are bounded, so behaviours end when they are used up;
and the serve loop really stops, after an interrupt or when it waits for itself
(`SelfWaitIsFinal`).

## 4. Findings

Two documented properties fail in the models as they do in the code:

1. *Escrows are not counted against the spending limits.* `create_escrow` checks
   the hourly and daily limits (`wallet/mod.rs:279`), but only `debit` adds to
   them, and nothing calls `debit` in a running node; `wallet/mod.rs:73` calls the
   limit "Maximum tokens to spend per hour". Run `wallet_limit`.
2. *`RemoteExecutor::execute` never sees a result.* The gossip handler submits and
   settles a result under one lock, which removes the job from the list that
   `wait_for_result` polls (`executor/remote.rs:257`). Run `market_result`.

Seen while modelling, each at the line that shows it. The models contain the
behaviour; properties that speak about the neighbourhood except it by name.

*Money, jobs and peers.*
- A provider is paid for a failed execution: `execute_provider_job` sends a failure as
  an ordinary result (`runtime.rs:526`); `docs/TOKENS.md:20` promises a refund.
- `total_received` counts by how much the signer's own balance has grown, the wrong way
  round (`channel/mod.rs:240`). A channel's id is used again by its next life, in which an
  update of the earlier one is acceptable; two concurrent opens reset one another; a
  close between the two inserts of an open leaves an index entry nobody removes.
- The transaction list is trimmed only by `credit` (`wallet/mod.rs:182`); requests nobody
  bids for stay for ever (`job/mod.rs:72`).
- A wallet that was spent to zero is credited again at each start (`runtime.rs:94`);
  `serve`, `chat` and `run` each have a wallet of their own.
- A peer that closes one of two connections is no longer listed (`p2p/mod.rs:85`); a card
  that arrives late replaces a newer one (`a2a/state.rs`); the segment after a `**` is
  matched where it first occurs, so some paths the pattern means are not matched
  (`proxy/pricing.rs`). Free-priced endpoints use up the free tier.
- The peer that signs a batch of skills is never compared with the providers the
  batch names (`skills/registry.rs:308`), so a peer may replace another one's offer.

*Agents, chats and runs.*
- An agent task that is told to stop under `--agent` does not end: its model call waits
  in a channel that only the waiting loop receives from (`web/mod.rs:1660`, against the comment
  at `web/mod.rs:4102`). `ServedOrSelfWait` shows that this wait, and the same one through
  tools that ask the node, is the only thing that keeps anyone waiting for ever.
- `prune_string_conversation` looks for markers the shared loop does not write
  (`unified_loop.rs:656`), so the oldest sections go first, the goal among them, where
  `compaction.rs:232` promises to drop old tool results; its size may underflow
  (`compaction.rs:280`). `prune_conversation` drops the task itself when there are few
  user messages.
- The agent's budget does not bind in the shared loop, which charges it at the end
  (`unified_loop.rs:302`); `agent_depth` is 0 everywhere, so `MAX_AGENT_DEPTH` never binds.
- Terminal states of a crew's record can be overwritten (`crew/store.rs`), and flags of
  ended runs are not removed; later tasks whose context names an unknown or later task silently lack it;
  a claimed offer without a local model gets no result (`runtime.rs:752`).
- After a restart a stream's own turns hide the stored history; exchanges of plain chats
  and tasks are kept in memory only (`web/mod.rs:2478`); errors of a streamed OpenAI
  answer look like an empty completion.
- The chat of the command line cannot use a node: it posts `prompt` (`cli/chat.rs:1472`)
  where the node asks for `message`. A second `/compact` loses the first summary.
- The library of workflows: a failed save leaves the list changed and the page untold; a
  client that leaves before the write drops the save; a torn file is loaded as an empty
  library that the next save writes over the rest.

*Inference and files.*
- Two loads that look at the memory counter before either has added to it are promised
  the same room, so the models in the table may take more than `max_memory_mb`, the
  "Maximum total memory usage" of `inference/cache.rs:40`, and be more than `max_models`
  (`cache.rs:82`). `MemoryBounded` and `TableBounded` say by how much at most.
- The model that answers need not have the name that was asked for. The registry takes
  any model whose id the name begins, as the order of a hash map has it
  (`inference/mod.rs:624`); `resolve_model` promises "the exact Ollama model name"
  (`ollama.rs:149`) and drops the tag, so `deepseek-r1:7b` may be answered by
  `deepseek-r1:70b`, or by a model whose name only begins alike; the remote API is asked
  for the model of its settings (`inference/mod.rs:278`, `failover.rs:388`).
- Each chunk of Ollama's stream is decoded by itself (`ollama.rs:348`): a character that is
  cut between two chunks becomes replacement characters in the text that is shown and
  returned. `OnlyTornDamaged` says that nothing else is damaged.
- A failed download from Hugging Face leaves a partial file under its final name, which a
  scan registers; two downloads of one name write into one file (`models_hf.rs`).
- A request that is light when it is routed may be run by a heavier back end, when the settings have
  changed in between (`inference/mod.rs:563`).
- `config.toml` is written in place: a kill leaves it truncated, and no later start loads
  it. Saving settings writes the environment's overrides into the file
  (`web/mod.rs:3322`). Documents name `PEERCLAW_HOME` (`README.md:510`), the code reads
  `PEERCLAWD_HOME` (`bootstrap.rs:12`); their example of `config.toml` (`README.md:516`)
  does not load.
- `peerclaw test cluster` gives its nodes a variable nothing reads (`cli/test.rs:463`), so
  they share one home, and all but the first fail on its database. `job`, `test` and
  `peers` open the database of the node and cannot run beside it.
- First-time setup overwrites settings when only the identity is missing; two first
  starts at once run under different identities.
- Saves of one collection share a temporary file, so two that overlap may rename a text into
  place of which only a part is written, or a mixture, against the "atomic JSON write" of
  `vector/mod.rs:243`; a start then refuses the whole store (`vector/mod.rs:213`). Only
  stores with a directory save, and no command makes one (outside tests only
  `init_vector_store_with_storage` calls `with_storage`, and nothing calls that).

*Tools, MCP, routines, messaging.*
- `shell` says of itself that it "Returns stdout, stderr, and exit code" (`shell.rs:164`), but of a
  command that fails it returns the code alone (`shell.rs:307`). It cuts long output
  at a number of bytes, which panics when a character lies across it (`shell.rs:359`).
  A timeout kills the shell and none of the programs it started (`shell.rs:319`).
- `shell` writes its input before its timeout starts and reads one pipe to its end before
  the other; a child of `code_exec` outlives its timeout; calls that end in `Err` are not
  counted; concurrent patches lose edits.
- Timed-out MCP calls leave pending entries, a failed connect leaves listed tools, and
  reloads that overlap may leave an older manager live (`web/mod.rs:1768`).
- Stop and start of the routine engine leaves two loops of one routine.
- The limits of time and memory of the WASM sandbox are never applied. A file is not
  compared with the hash in its name (`wasm/mod.rs:161`), so a part that a crash or a failed
  write left is executed if it compiles (an empty module is its header alone,
  `sandbox.rs:327`), and `get_compiled` keeps it until the node restarts, also when the
  tool is registered again. A negative pointer that a module passes to the host may
  wrap to a range that ends before it begins: the slice panics, in the host's thread
  (`sandbox.rs:115`); `HostKeepsRange` speaks of the ranges that are taken.

## 5. Proofs

`tlapm` proves, for all values of the constants that satisfy the named assumptions:

- `WalletProofs`: `TypeCorrect`, `EscrowsBacked`, `TokensConserved`, `GrantOnlyOnce`,
  `PersistedAlways`, `EscrowsSettledOnce`, `OvershootLimited`, `WalletIsLedger`. The
  inductive invariant says that *every* snapshot is sound: type, counter equal to the
  total of the active escrows, worth equal to what came in, a granted wallet above its
  reserve, and it says so of the memory and of the disk, because a crash replaces the
  one by the other. `GrantedOnce` alone is not inductive: it needs the reserve (a
  granted wallet is never empty again), and the reserve needs the type.
  `WalletIsLedger` shows that each step of the wallet, with its locks, saves and
  crashes, is a deposit, a payment, a lock, a return, a checkpoint or a crash of the
  ledger, or a stutter; what a snapshot is worth there is read off the counter, which
  is sound only because the counter is backed. `OvershootLimited` counts the debits
  that were checked and not yet subtracted (`SpendInv`): with n of N tasks pending,
  some pending amount and what is spent exceed the limit by at most N - n payments: the
  debit checked last saw what had been spent by then, and only the other debits that
  were pending can have been added since. It need not hold for each pending debit.
  Sums are running totals: changing one summand changes the total by the difference
  (lemma `TotalUpdate`), shown by an induction that is written out; the model cache has it too.
- `MarketProofs`: `JobInOnePhase`, `EscrowsStayApart`, `PaidForWork`, `ToldNeverBack`,
  `NothingCommittedEarly`, for any number of jobs, providers and escrows. The inductive invariant says where a
  job is (`Placed`: in one list, completed once), that a job whose escrow was released
  and that is not yet completed is in no list (`Settling`), that an active job holds
  its own escrow, which is active or was swept (`Funded`), and that an acceptance, a
  result or an execution on the way goes back to a bid that won (`Heard`). Without
  `Heard` nothing says that who is paid has executed: the handler does not compare the
  sender of a result with the winner, but only the winner is ever told that it won.
- `ChannelProofs`: `ChannelTypeCorrect`, `ChannelCapacityKept`, `ChannelNoReplay`,
  `ChannelClosedFrozen`, `ChannelMirrored`, `ChannelIndexAgrees`. The inductive
  invariant adds to type and capacity that an open in flight holds an escrow nobody
  else holds (`FundsApart`: without it, the record an open stores need not be backed),
  and that the updates of a life are numbered by their places (`Numbered`: without it,
  the test on the nonce says nothing of earlier updates). For the two ends,
  `SignedInv` follows signatures: in one life a number is signed once and after the
  earlier ones, and a record shows the last update it took, so ends that went through
  the same numbers hold the same balances. For the index, `OneCallApart`: where no
  call began during an open, at most one call of a peer is in flight, and only that
  one may have the record and not the index, or the reverse.
- `ServeProofs`: `PaidOrRunHere`, `RecordsFollowRuns`, `SelfWaitStays`, for any
  callers, runs and capacities. What was executed here must not have been accepted
  from a bidder, and the state shows this only through the freshness of work: what
  waits in a channel, or for room in one, is of an item that the executor and the
  marketplace have not seen, and no second message stands for it (`New`). What the
  loop sends to itself is never taken up, so `New` is stated for `~SelfWait`, and
  `SelfWaitStays` shows that the wait, once begun, is for ever. `Placed` says which
  channel holds which asks and when the executor is busy.
- `FlowProofs`: `AcceptedFlowsRoute`, `OutputsAreReady`, `KahnDecides`,
  `LegacyInOrder`, `FlowTypeCorrect`, for flows of any size. A step of the interpreter
  follows an edge or ends the run (`InterpretWalks`). From this follows the invariant
  that a node *without* an output can be avoided on some way to the cursor
  (`Avoided`), which gives `OutputsReady` without a history of the run. For Kahn's
  algorithm the invariant says that the in-degrees count the edges from nodes not yet
  in the result (`Counted`) and that the result lists each node after its predecessors
  (`TopSorted`): a full result has no cycle, and an empty queue leaves only nodes with
  a predecessor among themselves. The legacy run has put out a prefix of that result
  (`Executed`).
- `InferenceProofs`: `CountersKeepUp`, `AnsweredAsAsked` and `StreamIsSound`, one
  invariant for each part of `MCInference`. *Queue*: a request is
  in one place (channel, batch or group), once, after it was sent and before it is
  answered (`QueueShape`, `QueueHands`); then the callers that have not counted
  themselves yet are the only ones `queue_depth` may miss. *Cache*: loaders between
  the count of models and the insert are `Entering`; the table and they together
  exceed `max_models` by no more than one for each other loader; the memory
  counter with what is inserted and not yet counted covers the sum of the table, and
  with the models of loaders that were promised room passes `max_memory_mb` by one
  model for each other loader. *Back ends*: a task
  that was routed as light would still not run here unless settings or registry have
  moved, and the engine generates with the model it has just loaded, which is one the
  name begins. *Downloads from
  peers*: while the driver stands between the hash test and the rename the file is a
  whole one (`DriverInv`). *Directory*: whoever opens a file that another one opened
  is recorded as having met it (`FetchesMeet`), so one that met nobody reads back what
  it wrote (`WrittenAlone`). *Text*: while a generation runs the stream shows exactly
  its text, and at the end the stop sequence is what the stream shows in excess.
  *Stream*: between chunks the texts of the first k lines were handed on, and the buffer with what is coming are the
  bytes that follow them, each at its place, whole or cut (`Underway`); that reading a
  buffer, which is a recursive function, takes it from one such state to another is an
  induction over its bytes (`ReadingReads`).
- `NodeProofs`: `TwoAccountsAgree`, `BegunCanEnd`, `NothingIsLost` and
  `PricesAndLimitsHold`, one invariant for each of the twelve parts of `MCNode`. *MCP*: numbers of a session only grow from its connect on, so no
  call that waits has a number that another call took out of `pending` (`McpCalls`);
  without a put during a reload one reload is under way, of the configuration put last
  (`McpReloads`). *Routines*: between a start and the loops it spawns a routine has one
  loop less than starts. *Proxy*: `Metered`, once for the free tier and once for the
  rate: what was counted in the period, with the handlers between their look and their
  count, exceeds the limit by less than the handlers; a period that ends loses those
  inside it to the next one, so the sum is kept for each period. What a pattern means
  and how the code matches it are recursive functions over the rest of pattern and
  path; each is shown to exist by induction on what is left (`TableExists`), and that
  whatever is matched is meant follows downwards over the pattern (`MatchIsMeant`).
  *Executor*: the counters are the cardinalities of sets that a step adds one task to
  or takes one from (`Counting`; a task that prints is never in one). *Vectors*: a
  collection is sound wherever it is, on the heap, as a snapshot, in the file or in its
  temporary copy, so it stays so whichever of them replaces another; and unless two saves
  crossed, who is about to rename has filled the temporary file, which nobody else
  opened since (`VectorInv`). *Peers*: with an
  event on its way the dashboard's list differs from the network's by that event
  (`NetInv`). *Home*: one program founds the identity, between its look and its name,
  and the others go on with what it wrote (`HomeIdentity`); a request to the settings
  page that has loaded carries the settings the node has, because the lock of the
  settings is held from the load to the write (`HomeSaves`), hence what a save leaves
  is what the node runs with. *Tools*: what a child wrote is what the tool has got and
  what is in the two pipes; a stream ends when all who hold it are gone, and the shell
  reads the errors only after the end of the output, so what is returned begins as what
  was written did (`SoundChild`). *Chat*: a turn tells of
  questions asked before it (`SoundTalk`), so a summary, which takes them from the
  front, stays before the two turns it leaves. *Channels*: the offset and the answer of
  the polling task are behind the queue (`SoundPoller`): what it holds follows what was
  queued, and what the server forgets had an offset, hence was queued. Without the
  update that is held the step to the next offset would not be inductive.
  *Skills*: the order that `Sorted` chooses exists for every list (`OrderExists`), and
  placing an offer keeps one of each provider. *WebAssembly*: below the word's size
  a range that wraps never looks like one of the memory (`RangesKept`); a part that was
  read or compiled is of a file that is torn, because a registration that is under way
  keeps `get_compiled` out.
- `AgentProofs`: `AgentsKeepLimits`, `ContextIsWhole`, `RecordsAreTrue` and `StatusStays`,
  one invariant for each of the nine parts of `MCAgents`. *Agent*: a conversation is the
  system prompt, an old part and a recent part that begins with a turn and has as many
  as are protected (`Parts`); cutting results, dropping old messages and cutting the
  prompt each leave such parts, the same recent one (`PruningKeeps`), and where the old
  part is not empty the result fits. *Shared loop*: what is left to run of a pass is
  there once each and was asked for beyond what has run (`CallsFit`), so a call cannot
  pass its limit within a pass; a pass begins only untold (`LoopStops`).
  *Crews*: the outputs in the record are those of the first tasks, and the answer kept
  under a name is that of the last task that had it (`Remembered`), so what a task is
  given is what its context names. *Chats*: requests are saved one at a time; the turns
  of the cache, of the database and of what a request was shown follow that order
  (`SoundTurns`), and the database ends with half an exchange only while that one is
  saved. *Background tasks*: a status and the result behind it, for each place a task
  can be at (`WebTask`); a final status is that of the result that was stored first.
  *Answers*: the chunks among the events of a client, and those still to be
  forwarded, are the chunks made, in order (`AnswerChunked`); the events are filtered by
  a recursive function, which is shown to take an append to an append. *Swarm*: the sum
  of the agents' actions is the total and the callers that stand before it; the length
  of the timeline is the total without those before the push (`AgentsCounted`,
  `HistoryCounted`). Sums over a set take elements out one by one, so that the sum does
  not depend on the order is a lemma of its own (`SumAgrees`). *Memories*: with scores that
  tell memories apart each has its own place among those of a store, so the best of them
  exist, there are as many as are asked for, and they keep their places (`BestOf`); a
  memory that leads both rankings is in both lists, hence weighed whole, hence first.
  *Library*: as long as list and file are not apart, whoever saves holds the list of
  now (`LibrarySaved`); a page with nothing left to hear shows that list, or the answer
  of a load that came late will (`LibraryPage`).

Assumptions: `ConstantsAssumption` (Wallet), `MarketAssumption` (JobMarket),
`PeersAssumption`, `CapacityAssumption` and `BoundAssumption` (channel),
`FlowAssumption` (flow; the set of nodes is finite, the lists of edges too),
`TasksAssumption` (wallet; finitely many tasks, at least one), `ServeAssumption` (the
sorts of callers are disjoint) and `InferenceAssumption`, which is the parts' own
assumptions and one more: there is one driver of a download, because the model of
`distribution.rs` is of one (two could truncate the file between the test and the
rename; nothing in the repository starts one download from two tasks), and
`NodeAssumption`, those of the parts of `MCNode`: bounds are numbers, patterns and paths
are sequences, tasks and calls are finitely many, the memory is smaller than the word
and arguments are far from its half, and the marker `None` is no value of a part; and
`AgentsAssumption`, those of the parts of `MCAgents`: bounds are numbers, agents and
callers finitely many, a peer has an identifier of its own to get, a session keeps an
even number of turns, the tasks of a crew are a sequence, and the scores tell memories
apart (which of two equal ones comes first, the scores do not say). TLC evaluates them in
each run, and those of every part with its group. `ReadingAndPruning` (`MCAgents`) is
about texts of the sizes given: TLC evaluates it, and no proof uses it.

Only model-checked: the liveness properties (`NoLockup`, `ServedOrSelfWait`,
`MCRunEnds`, `WaitsEnd`), which the prover cannot
state with fairness; and, for the sizes of the run, what `UnifiedLoop` takes for calls
in a reply and what it drops from a long conversation (`ReadingAndPruning`). Every
safety property of a passing run is a theorem.

## 6. Not modelled, and the plan

Not modelled:

- *Safety filters*: patterns on text and addresses, pure functions. Models take any
  verdict where one decides. The hooks for the output of tools have no callers.
- *Database*: redb keeps what was committed; models of its users rely on that.
- *Heartbeat*: `Heartbeat::run` has no callers.
- *Workspace and prompts*: texts.
- *Other commands* (`doctor`, `vector`, `tool`, `agent`): terminal input and output
  around one call of a component.
- In modelled parts: llama.cpp, wasmtime, libp2p, vectX and HTTP services; formats,
  wording and rendering; views of the dashboard that only read; the messaging platforms
  that only send a request; tools that only read, compute or send one request.

Could be added next: the remaining views and platforms, where they change a state that
others read.
