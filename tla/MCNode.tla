--------------------------------- MODULE MCNode ---------------------------------
(***************************************************************************)
(* The parts around agents and inference, in one run: the interactive chat *)
(* of the command line, the task executor, vector collections, routines,   *)
(* MCP sessions, messaging channels, the peer-to-peer network as a node    *)
(* sees it, the metered proxy, skills, tools, those compiled to            *)
(* WebAssembly, and the home directory.  A behaviour here is a behaviour   *)
(* of one part, which the initial state chooses: the parts share no state  *)
(* that their models keep.                                                 *)
(* Each part has the variables x1, x2... for its own, in the order of its  *)
(* declaration; the rest are None.                                         *)
(***************************************************************************)
EXTENDS Integers, Sequences, TLC

CONSTANTS
    None,
    Chats, MaxQuestions,
    Tasks, MaxInference, MaxWasm,
    Threads, Points, Dims, MaxCreated, Torn,
    Routines, MaxStarts, MaxEvents,
    Reloads, Calls,
    Callers, MaxUpdates, Filtered, Friends, Strangers, Capacity, MaxConnects,
    Neighbours, MaxLinks, MaxSent, OldAge, DialRoom, Posts, A2aTasks,
    Handlers, MaxRequests, RuleSets, DefaultPrice, Paths, Amounts, FreeLimit, RateLimit,
    MaxMinutes, MinutesInHour,
    Names, Providers, Prices, Me, MaxEdits, MaxBatches, Broken,
    Pieces, Pipe, MaxInput, MaxOutput, Kept, MaxLength, MaxChildren,
    Installed, Executions, Fuel, MemorySize, InputLength, Word, Arguments,
    Programs, Saves, Asked, FlagSets

VARIABLES part, x1, x2, x3, x4, x5, x6, x7, x8, x9, x10, x11

own == <<x1, x2, x3, x4, x5, x6, x7, x8, x9, x10, x11>>
vars == <<part, own>>

Cli == INSTANCE ChatCli WITH
    node <- x1, saved <- x2, mode <- x3, settings <- x4, joined <- x5, talk <- x6,
    asked <- x7, refused <- x8
Exec == INSTANCE Executor WITH
    setup <- x1, resources <- x2, active <- x3, task <- x4, place <- x5
Vectors == INSTANCE VectorStore WITH
    heap <- x1, named <- x2, file <- x3, temp <- x4, op <- x5, crossed <- x6
Engine == INSTANCE Routines WITH
    trigger <- x1, status <- x2, lastRun <- x3, running <- x4, startup <- x5,
    asleep <- x6, spawned <- x7, busy <- x8, listening <- x9, events <- x10, starts <- x11
Mcp == INSTANCE McpSessions WITH
    config <- x1, live <- x2, tools <- x3, reload <- x4, overlapped <- x5, up <- x6,
    reading <- x7, writing <- x8, ids <- x9, pending <- x10, call <- x11
Mail == INSTANCE Messaging WITH
    registered <- x1, connected <- x2, op <- x3, incoming <- x4, outgoing <- x5,
    poller <- x6, confirmed <- x7, updates <- x8, got <- x9, connects <- x10
Net == INSTANCE PeerNet WITH
    Peers <- Neighbours,
    links <- x1, listed <- x2, shown <- x3, event <- x4, dials <- x5, sent <- x6,
    flying <- x7, known <- x8, sharing <- x9, posts <- x10, a2a <- x11
Proxy == INSTANCE MeteredProxy WITH
    Requests <- Handlers,
    rules <- x1, request <- x2, free <- x3, rate <- x4, minute <- x5, served <- x6,
    passed <- x7, taken <- x8
Skills == INSTANCE SkillBook WITH
    disk <- x1, skills <- x2, disabled <- x3, network <- x4, injected <- x5,
    flying <- x6, edits <- x7, batches <- x8
Builtin == INSTANCE ToolRuns WITH
    direct <- x1, file <- x2, call <- x3, child <- x4, stats <- x5
Wasm == INSTANCE WasmRuns WITH
    Tools <- Installed, Callers <- Executions,
    file <- x1, tools <- x2, compiled <- x3, loader <- x4, run <- x5
Home == INSTANCE NodeHome WITH
    Settings <- Asked,
    environment <- x1, identity <- x2, config <- x3, program <- x4, live <- x5,
    save <- x6, starts <- x7, acked <- x8, overlapped <- x9, apart <- x10

ASSUME NodeAssumption ==
    /\ Cli!ChatAssumption /\ Exec!ExecutorAssumption /\ Vectors!VectorAssumption
    /\ Engine!RoutinesAssumption /\ Mcp!McpAssumption /\ Mail!MessagingAssumption
    /\ Net!PeerNetAssumption /\ Proxy!ProxyAssumption /\ Skills!SkillsAssumption
    /\ Builtin!ToolsAssumption /\ Wasm!WasmAssumption /\ Home!HomeAssumption

\* The variables from one on, which a part with fewer leaves alone.
from11 == <<x11>>
from10 == <<x10, from11>>
from9 == <<x9, from10>>
from7 == <<x7, x8, from9>>
from6 == <<x6, from7>>
NoneFrom11 == x11 = None
NoneFrom10 == x10 = None /\ NoneFrom11
NoneFrom9 == x9 = None /\ NoneFrom10
NoneFrom7 == x7 = None /\ x8 = None /\ NoneFrom9
NoneFrom6 == x6 = None /\ NoneFrom7

Init ==
    \/ part = "cli" /\ Cli!Init /\ NoneFrom9
    \/ part = "exec" /\ Exec!Init /\ NoneFrom6
    \/ part = "vectors" /\ Vectors!Init /\ NoneFrom7
    \/ part = "engine" /\ Engine!Init
    \/ part = "mcp" /\ Mcp!Init
    \/ part = "mail" /\ Mail!Init /\ NoneFrom11
    \/ part = "net" /\ Net!Init
    \/ part = "proxy" /\ Proxy!Init /\ NoneFrom9
    \/ part = "skills" /\ Skills!Init /\ NoneFrom9
    \/ part = "tools" /\ Builtin!Init /\ NoneFrom6
    \/ part = "wasm" /\ Wasm!Init /\ NoneFrom6
    \/ part = "home" /\ Home!Init /\ NoneFrom11

In(p, rest) == part = p /\ UNCHANGED <<part, rest>>

Next ==
    \/ In("cli", from9) /\ Cli!Next
    \/ In("exec", from6) /\ Exec!Next
    \/ In("vectors", from7) /\ Vectors!Next
    \/ In("engine", <<>>) /\ Engine!Next
    \/ In("mcp", <<>>) /\ Mcp!Next
    \/ In("mail", from11) /\ Mail!Next
    \/ In("net", <<>>) /\ Net!Next
    \/ In("proxy", from9) /\ Proxy!Next
    \/ In("skills", from9) /\ Skills!Next
    \/ In("tools", from6) /\ Builtin!Next
    \/ In("wasm", from6) /\ Wasm!Next
    \/ In("home", from11) /\ Home!Next

Spec == Init /\ [][Next]_vars

-------------------------------------------------------------------------------
(* Properties                                                              *)

\* The types of the parts, checked with the first property below.
Typed ==
    /\ part = "skills" => Skills!TypeOK
    /\ part = "tools" => Builtin!TypeOK
    /\ part = "home" => Home!TypeOK

\* Two records of one thing agree: the counters of the executor and what runs
\* (executor/mod.rs), a collection and its points (vector/mod.rs), the list of
\* peers of the network and the dashboard's (serve.rs), the settings of a node
\* and of its config.toml, the configuration and the live sessions of MCP
\* (web/mod.rs), the calls of tools and their statistics (tools/registry.rs).
AccountsAgree ==
    /\ Typed
    /\ part = "exec" => Exec!CountsRunning
    /\ part = "vectors" => Vectors!DimensionsAgree
    /\ part = "net" => Net!ListsAgree
    /\ part = "home" => Home!NodeAndFileAgree /\ Home!FlagsNotSaved
    /\ part = "mcp" => Mcp!LiveAsConfigured
    /\ part = "tools" => Builtin!CallsCounted

\* What is begun can end: a call that waits is known to the session that may
\* answer it (mcp/client.rs), and starts leave a bounded number of loops
\* (routines/mod.rs).
CallsCanEnd ==
    /\ part = "mcp" => Mcp!WaitingIsPending
    /\ part = "engine" => Engine!RunningIsRunning /\ Engine!LoopsBounded

\* Nothing is lost on the way: turns of a chat until they are compacted
\* (chat.rs), updates of a bot over reconnections, only those of allowed peers
\* and chats (messaging/platforms), the output of commands (shell.rs,
\* code_exec.rs), saved collections (vector/mod.rs), the identity of a node and
\* its saved settings (serve.rs, web/mod.rs).
NothingLost ==
    /\ part = "cli" => Cli!TalkKept
    /\ part = "mail" => Mail!NoUpdateLost /\ Mail!OnlyAllowed
    /\ part = "vectors" => Vectors!SavedWhole
    /\ part = "tools" => Builtin!OutputWhole /\ Builtin!NoShellLeft
    /\ part = "home" => Home!OneIdentity /\ Home!SavesKept

\* Limits and prices are the configured ones: of the proxy (proxy/mod.rs,
\* pricing.rs), of the skills that peers offer (registry.rs) and of what a
\* module in the sandbox may touch (sandbox.rs); and what is kept as a module
\* (wasm/mod.rs).
PricesAndLimits ==
    /\ part = "proxy" => Proxy!OvershootBounded /\ Proxy!PricedByRule
    /\ part = "skills" => Skills!OffersOrdered
    /\ part = "wasm" => Wasm!HostKeepsRange /\ Wasm!PartsOnlyTorn

-------------------------------------------------------------------------------
(* Small instances.                                                        *)

\* Pricing rules with the wildcards in every place, and paths they may match.
Rule(pattern, price) == [pattern |-> pattern, price |-> price]
MCRuleSets ==
    {<<Rule(<<"chat", "**">>, 2), Rule(<<"**", "x", "*">>, 1)>>,
     <<Rule(<<"*", "x", "**">>, 2), Rule(<<"x">>, 0)>>,
     <<Rule(<<"**">>, 1)>>,
     <<Rule(<<"**", "chat", "**", "x">>, 0)>>}
MCPaths == {<<"chat">>, <<"chat", "x">>, <<"x", "chat", "x", "y", "x">>, <<"y", "x", "y">>}
MCArguments == -2 .. 3
MCAsked == {<<TRUE, None>>, <<FALSE, TRUE>>}

\* Chats, tasks, threads, requests and calls differ in nothing but their names.
Symmetry ==
    UNION {Permutations(S) : S \in {Chats, Tasks, Threads, Handlers, Calls}}

===============================================================================
