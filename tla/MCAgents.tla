-------------------------------- MODULE MCAgents --------------------------------
(***************************************************************************)
(* What works with agents, in one run: the tasks of an agent, the loop     *)
(* with tools, crews, the sessions of the chat page, the background tasks  *)
(* of the dashboard, the streams of answers, the agents of the swarm, what *)
(* agents remember and the library of workflows.  They share no state that *)
(* their models keep; a behaviour here is a behaviour of one of them,      *)
(* which the initial state chooses.  Each part has the variables x1, x2... *)
(* for its own, in the order of its declaration; the rest are None.        *)
(***************************************************************************)
EXTENDS Naturals, Sequences, TLC

CONSTANTS
    None,
    MaxIterations, KeepRecent, Space, SystemSize, Large, Limits, MaxCost, Histories,
    AgentTasks,
    Signatures, MaxPasses, MaxCalls, MaxRepeats, MaxNudges, MaxReply, PerRequest,
    LoopTasks,
    Runs, Crews, Agents, TaskIds, Capacity,
    Requests, MaxMessages, MaxTurns, Restarts,
    WebTaskIds, MaxChunks,
    Clients, Wanted, SseRoom, AnswerChunks, AnswerPasses, Halted,
    Locals, Remotes, Peers, Callers, MaxHistory, MaxActions,
    Notes, SavedTasks, Scores, Limit, MaxMemories, MaxTop, MinScore,
    Ids, Specs, Editors, Pages, PageRoom, MaxChanges, MaxOther, MaxLoads, MaxStarts

VARIABLES part, x1, x2, x3, x4, x5, x6, x7, x8, x9, x10, x11

own == <<x1, x2, x3, x4, x5, x6, x7, x8, x9, x10, x11>>
vars == <<part, own>>

Agent == INSTANCE AgentTask WITH Tasks <- AgentTasks, Room <- Space,
    conv <- x1, recent <- x2, iterations <- x3, calls <- x4, spent <- x5, outcome <- x6,
    tasks <- x7
Loop == INSTANCE UnifiedLoop WITH Tasks <- LoopTasks,
    pass <- x1, step <- x2, todo <- x3, asked <- x4, ran <- x5, nudges <- x6,
    cancel <- x7, since <- x8, tokens <- x9, spent <- x10, tasks <- x11
Work == INSTANCE CrewRun WITH
    crew <- x1, status <- x2, output <- x3, stop <- x4, accepted <- x5, queue <- x6,
    now <- x7, outputs <- x8, done <- x9, busy <- x10, gossip <- x11
Chat == INSTANCE ChatSessions WITH
    cache <- x1, disk <- x2, kind <- x3, at <- x4, history <- x5, saving <- x6,
    order <- x7, broken <- x8, restarts <- x9
Web == INSTANCE WebTasks WITH Tasks <- WebTaskIds,
    path <- x1, at <- x2, status <- x3, text <- x4, registered <- x5, stop <- x6,
    unread <- x7, sent <- x8, outcome <- x9
Answers == INSTANCE Completions WITH
    Requests <- Clients, MaxChunks <- AnswerChunks, MaxPasses <- AnswerPasses,
    Stopped <- Halted,
    kind <- x1, queue <- x2, serving <- x3, delta <- x4, response <- x5, relay <- x6,
    sse <- x7, seen <- x8, gone <- x9, saved <- x10, pass <- x11
Network == INSTANCE Swarm WITH
    agents <- x1, index <- x2, bridge <- x3, op <- x4, stats <- x5, history <- x6,
    begun <- x7, offer <- x8
Memory == INSTANCE Memories WITH Tasks <- SavedTasks,
    score <- x1, store <- x2, caller <- x3, written <- x4, node <- x5, texts <- x6
Library == INSTANCE AgentLibrary WITH Requests <- Editors, Capacity <- PageRoom,
    list <- x1, file <- x2, request <- x3, page <- x4, changes <- x5, others <- x6,
    starts <- x7, apart <- x8

ASSUME AgentsAssumption ==
    /\ Agent!AgentAssumption /\ Loop!LoopAssumption /\ Work!CrewAssumption
    /\ Chat!SessionAssumption /\ Web!WebTasksAssumption
    /\ Answers!CompletionsAssumption /\ Network!SwarmAssumption
    /\ Memory!MemoriesAssumption /\ Library!LibraryAssumption

\* What the loop takes from a reply and from a conversation, for the sizes given:
\* evaluated, and used by no proof.
ASSUME ReadingAndPruning ==
    Loop!AnswerHasNoCalls /\ Loop!ReadingsAreAll /\ Loop!PruneInOrder

\* The variables from one on, which a part with fewer leaves alone.
from10 == <<x10, x11>>
from9 == <<x9, from10>>
from8 == <<x8, from9>>
from7 == <<x7, from8>>
NoneFrom10 == x10 = None /\ x11 = None
NoneFrom9 == x9 = None /\ NoneFrom10
NoneFrom8 == x8 = None /\ NoneFrom9
NoneFrom7 == x7 = None /\ NoneFrom8

Init ==
    \/ part = "agent" /\ Agent!Init /\ NoneFrom8
    \/ part = "loop" /\ Loop!Init
    \/ part = "crew" /\ Work!Init
    \/ part = "chat" /\ Chat!Init /\ NoneFrom10
    \/ part = "web" /\ Web!Init /\ NoneFrom10
    \/ part = "answers" /\ Answers!Init
    \/ part = "swarm" /\ Network!Init /\ NoneFrom9
    \/ part = "memory" /\ Memory!Init /\ NoneFrom7
    \/ part = "library" /\ Library!Init /\ NoneFrom9

In(p, rest) == part = p /\ UNCHANGED <<part, rest>>

Next ==
    \/ In("agent", from8) /\ Agent!Next
    \/ In("loop", <<>>) /\ Loop!Next
    \/ In("crew", <<>>) /\ Work!Next
    \/ In("chat", from10) /\ Chat!Next
    \/ In("web", from10) /\ Web!Next
    \/ In("answers", <<>>) /\ Answers!Next
    \/ In("swarm", from9) /\ Network!Next
    \/ In("memory", from7) /\ Memory!Next
    \/ In("library", from9) /\ Library!Next

Spec == Init /\ [][Next]_vars

-------------------------------------------------------------------------------
(* Properties                                                              *)

\* The types of the parts, checked with the first property below.
Typed ==
    /\ part = "agent" => Agent!TypeOK
    /\ part = "loop" => Loop!TypeOK
    /\ part = "crew" => Work!TypeOK
    /\ part = "chat" => Chat!TypeOK
    /\ part = "web" => Web!TypeOK
    /\ part = "library" => Library!TypeOK

\* An agent keeps within what it is allowed: its budget (budget.rs), repeats of
\* one tool call and what it still does once it was told to stop
\* (unified_loop.rs).
LimitsKept ==
    /\ Typed
    /\ part = "agent" => Agent!BudgetKept
    /\ part = "loop" => Loop!RepeatsBounded /\ Loop!StopHonouredBetween

\* What a model is shown of the past is whole: the recent exchanges of a task
\* survive pruning and what is sent fits (compaction.rs); the turns of a
\* session are exchanges that had ended, in their order (mod.rs, session.rs);
\* what was written into memory is there and the best of it is found
\* (memory.rs, vector/mod.rs, runtime.rs).
ContextKept ==
    /\ part = "agent" => Agent!RecentKept /\ Agent!PrunedFits
    /\ part = "chat" => Chat!CacheInPairs /\ Chat!DiskInPairs /\ Chat!HistoryIsPast
    /\ part = "memory" => /\ Memory!WrittenIsKept /\ Memory!BestIsFound
                          /\ Memory!RecalledAreNearest /\ Memory!MoreIsLonger

\* What is recorded or told of a run is what happened: a crew's record, output
\* and offers (store.rs, orchestrator.rs, runtime.rs), a task's status and
\* result (mod.rs), the answer that a client reads (openai.rs, mod.rs), the
\* counts and the timeline of the swarm (manager.rs), the library of workflows
\* in its file and on the pages that show it (agent_library.rs, mod.rs).
RecordsTrue ==
    /\ part = "crew" => /\ Work!ValidIsEnough /\ Work!RecordsAgree
                        /\ Work!OutputIsWhole /\ Work!OffersFollowRuns
    /\ part = "web" => Web!ShownAsEnded
    /\ part = "answers" => /\ Answers!ChunksInOrder /\ Answers!DoneAfterAll
                           /\ Answers!DoneIsSaved
    /\ part = "swarm" => Network!CountsAgree /\ Network!PagesWhole /\ Network!OneAgentEach
    /\ part = "library" => Library!FileHasList /\ Library!PageIsCurrent

\* No late answer, chunk or stop changes the status of a task that has ended.
StatusIsFinal == [][part = "web" => Web!Settled]_vars

-------------------------------------------------------------------------------
(* Small instances.                                                        *)

CONSTANTS anna, bert, absent, draft, review, unknown, client1, client2, note1, note2, note3, note4, note5, note6

MCLimits == [request |-> 1, hour |-> 2, day |-> 2, total |-> 3]

Task(id, agent, context) == [id |-> id, agent |-> agent, context |-> context]
Crew(process, manager, distributed, steps) ==
    [process |-> process, manager |-> manager, distributed |-> distributed, tasks |-> steps]

\* Tasks that name themselves, a later one, one done twice and an unknown one;
\* managers that are named, left out and missing.
MCCrews ==
    {Crew("sequential", None, FALSE,
          <<Task(draft, anna, {}), Task(draft, bert, {review, draft}), Task(review, anna, {draft})>>),
     Crew("hierarchical", absent, FALSE, <<Task(draft, anna, {})>>),
     Crew("hierarchical", anna, TRUE, <<Task(draft, anna, {}), Task(review, bert, {draft})>>),
     Crew("delegate", None, FALSE, <<Task(review, anna, {}), Task(draft, bert, {review})>>),
     Crew("sequential", absent, FALSE, <<Task(draft, anna, {unknown})>>)}

\* How two requests want their answers.
MCWanted ==
    {client1 :> "whole" @@ client2 :> "plain", client1 :> "plain" @@ client2 :> "whole",
     client1 :> "openai" @@ client2 :> "agentic", client1 :> "agentic" @@ client2 :> "openai",
     client1 :> "mcp" @@ client2 :> "whole", client1 :> "whole" @@ client2 :> "mcp"}

\* How near memories are to a query: nearest by vector and text, or by either.
By(vector, text) == [vector |-> vector, text |-> text]
MCScores ==
    {note1 :> By(1, 2) @@ note2 :> By(2, 0) @@ note3 :> By(3, 3)
       @@ note4 :> By(0, 4) @@ note5 :> By(6, 9) @@ note6 :> By(4, 1),
     note1 :> By(5, 5) @@ note2 :> By(4, 1) @@ note3 :> By(3, 0)
       @@ note4 :> By(2, 2) @@ note5 :> By(1, 3) @@ note6 :> By(0, 4)}

\* Requests of a chat or of clients, callers and local agents differ in nothing
\* but their names.
Symmetry == UNION {Permutations(S) : S \in {Requests, Clients, Callers, Locals}}

===============================================================================
