------------------------------ MODULE MCInference ------------------------------
(***************************************************************************)
(* The parts of the inference engine, in one run.  The batch queue, the    *)
(* model cache, the download of a model from peers, the directory of       *)
(* models, the choice of a back end, the generation of a text and the      *)
(* reading of a stream share no state that their models keep; a behaviour  *)
(* here is a behaviour of one of them, which the initial state chooses.    *)
(* Each part has the variables x1, x2... for its own, in the order of its  *)
(* declaration; the rest are None.                                         *)
(***************************************************************************)
EXTENDS Naturals, Sequences

CONSTANTS
    None,
    Models,                             \* numbered from 1
    Names, Norm, Begins,                \* what models are asked by
    Callers, ModelOf, MaxQueue, MaxBatch, MinBatch,
    Loaders, Size, Largest, MaxModels, MaxMemory,
    Versions, Chunks, Drivers,
    Fetches, Web, Length,
    Pieces, Stops, Prompts, Limits, Batch, Context,
    Replies

VARIABLES part, x1, x2, x3, x4, x5, x6, x7, x8, x9, x10, x11, x12, x13

own == <<x1, x2, x3, x4, x5, x6, x7, x8, x9, x10, x11, x12, x13>>
vars == <<part, own>>

Queue == INSTANCE BatchQueue WITH
    Requests <- Callers,
    at <- x1, answer <- x2, queue <- x3, depth <- x4, down <- x5, proc <- x6,
    batch <- x7, group <- x8
Cache == INSTANCE ModelCache WITH
    Tasks <- Loaders,
    loaded <- x1, refs <- x2, memory <- x3, at <- x4, wants <- x5, fits <- x6, holds <- x7
Download == INSTANCE ModelDownload WITH
    pending <- x1, partial <- x2, final <- x3, available <- x4, at <- x5, works <- x6
Shelf == INSTANCE ModelShelf WITH
    Names <- Models, Downloads <- Fetches,
    shelf <- x1, data <- x2, at <- x3, name <- x4, version <- x5, file <- x6,
    written <- x7, registry <- x8, met <- x9, removed <- x10
Engine == INSTANCE Backends WITH
    chain <- x1, live <- x2, writer <- x3, registry <- x4, cached <- x5, cooling <- x6,
    at <- x7, request <- x8, todo <- x9, reading <- x10, light <- x11, moved <- x12,
    answer <- x13
Text == INSTANCE Generation WITH
    prompt <- x1, limit <- x2, fed <- x3, chunk <- x4, count <- x5, text <- x6,
    streamed <- x7, outcome <- x8
Stream == INSTANCE OllamaStream WITH
    Answers <- Replies,
    lines <- x1, coming <- x2, buffer <- x3, given <- x4, damaged <- x5, counted <- x6,
    result <- x7, torn <- x8

\* One driver: ModelDownload says why.
ASSUME InferenceAssumption ==
    /\ Queue!BatchAssumption /\ Cache!CacheAssumption
    /\ Download!DownloadAssumption /\ \A d, e \in Drivers : d = e
    /\ Shelf!ShelfAssumption /\ Engine!BackendsAssumption
    /\ Text!GenerationAssumption /\ Stream!OllamaAssumption

\* The variables from one on, which a part with fewer leaves alone.
from11 == <<x11, x12, x13>>
from9 == <<x9, x10, from11>>
from8 == <<x8, from9>>
from7 == <<x7, from8>>
NoneFrom11 == x11 = None /\ x12 = None /\ x13 = None
NoneFrom9 == x9 = None /\ x10 = None /\ NoneFrom11
NoneFrom8 == x8 = None /\ NoneFrom9
NoneFrom7 == x7 = None /\ NoneFrom8

Init ==
    \/ part = "queue" /\ Queue!Init /\ NoneFrom9
    \/ part = "cache" /\ Cache!Init /\ NoneFrom8
    \/ part = "download" /\ Download!Init /\ NoneFrom7
    \/ part = "shelf" /\ Shelf!Init /\ NoneFrom11
    \/ part = "engine" /\ Engine!Init
    \/ part = "text" /\ Text!Init /\ NoneFrom9
    \/ part = "stream" /\ Stream!Init /\ NoneFrom9

In(p, rest) == part = p /\ UNCHANGED <<part, rest>>
InQueue(A) == In("queue", from9) /\ A
InEngine(A) == In("engine", <<>>) /\ A
InText(A) == In("text", from9) /\ A

Next ==
    \/ InQueue(Queue!Next)
    \/ In("cache", from8) /\ Cache!Next
    \/ In("download", from7) /\ Download!Next
    \/ In("shelf", from11) /\ Shelf!Next
    \/ InEngine(Engine!Next)
    \/ InText(Text!Next)
    \/ In("stream", from9) /\ Stream!Next

\* The fairness of each part: BatchQueue, Backends and Generation say why.
Fairness ==
    /\ \A r \in Callers :
         /\ SF_vars(InQueue(Queue!Send(r) \/ Queue!SendFails(r)))
         /\ WF_vars(InQueue(Queue!Count(r) \/ Queue!Return(r)))
    /\ WF_vars(InQueue(Queue!Process))
    /\ SF_vars(InQueue(Queue!First))
    /\ WF_vars(InEngine(Engine!Serve))
    /\ WF_vars(InEngine(Engine!PutWrites \/ Engine!PutSaves))
    /\ WF_vars(InText(Text!Next))

Spec == Init /\ [][Next]_vars /\ Fairness

-------------------------------------------------------------------------------
(* Properties                                                              *)

\* The types of the parts, checked with the first property below.
Typed ==
    /\ part = "queue" => Queue!TypeOK
    /\ part = "cache" => Cache!TypeOK
    /\ part = "download" => Download!TypeOK
    /\ part = "engine" => Engine!TypeOK
    /\ part = "text" => Text!TypeOK

\* The counters the engine keeps beside its tables, which are changed under
\* other locks than the tables: queue_depth (batch.rs) and the memory counter
\* (cache.rs) fall short by no more than what is on its way into them, and the
\* loaded models pass their limits by at most one for each other loader.
CountersCover ==
    /\ Typed
    /\ part = "queue" => Queue!DepthCovers
    /\ part = "cache" => Cache!MemoryCovers /\ Cache!MemoryBounded /\ Cache!TableBounded

\* What is answered or offered is what was asked for or announced: one answer
\* for each request of a batch, the model that was asked for and the load that
\* was routed (mod.rs, failover.rs), a whole file of one version
\* (distribution.rs), the file of an address (models_hf.rs, models.rs), a text
\* for every prompt and limit that fit the context, produced token by token in
\* its place and cut at its stop sequences, all of which a client that reads
\* along has seen (gguf.rs).
AsAsked ==
    /\ part = "queue" => Queue!OneAnswer
    /\ part = "engine" => Engine!RightModel /\ Engine!LightStaysLight
    /\ part = "download" => Download!OfferedIsWhole /\ Download!MarksAreWritten
    /\ part = "shelf" => /\ Shelf!SuccessIsWhole /\ Shelf!WritersMet
                         /\ Shelf!SuccessIsRegistered
    /\ part = "text" => /\ Text!FittingIsAnswered /\ Text!EveryTokenFed
                        /\ Text!StreamCoversText /\ Text!CutAtStop

\* The texts handed on are those of Ollama's lines, in their order, however the
\* stream was cut on the way; only a line that was cut inside a character loses
\* that character (ollama.rs).
StreamSound ==
    part = "stream" => Stream!TypeOK /\ Stream!TextsInOrder /\ Stream!OnlyTornDamaged

\* Nobody waits for ever.  A caller of submit is answered, also when the queue
\* is full or shut down: callers do not come back, so that again and again
\* nobody waiting means each of them is answered.  The settings page gets the
\* lock that requests hold while a back end answers.  A generation ends.
NobodyWaits ==
    \/ part \in {"cache", "download", "shelf", "stream"}
    \/ part = "queue" /\ \A r \in Callers : x1[r] \in {"out", "done"}   \* at
    \/ part = "engine" /\ x3 # "waiting"                                 \* writer
    \/ part = "text" /\ x8 # "running"                                   \* outcome
WaitsEnd == []<>NobodyWaits

-------------------------------------------------------------------------------
(* Small instances.                                                        *)

MCModelOf == [r \in Callers |-> IF r = 2 THEN 2 ELSE 1]
MCSize == [m \in Models |-> m]
\* A family, 3, with two GGUF models, 1 and 2, and a name with a tag, 4.
MCNorm == [n \in Names |-> IF n = 4 THEN 3 ELSE n]
MCBegins == {<<n, n>> : n \in Names} \cup {<<3, 1>>, <<3, 2>>, <<3, 4>>}
MCStops == {<<"x">>, <<"y", "x">>, <<"y", "z">>}
MCReplies ==
    {<<"text", "blank", "text", "done">>, <<"text", "text", "garbage">>, <<>>}

===============================================================================
