------------------------------ MODULE Completions ------------------------------
(***************************************************************************)
(* Answers on their way from the model to a client (web/openai.rs:         *)
(* /v1/chat/completions; web/mod.rs: api_chat_stream).  A request goes     *)
(* through the channel of the serve loop, which serves one at a time and   *)
(* pushes chunks into a channel without a bound; a relay puts them into    *)
(* the bounded channel of the response, which the client reads, or leaves. *)
(* Events are numbers: those of the chunks, Role the first event, Done the *)
(* last, and ErrorText.  A request with tools, those of the node           *)
(* ("agentic") or of MCP servers only ("mcp"), asks the model several      *)
(* times over one channel.                                                 *)
(***************************************************************************)
EXTENDS Naturals, Sequences, FiniteSets

CONSTANTS Requests, Wanted, Capacity, SseRoom, MaxChunks, MaxPasses, None, Stopped

Kinds == {"whole", "openai", "plain", "agentic", "mcp"}

\* Wanted: the ways in which the requests may want their answers.  Bounds: chunks
\* of an answer, calls of the model by a request with tools.
CompletionsAssumption ==
    /\ Wanted \subseteq [Requests -> Kinds]
    /\ Capacity \in Nat \ {0} /\ SseRoom \in Nat \ {0}
    /\ MaxChunks \in Nat \ {0} /\ MaxPasses \in Nat \ {0}
    /\ Stopped # None /\ {None, Stopped} \cap Requests = {}
    /\ None \notin {"answer", "error", "cancelled"}

VARIABLES
    kind,      \* how the answer is wanted
    queue,     \* the requests in inference_tx
    serving,   \* the request the loop executes, or Stopped
    delta,     \* of each request: chunks made, chunks not yet forwarded, sender open
    response,  \* what response_rx holds
    relay,     \* where the task that forwards is
    sse,       \* the events in the channel of the response
    seen,      \* the events the client has read
    gone,      \* the requests whose client has left
    saved,     \* the requests whose exchange is in the session
    pass       \* calls of the model begun for a request

vars == <<kind, queue, serving, delta, response, relay, sse, seen, gone, saved, pass>>

Role == 0
ErrorText == MaxChunks + 1
Done == MaxChunks + 2

Streams == {"openai", "plain", "agentic", "mcp"}
WithTools(r) == kind[r] \in {"agentic", "mcp"}

Init ==
    /\ kind \in Wanted
    /\ queue = <<>> /\ serving = None
    /\ delta = [r \in Requests |-> [made |-> 0, waiting |-> <<>>, open |-> TRUE]]
    /\ response = [r \in Requests |-> None]
    /\ relay = [r \in Requests |-> "none"]
    /\ sse = [r \in Requests |-> <<>>] /\ seen = [r \in Requests |-> <<>>]
    /\ gone = {} /\ saved = {} /\ pass = [r \in Requests |-> 0]

\* An event for the client: refused once the client has left.
CanSend(r) == r \in gone \/ Len(sse[r]) < SseRoom
Sent(r, e) == IF r \in gone THEN sse ELSE [sse EXCEPT ![r] = Append(@, e)]

-------------------------------------------------------------------------------
(* The handlers and the serve loop                                         *)

To(r, step) == relay' = [relay EXCEPT ![r] = step]

\* tx.send waits for room; then the relay is spawned.
Queued(r) ==
    /\ relay[r] = "none" /\ Len(queue) < Capacity
    /\ queue' = Append(queue, r)
    /\ pass' = [pass EXCEPT ![r] = 1]
    /\ UNCHANGED <<kind, serving, delta, response, seen, gone, saved>>

AskWhole(r) == kind[r] = "whole" /\ Queued(r) /\ To(r, "await") /\ UNCHANGED sse

\* The relay sends the role first, into an empty channel.
AskOpenai(r) == kind[r] = "openai" /\ Queued(r) /\ To(r, "forward") /\ sse' = Sent(r, Role)

AskPlain(r) == kind[r] = "plain" /\ Queued(r) /\ To(r, "forward") /\ UNCHANGED sse

\* The loop with tools asks, while the relay runs beside it.
AskWithTools(r) == WithTools(r) /\ Queued(r) /\ To(r, "forward") /\ UNCHANGED sse

Serve ==
    /\ serving = None /\ queue # <<>>
    /\ serving' = Head(queue) /\ queue' = Tail(queue)
    /\ UNCHANGED <<kind, delta, response, relay, sse, seen, gone, saved, pass>>

\* The executor pushes a chunk; that nobody receives is not looked at.
Produce(r) ==
    /\ serving = r /\ kind[r] \in Streams /\ delta[r].made < MaxChunks
    /\ delta' = [delta EXCEPT ![r].made = @ + 1,
                              ![r].waiting = IF relay[r] = "forward" THEN Append(@, delta[r].made + 1)
                                             ELSE @]
    /\ UNCHANGED <<kind, queue, serving, response, relay, sse, seen, gone, saved, pass>>

\* The execution ends: its sender is dropped, and then the answer is sent, a
\* text also where the task failed.  A loop with tools keeps a sender.
Answer(r, answer) ==
    /\ serving = r /\ serving' = None
    /\ response' = [response EXCEPT ![r] = answer]
    /\ delta' = [delta EXCEPT ![r].open = WithTools(r)]
    /\ UNCHANGED <<kind, queue, relay, sse, seen, gone, saved, pass>>

\* The node stops, or has stopped: requests in the channel are dropped with
\* their senders.
Dropped == {queue[i] : i \in DOMAIN queue}
Stop ==
    /\ serving \in {None, Stopped}
    /\ serving' = Stopped /\ queue' = <<>>
    /\ response' = [r \in Requests |-> IF r \in Dropped THEN "cancelled" ELSE response[r]]
    /\ delta' = [r \in Requests |-> IF r \in Dropped
                                    THEN [delta[r] EXCEPT !.open = WithTools(r)] ELSE delta[r]]
    /\ UNCHANGED <<kind, relay, sse, seen, gone, saved, pass>>

-------------------------------------------------------------------------------
(* The loop with tools, which runs beside its relay                        *)

\* run_unified_agentic_loop, seen from here: after an answer with tool calls it
\* asks again.
AskAgain(r) ==
    /\ WithTools(r) /\ response[r] = "answer" /\ delta[r].open
    /\ pass[r] < MaxPasses /\ Len(queue) < Capacity
    /\ queue' = Append(queue, r)
    /\ pass' = [pass EXCEPT ![r] = @ + 1]
    /\ response' = [response EXCEPT ![r] = None]
    /\ UNCHANGED <<kind, serving, delta, relay, sse, seen, gone, saved>>

\* It ends, and with it the last sender.
RunEnds(r) ==
    /\ WithTools(r) /\ response[r] # None /\ delta[r].open
    /\ delta' = [delta EXCEPT ![r].open = FALSE]
    /\ UNCHANGED <<kind, queue, serving, response, relay, sse, seen, gone, saved, pass>>

-------------------------------------------------------------------------------
(* The relay                                                               *)

\* A chunk is forwarded.
Forward(r, next) ==
    /\ relay[r] = "forward" /\ delta[r].waiting # <<>> /\ CanSend(r)
    /\ sse' = Sent(r, Head(delta[r].waiting))
    /\ delta' = [delta EXCEPT ![r].waiting = IF r \in gone THEN <<>> ELSE Tail(@)]
    /\ IF r \in gone THEN To(r, next) ELSE UNCHANGED relay
    /\ UNCHANGED <<kind, queue, serving, response, seen, gone, saved, pass>>

\* When the client has left, the relay ends; the one beside a loop still waits
\* for it.
ForwardOpenai(r) == kind[r] = "openai" /\ Forward(r, "over")
ForwardPlain(r) == kind[r] = "plain" /\ Forward(r, "over")
ForwardAgentic(r) == kind[r] = "agentic" /\ Forward(r, "await")
ForwardMcp(r) == kind[r] = "mcp" /\ Forward(r, "await")

ChunksEnd(r) ==
    /\ relay[r] = "forward" /\ delta[r].waiting = <<>> /\ ~delta[r].open
    /\ To(r, "await")
    /\ UNCHANGED <<kind, queue, serving, delta, response, sse, seen, gone, saved, pass>>

\* The outcome is there.
Got(r, next) ==
    /\ relay[r] = "await" /\ response[r] # None
    /\ To(r, next)
    /\ UNCHANGED <<kind, queue, serving, delta, response, sse, seen, gone, pass>>

GotOpenai(r) == kind[r] \in {"whole", "openai"} /\ Got(r, "finish") /\ UNCHANGED saved

\* Saved, whatever it says.
GotPlain(r) == kind[r] = "plain" /\ Got(r, "finish") /\ saved' = saved \cup {r}

\* Of a loop, only an answer is saved; an error is one more chunk.
GotOfLoop(r, k) ==
    /\ kind[r] = k /\ ~delta[r].open
    /\ \/ response[r] = "answer" /\ Got(r, "finish") /\ saved' = saved \cup {r}
       \/ response[r] # "answer" /\ Got(r, "error") /\ UNCHANGED saved
GotAgentic(r) == GotOfLoop(r, "agentic")
GotMcp(r) == GotOfLoop(r, "mcp")

\* Without a stream the 120 seconds also run while the request waits for its
\* turn; the loop will execute it all the same.
Timeout(r) ==
    /\ relay[r] = "await" /\ kind[r] = "whole" /\ response[r] = None
    /\ sse' = Sent(r, Done) /\ To(r, "over")
    /\ UNCHANGED <<kind, queue, serving, delta, response, seen, gone, saved, pass>>

ErrorChunk(r, k) ==
    /\ kind[r] = k /\ relay[r] = "error" /\ CanSend(r)
    /\ sse' = Sent(r, ErrorText) /\ To(r, IF r \in gone THEN "over" ELSE "finish")
    /\ UNCHANGED <<kind, queue, serving, delta, response, seen, gone, saved, pass>>
ErrorAgentic(r) == ErrorChunk(r, "agentic")
ErrorMcp(r) == ErrorChunk(r, "mcp")

\* The last event: `done`, the finish chunk with [DONE], or the whole answer.
Finish(r, k) ==
    /\ kind[r] = k /\ relay[r] = "finish" /\ CanSend(r)
    /\ sse' = Sent(r, Done) /\ To(r, "over")
    /\ UNCHANGED <<kind, queue, serving, delta, response, seen, gone, saved, pass>>
FinishWhole(r) == Finish(r, "whole")
FinishOpenai(r) == Finish(r, "openai")
FinishPlain(r) == Finish(r, "plain")
FinishAgentic(r) == Finish(r, "agentic")
FinishMcp(r) == Finish(r, "mcp")

-------------------------------------------------------------------------------
(* The client                                                              *)

Read(r) ==
    /\ r \notin gone /\ sse[r] # <<>>
    /\ seen' = [seen EXCEPT ![r] = Append(@, Head(sse[r]))]
    /\ sse' = [sse EXCEPT ![r] = Tail(@)]
    /\ UNCHANGED <<kind, queue, serving, delta, response, relay, gone, saved, pass>>

\* The response is dropped with what is in its channel; a handler without a
\* stream is dropped as well.
Leave(r) ==
    /\ r \notin gone /\ relay[r] \notin {"none", "over"}
    /\ gone' = gone \cup {r}
    /\ sse' = [sse EXCEPT ![r] = <<>>]
    /\ IF kind[r] = "whole" THEN To(r, "over") ELSE UNCHANGED relay
    /\ UNCHANGED <<kind, queue, serving, delta, response, seen, saved, pass>>

Next ==
    \/ Serve \/ Stop
    \/ \E r \in Requests :
         \/ AskWhole(r) \/ AskOpenai(r) \/ AskPlain(r) \/ AskWithTools(r) \/ Produce(r) \/ Answer(r, "answer") \/ Answer(r, "error")
         \/ AskAgain(r) \/ RunEnds(r)
         \/ ForwardOpenai(r) \/ ForwardPlain(r) \/ ForwardAgentic(r) \/ ForwardMcp(r)
         \/ ChunksEnd(r) \/ GotOpenai(r) \/ GotPlain(r) \/ GotAgentic(r) \/ GotMcp(r)
         \/ Timeout(r) \/ ErrorAgentic(r) \/ ErrorMcp(r)
         \/ FinishWhole(r) \/ FinishOpenai(r) \/ FinishPlain(r) \/ FinishAgentic(r) \/ FinishMcp(r)
         \/ Read(r) \/ Leave(r)

Spec == Init /\ [][Next]_vars

-------------------------------------------------------------------------------
(* Properties                                                              *)

\* The elements of s that are in S, in their order.
OnlyIn(s, S) ==
    LET only[i \in 0 .. Len(s)] ==
          IF i = 0 THEN <<>>
          ELSE IF s[i] \in S THEN Append(only[i - 1], s[i]) ELSE only[i - 1]
    IN  only[Len(s)]

Chunks(events) == OnlyIn(events, 1 .. MaxChunks)

\* Chunks reach a client that stays in their order and without a gap, however
\* slowly it reads (openai.rs: the delta channel, the channel of the response).
ChunksInOrder ==
    \A r \in Requests \ gone :
      kind[r] \in Streams =>
        Chunks(seen[r]) \o Chunks(sse[r]) \o delta[r].waiting = [i \in 1 .. delta[r].made |-> i]

\* The last event comes last, after everything that was made ("we reach here
\* only after all tokens have been streamed", openai.rs).
DoneAfterAll ==
    \A r \in Requests \ gone :
      LET events == seen[r] \o sse[r]
      IN  \A i \in DOMAIN events : events[i] = Done =>
            /\ i = Len(events)
            /\ kind[r] \in Streams => Len(Chunks(events)) = delta[r].made

\* A client that has read the end of an answer finds the exchange in its session
\* when it asks again; what no client waited for is kept only when it came from
\* a loop with tools or in full.
DoneIsSaved ==
    \A r \in Requests :
      /\ Done \in {seen[r][i] : i \in DOMAIN seen[r]} /\ kind[r] \in {"plain", "agentic", "mcp"} =>
           r \in saved \/ ErrorText \in {seen[r][i] : i \in DOMAIN seen[r]}
      /\ r \in saved => response[r] # None /\ ~delta[r].open

===============================================================================
