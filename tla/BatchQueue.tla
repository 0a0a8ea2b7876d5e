------------------------------ MODULE BatchQueue ------------------------------
(***************************************************************************)
(* The batch aggregator (src/src/inference/batch.rs): callers put requests *)
(* into a bounded channel, one processor takes them out in batches, runs   *)
(* the inference function on those of each model, and answers each caller  *)
(* through a channel of its own.  A caller counts its request in           *)
(* stats.queue_depth after it has sent it, without the processor's         *)
(* knowledge.                                                              *)
(***************************************************************************)
EXTENDS Integers, Sequences, FiniteSets

CONSTANTS
    Requests,       \* calls of submit, one request each
    Models,
    ModelOf,        \* the model each asks for
    MaxQueue,       \* max_queue_depth
    MaxBatch,       \* max_batch_size
    MinBatch,       \* min_batch_size
    None            \* no answer

BatchAssumption ==
    /\ IsFiniteSet(Requests) /\ IsFiniteSet(Models)
    /\ MaxQueue \in Nat \ {0} /\ MaxBatch \in Nat \ {0} /\ MinBatch \in Nat
    /\ ModelOf \in [Requests -> Models]
    /\ None \notin {"ok", "failed", "shutdown", "full"}

VARIABLES
    at,             \* where each caller is
    answer,         \* what it was told
    queue,          \* the channel
    depth,          \* stats.queue_depth
    down,           \* the shutdown flag
    proc,           \* where the processor is
    batch,          \* requests collected, in order
    group           \* requests of the batch to run, and the model that runs

callers == <<at, answer>>
processor == <<proc, batch, group>>
vars == <<callers, queue, depth, down, processor>>

Answers == {"ok", "failed", "shutdown", "full"}
Places == {"out", "send", "count", "wait", "done"}
Phases == {"top", "first", "more", "tally", "groups", "infer", "left", "gone"}

Least(m, n) == IF m < n THEN m ELSE n
Elements(s) == {s[i] : i \in DOMAIN s}

\* Answers r, whose caller may not listen yet.
Told(S, a) == answer' = [r \in Requests |-> IF r \in S THEN a ELSE answer[r]]

\* The node's own runtime drops the processor as it makes it: it starts gone.
Init ==
    /\ at = [r \in Requests |-> "out"] /\ answer = [r \in Requests |-> None]
    /\ queue = <<>> /\ depth = 0 /\ down = FALSE
    /\ proc \in {"top", "gone"} /\ batch = <<>> /\ group = {}

-------------------------------------------------------------------------------
(* submit                                                                  *)

Move(r, from, to) == at[r] = from /\ at' = [at EXCEPT ![r] = to]

CheckShutdown(r) ==
    /\ IF down THEN Move(r, "out", "done") /\ Told({r}, "shutdown")
               ELSE Move(r, "out", "send") /\ UNCHANGED answer
    /\ UNCHANGED <<queue, depth, down, processor>>

Send(r) ==
    /\ proc # "gone" /\ Len(queue) < MaxQueue
    /\ Move(r, "send", "count")
    /\ queue' = Append(queue, r)
    /\ UNCHANGED <<answer, depth, down, processor>>

\* Also a caller that was waiting for room.
SendFails(r) ==
    /\ proc = "gone"
    /\ Move(r, "send", "done") /\ Told({r}, "full")
    /\ UNCHANGED <<queue, depth, down, processor>>

Count(r) ==
    /\ Move(r, "count", "wait")
    /\ depth' = depth + 1
    /\ UNCHANGED <<answer, queue, down, processor>>

Return(r) ==
    /\ answer[r] # None
    /\ Move(r, "wait", "done")
    /\ UNCHANGED <<answer, queue, depth, down, processor>>

Shutdown ==
    /\ ~down /\ down' = TRUE
    /\ UNCHANGED <<callers, queue, depth, processor>>

-------------------------------------------------------------------------------
(* BatchProcessor::run                                                     *)

Drain ==
    /\ proc = "top" /\ down
    /\ Told(Elements(queue), "shutdown")
    /\ queue' = <<>> /\ proc' = "left"
    /\ UNCHANGED <<at, depth, down, batch, group>>

Go ==
    /\ proc = "top" /\ ~down /\ proc' = "first"
    /\ UNCHANGED <<callers, queue, depth, down, batch, group>>

Take ==
    /\ queue # <<>>
    /\ batch' = Append(batch, Head(queue)) /\ queue' = Tail(queue)
    /\ UNCHANGED <<callers, depth, down, group>>

First ==
    /\ proc = "first" /\ Take /\ proc' = "more"

NothingCame ==
    /\ proc = "first" /\ queue = <<>> /\ proc' = "top"
    /\ UNCHANGED <<callers, queue, depth, down, batch, group>>

More ==
    /\ proc = "more" /\ Len(batch) < Least(MaxBatch, MinBatch)
    /\ Take /\ UNCHANGED proc

\* The window expires, or the batch is large enough.
WindowEnds ==
    /\ proc = "more" /\ proc' = "tally"
    /\ UNCHANGED <<callers, queue, depth, down, batch, group>>

\* saturating_sub
Tally ==
    /\ proc = "tally" /\ proc' = "groups"
    /\ depth' = IF Len(batch) > depth THEN 0 ELSE depth - Len(batch)
    /\ group' = Elements(batch) /\ batch' = <<>>
    /\ UNCHANGED <<callers, queue, down>>

OfModel(m) == {r \in group : ModelOf[r] = m}

\* The function may give no result for a request; the caller is told so.
Infer ==
    /\ proc = "groups"
    /\ \E m \in {ModelOf[r] : r \in group}, good \in SUBSET group :
         /\ good \subseteq OfModel(m)
         /\ answer' = [r \in Requests |->
                         IF r \in good THEN "ok"
                         ELSE IF r \in OfModel(m) THEN "failed" ELSE answer[r]]
         /\ group' = group \ OfModel(m)
    /\ UNCHANGED <<at, queue, depth, down, proc, batch>>

BatchDone ==
    /\ proc = "groups" /\ group = {} /\ proc' = "top"
    /\ UNCHANGED <<callers, queue, depth, down, batch, group>>

\* run has returned and its task drops the processor: requests that were sent
\* since lose their sender, and their callers take that for a shutdown.
DropProcessor ==
    /\ proc = "left" /\ proc' = "gone"
    /\ Told(Elements(queue), "shutdown") /\ queue' = <<>>
    /\ UNCHANGED <<at, depth, down, batch, group>>

-------------------------------------------------------------------------------

Caller(r) ==
    CheckShutdown(r) \/ Send(r) \/ SendFails(r) \/ Count(r) \/ Return(r)

Process ==
    \/ Drain \/ Go \/ First \/ NothingCame \/ More \/ WindowEnds \/ Tally
    \/ Infer \/ BatchDone \/ DropProcessor

Next == (\E r \in Requests : Caller(r)) \/ Shutdown \/ Process

\* A window ends and a task runs; nobody has to call shutdown.  The channel
\* gives room to the callers that wait for it in turn.
Fairness ==
    /\ \A r \in Requests : SF_vars(Send(r) \/ SendFails(r))
    /\ \A r \in Requests : WF_vars(Count(r) \/ Return(r))
    /\ WF_vars(Process) /\ SF_vars(First)

Spec == Init /\ [][Next]_vars /\ Fairness

-------------------------------------------------------------------------------
(* Properties                                                              *)

TypeOK ==
    /\ at \in [Requests -> Places]
    /\ answer \in [Requests -> Answers \cup {None}]
    /\ queue \in Seq(Requests) /\ Len(queue) <= MaxQueue
    /\ depth \in Nat /\ down \in BOOLEAN /\ proc \in Phases
    /\ batch \in Seq(Requests) /\ Len(batch) <= MaxBatch
    /\ group \subseteq Requests

\* Sent, and not yet subtracted from queue_depth.
Held == Elements(queue) \cup Elements(batch)

\* queue_depth falls short of the requests that wait by no more than those whose
\* callers have sent and not yet counted them.  It may stay too high for ever,
\* when a batch is subtracted before its callers have counted it.
DepthCovers ==
    depth + Cardinality({r \in Requests : at[r] = "count"}) >= Cardinality(Held)

\* Every caller that got past the check is answered, also one that sends its
\* request after the drain, or while the channel is full.
Answered ==
    \A r \in Requests : at[r] = "send" ~> at[r] = "done"

\* A request in the processor's hands has not been answered, and a caller that
\* waits is answered or in its hands: one answer each, and none lost.
OneAnswer ==
    \A r \in Requests :
      at[r] \in {"count", "wait"} =>
        ((answer[r] = None) <=> (r \in Held \cup group))

===============================================================================
