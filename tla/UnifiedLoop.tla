------------------------------ MODULE UnifiedLoop ------------------------------
(***************************************************************************)
(* The loop that dashboard chats, background tasks and agents with an      *)
(* inference sink share (run_unified_agentic_loop,                         *)
(* src/src/agent/unified_loop.rs), for the tasks of one agent              *)
(* (run_task_via_unified_loop, src/src/agent/runtime.rs).  In each pass    *)
(* the model replies; a reply without tool calls is the answer, unless the *)
(* model is nudged to go on; tool calls that were asked for too often are  *)
(* blocked, identical ones merged, the rest cut to a maximum and run.      *)
(*                                                                         *)
(* The tokens of a task are charged to the agent's budget at its end.      *)
(***************************************************************************)
EXTENDS Naturals, Sequences, FiniteSets, FiniteSetsExt

CONSTANTS
    Signatures,         \* a tool with its arguments
    MaxPasses,          \* AGENTIC_MAX_ITERS
    MaxCalls,           \* AGENTIC_MAX_TOOL_CALLS_PER_PASS
    MaxRepeats,         \* identical calls after which one is blocked
    MaxNudges,          \* nudges of each kind
    MaxReply,           \* bound on the pieces of one reply
    PerRequest,         \* the budget of a request, in replies
    None,
    Tasks               \* bound on the number of tasks

LoopAssumption ==
    /\ MaxPasses \in Nat \ {0} /\ MaxCalls \in Nat \ {0} /\ MaxRepeats \in Nat \ {0}
    /\ MaxNudges \in Nat /\ MaxReply \in Nat /\ PerRequest \in Nat /\ Tasks \in Nat

VARIABLES
    pass,               \* the pass that is running
    step,               \* where the loop is
    todo,               \* calls of this pass that are still to be run
    asked,              \* tool_call_history: how often each was asked for
    ran,                \* how often each has run
    nudges,             \* url_fetch_nudges and tool_preamble_nudges
    cancel,             \* the stop flag
    since,              \* model calls and tool runs begun since it was set
    tokens,             \* total_tokens
    spent,              \* spent_this_request
    tasks               \* tasks begun

counters == <<asked, ran, nudges>>
stopping == <<cancel, since>>
vars == <<pass, step, todo, counters, stopping, tokens, spent, tasks>>

Ends == {"answered", "stopped", "failed", "passes"}
Steps == {"idle", "top", "infer", "tools"} \cup Ends
Zero == [s \in Signatures |-> 0]

Init ==
    /\ pass = 0 /\ step = "idle" /\ todo = <<>>
    /\ asked = Zero /\ ran = Zero /\ nudges = [url |-> 0, intent |-> 0]
    /\ cancel = FALSE /\ since = [model |-> 0, tools |-> 0]
    /\ tokens = 0 /\ spent = 0 /\ tasks = 0

Begin ==
    /\ step \in {"idle"} \cup Ends /\ tasks < Tasks
    /\ tasks' = tasks + 1 /\ pass' = 1 /\ step' = "top" /\ todo' = <<>>
    /\ asked' = Zero /\ ran' = Zero /\ nudges' = [url |-> 0, intent |-> 0]
    /\ cancel' = FALSE /\ since' = [model |-> 0, tools |-> 0]
    /\ tokens' = 0 /\ spent' = 0

Cancel ==
    /\ step \in {"top", "infer", "tools"} /\ ~cancel
    /\ cancel' = TRUE
    /\ UNCHANGED <<pass, step, todo, counters, since, tokens, spent, tasks>>

-------------------------------------------------------------------------------
(* What a reply says                                                       *)
(*                                                                         *)
(* A reply is a sequence of pieces, each a form of call that models write: *)
(* a <tool_call> block, its beginning without its end, name and args on    *)
(* lines of their own or without the name's label, and tags made up after  *)
(* a tool: <json>, <web_fetch>, <job_status> with and without its end, and *)
(* others.  A piece whose call cannot be read has the call None.           *)

Forms == {"block", "begun", "inline", "bare", "json", "fetch", "status", "unended", "other"}
Pieces == [form : Forms, call : Signatures \cup {None}] \cup [form : {"text"}, call : {None}]
Replies == UNION {[1 .. n -> Pieces] : n \in 0 .. MaxReply}

Called(pieces) == LET calls == [i \in DOMAIN pieces |-> pieces[i].call]
                  IN  SelectSeq(calls, LAMBDA c : c # None)
OfForm(reply, forms) == SelectSeq(reply, LAMBDA piece : piece.form \in forms)

\* A block reaches from the first opening tag to the closing tag that follows;
\* of the calls written in it the last counts.
BlockEnds(reply) == {i \in DOMAIN reply : reply[i].form = "block"}
Opening(reply, end) ==
    Min({i \in 1 .. end : /\ reply[i].form \in {"block", "begun"}
                          /\ BlockEnds(reply) \cap i .. (end - 1) = {}})
InBlock(reply) ==
    UNION {Opening(reply, end) .. end : end \in BlockEnds(reply)}
LastCall(reply, end) ==
    LET calls == Called(OfForm(SubSeq(reply, Opening(reply, end), end),
                               {"block", "begun", "inline"}))
    IN  IF calls = <<>> THEN None ELSE calls[Len(calls)]

StandardCalls(reply) ==
    Called([i \in DOMAIN reply |->
              [form |-> "block",
               call |-> IF reply[i].form = "block" THEN LastCall(reply, i) ELSE None]])

\* Lines of the form "name: ... args: ...", or else lines without "name:".
InlineCalls(reply) ==
    LET named == Called(OfForm(reply, {"begun", "inline"}))
    IN  IF named # <<>> THEN named ELSE Called(OfForm(reply, {"bare"}))

\* The tags of each kind are read in turn, wherever they stand.
JsonCalls(reply) == Called(OfForm(reply, {"json"}))
TagCalls(reply) ==
    JsonCalls(reply) \o Called(OfForm(reply, {"fetch"}))
      \o Called(OfForm(reply, {"status", "unended"}))

\* Each way of reading is tried only when the one before it finds nothing.
Read(reply) ==
    IF StandardCalls(reply) # <<>> THEN StandardCalls(reply)
    ELSE IF InlineCalls(reply) # <<>> THEN InlineCalls(reply) ELSE TagCalls(reply)

\* What is left of a reply as an answer: its text, the opening tag of a block
\* without its end, an unended tag; all of it, when nothing would be left.
Left(reply, i) ==
    IF i \in InBlock(reply) THEN None
    ELSE IF reply[i].form = "begun" THEN [reply[i] EXCEPT !.call = None]
    ELSE IF reply[i].form \in {"text", "unended"} THEN reply[i] ELSE None
Shown(reply) ==
    LET left == SelectSeq([i \in DOMAIN reply |-> Left(reply, i)], LAMBDA piece : piece # None)
    IN  IF left = <<>> THEN reply ELSE left

\* Nothing that could be read as a call is left in an answer that has text
\* outside of blocks, but for tags that are never ended.
AnswerHasNoCalls ==
    \A reply \in Replies :
      (\E i \in DOMAIN reply \ InBlock(reply) : reply[i].form = "text") =>
        Read(Shown(reply)) = Called(OfForm(Shown(reply), {"unended"}))

\* What the loop below takes for the calls of a reply: any short sequence, since
\* each is read from some reply and nothing else is.
Readings == UNION {[1 .. n -> Signatures] : n \in 0 .. MaxReply}
ReadingsAreAll == {Read(reply) : reply \in Replies} = Readings

-------------------------------------------------------------------------------
(* Compaction of a conversation that is too long                           *)
(*                                                                         *)
(* The text behind the prefix is a sequence of sections, each with its     *)
(* size.  A result is a section that begins with "Tool result for",        *)
(* "Tool '" or "Tool error:", which those that the loop itself writes do   *)
(* not.  Sizes are scaled down: TruncateTo stands for 500 characters,      *)
(* Marker for the words that tell what was omitted.                        *)

TruncateTo == 2
Marker == 2
Sections ==
    [result : {TRUE}, size : {1, TruncateTo + 1, TruncateTo + 3}, breaks : {0, TruncateTo}]
      \cup [result : {FALSE}, size : {1, TruncateTo + 3}, breaks : {0}]
Monus(a, b) == IF b > a THEN 0 ELSE a - b

\* Cut at its last line or word that fits.
Truncated(section) ==
    IF section.size <= TruncateTo THEN section
    ELSE [section EXCEPT !.size = section.breaks + Marker]

\* The separator of a section is counted with it.
Counted(section) == section.size + 2
SizeOf(prefix, sections) ==
    prefix + MapThenSumSet(LAMBDA i : Counted(sections[i]), DOMAIN sections)

\* Candidates are taken in their order as long as the count is above max.
SumOf(f, places) == FoldFunctionOnSet(+, 0, f, places)
Taken(candidates, count, max, freed) ==
    {i \in candidates : count > max + SumOf(freed, {j \in candidates : j < i})}

\* All but the last quarter, which is empty when there are fewer than four.
Droppable(sections) ==
    LET n == Len(sections) IN 1 .. Max({n - (n \div 4), 1})

\* Results are truncated; if that is not enough old results are dropped, and
\* then other old sections.  A result that its marker makes longer underflows
\* the count, which is 0 from then on.
PruneString(prefix, sections, max) ==
    LET count == SizeOf(prefix, sections)
        results == {i \in DOMAIN sections : sections[i].result}
        saved == [i \in DOMAIN sections |->
                    IF Truncated(sections[i]).size > sections[i].size THEN count
                    ELSE sections[i].size - Truncated(sections[i]).size]
        cut == Taken(results, count, max, saved)
        owned == [i \in DOMAIN sections |->
                    IF i \in cut THEN Truncated(sections[i]) ELSE sections[i]]
        room == [i \in DOMAIN sections |-> Counted(owned[i])]
        left == Monus(count, SumOf(saved, cut))
        old == Taken(results \cap Droppable(sections), left, max, room)
        rest == Monus(left, SumOf(room, old))
        others == Taken(Droppable(sections) \ results, rest, max, room)
    IN  IF count - 2 <= max THEN sections
        ELSE [i \in DOMAIN sections |-> IF i \in old \cup others THEN None ELSE owned[i]]

\* Old results go first and the oldest of each kind before the others; what is
\* left fits, or else nothing more may be dropped, or a result has grown
\* (prune_string_conversation, compaction.rs: "intelligently dropping old tool
\* results first").
PruneInOrder ==
    \A sections \in [1 .. 2 -> Sections] \cup [1 .. 4 -> Sections], max \in {2, 6, 11, 16} :
      LET out == PruneString(1, sections, max)
          gone == {i \in DOMAIN out : out[i] = None}
          kept == SelectSeq(out, LAMBDA section : section # None)
      IN  /\ \A i \in gone, j \in Droppable(sections) :
               (sections[j].result /\ ~sections[i].result)
                 \/ (sections[j].result = sections[i].result /\ j < i) => j \in gone
          /\ \/ SizeOf(1, kept) <= max + 2
             \/ gone = Droppable(sections)
             \/ \E i \in DOMAIN out \ gone : out[i].size > sections[i].size

-------------------------------------------------------------------------------

\* The flag is read at the start of a pass only.
Top ==
    /\ step = "top"
    /\ step' = IF cancel THEN "stopped" ELSE "infer"
    /\ UNCHANGED <<pass, todo, counters, stopping, tokens, spent, tasks>>

Began(what) == since' = IF cancel THEN [since EXCEPT ![what] = @ + 1] ELSE since

\* The loop goes on with another pass, or has had its last one.
Onward ==
    IF pass < MaxPasses THEN pass' = pass + 1 /\ step' = "top"
    ELSE step' = "passes" /\ UNCHANGED pass

\* Only a task that ends with an answer is charged.
Answer == step' = "answered" /\ spent' = spent + tokens' /\ UNCHANGED pass

Infer == step = "infer" /\ Began("model") /\ UNCHANGED <<cancel, tasks>>

InferFails ==
    /\ Infer /\ step' = "failed"
    /\ UNCHANGED <<pass, todo, counters, tokens, spent>>

\* A reply that is an error text: the conversation is cut to the goal.
ErrorText ==
    /\ Infer /\ tokens' = tokens + 1 /\ Onward
    /\ UNCHANGED <<todo, counters, spent>>

\* No tool was called: a task that names a page is sent to fetch it, as long
\* as no tool has run; then a mere promise is; then it is the answer.
NoCalls(page, promise) ==
    LET Nudge(kind) ==
          /\ nudges' = [nudges EXCEPT ![kind] = @ + 1] /\ Onward
          /\ UNCHANGED <<asked, ran, spent>>
    IN  /\ Infer /\ tokens' = tokens + 1 /\ UNCHANGED todo
        /\ IF page /\ nudges.url < MaxNudges /\ pass < MaxPasses /\ ran = Zero
           THEN Nudge("url")
           ELSE IF promise /\ nudges.intent < MaxNudges /\ pass < MaxPasses
                THEN Nudge("intent")
                ELSE Answer /\ UNCHANGED counters

Count(s, calls) == Cardinality({i \in DOMAIN calls : calls[i] = s})

\* A call is blocked once it was asked for MaxRepeats times, in this reply or
\* before; one that was cut off or merged counts as asked for.
Unblocked(calls) ==
    {i \in DOMAIN calls : asked[calls[i]] + Count(calls[i], SubSeq(calls, 1, i - 1)) < MaxRepeats}

\* The first of each, in their order.
Merged(calls, places) == {i \in places : \A j \in places : j < i => calls[j] # calls[i]}
Nth(places, n) == CHOOSE i \in places : Cardinality({j \in places : j < i}) = n - 1
CutTo(n, calls, places) ==
    [k \in 1 .. (IF Cardinality(places) < n THEN Cardinality(places) ELSE n) |->
       calls[Nth(places, k)]]

\* What the kept of the calls add to those asked for.
Kept(calls, s) == Cardinality({i \in Unblocked(calls) : calls[i] = s})

\* Only the calls of the last reply are remembered.
CallsForgotten(calls) ==
    LET kept == Unblocked(calls)
    IN  /\ Infer /\ calls # <<>> /\ tokens' = tokens + 1
        /\ asked' = [s \in Signatures |-> Kept(calls, s)]
        /\ UNCHANGED <<ran, nudges>>
        /\ IF kept = {} THEN Answer /\ UNCHANGED todo
           ELSE /\ todo' = CutTo(MaxCalls, calls, Merged(calls, kept)) /\ step' = "tools"
                /\ UNCHANGED <<pass, spent>>

Calls(calls) ==
    LET kept == Unblocked(calls)
    IN  /\ Infer /\ calls # <<>> /\ tokens' = tokens + 1
        /\ asked' = [s \in Signatures |-> asked[s] + Kept(calls, s)]
        /\ UNCHANGED <<ran, nudges>>
        /\ IF kept = {} THEN Answer /\ UNCHANGED todo
           ELSE /\ todo' = CutTo(MaxCalls, calls, Merged(calls, kept)) /\ step' = "tools"
                /\ UNCHANGED <<pass, spent>>

\* A tool succeeds or fails, or is not allowed; the loop goes on alike.
RunTool ==
    /\ step = "tools" /\ todo # <<>>
    /\ todo' = Tail(todo) /\ ran' = [ran EXCEPT ![Head(todo)] = @ + 1]
    /\ Began("tools")
    /\ UNCHANGED <<pass, step, asked, nudges, cancel, tokens, spent, tasks>>

PassEnds ==
    /\ step = "tools" /\ todo = <<>> /\ Onward
    /\ UNCHANGED <<todo, counters, stopping, tokens, spent, tasks>>

Work ==
    \/ Top \/ InferFails \/ ErrorText \/ RunTool \/ PassEnds
    \/ \E page \in BOOLEAN, promise \in BOOLEAN : NoCalls(page, promise)
    \/ \E calls \in Readings : Calls(calls)

Next == Begin \/ Cancel \/ Work

Spec == Init /\ [][Next]_vars

-------------------------------------------------------------------------------
(* Properties                                                              *)

TypeOK ==
    /\ pass \in 0 .. MaxPasses /\ step \in Steps
    /\ todo \in Seq(Signatures) /\ Len(todo) <= MaxCalls
    /\ asked \in [Signatures -> Nat] /\ ran \in [Signatures -> Nat]
    /\ nudges \in [url : 0 .. MaxNudges, intent : 0 .. MaxNudges]
    /\ cancel \in BOOLEAN /\ since \in [model : Nat, tools : Nat]
    /\ tokens \in 0 .. MaxPasses /\ spent \in Nat /\ tasks \in 0 .. Tasks

\* No call runs more often than MaxRepeats times in a task, however the model
\* repeats it within and across replies; what runs was asked for.
RepeatsBounded ==
    \A s \in Signatures :
      /\ ran[s] + Count(s, todo) <= asked[s] /\ asked[s] <= MaxRepeats

\* A stop is honoured between iterations (web/mod.rs): what still begins is at
\* most one call of the model and one pass of tools.
StopHonouredBetween == since.model <= 1 /\ since.tools <= MaxCalls

\* "Enforces per-request, per-hour, per-day, and total budget limits"
\* (budget.rs): a task may not spend more than its request may.
BudgetEnforced == spent <= PerRequest

===============================================================================
