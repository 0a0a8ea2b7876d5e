------------------------------- MODULE AgentTask -------------------------------
(***************************************************************************)
(* The tasks of one agent, one after the other, without an inference sink  *)
(* (AgentRuntime::run_task_with_session, src/src/agent/runtime.rs): the    *)
(* model is called with the conversation, its tool calls are run and their *)
(* results appended, until it answers without one.  A task ends early when *)
(* it is stopped, has run for too many iterations, may not spend what the  *)
(* next call could cost (budget.rs), or the call fails.  Before each call  *)
(* a conversation that is too long is pruned (compaction.rs).              *)
(*                                                                         *)
(* A message has a kind and a size; sizes are in units of what a truncated *)
(* tool result takes.                                                      *)
(***************************************************************************)
EXTENDS Naturals, Sequences, FiniteSets, Functions

CONSTANTS
    MaxIterations,      \* MAX_ITERATIONS
    KeepRecent,         \* KEEP_RECENT_TURNS
    Room,               \* three quarters of the context window
    SystemSize, Large,  \* sizes of the system prompt and of a large result
    Limits,             \* the budget limits: [Periods -> Nat]
    MaxCost,            \* estimated_cost: what max_tokens cost
    Histories,          \* numbers of earlier turns in a session
    None,
    Tasks               \* bound on the number of tasks

Periods == {"request", "hour", "day", "total"}

AgentAssumption ==
    /\ MaxIterations \in Nat /\ KeepRecent \in Nat \ {0} /\ Room \in Nat
    /\ SystemSize \in Nat \ {0} /\ Large \in Nat \ {0} /\ MaxCost \in Nat
    /\ Limits \in [Periods -> Nat] /\ Histories \subseteq Nat /\ Tasks \in Nat

Kinds == {"system", "user", "note", "assistant", "result"}
Messages == [kind : Kinds, size : 1 .. (SystemSize + Large)]

VARIABLES
    conv,           \* the conversation
    recent,         \* its recent part as it was said, None when it is too short
    iterations,
    calls,          \* tool calls of the last reply that are still to be run
    spent,          \* what was spent in each period
    outcome,        \* "running", or how the last task ended
    tasks           \* tasks begun

talk == <<conv, recent>>
vars == <<talk, iterations, calls, spent, outcome, tasks>>

Outcomes == {"none", "running", "answered", "stopped", "exhausted", "iterations", "failed"}

-------------------------------------------------------------------------------
(* prune_conversation                                                      *)

Message(kind, size) == [kind |-> kind, size |-> size]
Size(c) == FoldFunction(LAMBDA m, n : m.size + n, 0, c)

Users(c) == {i \in 2 .. Len(c) : c[i].kind \in {"user", "note"}}

\* Without enough user messages only the last message is protected.
Boundary(c) ==
    LET enough == {i \in Users(c) : Cardinality({j \in Users(c) : j >= i}) = KeepRecent}
        start == IF enough = {} THEN Len(c) ELSE CHOOSE i \in enough : TRUE
    IN  IF start < 2 THEN 2 ELSE start

\* The recent part of a conversation: the last KeepRecent user messages and
\* everything after the first of them.
Recent(c) == SubSeq(c, Boundary(c), Len(c))

\* The old part, without the system prompt.
Old(c) == SubSeq(c, 2, Boundary(c) - 1)

WithOld(c, old) == <<c[1]>> \o old \o Recent(c)

Truncated(c) ==
    LET old == Old(c)
    IN  WithOld(c, [i \in DOMAIN old |->
                      IF old[i].kind = "result" THEN [old[i] EXCEPT !.size = 1] ELSE old[i]])

OnlyIn(s, S) ==
    LET only[i \in 0 .. Len(s)] ==
          IF i = 0 THEN <<>>
          ELSE IF s[i] \in S THEN Append(only[i - 1], s[i]) ELSE only[i - 1]
    IN  only[Len(s)]

Without(c, kinds) == WithOld(c, OnlyIn(Old(c), {m \in Messages : m.kind \notin kinds}))

\* Each pass is made only when the ones before it were not enough.
Pass(c, kinds) == IF Size(c) <= Room THEN c ELSE Without(c, kinds)

Pruned(c) ==
    LET shorter == IF Size(c) <= Room THEN c ELSE Truncated(c)
        fewer == Pass(Pass(Pass(shorter, {"result"}), {"assistant"}), {"user", "note"})
    IN  IF Size(fewer) <= Room THEN fewer ELSE [fewer EXCEPT ![1].size = 1]

-------------------------------------------------------------------------------
(* The budget                                                              *)

\* What is spent so far is compared, not what the call may cost.
CanSpendSoFar == \A p \in Periods : spent[p] <= Limits[p]
CanSpend == \A p \in Periods : spent[p] + MaxCost <= Limits[p]
Spend(cost) == spent' = [p \in Periods |-> spent[p] + cost]

\* An hour or a day is over.
PeriodEnds(p) ==
    /\ p \in {"hour", "day"} /\ spent[p] > 0
    /\ spent' = [spent EXCEPT ![p] = 0]
    /\ UNCHANGED <<talk, iterations, calls, outcome, tasks>>

-------------------------------------------------------------------------------
(* A task                                                                  *)

Init ==
    /\ conv = <<>> /\ recent = None
    /\ iterations = 0 /\ calls = 0
    /\ spent = [p \in Periods |-> 0] /\ outcome = "none" /\ tasks = 0

Turn(i) == Message(IF i % 2 = 1 THEN "user" ELSE "assistant", 1)

\* history: turns of the session, a user turn and its answer in turn.
Begin(history) ==
    LET first == <<Message("system", SystemSize)>>
                   \o [i \in 1 .. history |-> Turn(i)] \o <<Message("user", 1)>>
    IN  /\ outcome # "running" /\ tasks < Tasks
        /\ tasks' = tasks + 1 /\ outcome' = "running"
        /\ conv' = first
        /\ recent' = IF Cardinality(Users(first)) >= KeepRecent THEN Recent(first) ELSE None
        /\ iterations' = 0 /\ calls' = 0
        /\ spent' = [spent EXCEPT !["request"] = 0]

\* New messages; the recent part moves on with each user message.
Said(messages) ==
    recent' = IF recent = None THEN None ELSE Recent(<<conv[1]>> \o recent \o messages)

Ready == outcome = "running" /\ calls = 0

MayCall == iterations + 1 <= MaxIterations /\ CanSpend

\* The stop flag may have been set since it was read last.
Stopped ==
    /\ outcome = "running" /\ outcome' = "stopped"
    /\ iterations' = IF calls = 0 THEN iterations + 1 ELSE iterations
    /\ UNCHANGED <<talk, calls, spent, tasks>>

GiveUp ==
    /\ Ready /\ ~MayCall
    /\ outcome' = IF iterations + 1 > MaxIterations THEN "iterations" ELSE "exhausted"
    /\ iterations' = iterations + 1
    /\ UNCHANGED <<talk, calls, spent, tasks>>

\* The call: the conversation as pruned, and a reply that costs at most what
\* was estimated, with an answer or with n different tool calls; identical
\* ones are merged, which is noted.
CallModel(cost, n, merged) ==
    LET reply == <<Message("assistant", 1)>>
                   \o IF n > 0 /\ merged THEN <<Message("note", 1)>> ELSE <<>>
    IN  /\ Ready /\ MayCall
        /\ iterations' = iterations + 1 /\ Spend(cost)
        /\ conv' = Pruned(conv) \o reply /\ Said(reply)
        /\ calls' = n /\ outcome' = IF n = 0 THEN "answered" ELSE "running"
        /\ UNCHANGED tasks

CallFails ==
    /\ Ready /\ MayCall
    /\ iterations' = iterations + 1 /\ conv' = Pruned(conv) /\ outcome' = "failed"
    /\ UNCHANGED <<recent, calls, spent, tasks>>

RunTool(size) ==
    /\ outcome = "running" /\ calls > 0
    /\ calls' = calls - 1
    /\ conv' = Append(conv, Message("result", size))
    /\ Said(<<Message("result", size)>>)
    /\ UNCHANGED <<iterations, spent, outcome, tasks>>

Work ==
    \/ Stopped \/ GiveUp \/ CallFails
    \/ \E cost \in 0 .. MaxCost, n \in 0 .. 2, merged \in BOOLEAN : CallModel(cost, n, merged)
    \/ \E size \in {1, Large} : RunTool(size)

Next ==
    \/ \E history \in Histories : Begin(history)
    \/ Work
    \/ \E p \in Periods : PeriodEnds(p)

Spec == Init /\ [][Next]_vars

-------------------------------------------------------------------------------
(* Properties                                                              *)

TypeOK ==
    /\ conv \in Seq(Messages) /\ recent \in Seq(Messages) \cup {None}
    /\ iterations \in 0 .. MaxIterations + 1 /\ calls \in 0 .. 2
    /\ spent \in [Periods -> Nat]
    /\ outcome \in Outcomes /\ tasks \in 0 .. Tasks

\* No limit of the budget is ever passed, although a call is checked by its
\* estimate, charged by its tokens, and a period may end in between.
BudgetKept == \A p \in Periods : spent[p] <= Limits[p]

\* What prune_conversation documents as kept ("The last KEEP_RECENT_TURNS
\* user+assistant exchanges", compaction.rs) is kept whole, however often the
\* conversation was pruned, when it began with that many user messages.
EndsWith(c, end) == \E n \in 1 .. Len(c) + 1 : end = SubSeq(c, n, Len(c))
RecentKept == recent # None => EndsWith(conv, recent)

\* A conversation that is sent fits, unless what is protected does not.
PrunedFits ==
    Ready =>
      LET sent == Pruned(conv) IN Size(sent) <= Room \/ Old(sent) = <<>>

===============================================================================
