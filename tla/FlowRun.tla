-------------------------------- MODULE FlowRun --------------------------------
(***************************************************************************)
(* One flow of the workflow builder (src/src/flow), from its kickoff to    *)
(* the end of its run.  A flow is a graph of nodes.  With a `start` node   *)
(* the interpreter walks along the edges; without one the nodes run in a   *)
(* topological order (legacy mode).                                        *)
(*                                                                         *)
(* Kinds that compute something and may fail (llm, classify, mcp,          *)
(* file_search, set_state, transform, crew) are "work".  What a node       *)
(* computes is left open: a condition, a check or a call may turn out      *)
(* either way at every visit.                                              *)
(***************************************************************************)
EXTENDS Naturals, Sequences, FiniteSetsExt

CONSTANTS
    Nodes,          \* node ids, one node each
    InputFlows,     \* the flows that are kicked off
    Template,       \* source of guardrails: a template over inputs and outputs
    None,           \* no source, no node
    DefaultCap,     \* of a while node whose max_iterations is 0
    MaxSteps        \* MAX_STEPS of the interpreter

\* The labels a branching node chooses from.
Branches == [if         |-> {"true", "false"},
             while      |-> {"loop", "exit"},
             guardrails |-> {"pass", "fail"},
             approval   |-> {"approve", "reject"}]
Branching == DOMAIN Branches

Kinds == Branching \cup {"start", "end", "note", "agent", "work", "unknown"}

\* These put nothing into outputs.
Silent == {"note", "if", "while", "end"}

Labels == {"none", "default"} \cup UNION {Branches[k] : k \in Branching}

Edges == [from : Nodes, to : Nodes, label : Labels]

Flows == [kind : [Nodes -> Kinds], edges : Seq(Edges), cap : [Nodes -> Nat],
          source : [Nodes -> Nodes \cup {Template, None}]]

ASSUME FlowAssumption ==
    /\ IsFiniteSet(Nodes) /\ Nodes # {}
    /\ Template \notin Nodes /\ None \notin Nodes
    /\ \A f \in InputFlows : f \in Flows
    /\ DefaultCap \in Nat \ {0} /\ MaxSteps \in Nat

VARIABLES
    flow,           \* the flow
    approve,        \* inputs.human_approval, the same for the whole run
    status,         \* of the kickoff, then of the FlowRunRecord
    error,          \* why the run failed
    at,             \* the interpreter's cursor
    steps,          \* nodes visited
    loops,          \* while_iter
    outputs,        \* nodes that have an output
    indeg, ready, order    \* execution_order: in-degrees, queue, result

input == <<flow, approve>>
sort == <<indeg, ready, order>>
vars == <<input, status, error, at, steps, loops, outputs, sort>>

-------------------------------------------------------------------------------
(* Graphs.  An edge is its index in the list.                              *)

Outs(f, n) == {i \in DOMAIN f.edges : f.edges[i].from = n}

Labelled(f, n, l) == {i \in Outs(f, n) : f.edges[i].label = l}

First(S) == CHOOSE i \in S : \A j \in S : i <= j

Starts(f) == {n \in Nodes : f.kind[n] = "start"}

Interpreted(f) == Starts(f) # {}

\* S holds whatever an edge from S, but from D, leads to.
Closed(f, S, D) ==
    \A i \in DOMAIN f.edges : f.edges[i].from \in S \ D => f.edges[i].to \in S

ReachedFrom(f, R, D) ==
    {n \in Nodes : \A S \in SUBSET Nodes : R \subseteq S /\ Closed(f, S, D) => n \in S}

Reachable(f) == ReachedFrom(f, Starts(f), {})

TypeOK ==
    /\ flow \in InputFlows /\ approve \in BOOLEAN
    /\ status \in {"new", "checking", "rejected", "pending", "ordering", "running",
                   "completed", "failed"}
    /\ error \in {"none", "model", "cycle", "route", "steps", "step"}
    /\ at \in Nodes \cup {None}
    /\ steps \in 0 .. MaxSteps + Cardinality(Nodes)
    /\ loops \in [Nodes -> Nat]
    /\ outputs \subseteq Nodes
    /\ indeg \in [Nodes -> Nat] /\ ready \subseteq Nodes /\ order \in Seq(Nodes)

Init ==
    /\ flow \in InputFlows
    /\ approve \in IF \E n \in Nodes : flow.kind[n] = "approval" THEN BOOLEAN ELSE {TRUE}
    /\ status = "new" /\ error = "none"
    /\ at = None /\ steps = 0
    /\ loops = [n \in Nodes |-> 0]
    /\ outputs = {}
    /\ indeg = [n \in Nodes |-> 0] /\ ready = {} /\ order = <<>>

-------------------------------------------------------------------------------
(* validate_interpreter                                                    *)

Cap(n) == IF flow.cap[n] = 0 THEN DefaultCap ELSE flow.cap[n]

\* Mutant: one of the two labels is enough.
RoutableByOne(f, n) ==
    /\ f.kind[n] \in Branching =>
         \E l \in Branches[f.kind[n]] : Labelled(f, n, l) # {}
    /\ f.kind[n] = "end" => Outs(f, n) = {}
    /\ f.kind[n] \notin Branching \cup {"note", "end"} =>
         \/ Cardinality(Outs(f, n)) <= 1
         \/ Cardinality(Labelled(f, n, "default")) = 1
         \/ Cardinality(Labelled(f, n, "none")) = 1

Routable(f, n) ==
    /\ f.kind[n] \in Branching =>
         \A l \in Branches[f.kind[n]] : Labelled(f, n, l) # {}
    /\ f.kind[n] = "end" => Outs(f, n) = {}
    /\ f.kind[n] \notin Branching \cup {"note", "end"} =>
         \/ Cardinality(Outs(f, n)) <= 1
         \/ Cardinality(Labelled(f, n, "default")) = 1
         \/ Cardinality(Labelled(f, n, "none")) = 1

ValidateInterpreter(f) ==
    /\ Cardinality(Starts(f)) = 1
    /\ \A n \in Nodes : Routable(f, n)
    /\ \A n \in Nodes : f.kind[n] = "guardrails" => f.source[n] # None
    /\ \A n \in Starts(f) : Cardinality(Outs(f, n)) = 1
    /\ \A n \in Nodes : f.kind[n] # "note" => n \in Reachable(f)

-------------------------------------------------------------------------------
(* execution_order.  The queue starts in the order of a hash map; which of *)
(* its nodes comes next is left open.                                      *)

InDegree(f, n) == Cardinality({i \in DOMAIN f.edges : f.edges[i].to = n})

SortBegin(next) ==
    /\ status' = next
    /\ indeg' = [n \in Nodes |-> InDegree(flow, n)]
    /\ ready' = {n \in Nodes : InDegree(flow, n) = 0}
    /\ order' = <<>>

\* Mutant: the result is built from the wrong end.
SortReversed ==
    /\ status \in {"checking", "ordering"}
    /\ \E u \in ready :
         LET cut(v) == Cardinality({i \in Outs(flow, u) : flow.edges[i].to = v})
         IN  /\ indeg' = [v \in Nodes |-> indeg[v] - cut(v)]
             /\ ready' = (ready \ {u})
                           \cup {v \in Nodes : cut(v) > 0 /\ indeg[v] = cut(v)}
             /\ order' = <<u>> \o order
    /\ UNCHANGED <<input, status, error, at, steps, loops, outputs>>

\* Mutant: a node is ready as soon as one of its predecessors is done.
SortEarly ==
    /\ status \in {"checking", "ordering"}
    /\ \E u \in ready :
         LET cut(v) == Cardinality({i \in Outs(flow, u) : flow.edges[i].to = v})
         IN  /\ indeg' = [v \in Nodes |-> 0]
             /\ ready' = (ready \ {u}) \cup {v \in Nodes : cut(v) > 0 /\ indeg[v] > 0}
             /\ order' = Append(order, u)
    /\ UNCHANGED <<input, status, error, at, steps, loops, outputs>>

SortNode ==
    /\ status \in {"checking", "ordering"}
    /\ \E u \in ready :
         LET cut(v) == Cardinality({i \in Outs(flow, u) : flow.edges[i].to = v})
         IN  /\ indeg' = [v \in Nodes |-> indeg[v] - cut(v)]
             /\ ready' = (ready \ {u})
                           \cup {v \in Nodes : cut(v) > 0 /\ indeg[v] = cut(v)}
             /\ order' = Append(order, u)
    /\ UNCHANGED <<input, status, error, at, steps, loops, outputs>>

Sorted == Len(order) = Cardinality(Nodes)

SortEnd ==
    /\ status \in {"checking", "ordering"} /\ ready = {}
    /\ status' = CASE status = "checking" -> IF Sorted THEN "pending" ELSE "rejected"
                   [] status = "ordering" -> IF Sorted THEN "running" ELSE "failed"
    /\ error' = IF status = "ordering" /\ ~Sorted THEN "cycle" ELSE error
    /\ UNCHANGED <<input, at, steps, loops, outputs, sort>>

-------------------------------------------------------------------------------
(* Kickoff and start of the run.                                           *)

\* api_flow_kickoff: validate, then insert a pending record.
Kickoff ==
    /\ status = "new"
    /\ \/ /\ Interpreted(flow)
          /\ status' = IF ValidateInterpreter(flow) THEN "pending" ELSE "rejected"
          /\ UNCHANGED sort
       \/ /\ ~Interpreted(flow)
          /\ SortBegin("checking")
    /\ UNCHANGED <<input, error, at, steps, loops, outputs>>

\* The serve loop takes the job; run_flow validates once more.
Begin ==
    /\ status = "pending"
    /\ \/ status' = "failed" /\ error' = "model" /\ UNCHANGED <<at, sort>>
       \/ /\ Interpreted(flow)
          /\ status' = "running" /\ at' \in Starts(flow)
          /\ UNCHANGED <<error, sort>>
       \/ /\ ~Interpreted(flow)
          /\ SortBegin("ordering")
          /\ UNCHANGED <<error, at>>
    /\ UNCHANGED <<input, steps, loops, outputs>>

-------------------------------------------------------------------------------
(* run_legacy_topo                                                         *)

LegacyNode ==
    /\ status = "running" /\ ~Interpreted(flow) /\ steps < Len(order)
    /\ LET n == order[steps + 1]
       IN  \/ /\ flow.kind[n] = "note"
              /\ UNCHANGED <<status, error, outputs>>
           \/ /\ flow.kind[n] # "note"
              /\ outputs' = outputs \cup {n}
              /\ UNCHANGED <<status, error>>
           \/ /\ flow.kind[n] # "note"
              /\ status' = "failed" /\ error' = "step"
              /\ UNCHANGED outputs
    /\ steps' = steps + 1
    /\ UNCHANGED <<input, at, loops, sort>>

LegacyEnd ==
    /\ status = "running" /\ ~Interpreted(flow) /\ steps = Len(order)
    /\ status' = "completed"
    /\ UNCHANGED <<input, error, at, steps, loops, outputs, sort>>

-------------------------------------------------------------------------------
(* run_interpreter                                                         *)

Fail(why) == status' = "failed" /\ error' = why /\ UNCHANGED at

Complete == status' = "completed" /\ UNCHANGED <<error, at>>

\* The edges pick_next may follow from a node that does not branch.
Onward(n) ==
    LET plain == Labelled(flow, n, "none")
        default == Labelled(flow, n, "default")
    IN  IF Cardinality(Outs(flow, n)) = 1 THEN Outs(flow, n)
        ELSE IF Cardinality(plain) = 1 THEN plain
        ELSE IF Cardinality(default) = 1 THEN default ELSE {}

\* pick_next, with the edges that qualify.
Follow(S) ==
    \/ /\ S # {}
       /\ at' = flow.edges[First(S)].to
       /\ UNCHANGED <<status, error>>
    \/ /\ S = {}
       /\ IF flow.kind[at] \notin Branching /\ Outs(flow, at) = {}
          THEN Complete ELSE Fail("route")

PickNext == Follow(Onward(at))

PickBranch(l) == Follow(Labelled(flow, at, l))

\* Mutant: steps are not counted.
VisitUncounted(kinds) ==
    /\ status = "running" /\ at # None
    /\ flow.kind[at] \in kinds
    /\ steps < MaxSteps
    /\ UNCHANGED <<input, sort, steps>>

Visit(kinds) ==
    /\ status = "running" /\ at # None
    /\ flow.kind[at] \in kinds
    /\ steps < MaxSteps
    /\ steps' = steps + 1
    /\ UNCHANGED <<input, sort>>

\* outputs.insert
Put == outputs' = outputs \cup {at}

Note == Visit({"note"}) /\ PickNext /\ UNCHANGED <<loops, outputs>>

Start == Visit({"start"}) /\ Put /\ PickNext /\ UNCHANGED loops

End == Visit({"end"}) /\ Complete /\ UNCHANGED <<loops, outputs>>

Approval ==
    /\ Visit({"approval"})
    /\ Put
    /\ PickBranch(IF approve THEN "approve" ELSE "reject")
    /\ UNCHANGED loops

If ==
    /\ Visit({"if"})
    /\ Fail("step") \/ \E l \in Branches["if"] : PickBranch(l)
    /\ UNCHANGED <<loops, outputs>>

\* At its cap, or when the condition is false, a while node starts afresh.
WhileExit ==
    /\ Visit({"while"})
    /\ loops' = [loops EXCEPT ![at] = 0]
    /\ PickBranch("exit")
    /\ UNCHANGED outputs

WhileLoop ==
    /\ Visit({"while"})
    /\ loops[at] < Cap(at)
    /\ loops' = [loops EXCEPT ![at] = @ + 1]
    /\ PickBranch("loop")
    /\ UNCHANGED outputs

\* The condition does not evaluate to a truth value.
WhileFails ==
    /\ Visit({"while"})
    /\ loops[at] < Cap(at)
    /\ Fail("step")
    /\ UNCHANGED <<loops, outputs>>

\* Mutant: guardrails leave no output.
GuardrailsSilent ==
    /\ Visit({"guardrails"})
    /\ \/ PickBranch("pass")
       \/ flow.source[at] \in outputs \cup {Template} /\ PickBranch("fail")
    /\ UNCHANGED <<loops, outputs>>

\* The text of a source without output is empty, and passes every check.
Guardrails ==
    /\ Visit({"guardrails"})
    /\ Put
    /\ \/ PickBranch("pass")
       \/ flow.source[at] \in outputs \cup {Template} /\ PickBranch("fail")
    /\ UNCHANGED loops

\* An agent that fails says so in its output.
Agent == Visit({"agent"}) /\ Put /\ PickNext /\ UNCHANGED loops

Work ==
    /\ Visit({"work"})
    /\ \/ Put /\ PickNext
       \/ UNCHANGED outputs /\ Fail("step")
    /\ UNCHANGED loops

UnknownKind == Visit({"unknown"}) /\ Fail("step") /\ UNCHANGED <<loops, outputs>>

TooManySteps ==
    /\ status = "running" /\ at # None /\ steps = MaxSteps
    /\ Fail("steps")
    /\ UNCHANGED <<input, steps, loops, outputs, sort>>

Interpret ==
    \/ Note \/ Start \/ End \/ Approval \/ If
    \/ WhileExit \/ WhileLoop \/ WhileFails
    \/ Guardrails \/ Agent \/ Work \/ UnknownKind \/ TooManySteps

Run == SortNode \/ SortEnd \/ LegacyNode \/ LegacyEnd \/ Interpret

Next == Kickoff \/ Begin \/ Run

Spec == Init /\ [][Next]_vars

\* Every call a run awaits returns.
FairSpec == Spec /\ WF_vars(Run)

-------------------------------------------------------------------------------
(* Properties.                                                             *)

CycleThrough(f, S, E) ==
    \A n \in S : \E i \in E : f.edges[i].to = n /\ f.edges[i].from \in S

Cyclic(f, E) == \E S \in (SUBSET Nodes) \ {{}} : CycleThrough(f, S, E)

\* A flow without start is accepted exactly when it has no cycle, whatever the
\* order in which Kahn's algorithm meets its nodes, and the second sorting, in
\* run_legacy_topo, does not fail after the first one accepted it.
SortDecides ==
    /\ error # "cycle"
    /\ ~Interpreted(flow) =>
         /\ status = "rejected" => Cyclic(flow, DOMAIN flow.edges)
         /\ status \in {"pending", "ordering", "running", "completed"} =>
              ~Cyclic(flow, DOMAIN flow.edges)

\* In legacy mode a step sees what the steps before it put out, and a run that
\* completes has run every node but the notes (src/src/flow/mod.rs:4-6).
LegacyOrder ==
    ~Interpreted(flow) =>
      /\ \A i \in DOMAIN flow.edges :
           flow.edges[i].to \in outputs =>
             flow.edges[i].from \in outputs \/ flow.kind[flow.edges[i].from] = "note"
      /\ status = "completed" => outputs = {n \in Nodes : flow.kind[n] # "note"}

\* What validate_interpreter accepts, pick_next can route, whatever the branches
\* turn out to be.  Only a note may be without a way on: its edges are not
\* validated, and the interpreter follows them.
RoutedUnlessNote == error = "route" => flow.kind[at] = "note"

\* A node that lies on every way to the current one has put out its result: the
\* text a guardrail checks and the context of a model are there.  (validate_interpreter
\* asks only that the source of a guardrail exists.)
OutputsReady ==
    status = "running" /\ at # None =>
      \A d \in Nodes :
        /\ flow.kind[d] \notin Silent
        /\ at \notin ReachedFrom(flow, Starts(flow), {d})
        => d \in outputs

LoopEdges(f) ==
    {i \in DOMAIN f.edges : f.kind[f.edges[i].from] = "while" /\ f.edges[i].label = "loop"}

\* What nested loops may multiply to: the counter of a while starts afresh when
\* it exits.
StepBound(f) ==
    Cardinality(Nodes) *
      MapThenFoldSet(LAMBDA x, y : x * y, 1, LAMBDA n : Cap(n) + 1, LAMBDA S : CHOOSE x \in S : TRUE,
                     {n \in Nodes : f.kind[n] = "while"})

\* max_iterations ends every loop: a run meets MAX_STEPS only if the flow has a
\* cycle without a `loop` edge, or if its nested loops are allowed more steps.
LoopsEnd ==
    error = "steps" =>
      \/ Cyclic(flow, DOMAIN flow.edges \ LoopEdges(flow))
      \/ StepBound(flow) > MaxSteps

\* Every run ends, even of a flow with an endless cycle: its record does not stay
\* "running".
RunEnds == status = "running" ~> status \in {"completed", "failed"}

===============================================================================
