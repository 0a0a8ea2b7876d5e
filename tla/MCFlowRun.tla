------------------------------- MODULE MCFlowRun -------------------------------
(***************************************************************************)
(* Flows of four nodes.  Interpreted: s starts, e ends, and a and b are of *)
(* any kind, with any of the lists of edges below.  Legacy: any edges      *)
(* between three nodes, and a fourth that follows one of them.             *)
(***************************************************************************)
EXTENDS FlowRun, SequencesExt

CONSTANTS s, a, b, e

MCNodes == {s, a, b, e}

Edge(m, n, l) == [from |-> m, to |-> n, label |-> l]

\* Of a branching node: any targets, one branch missing, one branch twice.
BranchLists(n, yes, no) ==
    {<<Edge(n, t, yes), Edge(n, u, no)>> : t, u \in {a, b, e}}
      \cup {<<Edge(n, e, yes)>>, <<Edge(n, e, no), Edge(n, a, yes), Edge(n, b, yes)>>}

\* Of another node: none, one, and two of which it can choose at most one.
PlainLists(n) ==
    {<<>>, <<Edge(n, a, "none"), Edge(n, a, "none")>>}
      \cup {<<Edge(n, t, "default")>> : t \in {a, b, e}}
      \cup {<<Edge(n, b, l), Edge(n, e, m)>> : l, m \in {"none", "default"}}

Lists(n, k) ==
    CASE k = "if" -> BranchLists(n, "true", "false")
      [] k = "while" -> BranchLists(n, "loop", "exit")
      [] k = "guardrails" -> BranchLists(n, "pass", "fail")
      [] k = "approval" -> BranchLists(n, "approve", "reject")
      [] OTHER -> PlainLists(n)

\* Settings of a node: the cap of a while, the source of guardrails.
Settings(k) ==
    CASE k = "while" -> {0, 1} \X {None}
      [] k = "guardrails" -> {0} \X {a, b, Template, None}
      [] OTHER -> {<<0, None>>}

Bodies(n, kinds) ==
    UNION {{[kind |-> k, edges |-> l, set |-> c] : l \in Lists(n, k), c \in Settings(k)}
           : k \in kinds}

FlowOf(x, y, es) ==
    [kind   |-> (s :> "start" @@ a :> x.kind @@ b :> y.kind @@ e :> "end"),
     edges  |-> es \o x.edges \o y.edges,
     cap    |-> (a :> x.set[1] @@ b :> y.set[1] @@ s :> 0 @@ e :> 0),
     source |-> (a :> x.set[2] @@ b :> y.set[2] @@ s :> None @@ e :> None)]

Walks ==
    {FlowOf(x, y, <<Edge(s, a, "none")>>)
       : x \in Bodies(a, {"if", "while", "note", "work", "approval", "agent"}),
         y \in Bodies(b, {"while", "guardrails", "note", "unknown"})}
      \cup {FlowOf(x, y, <<Edge(s, a, "none"), Edge(s, b, "default")>>)
              : x \in Bodies(a, {"note"}), y \in Bodies(b, {"work"})}

DAGs ==
    {[kind   |-> (s :> "work" @@ a :> "work" @@ b :> "note" @@ e :> "agent"),
      edges  |-> FoldSet(LAMBDA p, q : Append(q, Edge(p[1], p[2], "none")), <<>>, E) \o es,
      cap    |-> [n \in MCNodes |-> 0],
      source |-> [n \in MCNodes |-> None]]
     : E \in SUBSET ({s, a, b} \X {s, a, b}),
       es \in {<<>>, <<Edge(a, e, "none"), Edge(a, e, "true")>>}}

MCFlows == Walks \cup DAGs

\* Every run ends, and for the reason it should: loops at their own limits
\* (flow/interpreter.rs:551), MAX_STEPS only where those do not apply.
MCRunEnds == []LoopsEnd /\ RunEnds

===============================================================================
