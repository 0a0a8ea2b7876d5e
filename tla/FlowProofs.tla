------------------------------ MODULE FlowProofs ------------------------------
(***************************************************************************)
(* What the interpreter can rely on after validation: a way on from every  *)
(* node but a note, and the outputs of all that lies on every way to it.   *)
(***************************************************************************)
EXTENDS FlowRun, FiniteSetTheorems, WellFoundedInduction, NaturalsInduction, TLAPS

\* A run of the interpreter that has started was validated, and its cursor is on a
\* node of the flow.
Validated ==
    /\ flow \in InputFlows
    /\ at \in Nodes \cup {None}
    /\ Interpreted(flow) =>
         /\ status \notin {"checking", "ordering"}
         /\ status \in {"pending", "running"} => ValidateInterpreter(flow)
         /\ status = "running" => at \in Nodes
    /\ ~Interpreted(flow) => at = None
    /\ status # "failed" => error = "none"

\* Whatever has no output yet can be avoided on the way to the cursor.
Avoided ==
    status = "running" /\ at # None =>
      \A d \in Nodes :
        flow.kind[d] \notin Silent /\ d \notin outputs
          => at \in ReachedFrom(flow, Starts(flow), {d})

FlowInv == Validated /\ RoutedUnlessNote /\ Avoided

\* One step of the interpreter: along an edge, leaving an output unless the node is
\* silent, or to the end of the run.
Walk ==
    /\ flow' = flow /\ outputs \subseteq outputs'
    /\ status = "running" /\ at \in Nodes
    /\ \/ /\ status' = "running" /\ error' = error
          /\ \E i \in Outs(flow, at) : at' = flow.edges[i].to
          /\ flow.kind[at] \in Silent \/ at \in outputs'
       \/ /\ status' \in {"completed", "failed"} /\ at' = at
          /\ status' = "completed" => error' = error
          /\ error' = "route" => error = "route" \/ flow.kind[at] = "note"

-------------------------------------------------------------------------------

\* Every non-empty set of naturals has a least element.
LEMMA LeastElement ==
    ASSUME NEW T, T \subseteq Nat, T # {}
    PROVE  \E x \in T : \A y \in T : x <= y
<1>1. IsWellFoundedOn(OpToRel(<, Nat), Nat)
  BY NatLessThanWellFounded
<1>2. PICK x \in T : \A y \in T : ~ (<<y, x>> \in OpToRel(<, Nat))
  BY <1>1, WFMin
<1>3. \A y \in T : ~ (y < x)
  BY <1>2 DEF OpToRel
<1> QED
  BY <1>3


LEMMA FlowType ==
    ASSUME flow \in InputFlows
    PROVE  /\ flow.kind \in [Nodes -> Kinds]
           /\ flow.edges \in Seq(Edges)
           /\ \A i \in DOMAIN flow.edges : flow.edges[i].from \in Nodes /\ flow.edges[i].to \in Nodes
           /\ DOMAIN flow.edges = 1 .. Len(flow.edges) /\ Len(flow.edges) \in Nat
<1>1. flow \in Flows
  BY FlowAssumption
<1>2. flow.kind \in [Nodes -> Kinds] /\ flow.edges \in Seq(Edges)
  BY <1>1 DEF Flows
<1>3. DOMAIN flow.edges = 1 .. Len(flow.edges) /\ Len(flow.edges) \in Nat
  BY <1>2
<1>4. \A i \in DOMAIN flow.edges : flow.edges[i] \in Edges
  BY <1>2
<1> QED
  BY <1>2, <1>3, <1>4 DEF Edges

\* The first of a set of edges is one of them.
LEMMA FirstIn ==
    ASSUME flow \in InputFlows, NEW S, S \subseteq DOMAIN flow.edges, S # {}
    PROVE  First(S) \in S
<1>1. S \subseteq Nat
  BY FlowType
<1>2. PICK x \in S : \A y \in S : x <= y
  BY <1>1, LeastElement
<1> QED
  BY <1>2 DEF First

\* A validated node that is neither a branch, a note nor an end, and has edges, has
\* one that pick_next follows.
LEMMA OnwardRoutes ==
    ASSUME flow \in InputFlows, NEW n \in Nodes, Routable(flow, n),
           flow.kind[n] \notin Branching \cup {"note", "end"}, Outs(flow, n) # {}
    PROVE  Onward(n) # {}
<1>1. IsFiniteSet(Outs(flow, n))
  <2>1. IsFiniteSet(DOMAIN flow.edges)
    BY FlowType, FS_Interval
  <2>2. Outs(flow, n) \in SUBSET DOMAIN flow.edges
    BY DEF Outs
  <2> QED
    BY <2>1, <2>2, FS_Subset
<1>2. Cardinality(Outs(flow, n)) \in Nat /\ Cardinality(Outs(flow, n)) # 0
  BY <1>1, FS_CardinalityType, FS_EmptySet
<1>3. Cardinality({}) = 0
  BY FS_EmptySet
<1>4. CASE Cardinality(Outs(flow, n)) = 1
  BY <1>4 DEF Onward
<1>5. CASE Cardinality(Outs(flow, n)) # 1
  <2>1. \/ Cardinality(Labelled(flow, n, "default")) = 1
        \/ Cardinality(Labelled(flow, n, "none")) = 1
    BY <1>2, <1>5 DEF Routable
  <2>2. CASE Cardinality(Labelled(flow, n, "none")) = 1
    BY <1>3, <1>5, <2>2 DEF Onward
  <2>3. CASE Cardinality(Labelled(flow, n, "none")) # 1
    BY <1>3, <1>5, <2>1, <2>3 DEF Onward
  <2> QED
    BY <2>2, <2>3
<1> QED
  BY <1>4, <1>5

\* pick_next on edges of the current node: along one of them, or the run ends.
LEMMA FollowWalks ==
    ASSUME flow \in InputFlows, status = "running", at \in Nodes,
           NEW S, S \subseteq Outs(flow, at), Follow(S),
           S = {} => \/ flow.kind[at] = "note"
                     \/ flow.kind[at] \notin Branching /\ Outs(flow, at) = {}
    PROVE  \/ /\ status' = "running" /\ error' = error
              /\ \E i \in Outs(flow, at) : at' = flow.edges[i].to
           \/ /\ status' \in {"completed", "failed"} /\ at' = at
              /\ status' = "completed" => error' = error
              /\ error' = "route" => error = "route" \/ flow.kind[at] = "note"
<1>1. CASE S # {}
  <2>1. First(S) \in S
    BY <1>1, FirstIn DEF Outs
  <2> QED
    BY <1>1, <2>1 DEF Follow
<1>2. CASE S = {}
  <2>1. CASE flow.kind[at] \notin Branching /\ Outs(flow, at) = {}
    BY <1>2, <2>1 DEF Follow, Complete
  <2>2. CASE ~(flow.kind[at] \notin Branching /\ Outs(flow, at) = {})
    BY <1>2, <2>2 DEF Follow, Fail
  <2> QED
    BY <2>1, <2>2
<1> QED
  BY <1>1, <1>2

\* A validated node that does not branch walks on.
LEMMA PickNextWalks ==
    ASSUME flow \in InputFlows, status = "running", at \in Nodes,
           ValidateInterpreter(flow), PickNext,
           flow.kind[at] \in {"start", "note", "agent", "work"}
    PROVE  \/ /\ status' = "running" /\ error' = error
              /\ \E i \in Outs(flow, at) : at' = flow.edges[i].to
           \/ /\ status' \in {"completed", "failed"} /\ at' = at
              /\ status' = "completed" => error' = error
              /\ error' = "route" => error = "route" \/ flow.kind[at] = "note"
<1>1. Onward(at) \subseteq Outs(flow, at)
  BY DEF Onward, Labelled
<1>2. flow.kind[at] \notin Branching /\ flow.kind[at] # "end"
  BY DEF Branching, Branches
<1>3. Onward(at) = {} => flow.kind[at] = "note" \/ Outs(flow, at) = {}
  BY <1>2, OnwardRoutes DEF ValidateInterpreter
<1> QED
  BY <1>1, <1>2, <1>3, FollowWalks DEF PickNext

\* A validated branch has an edge for each of its labels.
LEMMA PickBranchWalks ==
    ASSUME flow \in InputFlows, status = "running", at \in Nodes,
           ValidateInterpreter(flow), flow.kind[at] \in Branching,
           NEW l \in Branches[flow.kind[at]], PickBranch(l)
    PROVE  \/ /\ status' = "running" /\ error' = error
              /\ \E i \in Outs(flow, at) : at' = flow.edges[i].to
           \/ /\ status' \in {"completed", "failed"} /\ at' = at
              /\ status' = "completed" => error' = error
              /\ error' = "route" => error = "route" \/ flow.kind[at] = "note"
<1>1. Labelled(flow, at, l) \subseteq Outs(flow, at)
  BY DEF Labelled
<1>2. Labelled(flow, at, l) # {}
  BY DEF ValidateInterpreter, Routable
<1> QED
  BY <1>1, <1>2, FollowWalks DEF PickBranch

LEMMA InterpretWalks ==
    ASSUME Validated, Interpret
    PROVE  Walk
<1>1. Interpreted(flow) /\ status = "running" /\ at \in Nodes
  BY DEF Validated, Interpret, Note, Start, End, Approval, If, WhileExit, WhileLoop, WhileFails,
         Guardrails, Agent, Work, UnknownKind, TooManySteps, Visit
<1>2. flow \in InputFlows /\ ValidateInterpreter(flow)
  BY <1>1 DEF Validated
<1> USE <1>1, <1>2
<1>3. CASE Note
  <2>1. PickNext /\ flow.kind[at] = "note"
    BY <1>3 DEF Note, Visit
  <2> QED
    BY <1>3, <2>1, PickNextWalks DEF Note, Visit, Walk, Silent, input
<1>4. CASE Start
  <2>1. PickNext /\ flow.kind[at] = "start"
    BY <1>4 DEF Start, Visit
  <2> QED
    BY <1>4, <2>1, PickNextWalks DEF Start, Visit, Walk, Put, input
<1>5. CASE End
  BY <1>5 DEF End, Visit, Complete, Walk, input
<1>6. CASE Approval
  <2>1. flow.kind[at] = "approval"
    BY <1>6 DEF Approval, Visit
  <2>2. PICK l \in Branches[flow.kind[at]] : PickBranch(l)
    BY <1>6, <2>1 DEF Approval, Branches
  <2>3. flow.kind[at] \in Branching
    BY <2>1 DEF Branching, Branches
  <2> QED
    BY <1>6, <2>2, <2>3, PickBranchWalks DEF Approval, Visit, Walk, Put, input
<1>7. CASE If
  <2>1. flow.kind[at] = "if"
    BY <1>7 DEF If, Visit
  <2>2. CASE Fail("step")
    BY <1>7, <2>2 DEF If, Visit, Walk, Fail, input
  <2>3. CASE \E l \in Branches["if"] : PickBranch(l)
    <3>1. PICK l \in Branches[flow.kind[at]] : PickBranch(l)
      BY <2>1, <2>3
    <3>2. flow.kind[at] \in Branching
      BY <2>1 DEF Branching, Branches
    <3> QED
      BY <1>7, <2>1, <3>1, <3>2, PickBranchWalks DEF If, Visit, Walk, Silent, input
  <2> QED
    BY <1>7, <2>2, <2>3 DEF If
<1>8. CASE WhileExit \/ WhileLoop
  <2>1. flow.kind[at] = "while"
    BY <1>8 DEF WhileExit, WhileLoop, Visit
  <2>2. PICK l \in Branches[flow.kind[at]] : PickBranch(l)
    BY <1>8, <2>1 DEF WhileExit, WhileLoop, Branches
  <2>3. flow.kind[at] \in Branching
    BY <2>1 DEF Branching, Branches
  <2> QED
    BY <1>8, <2>1, <2>2, <2>3, PickBranchWalks DEF WhileExit, WhileLoop, Visit, Walk, Silent, input
<1>9. CASE WhileFails
  BY <1>9 DEF WhileFails, Visit, Walk, Fail, input
<1>10. CASE Guardrails
  <2>1. flow.kind[at] = "guardrails"
    BY <1>10 DEF Guardrails, Visit
  <2>2. PICK l \in Branches[flow.kind[at]] : PickBranch(l)
    BY <1>10, <2>1 DEF Guardrails, Branches
  <2>3. flow.kind[at] \in Branching
    BY <2>1 DEF Branching, Branches
  <2> QED
    BY <1>10, <2>2, <2>3, PickBranchWalks DEF Guardrails, Visit, Walk, Put, input
<1>11. CASE Agent
  <2>1. PickNext /\ flow.kind[at] = "agent"
    BY <1>11 DEF Agent, Visit
  <2> QED
    BY <1>11, <2>1, PickNextWalks DEF Agent, Visit, Walk, Put, input
<1>12. CASE Work
  <2>1. flow.kind[at] = "work"
    BY <1>12 DEF Work, Visit
  <2>2. CASE Put /\ PickNext
    BY <1>12, <2>1, <2>2, PickNextWalks DEF Work, Visit, Walk, Put, input
  <2>3. CASE UNCHANGED outputs /\ Fail("step")
    BY <1>12, <2>3 DEF Work, Visit, Walk, Fail, input
  <2> QED
    BY <1>12, <2>2, <2>3 DEF Work
<1>13. CASE UnknownKind
  BY <1>13 DEF UnknownKind, Visit, Walk, Fail, input
<1>14. CASE TooManySteps
  BY <1>14 DEF TooManySteps, Walk, Fail, input
<1> QED
  BY <1>3, <1>4, <1>5, <1>6, <1>7, <1>8, <1>9, <1>10, <1>11, <1>12, <1>13, <1>14 DEF Interpret

\* A node that can be reached without leaving d leads, unless it is d, to others that
\* can.
LEMMA ReachOn ==
    ASSUME flow \in InputFlows, NEW R, NEW d, NEW n \in ReachedFrom(flow, R, {d}), n # d,
           NEW i \in Outs(flow, n)
    PROVE  flow.edges[i].to \in ReachedFrom(flow, R, {d})
<1>1. i \in DOMAIN flow.edges /\ flow.edges[i].from = n /\ flow.edges[i].to \in Nodes
  BY FlowType DEF Outs
<1>2. ASSUME NEW S \in SUBSET Nodes, R \subseteq S, Closed(flow, S, {d})
      PROVE  flow.edges[i].to \in S
  <2>1. n \in S \ {d}
    BY <1>2 DEF ReachedFrom
  <2> QED
    BY <1>1, <1>2, <2>1 DEF Closed
<1> QED
  BY <1>1, <1>2 DEF ReachedFrom

-------------------------------------------------------------------------------

LEMMA FlowInit == Init => FlowInv
<1> SUFFICES ASSUME Init PROVE FlowInv
  OBVIOUS
<1>1. Validated
  BY DEF Init, Validated
<1> QED
  BY <1>1 DEF FlowInv, RoutedUnlessNote, Avoided, Init

\* The steps outside the interpreter.
LEMMA OtherSteps ==
    ASSUME FlowInv, Kickoff \/ Begin \/ SortNode \/ SortEnd \/ LegacyNode \/ LegacyEnd
    PROVE  FlowInv'
<1> USE DEF FlowInv
<1>1. CASE Kickoff
  <2>1. Validated'
    BY <1>1 DEF Validated, Kickoff, SortBegin, input, Interpreted, Starts
  <2> QED
    BY <1>1, <2>1 DEF Validated, Kickoff, SortBegin, input, RoutedUnlessNote, Avoided
<1>2. CASE Begin
  <2>1. Starts(flow) \subseteq Nodes
    BY DEF Starts
  <2>2. flow' = flow /\ outputs' = outputs /\ status = "pending" /\ error = "none"
    BY <1>2 DEF Begin, input, Validated
  <2>3. CASE status' = "failed"
    BY <1>2, <2>2, <2>3 DEF Begin, SortBegin, Validated, RoutedUnlessNote, Avoided, Interpreted, Starts
  <2>4. CASE Interpreted(flow) /\ status' = "running"
    <3>1. at' \in Starts(flow) /\ error' = "none"
      BY <1>2, <2>2, <2>4 DEF Begin, SortBegin
    <3>2. Validated'
      BY <2>1, <2>2, <2>4, <3>1 DEF Validated
    <3>3. Avoided'
      <4>1. \A d \in Nodes : at' \in ReachedFrom(flow, Starts(flow), {d})
        BY <2>1, <3>1 DEF ReachedFrom
      <4> QED
        BY <2>2, <4>1 DEF Avoided
    <3> QED
      BY <3>1, <3>2, <3>3 DEF RoutedUnlessNote
  <2>5. CASE ~Interpreted(flow) /\ status' = "ordering"
    BY <1>2, <2>2, <2>5 DEF Begin, SortBegin, Validated, RoutedUnlessNote, Avoided
  <2> QED
    BY <1>2, <2>3, <2>4, <2>5 DEF Begin, SortBegin
<1>3. CASE SortNode
  BY <1>3 DEF SortNode, input, Validated, RoutedUnlessNote, Avoided
<1>4. CASE SortEnd
  <2>1. ~Interpreted(flow) /\ flow' = flow /\ outputs' = outputs /\ at' = at /\ at = None /\ error = "none"
    BY <1>4 DEF SortEnd, input, Validated
  <2>2. status' \in {"pending", "rejected", "running", "failed"} /\ error' \in {"none", "cycle"}
    BY <1>4, <2>1 DEF SortEnd
  <2>3. status' # "failed" => error' = "none"
    BY <1>4, <2>1 DEF SortEnd
  <2> QED
    BY <2>1, <2>2, <2>3 DEF Validated, RoutedUnlessNote, Avoided
<1>5. CASE LegacyNode
  <2>1. ~Interpreted(flow) /\ flow' = flow /\ at' = at /\ at = None /\ error = "none" /\ status = "running"
    BY <1>5 DEF LegacyNode, input, Validated
  <2>2. \/ status' = "running" /\ error' = "none"
        \/ status' = "failed" /\ error' = "step"
    BY <1>5, <2>1 DEF LegacyNode
  <2> QED
    BY <2>1, <2>2 DEF Validated, RoutedUnlessNote, Avoided
<1>6. CASE LegacyEnd
  BY <1>6 DEF LegacyEnd, input, Validated, RoutedUnlessNote, Avoided
<1> QED
  BY <1>1, <1>2, <1>3, <1>4, <1>5, <1>6

LEMMA InterpretSteps ==
    ASSUME FlowInv, Interpret
    PROVE  FlowInv'
<1>1. Walk /\ Validated
  BY InterpretWalks DEF FlowInv
<1>2. Interpreted(flow) /\ flow \in InputFlows
  BY <1>1, FlowAssumption DEF Walk, Validated
<1>3. CASE status' \in {"completed", "failed"} /\ at' = at
  BY <1>1, <1>2, <1>3 DEF Walk, FlowInv, Validated, RoutedUnlessNote, Avoided
<1>4. CASE status' = "running"
  <2>1. PICK i \in Outs(flow, at) : at' = flow.edges[i].to
    BY <1>1, <1>4 DEF Walk
  <2>2. at \in Nodes /\ at' \in Nodes /\ error' = error /\ error = "none" /\ flow' = flow
    BY <1>1, <1>2, <1>4, <2>1, FlowType DEF Walk, Validated, Outs
  <2>3. Validated'
    BY <1>1, <1>2, <1>4, <2>2 DEF Validated, Walk
  <2>4. Avoided'
    <3>1. SUFFICES ASSUME NEW d \in Nodes, flow.kind[d] \notin Silent, d \notin outputs'
                   PROVE  at' \in ReachedFrom(flow, Starts(flow), {d})
      BY <2>2 DEF Avoided
    <3>2. d \notin outputs /\ d # at
      BY <1>1, <1>4, <3>1 DEF Walk
    <3>3. at \in ReachedFrom(flow, Starts(flow), {d})
      BY <1>1, <2>2, <3>1, <3>2, FlowAssumption DEF FlowInv, Avoided, Walk
    <3> QED
      BY <1>2, <2>1, <3>2, <3>3, ReachOn
  <2> QED
    BY <2>2, <2>3, <2>4 DEF FlowInv, RoutedUnlessNote
<1> QED
  BY <1>1, <1>3, <1>4 DEF Walk

LEMMA FlowStep == FlowInv /\ [Next]_vars => FlowInv'
<1> SUFFICES ASSUME FlowInv, [Next]_vars PROVE FlowInv'
  OBVIOUS
<1>1. CASE Next
  BY <1>1, OtherSteps, InterpretSteps DEF Next, Run
<1>2. CASE UNCHANGED vars
  BY <1>2 DEF vars, input, FlowInv, Validated, RoutedUnlessNote, Avoided, Interpreted, Starts
<1> QED
  BY <1>1, <1>2

LEMMA FlowInvariant == Spec => []FlowInv
BY FlowInit, FlowStep, PTL DEF Spec

\* Whatever flow validate_interpreter accepts and however its branches turn out,
\* pick_next fails at a note only.
THEOREM AcceptedFlowsRoute == Spec => []RoutedUnlessNote
<1>1. FlowInv => RoutedUnlessNote
  BY DEF FlowInv
<1> QED
  BY <1>1, FlowInvariant, PTL

\* Whatever the flow, the output of a node that lies on every way to the current one
\* is there: no text is checked, and no context built, from an output still missing.
THEOREM OutputsAreReady == Spec => []OutputsReady
<1>1. FlowInv => OutputsReady
  BY DEF FlowInv, Validated, Avoided, OutputsReady
<1> QED
  BY <1>1, FlowInvariant, PTL

-------------------------------------------------------------------------------
(* Legacy mode: Kahn's algorithm.                                          *)

InOrder == {order[j] : j \in 1 .. Len(order)}

\* The edges into v from nodes that are not in the result yet.
Pending(v) == {i \in DOMAIN flow.edges : flow.edges[i].to = v /\ flow.edges[i].from \notin InOrder}

\* The result so far has each node once, after its predecessors.
TopSorted ==
    /\ order \in Seq(Nodes)
    /\ \A j, k \in 1 .. Len(order) : order[j] = order[k] => j = k
    /\ \A k \in 1 .. Len(order), i \in DOMAIN flow.edges :
         flow.edges[i].to = order[k] => \E j \in 1 .. k - 1 : order[j] = flow.edges[i].from

\* The in-degrees count the edges from nodes that are not in the result, and the
\* queue holds the nodes without such edges.
Counted ==
    /\ indeg = [v \in Nodes |-> Cardinality(Pending(v))]
    /\ ready = {v \in Nodes \ InOrder : Pending(v) = {}}

LEMMA EdgesFinite ==
    ASSUME flow \in InputFlows, NEW S, S \subseteq DOMAIN flow.edges
    PROVE  IsFiniteSet(S) /\ Cardinality(S) \in Nat /\ (Cardinality(S) = 0 <=> S = {})
<1>1. IsFiniteSet(DOMAIN flow.edges)
  BY FlowType, FS_Interval
<1>2. IsFiniteSet(S)
  BY <1>1, FS_Subset
<1> QED
  BY <1>2, FS_CardinalityType, FS_EmptySet

\* A result that has every node excludes a cycle.
LEMMA SortedAcyclic ==
    ASSUME flow \in InputFlows, TopSorted, InOrder = Nodes
    PROVE  ~Cyclic(flow, DOMAIN flow.edges)
<1>1. SUFFICES ASSUME NEW S \in (SUBSET Nodes) \ {{}}, CycleThrough(flow, S, DOMAIN flow.edges)
               PROVE  FALSE
  BY DEF Cyclic
<1> DEFINE T == {k \in 1 .. Len(order) : order[k] \in S}
<1>2. Len(order) \in Nat
  BY DEF TopSorted
<1>3. T \subseteq Nat /\ T # {}
  BY <1>1, <1>2 DEF InOrder
<1>4. PICK k \in T : \A j \in T : k <= j
  <2> HIDE DEF T
  <2> QED
    BY <1>3, LeastElement
<1>5. PICK i \in DOMAIN flow.edges : flow.edges[i].to = order[k] /\ flow.edges[i].from \in S
  BY <1>1, <1>4 DEF CycleThrough
<1>6. PICK j \in 1 .. k - 1 : order[j] = flow.edges[i].from
  BY <1>4, <1>5 DEF TopSorted
<1>7. j \in T /\ j < k
  BY <1>2, <1>4, <1>5, <1>6
<1> QED
  BY <1>2, <1>4, <1>7

\* When the queue is empty, the nodes that are not in the result are on cycles.
LEMMA StuckCyclic ==
    ASSUME flow \in InputFlows, TopSorted, Counted, ready = {}, InOrder # Nodes
    PROVE  Cyclic(flow, DOMAIN flow.edges)
<1> DEFINE S == Nodes \ InOrder
<1>1. InOrder \subseteq Nodes
  BY DEF InOrder, TopSorted
<1>2. S \in (SUBSET Nodes) \ {{}}
  BY <1>1
<1>3. \A n \in S : \E i \in DOMAIN flow.edges : flow.edges[i].to = n /\ flow.edges[i].from \in S
  BY FlowType DEF Counted, Pending
<1> QED
  BY <1>2, <1>3 DEF Cyclic, CycleThrough

\* The length of the result tells whether it has every node.
LEMMA SortedIsAll ==
    ASSUME TopSorted
    PROVE  Sorted <=> InOrder = Nodes
<1>1. Len(order) \in Nat /\ IsFiniteSet(Nodes) /\ InOrder \subseteq Nodes
  BY FlowAssumption DEF TopSorted, InOrder
<1> DEFINE f == [j \in 1 .. Len(order) |-> order[j]]
<1>2. f \in Bijection(1 .. Len(order), InOrder)
  BY DEF Bijection, Injection, Surjection, IsInjective, TopSorted, InOrder
<1>3. ExistsBijection(1 .. Len(order), InOrder)
  BY <1>2 DEF ExistsBijection
<1>4. Cardinality(InOrder) = Len(order)
  <2>1. IsFiniteSet(1 .. Len(order)) /\ Cardinality(1 .. Len(order)) = Len(order)
    <3>1. 1 \in Int /\ Len(order) \in Int
      BY <1>1
    <3>2. /\ IsFiniteSet(1 .. Len(order))
          /\ Cardinality(1 .. Len(order)) = IF 1 > Len(order) THEN 0 ELSE Len(order) - 1 + 1
      BY <3>1, FS_Interval, Zenon
    <3> QED
      BY <1>1, <3>2
  <2> QED
    BY <1>3, <2>1, FS_Bijection
<1> QED
  BY <1>1, <1>4, FS_Subset DEF Sorted

\* One round of the loop: the result stays sorted, and the counters and the queue
\* stay what they are meant to be.
LEMMA SortStep ==
    ASSUME flow \in InputFlows, TopSorted, Counted, SortNode
    PROVE  TopSorted' /\ Counted'
<1> DEFINE Cut(u, v) == {i \in Outs(flow, u) : flow.edges[i].to = v}
<1>1. PICK u \in ready :
        /\ indeg' = [v \in Nodes |-> indeg[v] - Cardinality(Cut(u, v))]
        /\ ready' = (ready \ {u}) \cup {v \in Nodes : /\ Cardinality(Cut(u, v)) > 0
                                                      /\ indeg[v] = Cardinality(Cut(u, v))}
        /\ order' = Append(order, u)
  BY DEF SortNode
<1>2. u \in Nodes /\ u \notin InOrder /\ Pending(u) = {} /\ flow' = flow
  BY <1>1 DEF Counted, SortNode, input
<1>3. /\ order \in Seq(Nodes) /\ Len(order) \in Nat
      /\ order' \in Seq(Nodes) /\ Len(order') = Len(order) + 1
      /\ \A j \in 1 .. Len(order) : order'[j] = order[j]
      /\ order'[Len(order) + 1] = u
  BY <1>1, <1>2 DEF TopSorted
<1>4. InOrder' = InOrder \cup {u}
  <2>1. ASSUME NEW x \in InOrder' PROVE x \in InOrder \cup {u}
    <3>1. PICK j \in 1 .. Len(order) + 1 : x = order'[j]
      BY <1>3, <2>1 DEF InOrder
    <3> QED
      BY <1>3, <3>1 DEF InOrder
  <2>2. ASSUME NEW x \in InOrder PROVE x \in InOrder'
    <3>1. PICK j \in 1 .. Len(order) : x = order[j]
      BY <2>2 DEF InOrder
    <3>2. j \in 1 .. Len(order') /\ order'[j] = x
      BY <1>3, <3>1
    <3> QED
      BY <3>2 DEF InOrder
  <2>3. u \in InOrder'
    BY <1>3 DEF InOrder
  <2> QED
    BY <2>1, <2>2, <2>3
<1>5. TopSorted'
  <2>1. ASSUME NEW j \in 1 .. Len(order'), NEW k \in 1 .. Len(order'), order'[j] = order'[k]
        PROVE  j = k
    <3>1. \A m \in 1 .. Len(order) : order[m] # u
      BY <1>2 DEF InOrder
    <3> QED
      BY <1>3, <2>1, <3>1 DEF TopSorted
  <2>2. ASSUME NEW k \in 1 .. Len(order'), NEW i \in DOMAIN flow.edges, flow.edges[i].to = order'[k]
        PROVE  \E j \in 1 .. k - 1 : order'[j] = flow.edges[i].from
    <3>1. CASE k = Len(order) + 1
      <4>1. flow.edges[i].from \in InOrder
        BY <1>2, <1>3, <2>2, <3>1 DEF Pending
      <4>2. PICK j \in 1 .. Len(order) : order[j] = flow.edges[i].from
        BY <4>1 DEF InOrder
      <4> QED
        BY <1>3, <3>1, <4>2
    <3>2. CASE k \in 1 .. Len(order)
      <4>1. PICK j \in 1 .. k - 1 : order[j] = flow.edges[i].from
        BY <1>3, <2>2, <3>2 DEF TopSorted
      <4> QED
        BY <1>3, <3>2, <4>1
    <3> QED
      BY <1>3, <3>1, <3>2
  <2> QED
    BY <1>2, <1>3, <2>1, <2>2 DEF TopSorted
<1>6. ASSUME NEW v \in Nodes
      PROVE  /\ Cut(u, v) \subseteq Pending(v) /\ Pending(v) \subseteq DOMAIN flow.edges
             /\ Pending(v)' = Pending(v) \ Cut(u, v)
  <2>1. Cut(u, v) = {i \in DOMAIN flow.edges : flow.edges[i].to = v /\ flow.edges[i].from = u}
    BY DEF Outs
  <2>2. Pending(v)' = {i \in DOMAIN flow.edges : flow.edges[i].to = v /\ flow.edges[i].from \notin InOrder \cup {u}}
    BY <1>2, <1>4 DEF Pending
  <2> QED
    BY <1>2, <2>1, <2>2 DEF Pending
<1> HIDE DEF Cut
<1>7. ASSUME NEW v \in Nodes
      PROVE  /\ Cardinality(Pending(v)') = Cardinality(Pending(v)) - Cardinality(Cut(u, v))
             /\ Cardinality(Cut(u, v)) \in Nat /\ (Cardinality(Cut(u, v)) = 0 <=> Cut(u, v) = {})
             /\ Cardinality(Pending(v)) = Cardinality(Cut(u, v)) <=> Pending(v) = Cut(u, v)
  <2>1. IsFiniteSet(Pending(v)) /\ Cut(u, v) \subseteq Pending(v) /\ Cut(u, v) \subseteq DOMAIN flow.edges
    BY <1>6, EdgesFinite
  <2>2. Pending(v) \cap Cut(u, v) = Cut(u, v)
    BY <2>1
  <2>3. Cardinality(Pending(v) \ Cut(u, v)) = Cardinality(Pending(v)) - Cardinality(Cut(u, v))
    BY <2>1, <2>2, FS_Difference
  <2>4. Cardinality(Pending(v)) = Cardinality(Cut(u, v)) => Pending(v) = Cut(u, v)
    BY <2>1, FS_Subset
  <2> QED
    BY <1>6, <2>1, <2>3, <2>4, EdgesFinite
<1>8. indeg' = [v \in Nodes |-> Cardinality(Pending(v)')]
  BY <1>1, <1>7 DEF Counted
<1>9. ASSUME NEW v \in Nodes PROVE v \in ready' <=> v \notin InOrder' /\ Pending(v)' = {}
  <2>1. v \in InOrder => Cut(u, v) = {}
    <3>1. SUFFICES ASSUME v \in InOrder, NEW i \in Cut(u, v) PROVE FALSE
      OBVIOUS
    <3>2. PICK k \in 1 .. Len(order) : order[k] = v
      BY <3>1 DEF InOrder
    <3>3. i \in DOMAIN flow.edges /\ flow.edges[i].to = v /\ flow.edges[i].from \notin InOrder
      BY <1>6, <3>1 DEF Pending
    <3>4. \E j \in 1 .. k - 1 : order[j] = flow.edges[i].from
      BY <3>2, <3>3 DEF TopSorted
    <3> QED
      BY <1>3, <3>2, <3>3, <3>4 DEF InOrder
  <2>2. v = u => Cut(u, v) = {}
    BY <1>2, <1>6
  <2>3. indeg[v] = Cardinality(Pending(v)) /\ (v \in ready <=> v \notin InOrder /\ Pending(v) = {})
    BY DEF Counted
  <2>4. v \in ready' <=> \/ v \in ready /\ v # u
                         \/ Cut(u, v) # {} /\ Pending(v) = Cut(u, v)
    BY <1>1, <1>7, <2>3
  <2>5. Pending(v)' = {} <=> Pending(v) = Cut(u, v)
    BY <1>6
  <2> QED
    BY <1>4, <1>6, <2>1, <2>2, <2>3, <2>4, <2>5
<1>10. ready' \subseteq Nodes
  BY <1>1 DEF Counted
<1>11. ready' = {v \in Nodes \ InOrder' : Pending(v)' = {}}
  BY <1>9, <1>10
<1> QED
  BY <1>5, <1>8, <1>11 DEF Counted

LEMMA SortBegins ==
    ASSUME flow \in InputFlows, flow' = flow, NEW next, SortBegin(next)
    PROVE  TopSorted' /\ Counted'
<1>1. order' = <<>> /\ InOrder' = {}
  BY DEF SortBegin, InOrder
<1>2. TopSorted'
  BY <1>1 DEF TopSorted
<1>3. \A v \in Nodes : Pending(v)' = {i \in DOMAIN flow.edges : flow.edges[i].to = v}
  BY <1>1 DEF Pending
<1>4. indeg' = [v \in Nodes |-> Cardinality(Pending(v)')]
  BY <1>3 DEF SortBegin, InDegree
<1>5. \A v \in Nodes : InDegree(flow, v) = 0 <=> Pending(v)' = {}
  BY <1>3, EdgesFinite DEF InDegree
<1>6. ready' = {v \in Nodes \ InOrder' : Pending(v)' = {}}
  BY <1>1, <1>5 DEF SortBegin
<1> QED
  BY <1>2, <1>4, <1>6 DEF Counted

\* What is left in outputs when k nodes of the result have run.
Executed(k) == {n \in Nodes : flow.kind[n] # "note" /\ \E j \in 1 .. k : order[j] = n}

\* A legacy flow that was accepted has no cycle, and its run follows the result.
LegacyInv ==
    /\ flow \in InputFlows
    /\ status \in {"new", "checking", "rejected", "pending", "ordering", "running",
                   "completed", "failed"}
    /\ error # "cycle"
    /\ Interpreted(flow) => status \notin {"checking", "ordering"}
    /\ ~Interpreted(flow) =>
         /\ status \in {"checking", "ordering"} => TopSorted /\ Counted
         /\ status = "rejected" => Cyclic(flow, DOMAIN flow.edges)
         /\ status \in {"pending", "ordering", "running", "completed"} =>
              ~Cyclic(flow, DOMAIN flow.edges)
         /\ status \in {"new", "checking", "rejected", "pending", "ordering"} =>
              outputs = {} /\ steps = 0
         /\ status \in {"running", "completed"} => TopSorted /\ InOrder = Nodes
         /\ status = "running" => steps \in 0 .. Len(order) /\ outputs = Executed(steps)
         /\ status = "completed" => outputs = Executed(Len(order))
         /\ status = "failed" =>
              \/ outputs = {}
              \/ TopSorted /\ \E k \in 0 .. Len(order) : outputs = Executed(k)

LEMMA LegacyInit == Init => LegacyInv
BY DEF Init, LegacyInv, Interpreted

LEMMA SortEndStep ==
    ASSUME LegacyInv, SortEnd
    PROVE  LegacyInv'
<1>1. /\ ~Interpreted(flow) /\ flow' = flow /\ outputs' = outputs /\ steps' = steps
      /\ order' = order /\ ready = {} /\ TopSorted /\ Counted
      /\ outputs = {} /\ steps = 0 /\ flow \in InputFlows /\ error # "cycle"
  BY DEF SortEnd, LegacyInv, input, sort
<1>2. TopSorted' /\ InOrder' = InOrder /\ Len(order) \in Nat
  BY <1>1 DEF TopSorted, InOrder
<1>3. Sorted <=> ~Cyclic(flow, DOMAIN flow.edges)
  BY <1>1, SortedIsAll, SortedAcyclic, StuckCyclic
<1>4. Sorted => InOrder = Nodes
  BY <1>1, SortedIsAll
<1>5. Executed(0)' = {}
  BY DEF Executed
<1>6. CASE status = "checking"
  <2>1. error' = error /\ status' = IF Sorted THEN "pending" ELSE "rejected"
    BY <1>6 DEF SortEnd
  <2> QED
    BY <1>1, <1>3, <2>1 DEF LegacyInv
<1>7. CASE status = "ordering"
  <2>1. ~Cyclic(flow, DOMAIN flow.edges)
    BY <1>1, <1>7 DEF LegacyInv
  <2>2. Sorted /\ status' = "running" /\ error' = error
    BY <1>3, <1>7, <2>1 DEF SortEnd
  <2> QED
    BY <1>1, <1>2, <1>4, <1>5, <2>1, <2>2 DEF LegacyInv
<1> QED
  BY <1>6, <1>7 DEF SortEnd

LEMMA LegacyNodeStep ==
    ASSUME LegacyInv, LegacyNode
    PROVE  LegacyInv'
<1>1. /\ ~Interpreted(flow) /\ flow' = flow /\ order' = order /\ flow \in InputFlows
      /\ status = "running" /\ steps' = steps + 1 /\ error # "cycle"
      /\ TopSorted /\ InOrder = Nodes /\ ~Cyclic(flow, DOMAIN flow.edges)
      /\ steps \in 0 .. Len(order) /\ steps < Len(order) /\ outputs = Executed(steps)
  BY DEF LegacyNode, LegacyInv, input, sort
<1>2. TopSorted' /\ InOrder' = InOrder /\ Len(order) \in Nat /\ \A k : Executed(k)' = Executed(k)
  BY <1>1 DEF TopSorted, InOrder, Executed
<1>3. order[steps + 1] \in Nodes
  BY <1>1, <1>2 DEF TopSorted
<1>4. Executed(steps + 1) = IF flow.kind[order[steps + 1]] = "note" THEN Executed(steps)
                            ELSE Executed(steps) \cup {order[steps + 1]}
  <2>1. \A n : (\E j \in 1 .. steps + 1 : order[j] = n)
                 <=> (\E j \in 1 .. steps : order[j] = n) \/ order[steps + 1] = n
    BY <1>1, <1>2
  <2> QED
    BY <1>3, <2>1 DEF Executed
<1>5. \/ status' = "running" /\ error' = error /\ outputs' = Executed(steps + 1)
      \/ status' = "failed" /\ error' = "step" /\ outputs' = Executed(steps)
  BY <1>1, <1>4 DEF LegacyNode
<1> QED
  BY <1>1, <1>2, <1>5 DEF LegacyInv

LEMMA LegacyStep == FlowInv /\ LegacyInv /\ [Next]_vars => LegacyInv'
<1> SUFFICES ASSUME FlowInv, LegacyInv, [Next]_vars PROVE LegacyInv'
  OBVIOUS
<1>1. CASE Kickoff
  <2>1. CASE Interpreted(flow)
    BY <1>1, <2>1 DEF Kickoff, LegacyInv, input
  <2>2. CASE ~Interpreted(flow)
    <3>1. SortBegin("checking") /\ flow' = flow
      BY <1>1, <2>2 DEF Kickoff, input
    <3>2. TopSorted' /\ Counted'
      BY <3>1, SortBegins DEF LegacyInv
    <3> QED
      BY <1>1, <2>2, <3>1, <3>2 DEF Kickoff, LegacyInv, input, SortBegin
  <2> QED
    BY <2>1, <2>2
<1>2. CASE Begin
  <2>1. CASE Interpreted(flow)
    BY <1>2, <2>1 DEF Begin, LegacyInv, input
  <2>2. CASE ~Interpreted(flow) /\ status' = "failed"
    BY <1>2, <2>2 DEF Begin, LegacyInv, input, SortBegin
  <2>3. CASE ~Interpreted(flow) /\ status' # "failed"
    <3>1. SortBegin("ordering") /\ flow' = flow
      BY <1>2, <2>3 DEF Begin, input
    <3>2. TopSorted' /\ Counted'
      BY <3>1, SortBegins DEF LegacyInv
    <3> QED
      BY <1>2, <2>3, <3>1, <3>2 DEF Begin, LegacyInv, input, SortBegin
  <2> QED
    BY <2>1, <2>2, <2>3
<1>3. CASE SortNode
  <2>1. TopSorted' /\ Counted'
    BY <1>3, SortStep DEF LegacyInv, SortNode
  <2> QED
    BY <1>3, <2>1 DEF SortNode, LegacyInv, input
<1>4. CASE SortEnd
  BY <1>4, SortEndStep
<1>5. CASE LegacyNode
  BY <1>5, LegacyNodeStep
<1>6. CASE LegacyEnd
  <2>1. TopSorted' /\ InOrder' = InOrder /\ \A k : Executed(k)' = Executed(k)
    BY <1>6 DEF LegacyEnd, input, sort, LegacyInv, TopSorted, InOrder, Executed
  <2> QED
    BY <1>6, <2>1 DEF LegacyEnd, input, sort, LegacyInv
<1>7. CASE Interpret
  <2>1. Walk /\ Validated
    BY <1>7, InterpretWalks DEF FlowInv
  <2>2. Interpreted(flow)
    BY <2>1, FlowAssumption DEF Walk, Validated
  <2>3. error' # "cycle"
    BY <1>7 DEF LegacyInv, Interpret, Note, Start, End, Approval, If, WhileExit, WhileLoop,
                WhileFails, Guardrails, Agent, Work, UnknownKind, TooManySteps,
                PickNext, PickBranch, Follow, Fail, Complete
  <2> QED
    BY <2>1, <2>2, <2>3 DEF LegacyInv, Walk
<1>8. CASE UNCHANGED vars
  <2>1. flow' = flow /\ order' = order /\ indeg' = indeg /\ ready' = ready
    BY <1>8 DEF vars, input, sort
  <2>2. /\ TopSorted' <=> TopSorted
        /\ Counted' <=> Counted
        /\ InOrder' = InOrder /\ \A k : Executed(k)' = Executed(k)
    BY <2>1 DEF TopSorted, Counted, Pending, InOrder, Executed
  <2> QED
    BY <1>8, <2>1, <2>2 DEF vars, LegacyInv, Interpreted, Starts
<1> QED
  BY <1>1, <1>2, <1>3, <1>4, <1>5, <1>6, <1>7, <1>8 DEF Next, Run

LEMMA LegacyInvariant == Spec => [](FlowInv /\ LegacyInv)
BY FlowInit, LegacyInit, FlowStep, LegacyStep, PTL DEF Spec

\* Kahn's algorithm accepts a flow of any size exactly when it has no cycle, and the
\* run's own sorting never contradicts the kickoff's.
THEOREM KahnDecides == Spec => []SortDecides
<1>1. LegacyInv => SortDecides
  BY DEF LegacyInv, SortDecides
<1> QED
  BY <1>1, LegacyInvariant, PTL

\* In legacy mode each step of a flow of any size runs after all it depends on, and a
\* completed run has run every node.
THEOREM LegacyInOrder == Spec => []LegacyOrder
<1>1. ASSUME LegacyInv, ~Interpreted(flow), NEW k \in 0 .. Len(order), TopSorted, outputs = Executed(k),
             NEW i \in DOMAIN flow.edges, flow.edges[i].to \in outputs
      PROVE  flow.edges[i].from \in outputs \/ flow.kind[flow.edges[i].from] = "note"
  <2>1. PICK j \in 1 .. k : order[j] = flow.edges[i].to
    BY <1>1 DEF Executed
  <2>2. Len(order) \in Nat /\ j \in 1 .. Len(order)
    BY <1>1 DEF TopSorted
  <2>3. PICK m \in 1 .. j - 1 : order[m] = flow.edges[i].from
    BY <1>1, <2>1, <2>2 DEF TopSorted
  <2>4. m \in 1 .. k /\ flow.edges[i].from \in Nodes
    BY <1>1, <2>2, <2>3, FlowType DEF LegacyInv
  <2> QED
    BY <1>1, <2>3, <2>4 DEF Executed
<1>2. ASSUME LegacyInv, ~Interpreted(flow)
      PROVE  outputs = {} \/ (TopSorted /\ \E k \in 0 .. Len(order) : outputs = Executed(k))
  BY <1>2 DEF LegacyInv, TopSorted
<1>3. ASSUME LegacyInv, ~Interpreted(flow), status = "completed"
      PROVE  outputs = {n \in Nodes : flow.kind[n] # "note"}
  BY <1>3 DEF LegacyInv, Executed, InOrder
<1>4. LegacyInv => LegacyOrder
  BY <1>1, <1>2, <1>3 DEF LegacyOrder
<1> QED
  BY <1>4, LegacyInvariant, PTL

-------------------------------------------------------------------------------

LEMMA CountedNat ==
    ASSUME flow \in InputFlows, flow' = flow, Counted'
    PROVE  indeg' \in [Nodes -> Nat] /\ ready' \subseteq Nodes
<1>1. \A v \in Nodes : Pending(v)' \subseteq DOMAIN flow.edges
  BY DEF Pending
<1>2. \A v \in Nodes : Cardinality(Pending(v)') \in Nat
  BY <1>1, EdgesFinite
<1> QED
  BY <1>2 DEF Counted

LEMMA FlowTypeStep == TypeOK /\ FlowInv /\ LegacyInv /\ [Next]_vars => TypeOK'
<1> SUFFICES ASSUME TypeOK, FlowInv, LegacyInv, [Next]_vars PROVE TypeOK'
  OBVIOUS
<1> USE DEF TypeOK
<1>0. Cardinality(Nodes) \in Nat /\ MaxSteps \in Nat
  BY FlowAssumption, FS_CardinalityType
<1>1. CASE Kickoff
  <2>1. CASE Interpreted(flow)
    BY <1>1, <2>1 DEF Kickoff, input, sort
  <2>2. CASE ~Interpreted(flow)
    <3>1. SortBegin("checking") /\ flow' = flow
      BY <1>1, <2>2 DEF Kickoff, input
    <3>2. indeg' \in [Nodes -> Nat] /\ ready' \subseteq Nodes /\ order' \in Seq(Nodes)
      BY <3>1, SortBegins, CountedNat DEF SortBegin
    <3> QED
      BY <1>1, <3>1, <3>2 DEF Kickoff, input, SortBegin
  <2> QED
    BY <2>1, <2>2
<1>2. CASE Begin
  <2>1. Starts(flow) \subseteq Nodes
    BY DEF Starts
  <2>2. CASE SortBegin("ordering")
    <3>1. indeg' \in [Nodes -> Nat] /\ ready' \subseteq Nodes /\ order' \in Seq(Nodes)
      BY <1>2, <2>2, SortBegins, CountedNat DEF SortBegin, Begin, input
    <3> QED
      BY <1>2, <2>1, <2>2, <3>1 DEF Begin, input, SortBegin
  <2>3. CASE UNCHANGED sort
    <3>1. status' \in {"failed", "running", "ordering"} /\ error' \in {error, "model"} /\ at' \in Nodes \cup {None}
      <4>1. CASE Interpreted(flow) /\ at' \in Starts(flow)
        BY <1>2, <2>1, <2>3, <4>1 DEF Begin, SortBegin
      <4>2. CASE at' = at
        BY <1>2, <4>2 DEF Begin, SortBegin
      <4> QED
        BY <1>2, <4>1, <4>2 DEF Begin
    <3> QED
      BY <1>2, <2>3, <3>1 DEF Begin, input, sort
  <2> QED
    BY <1>2, <2>2, <2>3 DEF Begin
<1>3. CASE SortNode
  <2>1. TopSorted' /\ Counted' /\ flow' = flow
    BY <1>3, SortStep DEF LegacyInv, SortNode, input
  <2>2. indeg' \in [Nodes -> Nat] /\ ready' \subseteq Nodes /\ order' \in Seq(Nodes)
    BY <2>1, CountedNat DEF TopSorted
  <2> QED
    BY <1>3, <2>2 DEF SortNode, input
<1>4. CASE SortEnd
  BY <1>4 DEF SortEnd, input, sort
<1>5. CASE LegacyNode
  <2>1. TopSorted /\ InOrder = Nodes /\ steps < Len(order)
    BY <1>5 DEF LegacyNode, LegacyInv
  <2>2. Len(order) = Cardinality(Nodes)
    BY <2>1, SortedIsAll DEF Sorted
  <2>3. order[steps + 1] \in Nodes
    BY <1>0, <2>1, <2>2
  <2>4. outputs' \subseteq Nodes
    BY <1>5, <2>3 DEF LegacyNode
  <2>5. steps' \in 0 .. MaxSteps + Cardinality(Nodes)
    BY <1>0, <1>5, <2>1, <2>2 DEF LegacyNode
  <2>6. status' \in {"running", "failed"} /\ error' \in {error, "step"}
    BY <1>5 DEF LegacyNode
  <2> QED
    BY <1>5, <2>4, <2>5, <2>6 DEF LegacyNode, input, sort
<1>6. CASE LegacyEnd
  BY <1>6 DEF LegacyEnd, input, sort
<1>7. CASE Interpret
  <2>1. Walk
    BY <1>7, InterpretWalks DEF FlowInv
  <2>2. at' \in Nodes /\ status' \in {"running", "completed", "failed"}
    BY <2>1, FlowType DEF Walk, Outs
  <2>3. /\ flow' = flow /\ approve' = approve /\ UNCHANGED sort
        /\ steps' \in 0 .. MaxSteps + Cardinality(Nodes)
    BY <1>0, <1>7 DEF Interpret, Note, Start, End, Approval, If, WhileExit, WhileLoop, WhileFails,
                      Guardrails, Agent, Work, UnknownKind, TooManySteps, Visit, input
  <2>4. loops' \in [Nodes -> Nat]
    BY <1>7 DEF Interpret, Note, Start, End, Approval, If, WhileExit, WhileLoop, WhileFails,
                Guardrails, Agent, Work, UnknownKind, TooManySteps
  <2>5. outputs' \subseteq Nodes
    BY <1>7, <2>1 DEF Interpret, Note, Start, End, Approval, If, WhileExit, WhileLoop, WhileFails,
                      Guardrails, Agent, Work, UnknownKind, TooManySteps, Put, Walk
  <2>6. error' \in {error, "route", "steps", "step"}
    BY <1>7 DEF Interpret, Note, Start, End, Approval, If, WhileExit, WhileLoop,
                WhileFails, Guardrails, Agent, Work, UnknownKind, TooManySteps,
                PickNext, PickBranch, Follow, Fail, Complete
  <2> QED
    BY <2>2, <2>3, <2>4, <2>5, <2>6 DEF sort
<1>8. CASE UNCHANGED vars
  BY <1>8 DEF vars, input, sort
<1> QED
  BY <1>1, <1>2, <1>3, <1>4, <1>5, <1>6, <1>7, <1>8 DEF Next, Run

\* Every variable keeps its type, and no run visits more than MAX_STEPS nodes, or, in
\* legacy mode, than there are.
THEOREM FlowTypeCorrect == Spec => []TypeOK
<1>1. Init => TypeOK
  <2>1. Cardinality(Nodes) \in Nat
    BY FlowAssumption, FS_CardinalityType
  <2> QED
    <3> SUFFICES ASSUME Init PROVE TypeOK
      OBVIOUS
    <3>2. approve \in BOOLEAN
      BY DEF Init
    <3>3. loops \in [Nodes -> Nat] /\ indeg \in [Nodes -> Nat] /\ order \in Seq(Nodes)
      BY DEF Init
    <3>4. steps \in 0 .. MaxSteps + Cardinality(Nodes)
      BY <2>1, FlowAssumption DEF Init
    <3> QED
      BY <3>2, <3>3, <3>4 DEF Init, TypeOK
<1> QED
  BY <1>1, FlowTypeStep, LegacyInvariant, PTL DEF Spec

===============================================================================
