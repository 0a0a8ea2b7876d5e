------------------------------- MODULE Backends -------------------------------
(***************************************************************************)
(* How the inference engine (src/src/inference/mod.rs) answers a request:  *)
(* the remote API, a local GGUF model, or Ollama, by the live settings, or *)
(* all of them in turn behind circuit cooling (failover.rs).  The node    *)
(* runs one request at a time; meanwhile the settings page may change the  *)
(* settings, and the models directory may be scanned again.                *)
(*                                                                         *)
(* The settings are behind a lock that is fair: who wants to read waits    *)
(* for the writer that waits.  A request keeps reading while a back end    *)
(* answers, a streaming one only while the remote API does.                *)
(*                                                                         *)
(* A name asks for the GGUF model with that id or, if there is none, for   *)
(* any whose id begins with it.  Ollama is asked for what its list of      *)
(* models makes of the name, the remote API for the model of its settings. *)
(***************************************************************************)

CONSTANTS
    Names,          \* that requests ask for, and that models have
    Models,         \* the names of GGUF models
    Norm,           \* normalize_model_name: without the tag, case and dashes
    Begins,         \* the pairs of names of which the first begins the second
    None

VARIABLES
    chain,          \* with the failover chain
    live,           \* the settings in force
    writer,         \* the settings page: None, waiting for the lock, writing
    registry,       \* models that were found
    cached,         \* the model of the GGUF engine
    cooling,        \* the back ends in cooldown
    at,             \* where the request is
    request,        \* the model it asks for, and whether it streams
    todo,           \* back ends of the chain still to try
    reading,        \* it holds the read lock
    light,          \* routing counted it as a light task
    moved,          \* settings or registry have changed since then
    answer          \* to the last request

settings == <<live, writer>>
run == <<at, request, todo, reading, light>>
vars == <<chain, settings, registry, cached, cooling, run, moved, answer>>

Sources == {"gguf", "ollama", "remote"}
Settings == [Sources -> BOOLEAN]
Requests == [model : Names, stream : BOOLEAN]

\* Who answered, how the name of its model is like the one of the request, and
\* whether there was a GGUF model of just that name all the while.
Answers ==
    [by : Sources \cup {None}, name : {"same", "begun", "alike", "other"}, exact : BOOLEAN]
NoAnswer == [by |-> None, name |-> "other", exact |-> FALSE]

BackendsAssumption ==
    /\ Models \subseteq Names /\ Norm \in [Names -> Names]
    /\ Begins \subseteq Names \X Names /\ \A n \in Names : <<n, n>> \in Begins
    /\ None \notin Models /\ None \notin Requests /\ None \notin Sources
    /\ None \notin {"waiting", "writing"}

\* The order of the chain.
Foremost(S) == IF "gguf" \in S THEN "gguf" ELSE IF "ollama" \in S THEN "ollama" ELSE "remote"

Init ==
    /\ chain \in BOOLEAN
    /\ live \in Settings /\ writer = None
    /\ registry \in SUBSET Models /\ cached = None
    /\ cooling = {}
    /\ at = "out" /\ request = None /\ todo = {} /\ reading = FALSE
    /\ light = FALSE /\ moved = FALSE /\ answer = NoAnswer

-------------------------------------------------------------------------------
(* The settings page and the models directory                              *)

PutWaits ==
    /\ writer = None /\ writer' = "waiting"
    /\ UNCHANGED <<chain, live, registry, cached, cooling, run, moved, answer>>

PutWrites ==
    /\ writer = "waiting" /\ ~reading
    /\ writer' = "writing" /\ live' \in Settings /\ moved' = (at \notin {"out", "route"})
    /\ UNCHANGED <<chain, registry, cached, cooling, run, answer>>

\* The config file is written under the lock; when that fails the page is told
\* so, and the settings stay in force.
PutSaves ==
    /\ writer = "writing" /\ writer' = None
    /\ UNCHANGED <<chain, live, registry, cached, cooling, run, moved, answer>>

\* Models are never taken out of the registry.
Scan ==
    /\ \E m \in Models \ registry : registry' = registry \cup {m}
    /\ moved' = (at \notin {"out", "route"})
    /\ UNCHANGED <<chain, settings, cached, cooling, run, answer>>

-------------------------------------------------------------------------------
(* Routing                                                                 *)

\* A lock that prefers its readers.
MayReadFirst == writer # "writing"
MayRead == writer = None

Ask(r) ==
    /\ at = "out" /\ at' = "route" /\ request' = r /\ answer' = NoAnswer
    /\ UNCHANGED <<chain, settings, registry, cached, cooling, todo, reading, light, moved>>

\* ModelRegistry::get; which of several it is the order of a hash map decides.
Found(name) ==
    IF name \in registry THEN {name} ELSE {m \in registry : <<name, m>> \in Begins}

Local == live["gguf"] /\ Found(request.model) # {}

RunsLocal == IF chain THEN Local ELSE Local /\ ~live["remote"]

\* routing_resource_requirements, which the executor asks for first.
Route ==
    /\ at = "route" /\ MayRead
    /\ at' = "begin" /\ light' = ~RunsLocal /\ moved' = FALSE
    /\ UNCHANGED <<chain, settings, registry, cached, cooling, request, todo, reading, answer>>

-------------------------------------------------------------------------------
(* The back ends                                                           *)

\* The request is over, without an answer or with one of back end b's model m.
End(a) ==
    /\ at' = "out" /\ todo' = {} /\ reading' = FALSE /\ request' = None
    /\ answer' = a /\ light' = FALSE /\ moved' = FALSE

Alike(m, name) ==
    <<Norm[name], Norm[m]>> \in Begins \/ <<Norm[m], Norm[name]>> \in Begins

Return(b, m) ==
    End([by    |-> b,
         name  |-> IF m = request.model THEN "same"
                   ELSE IF <<request.model, m>> \in Begins THEN "begun"
                   ELSE IF Alike(m, request.model) THEN "alike" ELSE "other",
         exact |-> request.model \in registry /\ ~moved])

Chosen ==
    IF live["remote"] THEN "remote"
    ELSE IF Local THEN "gguf"
    ELSE IF live["ollama"] THEN "ollama" ELSE None

\* Without the chain the settings choose one back end; its failure is final.
Begin ==
    /\ at = "begin" /\ ~chain /\ MayRead
    /\ IF Chosen = None THEN End(NoAnswer)
       ELSE /\ at' = Chosen
            /\ reading' = (~request.stream \/ Chosen = "remote")
            /\ UNCHANGED <<request, todo, light, moved, answer>>
    /\ UNCHANGED <<chain, settings, registry, cached, cooling>>

\* With it, those that are not in cooldown are tried in order.
BeginChain ==
    /\ at = "begin" /\ chain
    /\ LET open == Sources \ cooling
       IN  IF open = {} THEN End(NoAnswer)
           ELSE at' = "try" /\ todo' = open /\ UNCHANGED <<request, reading, light, moved, answer>>
    /\ UNCHANGED <<chain, settings, registry, cached, cooling>>

\* The first of those that are left failed: the next one, if there is one.
Onward ==
    LET rest == todo \ {Foremost(todo)}
    IN  IF rest = {} THEN End(NoAnswer)
        ELSE /\ at' = "try" /\ todo' = rest /\ reading' = FALSE
             /\ UNCHANGED <<request, light, moved, answer>>

SwitchedOn(b) == live[b] /\ (b = "gguf" => Found(request.model) # {})

\* A back end that is switched off is no fault of its own: no breaker trips.
Try ==
    /\ at = "try" /\ MayRead
    /\ IF SwitchedOn(Foremost(todo))
       THEN at' = Foremost(todo) /\ reading' = TRUE /\ UNCHANGED <<request, todo, light, moved, answer>>
       ELSE Onward
    /\ UNCHANGED <<chain, settings, registry, cached, cooling>>

Succeed(b, m) ==
    /\ Return(b, m)
    /\ cooling' = IF chain THEN cooling \ {b} ELSE cooling

\* A retriable error trips the breaker for one, five, then thirty minutes; a
\* fatal one does not.
Fail(b) ==
    /\ IF chain THEN Onward ELSE End(NoAnswer)
    /\ \/ UNCHANGED cooling
       \/ chain /\ cooling' = cooling \cup {b}

\* What Ollama is asked for, by the models it lists: one of the same name but
\* for its tag, then one whose name goes on, then one whose name stops short.
Resolved(name, listed) ==
    LET Like(first, second) == {m \in listed : <<first[m], second[m]>> \in Begins}
        norm == [m \in Names |-> Norm[name]]
        same == {m \in listed : Norm[m] = Norm[name]}
    IN  IF same # {} THEN same
        ELSE IF Like(norm, Norm) # {} THEN Like(norm, Norm)
        ELSE IF Like(Norm, norm) # {} THEN Like(Norm, norm) ELSE {name}

\* Ollama and the remote API, whose settings may name any model; both have a
\* time limit.  A list that cannot be had is like one without models.
Reply(b) ==
    /\ b # "gguf" /\ at = b
    /\ \/ b = "ollama" /\ \E listed \in SUBSET Names :
            \E m \in Resolved(request.model, listed) : Succeed(b, m)
       \/ b = "remote" /\ \E m \in Names : Succeed(b, m)
       \/ Fail(b)
    /\ UNCHANGED <<chain, settings, registry, cached>>

LoadAnyway ==
    /\ at = "gguf" /\ at' = "generate"
    /\ \E m \in Found(request.model) : cached' = IF cached = None THEN m ELSE cached
    /\ UNCHANGED <<chain, settings, registry, cooling, request, todo, reading, light, moved, answer>>

\* GgufEngine::load keeps the model it has when it is the one, and swaps it
\* otherwise; when the file cannot be loaded the old one stays.
Load ==
    /\ at = "gguf" /\ at' = "generate"
    /\ \E m \in Found(request.model) : cached' = m
    /\ UNCHANGED <<chain, settings, registry, cooling, request, todo, reading, light, moved, answer>>

LoadFails ==
    /\ at = "gguf" /\ (\E m \in Found(request.model) : cached # m) /\ Fail("gguf")
    /\ UNCHANGED <<chain, settings, registry, cached>>

\* GgufEngine::generate uses the model that is cached, whatever was asked for.
Generate ==
    /\ at = "generate"
    /\ Succeed("gguf", cached) \/ Fail("gguf")
    /\ UNCHANGED <<chain, settings, registry, cached>>

CoolDownEnds(b) ==
    /\ b \in cooling /\ cooling' = cooling \ {b}
    /\ UNCHANGED <<chain, settings, registry, cached, run, moved, answer>>

-------------------------------------------------------------------------------

Serve ==
    \/ Route \/ Begin \/ BeginChain \/ Try \/ Load \/ LoadFails \/ Generate
    \/ Reply("ollama") \/ Reply("remote")

Next ==
    \/ \E r \in Requests : Ask(r)
    \/ Serve
    \/ PutWaits \/ PutWrites \/ PutSaves \/ Scan
    \/ \E b \in Sources : CoolDownEnds(b)

\* Every back end answers or times out, and a lock that is free is given.
Fairness == WF_vars(Serve) /\ WF_vars(PutWrites) /\ WF_vars(PutSaves)

Spec == Init /\ [][Next]_vars /\ Fairness

-------------------------------------------------------------------------------
(* Properties                                                              *)

TypeOK ==
    /\ chain \in BOOLEAN /\ live \in Settings
    /\ writer \in {None, "waiting", "writing"}
    /\ registry \subseteq Models /\ cached \in Models \cup {None}
    /\ cooling \subseteq Sources
    /\ at \in Sources \cup {"out", "route", "begin", "try", "generate"}
    /\ request \in Requests \cup {None}
    /\ todo \subseteq Sources /\ reading \in BOOLEAN
    /\ light \in BOOLEAN /\ moved \in BOOLEAN
    /\ answer \in Answers

\* The GGUF engine answers with whatever model is loaded when it generates: it
\* is one that the name of the request begins, and the one of that name if the
\* registry has it from the routing on.  Ollama's name is like the request's; of
\* the remote API nothing is claimed.
RightModel ==
    /\ answer.by = "gguf" =>
         answer.name \in {"same", "begun"} /\ (answer.exact => answer.name = "same")
    /\ answer.by = "ollama" => answer.name # "other"

\* A request the executor was told is light loads no model, unless settings or
\* registry changed after it was told: routing decides as the engine does.
LightStaysLight == at \in {"gguf", "generate"} /\ light => moved

\* The settings page is not kept out by requests that follow each other.
PutEnds == writer = "waiting" ~> writer = None

===============================================================================
