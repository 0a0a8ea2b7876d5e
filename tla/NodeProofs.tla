------------------------------- MODULE NodeProofs -------------------------------
(***************************************************************************)
(* The safety of the parts around agents and inference, for any number of  *)
(* callers, peers, routines, handlers and threads, and any limits.  Each   *)
(* part has an inductive invariant of its own, over the variables MCNode   *)
(* gives it; a step of MCNode is a step of the part the behaviour is of.   *)
(***************************************************************************)
EXTENDS MCNode, SequenceTheorems, FiniteSetTheorems, WellFoundedInduction, NaturalsInduction, TLAPS

-------------------------------------------------------------------------------
(* Induction on numbers                                                      *)

\* Every non-empty set of naturals has a least element.
LEMMA LeastElement ==
    ASSUME NEW T, T \subseteq Nat, T # {}
    PROVE  \E x \in T : \A y \in T : x <= y
<1>1. IsWellFoundedOn(OpToRel(<, Nat), Nat)
  BY NatLessThanWellFounded
<1>2. PICK x \in T : \A y \in T : ~ (<<y, x>> \in OpToRel(<, Nat))
  BY <1>1, WFMin
<1>3. \A y \in T : ~ (y < x)
  BY <1>2 DEF OpToRel
<1> QED
  BY <1>3

LEMMA SetInduction ==
    ASSUME NEW S, 0 \in S, \A i \in Nat : i \in S => i + 1 \in S
    PROVE  \A i \in Nat : i \in S
<1> DEFINE T == {i \in Nat : i \notin S}
<1>1. SUFFICES ASSUME T # {} PROVE FALSE
  OBVIOUS
<1>2. PICK x \in T : \A y \in T : x <= y
  <2> HIDE DEF T
  <2>1. T \subseteq Nat
    BY DEF T
  <2> QED
    BY <1>1, <2>1, LeastElement
<1>3. x \in Nat /\ x \notin S /\ x # 0
  OBVIOUS
<1>4. x - 1 \in Nat /\ x - 1 \notin T
  BY <1>2, <1>3
<1> QED
  BY <1>3, <1>4

-------------------------------------------------------------------------------
(* The invariants                                                          *)


\* The chat of the command line.  x6: talk, x7: asked.
Turns == [whole : BOOLEAN, of : SUBSET Nat]
SoundTalk(t, n) ==
    /\ n \in Nat /\ t \in Seq(Turns)
    /\ \A i \in DOMAIN t : \A q \in t[i].of : q <= n
    /\ \A i, j \in DOMAIN t : i < j => \A p \in t[i].of, q \in t[j].of : p < q
    /\ \A i \in DOMAIN t : i > Len(t) - 2 => t[i] = Cli!Turn(n - Len(t) + i)

CliInv ==
    /\ DOMAIN x6 = Chats /\ DOMAIN x7 = Chats
    /\ \A c \in Chats : SoundTalk(x6[c], x7[c])
\* Routines.  x1: trigger, x2: status, x3: lastRun, x4: running, x5: startup,
\* x6: asleep, x7: spawned, x8: busy, x9: listening, x10: events, x11: starts.
\* Between a start and the loops it spawns a routine has one loop less than
\* starts.
EngineInv ==
    /\ x2 \in [Routines -> {None, "Idle", "Running", "Completed", "Failed"}]
    /\ x5 = None \/ x5 \subseteq Routines
    /\ x6 \in [Routines -> Nat] /\ x8 \in [Routines -> [Engine!Runners -> Nat]] /\ x11 \in Nat
    /\ Engine!RunningIsRunning /\ Engine!LoopsBounded
    /\ x5 # None => \A r \in Routines : x6[r] + x8[r]["loop"] + 1 <= x11


\* The executor.  x1: setup, x2: resources, x3: active, x4: task, x5: place.
Counts(kind, at) ==
    kind # None /\ kind # "print" /\ (at = "running" \/ (at = "remote" /\ kind = "stream"))
Counting(type) == {t \in Tasks : Counts(x4[t], x5[t]) /\ Exec!TypeOf(x4[t]) = type}

ExecInv ==
    /\ x3 \in [Exec!Types -> Nat]
    /\ x4 \in [Tasks -> Exec!Kinds \cup {None}] /\ x5 \in [Tasks -> Exec!Places]
    /\ \A t \in Tasks : x5[t] # "new" => x4[t] # None
    /\ \A t \in Tasks : x4[t] = "print" => x5[t] \in {"new", "running", "done", "error"}
    /\ \A y \in Exec!Types : x3[y] = Cardinality(Counting(y))

\* The home directory.  x1: environment, x2: identity, x3: config, x4: program,
\* x5: live, x6: save, x7: starts, x8: acked, x9: overlapped, x10: apart.
Stages ==
    {"detect", "look", "generated", "naming", "setup", "writing", "load", "open", "up", "api"}
Started ==
    [at : Stages, kind : Home!Kinds, flags : SUBSET {"web", "ollama"}, key : Home!Keys,
     config : Home!Configs]
Founding(p) == x4[p].at \in {"generated", "naming"}
Identified(p) == x4[p].at \in {"load", "open", "up"}

HomeTypes ==
    /\ x1 \in BOOLEAN
    /\ x2 \in Home!Files(Home!Keys) /\ x3 \in Home!Files(Home!Configs)
    /\ x4 \in [Programs -> {Home!Off} \cup Started]
    /\ x5 \in Home!Inference /\ x8 \in Home!Inference \cup {None}
    /\ x7 \in 0 .. MaxStarts /\ x9 \in BOOLEAN /\ x10 \in BOOLEAN

\* Unless first starts overlapped, one program makes the identity, before the
\* others go on.
HomeIdentity ==
    ~x9 =>
      /\ \A p, q \in Programs : Founding(p) /\ Founding(q) => p = q
      /\ \A p \in Programs :
           /\ x4[p].at = "generated" => x2.is = "missing"
           /\ x4[p].at = "naming" => x2.is = "truncated"
           /\ Identified(p) => x2 = Home!Whole(x4[p].key)

\* A request to the settings page is at work only while the one node is up, and
\* what it will write has the settings the node has.
HomeSaves ==
    /\ DOMAIN x6 = Saves
    /\ \A p, q \in Programs : Home!Node(p) /\ Home!Node(q) => p = q
    /\ ~Home!Free => \E p \in Programs : Home!Node(p)
    /\ \A s \in Saves : x6[s].at \in {"loaded", "writing"} =>
         /\ x6[s].config \in Home!Configs /\ x6[s].config.web # "flag"
         /\ x6[s].config.inference = x5

HomeInv ==
    /\ HomeTypes /\ HomeIdentity /\ HomeSaves
    /\ Home!SavesKept /\ Home!NodeAndFileAgree /\ Home!FlagsNotSaved

\* Channels.  x4: incoming, x6: poller, x7: confirmed, x8: updates, x9: got.
Allowed == (1 .. MaxUpdates) \ Filtered
Queued == x9 \o x4["telegram"]

\* The updates up to one are among those that were queued.
Reached(s, n) == (1 .. n) \ Filtered \subseteq Mail!Members(s)
InOrder(s) == \A i \in DOMAIN s : Reached(SubSeq(s, 1, i), s[i])

\* The updates before the one the task holds, before its answer and before its
\* offset were queued; the answer has no gaps.
SoundPoller(p, s) ==
    /\ p \in [offset : Nat, batch : Seq(1 .. MaxUpdates), holds : Allowed \cup {None}]
    /\ \A i \in DOMAIN p.batch : p.batch[i] = p.batch[1] + (i - 1)
    /\ p.holds = None => /\ Reached(s, p.offset - 1)
                         /\ p.batch # <<>> => Reached(s, p.batch[1] - 1)
    /\ p.holds # None => /\ Reached(s, p.holds - 1) /\ p.offset = p.holds + 1
                         /\ p.batch # <<>> => p.batch[1] = p.holds + 1

Queues ==
    /\ DOMAIN x4 = Mail!Channels
    /\ x4["telegram"] \in Seq(Allowed) /\ x4["p2p"] \in Seq(Friends \ Strangers)
    /\ x9 \in Seq(Allowed)
MailInv ==
    /\ Queues
    /\ x7 \in Nat /\ x8 \in 0 .. MaxUpdates
    /\ InOrder(Queued) /\ Reached(Queued, x7)
    /\ x6 = None \/ SoundPoller(x6, Queued)
\* MCP.  x1: config, x2: live, x3: tools, x4: reload, x5: overlapped, x6: up,
\* x7: reading, x8: writing, x9: ids, x10: pending, x11: call.
Configurations == Reloads \cup {"file", None}
CallRecords ==
    [step : {"new", "send", "waiting", "answered", "failed"}, at : Reloads \cup {None},
     id : Nat, got : Nat]

McpTypes ==
    /\ x2 \in Reloads \cup {None}
    /\ x4 \in [Reloads -> [step : Mcp!Steps, of : Configurations]] /\ x1 \in Configurations
    /\ x9 \in [Reloads -> Nat] /\ x10 \in [Reloads -> SUBSET Nat]
    /\ x11 \in [Calls -> CallRecords]

\* Numbers are given out from the connect on, ...
McpCalls ==
    /\ \A r \in Reloads : x4[r].step \notin {"connected", "done"} => x9[r] = 0
    /\ \A c \in Calls : x11[c].step \in {"send", "waiting"} => x11[c].at # None
    /\ \A c \in Calls : x11[c].at # None => x11[c].id <= x9[x11[c].at]
    /\ Mcp!WaitingIsPending

\* ... and without a put during a reload there is one reload at a time, of the
\* configuration that was put last.
Reloading(r) == x4[r].step \notin {"new", "done"}
McpReloads ==
    /\ x2 # None => x4[x2].step = "done"
    /\ ~x5 =>
         /\ \A r, s \in Reloads : Reloading(r) /\ Reloading(s) => r = s
         /\ \A r \in Reloads : x4[r].step \in {"read", "taken", "connected"} => x4[r].of = x1
    /\ Mcp!LiveAsConfigured

McpInv == McpTypes /\ McpCalls /\ McpReloads


\* Peers.  x1: links, x2: listed, x3: shown, x4: event.
\* Between events the lists agree; an event is about one peer, which the
\* network's list has already followed and the dashboard's has not.
NetInv ==
    /\ x1 \in [Neighbours -> Nat] /\ x3 \in [Neighbours -> Nat] /\ x2 \subseteq Neighbours
    /\ x4 # None => x4 \in Net!Events
    /\ \A p \in x2 : x1[p] > 0
    /\ \A p \in Neighbours : x4 = None \/ x4.peer # p =>
         /\ p \in x2 <=> x3[p] > 0
         /\ x3[p] <= x1[p]
    /\ x4 # None => IF x4.type = "PeerConnected" THEN x4.peer \in x2 /\ x3[x4.peer] < x1[x4.peer]
                    ELSE x4.peer \notin x2
\* The metered proxy.  x1: rules, x2: request, x3: free, x4: rate, x5: minute,
\* x6: served, x7: passed, x8: taken.
\* A meter of one limit: what was counted in each period, the entry of the
\* client, the period now, and the handlers between their look and their count.
CountIn(entry, now) == IF entry = None \/ entry.period # now THEN 0 ELSE entry.count
Metered(count, entry, now, limit, inside) ==
    /\ entry # None => entry.period <= now
    /\ count[now] = CountIn(entry, now)
    /\ \A p \in DOMAIN count :
         /\ p > now => count[p] = 0
         /\ p < now => count[p] <= limit + Cardinality(Handlers) - 1
    /\ count[now] + Cardinality(inside) <= limit + Cardinality(Handlers) - 1

Inside == {r \in Handlers : x2[r] # None}
AtFree == {r \in Handlers : x2[r] # None /\ x2[r].stage = "free"}
Hours == 0 .. (MaxMinutes \div MinutesInHour)

ProxyTypes ==
    /\ x1 \in RuleSets /\ x2 \in [Handlers -> Proxy!Taken \cup {None}]
    /\ x3 \in Proxy!Entries \cup {None} /\ x4 \in Proxy!Entries \cup {None}
    /\ x5 \in 0 .. MaxMinutes
    /\ x6 \in [Hours -> Nat] /\ x7 \in [0 .. MaxMinutes -> Nat]

ProxyInv ==
    /\ ProxyTypes
    /\ Metered(x6, x3, Proxy!Hour, FreeLimit, AtFree)
    /\ Metered(x7, x4, x5, RateLimit, Inside)

\* Skills.  x1: disk, x2: skills, x3: disabled, x4: network, x5: injected,
\* x6: flying, x7: edits, x8: batches.
Batches == [peer : Providers, priced : [Names -> Prices \cup {None}], number : Nat]
Listing(s) ==
    /\ s \in Seq(Skills!Offers)
    /\ \A i, j \in 1 .. Len(s) :
         i < j => s[i].provider # s[j].provider /\ s[i].price <= s[j].price

SkillsInv ==
    /\ Skills!TypeOK
    /\ x4 \in [Names -> Seq(Skills!Offers)] /\ \A n \in Names : Listing(x4[n])
    /\ x6 \subseteq Batches


\* Tools.  x1: direct, x2: file, x3: call, x4: child, x5: stats.
Children ==
    [alive : BOOLEAN, rest : {"none", "holding", "apart"}, wants : Builtin!Wishes \cup {None},
     in : 0 .. Pipe, open : BOOLEAN, out : 0 .. Pipe, err : 0 .. Pipe,
     wrote : [Builtin!Streams -> Nat], got : [Builtin!Streams -> Nat]]

\* A call, and the child of one: what was written is taken or in its pipe; who
\* writes or holds a pipe is waited for, or has been left; who reads the errors
\* has the output and the end of it.
SoundCall(r) ==
    /\ {"tool", "step"} \subseteq DOMAIN r
    /\ r.tool \in Builtin!Tools \cup {None} /\ r.step \in Builtin!Places \cup {None}
    /\ r.step = "read" => /\ r.tool = "patch" /\ r.new \in Pieces
                          /\ r.seen \in Seq(Pieces) \cup {None}
    /\ r.step \in {"stdout", "stderr"} => r.tool \in {"shell", "code"}
    /\ r.step \in {"stdin", "stderr"} => r.tool = "shell"
    /\ r.step \in {"stdin", "stdout", "stderr"} => "given" \in DOMAIN r
SoundChild(r, ch) ==
    /\ ch \in Children
    /\ ch.wrote["out"] = ch.got["out"] + ch.out /\ ch.wrote["err"] = ch.got["err"] + ch.err
    /\ ch.wants # None => ch.alive \/ (ch.wants \in Builtin!Streams /\ ch.rest = "holding")
    /\ ch.alive => \/ r.step \in {"stdin", "stdout"} /\ r.tool \in {"shell", "code"}
                   \/ r.step = "timeout" /\ r.tool = "code"
    /\ ch.rest = "holding" => \/ r.step \in {"stdin", "stdout"} /\ r.tool \in {"shell", "code"}
                              \/ r.step = "timeout"
    /\ r.step = "stderr" => ch.out = 0
    /\ \/ r.step = "ok" /\ r.tool \in {"shell", "code"}
       \/ r.step = "failed" /\ r.tool = "code"
       => \A s \in Builtin!Streams : r.given[s] = Builtin!Cut(ch.wrote[s])

Ended(how) == {c \in Calls \ x1 : x3[c].step = how}

ToolsInv ==
    /\ x1 \subseteq Calls /\ (x2 = None \/ x2 \in Seq(Pieces))
    /\ DOMAIN x3 = Calls /\ DOMAIN x4 = Calls
    /\ \A c \in Calls : SoundCall(x3[c]) /\ SoundChild(x3[c], x4[c])
    /\ x5 \in [total : Nat, ok : Nat, failed : Nat]
    /\ x5.ok = Cardinality(Ended("ok")) /\ x5.failed = Cardinality(Ended("failed"))
    /\ x5.total = x5.ok + x5.failed

\* Vectors.  x1: heap, x2: named, x3: file, x4: temp, x5: op, x6: crossed.
\* A collection, wherever it is, and what a thread does with one.
Good(c) ==
    /\ c \in [dim : Dims, points : SUBSET (Points \X Dims)]
    /\ Vectors!Fits(c)
GoodFile(f) == f = None \/ f = Torn \/ Good(f)
Sound(o) ==
    /\ o.step \in {"upsert", "remove"} => /\ o.col \in DOMAIN x1
                                          /\ o.point \in Points /\ o.dim \in Dims
    /\ o.step \in {"write", "fill"} => Good(o.snap)

\* Saves that never overlapped: one thread has the temporary file to itself.
Clean(o) ==
    /\ o.step = "fill" => o.in = "temp" /\ ~o.shared
    /\ o.step = "rename" => x4 # Torn
Apart ==
    /\ x3 # Torn
    /\ \A t \in Threads : Clean(x5[t])
    /\ \A s, t \in Threads :
         x5[s].step \in {"fill", "rename"} /\ x5[t].step \in {"fill", "rename"} => s = t

VectorsInv ==
    /\ \A n \in DOMAIN x1 : Good(x1[n])
    /\ x2 # None => x2 \in DOMAIN x1
    /\ GoodFile(x3) /\ GoodFile(x4)
    /\ DOMAIN x5 = Threads /\ \A t \in Threads : Sound(x5[t])
    /\ ~x6 => Apart
\* WebAssembly.  x1: file, x2: tools, x3: compiled, x4: loader, x5: run.
\* A part that is not being written is torn, and so is what get_compiled read,
\* and what it made of that.
WholeOrTorn(t, bytes) == bytes = "part" => x1[t].torn
Files == [holds : {"none", "part", "whole"}, writing : BOOLEAN, torn : BOOLEAN]
Loaders ==
    [step : {"idle", "read", "own", "ready", "apart"},
     tool : Installed \cup {None}, bytes : {None, "part", "whole"}]
SoundLoader(l) ==
    /\ l \in Loaders
    /\ l.step # "idle" => l.tool # None /\ l.bytes # None
    /\ l.step \in {"read", "ready"} => WholeOrTorn(l.tool, l.bytes)
SoundRun(r) ==
    /\ {"tool", "bytes", "own", "outcome"} \subseteq DOMAIN r /\ r.tool \in Installed
    /\ ~r.own => WholeOrTorn(r.tool, r.bytes)

WasmInv ==
    /\ x1 \in [Installed -> Files]
    /\ x3 \in [Installed -> {None, "part", "whole"}]
    /\ DOMAIN x4 = Executions
    /\ \A t \in Installed : ~x1[t].writing => WholeOrTorn(t, x1[t].holds)
    /\ \A t \in Installed : WholeOrTorn(t, x3[t])
    /\ \A c \in Executions : SoundLoader(x4[c])
    /\ x5 # None => SoundRun(x5)

-------------------------------------------------------------------------------
(* Routines                                                                *)

LEMMA EngineConstants ==
    None # "Running" /\ None \notin SUBSET Routines
BY NodeAssumption DEF Engine!RoutinesAssumption

\* A run that begins is in progress, whatever else is.
LEMMA RunBegins ==
    ASSUME EngineInv, NEW r \in Routines, NEW x \in Engine!Runners, Engine!Begin(r, x)
    PROVE  /\ x2' \in [Routines -> {None, "Idle", "Running", "Completed", "Failed"}]
           /\ x8' \in [Routines -> [Engine!Runners -> Nat]]
           /\ Engine!RunningIsRunning'
           /\ x8'[r]["loop"] = x8[r]["loop"] + (IF x = "loop" THEN 1 ELSE 0)
           /\ \A q \in Routines \ {r} : x8'[q] = x8[q]
<1> USE DEF EngineInv
<1>1. x8[r] \in [Engine!Runners -> Nat] /\ x8[r][x] \in Nat /\ "loop" \in Engine!Runners
  BY DEF Engine!Runners
<1>2. x8' = [x8 EXCEPT ![r] = [x8[r] EXCEPT ![x] = x8[r][x] + 1]]
  BY DEF Engine!Begin
<1>3. [x8[r] EXCEPT ![x] = x8[r][x] + 1] \in [Engine!Runners -> Nat]
  BY <1>1
<1>4. x8' \in [Routines -> [Engine!Runners -> Nat]] /\ \A q \in Routines \ {r} : x8'[q] = x8[q]
  BY <1>2, <1>3
<1>5. x8'[r] = [x8[r] EXCEPT ![x] = x8[r][x] + 1]
  BY <1>2
<1>6. x2' \in [Routines -> {None, "Idle", "Running", "Completed", "Failed"}]
  BY DEF Engine!Begin
<1>7. Engine!RunningIsRunning'
  <2>1. x8'[r][x] > 0
    BY <1>1, <1>5
  <2>2. \A q \in Routines \ {r} : x2'[q] = x2[q]
    BY DEF Engine!Begin
  <2> QED
    BY <1>4, <2>1, <2>2 DEF Engine!RunningIsRunning, Engine!InProgress
<1> QED
  BY <1>1, <1>4, <1>5, <1>6, <1>7

\* The routines' records and the flag, without a run.
LEMMA EngineRecords ==
    ASSUME EngineInv,
           \/ \E r \in Routines : (\E g \in Engine!Triggers : Engine!Register(r, g)) \/ Engine!Unregister(r)
           \/ Engine!Stop \/ Engine!SendEvent \/ Engine!Listen \/ Engine!Event
           \/ Engine!ListenerLeaves \/ UNCHANGED own
    PROVE  EngineInv'
<1> USE DEF EngineInv, Engine!LoopsBounded, Engine!RunningIsRunning, Engine!InProgress
<1>1. ASSUME NEW r \in Routines, NEW g \in Engine!Triggers, Engine!Register(r, g)
      PROVE  EngineInv'
  BY <1>1 DEF Engine!Register
<1>2. ASSUME NEW r \in Routines, Engine!Unregister(r) PROVE EngineInv'
  BY <1>2, EngineConstants DEF Engine!Unregister
<1>3. CASE Engine!Stop \/ Engine!SendEvent \/ Engine!Listen \/ Engine!Event \/ Engine!ListenerLeaves
  BY <1>3 DEF Engine!Stop, Engine!SendEvent, Engine!Listen, Engine!Event, Engine!ListenerLeaves
<1>4. CASE UNCHANGED own
  BY <1>4 DEF own
<1> QED
  BY <1>1, <1>2, <1>3, <1>4

LEMMA EngineStarts ==
    ASSUME EngineInv, Engine!Start \/ Engine!Spawn
    PROVE  EngineInv'
<1> USE DEF EngineInv, Engine!LoopsBounded, Engine!RunningIsRunning, Engine!InProgress
<1>0. "loop" \in Engine!Runners /\ \A r \in Routines : x8[r]["loop"] \in Nat /\ x6[r] \in Nat
  BY DEF Engine!Runners
<1>1. CASE Engine!Start
  BY <1>0, <1>1 DEF Engine!Start
<1>2. CASE Engine!Spawn
  <2>1. x6' \in [Routines -> Nat] /\ \A r \in Routines : x6'[r] <= x6[r] + 1
    BY <1>0, <1>2 DEF Engine!Spawn
  <2>2. x5 # None /\ x5' = None /\ x8' = x8 /\ x11' = x11 /\ x2' = x2
    BY <1>2, EngineConstants DEF Engine!Spawn
  <2>3. \A r \in Routines : x6'[r] + x8'[r]["loop"] <= x11'
    <3> SUFFICES ASSUME NEW r \in Routines PROVE x6'[r] + x8[r]["loop"] <= x11
      BY <2>2
    <3>1. x6[r] + x8[r]["loop"] + 1 <= x11 /\ x6'[r] <= x6[r] + 1 /\ x6'[r] \in Nat
      BY <2>1, <2>2
    <3> QED
      BY <1>0, <3>1
  <2>4. Engine!RunningIsRunning'
    BY <2>2
  <2>5. Engine!LoopsBounded'
    BY <2>3
  <2> HIDE DEF Engine!RunningIsRunning, Engine!LoopsBounded
  <2>6. /\ x2' \in [Routines -> {None, "Idle", "Running", "Completed", "Failed"}]
        /\ x8' \in [Routines -> [Engine!Runners -> Nat]] /\ x11' \in Nat
    BY <2>2
  <2> QED
    BY <2>1, <2>2, <2>4, <2>5, <2>6
<1> QED
  BY <1>1, <1>2

LEMMA EngineRuns ==
    ASSUME EngineInv, NEW r \in Routines,
           Engine!StartupBegins(r) \/ Engine!Wake(r) \/ Engine!EventBegins(r)
    PROVE  EngineInv'
<1> USE DEF EngineInv, Engine!LoopsBounded
<1>0. x8[r]["loop"] \in Nat /\ x6[r] \in Nat
  BY DEF Engine!Runners
<1>1. CASE Engine!StartupBegins(r)
  <2>1. Engine!Begin(r, "start") /\ x6' = x6 /\ x11' = x11 /\ x5' = x5 \ {r} /\ x5 # None
    BY <1>1 DEF Engine!StartupBegins
  <2>2. x5' \subseteq Routines
    BY <2>1
  <2> QED
    BY <1>0, <2>1, <2>2, RunBegins DEF Engine!Runners
<1>2. CASE Engine!Wake(r) /\ x4
  <2>1. Engine!Begin(r, "loop") /\ x6' = [x6 EXCEPT ![r] = @ - 1] /\ x6[r] > 0 /\ x11' = x11 /\ x5' = x5
    BY <1>2 DEF Engine!Wake
  <2>2. x6' \in [Routines -> Nat] /\ x6'[r] = x6[r] - 1 /\ \A q \in Routines \ {r} : x6'[q] = x6[q]
    BY <1>0, <2>1
  <2>3. /\ x8'[r]["loop"] = x8[r]["loop"] + 1 /\ \A q \in Routines \ {r} : x8'[q] = x8[q]
        /\ x2' \in [Routines -> {None, "Idle", "Running", "Completed", "Failed"}]
        /\ x8' \in [Routines -> [Engine!Runners -> Nat]]
        /\ Engine!RunningIsRunning'
    BY <2>1, RunBegins DEF Engine!Runners
  <2>4. \A q \in Routines : x6'[q] + x8'[q]["loop"] = x6[q] + x8[q]["loop"]
    <3>1. \A q \in Routines : x6[q] \in Nat /\ x8[q]["loop"] \in Nat
      BY DEF Engine!Runners
    <3>2. x6'[r] + x8'[r]["loop"] = x6[r] + x8[r]["loop"]
      BY <1>0, <2>2, <2>3
    <3> QED
      BY <2>2, <2>3, <3>1, <3>2
  <2> QED
    BY <2>1, <2>2, <2>3, <2>4
<1>3. CASE Engine!Wake(r) /\ ~x4
  <2>1. x6' = [x6 EXCEPT ![r] = @ - 1] /\ x6[r] > 0 /\ UNCHANGED <<x2, x5, x8, x11>>
    BY <1>3 DEF Engine!Wake
  <2>2. x6' \in [Routines -> Nat] /\ x6'[r] = x6[r] - 1 /\ \A q \in Routines \ {r} : x6'[q] = x6[q]
    BY <1>0, <2>1
  <2>3. \A q \in Routines : x6'[q] <= x6[q] /\ x8[q]["loop"] \in Nat /\ x6[q] \in Nat /\ x6'[q] \in Nat
    BY <1>0, <2>2 DEF Engine!Runners
  <2> QED
    BY <2>1, <2>2, <2>3 DEF Engine!RunningIsRunning, Engine!InProgress
<1>4. CASE Engine!EventBegins(r)
  <2>1. Engine!Begin(r, "event") /\ x6' = x6 /\ x11' = x11 /\ x5' = x5
    BY <1>4 DEF Engine!EventBegins
  <2> QED
    BY <1>0, <2>1, RunBegins DEF Engine!Runners
<1> QED
  BY <1>1, <1>2, <1>3, <1>4

LEMMA EngineEnds ==
    ASSUME EngineInv, NEW r \in Routines, NEW x \in Engine!Runners, Engine!End(r, x)
    PROVE  EngineInv'
<1> USE DEF EngineInv
<1>1. /\ x8[r] \in [Engine!Runners -> Nat] /\ x8[r][x] \in Nat /\ "loop" \in Engine!Runners
      /\ \A q \in Routines : x8[q]["loop"] \in Nat /\ x6[q] \in Nat
  BY DEF Engine!Runners
<1>2. /\ x8' = [x8 EXCEPT ![r] = [x8[r] EXCEPT ![x] = x8[r][x] - 1]]
      /\ x8[r][x] > 0 /\ x5' = x5 /\ x11' = x11
  BY DEF Engine!End
<1>3. [x8[r] EXCEPT ![x] = x8[r][x] - 1] \in [Engine!Runners -> Nat]
  BY <1>1, <1>2
<1>4. x8' \in [Routines -> [Engine!Runners -> Nat]] /\ \A q \in Routines \ {r} : x8'[q] = x8[q]
  BY <1>2, <1>3
<1>5. x8'[r] = [x8[r] EXCEPT ![x] = x8[r][x] - 1]
  BY <1>2
<1>6. /\ x2' \in [Routines -> {None, "Idle", "Running", "Completed", "Failed"}]
      /\ x2'[r] # "Running" /\ \A q \in Routines \ {r} : x2'[q] = x2[q]
  BY DEF Engine!End, Engine!Outcomes
<1>7. Engine!RunningIsRunning'
  BY <1>4, <1>6 DEF Engine!RunningIsRunning, Engine!InProgress
<1>8. /\ x6' \in [Routines -> Nat]
      /\ \A q \in Routines : x6'[q] + x8'[q]["loop"] <= x6[q] + x8[q]["loop"]
      /\ \A q \in Routines : x6'[q] \in Nat /\ x8'[q]["loop"] \in Nat
  <2>1. CASE x = "loop" /\ x4
    <3>1. x6' = [x6 EXCEPT ![r] = @ + 1]
      BY <2>1 DEF Engine!End
    <3>2. x6' \in [Routines -> Nat] /\ x6'[r] = x6[r] + 1 /\ \A q \in Routines \ {r} : x6'[q] = x6[q]
      BY <1>1, <3>1
    <3>3. x8'[r]["loop"] = x8[r]["loop"] - 1 /\ x8'[r]["loop"] \in Nat
      BY <1>1, <1>2, <1>5, <2>1
    <3> QED
      BY <1>1, <1>4, <3>2, <3>3
  <2>2. CASE ~(x = "loop" /\ x4)
    <3>1. x6' = x6
      BY <2>2 DEF Engine!End
    <3>2. x8'[r]["loop"] <= x8[r]["loop"] /\ x8'[r]["loop"] \in Nat
      BY <1>1, <1>2, <1>5
    <3> QED
      BY <1>1, <1>4, <3>1, <3>2
  <2> QED
    BY <2>1, <2>2
<1>9. \A q \in Routines : x6'[q] + x8'[q]["loop"] <= x11 /\
        (x5 # None => x6'[q] + x8'[q]["loop"] + 1 <= x11)
  BY <1>1, <1>8 DEF Engine!LoopsBounded
<1> QED
  BY <1>2, <1>4, <1>6, <1>7, <1>8, <1>9 DEF Engine!LoopsBounded

LEMMA EngineInit ==
    ASSUME Engine!Init
    PROVE  EngineInv
<1>1. \A r \in Routines : x8[r]["loop"] = 0 /\ x6[r] = 0 /\ x2[r] = None
  BY DEF Engine!Init, Engine!Runners
<1>2. /\ x2 \in [Routines -> {None, "Idle", "Running", "Completed", "Failed"}]
      /\ x6 \in [Routines -> Nat] /\ x8 \in [Routines -> [Engine!Runners -> Nat]]
      /\ x11 = 0 /\ x5 = None
  BY DEF Engine!Init
<1>3. Engine!RunningIsRunning
  BY <1>1, EngineConstants DEF Engine!RunningIsRunning
<1>4. Engine!LoopsBounded
  BY <1>1, <1>2 DEF Engine!LoopsBounded
<1> QED
  BY <1>2, <1>3, <1>4 DEF EngineInv

LEMMA EngineStep ==
    ASSUME EngineInv, Engine!Next \/ UNCHANGED own
    PROVE  EngineInv'
BY EngineRecords, EngineStarts, EngineRuns, EngineEnds DEF Engine!Next

-------------------------------------------------------------------------------
(* The executor                                                            *)

LEMMA ExecConstants ==
    IsFiniteSet(Tasks) /\ None \notin Exec!Kinds
<1>1. Exec!IsFiniteSet(Tasks) /\ None \notin Exec!Kinds
  BY NodeAssumption DEF Exec!ExecutorAssumption
<1>2. Exec!IsFiniteSet(Tasks) <=> IsFiniteSet(Tasks)
  BY Zenon DEF Exec!IsFiniteSet, IsFiniteSet
<1> QED
  BY <1>1, <1>2

LEMMA ExecTypes ==
    \A k \in Exec!Kinds : Exec!TypeOf(k) \in Exec!Types
BY DEF Exec!Kinds, Exec!Types, Exec!TypeOf

LEMMA OneMoreOrLess ==
    ASSUME NEW T, IsFiniteSet(T), NEW S, S \subseteq T
    PROVE  /\ IsFiniteSet(S) /\ Cardinality(S) \in Nat
           /\ \A t \in T \ S : Cardinality(S \cup {t}) = Cardinality(S) + 1
           /\ \A t \in S : Cardinality(S) > 0 /\ Cardinality(S \ {t}) = Cardinality(S) - 1
<1>1. IsFiniteSet(S)
  BY FS_Subset
<1>2. Cardinality(S) \in Nat
  BY <1>1, FS_CardinalityType
<1>3. ASSUME NEW t \in T \ S PROVE Cardinality(S \cup {t}) = Cardinality(S) + 1
  BY <1>1, <1>3, FS_AddElement
<1>4. ASSUME NEW t \in S PROVE Cardinality(S) > 0 /\ Cardinality(S \ {t}) = Cardinality(S) - 1
  <2>1. Cardinality(S \ {t}) = Cardinality(S) - 1
    BY <1>1, FS_RemoveElement
  <2>2. Cardinality(S \ {t}) \in Nat
    BY <1>1, FS_Subset, FS_CardinalityType
  <2> QED
    BY <1>2, <2>1, <2>2
<1> QED
  BY <1>1, <1>2, <1>3, <1>4

\* A task moves; the counter of its type follows what it counts for.
LEMMA TaskMoves ==
    ASSUME ExecInv, NEW t \in Tasks, NEW k \in Exec!Kinds, NEW p \in Exec!Places,
           x4' = [x4 EXCEPT ![t] = k], x5' = [x5 EXCEPT ![t] = p],
           k = "print" => p \in {"new", "running", "done", "error"},
           Counts(x4[t], x5[t]) => x4[t] = k,
           \/ (Counts(k, p) <=> Counts(x4[t], x5[t])) /\ x3' = x3
           \/ /\ Counts(k, p) /\ ~Counts(x4[t], x5[t])
              /\ x3' = [x3 EXCEPT ![Exec!TypeOf(k)] = @ + 1]
           \/ /\ ~Counts(k, p) /\ Counts(x4[t], x5[t])
              /\ x3' = [x3 EXCEPT ![Exec!TypeOf(k)] = IF @ = 0 THEN 0 ELSE @ - 1]
    PROVE  ExecInv'
<1>1. /\ x4'[t] = k /\ x5'[t] = p /\ k # None
      /\ \A s \in Tasks : s # t => x4'[s] = x4[s] /\ x5'[s] = x5[s]
      /\ x4' \in [Tasks -> Exec!Kinds \cup {None}] /\ x5' \in [Tasks -> Exec!Places]
  BY ExecConstants DEF ExecInv
<1>2. ASSUME NEW y \in Exec!Types
      PROVE  x3'[y] \in Nat /\ x3'[y] = Cardinality(Counting(y)')
  <2>1. /\ Counting(y) \subseteq Tasks /\ x3[y] \in Nat /\ x3[y] = Cardinality(Counting(y))
        /\ DOMAIN x3 = Exec!Types
    BY DEF Counting, ExecInv
  <2>2. t \in Counting(y) <=> Counts(x4[t], x5[t]) /\ Exec!TypeOf(x4[t]) = y
    BY DEF Counting
  <2>3. t \in Counting(y)' <=> Counts(k, p) /\ Exec!TypeOf(k) = y
    BY <1>1 DEF Counting
  <2>4. \A s : s # t => (s \in Counting(y)' <=> s \in Counting(y))
    BY <1>1 DEF Counting
  <2>8. /\ t \notin Counting(y) => Cardinality(Counting(y) \cup {t}) = Cardinality(Counting(y)) + 1
        /\ t \in Counting(y) => /\ Cardinality(Counting(y)) > 0
                                /\ Cardinality(Counting(y) \ {t}) = Cardinality(Counting(y)) - 1
    BY <2>1, ExecConstants, OneMoreOrLess
  <2>5. CASE t \in Counting(y) <=> t \in Counting(y)'
    <3>1. Counting(y)' = Counting(y)
      BY <2>4, <2>5
    <3>2. x3'[y] = x3[y]
      BY <2>1, <2>2, <2>3, <2>5
    <3> QED
      BY <2>1, <3>1, <3>2
  <2>6. CASE t \notin Counting(y) /\ t \in Counting(y)'
    <3>1. Counting(y)' = Counting(y) \cup {t}
      BY <2>4, <2>6
    <3>2. x3'[y] = x3[y] + 1
      BY <2>1, <2>2, <2>3, <2>6
    <3> QED
      BY <2>1, <2>6, <2>8, <3>1, <3>2
  <2>7. CASE t \in Counting(y) /\ t \notin Counting(y)'
    <3>1. Counting(y)' = Counting(y) \ {t}
      BY <2>4, <2>7
    <3>2. x3[y] > 0
      BY <2>1, <2>7, <2>8
    <3>3. x3'[y] = x3[y] - 1
      BY <2>1, <2>2, <2>3, <2>7, <3>2
    <3> QED
      BY <2>1, <2>7, <2>8, <3>1, <3>2, <3>3
  <2> QED
    BY <2>5, <2>6, <2>7
<1>3. x3' \in [Exec!Types -> Nat]
  <2>1. x3' = [y \in Exec!Types |-> x3'[y]]
    BY ExecTypes DEF ExecInv
  <2> QED
    BY <1>2, <2>1
<1> QED
  BY <1>1, <1>2, <1>3 DEF ExecInv

LEMMA ExecRoutes ==
    ASSUME ExecInv, NEW t \in Tasks, NEW k \in Exec!Kinds, Exec!Route(t, k)
    PROVE  ExecInv'
<1> DEFINE p == IF k = "print" THEN "running" ELSE Exec!Decision(k)
<1>1. /\ x4' = [x4 EXCEPT ![t] = k] /\ x5' = [x5 EXCEPT ![t] = p] /\ x3' = x3 /\ x5[t] = "new"
  BY DEF Exec!Route
<1>2. p \in {"running", "here", "offload", "refused"} /\ (p = "running" <=> k = "print")
  BY DEF Exec!Decision
<1>3. p \in Exec!Places /\ ~Counts(k, p) /\ ~Counts(x4[t], x5[t])
  BY <1>1, <1>2 DEF Exec!Places, Counts
<1> HIDE DEF p
<1> QED
  BY <1>1, <1>2, <1>3, TaskMoves

\* A task on its way keeps its kind.
LEMMA ExecRuns ==
    ASSUME ExecInv, NEW t \in Tasks,
           \/ Exec!Start(t) \/ Exec!Offload(t) \/ Exec!RemoteAnswers(t)
           \/ Exec!RemoteFails(t) \/ Exec!Finish(t)
    PROVE  ExecInv'
<1> DEFINE k == x4[t]
<1>1. x5[t] # "new" /\ x5[t] \in Exec!Places
  BY DEF Exec!Start, Exec!Offload, Exec!RemoteAnswers, Exec!RemoteFails, Exec!Finish, ExecInv
<1>2. k \in Exec!Kinds /\ k # None /\ (k = "print" => x5[t] \in {"running", "done", "error"})
  BY <1>1 DEF ExecInv
<1>3. x4' = [x4 EXCEPT ![t] = k]
  <2>1. x4' = x4
    BY DEF Exec!Start, Exec!Offload, Exec!RemoteAnswers, Exec!RemoteFails, Exec!Finish
  <2> QED
    BY <2>1 DEF ExecInv
<1>4. CASE Exec!Start(t)
  <2>1. x5[t] = "here" /\ k # "print" /\ x5' = [x5 EXCEPT ![t] = "running"]
        /\ x3' = [x3 EXCEPT ![Exec!TypeOf(k)] = @ + 1]
    BY <1>2, <1>4 DEF Exec!Start, Exec!Started
  <2>2. Counts(k, "running") /\ ~Counts(x4[t], x5[t]) /\ "running" \in Exec!Places
    BY <1>2, <2>1 DEF Counts, Exec!Places
  <2> HIDE DEF k
  <2> QED
    BY <1>2, <1>3, <2>1, <2>2, TaskMoves
<1>5. CASE Exec!Offload(t)
  <2>1. x5[t] = "offload" /\ k # "print" /\ ~Counts(x4[t], x5[t])
    BY <1>2, <1>5 DEF Exec!Offload, Counts
  <2>2. CASE k = "stream"
    <3>1. PICK p \in {"remote", "running"} : x5' = [x5 EXCEPT ![t] = p]
      BY <1>5, <2>2 DEF Exec!Offload
    <3>2. x3' = [x3 EXCEPT ![Exec!TypeOf(k)] = @ + 1]
      BY <1>5, <2>2 DEF Exec!Offload, Exec!Started
    <3>3. Counts(k, p) /\ p \in Exec!Places
      BY <1>2, <2>2, <3>1 DEF Counts, Exec!Places
    <3> HIDE DEF k
    <3> QED
      BY <1>2, <1>3, <2>1, <3>1, <3>2, <3>3, TaskMoves
  <2>3. CASE k # "stream"
    <3>1. PICK p \in {"remote", "here"} : x5' = [x5 EXCEPT ![t] = p]
      BY <1>5, <2>3 DEF Exec!Offload
    <3>2. x3' = x3
      BY <1>5, <2>3 DEF Exec!Offload
    <3>3. ~Counts(k, p) /\ p \in Exec!Places
      BY <1>2, <2>3, <3>1 DEF Counts, Exec!Places
    <3> HIDE DEF k
    <3> QED
      BY <1>2, <1>3, <2>1, <3>1, <3>2, <3>3, TaskMoves
  <2> QED
    BY <2>2, <2>3
<1>6. CASE Exec!RemoteAnswers(t)
  <2>1. x5[t] = "remote" /\ k # "print" /\ x5' = [x5 EXCEPT ![t] = "answered"]
        /\ (Counts(x4[t], x5[t]) <=> k = "stream")
    BY <1>2, <1>6 DEF Exec!RemoteAnswers, Counts
  <2>2. IF k = "stream" THEN x3' = [x3 EXCEPT ![Exec!TypeOf(k)] = IF @ = 0 THEN 0 ELSE @ - 1]
        ELSE x3' = x3
    BY <1>6 DEF Exec!RemoteAnswers, Exec!Completed
  <2>3. ~Counts(k, "answered") /\ "answered" \in Exec!Places
    BY DEF Counts, Exec!Places
  <2> HIDE DEF k
  <2> QED
    BY <1>2, <1>3, <2>1, <2>2, <2>3, TaskMoves DEF k
<1>7. CASE Exec!RemoteFails(t)
  <2>1. x5[t] = "remote" /\ k # "print" /\ x3' = x3
        /\ (Counts(x4[t], x5[t]) <=> k = "stream")
    BY <1>2, <1>7 DEF Exec!RemoteFails, Counts
  <2>2. PICK p \in {"running", "here"} : x5' = [x5 EXCEPT ![t] = p] /\ (p = "running" <=> k = "stream")
    BY <1>7 DEF Exec!RemoteFails
  <2>3. (Counts(k, p) <=> k = "stream") /\ p \in Exec!Places
    BY <1>2, <2>1, <2>2 DEF Counts, Exec!Places
  <2> HIDE DEF k
  <2> QED
    BY <1>2, <1>3, <2>1, <2>2, <2>3, TaskMoves DEF k
<1>8. CASE Exec!Finish(t)
  <2>1. PICK p \in {"done", "error"} : x5' = [x5 EXCEPT ![t] = p]
    BY <1>8 DEF Exec!Finish
  <2>2. IF k = "print" THEN x3' = x3
        ELSE x3' = [x3 EXCEPT ![Exec!TypeOf(k)] = IF @ = 0 THEN 0 ELSE @ - 1]
    BY <1>8 DEF Exec!Finish, Exec!Completed
  <2>3. ~Counts(k, p) /\ p \in Exec!Places /\ (Counts(x4[t], x5[t]) <=> k # "print")
    BY <1>2, <1>8, <2>1 DEF Counts, Exec!Places, Exec!Finish
  <2> HIDE DEF k
  <2> QED
    BY <1>2, <1>3, <2>1, <2>2, <2>3, TaskMoves DEF k
<1> QED
  BY <1>4, <1>5, <1>6, <1>7, <1>8

LEMMA ExecInit ==
    ASSUME Exec!Init
    PROVE  ExecInv
<1>1. x3 = [y \in Exec!Types |-> 0] /\ x4 = [t \in Tasks |-> None] /\ x5 = [t \in Tasks |-> "new"]
  BY DEF Exec!Init
<1>2. \A y \in Exec!Types : Counting(y) = {}
  BY <1>1 DEF Counting, Counts
<1>3. Cardinality({}) = 0
  BY FS_EmptySet
<1>4. \A y \in Exec!Types : x3[y] = Cardinality(Counting(y))
  BY <1>1, <1>2, <1>3
<1>5. "new" \in Exec!Places /\ None # "print"
  BY ExecConstants DEF Exec!Places, Exec!Kinds
<1> QED
  BY <1>1, <1>4, <1>5 DEF ExecInv

LEMMA ExecStep ==
    ASSUME ExecInv, Exec!Next \/ UNCHANGED own
    PROVE  ExecInv'
<1>1. CASE UNCHANGED <<x3, x4, x5>>
  <2>1. \A y : Counting(y)' = Counting(y)
    BY <1>1 DEF Counting
  <2> QED
    BY <1>1, <2>1 DEF ExecInv
<1>2. UNCHANGED own \/ Exec!Measure \/ Exec!PeersChange => UNCHANGED <<x3, x4, x5>>
  BY DEF own, Exec!Measure, Exec!PeersChange
<1> QED
  BY <1>1, <1>2, ExecRoutes, ExecRuns DEF Exec!Next

LEMMA ExecCounted == ExecInv => Exec!CountsRunning
<1> SUFFICES ASSUME ExecInv, NEW y \in Exec!Types
             PROVE  x3[y] = Exec!Cardinality({t \in Tasks :
                       /\ x4[t] # None /\ Exec!TypeOf(x4[t]) = y /\ x4[t] # "print"
                       /\ x5[t] = "running" \/ (x5[t] = "remote" /\ x4[t] = "stream")})
  BY DEF Exec!CountsRunning
<1> DEFINE S == {t \in Tasks : /\ x4[t] # None /\ Exec!TypeOf(x4[t]) = y /\ x4[t] # "print"
                               /\ x5[t] = "running" \/ (x5[t] = "remote" /\ x4[t] = "stream")}
<1>1. S = Counting(y)
  BY DEF Counting, Counts
<1>2. Exec!Cardinality(S) = Cardinality(S)
  BY Zenon DEF Exec!Cardinality, Cardinality
<1> QED
  BY <1>1, <1>2 DEF ExecInv

-------------------------------------------------------------------------------
(* The home directory                                                      *)

LEMMA HomeConstants ==
    /\ MaxStarts \in Nat /\ MaxStarts > 0 /\ Asked \subseteq Home!Requests
    /\ \A flags \in FlagSets \cup {{}} : flags \in SUBSET {"web", "ollama"}
<1>1. /\ MaxStarts \in Nat \ {0} /\ Asked \subseteq Home!Requests
      /\ FlagSets \subseteq SUBSET {"web", "ollama"}
  BY NodeAssumption DEF Home!HomeAssumption
<1> QED
  BY <1>1

LEMMA FileCases ==
    ASSUME NEW S, NEW f \in Home!Files(S)
    PROVE  /\ f.is \in {"missing", "truncated", "whole"}
           /\ f.is = "whole" => f.content \in S /\ f = Home!Whole(f.content)
BY DEF Home!Files, Home!Missing, Home!Truncated, Home!Whole

LEMMA WholeFile ==
    ASSUME NEW S, NEW c
    PROVE  /\ Home!Whole(c).is = "whole" /\ Home!Whole(c).content = c
           /\ c \in S => Home!Whole(c) \in Home!Files(S)
           /\ Home!Truncated.is = "truncated" /\ Home!Truncated \in Home!Files(S)
           /\ Home!Missing.is = "missing" /\ Home!Missing \in Home!Files(S)
BY DEF Home!Files, Home!Missing, Home!Truncated, Home!Whole

LEMMA Defaults ==
    Home!DefaultInference \in Home!Inference /\ Home!Default \in Home!Configs
    /\ Home!Default.web = "off"
BY DEF Home!DefaultInference, Home!Inference, Home!Default, Home!Configs

LEMMA HomeLoads ==
    ASSUME HomeInv, Home!CanLoad
    PROVE  Home!Load \in Home!Configs /\ Home!Load.web # "flag"
<1> DEFINE c == IF x3.is = "missing" THEN Home!Default ELSE x3.content
<1>1. x3.is # "truncated" /\ x3 \in Home!Files(Home!Configs)
  BY DEF HomeInv, HomeTypes, Home!CanLoad
<1>2. c \in Home!Configs /\ c.web # "flag"
  BY <1>1, FileCases, Defaults DEF HomeInv, Home!FlagsNotSaved
<1>3. Home!Load = Home!WithEnvironment(c)
  BY DEF Home!Load
<1> HIDE DEF c
<1> QED
  BY <1>2, <1>3 DEF Home!WithEnvironment, Home!Configs

\* A program is at a stage, and goes on to another one.
LEMMA ProgramAt ==
    ASSUME HomeInv, NEW p \in Programs, x4[p] # Home!Off
    PROVE  x4[p] \in Started
BY DEF HomeInv, HomeTypes

LEMMA NotOff ==
    ASSUME NEW p, x4[p].at # "off"
    PROVE  x4[p] # Home!Off
BY DEF Home!Off

LEMMA ProgramBecomes ==
    ASSUME HomeInv, NEW p \in Programs, NEW r \in {Home!Off} \cup Started,
           x4' = [x4 EXCEPT ![p] = r]
    PROVE  /\ x4' \in [Programs -> {Home!Off} \cup Started] /\ x4'[p] = r
           /\ \A q \in Programs : q # p => x4'[q] = x4[q]
BY DEF HomeInv, HomeTypes

LEMMA ProgramGoes ==
    ASSUME HomeInv, NEW p \in Programs, NEW at \in Stages, x4[p].at # "off", Home!Goes(p, at)
    PROVE  LET r == [x4[p] EXCEPT !.at = at]
           IN  x4' = [x4 EXCEPT ![p] = r] /\ r \in Started /\ r.at = at /\ r.key = x4[p].key
               /\ r.kind = x4[p].kind
<1>1. x4[p] \in Started
  BY ProgramAt, NotOff
<1> QED
  BY <1>1 DEF Home!Goes, Started

\* A program that is not the node moves; config.toml stays or is written by the
\* menu.
LEMMA ProgramMoves ==
    ASSUME HomeInv, NEW p \in Programs, NEW r \in {Home!Off} \cup Started,
           x4' = [x4 EXCEPT ![p] = r], ~Home!Node(p), ~(r.at = "up" /\ r.kind = "serve"),
           UNCHANGED <<x1, x5, x6>>, x7' \in 0 .. MaxStarts,
           x2' \in Home!Files(Home!Keys), x9' \in BOOLEAN, HomeIdentity',
           \/ UNCHANGED <<x3, x8, x10>>
           \/ /\ x3' \in Home!Files(Home!Configs) /\ x8' = None /\ x10' = TRUE
              /\ x3'.is = "whole" => x3'.content.web # "flag"
    PROVE  HomeInv'
<1>1. /\ x4' \in [Programs -> {Home!Off} \cup Started]
      /\ \A q \in Programs : Home!Node(q)' <=> Home!Node(q)
  BY ProgramBecomes DEF Home!Node, Home!Up
<1>2. Home!Free' <=> Home!Free
  BY DEF Home!Free
<1>3. HomeTypes'
  BY <1>1 DEF HomeTypes, HomeInv
<1>4. HomeSaves'
  BY <1>1, <1>2 DEF HomeSaves, HomeInv
<1>5. CASE UNCHANGED <<x3, x8, x10>>
  <2>1. Home!SavesKept' /\ Home!FlagsNotSaved'
    BY <1>5 DEF HomeInv, Home!SavesKept, Home!FlagsNotSaved
  <2>2. Home!NodeAndFileAgree'
    BY <1>1, <1>2, <1>5 DEF HomeInv, Home!NodeAndFileAgree
  <2> QED
    BY <1>3, <1>4, <2>1, <2>2 DEF HomeInv
<1>6. CASE /\ x3' \in Home!Files(Home!Configs) /\ x8' = None /\ x10' = TRUE
           /\ x3'.is = "whole" => x3'.content.web # "flag"
  BY <1>3, <1>4, <1>6 DEF HomeInv, Home!SavesKept, Home!FlagsNotSaved, Home!NodeAndFileAgree
<1> QED
  BY <1>5, <1>6

\* Nothing is new about the identity.
LEMMA IdentityQuiet ==
    ASSUME HomeInv, NEW p \in Programs, NEW r \in {Home!Off} \cup Started,
           x4' = [x4 EXCEPT ![p] = r], UNCHANGED <<x2, x9>>,
           r.at \notin {"generated", "naming"},
           r.at \in {"load", "open", "up"} => (~x9 => x2 = Home!Whole(r.key))
    PROVE  HomeIdentity' /\ x2' \in Home!Files(Home!Keys) /\ x9' \in BOOLEAN
<1>1. x4'[p] = r /\ \A q \in Programs : q # p => x4'[q] = x4[q]
  BY ProgramBecomes
<1>2. ~x9 => HomeIdentity'
  BY <1>1 DEF HomeInv, HomeIdentity, Founding, Identified
<1>3. x9 => HomeIdentity'
  BY DEF HomeIdentity
<1> QED
  BY <1>2, <1>3 DEF HomeInv, HomeTypes

LEMMA ProgramEnds ==
    ASSUME HomeInv, NEW p \in Programs, Home!Fails(p), ~Home!Node(p),
           UNCHANGED <<x1, x2, x3, x5, x6, x7, x8, x9, x10>>
    PROVE  HomeInv'
<1>1. x4' = [x4 EXCEPT ![p] = Home!Off] /\ Home!Off.at = "off" /\ Home!Off \in {Home!Off} \cup Started
  BY DEF Home!Fails, Home!Off
<1>2. x7' \in 0 .. MaxStarts
  BY DEF HomeInv, HomeTypes
<1>3. HomeIdentity' /\ x2' \in Home!Files(Home!Keys) /\ x9' \in BOOLEAN
  BY <1>1, IdentityQuiet
<1> QED
  BY <1>1, <1>2, <1>3, ProgramMoves

LEMMA HomeStarts ==
    ASSUME HomeInv, NEW p \in Programs, NEW kind \in Home!Kinds,
           NEW flags \in SUBSET {"web", "ollama"}, Home!Start(p, kind, flags)
    PROVE  HomeInv'
<1> DEFINE r == [at |-> IF kind = "chat" THEN "detect" ELSE "look", kind |-> kind,
                 flags |-> flags, key |-> x7 + 1, config |-> Home!Default]
<1>1. x7 \in Nat /\ x7 + 1 \in 1 .. MaxStarts /\ x7' = x7 + 1 /\ x7' \in 0 .. MaxStarts
  BY HomeConstants DEF HomeInv, HomeTypes, Home!Start
<1>2. x4' = [x4 EXCEPT ![p] = r] /\ r \in Started /\ r.at \in {"detect", "look"}
  BY <1>1, Defaults DEF Home!Start, Started, Stages, Home!Keys
<1>3. ~Home!Node(p) /\ UNCHANGED <<x1, x2, x3, x5, x6, x8, x9, x10>>
  BY DEF Home!Start, Home!Node, Home!Up, Home!Off, Home!homeLeft
<1> HIDE DEF r
<1>4. HomeIdentity' /\ x2' \in Home!Files(Home!Keys) /\ x9' \in BOOLEAN
  BY <1>2, <1>3, IdentityQuiet
<1> QED
  BY <1>1, <1>2, <1>3, <1>4, ProgramMoves

\* A program goes on without anything new about the identity.
LEMMA HomeGoes ==
    ASSUME HomeInv, NEW p \in Programs, NEW at \in Stages, Home!Goes(p, at),
           x4[p].at \notin {"off", "up"}, at \notin {"generated", "naming"},
           at \in {"load", "open", "up"} => x4[p].at \in {"load", "open"},
           at = "up" => x4[p].kind # "serve",
           UNCHANGED <<x1, x2, x5, x6, x7, x9>>,
           \/ UNCHANGED <<x3, x8, x10>>
           \/ /\ x3' \in Home!Files(Home!Configs) /\ x8' = None /\ x10' = TRUE
              /\ x3'.is = "whole" => x3'.content.web # "flag"
    PROVE  HomeInv'
<1> DEFINE r == [x4[p] EXCEPT !.at = at]
<1>1. x4' = [x4 EXCEPT ![p] = r] /\ r \in Started /\ r.at = at /\ r.key = x4[p].key
      /\ r.kind = x4[p].kind
  BY ProgramGoes
<1>2. r.at \in {"load", "open", "up"} => (~x9 => x2 = Home!Whole(r.key))
  BY <1>1 DEF HomeInv, HomeIdentity, Identified
<1>3. ~Home!Node(p) /\ x7' \in 0 .. MaxStarts
  BY DEF Home!Node, Home!Up, HomeInv, HomeTypes
<1> HIDE DEF r
<1>4. HomeIdentity' /\ x2' \in Home!Files(Home!Keys) /\ x9' \in BOOLEAN
  BY <1>1, <1>2, IdentityQuiet
<1> QED
  BY <1>1, <1>3, <1>4, ProgramMoves

LEMMA HomeLooks ==
    ASSUME HomeInv, NEW p \in Programs, Home!Look(p)
    PROVE  HomeInv'
<1>1. /\ x4[p].at = "look" /\ ~Home!Node(p) /\ UNCHANGED <<x1, x3, x5, x6, x7, x8, x10>>
      /\ x2' = x2
  BY DEF Home!Look, Home!homeLeft, Home!Node, Home!Up
<1>2. CASE Home!Fails(p) /\ x9' = x9
  BY <1>1, <1>2, ProgramEnds
<1>3. CASE /\ x2.is = "missing" /\ Home!Goes(p, "generated")
           /\ x9' = (x9 \/ \E q \in Programs \ {p} : x4[q].at \in {"generated", "naming"})
  <2> DEFINE r == [x4[p] EXCEPT !.at = "generated"]
  <2>1. x4' = [x4 EXCEPT ![p] = r] /\ r \in Started /\ r.at = "generated"
    BY <1>1, <1>3, ProgramGoes DEF Stages
  <2> HIDE DEF r
  <2>2. x4'[p] = r /\ \A q \in Programs : q # p => x4'[q] = x4[q]
    BY <2>1, ProgramBecomes
  <2>3. x9' \in BOOLEAN
    BY <1>3, Zenon
  <2>4. HomeIdentity'
    <3> SUFFICES ASSUME ~x9'
                 PROVE  /\ \A q, s \in Programs : Founding(q)' /\ Founding(s)' => q = s
                        /\ \A q \in Programs :
                             /\ x4'[q].at = "generated" => x2'.is = "missing"
                             /\ x4'[q].at = "naming" => x2'.is = "truncated"
                             /\ Identified(q)' => x2' = Home!Whole(x4'[q].key)
      BY DEF HomeIdentity
    <3>1. ~x9 /\ \A q \in Programs : q # p => x4[q].at \notin {"generated", "naming"}
      BY <1>3
    <3> QED
      BY <1>1, <1>3, <2>1, <2>2, <3>1 DEF HomeInv, HomeIdentity, Founding, Identified
  <2>5. x2' \in Home!Files(Home!Keys) /\ x7' \in 0 .. MaxStarts
    BY <1>1 DEF HomeInv, HomeTypes
  <2> QED
    BY <1>1, <2>1, <2>3, <2>4, <2>5, ProgramMoves
<1>4. CASE /\ x2.is = "whole" /\ x9' = x9
           /\ x4' = [x4 EXCEPT ![p].at = "load", ![p].key = x2.content]
  <2> DEFINE r == [x4[p] EXCEPT !.at = "load", !.key = x2.content]
  <2>1. x4[p] \in Started
    BY <1>1, ProgramAt, NotOff
  <2>2. x2.content \in Home!Keys /\ x2 = Home!Whole(x2.content)
    BY <1>4, FileCases DEF HomeInv, HomeTypes
  <2>3. x4' = [x4 EXCEPT ![p] = r] /\ r \in Started /\ r.at = "load" /\ r.key = x2.content
    BY <1>4, <2>1, <2>2 DEF Started, Stages
  <2>4. x7' \in 0 .. MaxStarts
    BY <1>1 DEF HomeInv, HomeTypes
  <2> HIDE DEF r
  <2>5. HomeIdentity' /\ x2' \in Home!Files(Home!Keys) /\ x9' \in BOOLEAN
    BY <1>1, <1>4, <2>2, <2>3, IdentityQuiet
  <2> QED
    BY <1>1, <2>3, <2>4, <2>5, ProgramMoves
<1> QED
  BY <1>2, <1>3, <1>4 DEF Home!Look

\* Without overlap, who names finds nobody else named or naming.
LEMMA HomeNames ==
    ASSUME HomeInv, NEW p \in Programs, Home!Name(p) \/ Home!Named(p)
    PROVE  HomeInv'
<1>1. /\ x4[p].at \in {"generated", "naming"} /\ ~Home!Node(p)
      /\ UNCHANGED <<x1, x3, x5, x6, x7, x8, x9, x10>> /\ x9' \in BOOLEAN
      /\ x7' \in 0 .. MaxStarts
  BY DEF Home!Name, Home!Named, Home!homeLeft, Home!Node, Home!Up, HomeInv, HomeTypes
<1>2. CASE Home!Fails(p) /\ x2' = x2
  BY <1>1, <1>2, ProgramEnds
<1>3. ~x9 => \A q \in Programs : q # p => ~Founding(q) /\ ~Identified(q)
  <2>1. ~x9 => x2.is # "whole"
    BY <1>1 DEF HomeInv, HomeIdentity
  <2>2. ~x9 => \A q \in Programs : Founding(q) => q = p
    BY <1>1 DEF HomeInv, HomeIdentity, Founding
  <2>3. ~x9 => \A q \in Programs : Identified(q) => x2 = Home!Whole(x4[q].key)
    BY DEF HomeInv, HomeIdentity
  <2> QED
    BY <2>1, <2>2, <2>3, WholeFile
<1>4. CASE x4[p].at = "generated" /\ x2' = Home!Truncated /\ Home!Goes(p, "naming")
  <2> DEFINE r == [x4[p] EXCEPT !.at = "naming"]
  <2>1. x4' = [x4 EXCEPT ![p] = r] /\ r \in Started /\ r.at = "naming"
    BY <1>1, <1>4, ProgramGoes DEF Stages
  <2> HIDE DEF r
  <2>2. x4'[p] = r /\ \A q \in Programs : q # p => x4'[q] = x4[q]
    BY <2>1, ProgramBecomes
  <2>3. HomeIdentity' /\ x2' \in Home!Files(Home!Keys)
    BY <1>1, <1>3, <1>4, <2>1, <2>2, WholeFile DEF HomeIdentity, Founding, Identified
  <2> QED
    BY <1>1, <2>1, <2>3, ProgramMoves
<1>5. ASSUME NEW at \in {"setup", "load"}, x2' = Home!Whole(x4[p].key), Home!Goes(p, at)
      PROVE  HomeInv'
  <2> DEFINE r == [x4[p] EXCEPT !.at = at]
  <2>1. x4' = [x4 EXCEPT ![p] = r] /\ r \in Started /\ r.at = at /\ r.key = x4[p].key
    <3>1. at \in Stages /\ x4[p].at # "off"
      BY <1>1 DEF Stages
    <3> QED
      BY <1>5, <3>1, ProgramGoes
  <2>2. x4[p].key \in Home!Keys
    BY <1>1, ProgramAt, NotOff DEF Started
  <2> HIDE DEF r
  <2>3. x4'[p] = r /\ \A q \in Programs : q # p => x4'[q] = x4[q]
    BY <2>1, ProgramBecomes
  <2>4. HomeIdentity' /\ x2' \in Home!Files(Home!Keys)
    BY <1>1, <1>3, <1>5, <2>1, <2>2, <2>3, WholeFile DEF HomeIdentity, Founding, Identified
  <2> QED
    BY <1>1, <1>5, <2>1, <2>4, ProgramMoves
<1> QED
  BY <1>2, <1>4, <1>5 DEF Home!Name, Home!Named

\* The menu's first-time setup.
LEMMA HomeSetsUp ==
    ASSUME HomeInv, NEW p \in Programs, Home!Setup(p) \/ Home!SetUp(p)
    PROVE  HomeInv'
<1>1. /\ x4[p].at \in {"setup", "writing"} /\ ~Home!Node(p)
      /\ UNCHANGED <<x1, x2, x5, x6, x7, x9>>
  BY DEF Home!Setup, Home!SetUp, Home!Node, Home!Up
<1>2. CASE Home!Fails(p) /\ UNCHANGED <<x3, x8, x10>>
  BY <1>1, <1>2, ProgramEnds
<1>3. CASE x3' = Home!Truncated /\ x8' = None /\ x10' = TRUE /\ Home!Goes(p, "writing")
  <2>1. x3' \in Home!Files(Home!Configs) /\ x3'.is # "whole" /\ "writing" \in Stages
    BY <1>3, WholeFile DEF Stages
  <2> QED
    BY <1>1, <1>3, <2>1, HomeGoes
<1>4. CASE x3' = Home!Whole(Home!Default) /\ x8' = None /\ x10' = TRUE /\ Home!Goes(p, "look")
  <2>1. x3' \in Home!Files(Home!Configs) /\ x3'.content.web # "flag" /\ "look" \in Stages
    BY <1>4, WholeFile, Defaults DEF Stages
  <2> QED
    BY <1>1, <1>4, <2>1, HomeGoes
<1> QED
  BY <1>2, <1>3, <1>4 DEF Home!Setup, Home!SetUp

LEMMA HomeConfigures ==
    ASSUME HomeInv, NEW p \in Programs, Home!LoadConfig(p)
    PROVE  HomeInv'
<1>1. x4[p].at = "load" /\ ~Home!Node(p) /\ UNCHANGED <<x1, x2, x3, x5, x6, x7, x8, x9, x10>>
  BY DEF Home!LoadConfig, Home!homeLeft, Home!Node, Home!Up
<1>2. CASE ~Home!CanLoad
  <2>1. Home!Fails(p)
    BY <1>2 DEF Home!LoadConfig
  <2> QED
    BY <1>1, <2>1, ProgramEnds
<1>3. CASE Home!CanLoad
  <2> DEFINE c == IF x4[p].kind = "serve" THEN Home!WithFlags(Home!Load, x4[p].flags)
                  ELSE x4[p].config
             r == [x4[p] EXCEPT !.at = "open", !.flags = {}, !.config = c]
  <2>1. x4[p] \in Started
    BY <1>1, ProgramAt, NotOff
  <2>2. c \in Home!Configs
    <3>1. ASSUME NEW d \in Home!Configs, NEW flags PROVE Home!WithFlags(d, flags) \in Home!Configs
      <4>1. d.inference \in Home!Inference /\ d.inference.ollama \in BOOLEAN
        BY DEF Home!Configs, Home!Inference
      <4>2. (d.inference.ollama \/ "ollama" \in flags) \in BOOLEAN
        BY Zenon
      <4>3. [d.inference EXCEPT !.ollama = d.inference.ollama \/ "ollama" \in flags] \in Home!Inference
        BY <4>1, <4>2 DEF Home!Inference
      <4> DEFINE i == [d.inference EXCEPT !.ollama = d.inference.ollama \/ "ollama" \in flags]
                 w == IF "web" \in flags THEN "flag" ELSE d.web
      <4>4. Home!WithFlags(d, flags) = [d EXCEPT !.web = w, !.inference = i]
        BY DEF Home!WithFlags, Home!Configs
      <4>5. w \in {"off", "environment", "flag"} /\ i \in Home!Inference
        BY <4>3 DEF Home!Configs
      <4> HIDE DEF i, w
      <4> QED
        BY <4>4, <4>5 DEF Home!Configs
    <3> QED
      BY <1>3, <2>1, <3>1, HomeLoads DEF Started
  <2>3. x4' = [x4 EXCEPT ![p] = r]
    BY <1>3, <2>1 DEF Home!LoadConfig, Started
  <2>4. r \in Started /\ r.at = "open" /\ r.key = x4[p].key
    <3> HIDE DEF c
    <3> QED
      BY <2>1, <2>2 DEF Started, Stages
  <2>5. ~x9 => x2 = Home!Whole(r.key)
    BY <1>1, <2>4 DEF HomeInv, HomeIdentity, Identified
  <2>6. x7' \in 0 .. MaxStarts
    BY <1>1 DEF HomeInv, HomeTypes
  <2> HIDE DEF r
  <2>7. HomeIdentity' /\ x2' \in Home!Files(Home!Keys) /\ x9' \in BOOLEAN
    BY <1>1, <2>3, <2>4, <2>5, IdentityQuiet
  <2> QED
    BY <1>1, <2>3, <2>4, <2>6, <2>7, ProgramMoves
<1> QED
  BY <1>2, <1>3

LEMMA HomeDetects ==
    ASSUME HomeInv, NEW p \in Programs, Home!Detect(p)
    PROVE  HomeInv'
<1>1. x4[p].at = "detect" /\ UNCHANGED <<x1, x2, x3, x5, x6, x7, x8, x9, x10>>
  BY DEF Home!Detect, Home!homeLeft
<1>2. PICK at \in {"api", "look"} : Home!Goes(p, at)
  BY DEF Home!Detect
<1>3. at \in Stages
  BY <1>2 DEF Stages
<1> QED
  BY <1>1, <1>2, <1>3, HomeGoes

\* A node is up alone, so no request is at work when it comes up.
LEMMA HomeOpens ==
    ASSUME HomeInv, NEW p \in Programs, Home!Open(p)
    PROVE  HomeInv'
<1>1. x4[p].at = "open" /\ ~Home!Node(p) /\ UNCHANGED <<x1, x2, x3, x6, x7, x8, x9>>
      /\ x4[p] \in Started
  BY ProgramAt, NotOff DEF Home!Open, Home!Node, Home!Up
<1>2. CASE Home!Held(p)
  <2>1. Home!Fails(p) /\ UNCHANGED <<x5, x10>>
    BY <1>2 DEF Home!Open
  <2> QED
    BY <1>1, <2>1, ProgramEnds
<1>3. CASE ~Home!Held(p) /\ x4[p].kind # "serve"
  <2>1. Home!Goes(p, "up") /\ UNCHANGED <<x5, x10>> /\ "up" \in Stages
    BY <1>3 DEF Home!Open, Stages
  <2> QED
    BY <1>1, <1>3, <2>1, HomeGoes
<1>4. CASE ~Home!Held(p) /\ x4[p].kind = "serve"
  <2> DEFINE r == [x4[p] EXCEPT !.at = "up"]
  <2>1. /\ Home!Goes(p, "up") /\ x5' = x4[p].config.inference
        /\ x10' = ~(x3.is = "whole" /\ x3.content.inference = x5') /\ "up" \in Stages
    BY <1>4 DEF Home!Open, Stages
  <2>2. x4' = [x4 EXCEPT ![p] = r] /\ r \in Started /\ r.at = "up" /\ r.key = x4[p].key
        /\ r.kind = "serve"
    BY <1>1, <1>4, <2>1, ProgramGoes
  <2> HIDE DEF r
  <2>3. x4' \in [Programs -> {Home!Off} \cup Started] /\ x4'[p] = r
        /\ \A q \in Programs : q # p => x4'[q] = x4[q]
    BY <2>2, ProgramBecomes
  <2>4. \A q \in Programs : ~Home!Node(q)
    BY <1>4 DEF Home!Held, Home!Node, Home!Database
  <2>5. Home!Free /\ Home!Free'
    BY <1>1, <2>4 DEF HomeInv, HomeSaves, Home!Free
  <2>6. HomeIdentity'
    <3>1. ~x9 => x2 = Home!Whole(r.key)
      BY <1>1, <2>2 DEF HomeInv, HomeIdentity, Identified
    <3> QED
      BY <1>1, <2>2, <3>1, IdentityQuiet
  <2>7. HomeTypes'
    <3>1. x5' \in Home!Inference
      BY <1>1, <2>1 DEF Started, Home!Configs
    <3>2. x10' \in BOOLEAN
      BY <2>1, Zenon
    <3> QED
      BY <1>1, <2>3, <3>1, <3>2 DEF HomeInv, HomeTypes
  <2>8. HomeSaves'
    <3>1. \A q \in Programs : Home!Node(q)' => q = p
      BY <2>3, <2>4 DEF Home!Node, Home!Up
    <3>2. \A s \in Saves : x6'[s].at = "idle"
      BY <2>5 DEF Home!Free
    <3> QED
      BY <1>1, <2>5, <3>1, <3>2 DEF HomeInv, HomeSaves
  <2>9. Home!SavesKept' /\ Home!FlagsNotSaved'
    BY <1>1 DEF HomeInv, Home!SavesKept, Home!FlagsNotSaved
  <2>10. Home!NodeAndFileAgree'
    BY <1>1, <2>1 DEF Home!NodeAndFileAgree
  <2> QED
    BY <2>6, <2>7, <2>8, <2>9, <2>10 DEF HomeInv
<1> QED
  BY <1>2, <1>3, <1>4

LEMMA HomeEnds ==
    ASSUME HomeInv, NEW p \in Programs, Home!End(p)
    PROVE  HomeInv'
<1>1. Home!Fails(p) /\ UNCHANGED <<x1, x2, x3, x7, x8, x9, x10>>
  BY DEF Home!End
<1>2. CASE ~Home!Node(p)
  <2>1. UNCHANGED <<x5, x6>>
    BY <1>2 DEF Home!End
  <2> QED
    BY <1>1, <1>2, <2>1, ProgramEnds
<1>3. CASE Home!Node(p)
  <2>1. /\ x4' = [x4 EXCEPT ![p] = Home!Off] /\ Home!Off.at = "off"
        /\ x5' = Home!DefaultInference /\ x6' = [s \in Saves |-> Home!Idle]
    BY <1>1, <1>3 DEF Home!Fails, Home!End, Home!Off
  <2>2. x4' \in [Programs -> {Home!Off} \cup Started] /\ x4'[p] = Home!Off
        /\ \A q \in Programs : q # p => x4'[q] = x4[q]
    BY <2>1, ProgramBecomes
  <2>3. \A q \in Programs : ~Home!Node(q)'
    BY <1>3, <2>1, <2>2 DEF HomeInv, HomeSaves, Home!Node, Home!Up
  <2>4. HomeIdentity'
    BY <1>1, <2>1, IdentityQuiet
  <2>5. HomeTypes'
    BY <1>1, <2>1, <2>2, Defaults DEF HomeInv, HomeTypes
  <2>6. HomeSaves'
    BY <2>1, <2>3 DEF HomeSaves, Home!Idle, Home!Free
  <2>7. Home!SavesKept' /\ Home!FlagsNotSaved'
    BY <1>1 DEF HomeInv, Home!SavesKept, Home!FlagsNotSaved
  <2>8. Home!NodeAndFileAgree'
    BY <2>3 DEF Home!NodeAndFileAgree
  <2> QED
    BY <2>4, <2>5, <2>6, <2>7, <2>8 DEF HomeInv
<1> QED
  BY <1>2, <1>3

\* Requests to the settings page leave programs and the identity alone.
LEMMA SavesLeave ==
    ASSUME HomeInv, UNCHANGED Home!saveLeft
    PROVE  /\ HomeIdentity' /\ UNCHANGED <<x1, x2, x4, x7, x9>>
           /\ \A p \in Programs : Home!Node(p)' <=> Home!Node(p)
BY DEF HomeInv, HomeIdentity, Founding, Identified, Home!saveLeft, Home!Node, Home!Up

LEMMA HomeChanges ==
    ASSUME HomeInv, NEW s \in Saves, NEW asked \in Asked, Home!Change(s, asked)
    PROVE  HomeInv'
<1>1. /\ Home!Free /\ UNCHANGED <<x3, x8, x10>> /\ UNCHANGED Home!saveLeft
      /\ x6' = [x6 EXCEPT ![s] = [at |-> "changed"]]
      /\ \E p \in Programs : Home!Node(p)
  BY DEF Home!Change
<1>2. x5' = [ollama |-> asked[1], key |-> IF asked[2] = None THEN x5.key ELSE asked[2]]
  BY DEF Home!Change
<1>3. HomeIdentity' /\ UNCHANGED <<x1, x2, x4, x7, x9>>
      /\ \A p \in Programs : Home!Node(p)' <=> Home!Node(p)
  BY <1>1, SavesLeave
<1>4. x5' \in Home!Inference
  <2>1. asked[1] \in BOOLEAN /\ asked[2] \in BOOLEAN \cup {None}
    BY HomeConstants DEF Home!Requests
  <2>2. x5.key \in BOOLEAN
    BY DEF HomeInv, HomeTypes, Home!Inference
  <2> DEFINE key == IF asked[2] = None THEN x5.key ELSE asked[2]
  <2>3. key \in BOOLEAN
    BY <2>1, <2>2
  <2>4. x5' = [ollama |-> asked[1], key |-> key]
    BY <1>2
  <2> HIDE DEF key
  <2> QED
    BY <2>1, <2>3, <2>4 DEF Home!Inference
<1>5. DOMAIN x6' = Saves /\ x6'[s].at = "changed" /\ \A t \in Saves : t # s => x6'[t].at = "idle"
  BY <1>1 DEF HomeInv, HomeSaves, Home!Free
<1>6. HomeTypes'
  BY <1>1, <1>3, <1>4 DEF HomeInv, HomeTypes
<1>7. HomeSaves'
  BY <1>1, <1>3, <1>5 DEF HomeInv, HomeSaves
<1>8. Home!SavesKept' /\ Home!FlagsNotSaved'
  BY <1>1 DEF HomeInv, Home!SavesKept, Home!FlagsNotSaved
<1>9. Home!NodeAndFileAgree'
  <2>1. ~Home!Free'
    BY <1>5 DEF Home!Free
  <2> QED
    BY <2>1 DEF Home!NodeAndFileAgree
<1> QED
  BY <1>3, <1>6, <1>7, <1>8, <1>9 DEF HomeInv

\* A request goes on: it has failed, or it is still at work, or it has written
\* the settings of the node.
LEMMA SaveGoes ==
    ASSUME HomeInv, NEW s \in Saves, NEW r, x6' = [x6 EXCEPT ![s] = r],
           x6[s].at # "idle", x5' = x5, UNCHANGED Home!saveLeft,
           r.at \in {"loaded", "writing"} =>
             r.config \in Home!Configs /\ r.config.web # "flag" /\ r.config.inference = x5,
           x3' \in Home!Files(Home!Configs), x3'.is = "whole" => x3'.content.web # "flag",
           x8' \in Home!Inference \cup {None}, x10' \in BOOLEAN,
           Home!SavesKept',
           r.at = "idle" => x10' \/ (x3'.is = "whole" /\ x3'.content.inference = x5)
    PROVE  HomeInv'
<1>1. HomeIdentity' /\ UNCHANGED <<x1, x2, x4, x7, x9>>
      /\ \A p \in Programs : Home!Node(p)' <=> Home!Node(p)
  BY SavesLeave
<1>2. /\ DOMAIN x6' = Saves /\ x6'[s] = r
      /\ \A t \in Saves : t # s => x6'[t] = x6[t]
  BY DEF HomeInv, HomeSaves
<1>3. \E p \in Programs : Home!Node(p)
  BY DEF HomeInv, HomeSaves, Home!Free
<1>4. HomeTypes'
  BY <1>1 DEF HomeInv, HomeTypes
<1>5. HomeSaves'
  BY <1>1, <1>2, <1>3 DEF HomeInv, HomeSaves
<1>6. Home!FlagsNotSaved'
  BY DEF Home!FlagsNotSaved
<1>7. Home!NodeAndFileAgree'
  <2>1. Home!Free' => r.at = "idle"
    BY <1>2 DEF Home!Free
  <2> QED
    BY <2>1 DEF Home!NodeAndFileAgree
<1> QED
  BY <1>1, <1>4, <1>5, <1>6, <1>7 DEF HomeInv

LEMMA HomeReloads ==
    ASSUME HomeInv, NEW s \in Saves, Home!Reload(s)
    PROVE  HomeInv'
<1>1. /\ x6[s].at = "changed" /\ UNCHANGED <<x3, x5, x8>> /\ UNCHANGED Home!saveLeft
      /\ x3' \in Home!Files(Home!Configs) /\ x8' \in Home!Inference \cup {None}
      /\ Home!SavesKept' /\ (x3'.is = "whole" => x3'.content.web # "flag")
  BY DEF Home!Reload, HomeInv, HomeTypes, Home!SavesKept, Home!FlagsNotSaved
<1>2. CASE Home!CanLoad
  <2> DEFINE c == Home!Applied(Home!Load)
             r == [at |-> "loaded", config |-> c]
  <2>1. x6' = [x6 EXCEPT ![s] = r] /\ x10' = x10 /\ x10' \in BOOLEAN
    BY <1>2 DEF Home!Reload, HomeInv, HomeTypes
  <2>2. c \in Home!Configs /\ c.web # "flag" /\ c.inference = x5
    <3>1. Home!Load \in Home!Configs /\ Home!Load.web # "flag" /\ x5 \in Home!Inference
      BY <1>2, HomeLoads DEF HomeInv, HomeTypes
    <3>2. c = [Home!Load EXCEPT !.inference = x5]
      BY DEF Home!Applied
    <3> HIDE DEF c
    <3> QED
      BY <3>1, <3>2 DEF Home!Configs
  <2> HIDE DEF c
  <2>3. r.at = "loaded" /\ r.config = c
    OBVIOUS
  <2> HIDE DEF r
  <2> QED
    BY <1>1, <2>1, <2>2, <2>3, SaveGoes
<1>3. CASE ~Home!CanLoad
  <2>1. x6' = [x6 EXCEPT ![s] = Home!Idle] /\ x10' = TRUE /\ Home!Idle.at = "idle"
    BY <1>3 DEF Home!Reload, Home!Idle
  <2> QED
    BY <1>1, <2>1, SaveGoes
<1> QED
  BY <1>2, <1>3

LEMMA HomeWrites ==
    ASSUME HomeInv, NEW s \in Saves, Home!Write(s) \/ Home!Saved(s)
    PROVE  HomeInv'
<1>1. /\ x6[s].at \in {"loaded", "writing"} /\ x5' = x5 /\ UNCHANGED Home!saveLeft
      /\ x6[s].config \in Home!Configs /\ x6[s].config.web # "flag"
      /\ x6[s].config.inference = x5 /\ Home!Idle.at = "idle"
  BY DEF Home!Write, Home!Saved, HomeInv, HomeSaves, Home!Idle
<1>2. CASE UNCHANGED <<x3, x8>> /\ x10' = TRUE /\ x6' = [x6 EXCEPT ![s] = Home!Idle]
  <2>1. /\ x3' \in Home!Files(Home!Configs) /\ x8' \in Home!Inference \cup {None}
        /\ Home!SavesKept' /\ (x3'.is = "whole" => x3'.content.web # "flag")
    BY <1>2 DEF HomeInv, HomeTypes, Home!SavesKept, Home!FlagsNotSaved
  <2> QED
    BY <1>1, <1>2, <2>1, SaveGoes
<1>3. CASE /\ Home!Write(s) /\ x3' = Home!Truncated /\ x8' = None /\ x10' = x10
           /\ x6' = [x6 EXCEPT ![s].at = "writing"]
  <2> DEFINE r == [x6[s] EXCEPT !.at = "writing"]
  <2>1. x6' = [x6 EXCEPT ![s] = r]
    BY <1>3 DEF HomeInv, HomeSaves
  <2>2. x6[s].at = "loaded" /\ x10' \in BOOLEAN
    BY <1>3 DEF Home!Write, HomeInv, HomeTypes
  <2>3. r.config = x6[s].config /\ r.at # "idle"
    BY <1>1, <2>2
  <2>4. /\ x3' \in Home!Files(Home!Configs) /\ x8' \in Home!Inference \cup {None}
        /\ Home!SavesKept' /\ x3'.is # "whole"
    BY <1>3, WholeFile DEF Home!SavesKept
  <2> HIDE DEF r
  <2> QED
    BY <1>1, <2>1, <2>2, <2>3, <2>4, SaveGoes
<1>4. CASE /\ Home!Saved(s) /\ x3' = Home!Whole(x6[s].config) /\ x8' = x5 /\ x10' = FALSE
           /\ x6' = [x6 EXCEPT ![s] = Home!Idle]
  <2>1. /\ x3' \in Home!Files(Home!Configs) /\ x3'.is = "whole" /\ x3'.content = x6[s].config
    BY <1>1, <1>4, WholeFile
  <2>2. x8' \in Home!Inference \cup {None} /\ Home!SavesKept'
    BY <1>1, <1>4, <2>1 DEF HomeInv, HomeTypes, Home!SavesKept
  <2> QED
    BY <1>1, <1>4, <2>1, <2>2, SaveGoes
<1>5. Home!Write(s) => (\/ UNCHANGED <<x3, x8>> /\ x10' = TRUE /\ x6' = [x6 EXCEPT ![s] = Home!Idle]
                        \/ /\ x3' = Home!Truncated /\ x8' = None /\ x10' = x10
                           /\ x6' = [x6 EXCEPT ![s].at = "writing"])
  BY DEF Home!Write
<1>6. Home!Saved(s) => (\/ UNCHANGED <<x3, x8>> /\ x10' = TRUE /\ x6' = [x6 EXCEPT ![s] = Home!Idle]
                        \/ /\ x3' = Home!Whole(x6[s].config) /\ x8' = x5 /\ x10' = FALSE
                           /\ x6' = [x6 EXCEPT ![s] = Home!Idle])
  BY <1>1 DEF Home!Saved
<1> QED
  BY <1>2, <1>3, <1>4, <1>5, <1>6

\* The user mends files while nothing runs.
LEMMA HomeMends ==
    ASSUME HomeInv, Home!Mend
    PROVE  HomeInv'
<1>1. /\ \A p \in Programs : x4[p].at = "off" /\ x4'[p].at = "off"
      /\ UNCHANGED <<x1, x4, x5, x6, x7, x8, x9, x10>>
      /\ x2' = (IF x2.is = "truncated" THEN Home!Missing ELSE x2)
      /\ x3' = (IF x3.is = "truncated" THEN Home!Missing ELSE x3)
  BY DEF Home!Mend, Home!Off
<1>2. /\ x2' \in Home!Files(Home!Keys) /\ x3' \in Home!Files(Home!Configs)
      /\ x3'.is = "whole" <=> x3.is = "whole"
      /\ x3.is = "whole" => x3' = x3
  BY <1>1, WholeFile DEF HomeInv, HomeTypes
<1>3. HomeTypes'
  BY <1>1, <1>2 DEF HomeInv, HomeTypes
<1>4. HomeIdentity'
  BY <1>1 DEF HomeIdentity, Founding, Identified
<1>5. HomeSaves'
  BY <1>1 DEF HomeInv, HomeSaves, Home!Node, Home!Up, Home!Free
<1>6. Home!SavesKept' /\ Home!FlagsNotSaved'
  BY <1>1, <1>2 DEF HomeInv, Home!SavesKept, Home!FlagsNotSaved
<1>7. Home!NodeAndFileAgree'
  BY <1>1 DEF Home!NodeAndFileAgree, Home!Node, Home!Up
<1> QED
  BY <1>3, <1>4, <1>5, <1>6, <1>7 DEF HomeInv

LEMMA HomeInit ==
    ASSUME Home!Init
    PROVE  HomeInv
<1>1. /\ x1 \in BOOLEAN /\ x2 = Home!Missing /\ x3 = Home!Missing
      /\ x4 = [p \in Programs |-> Home!Off] /\ x5 = Home!DefaultInference
      /\ x6 = [s \in Saves |-> Home!Idle] /\ x7 = 0 /\ x8 = None /\ x9 = FALSE /\ x10 = FALSE
  BY DEF Home!Init
<1>2. \A p \in Programs : x4[p].at = "off"
  BY <1>1 DEF Home!Off
<1>3. HomeTypes
  <2>1. x2 \in Home!Files(Home!Keys) /\ x3 \in Home!Files(Home!Configs)
    BY <1>1, WholeFile
  <2>2. x4 \in [Programs -> {Home!Off} \cup Started]
    BY <1>1
  <2>3. x7 \in 0 .. MaxStarts /\ x5 \in Home!Inference
    BY <1>1, Defaults, HomeConstants
  <2> QED
    BY <1>1, <2>1, <2>2, <2>3 DEF HomeTypes
<1>4. HomeIdentity
  BY <1>2 DEF HomeIdentity, Founding, Identified
<1>5. HomeSaves
  BY <1>1, <1>2 DEF HomeSaves, Home!Node, Home!Up, Home!Free, Home!Idle
<1>6. Home!SavesKept /\ Home!FlagsNotSaved /\ Home!NodeAndFileAgree
  BY <1>1, <1>2, WholeFile
     DEF Home!SavesKept, Home!FlagsNotSaved, Home!NodeAndFileAgree, Home!Node, Home!Up
<1> QED
  BY <1>3, <1>4, <1>5, <1>6 DEF HomeInv

LEMMA HomeStep ==
    ASSUME HomeInv, Home!Next \/ UNCHANGED own
    PROVE  HomeInv'
<1>1. CASE UNCHANGED own
  <2>1. UNCHANGED <<x1, x2, x3, x4, x5, x6, x7, x8, x9, x10>>
    BY <1>1 DEF own
  <2> QED
    BY <2>1
       DEF HomeInv, HomeTypes, HomeIdentity, HomeSaves, Founding, Identified, Home!Free, Home!Node,
           Home!Up, Home!SavesKept, Home!FlagsNotSaved, Home!NodeAndFileAgree
<1>2. CASE Home!Mend
  BY <1>2, HomeMends
<1>3. ASSUME NEW p \in Programs,
             \/ \E kind \in Home!Kinds, flags \in FlagSets \cup {{}} : Home!Start(p, kind, flags)
             \/ Home!ClusterNode(p)
      PROVE  HomeInv'
  <2>1. "serve" \in Home!Kinds /\ {"web"} \in SUBSET {"web", "ollama"}
    BY DEF Home!Kinds
  <2> QED
    BY <1>3, <2>1, HomeStarts, HomeConstants DEF Home!ClusterNode
<1>4. ASSUME NEW p \in Programs,
             \/ Home!Detect(p) \/ Home!Look(p) \/ Home!Name(p) \/ Home!Named(p) \/ Home!Setup(p)
             \/ Home!SetUp(p) \/ Home!LoadConfig(p) \/ Home!Open(p) \/ Home!End(p)
      PROVE  HomeInv'
  BY <1>4, HomeDetects, HomeLooks, HomeNames, HomeSetsUp, HomeConfigures, HomeOpens, HomeEnds
<1>5. ASSUME NEW s \in Saves,
             \/ \E asked \in Asked : Home!Change(s, asked)
             \/ Home!Reload(s) \/ Home!Write(s) \/ Home!Saved(s)
      PROVE  HomeInv'
  BY <1>5, HomeChanges, HomeReloads, HomeWrites
<1> QED
  BY <1>1, <1>2, <1>3, <1>4, <1>5 DEF Home!Next

LEMMA HomeTyped == HomeInv => Home!TypeOK
<1> SUFFICES ASSUME HomeInv PROVE Home!TypeOK
  OBVIOUS
<1>1. \A p \in Programs :
         x4[p] # Home!Off => /\ x4[p].kind \in Home!Kinds /\ x4[p].key \in Home!Keys
                             /\ x4[p].config \in Home!Configs
  BY ProgramAt DEF Started
<1>2. \A s \in Saves : x6[s].at \in {"loaded", "writing"} => x6[s].config \in Home!Configs
  BY DEF HomeInv, HomeSaves
<1> QED
  BY <1>1, <1>2 DEF HomeInv, HomeTypes, Home!TypeOK

LEMMA HomeOne == HomeInv => Home!OneIdentity
BY WholeFile DEF HomeInv, HomeIdentity, Identified, Home!OneIdentity, Home!Up

-------------------------------------------------------------------------------
(* MCP                                                                     *)

LEMMA McpConstants ==
    None \notin Reloads /\ None \notin Calls
BY NodeAssumption DEF Mcp!McpAssumption

\* Calls, answers and pipes: what does not touch configurations and reloads.
LEMMA McpReloadsStay ==
    ASSUME McpReloads, UNCHANGED <<x1, x2, x4, x5>>
    PROVE  McpReloads'
BY DEF McpReloads, Reloading, Mcp!LiveAsConfigured

\* A call that goes on as it is stays known.
LEMMA CallEnds ==
    ASSUME McpInv, NEW c \in Calls,
           Mcp!Send(c) \/ Mcp!Timeout(c)
    PROVE  McpInv'
<1> DEFINE how == x11'[c].step
<1>1. /\ x11' = [x11 EXCEPT ![c].step = how] /\ UNCHANGED <<x1, x2, x4, x5, x9, x10>>
      /\ how \in {"waiting", "failed"} /\ x11[c].step \in {"send", "waiting"}
  <2>1. CASE Mcp!Send(c)
    <3>1. PICK h \in {"waiting", "failed"} : x11' = [x11 EXCEPT ![c].step = h]
      BY <2>1 DEF Mcp!Send, Mcp!Ends
    <3>2. x11[c] \in CallRecords
      BY DEF McpInv, McpTypes
    <3>3. how = h
      BY <3>1, <3>2 DEF McpInv, McpTypes, CallRecords
    <3> QED
      BY <2>1, <3>1, <3>3 DEF Mcp!Send
  <2>2. CASE Mcp!Timeout(c)
    <3>1. x11' = [x11 EXCEPT ![c].step = "failed"]
      BY <2>2 DEF Mcp!Timeout, Mcp!Ends
    <3>2. x11[c] \in CallRecords
      BY DEF McpInv, McpTypes
    <3>3. how = "failed"
      BY <3>1, <3>2 DEF McpInv, McpTypes, CallRecords
    <3> QED
      BY <2>2, <3>1, <3>3 DEF Mcp!Timeout
  <2> QED
    BY <2>1, <2>2
<1> HIDE DEF how
<1>2. /\ x11' \in [Calls -> CallRecords]
      /\ x11'[c].step = how /\ x11'[c].at = x11[c].at /\ x11'[c].id = x11[c].id
      /\ \A d \in Calls : d # c => x11'[d] = x11[d]
  <2>1. x11 \in [Calls -> CallRecords]
    BY DEF McpInv, McpTypes
  <2> QED
    BY <1>1, <2>1 DEF CallRecords
<1>3. /\ \A d \in Calls : x11'[d].at = x11[d].at /\ x11'[d].id = x11[d].id
      /\ \A d \in Calls : x11'[d].step \in {"send", "waiting"} => x11[d].step \in {"send", "waiting"}
  BY <1>1, <1>2
<1>4. McpCalls'
  BY <1>1, <1>3 DEF McpInv, McpCalls, Mcp!WaitingIsPending
<1> QED
  BY <1>1, <1>2, <1>4, McpReloadsStay DEF McpInv, McpTypes

LEMMA CallBegins ==
    ASSUME McpInv, NEW c \in Calls, Mcp!Call(c)
    PROVE  McpInv'
<1> DEFINE n == x9[x2] + 1
<1>1. /\ x2 \in Reloads /\ n \in Nat /\ n > x9[x2] /\ x9[x2] \in Nat /\ x9[x2] > 0
      /\ x9' = [x9 EXCEPT ![x2] = n] /\ x10' = [x10 EXCEPT ![x2] = x10[x2] \cup {n}]
      /\ x11' = [x11 EXCEPT ![c] = [step |-> "send", at |-> x2, id |-> n, got |-> 0]]
      /\ UNCHANGED <<x1, x2, x4, x5>>
  BY DEF Mcp!Call, McpInv, McpTypes
<1> HIDE DEF n
<1>2. /\ x9' \in [Reloads -> Nat] /\ x10' \in [Reloads -> SUBSET Nat]
      /\ x11' \in [Calls -> CallRecords]
  BY <1>1 DEF McpInv, McpTypes, CallRecords
<1>3. /\ x11'[c].step = "send" /\ x11'[c].at = x2 /\ x11'[c].id = n
      /\ \A d \in Calls : d # c => x11'[d] = x11[d]
  BY <1>1 DEF McpInv, McpTypes
<1>4. /\ x9'[x2] = n /\ \A r \in Reloads : r # x2 => x9'[r] = x9[r] /\ x10'[r] = x10[r]
      /\ x10'[x2] = x10[x2] \cup {n}
  BY <1>1 DEF McpInv, McpTypes
<1>5. \A d \in Calls : x11[d].at \in Reloads \cup {None} /\ x11[d].id \in Nat
  BY DEF McpInv, McpTypes, CallRecords
<1>6. \A r \in Reloads : x4'[r].step \notin {"connected", "done"} => x9'[r] = 0
  BY <1>1, <1>4 DEF McpInv, McpCalls
<1>7. /\ \A d \in Calls : x11'[d].step \in {"send", "waiting"} => x11'[d].at # None
      /\ \A d \in Calls : x11'[d].at # None => x11'[d].id <= x9'[x11'[d].at]
  <2> SUFFICES ASSUME NEW d \in Calls
               PROVE  /\ x11'[d].step \in {"send", "waiting"} => x11'[d].at # None
                      /\ x11'[d].at # None => x11'[d].id <= x9'[x11'[d].at]
    OBVIOUS
  <2>1. CASE d = c
    BY <1>1, <1>3, <1>4, <2>1, McpConstants
  <2>2. CASE d # c
    <3>1. x11[d].at # None => x11[d].id <= x9[x11[d].at] /\ x9[x11[d].at] \in Nat
      BY <1>5 DEF McpInv, McpCalls, McpTypes
    <3> QED
      BY <1>1, <1>3, <1>4, <1>5, <2>2, <3>1 DEF McpInv, McpCalls
  <2> QED
    BY <2>1, <2>2
<1>8. ASSUME NEW d \in Calls, x11'[d].step \in {"send", "waiting"}
      PROVE  x11'[d].id \in x10'[x11'[d].at]
  <2>1. CASE d = c
    BY <1>3, <1>4, <2>1
  <2>2. CASE d # c
    <3>1. x11[d].id \in x10[x11[d].at] /\ x11[d].at \in Reloads
      BY <1>3, <1>5, <1>8, <2>2 DEF McpInv, McpCalls, Mcp!WaitingIsPending
    <3> QED
      BY <1>3, <1>4, <2>2, <3>1
  <2> QED
    BY <2>1, <2>2
<1>9. ASSUME NEW d \in Calls, NEW e \in Calls, d # e, x11'[d].at # None, x11'[d].at = x11'[e].at
      PROVE  x11'[d].id # x11'[e].id
  <2>1. \A q \in Calls : x11[q].at = x2 => x11[q].id <= x9[x2]
    BY <1>1, McpConstants DEF McpInv, McpCalls
  <2>2. \A q \in Calls : x11[q].at = x2 => x11[q].id # n
    BY <1>1, <1>5, <2>1
  <2>3. CASE d = c \/ e = c
    BY <1>3, <1>9, <2>2, <2>3
  <2>4. CASE d # c /\ e # c
    BY <1>3, <1>9, <2>4 DEF McpInv, McpCalls, Mcp!WaitingIsPending
  <2> QED
    BY <2>3, <2>4
<1>10. McpCalls'
  BY <1>6, <1>7, <1>8, <1>9 DEF McpCalls, Mcp!WaitingIsPending
<1> QED
  BY <1>1, <1>2, <1>10, McpReloadsStay DEF McpInv, McpTypes

LEMMA LineRead ==
    ASSUME McpInv, NEW s \in Reloads, NEW n \in 1 .. x9[s], Mcp!Line(s, n)
    PROVE  McpInv'
<1> DEFINE Hit(d) == /\ n \in x10[s] /\ x11[d].at = s /\ x11[d].id = n
                     /\ x11[d].step \in {"send", "waiting"}
<1>1. /\ x10' = [x10 EXCEPT ![s] = x10[s] \ {n}]
      /\ x11' = [d \in Calls |-> IF Hit(d) THEN [x11[d] EXCEPT !.got = n, !.step = "answered"] ELSE x11[d]]
      /\ UNCHANGED <<x1, x2, x4, x5, x9>>
  BY DEF Mcp!Line
<1>2. ASSUME NEW d \in Calls
      PROVE  /\ x11'[d] \in CallRecords
             /\ x11'[d].at = x11[d].at /\ x11'[d].id = x11[d].id
             /\ x11'[d].step \in {"send", "waiting"} => x11[d].step \in {"send", "waiting"} /\ ~Hit(d)
  <2>1. x11[d] \in CallRecords /\ n \in Nat
    BY DEF McpInv, McpTypes
  <2>2. CASE Hit(d)
    <3>1. x11'[d] = [x11[d] EXCEPT !.got = n, !.step = "answered"]
      BY <1>1, <2>2
    <3> QED
      BY <2>1, <3>1 DEF CallRecords
  <2>3. CASE ~Hit(d)
    BY <1>1, <2>1, <2>3
  <2> QED
    BY <2>2, <2>3
<1>3. x11' \in [Calls -> CallRecords]
  BY <1>1, <1>2
<1>4. x10' \in [Reloads -> SUBSET Nat] /\ x10'[s] = x10[s] \ {n} /\ \A r \in Reloads : r # s => x10'[r] = x10[r]
  BY <1>1 DEF McpInv, McpTypes
<1>5. ASSUME NEW d \in Calls, x11'[d].step \in {"send", "waiting"}
      PROVE  x11'[d].id \in x10'[x11'[d].at]
  <2>1. /\ x11[d].id \in x10[x11[d].at] /\ x11[d].at \in Reloads
        /\ ~Hit(d) /\ x11'[d].at = x11[d].at /\ x11'[d].id = x11[d].id
        /\ x11[d].step \in {"send", "waiting"}
    BY <1>2, <1>5 DEF McpInv, McpCalls, McpTypes, CallRecords, Mcp!WaitingIsPending
  <2> QED
    BY <1>4, <2>1
<1>6. McpCalls'
  <2>1. \A d \in Calls : x11'[d].at = x11[d].at /\ x11'[d].id = x11[d].id
                         /\ (x11'[d].step \in {"send", "waiting"} => x11[d].step \in {"send", "waiting"})
    BY <1>2
  <2> HIDE DEF Hit
  <2>2. \A r \in Reloads : x4'[r].step \notin {"connected", "done"} => x9'[r] = 0
    BY <1>1 DEF McpInv, McpCalls
  <2>3. /\ \A d \in Calls : x11'[d].step \in {"send", "waiting"} => x11'[d].at # None
        /\ \A d \in Calls : x11'[d].at # None => x11'[d].id <= x9'[x11'[d].at]
    BY <1>1, <2>1 DEF McpInv, McpCalls
  <2>4. Mcp!WaitingIsPending'
    BY <1>5, <2>1 DEF McpInv, McpCalls, Mcp!WaitingIsPending
  <2> QED
    BY <2>2, <2>3, <2>4 DEF McpCalls
<1> QED
  BY <1>1, <1>3, <1>4, <1>6, McpReloadsStay DEF McpInv, McpTypes

\* What a step of a reload does to the records.
LEMMA ReloadMoves ==
    ASSUME McpTypes, NEW r \in Reloads, NEW from, NEW to, Mcp!Step(r, from, to), to \in Mcp!Steps
    PROVE  /\ x4' \in [Reloads -> [step : Mcp!Steps, of : Configurations]]
           /\ x4[r].step = from /\ x4'[r].step = to /\ x4'[r].of = x4[r].of
           /\ \A s \in Reloads : s # r => x4'[s] = x4[s]
<1>1. x4[r] \in [step : Mcp!Steps, of : Configurations]
  BY DEF McpTypes
<1>2. x4' = [x4 EXCEPT ![r] = [x4[r] EXCEPT !.step = to]] /\ x4[r].step = from
  BY DEF Mcp!Step
<1>3. [x4[r] EXCEPT !.step = to] \in [step : Mcp!Steps, of : Configurations]
  BY <1>1
<1> QED
  BY <1>1, <1>2, <1>3 DEF McpTypes

LEMMA McpReload ==
    ASSUME McpInv, NEW r \in Reloads,
           \/ \E enabled \in BOOLEAN : Mcp!PutConfig(r, enabled)
           \/ Mcp!ReadConfig(r) \/ Mcp!TakeOld(r) \/ Mcp!MakeLive(r)
    PROVE  McpInv'
<1>1. ASSUME NEW enabled \in BOOLEAN, Mcp!PutConfig(r, enabled) PROVE McpInv'
  <2>1. /\ Mcp!Step(r, "new", "put") /\ x1' = (IF enabled THEN r ELSE None)
        /\ x5' = (x5 \/ \E s \in Reloads : Reloading(s))
        /\ UNCHANGED <<x2, x9, x10, x11>>
    BY <1>1 DEF Mcp!PutConfig, Reloading
  <2>2. /\ x4' \in [Reloads -> [step : Mcp!Steps, of : Configurations]]
        /\ x4[r].step = "new" /\ x4'[r].step = "put"
        /\ \A s \in Reloads : s # r => x4'[s] = x4[s]
    BY <2>1, ReloadMoves DEF McpInv, Mcp!Steps
  <2>3. McpTypes' /\ McpCalls'
    BY <2>1, <2>2 DEF McpInv, McpTypes, McpCalls, Configurations, Mcp!WaitingIsPending
  <2>4. ~x5' => \A s \in Reloads : Reloading(s)' => s = r
    BY <2>1, <2>2 DEF Reloading
  <2>5. x2 # None => x2 # r /\ x2 \in Reloads
    BY <2>2 DEF McpInv, McpReloads, McpTypes
  <2>6. McpReloads'
    BY <2>1, <2>2, <2>4, <2>5 DEF McpInv, McpReloads, Reloading, Mcp!LiveAsConfigured
  <2> QED
    BY <2>3, <2>6 DEF McpInv
<1>2. CASE Mcp!ReadConfig(r)
  <2>1. /\ x4[r].step = "put" /\ x4' = [x4 EXCEPT ![r] = [step |-> "read", of |-> x1]]
        /\ UNCHANGED <<x1, x2, x5, x9, x10, x11>>
    BY <1>2 DEF Mcp!ReadConfig
  <2>2. /\ x4' \in [Reloads -> [step : Mcp!Steps, of : Configurations]]
        /\ x4'[r].step = "read" /\ x4'[r].of = x1
        /\ \A s \in Reloads : s # r => x4'[s] = x4[s]
    BY <2>1 DEF McpInv, McpTypes, Mcp!Steps
  <2>3. McpTypes' /\ McpCalls'
    BY <2>1, <2>2 DEF McpInv, McpTypes, McpCalls, Mcp!WaitingIsPending
  <2>4. x2 # None => x2 # r /\ x2 \in Reloads
    BY <2>1 DEF McpInv, McpReloads, McpTypes
  <2>5. McpReloads'
    BY <2>1, <2>2, <2>4 DEF McpInv, McpReloads, Reloading, Mcp!LiveAsConfigured
  <2> QED
    BY <2>3, <2>5 DEF McpInv
<1>3. CASE Mcp!TakeOld(r)
  <2> DEFINE to == IF x4[r].of = None THEN "done" ELSE "taken"
  <2>1. /\ Mcp!Step(r, "read", to) /\ x2' = None /\ UNCHANGED <<x1, x5, x9, x10, x11>>
        /\ to \in Mcp!Steps /\ to \in {"done", "taken"} /\ (to = "done" <=> x4[r].of = None)
    BY <1>3 DEF Mcp!TakeOld, Mcp!Steps
  <2> HIDE DEF to
  <2>2. /\ x4' \in [Reloads -> [step : Mcp!Steps, of : Configurations]]
        /\ x4[r].step = "read" /\ x4'[r].step = to /\ x4'[r].of = x4[r].of
        /\ \A s \in Reloads : s # r => x4'[s] = x4[s]
    BY <2>1, ReloadMoves DEF McpInv
  <2>3. McpTypes' /\ McpCalls'
    BY <2>1, <2>2 DEF McpInv, McpTypes, McpCalls, Mcp!WaitingIsPending
  <2>4. Mcp!LiveAsConfigured'
    <3>1. SUFFICES ASSUME ~x5', \A s \in Reloads : x4'[s].step \in {"new", "done"}
                   PROVE  x1' = None
      BY <2>1 DEF Mcp!LiveAsConfigured
    <3> QED
      BY <2>1, <2>2, <3>1 DEF McpInv, McpReloads
  <2>5. McpReloads'
    BY <2>1, <2>2, <2>4 DEF McpInv, McpReloads, Reloading
  <2> QED
    BY <2>3, <2>5 DEF McpInv
<1>4. CASE Mcp!MakeLive(r)
  <2>1. /\ Mcp!Step(r, "connected", "done") /\ x2' = r /\ UNCHANGED <<x1, x5, x9, x10, x11>>
    BY <1>4 DEF Mcp!MakeLive
  <2>2. /\ x4' \in [Reloads -> [step : Mcp!Steps, of : Configurations]]
        /\ x4[r].step = "connected" /\ x4'[r].step = "done" /\ x4'[r].of = x4[r].of
        /\ \A s \in Reloads : s # r => x4'[s] = x4[s]
    BY <2>1, ReloadMoves DEF McpInv, Mcp!Steps
  <2>3. McpTypes' /\ McpCalls'
    BY <2>1, <2>2 DEF McpInv, McpTypes, McpCalls, Mcp!WaitingIsPending
  <2>4. Mcp!LiveAsConfigured'
    <3>1. SUFFICES ASSUME ~x5'
                   PROVE  x1' = x4'[x2'].of
      BY <2>1, McpConstants DEF Mcp!LiveAsConfigured
    <3> QED
      BY <2>1, <2>2, <3>1 DEF McpInv, McpReloads
  <2>5. McpReloads'
    BY <2>1, <2>2, <2>4 DEF McpInv, McpReloads, Reloading
  <2> QED
    BY <2>3, <2>5 DEF McpInv
<1> QED
  BY <1>1, <1>2, <1>3, <1>4

LEMMA McpConnect ==
    ASSUME McpInv, NEW r \in Reloads, Mcp!Connect(r)
    PROVE  McpInv'
<1>1. /\ Mcp!Step(r, "taken", "connected") /\ UNCHANGED <<x1, x2, x5, x10, x11>>
      /\ x9' = x9 \/ x9' = [x9 EXCEPT ![r] = 3]
  BY DEF Mcp!Connect
<1>2. /\ x4' \in [Reloads -> [step : Mcp!Steps, of : Configurations]]
      /\ x4[r].step = "taken" /\ x4'[r].step = "connected" /\ x4'[r].of = x4[r].of
      /\ \A s \in Reloads : s # r => x4'[s] = x4[s]
  BY <1>1, ReloadMoves DEF McpInv, Mcp!Steps
<1>3. x9[r] = 0 /\ x9' \in [Reloads -> Nat] /\ \A s \in Reloads : s # r => x9'[s] = x9[s]
  <2>1. x9 \in [Reloads -> Nat]
    BY DEF McpInv, McpTypes
  <2>2. x9[r] = 0
    BY <1>2 DEF McpInv, McpCalls
  <2> QED
    BY <1>1, <2>1, <2>2
<1>4. McpTypes'
  BY <1>1, <1>2, <1>3 DEF McpInv, McpTypes
<1>5. \A c \in Calls : x11[c].at # None => x11[c].id <= x9'[x11[c].at]
  <2> SUFFICES ASSUME NEW c \in Calls, x11[c].at # None PROVE x11[c].id <= x9'[x11[c].at]
    OBVIOUS
  <2>1. x11[c].at \in Reloads /\ x11[c].id \in Nat /\ x11[c].id <= x9[x11[c].at]
    BY DEF McpInv, McpTypes, McpCalls, CallRecords
  <2> QED
    BY <1>3, <2>1
<1>6. McpCalls'
  BY <1>1, <1>2, <1>3, <1>5 DEF McpInv, McpCalls, Mcp!WaitingIsPending
<1>7. McpReloads'
  <2>1. ~Mcp!LiveAsConfigured' => FALSE
    BY <1>1, <1>2 DEF Mcp!LiveAsConfigured
  <2>2. x2 # None => x2 # r /\ x2 \in Reloads
    BY <1>2 DEF McpInv, McpReloads, McpTypes
  <2> QED
    BY <1>1, <1>2, <2>1, <2>2 DEF McpInv, McpReloads, Reloading
<1> QED
  BY <1>4, <1>6, <1>7 DEF McpInv

LEMMA McpInit ==
    ASSUME Mcp!Init
    PROVE  McpInv
<1>1. PICK first \in Reloads :
        x4 = [r \in Reloads |-> [step |-> IF r = first THEN "put" ELSE "new", of |-> None]]
  BY DEF Mcp!Init
<1>2. /\ x1 \in {"file", None} /\ x2 = None /\ x5 = FALSE /\ x9 = [r \in Reloads |-> 0]
      /\ x10 = [r \in Reloads |-> {}] /\ x11 = [c \in Calls |-> Mcp!New]
  BY DEF Mcp!Init
<1>3. McpTypes
  BY <1>1, <1>2 DEF McpTypes, Configurations, CallRecords, Mcp!New, Mcp!Steps
<1>4. McpCalls
  BY <1>1, <1>2 DEF McpCalls, Mcp!WaitingIsPending, Mcp!New
<1>5. McpReloads
  <2>1. x4[first].step = "put"
    BY <1>1
  <2>2. Mcp!LiveAsConfigured
    BY <2>1 DEF Mcp!LiveAsConfigured
  <2> QED
    BY <1>1, <1>2, <2>2 DEF McpReloads, Reloading
<1> QED
  BY <1>3, <1>4, <1>5 DEF McpInv

LEMMA McpStep ==
    ASSUME McpInv, Mcp!Next \/ UNCHANGED own
    PROVE  McpInv'
<1>1. ASSUME NEW r \in Reloads, Mcp!ServerExits(r) \/ Mcp!WriterStops(r) PROVE McpInv'
  BY <1>1, McpReloadsStay
     DEF Mcp!ServerExits, Mcp!WriterStops, McpInv, McpTypes, McpCalls, Mcp!WaitingIsPending
<1>2. CASE UNCHANGED own
  BY <1>2, McpReloadsStay DEF own, McpInv, McpTypes, McpCalls, Mcp!WaitingIsPending
<1> QED
  BY <1>1, <1>2, CallBegins, CallEnds, LineRead, McpReload, McpConnect DEF Mcp!Next

-------------------------------------------------------------------------------
(* Peers                                                                   *)

LEMMA NetConnects ==
    ASSUME NetInv, NEW p \in Neighbours,
           Net!ConnectionEstablished(p) \/ Net!ConnectionClosed(p)
    PROVE  NetInv'
<1>1. /\ x4 = None /\ x4' \in Net!Events /\ x4'.peer = p /\ x3' = x3
      /\ x1[p] \in Nat /\ x3[p] \in Nat /\ None \notin Net!Events
  BY NodeAssumption
     DEF NetInv, Net!ConnectionEstablished, Net!ConnectionClosed, Net!Events, Net!PeerNetAssumption
<1>2. CASE Net!ConnectionEstablished(p)
  <2>1. /\ x1' = [x1 EXCEPT ![p] = @ + 1] /\ x2' = x2 \cup {p} /\ x4'.type = "PeerConnected"
    BY <1>2 DEF Net!ConnectionEstablished
  <2>2. x1' \in [Neighbours -> Nat] /\ x1'[p] = x1[p] + 1
        /\ \A q \in Neighbours : q # p => x1'[q] = x1[q]
    BY <2>1 DEF NetInv
  <2> QED
    BY <1>1, <2>1, <2>2 DEF NetInv
<1>3. CASE Net!ConnectionClosed(p)
  <2>1. /\ x1' = [x1 EXCEPT ![p] = @ - 1] /\ x2' = x2 \ {p} /\ x4'.type = "PeerDisconnected"
        /\ x1[p] > 0
    BY <1>3 DEF Net!ConnectionClosed
  <2>2. x1' \in [Neighbours -> Nat] /\ \A q \in Neighbours : q # p => x1'[q] = x1[q]
    BY <1>1, <2>1 DEF NetInv
  <2> QED
    BY <1>1, <2>1, <2>2 DEF NetInv
<1> QED
  BY <1>2, <1>3

LEMMA NetShows ==
    ASSUME NetInv, Net!Show
    PROVE  NetInv'
<1>1. /\ x4 \in Net!Events /\ x4.peer \in Neighbours /\ x4' = None /\ UNCHANGED <<x1, x2>>
      /\ x3[x4.peer] \in Nat /\ x1[x4.peer] \in Nat
      /\ x4.type = "PeerConnected" \/ x4.type = "PeerDisconnected"
  BY DEF NetInv, Net!Show, Net!Events
<1>2. x3' = [x3 EXCEPT ![x4.peer] = IF x4.type = "PeerConnected" THEN x3[x4.peer] + 1 ELSE 0]
  BY DEF Net!Show
<1>3. /\ x3' \in [Neighbours -> Nat]
      /\ x3'[x4.peer] = IF x4.type = "PeerConnected" THEN x3[x4.peer] + 1 ELSE 0
      /\ \A q \in Neighbours : q # x4.peer => x3'[q] = x3[q]
  BY <1>1, <1>2 DEF NetInv
<1>4. ASSUME NEW q \in Neighbours
      PROVE  (q \in x2 <=> x3'[q] > 0) /\ x3'[q] <= x1[q]
  <2>1. x3[q] \in Nat /\ x1[q] \in Nat
    BY DEF NetInv
  <2>2. CASE q # x4.peer
    BY <1>1, <1>3, <2>2 DEF NetInv
  <2>3. CASE q = x4.peer
    BY <1>1, <1>3, <2>1, <2>3 DEF NetInv, Net!Show
  <2> QED
    BY <2>2, <2>3
<1> QED
  BY <1>1, <1>3, <1>4 DEF NetInv

LEMMA NetInit ==
    ASSUME Net!Init
    PROVE  NetInv
BY DEF Net!Init, NetInv

LEMMA NetStep ==
    ASSUME NetInv, Net!Next \/ UNCHANGED own
    PROVE  NetInv'
<1>1. CASE UNCHANGED <<x1, x2, x3, x4>>
  BY <1>1 DEF NetInv
<1>2. ASSUME NEW p \in Neighbours, Net!Announce(p) PROVE UNCHANGED <<x1, x2, x3, x4>>
  BY <1>2 DEF Net!Announce
<1>3. UNCHANGED own \/ Net!Dial \/ Net!TakeDials => UNCHANGED <<x1, x2, x3, x4>>
  BY DEF own, Net!Dial, Net!TakeDials
<1>4. ASSUME NEW m \in x7, Net!Gossip(m) \/ Net!Lose(m) PROVE UNCHANGED <<x1, x2, x3, x4>>
  BY <1>4 DEF Net!Gossip, Net!Lose
<1>5. ASSUME NEW q \in Posts, Net!ReadConfig(q) \/ Net!WriteConfig(q)
      PROVE  UNCHANGED <<x1, x2, x3, x4>>
  BY <1>5 DEF Net!ReadConfig, Net!WriteConfig
<1>6. ASSUME NEW t \in A2aTasks,
             \/ Net!CreateTask(t, TRUE) \/ Net!CreateTask(t, FALSE)
             \/ Net!Complete(t) \/ Net!CancelTask(t)
      PROVE  UNCHANGED <<x1, x2, x3, x4>>
  BY <1>6 DEF Net!CreateTask, Net!Complete, Net!CancelTask
<1> QED
  BY <1>1, <1>2, <1>3, <1>4, <1>5, <1>6, NetConnects, NetShows DEF Net!Next

LEMMA NetListsAgree == NetInv => Net!ListsAgree
BY DEF NetInv, Net!ListsAgree

-------------------------------------------------------------------------------
(* Pricing                                                                 *)

\* A table whose last row is given, and each other by the row after it.
Table(m, n, T, last, row) ==
    /\ m \in [1 .. n + 1 -> T] /\ m[n + 1] = last
    /\ \A i \in 1 .. n : m[i] = row[i][m[i + 1]]

LEMMA TableExists ==
    ASSUME NEW n \in Nat, NEW T, NEW last \in T, NEW row \in [1 .. n -> [T -> T]]
    PROVE  \E m : Table(m, n, T, last, row)
<1> DEFINE Upto(m, k) == /\ m \in [1 .. n + 1 -> T] /\ m[n + 1] = last
                         /\ \A i \in 1 .. n : i > n - k => m[i] = row[i][m[i + 1]]
           S == {k \in Nat : k <= n => \E m : Upto(m, k)}
<1>1. 0 \in S
  <2>1. Upto([i \in 1 .. n + 1 |-> last], 0)
    OBVIOUS
  <2> QED
    BY <2>1
<1>2. ASSUME NEW k \in Nat, k \in S PROVE k + 1 \in S
  <2>1. SUFFICES ASSUME k + 1 <= n PROVE \E m : Upto(m, k + 1)
    OBVIOUS
  <2>2. PICK m : Upto(m, k)
    BY <1>2, <2>1
  <2> DEFINE q == n - k
             h == [m EXCEPT ![q] = row[q][m[q + 1]]]
  <2>3. q \in 1 .. n /\ q + 1 \in 1 .. n + 1 /\ q # n + 1
    BY <2>1
  <2>4. row[q][m[q + 1]] \in T
    BY <2>2, <2>3
  <2>5. h \in [1 .. n + 1 -> T] /\ h[n + 1] = last
    BY <2>2, <2>3, <2>4
  <2>6. ASSUME NEW i \in 1 .. n, i > n - (k + 1) PROVE h[i] = row[i][h[i + 1]]
    <3>1. i + 1 # q /\ i + 1 \in 1 .. n + 1 /\ (i = q \/ i > n - k)
      BY <2>6
    <3>2. h[i + 1] = m[i + 1]
      BY <2>2, <3>1
    <3>3. CASE i = q
      <4>1. h[q] = row[q][m[q + 1]]
        BY <2>2, <2>3
      <4> HIDE DEF h, q
      <4> QED
        BY <3>2, <3>3, <4>1
    <3>4. CASE i # q
      <4>1. m[i] = row[i][m[i + 1]]
        BY <2>2, <3>1, <3>4
      <4>2. h[i] = m[i]
        BY <2>2, <3>4
      <4> HIDE DEF h
      <4> QED
        BY <3>2, <4>1, <4>2
    <3> QED
      BY <3>3, <3>4
  <2>7. Upto(h, k + 1)
    BY <2>5, <2>6
  <2> QED
    BY <2>7
<1>3. n \in S
  <2> HIDE DEF S
  <2> QED
    BY <1>1, <1>2, SetInduction
<1> QED
  BY <1>3 DEF Table

\* A property of rows that each row has if the next one has it.
LEMMA DownInduction ==
    ASSUME NEW n \in Nat, NEW S, n + 1 \in S, \A i \in 1 .. n : i + 1 \in S => i \in S
    PROVE  \A i \in 1 .. n + 1 : i \in S
<1> DEFINE T == {k \in Nat : k <= n => n + 1 - k \in S}
<1>1. 0 \in T
  OBVIOUS
<1>2. ASSUME NEW k \in Nat, k \in T PROVE k + 1 \in T
  <2>1. SUFFICES ASSUME k + 1 <= n PROVE n + 1 - (k + 1) \in S
    OBVIOUS
  <2>2. n - k \in 1 .. n /\ (n - k) + 1 = n + 1 - k /\ n + 1 - (k + 1) = n - k
    BY <2>1
  <2> QED
    BY <1>2, <2>1, <2>2
<1>3. \A k \in Nat : k \in T
  <2> HIDE DEF T
  <2> QED
    BY <1>1, <1>2, SetInduction
<1> SUFFICES ASSUME NEW i \in 1 .. n + 1 PROVE i \in S
  OBVIOUS
<1>4. n + 1 - i \in Nat /\ n + 1 - i <= n /\ n + 1 - (n + 1 - i) = i
  OBVIOUS
<1> QED
  BY <1>3, <1>4

\* The table of what the wildcards mean, ...
MeansTable(m, p, a) ==
    m = [i \in 1 .. (Len(p) + 1) |-> [j \in 1 .. (Len(a) + 1) |->
            IF i > Len(p) THEN j > Len(a)
            ELSE IF p[i] = "**" THEN \E k \in j .. (Len(a) + 1) : m[i + 1][k]
            ELSE j <= Len(a) /\ p[i] \in {"*", a[j]} /\ m[i + 1][j + 1]]]

LEMMA MeansTableExists ==
    ASSUME NEW p, NEW a, Proxy!Sequence(p), Proxy!Sequence(a)
    PROVE  \E m : MeansTable(m, p, a)
<1> DEFINE pn == Len(p)
           an == Len(a)
           Rows == [1 .. an + 1 -> BOOLEAN]
           end == [j \in 1 .. an + 1 |-> j > an]
           before == [i \in 1 .. pn |-> [next \in Rows |-> [j \in 1 .. an + 1 |->
                     IF p[i] = "**" THEN \E k \in j .. (an + 1) : next[k]
                     ELSE j <= an /\ p[i] \in {"*", a[j]} /\ next[j + 1]]]]
<1>1. pn \in Nat /\ an \in Nat
  BY DEF Proxy!Sequence
<1>2. end \in Rows
  OBVIOUS
<1>3. before \in [1 .. pn -> [Rows -> Rows]]
  OBVIOUS
<1>4. PICK m : Table(m, pn, Rows, end, before)
  <2> HIDE DEF Rows, end, before, pn
  <2> QED
    BY <1>1, <1>2, <1>3, TableExists
<1>5. ASSUME NEW i \in 1 .. pn + 1
      PROVE  m[i] = [j \in 1 .. an + 1 |->
            IF i > pn THEN j > an
            ELSE IF p[i] = "**" THEN \E k \in j .. (an + 1) : m[i + 1][k]
            ELSE j <= an /\ p[i] \in {"*", a[j]} /\ m[i + 1][j + 1]]
  <2>1. CASE i = pn + 1
    <3>1. i > pn
      BY <1>1, <2>1
    <3> QED
      BY <1>4, <2>1, <3>1 DEF Table
  <2>2. CASE i # pn + 1
    <3>1. i \in 1 .. pn /\ ~(i > pn) /\ i + 1 \in 1 .. pn + 1
      BY <1>1, <2>2
    <3>2. m[i + 1] \in Rows /\ m[i] = before[i][m[i + 1]]
      BY <1>4, <3>1 DEF Table
    <3> QED
      BY <3>1, <3>2
  <2> QED
    BY <2>1, <2>2
<1>6. MeansTable(m, p, a)
  <2>1. m = [i \in 1 .. pn + 1 |-> m[i]]
    BY <1>4 DEF Table
  <2> QED
    BY <1>5, <2>1, Zenon DEF MeansTable
<1> QED
  BY <1>6

LEMMA MeansByTable ==
    ASSUME NEW p, NEW a, Proxy!Sequence(p), Proxy!Sequence(a)
    PROVE  \E m : MeansTable(m, p, a) /\ Proxy!Means(p, a) = m[1][1]
<1> DEFINE m == CHOOSE m : MeansTable(m, p, a)
<1>1. MeansTable(m, p, a)
  BY MeansTableExists
<1>2. Proxy!Means(p, a) = m[1][1]
  BY Zenon DEF MeansTable, Proxy!Means
<1> QED
  BY <1>1, <1>2

\* ... and the table of the matcher, with where its search ends.
Hits(p, a, i, j) == {k \in j .. Len(a) : p[i] \in {"*", a[k]}}
SearchEnd(p, a, i, j) ==
    IF Hits(p, a, i, j) = {} THEN Len(a) + 1
    ELSE CHOOSE k \in Hits(p, a, i, j) : \A l \in Hits(p, a, i, j) : k <= l

MatchTable(g, p, a) ==
    g = [i \in 1 .. (Len(p) + 1) |-> [j \in 1 .. (Len(a) + 1) |->
            IF i > Len(p) \/ j > Len(a) THEN i > Len(p) /\ j > Len(a)
            ELSE IF p[i] = "**" THEN i = Len(p) \/ g[i + 1][SearchEnd(p, a, i + 1, j)]
            ELSE p[i] \in {"*", a[j]} /\ g[i + 1][j + 1]]]

\* A search goes forward, to the end at most.
LEMMA SearchGoesOn ==
    ASSUME NEW p, NEW a, Proxy!Sequence(a), NEW i, NEW j \in 1 .. Len(a) + 1
    PROVE  SearchEnd(p, a, i, j) \in j .. Len(a) + 1
<1>1. Len(a) \in Nat
  BY DEF Proxy!Sequence
<1>2. CASE Hits(p, a, i, j) = {}
  BY <1>1, <1>2 DEF SearchEnd
<1>3. CASE Hits(p, a, i, j) # {}
  <2>1. Hits(p, a, i, j) \subseteq Nat
    BY <1>1 DEF Hits
  <2>2. \E k \in Hits(p, a, i, j) : \A l \in Hits(p, a, i, j) : k <= l
    BY <1>3, <2>1, LeastElement
  <2>3. SearchEnd(p, a, i, j) \in Hits(p, a, i, j)
    BY <1>3, <2>2 DEF SearchEnd
  <2> QED
    BY <1>1, <2>3 DEF Hits
<1> QED
  BY <1>2, <1>3

LEMMA MatchTableExists ==
    ASSUME NEW p, NEW a, Proxy!Sequence(p), Proxy!Sequence(a)
    PROVE  \E g : MatchTable(g, p, a)
<1> DEFINE pn == Len(p)
           an == Len(a)
           Rows == [1 .. an + 1 -> BOOLEAN]
           end == [j \in 1 .. an + 1 |-> j > an]
           before == [i \in 1 .. pn |-> [next \in Rows |-> [j \in 1 .. an + 1 |->
                       IF j > an THEN FALSE
                       ELSE IF p[i] = "**" THEN i = pn \/ next[SearchEnd(p, a, i + 1, j)]
                       ELSE p[i] \in {"*", a[j]} /\ next[j + 1]]]]
<1>1. pn \in Nat /\ an \in Nat
  BY DEF Proxy!Sequence
<1>2. end \in Rows
  OBVIOUS
<1>3. before \in [1 .. pn -> [Rows -> Rows]]
  OBVIOUS
<1>4. PICK g : Table(g, pn, Rows, end, before)
  <2> HIDE DEF Rows, end, before, pn
  <2> QED
    BY <1>1, <1>2, <1>3, TableExists
<1>5. ASSUME NEW i \in 1 .. pn + 1
      PROVE  g[i] = [j \in 1 .. an + 1 |->
            IF i > pn \/ j > an THEN i > pn /\ j > an
            ELSE IF p[i] = "**" THEN i = pn \/ g[i + 1][SearchEnd(p, a, i + 1, j)]
            ELSE p[i] \in {"*", a[j]} /\ g[i + 1][j + 1]]
  <2>1. CASE i = pn + 1
    <3>1. i > pn
      BY <1>1, <2>1
    <3> QED
      BY <1>4, <2>1, <3>1 DEF Table
  <2>2. CASE i # pn + 1
    <3>1. i \in 1 .. pn /\ ~(i > pn) /\ i + 1 \in 1 .. pn + 1
      BY <1>1, <2>2
    <3>2. g[i + 1] \in Rows /\ g[i] = before[i][g[i + 1]]
      BY <1>4, <3>1 DEF Table
    <3> QED
      BY <3>1, <3>2
  <2> QED
    BY <2>1, <2>2
<1>6. MatchTable(g, p, a)
  <2>1. g = [i \in 1 .. pn + 1 |-> g[i]]
    BY <1>4 DEF Table
  <2> QED
    BY <1>5, <2>1, Zenon DEF MatchTable
<1> QED
  BY <1>6

LEMMA MatchesByTable ==
    ASSUME NEW p, NEW a, Proxy!Sequence(p), Proxy!Sequence(a)
    PROVE  \E g : /\ MatchTable(g, p, a)
                  /\ Proxy!Matches(p, a) <=> p = a \/ p = <<"**">> \/ g[1][1]
<1> DEFINE g == CHOOSE g : MatchTable(g, p, a)
<1>1. MatchTable(g, p, a)
  BY MatchTableExists
<1>2. Proxy!Matches(p, a) <=> p = a \/ p = <<"**">> \/ g[1][1]
  BY Zenon DEF MatchTable, SearchEnd, Hits, Proxy!Matches
<1> QED
  BY <1>1, <1>2

\* What a table holds at one place.
LEMMA MeansAt ==
    ASSUME NEW m, NEW p, NEW a, MeansTable(m, p, a),
           NEW i \in 1 .. Len(p) + 1, NEW j \in 1 .. Len(a) + 1
    PROVE  /\ (i > Len(p) /\ j > Len(a)) => m[i][j]
           /\ (/\ ~(i > Len(p)) /\ p[i] = "**"
               /\ \E k \in j .. (Len(a) + 1) : m[i + 1][k]) => m[i][j]
           /\ (/\ ~(i > Len(p)) /\ j <= Len(a) /\ p[i] # "**"
               /\ p[i] \in {"*", a[j]} /\ m[i + 1][j + 1]) => m[i][j]
<1>1. m[i] = [c \in 1 .. (Len(a) + 1) |->
                IF i > Len(p) THEN c > Len(a)
                ELSE IF p[i] = "**" THEN \E k \in c .. (Len(a) + 1) : m[i + 1][k]
                ELSE c <= Len(a) /\ p[i] \in {"*", a[c]} /\ m[i + 1][c + 1]]
  BY DEF MeansTable
<1>2. m[i][j] = IF i > Len(p) THEN j > Len(a)
                ELSE IF p[i] = "**" THEN \E k \in j .. (Len(a) + 1) : m[i + 1][k]
                ELSE j <= Len(a) /\ p[i] \in {"*", a[j]} /\ m[i + 1][j + 1]
  BY <1>1
<1> QED
  BY <1>2

LEMMA MatchAt ==
    ASSUME NEW g, NEW p, NEW a, MatchTable(g, p, a),
           NEW i \in 1 .. Len(p) + 1, NEW j \in 1 .. Len(a) + 1, g[i][j]
    PROVE  /\ i > Len(p) <=> j > Len(a)
           /\ ~(i > Len(p)) /\ p[i] = "**" => i = Len(p) \/ g[i + 1][SearchEnd(p, a, i + 1, j)]
           /\ ~(i > Len(p)) /\ p[i] # "**" => p[i] \in {"*", a[j]} /\ g[i + 1][j + 1]
<1>1. g[i] = [c \in 1 .. (Len(a) + 1) |->
                IF i > Len(p) \/ c > Len(a) THEN i > Len(p) /\ c > Len(a)
                ELSE IF p[i] = "**" THEN i = Len(p) \/ g[i + 1][SearchEnd(p, a, i + 1, c)]
                ELSE p[i] \in {"*", a[c]} /\ g[i + 1][c + 1]]
  BY DEF MatchTable
<1>2. g[i][j] = IF i > Len(p) \/ j > Len(a) THEN i > Len(p) /\ j > Len(a)
                ELSE IF p[i] = "**" THEN i = Len(p) \/ g[i + 1][SearchEnd(p, a, i + 1, j)]
                ELSE p[i] \in {"*", a[j]} /\ g[i + 1][j + 1]
  BY <1>1
<1> QED
  BY <1>2

\* What the matcher finds the wildcards mean, ...
LEMMA FoundIsMeant ==
    ASSUME NEW p, NEW a, Proxy!Sequence(p), Proxy!Sequence(a),
           NEW m, NEW g, MeansTable(m, p, a), MatchTable(g, p, a)
    PROVE  g[1][1] => m[1][1]
<1> DEFINE pn == Len(p)
           an == Len(a)
           S == {i \in 1 .. pn + 1 : \A j \in 1 .. an + 1 : g[i][j] => m[i][j]}
<1>1. pn \in Nat /\ an \in Nat
  BY DEF Proxy!Sequence
<1>2. ASSUME NEW i \in 1 .. pn + 1, NEW j \in 1 .. an + 1
      PROVE  /\ (i > pn /\ j > an) => m[i][j]
             /\ (/\ ~(i > pn) /\ p[i] = "**"
                 /\ \E k \in j .. (an + 1) : m[i + 1][k]) => m[i][j]
             /\ (/\ ~(i > pn) /\ j <= an /\ p[i] # "**"
                 /\ p[i] \in {"*", a[j]} /\ m[i + 1][j + 1]) => m[i][j]
  BY MeansAt, Zenon
<1>6. ASSUME NEW i \in 1 .. pn + 1, NEW j \in 1 .. an + 1, g[i][j]
      PROVE  /\ i > pn <=> j > an
             /\ ~(i > pn) /\ p[i] = "**" => i = pn \/ g[i + 1][SearchEnd(p, a, i + 1, j)]
             /\ ~(i > pn) /\ p[i] # "**" => p[i] \in {"*", a[j]} /\ g[i + 1][j + 1]
  BY <1>6, MatchAt, Zenon
<1>3. pn + 1 \in S
  BY <1>1, <1>2, <1>6
<1>4. ASSUME NEW i \in 1 .. pn, i + 1 \in S PROVE i \in S
  <2> SUFFICES ASSUME NEW j \in 1 .. an + 1, g[i][j] PROVE m[i][j]
    BY <1>1
  <2>1. i \in 1 .. pn + 1 /\ i + 1 \in 1 .. pn + 1 /\ ~(i > pn)
    BY <1>1
  <2>2. j <= an
    BY <1>1, <1>6, <2>1
  <2>3. CASE p[i] = "**" /\ i = pn
    <3>1. m[pn + 1][an + 1]
      <4>1. pn + 1 \in 1 .. pn + 1 /\ an + 1 \in 1 .. an + 1 /\ pn + 1 > pn /\ an + 1 > an
        BY <1>1
      <4> QED
        BY <1>2, <4>1, Zenon
    <3>2. an + 1 \in j .. an + 1
      BY <1>1
    <3> QED
      BY <1>2, <2>1, <2>3, <3>1, <3>2
  <2>4. CASE p[i] = "**" /\ i # pn
    <3> DEFINE k == SearchEnd(p, a, i + 1, j)
    <3>1. k \in j .. an + 1 /\ k \in 1 .. an + 1
      BY <1>1, SearchGoesOn
    <3>2. g[i + 1][k]
      BY <1>1, <1>6, <2>1, <2>4
    <3> HIDE DEF k
    <3>3. m[i + 1][k]
      BY <1>4, <3>1, <3>2
    <3> QED
      BY <1>2, <2>1, <2>4, <3>1, <3>3
  <2>5. CASE p[i] # "**"
    <3>1. p[i] \in {"*", a[j]} /\ g[i + 1][j + 1] /\ j + 1 \in 1 .. an + 1
      BY <1>1, <1>6, <2>1, <2>2, <2>5
    <3>2. m[i + 1][j + 1]
      BY <1>4, <3>1
    <3> QED
      BY <1>2, <2>1, <2>2, <2>5, <3>1, <3>2
  <2> QED
    BY <2>3, <2>4, <2>5
<1>5. 1 \in S
  <2> HIDE DEF S, pn
  <2>1. \A i \in 1 .. pn + 1 : i \in S
    BY <1>1, <1>3, <1>4, DownInduction
  <2> QED
    BY <1>1, <2>1
<1> QED
  BY <1>1, <1>5

\* ... and so is a pattern that is its path letter by letter.
LEMMA SameIsMeant ==
    ASSUME NEW a, Proxy!Sequence(a), NEW m, MeansTable(m, a, a)
    PROVE  m[1][1]
<1> DEFINE n == Len(a)
           S == {i \in 1 .. n + 1 : m[i][i]}
<1>1. n \in Nat
  BY DEF Proxy!Sequence
<1>2. ASSUME NEW i \in 1 .. n + 1
      PROVE  /\ (i > n /\ i > n) => m[i][i]
             /\ (/\ ~(i > n) /\ a[i] = "**"
                 /\ \E k \in i .. (n + 1) : m[i + 1][k]) => m[i][i]
             /\ (/\ ~(i > n) /\ i <= n /\ a[i] # "**"
                 /\ a[i] \in {"*", a[i]} /\ m[i + 1][i + 1]) => m[i][i]
  BY MeansAt, Zenon
<1>3. n + 1 \in S
  BY <1>1, <1>2
<1>4. ASSUME NEW i \in 1 .. n, i + 1 \in S PROVE i \in S
  <2>1. i \in 1 .. n + 1 /\ i + 1 \in i .. n + 1 /\ ~(i > n) /\ i <= n /\ m[i + 1][i + 1]
    BY <1>1, <1>4
  <2> QED
    BY <1>2, <2>1
<1>5. 1 \in S
  <2> HIDE DEF S, n
  <2>1. \A i \in 1 .. n + 1 : i \in S
    BY <1>1, <1>3, <1>4, DownInduction
  <2> QED
    BY <1>1, <2>1
<1> QED
  BY <1>5

LEMMA MatchIsMeant ==
    ASSUME NEW p, NEW a, Proxy!Sequence(p), Proxy!Sequence(a), Proxy!Matches(p, a)
    PROVE  Proxy!Means(p, a)
<1>1. PICK m : MeansTable(m, p, a) /\ Proxy!Means(p, a) = m[1][1]
  BY MeansByTable
<1>2. PICK g : MatchTable(g, p, a) /\ (Proxy!Matches(p, a) <=> p = a \/ p = <<"**">> \/ g[1][1])
  BY MatchesByTable
<1>3. CASE g[1][1]
  BY <1>1, <1>2, <1>3, FoundIsMeant
<1>4. CASE p = a
  BY <1>1, <1>4, SameIsMeant
<1>5. CASE p = <<"**">>
  <2>1. Len(p) = 1 /\ p[1] = "**" /\ Len(a) \in Nat
    BY <1>5 DEF Proxy!Sequence
  <2>2. /\ 1 \in 1 .. Len(p) + 1 /\ 2 \in 1 .. Len(p) + 1 /\ 2 > Len(p) /\ ~(1 > Len(p)) /\ 1 + 1 = 2
        /\ 1 \in 1 .. Len(a) + 1 /\ Len(a) + 1 \in 1 .. Len(a) + 1 /\ Len(a) + 1 > Len(a)
    BY <2>1
  <2>3. /\ \A i \in 1 .. Len(p) + 1, j \in 1 .. Len(a) + 1 : (i > Len(p) /\ j > Len(a)) => m[i][j]
        /\ \A i \in 1 .. Len(p) + 1, j \in 1 .. Len(a) + 1 :
             (/\ ~(i > Len(p)) /\ p[i] = "**"
              /\ \E k \in j .. (Len(a) + 1) : m[i + 1][k]) => m[i][j]
    <3>1. MeansTable(m, p, a)
      BY <1>1
    <3>2. ASSUME NEW i \in 1 .. Len(p) + 1, NEW j \in 1 .. Len(a) + 1
          PROVE  /\ (i > Len(p) /\ j > Len(a)) => m[i][j]
                 /\ (/\ ~(i > Len(p)) /\ p[i] = "**"
                     /\ \E k \in j .. (Len(a) + 1) : m[i + 1][k]) => m[i][j]
      BY <3>1, MeansAt, Zenon
    <3> QED
      BY <3>2, Zenon
  <2>4. m[2][Len(a) + 1]
    BY <2>2, <2>3
  <2>5. m[1][1]
    BY <2>1, <2>2, <2>3, <2>4
  <2> QED
    BY <1>1, <2>5
<1> QED
  BY <1>2, <1>3, <1>4, <1>5

-------------------------------------------------------------------------------
(* The metered proxy                                                       *)

LEMMA ProxyConstants ==
    /\ IsFiniteSet(Handlers) /\ Handlers # {}
    /\ Cardinality(Handlers) \in Nat /\ Cardinality(Handlers) >= 1
    /\ MaxMinutes \in Nat /\ MinutesInHour \in Nat /\ MinutesInHour > 0
    /\ FreeLimit \in Nat /\ FreeLimit > 0 /\ RateLimit \in Nat /\ RateLimit > 0
    /\ None \notin Proxy!Taken /\ None \notin Proxy!Entries
<1>1. /\ Proxy!IsFiniteSet(Handlers) /\ Handlers # {}
      /\ MaxMinutes \in Nat /\ MinutesInHour \in Nat \ {0}
      /\ FreeLimit \in Nat \ {0} /\ RateLimit \in Nat \ {0}
      /\ None \notin Proxy!Taken /\ None \notin Proxy!Entries
  BY NodeAssumption DEF Proxy!ProxyAssumption
<1>2. IsFiniteSet(Handlers)
  <2>1. Proxy!IsFiniteSet(Handlers) <=> IsFiniteSet(Handlers)
    BY Zenon DEF Proxy!IsFiniteSet, IsFiniteSet
  <2> QED
    BY <1>1, <2>1
<1>3. Cardinality(Handlers) \in Nat /\ Cardinality(Handlers) # 0
  BY <1>1, <1>2, FS_CardinalityType, FS_EmptySet
<1> QED
  BY <1>1, <1>2, <1>3

LEMMA SomeHandlers ==
    ASSUME NEW S, S \subseteq Handlers
    PROVE  /\ IsFiniteSet(S) /\ Cardinality(S) \in Nat
           /\ Cardinality(S) <= Cardinality(Handlers)
           /\ S # Handlers => Cardinality(S) <= Cardinality(Handlers) - 1
<1>1. IsFiniteSet(S) /\ Cardinality(S) <= Cardinality(Handlers)
      /\ (Cardinality(S) = Cardinality(Handlers) => S = Handlers)
  BY ProxyConstants, FS_Subset
<1>2. Cardinality(S) \in Nat
  BY <1>1, FS_CardinalityType
<1> QED
  BY <1>1, <1>2, ProxyConstants

\* A handler that looks and finds room is one more before its count, ...
LEMMA MeterLooks ==
    ASSUME NEW P, NEW count \in [P -> Nat], NEW now \in P, NEW limit \in Nat,
           NEW entry \in Proxy!Entries \cup {None}, NEW inside, inside \subseteq Handlers,
           NEW r \in Handlers, r \notin inside,
           Metered(count, entry, now, limit, inside), Proxy!Within(entry, now, limit), limit > 0
    PROVE  Metered(count, entry, now, limit, inside \cup {r})
<1>1. IsFiniteSet(inside) /\ Cardinality(inside) \in Nat
      /\ Cardinality(inside) <= Cardinality(Handlers) - 1
  BY SomeHandlers
<1>2. Cardinality(inside \cup {r}) = Cardinality(inside) + 1
  BY <1>1, FS_AddElement
<1>3. count[now] < limit /\ count[now] \in Nat
  BY DEF Metered, CountIn, Proxy!Within
<1>4. count[now] + Cardinality(inside \cup {r}) <= limit + Cardinality(Handlers) - 1
  BY <1>1, <1>2, <1>3, ProxyConstants
<1> QED
  BY <1>4 DEF Metered

\* ... one that leaves is one less, ...
LEMMA MeterLeaves ==
    ASSUME NEW P, NEW count \in [P -> Nat], NEW now \in P, NEW limit \in Nat, NEW entry,
           NEW inside, inside \subseteq Handlers, NEW fewer, fewer \subseteq inside,
           Metered(count, entry, now, limit, inside)
    PROVE  Metered(count, entry, now, limit, fewer)
<1>1. IsFiniteSet(inside) /\ Cardinality(inside) \in Nat /\ Cardinality(fewer) \in Nat
  BY SomeHandlers
<1>2. Cardinality(fewer) <= Cardinality(inside)
  BY <1>1, FS_Subset
<1>3. count[now] + Cardinality(fewer) <= limit + Cardinality(Handlers) - 1
  BY <1>1, <1>2, ProxyConstants DEF Metered
<1> QED
  BY <1>3 DEF Metered

\* ... its count takes its place, ...
LEMMA MeterCounts ==
    ASSUME NEW P, NEW count \in [P -> Nat], NEW now \in P, P \subseteq Nat, NEW limit \in Nat,
           NEW entry \in Proxy!Entries \cup {None}, NEW inside, inside \subseteq Handlers,
           NEW r \in inside, Metered(count, entry, now, limit, inside)
    PROVE  /\ Metered([count EXCEPT ![now] = @ + 1], Proxy!Counted(entry, now), now, limit, inside \ {r})
           /\ Proxy!Counted(entry, now) \in Proxy!Entries
           /\ [count EXCEPT ![now] = @ + 1] \in [P -> Nat]
<1> DEFINE next == [count EXCEPT ![now] = @ + 1]
           new == Proxy!Counted(entry, now)
<1>1. IsFiniteSet(inside) /\ Cardinality(inside) \in Nat
  BY SomeHandlers
<1>2. Cardinality(inside \ {r}) = Cardinality(inside) - 1
  BY <1>1, FS_RemoveElement
<1>3. /\ next \in [P -> Nat] /\ next[now] = count[now] + 1 /\ count[now] \in Nat
      /\ \A p \in P : p # now => next[p] = count[p]
  OBVIOUS
<1>4. count[now] = CountIn(entry, now)
  BY DEF Metered
<1>5. /\ new = [period |-> now, count |-> CountIn(entry, now) + 1]
      /\ new \in Proxy!Entries
  <2>1. now \in Nat
    OBVIOUS
  <2>2. new = [period |-> now, count |-> CountIn(entry, now) + 1]
    BY DEF Proxy!Counted, CountIn
  <2> QED
    BY <1>3, <1>4, <2>1, <2>2 DEF Proxy!Entries
<1>6. new # None /\ new.period = now /\ new.count = count[now] + 1
  BY <1>4, <1>5, ProxyConstants
<1> HIDE DEF next, new
<1>7. next[now] = CountIn(new, now)
  BY <1>3, <1>6 DEF CountIn
<1>8. /\ next[now] + Cardinality(inside \ {r}) <= limit + Cardinality(Handlers) - 1
      /\ now <= now
  BY <1>1, <1>2, <1>3, ProxyConstants DEF Metered
<1>9. \A p \in DOMAIN next : /\ p > now => next[p] = 0
                             /\ p < now => next[p] <= limit + Cardinality(Handlers) - 1
  <2> SUFFICES ASSUME NEW p \in P PROVE /\ p > now => next[p] = 0
                                        /\ p < now => next[p] <= limit + Cardinality(Handlers) - 1
    BY <1>3
  <2>1. p \in Nat /\ now \in Nat /\ DOMAIN count = P
    OBVIOUS
  <2> QED
    BY <1>3, <2>1 DEF Metered
<1>10. Metered(next, new, now, limit, inside \ {r})
  BY <1>6, <1>7, <1>8, <1>9 DEF Metered
<1> QED
  BY <1>3, <1>5, <1>10 DEF next, new

\* ... and a new period begins with the handlers of the old one.
LEMMA MeterTurns ==
    ASSUME NEW P, NEW count \in [P -> Nat], NEW now \in P, P \subseteq Nat, NEW limit \in Nat,
           NEW entry \in Proxy!Entries \cup {None}, NEW inside, inside \subseteq Handlers,
           NEW later \in P, later >= now, limit > 0,
           \A p \in P : p > now => p >= later,
           Metered(count, entry, now, limit, inside)
    PROVE  Metered(count, entry, later, limit, inside)
<1>1. CASE later = now
  BY <1>1
<1>2. CASE later # now
  <2>1. later > now /\ now \in Nat /\ later \in Nat /\ DOMAIN count = P
    BY <1>2
  <2>2. entry # None => entry.period \in Nat /\ entry.period <= now
    BY DEF Metered, Proxy!Entries
  <2>3. (entry # None => entry.period <= later) /\ CountIn(entry, later) = 0
    BY <2>1, <2>2 DEF CountIn
  <2>4. count[later] = 0
    BY <2>1 DEF Metered
  <2>5. Cardinality(inside) \in Nat /\ Cardinality(inside) <= Cardinality(Handlers)
    BY SomeHandlers
  <2>6. count[later] + Cardinality(inside) <= limit + Cardinality(Handlers) - 1
    BY <2>4, <2>5, ProxyConstants
  <2>7. count[now] <= limit + Cardinality(Handlers) - 1
    BY <2>5, ProxyConstants DEF Metered
  <2>8. ASSUME NEW p \in P
        PROVE  /\ p > later => count[p] = 0
               /\ p < later => count[p] <= limit + Cardinality(Handlers) - 1
    <3>1. p \in Nat /\ (p > later => p > now) /\ (p < later => p < now \/ p = now)
      BY <2>1
    <3> QED
      BY <2>1, <2>7, <3>1 DEF Metered
  <2> QED
    BY <2>1, <2>3, <2>4, <2>6, <2>8 DEF Metered
<1> QED
  BY <1>1, <1>2

\* Hours follow minutes.
LEMMA HourFollows ==
    ASSUME NEW m \in 0 .. MaxMinutes
    PROVE  /\ m \div MinutesInHour \in Hours /\ Hours \subseteq Nat
           /\ m < MaxMinutes => /\ (m + 1) \div MinutesInHour >= m \div MinutesInHour
                                /\ (m + 1) \div MinutesInHour <= m \div MinutesInHour + 1
BY ProxyConstants DEF Hours

LEMMA ProxySets ==
    ASSUME ProxyInv
    PROVE  /\ Proxy!Hour \in Hours /\ Hours \subseteq Nat /\ 0 .. MaxMinutes \subseteq Nat
           /\ Inside \subseteq Handlers /\ AtFree \subseteq Inside
BY HourFollows DEF ProxyInv, ProxyTypes, Proxy!Hour, Inside, AtFree

\* What happens to one handler happens to no other.
LEMMA HandlerMoves ==
    ASSUME ProxyTypes, NEW r \in Handlers, NEW t \in Proxy!Taken \cup {None},
           x2' = [x2 EXCEPT ![r] = t]
    PROVE  /\ x2' \in [Handlers -> Proxy!Taken \cup {None}]
           /\ Inside' = IF t = None THEN Inside \ {r} ELSE Inside \cup {r}
           /\ AtFree' = IF t # None /\ t.stage = "free" THEN AtFree \cup {r} ELSE AtFree \ {r}
<1>1. x2'[r] = t /\ \A q \in Handlers : q # r => x2'[q] = x2[q]
  BY DEF ProxyTypes
<1>2. x2' \in [Handlers -> Proxy!Taken \cup {None}]
  BY DEF ProxyTypes
<1>3. Inside' = IF t = None THEN Inside \ {r} ELSE Inside \cup {r}
  BY <1>1 DEF Inside
<1>4. AtFree' = IF t # None /\ t.stage = "free" THEN AtFree \cup {r} ELSE AtFree \ {r}
  BY <1>1 DEF AtFree
<1> QED
  BY <1>2, <1>3, <1>4

LEMMA StageMoves ==
    ASSUME ProxyTypes, NEW r \in Handlers, x2[r] # None,
           NEW s \in {"priced", "free", "paid"}, Proxy!Stage(r, s)
    PROVE  /\ x2' \in [Handlers -> Proxy!Taken \cup {None}]
           /\ r \in Inside /\ Inside' = Inside
           /\ AtFree' = IF s = "free" THEN AtFree \cup {r} ELSE AtFree \ {r}
<1> DEFINE t == [x2[r] EXCEPT !.stage = s]
<1>1. x2[r] \in Proxy!Taken
  BY DEF ProxyTypes
<1>2. t \in Proxy!Taken /\ t.stage = s /\ t # None
  BY <1>1, ProxyConstants DEF Proxy!Taken
<1>3. x2' = [x2 EXCEPT ![r] = t]
  BY DEF Proxy!Stage
<1> HIDE DEF t
<1>4. r \in Inside /\ Inside \cup {r} = Inside
  BY DEF Inside
<1>5. /\ x2' \in [Handlers -> Proxy!Taken \cup {None}]
      /\ Inside' = IF t = None THEN Inside \ {r} ELSE Inside \cup {r}
      /\ AtFree' = IF t # None /\ t.stage = "free" THEN AtFree \cup {r} ELSE AtFree \ {r}
  <2>1. t \in Proxy!Taken \cup {None}
    BY <1>2
  <2> QED
    BY <1>3, <2>1, HandlerMoves
<1> QED
  BY <1>2, <1>4, <1>5

LEMMA RefuseMoves ==
    ASSUME ProxyTypes, NEW r \in Handlers, Proxy!Refuse(r)
    PROVE  /\ x2' \in [Handlers -> Proxy!Taken \cup {None}]
           /\ Inside' = Inside \ {r} /\ AtFree' = AtFree \ {r}
BY HandlerMoves DEF Proxy!Refuse

\* A step that leaves the counts, with fewer handlers before theirs.
LEMMA ProxyQuiet ==
    ASSUME ProxyInv, UNCHANGED <<x1, x3, x4, x5, x6, x7>>,
           x2' \in [Handlers -> Proxy!Taken \cup {None}],
           AtFree' \subseteq AtFree, Inside' \subseteq Inside
    PROVE  ProxyInv'
<1>1. AtFree \subseteq Handlers /\ Inside \subseteq Handlers /\ Proxy!Hour' = Proxy!Hour
  BY ProxySets DEF Proxy!Hour
<1>2. Metered(x6, x3, Proxy!Hour, FreeLimit, AtFree')
  BY <1>1, ProxySets, ProxyConstants, MeterLeaves DEF ProxyInv, ProxyTypes
<1>3. Metered(x7, x4, x5, RateLimit, Inside')
  BY <1>1, ProxySets, ProxyConstants, MeterLeaves DEF ProxyInv, ProxyTypes
<1>4. ProxyTypes'
  BY DEF ProxyInv, ProxyTypes
<1>5. Metered(x6, x3, Proxy!Hour, FreeLimit, AtFree)' /\ Metered(x7, x4, x5, RateLimit, Inside)'
  BY <1>1, <1>2, <1>3 DEF Metered, CountIn
<1> QED
  BY <1>4, <1>5 DEF ProxyInv

LEMMA ProxyArrives ==
    ASSUME ProxyInv, NEW r \in Handlers, NEW path \in Paths, NEW proof \in Proxy!Proofs,
           NEW amount \in Amounts, Proxy!Arrive(r, path, proof, amount)
    PROVE  ProxyInv'
<1> DEFINE t == [free |-> proof = "none", stage |-> "priced",
                 enough |-> proof = "valid" /\ amount >= Proxy!Price(path)]
<1>1. x2[r] = None /\ UNCHANGED <<x1, x3, x4, x5, x6, x7>>
  BY DEF Proxy!Arrive
<1>2. t \in Proxy!Taken /\ t.stage = "priced" /\ t # None
  <2> DEFINE none == proof = "none"
             valid == proof = "valid" /\ amount >= Proxy!Price(path)
  <2>1. none \in BOOLEAN /\ valid \in BOOLEAN
    BY Zenon
  <2> HIDE DEF none, valid
  <2>2. t \in Proxy!Taken /\ t.stage = "priced"
    BY <2>1 DEF Proxy!Taken
  <2> QED
    BY <2>2, ProxyConstants
<1>3. x2' = [x2 EXCEPT ![r] = IF Proxy!Within(x4, x5, RateLimit) THEN t ELSE None]
  BY DEF Proxy!Arrive
<1> HIDE DEF t
<1>4. r \notin Inside /\ r \notin AtFree
  BY <1>1 DEF Inside, AtFree
<1>5. CASE Proxy!Within(x4, x5, RateLimit)
  <2>1. /\ x2' \in [Handlers -> Proxy!Taken \cup {None}]
        /\ Inside' = Inside \cup {r} /\ AtFree' = AtFree
    <3>1. x2' = [x2 EXCEPT ![r] = t] /\ t \in Proxy!Taken \cup {None} /\ ProxyTypes
      BY <1>2, <1>3, <1>5 DEF ProxyInv
    <3>2. /\ x2' \in [Handlers -> Proxy!Taken \cup {None}]
          /\ Inside' = IF t = None THEN Inside \ {r} ELSE Inside \cup {r}
          /\ AtFree' = IF t # None /\ t.stage = "free" THEN AtFree \cup {r} ELSE AtFree \ {r}
      BY <3>1, HandlerMoves
    <3> QED
      BY <1>2, <1>4, <3>2
  <2>2. Metered(x7, x4, x5, RateLimit, Inside \cup {r})
    BY <1>4, <1>5, ProxySets, ProxyConstants, MeterLooks DEF ProxyInv, ProxyTypes
  <2>3. ProxyTypes'
    BY <1>1, <2>1 DEF ProxyInv, ProxyTypes
  <2>4. Metered(x6, x3, Proxy!Hour, FreeLimit, AtFree)'
    BY <1>1, <2>1 DEF ProxyInv, Metered, CountIn, Proxy!Hour
  <2>5. Metered(x7, x4, x5, RateLimit, Inside)'
    BY <1>1, <2>1, <2>2 DEF Metered, CountIn
  <2> QED
    BY <2>3, <2>4, <2>5 DEF ProxyInv
<1>6. CASE ~Proxy!Within(x4, x5, RateLimit)
  <2>1. /\ x2' \in [Handlers -> Proxy!Taken \cup {None}]
        /\ Inside' = Inside \ {r} /\ AtFree' = AtFree \ {r}
    BY <1>3, <1>6, HandlerMoves DEF ProxyInv
  <2> QED
    BY <1>1, <2>1, ProxyQuiet
<1> QED
  BY <1>5, <1>6

LEMMA ProxyChecks ==
    ASSUME ProxyInv, NEW r \in Handlers, Proxy!Pay(r) \/ Proxy!CheckFree(r)
    PROVE  ProxyInv'
<1> USE DEF ProxyInv
<1>1. x2[r] # None /\ x2[r].stage = "priced" /\ UNCHANGED <<x1, x3, x4, x5, x6, x7>>
      /\ r \notin AtFree
  BY DEF Proxy!Pay, Proxy!CheckFree, AtFree
<1>2. CASE Proxy!Refuse(r)
  BY <1>1, <1>2, RefuseMoves, ProxyQuiet
<1>3. CASE Proxy!Stage(r, "paid")
  BY <1>1, <1>3, StageMoves, ProxyQuiet
<1>4. CASE Proxy!Stage(r, "free") /\ Proxy!Within(x3, Proxy!Hour, FreeLimit)
  <2>1. /\ x2' \in [Handlers -> Proxy!Taken \cup {None}]
        /\ Inside' = Inside /\ AtFree' = AtFree \cup {r}
    BY <1>1, <1>4, StageMoves
  <2>2. Metered(x6, x3, Proxy!Hour, FreeLimit, AtFree \cup {r})
    <3>1. AtFree \subseteq Handlers
      BY ProxySets
    <3> QED
      BY <1>1, <1>4, <3>1, ProxySets, ProxyConstants, MeterLooks DEF ProxyTypes
  <2>3. ProxyTypes'
    BY <1>1, <2>1 DEF ProxyTypes
  <2>4. Metered(x7, x4, x5, RateLimit, Inside)'
    BY <1>1, <2>1 DEF Metered, CountIn
  <2>5. Metered(x6, x3, Proxy!Hour, FreeLimit, AtFree)'
    BY <1>1, <2>1, <2>2 DEF Metered, CountIn, Proxy!Hour
  <2> QED
    BY <2>3, <2>4, <2>5
<1> QED
  BY <1>1, <1>2, <1>3, <1>4 DEF Proxy!Pay, Proxy!CheckFree

LEMMA ProxyUses ==
    ASSUME ProxyInv, NEW r \in Handlers, Proxy!UseFree(r)
    PROVE  ProxyInv'
<1> USE DEF ProxyInv
<1>1. /\ x2[r] # None /\ x2[r].stage = "free" /\ UNCHANGED <<x1, x4, x5, x7>>
      /\ r \in AtFree /\ Proxy!Stage(r, "paid")
      /\ x3' = Proxy!Counted(x3, Proxy!Hour)
      /\ x6' = [x6 EXCEPT ![Proxy!Hour] = @ + 1]
      /\ Proxy!Hour' = Proxy!Hour
  BY DEF Proxy!UseFree, AtFree, Proxy!Hour
<1>2. /\ x2' \in [Handlers -> Proxy!Taken \cup {None}]
      /\ Inside' = Inside /\ AtFree' = AtFree \ {r}
  BY <1>1, StageMoves
<1>3. AtFree \subseteq Handlers
  BY ProxySets
<1>4. /\ Metered(x6', x3', Proxy!Hour, FreeLimit, AtFree \ {r})
      /\ x3' \in Proxy!Entries /\ x6' \in [Hours -> Nat]
  BY <1>1, <1>3, ProxySets, ProxyConstants, MeterCounts DEF ProxyTypes
<1>5. ProxyTypes'
  BY <1>1, <1>2, <1>4 DEF ProxyTypes
<1>6. Metered(x7, x4, x5, RateLimit, Inside)'
  BY <1>1, <1>2 DEF Metered, CountIn
<1>7. Metered(x6, x3, Proxy!Hour, FreeLimit, AtFree)'
  BY <1>1, <1>2, <1>4 DEF Metered, CountIn
<1> QED
  BY <1>5, <1>6, <1>7

LEMMA ProxyRecords ==
    ASSUME ProxyInv, NEW r \in Handlers, Proxy!Record(r)
    PROVE  ProxyInv'
<1> USE DEF ProxyInv
<1>1. /\ x2[r] # None /\ x2[r].stage = "paid" /\ UNCHANGED <<x1, x3, x5, x6>>
      /\ r \in Inside /\ r \notin AtFree /\ Proxy!Refuse(r)
      /\ x4' = Proxy!Counted(x4, x5)
      /\ x7' = [x7 EXCEPT ![x5] = @ + 1]
  BY DEF Proxy!Record, Inside, AtFree
<1>2. /\ x2' \in [Handlers -> Proxy!Taken \cup {None}]
      /\ Inside' = Inside \ {r} /\ AtFree' = AtFree
  BY <1>1, RefuseMoves
<1>4. /\ Metered(x7', x4', x5, RateLimit, Inside \ {r})
      /\ x4' \in Proxy!Entries /\ x7' \in [0 .. MaxMinutes -> Nat]
  BY <1>1, ProxySets, ProxyConstants, MeterCounts DEF ProxyTypes
<1>5. ProxyTypes'
  BY <1>1, <1>2, <1>4 DEF ProxyTypes
<1>6. Metered(x7, x4, x5, RateLimit, Inside)'
  BY <1>1, <1>2, <1>4 DEF Metered, CountIn
<1>7. Metered(x6, x3, Proxy!Hour, FreeLimit, AtFree)'
  BY <1>1, <1>2 DEF Metered, CountIn, Proxy!Hour
<1> QED
  BY <1>5, <1>6, <1>7

LEMMA ProxyMinute ==
    ASSUME ProxyInv, Proxy!MinuteEnds
    PROVE  ProxyInv'
<1> USE DEF ProxyInv
<1>1. /\ x5 < MaxMinutes /\ x5' = x5 + 1 /\ UNCHANGED <<x1, x2, x3, x4, x6, x7>>
      /\ x5 \in 0 .. MaxMinutes /\ x5' \in 0 .. MaxMinutes
  BY ProxyConstants DEF Proxy!MinuteEnds, ProxyTypes
<1>2. /\ Proxy!Hour' \in Hours /\ Proxy!Hour' >= Proxy!Hour
      /\ \A h \in Hours : h > Proxy!Hour => h >= Proxy!Hour'
  BY <1>1, HourFollows DEF Proxy!Hour
<1>3. Inside' = Inside /\ AtFree' = AtFree /\ AtFree \subseteq Handlers
  BY <1>1, ProxySets DEF Inside, AtFree
<1>4. Metered(x6, x3, Proxy!Hour', FreeLimit, AtFree)
  BY <1>2, <1>3, ProxySets, ProxyConstants, MeterTurns DEF ProxyTypes
<1>5. Metered(x7, x4, x5', RateLimit, Inside)
  <2>1. x5' >= x5 /\ \A m \in 0 .. MaxMinutes : m > x5 => m >= x5'
    BY <1>1
  <2> QED
    BY <1>1, <2>1, ProxySets, ProxyConstants, MeterTurns DEF ProxyTypes
<1>6. ProxyTypes'
  BY <1>1 DEF ProxyTypes
<1>7. Metered(x6, x3, Proxy!Hour, FreeLimit, AtFree)' /\ Metered(x7, x4, x5, RateLimit, Inside)'
  BY <1>1, <1>3, <1>4, <1>5 DEF Metered, CountIn
<1> QED
  BY <1>6, <1>7

LEMMA ProxyInit ==
    ASSUME Proxy!Init
    PROVE  ProxyInv
<1>1. /\ x1 \in RuleSets /\ x2 = [r \in Handlers |-> None] /\ x3 = None /\ x4 = None /\ x5 = 0
      /\ x6 = [h \in Hours |-> 0] /\ x7 = [m \in 0 .. MaxMinutes |-> 0]
  BY DEF Proxy!Init, Hours
<1>2. x5 \in 0 .. MaxMinutes /\ Proxy!Hour \in Hours
  BY <1>1, ProxyConstants, HourFollows DEF Proxy!Hour
<1>3. ProxyTypes
  BY <1>1, <1>2 DEF ProxyTypes
<1>4. Inside = {} /\ AtFree = {}
  BY <1>1 DEF Inside, AtFree
<1>5. Cardinality(Inside) = 0 /\ Cardinality(AtFree) = 0
  BY <1>4, FS_EmptySet
<1>6. x6[Proxy!Hour] = 0 /\ x7[x5] = 0
  BY <1>1, <1>2
<1>7. Metered(x6, x3, Proxy!Hour, FreeLimit, AtFree)
  BY <1>1, <1>5, <1>6, ProxyConstants DEF Metered, CountIn
<1>8. Metered(x7, x4, x5, RateLimit, Inside)
  BY <1>1, <1>5, <1>6, ProxyConstants DEF Metered, CountIn
<1> QED
  BY <1>3, <1>7, <1>8 DEF ProxyInv

LEMMA ProxyStep ==
    ASSUME ProxyInv, Proxy!Next \/ UNCHANGED own
    PROVE  ProxyInv'
<1>1. CASE UNCHANGED own
  <2>1. UNCHANGED <<x1, x2, x3, x4, x5, x6, x7>>
    BY <1>1 DEF own
  <2> QED
    BY <2>1, ProxyQuiet DEF ProxyInv, ProxyTypes, Inside, AtFree
<1> QED
  BY <1>1, ProxyArrives, ProxyChecks, ProxyUses, ProxyRecords, ProxyMinute DEF Proxy!Next

\* A meter never shows more than its limit and the handlers but one.
LEMMA ProxyLimits == ProxyInv => Proxy!OvershootBounded
<1> SUFFICES ASSUME ProxyInv PROVE Proxy!OvershootBounded
  OBVIOUS
<1>1. Proxy!Cardinality(Handlers) = Cardinality(Handlers)
  BY Zenon DEF Proxy!Cardinality, Cardinality
<1>2. Cardinality(AtFree) \in Nat /\ Cardinality(Inside) \in Nat
  BY ProxySets, SomeHandlers
<1>3. ASSUME NEW h \in Hours PROVE x6[h] <= FreeLimit + Cardinality(Handlers) - 1
  <2>1. h \in Nat /\ Proxy!Hour \in Nat /\ x6[h] \in Nat /\ x6[Proxy!Hour] \in Nat /\ DOMAIN x6 = Hours
    BY ProxySets DEF ProxyInv, ProxyTypes
  <2> QED
    BY <1>2, <2>1, ProxyConstants DEF ProxyInv, Metered
<1>4. ASSUME NEW m \in 0 .. MaxMinutes PROVE x7[m] <= RateLimit + Cardinality(Handlers) - 1
  <2>1. m \in Nat /\ x5 \in Nat /\ x7[m] \in Nat /\ x7[x5] \in Nat /\ DOMAIN x7 = 0 .. MaxMinutes
    BY DEF ProxyInv, ProxyTypes
  <2> QED
    BY <1>2, <2>1, ProxyConstants DEF ProxyInv, Metered
<1>5. /\ DOMAIN x6 = Hours /\ DOMAIN x7 = 0 .. MaxMinutes
      /\ FreeLimit + (Cardinality(Handlers) - 1) = FreeLimit + Cardinality(Handlers) - 1
      /\ RateLimit + (Cardinality(Handlers) - 1) = RateLimit + Cardinality(Handlers) - 1
  BY ProxyConstants DEF ProxyInv, ProxyTypes
<1> QED
  BY <1>1, <1>3, <1>4, <1>5 DEF Proxy!OvershootBounded

\* The first rule that matches is one that means the path.
LEMMA ProxyPrices == ProxyInv => Proxy!PricedByRule
<1> SUFFICES ASSUME ProxyInv, NEW path \in Paths, Proxy!Rule(path) # None
             PROVE  Proxy!Means(x1[Proxy!Rule(path)].pattern, path)
  BY DEF Proxy!PricedByRule
<1> DEFINE hits == {i \in DOMAIN x1 : Proxy!Matches(x1[i].pattern, path)}
<1>1. /\ Proxy!Sequence(x1) /\ Proxy!Sequence(path)
      /\ \A i \in DOMAIN x1 : Proxy!Sequence(x1[i].pattern)
  BY NodeAssumption DEF Proxy!ProxyAssumption, ProxyInv, ProxyTypes
<1>2. Proxy!Rule(path) = IF hits = {} THEN None ELSE CHOOSE i \in hits : \A k \in hits : i <= k
  BY DEF Proxy!Rule
<1>3. hits # {} /\ hits \subseteq Nat
  BY <1>1, <1>2 DEF Proxy!Sequence
<1> HIDE DEF hits
<1>4. \E i \in hits : \A k \in hits : i <= k
  BY <1>3, LeastElement
<1>5. Proxy!Rule(path) \in hits
  BY <1>2, <1>3, <1>4
<1>6. /\ Proxy!Rule(path) \in DOMAIN x1
      /\ Proxy!Matches(x1[Proxy!Rule(path)].pattern, path)
  BY <1>5 DEF hits
<1> QED
  BY <1>1, <1>6, MatchIsMeant

-------------------------------------------------------------------------------
(* Skills                                                                  *)

LEMMA SkillsConstants ==
    MaxEdits \in Nat /\ MaxBatches \in Nat /\ Prices \subseteq Nat
BY NodeAssumption DEF Skills!SkillsAssumption

\* An offer comes before another: it is cheaper, or as cheap and listed before.
Before(s, i, j) == s[i].price < s[j].price \/ (s[i].price = s[j].price /\ i < j)
Orders(was, s, n) ==
    /\ was \in [1 .. n -> 1 .. n]
    /\ \A i, j \in 1 .. n : i < j => Before(s, was[i], was[j])

\* The offers can be sorted: one after the other is put after all that are not
\* dearer.
LEMMA OrderExists ==
    ASSUME NEW n \in Nat, NEW s, \A i \in 1 .. n : s[i].price \in Nat
    PROVE  \E was : Orders(was, s, n)
<1> DEFINE S == {m \in Nat : m <= n => \E was : Orders(was, s, m)}
<1>1. 0 \in S
  <2>1. Orders([i \in 1 .. 0 |-> i], s, 0)
    BY DEF Orders
  <2> QED
    BY <2>1
<1>2. ASSUME NEW m \in Nat, m \in S PROVE m + 1 \in S
  <2>1. SUFFICES ASSUME m + 1 <= n PROVE \E was : Orders(was, s, m + 1)
    OBVIOUS
  <2>2. PICK was : Orders(was, s, m)
    BY <1>2, <2>1
  <2>3. \A i \in 1 .. m : /\ was[i] \in 1 .. m /\ was[i] < m + 1
                          /\ s[was[i]].price \in Nat
    BY <2>1, <2>2 DEF Orders
  <2>4. s[m + 1].price \in Nat
    BY <2>1
  <2> DEFINE Dearer == {i \in 1 .. m : s[was[i]].price > s[m + 1].price}
  <2>5. PICK k \in 1 .. m + 1 :
           /\ \A i \in 1 .. m : i < k => s[was[i]].price <= s[m + 1].price
           /\ \A i \in 1 .. m : i >= k => s[was[i]].price > s[m + 1].price
    <3>1. CASE Dearer = {}
      <4>1. \A i \in 1 .. m : s[was[i]].price <= s[m + 1].price /\ ~(i >= m + 1)
        BY <2>3, <2>4, <3>1
      <4> QED
        BY <4>1
    <3>2. CASE Dearer # {}
      <4>1. Dearer \subseteq Nat
        OBVIOUS
      <4>2. PICK k \in Dearer : \A i \in Dearer : k <= i
        <5> HIDE DEF Dearer
        <5> QED
          BY <3>2, <4>1, LeastElement
      <4>3. k \in 1 .. m /\ s[was[k]].price > s[m + 1].price
        OBVIOUS
      <4>4. ASSUME NEW i \in 1 .. m, i < k PROVE s[was[i]].price <= s[m + 1].price
        <5>1. i \notin Dearer
          BY <4>2, <4>3, <4>4
        <5> QED
          BY <2>3, <2>4, <5>1
      <4>5. ASSUME NEW i \in 1 .. m, i >= k PROVE s[was[i]].price > s[m + 1].price
        <5>1. i = k \/ Before(s, was[k], was[i])
          BY <2>2, <4>3, <4>5 DEF Orders
        <5> QED
          BY <2>3, <2>4, <4>3, <5>1 DEF Before
      <4>6. k \in 1 .. m + 1
        BY <4>3
      <4> HIDE DEF Dearer
      <4> QED
        BY <4>4, <4>5, <4>6
    <3> QED
      BY <3>1, <3>2
  <2> DEFINE next == [i \in 1 .. m + 1 |-> IF i < k THEN was[i] ELSE IF i = k THEN m + 1 ELSE was[i - 1]]
  <2>6. ASSUME NEW i \in 1 .. m + 1
        PROVE  /\ i < k => i \in 1 .. m /\ next[i] = was[i]
               /\ i = k => next[i] = m + 1
               /\ i > k => i - 1 \in 1 .. m /\ i - 1 >= k /\ next[i] = was[i - 1]
    BY <2>5
  <2> HIDE DEF next
  <2>7. ASSUME NEW i \in 1 .. m + 1, NEW j \in 1 .. m + 1, i < j
        PROVE  Before(s, next[i], next[j])
    <3>1. CASE j < k
      <4>1. i < k /\ i \in 1 .. m /\ j \in 1 .. m /\ next[i] = was[i] /\ next[j] = was[j]
        BY <2>6, <2>7, <3>1
      <4> QED
        BY <2>2, <2>7, <4>1 DEF Orders
    <3>2. CASE j = k
      <4>1. i < k /\ i \in 1 .. m /\ next[i] = was[i] /\ next[j] = m + 1
        BY <2>6, <2>7, <3>2
      <4> QED
        BY <2>3, <2>4, <2>5, <4>1 DEF Before
    <3>3. CASE j > k /\ i < k
      <4>1. /\ i \in 1 .. m /\ next[i] = was[i]
            /\ j - 1 \in 1 .. m /\ next[j] = was[j - 1] /\ i < j - 1
        BY <2>6, <3>3
      <4> QED
        BY <2>2, <4>1 DEF Orders
    <3>4. CASE j > k /\ i = k
      <4>1. /\ next[i] = m + 1 /\ j - 1 \in 1 .. m /\ j - 1 >= k /\ next[j] = was[j - 1]
        BY <2>6, <3>4
      <4> QED
        BY <2>3, <2>4, <2>5, <4>1 DEF Before
    <3>5. CASE j > k /\ i > k
      <4>1. /\ i - 1 \in 1 .. m /\ next[i] = was[i - 1]
            /\ j - 1 \in 1 .. m /\ next[j] = was[j - 1] /\ i - 1 < j - 1
        BY <2>6, <2>7, <3>5
      <4> QED
        BY <2>2, <4>1 DEF Orders
    <3> QED
      BY <3>1, <3>2, <3>3, <3>4, <3>5
  <2>8. \A i \in 1 .. m + 1 : next[i] \in 1 .. m + 1
    BY <2>3, <2>6
  <2>9. next \in [1 .. m + 1 -> 1 .. m + 1]
    BY <2>8 DEF next
  <2>10. Orders(next, s, m + 1)
    BY <2>7, <2>9 DEF Orders
  <2> QED
    BY <2>10
<1>3. n \in S
  <2> HIDE DEF S
  <2> QED
    BY <1>1, <1>2, SetInduction
<1> QED
  BY <1>3

\* Sorting sorts, and loses and doubles nothing.
LEMMA SortedIsListing ==
    ASSUME NEW s \in Seq(Skills!Offers),
           \A i, j \in 1 .. Len(s) : i # j => s[i].provider # s[j].provider
    PROVE  Listing(Skills!Sorted(s))
<1> DEFINE n == Len(s)
           was == Skills!Order(s)
<1>1. n \in Nat /\ DOMAIN s = 1 .. n /\ \A i \in 1 .. n : s[i] \in Skills!Offers
  OBVIOUS
<1>2. \A i \in 1 .. n : s[i].price \in Nat
  BY <1>1, SkillsConstants DEF Skills!Offers
<1>3. PICK w : Orders(w, s, n)
  BY <1>1, <1>2, OrderExists
<1>4. /\ was \in [1 .. n -> 1 .. n]
      /\ \A i, j \in 1 .. n : i < j => Before(s, was[i], was[j])
  <2>1. /\ w \in [DOMAIN s -> DOMAIN s]
        /\ \A i, j \in DOMAIN s : i < j =>
             \/ s[w[i]].price < s[w[j]].price
             \/ s[w[i]].price = s[w[j]].price /\ w[i] < w[j]
    BY <1>1, <1>3 DEF Orders, Before
  <2>2. /\ was \in [DOMAIN s -> DOMAIN s]
        /\ \A i, j \in DOMAIN s : i < j =>
             \/ s[was[i]].price < s[was[j]].price
             \/ s[was[i]].price = s[was[j]].price /\ was[i] < was[j]
    BY <2>1, Zenon DEF Skills!Order
  <2> HIDE DEF was
  <2> QED
    BY <1>1, <2>2 DEF Before
<1> DEFINE t == Skills!Sorted(s)
<1>5. t = [i \in 1 .. n |-> s[was[i]]]
  BY <1>1 DEF Skills!Sorted
<1> HIDE DEF was, t
<1>6. t \in Seq(Skills!Offers) /\ Len(t) = n
  BY <1>1, <1>4, <1>5
<1>7. ASSUME NEW i \in 1 .. n, NEW j \in 1 .. n, i < j
      PROVE  t[i].provider # t[j].provider /\ t[i].price <= t[j].price
  <2>1. Before(s, was[i], was[j]) /\ was[i] \in 1 .. n /\ was[j] \in 1 .. n
    BY <1>4, <1>7
  <2>2. s[was[i]].price \in Nat /\ s[was[j]].price \in Nat
    BY <1>2, <2>1
  <2>3. was[i] # was[j] /\ s[was[i]].price <= s[was[j]].price
    BY <2>1, <2>2 DEF Before
  <2>4. t[i] = s[was[i]] /\ t[j] = s[was[j]]
    BY <1>5
  <2> QED
    BY <2>1, <2>3, <2>4
<1>8. Listing(t)
  BY <1>6, <1>7 DEF Listing
<1> QED
  BY <1>8 DEF t

LEMMA PlacedIsListing ==
    ASSUME NEW s, Listing(s), NEW p \in Providers, NEW price \in Prices
    PROVE  Listing(Skills!Placed(s, p, price))
<1> DEFINE at == {i \in DOMAIN s : s[i].provider = p}
           new == [provider |-> p, price |-> price]
           listed == IF at = {} THEN Append(s, new) ELSE [s EXCEPT ![CHOOSE i \in at : TRUE] = new]
<1>1. /\ s \in Seq(Skills!Offers) /\ Len(s) \in Nat /\ DOMAIN s = 1 .. Len(s)
      /\ new \in Skills!Offers /\ new.provider = p
      /\ \A i, j \in 1 .. Len(s) : i # j => s[i].provider # s[j].provider
  <2>1. s \in Seq(Skills!Offers) /\ new \in Skills!Offers /\ new.provider = p
    BY DEF Listing, Skills!Offers
  <2>2. Len(s) \in Nat /\ DOMAIN s = 1 .. Len(s)
    BY <2>1
  <2>3. \A i, j \in 1 .. Len(s) : i # j => i < j \/ j < i
    BY <2>2
  <2> QED
    BY <2>1, <2>2, <2>3 DEF Listing
<1> HIDE DEF new
<1>2. CASE at = {}
  <2>1. listed = Append(s, new)
    BY <1>2
  <2>3. \A i \in 1 .. Len(s) : s[i].provider # p
    BY <1>1, <1>2
  <2> HIDE DEF listed, at
  <2>2. /\ listed \in Seq(Skills!Offers) /\ Len(listed) = Len(s) + 1
        /\ listed[Len(s) + 1] = new /\ \A i \in 1 .. Len(s) : listed[i] = s[i]
    BY <1>1, <2>1
  <2>4. \A i, j \in 1 .. Len(listed) : i # j => listed[i].provider # listed[j].provider
    <3> SUFFICES ASSUME NEW i \in 1 .. Len(s) + 1, NEW j \in 1 .. Len(s) + 1, i # j
                 PROVE  listed[i].provider # listed[j].provider
      BY <2>2
    <3>1. CASE i = Len(s) + 1
      <4>1. j \in 1 .. Len(s)
        BY <1>1, <3>1
      <4> QED
        BY <1>1, <2>2, <2>3, <3>1, <4>1
    <3>2. CASE j = Len(s) + 1
      <4>1. i \in 1 .. Len(s)
        BY <1>1, <3>2
      <4> QED
        BY <1>1, <2>2, <2>3, <3>2, <4>1
    <3>3. CASE i # Len(s) + 1 /\ j # Len(s) + 1
      <4>1. i \in 1 .. Len(s) /\ j \in 1 .. Len(s)
        BY <1>1, <3>3
      <4> QED
        BY <1>1, <2>2, <4>1
    <3> QED
      BY <3>1, <3>2, <3>3
  <2>5. Listing(Skills!Sorted(listed))
    BY <2>2, <2>4, SortedIsListing
  <2> QED
    BY <2>5 DEF Skills!Placed, listed, at, new
<1>3. CASE at # {}
  <2> DEFINE k == CHOOSE i \in at : TRUE
  <2>1. k \in 1 .. Len(s) /\ s[k].provider = p
    BY <1>1, <1>3
  <2>2. listed = [s EXCEPT ![k] = new]
    BY <1>3
  <2> HIDE DEF k, listed, at
  <2>3. /\ listed \in Seq(Skills!Offers) /\ Len(listed) = Len(s)
        /\ listed[k] = new /\ \A i \in 1 .. Len(s) : i # k => listed[i] = s[i]
    BY <1>1, <2>1, <2>2
  <2>4. \A i \in 1 .. Len(s) : listed[i].provider = s[i].provider
    BY <1>1, <2>1, <2>3
  <2>5. \A i, j \in 1 .. Len(listed) : i # j => listed[i].provider # listed[j].provider
    BY <1>1, <2>3, <2>4
  <2>6. Listing(Skills!Sorted(listed))
    BY <2>3, <2>5, SortedIsListing
  <2> QED
    BY <2>6 DEF Skills!Placed, listed, at, new
<1> QED
  BY <1>2, <1>3

LEMMA SkillsListed ==
    ASSUME NEW s, Listing(s)
    PROVE  /\ \A i \in DOMAIN s : s[i] \in Skills!Offers
           /\ \A i, j \in DOMAIN s :
                i < j => s[i].provider # s[j].provider /\ s[i].price <= s[j].price
<1>1. s \in Seq(Skills!Offers)
  BY DEF Listing
<1>2. DOMAIN s = 1 .. Len(s)
  BY <1>1
<1> QED
  BY <1>1, <1>2 DEF Listing

\* Files are changed by commands, by chats and by the studio.
LEMMA SkillsEdit ==
    ASSUME SkillsInv, NEW f \in Names \X Skills!Layouts,
           NEW content \in Skills!Contents \cup {Broken, None}, Skills!Edit(f, content)
    PROVE  SkillsInv'
<1>1. x1' \in [Names \X Skills!Layouts -> Skills!Contents \cup {Broken, None}]
  BY DEF SkillsInv, Skills!TypeOK, Skills!Edit
<1>2. x7' \in 0 .. MaxEdits
  BY SkillsConstants DEF SkillsInv, Skills!TypeOK, Skills!Edit
<1>3. UNCHANGED <<x2, x3, x4, x5, x6, x8>>
  BY DEF Skills!Edit
<1> QED
  BY <1>1, <1>2, <1>3 DEF SkillsInv, Skills!TypeOK, Listing

LEMMA SkillsFiles ==
    ASSUME SkillsInv,
           \/ \E c \in Skills!Contents : Skills!Install(c)
           \/ \E n \in Names : Skills!Create(n) \/ Skills!CreateInChat(n) \/ Skills!Remove(n)
           \/ \E n \in Names, c \in Skills!Contents \cup {Broken} : Skills!Put(n, c)
    PROVE  SkillsInv'
<1>1. ASSUME NEW c \in Skills!Contents, Skills!Install(c) PROVE SkillsInv'
  <2>1. <<c.name, "flat">> \in Names \X Skills!Layouts
    BY DEF Skills!Contents, Skills!Layouts
  <2> QED
    BY <1>1, <2>1, SkillsEdit DEF Skills!Install
<1>2. ASSUME NEW n \in Names, Skills!Create(n) \/ Skills!CreateInChat(n) PROVE SkillsInv'
  <2>1. <<n, "flat">> \in Names \X Skills!Layouts /\ [name |-> n, met |-> TRUE] \in Skills!Contents
    BY DEF Skills!Contents, Skills!Layouts
  <2>2. Skills!Edit(<<n, "flat">>, [name |-> n, met |-> TRUE])
    BY <1>2 DEF Skills!Create, Skills!CreateInChat
  <2> QED
    BY <2>1, <2>2, SkillsEdit
<1>3. ASSUME NEW n \in Names, Skills!Remove(n) PROVE SkillsInv'
  <2>1. <<n, "flat">> \in Names \X Skills!Layouts /\ Skills!Edit(<<n, "flat">>, None)
    BY <1>3 DEF Skills!Remove, Skills!Layouts
  <2> QED
    BY <2>1, SkillsEdit
<1>4. ASSUME NEW n \in Names, NEW c \in Skills!Contents \cup {Broken}, Skills!Put(n, c)
      PROVE  SkillsInv'
  <2>1. <<n, "nested">> \in Names \X Skills!Layouts /\ Skills!Edit(<<n, "nested">>, c)
    BY <1>4 DEF Skills!Put, Skills!Layouts
  <2> QED
    BY <2>1, SkillsEdit
<1> QED
  BY <1>1, <1>2, <1>3, <1>4

LEMMA SkillsRegistry ==
    ASSUME SkillsInv,
           \/ \E n \in Names : Skills!Toggle(n) \/ Skills!Select(n)
           \/ Skills!Scan \/ Skills!NothingFits \/ Skills!Restart
    PROVE  SkillsInv'
<1>1. ASSUME NEW n \in Names, Skills!Toggle(n) PROVE SkillsInv'
  <2>1. x3' \subseteq Names /\ UNCHANGED <<x1, x2, x4, x5, x6, x7, x8>>
    BY <1>1 DEF SkillsInv, Skills!TypeOK, Skills!Toggle, Skills!Toggled
  <2> QED
    BY <2>1 DEF SkillsInv, Skills!TypeOK, Listing
<1>2. ASSUME NEW n \in Names, Skills!Select(n) PROVE SkillsInv'
  BY <1>2 DEF SkillsInv, Skills!TypeOK, Skills!Select, Listing
<1>3. CASE Skills!NothingFits
  BY <1>3 DEF SkillsInv, Skills!TypeOK, Skills!NothingFits, Listing
<1>4. Skills!Scans \subseteq [Names -> BOOLEAN \cup {None}]
  BY DEF Skills!Scans
<1>5. CASE Skills!Scan
  <2>1. x2' \in [Names -> BOOLEAN \cup {None}] /\ UNCHANGED <<x1, x3, x4, x5, x6, x7, x8>>
    BY <1>4, <1>5 DEF Skills!Scan
  <2> QED
    BY <2>1 DEF SkillsInv, Skills!TypeOK, Listing
<1>6. CASE Skills!Restart
  <2>1. /\ x2' \in [Names -> BOOLEAN \cup {None}] /\ x3' = {} /\ x5' = None
        /\ x4' = [n \in Names |-> <<>>] /\ UNCHANGED <<x1, x6, x7, x8>>
    BY <1>4, <1>6 DEF Skills!Restart
  <2>2. Listing(<<>>)
    BY DEF Listing
  <2>3. \A n \in Names : x4'[n] = <<>>
    BY <2>1
  <2>4. x4' \in [Names -> Seq(Skills!Offers)] /\ \A n \in Names : Listing(x4'[n])
    BY <2>1, <2>2, <2>3
  <2>5. \A n \in Names : \A i \in DOMAIN x4'[n] : x4'[n][i] \in Skills!Offers
    BY <2>4, SkillsListed
  <2>6. Skills!TypeOK'
    BY <2>1, <2>5 DEF SkillsInv, Skills!TypeOK
  <2>7. (\A n \in Names : Listing(x4[n]))'
    BY <2>4 DEF Listing
  <2> QED
    BY <2>1, <2>4, <2>6, <2>7 DEF SkillsInv
<1> QED
  BY <1>1, <1>2, <1>3, <1>5, <1>6

LEMMA SkillsSend ==
    ASSUME SkillsInv, NEW p \in Providers, NEW priced \in [Names -> Prices \cup {None}],
           Skills!Send(p, priced)
    PROVE  SkillsInv'
<1>1. /\ x8' \in 0 .. MaxBatches /\ x8 \in Nat
      /\ x6' = x6 \cup {[peer |-> p, priced |-> priced, number |-> x8]}
      /\ UNCHANGED <<x1, x2, x3, x4, x5, x7>>
  BY SkillsConstants DEF SkillsInv, Skills!TypeOK, Skills!Send
<1>2. [peer |-> p, priced |-> priced, number |-> x8] \in Batches
  BY <1>1 DEF Batches
<1>3. x6' \subseteq Batches
  BY <1>1, <1>2 DEF SkillsInv
<1> QED
  BY <1>1, <1>3 DEF SkillsInv, Skills!TypeOK, Listing

LEMMA SkillsReceive ==
    ASSUME SkillsInv, NEW b \in x6, NEW by \in [Names -> Providers], NEW good \in BOOLEAN,
           Skills!Receive(b, by, good)
    PROVE  SkillsInv'
<1>1. /\ b \in Batches
      /\ \A n \in Names : by[n] \in Providers /\ b.priced[n] \in Prices \cup {None}
  BY DEF SkillsInv, Batches
<1>2. x6' \subseteq Batches /\ UNCHANGED <<x1, x2, x3, x5, x7, x8>>
  BY DEF SkillsInv, Skills!Receive
<1>3. x4' = x4 \/ x4' = [n \in Names |-> IF b.priced[n] = None THEN x4[n]
                                         ELSE Skills!Placed(x4[n], by[n], b.priced[n])]
  BY DEF Skills!Receive
<1>4. ASSUME NEW n \in Names PROVE Listing(x4'[n])
  <2>1. Listing(x4[n])
    BY DEF SkillsInv
  <2>2. b.priced[n] # None => Listing(Skills!Placed(x4[n], by[n], b.priced[n]))
    BY <1>1, <2>1, PlacedIsListing
  <2>3. \/ x4'[n] = x4[n]
        \/ b.priced[n] # None /\ x4'[n] = Skills!Placed(x4[n], by[n], b.priced[n])
    BY <1>3
  <2> QED
    BY <2>1, <2>2, <2>3
<1>5. x4' \in [Names -> Seq(Skills!Offers)]
  <2>1. \A n \in Names : x4'[n] \in Seq(Skills!Offers)
    BY <1>4 DEF Listing
  <2>2. x4' = [n \in Names |-> x4'[n]]
    BY <1>3 DEF SkillsInv
  <2> QED
    BY <2>1, <2>2
<1>6. \A n \in Names : \A i \in DOMAIN x4'[n] : x4'[n][i] \in Skills!Offers
  BY <1>4, SkillsListed
<1>7. Skills!TypeOK'
  BY <1>2, <1>6 DEF SkillsInv, Skills!TypeOK
<1>8. (\A n \in Names : Listing(x4[n]))'
  BY <1>4 DEF Listing
<1> QED
  BY <1>2, <1>5, <1>7, <1>8 DEF SkillsInv

LEMMA SkillsInit ==
    ASSUME Skills!Init
    PROVE  SkillsInv
<1>1. /\ x1 = [f \in Names \X Skills!Layouts |-> None]
      /\ x2 = [n \in Names |-> None] /\ x3 = {}
      /\ x4 = [n \in Names |-> <<>>] /\ x5 = None /\ x6 = {} /\ x7 = 0 /\ x8 = 0
  BY DEF Skills!Init
<1>2. Listing(<<>>)
  BY DEF Listing
<1>3. \A n \in Names : x4[n] = <<>>
  BY <1>1
<1>4. x4 \in [Names -> Seq(Skills!Offers)] /\ \A n \in Names : Listing(x4[n])
  BY <1>1, <1>2, <1>3
<1>5. \A n \in Names : \A i \in DOMAIN x4[n] : x4[n][i] \in Skills!Offers
  BY <1>4, SkillsListed
<1>6. Skills!TypeOK
  BY <1>1, <1>5, SkillsConstants DEF Skills!TypeOK
<1> QED
  BY <1>1, <1>4, <1>6 DEF SkillsInv

LEMMA SkillsStep ==
    ASSUME SkillsInv, Skills!Next \/ UNCHANGED own
    PROVE  SkillsInv'
<1>1. CASE UNCHANGED own
  BY <1>1 DEF own, SkillsInv, Skills!TypeOK, Listing
<1> QED
  BY <1>1, SkillsFiles, SkillsRegistry, SkillsSend, SkillsReceive DEF Skills!Next

\* Each provider has one offer of a skill, and the cheapest is first.
LEMMA SkillsOffered == SkillsInv => Skills!OffersOrdered
BY SkillsListed DEF SkillsInv, Skills!OffersOrdered

-------------------------------------------------------------------------------
(* Tools                                                                   *)

LEMMA ToolsConstants ==
    /\ IsFiniteSet(Calls) /\ None \notin Builtin!Places \cup Builtin!Wishes
    /\ Pipe \in Nat /\ Pipe > 0
<1>1. /\ Builtin!IsFiniteSet(Calls) /\ None \notin Builtin!Places \cup Builtin!Wishes
      /\ {Pipe, MaxInput, MaxOutput, MaxLength} \subseteq Nat \ {0}
  BY NodeAssumption DEF Builtin!ToolsAssumption
<1>2. Builtin!IsFiniteSet(Calls) <=> IsFiniteSet(Calls)
  BY Zenon DEF Builtin!IsFiniteSet, IsFiniteSet
<1> QED
  BY <1>1, <1>2

\* What the statistics do at the end of a call.
Books(c, how) ==
    IF how \in {"ok", "failed"} /\ c \notin x1
    THEN x5' = [total |-> x5.total + 1, ok |-> x5.ok + IF how = "ok" THEN 1 ELSE 0,
                failed |-> x5.failed + IF how = "ok" THEN 0 ELSE 1]
    ELSE x5' = x5

LEMMA EndsAreCounted ==
    ASSUME ToolsInv, NEW c \in Calls, NEW how \in {"ok", "failed"}, x1' = x1,
           x3[c].step \notin {"ok", "failed"},
           \A d \in Calls : d # c => x3'[d] = x3[d]
    PROVE  /\ Ended(how) \subseteq Calls /\ Cardinality(Ended(how)) \in Nat
           /\ Cardinality(Ended(how)') =
                Cardinality(Ended(how)) + IF c \notin x1 /\ x3'[c].step = how THEN 1 ELSE 0
<1>1. Ended(how) \subseteq Calls /\ c \notin Ended(how)
  BY DEF Ended
<1>2. /\ Cardinality(Ended(how)) \in Nat
      /\ Cardinality(Ended(how) \cup {c}) = Cardinality(Ended(how)) + 1
  BY <1>1, ToolsConstants, OneMoreOrLess
<1>3. CASE c \notin x1 /\ x3'[c].step = how
  <2>1. Ended(how)' = Ended(how) \cup {c}
    BY <1>1, <1>3 DEF Ended
  <2> QED
    BY <1>1, <1>2, <1>3, <2>1
<1>4. CASE ~(c \notin x1 /\ x3'[c].step = how)
  <2>1. Ended(how)' = Ended(how)
    BY <1>1, <1>4 DEF Ended
  <2> QED
    BY <1>1, <1>2, <1>4, <2>1
<1> QED
  BY <1>3, <1>4

\* A call that has not ended goes on, with its child.
LEMMA CallMoves ==
    ASSUME ToolsInv, NEW c \in Calls, NEW r, NEW ch, SoundCall(r), SoundChild(r, ch),
           DOMAIN x3' = Calls, x3'[c] = r, \A d \in Calls : d # c => x3'[d] = x3[d],
           DOMAIN x4' = Calls, x4'[c] = ch, \A d \in Calls : d # c => x4'[d] = x4[d],
           x1' = x1, x2' = None \/ x2' \in Seq(Pieces),
           x3[c].step \notin {"ok", "failed"}, Books(c, r.step)
    PROVE  ToolsInv'
<1>1. \A d \in Calls : SoundCall(x3'[d]) /\ SoundChild(x3'[d], x4'[d])
  BY DEF ToolsInv
<1>2. \A d \in Calls : SoundCall(x3[d])' /\ SoundChild(x3[d], x4[d])'
  BY <1>1 DEF SoundCall, SoundChild, Children
<1>3. /\ Cardinality(Ended("ok")) \in Nat /\ Cardinality(Ended("failed")) \in Nat
      /\ Cardinality(Ended("ok")') =
           Cardinality(Ended("ok")) + IF c \notin x1 /\ r.step = "ok" THEN 1 ELSE 0
      /\ Cardinality(Ended("failed")') =
           Cardinality(Ended("failed")) + IF c \notin x1 /\ r.step = "failed" THEN 1 ELSE 0
  BY EndsAreCounted
<1>4. /\ x5'.ok = Cardinality(Ended("ok")') /\ x5'.failed = Cardinality(Ended("failed")')
      /\ x5'.total = x5'.ok + x5'.failed /\ x5' \in [total : Nat, ok : Nat, failed : Nat]
  <2>1. /\ x5 \in [total : Nat, ok : Nat, failed : Nat]
        /\ x5.ok = Cardinality(Ended("ok")) /\ x5.failed = Cardinality(Ended("failed"))
        /\ x5.total = x5.ok + x5.failed
    BY DEF ToolsInv
  <2>2. CASE r.step \in {"ok", "failed"} /\ c \notin x1
    <3>1. x5' = [total |-> x5.total + 1, ok |-> x5.ok + IF r.step = "ok" THEN 1 ELSE 0,
                 failed |-> x5.failed + IF r.step = "ok" THEN 0 ELSE 1]
      BY <2>2 DEF Books
    <3>2. CASE r.step = "ok"
      BY <1>3, <2>1, <2>2, <3>1, <3>2
    <3>3. CASE r.step = "failed"
      BY <1>3, <2>1, <2>2, <3>1, <3>3
    <3> QED
      BY <2>2, <3>2, <3>3
  <2>3. CASE ~(r.step \in {"ok", "failed"} /\ c \notin x1)
    <3>1. x5' = x5
      BY <2>3 DEF Books
    <3> QED
      BY <1>3, <2>1, <2>3, <3>1
  <2> QED
    BY <2>2, <2>3
<1> QED
  BY <1>2, <1>4 DEF ToolsInv

\* The same for one that has no child, or whose child stays as it is.
LEMMA CallGoes ==
    ASSUME ToolsInv, NEW c \in Calls, NEW r, SoundCall(r), SoundChild(r, x4[c]),
           x3' = [x3 EXCEPT ![c] = r], UNCHANGED <<x1, x4>>,
           x2' = None \/ x2' \in Seq(Pieces),
           x3[c].step \notin {"ok", "failed"}, Books(c, r.step)
    PROVE  ToolsInv'
<1>1. /\ DOMAIN x3' = Calls /\ x3'[c] = r /\ \A d \in Calls : d # c => x3'[d] = x3[d]
      /\ DOMAIN x4' = Calls /\ \A d \in Calls : x4'[d] = x4[d]
  BY DEF ToolsInv
<1> QED
  BY <1>1, CallMoves

\* A child goes on, or what it started does.
LEMMA ChildGoes ==
    ASSUME ToolsInv, NEW c \in Calls, NEW ch, SoundChild(x3[c], ch),
           x4' = [x4 EXCEPT ![c] = ch], UNCHANGED <<x1, x2, x3, x5>>
    PROVE  ToolsInv'
<1>1. /\ x1 \subseteq Calls /\ (x2 = None \/ x2 \in Seq(Pieces))
      /\ DOMAIN x3 = Calls /\ DOMAIN x4 = Calls
      /\ x5 \in [total : Nat, ok : Nat, failed : Nat]
      /\ x5.ok = Cardinality(Ended("ok")) /\ x5.failed = Cardinality(Ended("failed"))
      /\ x5.total = x5.ok + x5.failed
      /\ \A d \in Calls : SoundCall(x3[d]) /\ SoundChild(x3[d], x4[d])
  BY DEF ToolsInv
<1>2. DOMAIN x4' = Calls /\ x4'[c] = ch /\ \A d \in Calls : d # c => x4'[d] = x4[d]
  BY <1>1
<1>3. \A d \in Calls : SoundCall(x3'[d]) /\ SoundChild(x3'[d], x4'[d])
  BY <1>1, <1>2
<1>4. \A d \in Calls : SoundCall(x3[d])' /\ SoundChild(x3[d], x4[d])'
  BY <1>3 DEF SoundCall, SoundChild, Children
<1>5. Ended("ok")' = Ended("ok") /\ Ended("failed")' = Ended("failed")
  BY DEF Ended
<1> QED
  BY Zenon, <1>1, <1>2, <1>4, <1>5 DEF ToolsInv

\* A call that has not begun has no child that lives.
LEMMA FreshCall ==
    ASSUME ToolsInv, NEW c \in Calls, x3[c].step \in {None, "read"}
    PROVE  /\ x3[c].step \notin {"ok", "failed"}
           /\ \A r : \/ r.step \in {"ok", "error", "read"} /\ r.tool \notin {"shell", "code"}
                     \/ r.step = "error"
                    => SoundChild(r, x4[c])
<1>1. SoundChild(x3[c], x4[c])
  BY DEF ToolsInv
<1>2. x3[c].step \notin {"ok", "failed", "stdin", "stdout", "timeout"}
  BY ToolsConstants DEF Builtin!Places
<1>3. x4[c].alive \in BOOLEAN /\ ~x4[c].alive /\ x4[c].rest # "holding"
  BY <1>1, <1>2 DEF SoundChild, Children
<1> QED
  BY <1>1, <1>2, <1>3 DEF SoundChild

LEMMA ToolsRefuse ==
    ASSUME ToolsInv, NEW c \in Calls, NEW t \in Builtin!Tools, Builtin!Refuse(c, t)
    PROVE  ToolsInv'
<1> DEFINE r == [tool |-> t, step |-> "error"]
<1>1. x3[c].step = None /\ x3' = [x3 EXCEPT ![c] = r] /\ UNCHANGED <<x1, x2, x4, x5>>
  BY DEF Builtin!Refuse
<1>2. SoundCall(r) /\ r.step = "error"
  BY DEF SoundCall, Builtin!Places
<1> HIDE DEF r
<1>3. SoundChild(r, x4[c]) /\ x3[c].step \notin {"ok", "failed"}
  BY <1>1, <1>2, FreshCall
<1>4. (x2' = None \/ x2' \in Seq(Pieces)) /\ Books(c, r.step)
  BY <1>1, <1>2 DEF ToolsInv, Books
<1> QED
  BY <1>1, <1>2, <1>3, <1>4, CallGoes

\* A tool that writes the file is done with it.
LEMMA ToolsDone ==
    ASSUME ToolsInv, NEW c \in Calls, NEW t \in {"write", "append"}, Builtin!Done(c, t),
           x3[c].step = None, x2' = None \/ x2' \in Seq(Pieces)
    PROVE  ToolsInv'
<1> DEFINE r == [tool |-> t, step |-> "ok"]
<1>1. x3' = [x3 EXCEPT ![c] = r] /\ UNCHANGED <<x1, x4>>
  BY DEF Builtin!Done
<1>2. SoundCall(r) /\ r.step = "ok" /\ r.tool \notin {"shell", "code"}
  BY DEF SoundCall, Builtin!Places, Builtin!Tools
<1>3. Books(c, "ok")
  BY DEF Builtin!Done, Builtin!Counted, Builtin!Direct, Books
<1> HIDE DEF r
<1>4. SoundChild(r, x4[c]) /\ x3[c].step \notin {"ok", "failed"}
  BY <1>2, FreshCall
<1> QED
  BY <1>1, <1>2, <1>3, <1>4, CallGoes

LEMMA ToolsWrite ==
    ASSUME ToolsInv, NEW c \in Calls, NEW p \in Pieces,
           Builtin!Write(c, <<p>>) \/ Builtin!AppendTo(c, p)
    PROVE  ToolsInv'
<1>1. <<p>> \in Seq(Pieces)
  OBVIOUS
<1>2. CASE Builtin!Write(c, <<p>>)
  BY <1>1, <1>2, ToolsDone DEF Builtin!Write
<1>3. CASE Builtin!AppendTo(c, p)
  <2>1. x3[c].step = None /\ Builtin!Done(c, "append")
    BY <1>3 DEF Builtin!AppendTo
  <2>2. x2' = <<p>> \/ (x2 # None /\ x2' = Append(x2, p))
    BY <1>3 DEF Builtin!AppendTo
  <2>3. x2' \in Seq(Pieces)
    <3>1. x2 # None => x2 \in Seq(Pieces)
      BY DEF ToolsInv
    <3>2. \A q \in Seq(Pieces) : Append(q, p) \in Seq(Pieces)
      BY AppendProperties
    <3> QED
      BY <1>1, <2>2, <3>1, <3>2
  <2> QED
    BY <2>1, <2>3, ToolsDone
<1> QED
  BY <1>2, <1>3

LEMMA ToolsRead ==
    ASSUME ToolsInv, NEW c \in Calls, NEW old \in Pieces, NEW new \in Pieces, NEW create \in BOOLEAN,
           Builtin!ReadFile(c, old, new, create)
    PROVE  ToolsInv'
<1> DEFINE failed == [tool |-> "patch", step |-> "error"]
           read == [tool |-> "patch", step |-> "read", old |-> old, new |-> new, seen |-> x2]
<1>1. /\ x3[c].step = None /\ UNCHANGED <<x1, x2, x4, x5>>
      /\ x3' = [x3 EXCEPT ![c] = failed] \/ x3' = [x3 EXCEPT ![c] = read]
  BY DEF Builtin!ReadFile
<1>2. x2' = None \/ x2' \in Seq(Pieces)
  BY <1>1 DEF ToolsInv
<1>3. /\ SoundCall(failed) /\ failed.step = "error" /\ failed.tool = "patch"
      /\ SoundCall(read) /\ read.step = "read" /\ read.tool = "patch"
  BY DEF ToolsInv, SoundCall, Builtin!Places, Builtin!Tools
<1> HIDE DEF failed, read
<1>4. /\ SoundChild(failed, x4[c]) /\ SoundChild(read, x4[c])
      /\ x3[c].step \notin {"ok", "failed"}
  BY <1>1, <1>3, FreshCall
<1>5. Books(c, failed.step) /\ Books(c, read.step)
  BY <1>1, <1>3 DEF Books
<1> QED
  BY <1>1, <1>2, <1>3, <1>4, <1>5, CallGoes

LEMMA ToolsPatch ==
    ASSUME ToolsInv, NEW c \in Calls, Builtin!WriteFile(c)
    PROVE  ToolsInv'
<1>1. x3[c].step = "read" /\ UNCHANGED <<x1, x4>> /\ SoundCall(x3[c])
  BY DEF Builtin!WriteFile, ToolsInv
<1>2. x3[c].seen \in Seq(Pieces) \cup {None} /\ x3[c].new \in Pieces
  BY <1>1 DEF SoundCall
<1>3. x2' = None \/ x2' \in Seq(Pieces)
  <2>1. CASE x3[c].seen = None
    <3>1. x2' = <<x3[c].new>>
      BY <2>1 DEF Builtin!WriteFile
    <3> QED
      BY <1>2, <3>1
  <2>2. CASE x3[c].seen # None /\ x2' = x2
    BY <2>2 DEF ToolsInv
  <2>3. CASE /\ x3[c].seen # None
             /\ x2' = Builtin!Patched(x3[c].seen, x3[c].old, x3[c].new)
    <3> DEFINE i == CHOOSE i \in {k \in DOMAIN x3[c].seen : x3[c].seen[k] = x3[c].old} :
                      \A j \in {k \in DOMAIN x3[c].seen : x3[c].seen[k] = x3[c].old} : i <= j
    <3>1. x2' = [x3[c].seen EXCEPT ![i] = x3[c].new]
      BY <2>3 DEF Builtin!Patched
    <3> HIDE DEF i
    <3>2. x3[c].seen \in Seq(Pieces)
      BY <1>2, <2>3
    <3>3. x2' \in [1 .. Len(x3[c].seen) -> Pieces] /\ Len(x3[c].seen) \in Nat
      BY <1>2, <3>1, <3>2, LenProperties, ElementOfSeq
    <3> QED
      BY <3>3, SeqDef
  <2> QED
    BY <2>1, <2>2, <2>3 DEF Builtin!WriteFile
<1>4. PICK how \in {"ok", "error"} : Builtin!Ends(c, how)
  BY DEF Builtin!WriteFile
<1> DEFINE r == [x3[c] EXCEPT !.step = how]
<1>5. x3' = [x3 EXCEPT ![c] = r] /\ Books(c, how)
  BY <1>4 DEF ToolsInv, Builtin!Ends, Builtin!Counted, Builtin!Direct, Books
<1>6. r.step = how /\ r.tool = x3[c].tool /\ {"tool", "step"} \subseteq DOMAIN r
  BY <1>1 DEF SoundCall
<1>7. x3[c].tool \in Builtin!Tools \cup {None} /\ ~x4[c].alive
  BY <1>1 DEF ToolsInv, SoundCall, SoundChild
<1> HIDE DEF r
<1>8. SoundCall(r)
  BY <1>6, <1>7 DEF SoundCall, Builtin!Places
<1>9. SoundChild(r, x4[c]) /\ x3[c].step \notin {"ok", "failed"}
  BY <1>1, <1>6, FreshCall DEF SoundCall
<1> QED
  BY <1>1, <1>3, <1>5, <1>6, <1>8, <1>9, CallGoes

LEMMA ToolsSpawn ==
    ASSUME ToolsInv, NEW c \in Calls, NEW t \in Builtin!Tools, NEW n \in 0 .. MaxInput,
           Builtin!Spawn(c, t, n)
    PROVE  ToolsInv'
<1> DEFINE to == IF n > 0 THEN "stdin" ELSE "stdout"
           r == [tool |-> t, input |-> n, given |-> Builtin!Nothing, step |-> to]
           ch == [Builtin!NoChild EXCEPT !.alive = TRUE, !.open = (t = "shell")]
<1>1. /\ x3[c].step = None /\ t \in {"shell", "code"} /\ (t = "code" => n = 0)
      /\ x3' = [x3 EXCEPT ![c] = r] /\ x4' = [x4 EXCEPT ![c] = ch] /\ UNCHANGED <<x1, x2, x5>>
  BY DEF Builtin!Spawn
<1>2. /\ SoundCall(r) /\ r.step \in {"stdin", "stdout"} /\ r.tool \in {"shell", "code"}
  BY <1>1 DEF SoundCall, Builtin!Places, Builtin!Tools
<1>3. SoundChild(r, ch)
  <2>1. Builtin!NoChild \in Children
    <3>1. 0 \in 0 .. Pipe /\ Builtin!Nothing \in [Builtin!Streams -> Nat]
      BY ToolsConstants DEF Builtin!Nothing
    <3> QED
      BY <3>1 DEF Builtin!NoChild, Children
  <2>2. TRUE \in BOOLEAN /\ (t = "shell") \in BOOLEAN
    BY Zenon
  <2>3. ch \in Children
    BY <2>1, <2>2, Zenon DEF Children
  <2>4. /\ ch.wrote["out"] = 0 /\ ch.got["out"] = 0 /\ ch.wrote["err"] = 0 /\ ch.got["err"] = 0
        /\ ch.out = 0 /\ ch.err = 0 /\ ch.alive /\ ch.rest = "none"
    BY DEF Builtin!NoChild, Builtin!Nothing, Builtin!Streams
  <2> HIDE DEF ch, r
  <2> QED
    BY <1>2, <2>3, <2>4 DEF SoundChild
<1> HIDE DEF r, ch
<1>4. /\ DOMAIN x3' = Calls /\ x3'[c] = r /\ \A d \in Calls : d # c => x3'[d] = x3[d]
      /\ DOMAIN x4' = Calls /\ x4'[c] = ch /\ \A d \in Calls : d # c => x4'[d] = x4[d]
      /\ x2' = None \/ x2' \in Seq(Pieces)
  BY <1>1 DEF ToolsInv
<1>5. x3[c].step \notin {"ok", "failed"} /\ Books(c, r.step)
  BY <1>1, <1>2, FreshCall DEF Books
<1> QED
  BY <1>1, <1>2, <1>3, <1>4, <1>5, CallMoves

\* What a child does on its own.
LEMMA ToolsChild ==
    ASSUME ToolsInv, NEW c \in Calls,
           \/ \E w \in Builtin!Wishes : Builtin!Wants(c, w)
           \/ Builtin!ChildReads(c) \/ Builtin!ChildSeesEnd(c) \/ Builtin!ChildExits(c)
    PROVE  ToolsInv'
<1> USE DEF Builtin!Wishes, Builtin!Streams
<1>1. SoundChild(x3[c], x4[c]) /\ x4[c] \in Children /\ DOMAIN x4 = Calls
  BY DEF ToolsInv, SoundChild
<1>2. None \notin Builtin!Wishes /\ Pipe \in Nat
  BY ToolsConstants
<1>3. x4[c].wants \in {"in", "exit"} => x4[c].alive
  BY <1>1, <1>2 DEF SoundChild, Children
<1>4. CASE \E w \in Builtin!Wishes : Builtin!Wants(c, w)
  <2>1. PICK w \in Builtin!Wishes : Builtin!Wants(c, w)
    BY <1>4
  <2> DEFINE ch == [x4[c] EXCEPT !.wants = w]
  <2>2. /\ x4[c].alive \/ (x4[c].rest = "holding" /\ w \in Builtin!Streams)
        /\ x4' = [x4 EXCEPT ![c] = ch] /\ UNCHANGED <<x1, x2, x3, x5>>
    BY <1>1, <2>1 DEF Builtin!Wants
  <2>3. SoundChild(x3[c], ch)
    BY <1>1, <2>2 DEF SoundChild, Children
  <2> HIDE DEF ch
  <2> QED
    BY <2>2, <2>3, ChildGoes
<1>5. CASE Builtin!ChildReads(c)
  <2> DEFINE ch == [x4[c] EXCEPT !.in = @ - 1]
  <2>1. x4[c].wants = "in" /\ x4[c].in > 0 /\ x4' = [x4 EXCEPT ![c] = ch] /\ UNCHANGED <<x1, x2, x3, x5>>
    BY <1>1, <1>5 DEF Builtin!ChildReads
  <2>2. SoundChild(x3[c], ch)
    <3>1. x4[c].in - 1 \in 0 .. Pipe
      BY <1>1, <1>2, <2>1 DEF Children
    <3>2. ch \in Children
      BY <1>1, <3>1 DEF Children
    <3> QED
      BY <1>1, <1>3, <2>1, <3>2 DEF SoundChild, Children
  <2> HIDE DEF ch
  <2> QED
    BY <2>1, <2>2, ChildGoes
<1>6. CASE Builtin!ChildSeesEnd(c)
  <2> DEFINE ch == [x4[c] EXCEPT !.wants = None]
  <2>1. x4[c].wants = "in" /\ x4' = [x4 EXCEPT ![c] = ch] /\ UNCHANGED <<x1, x2, x3, x5>>
    BY <1>1, <1>6 DEF Builtin!ChildSeesEnd
  <2>2. SoundChild(x3[c], ch)
    BY <1>1 DEF SoundChild, Children
  <2> HIDE DEF ch
  <2> QED
    BY <2>1, <2>2, ChildGoes
<1>7. CASE Builtin!ChildExits(c)
  <2> DEFINE ch == [x4[c] EXCEPT !.alive = FALSE, !.wants = None]
  <2>1. x4' = [x4 EXCEPT ![c] = ch] /\ UNCHANGED <<x1, x2, x3, x5>>
    BY <1>1, <1>7 DEF Builtin!ChildExits
  <2>2. SoundChild(x3[c], ch)
    BY <1>1 DEF SoundChild, Children
  <2> HIDE DEF ch
  <2> QED
    BY <2>1, <2>2, ChildGoes
<1> QED
  BY <1>4, <1>5, <1>6, <1>7

\* What a child starts, and what becomes of that.
LEMMA ToolsRest ==
    ASSUME ToolsInv, NEW c \in Calls,
           \/ \E how \in {"holding", "apart"} : Builtin!Starts(c, how)
           \/ Builtin!RestEnds(c)
           \/ \E survives \in BOOLEAN : Builtin!WriteFails(c, survives)
    PROVE  ToolsInv'
<1>1. SoundChild(x3[c], x4[c]) /\ x4[c] \in Children /\ DOMAIN x4 = Calls
  BY DEF ToolsInv, SoundChild
<1>2. ASSUME NEW how \in {"holding", "apart"}, Builtin!Starts(c, how) PROVE ToolsInv'
  <2> DEFINE ch == [x4[c] EXCEPT !.rest = how]
  <2>1. x4[c].alive /\ x4' = [x4 EXCEPT ![c] = ch] /\ UNCHANGED <<x1, x2, x3, x5>>
    BY <1>1, <1>2 DEF Builtin!Starts
  <2>2. SoundChild(x3[c], ch)
    BY <1>1, <2>1 DEF SoundChild, Children
  <2> HIDE DEF ch
  <2> QED
    BY <2>1, <2>2, ChildGoes
<1>3. CASE Builtin!RestEnds(c)
  <2> DEFINE ch == [x4[c] EXCEPT !.rest = "none"]
  <2>1. /\ x4[c].alive \/ x4[c].wants = None
        /\ x4' = [x4 EXCEPT ![c] = ch] /\ UNCHANGED <<x1, x2, x3, x5>>
    BY <1>1, <1>3 DEF Builtin!RestEnds
  <2>2. SoundChild(x3[c], ch)
    BY <1>1, <2>1 DEF SoundChild, Children
  <2> HIDE DEF ch
  <2> QED
    BY <2>1, <2>2, ChildGoes
<1>4. ASSUME NEW survives \in BOOLEAN, Builtin!WriteFails(c, survives) PROVE ToolsInv'
  <2>1. PICK a \in BOOLEAN : a = (x4[c].alive /\ survives)
    BY Zenon
  <2> DEFINE ch == [x4[c] EXCEPT !.alive = a, !.wants = None]
  <2>2. x4' = [x4 EXCEPT ![c] = ch] /\ UNCHANGED <<x1, x2, x3, x5>>
    BY <1>1, <1>4, <2>1 DEF Builtin!WriteFails
  <2>3. a => x4[c].alive
    BY Zenon, <2>1
  <2>4. SoundChild(x3[c], ch)
    BY <1>1, <2>3 DEF SoundChild, Children
  <2> HIDE DEF ch
  <2> QED
    BY <2>2, <2>4, ChildGoes
<1> QED
  BY <1>2, <1>3, <1>4

\* What is written into a pipe, and what is read from it.
LEMMA PipeMoves ==
    ASSUME NEW ch \in Children, NEW w, NEW n \in 0 .. Pipe,
           w \in Builtin!Wishes \cup {None}, NEW s \in Builtin!Streams
    PROVE  /\ [ch.wrote EXCEPT ![s] = @ + 1] \in [Builtin!Streams -> Nat]
           /\ [ch.got EXCEPT ![s] = @ + 1] \in [Builtin!Streams -> Nat]
           /\ \A f \in [Builtin!Streams -> Nat] :
                /\ [ch EXCEPT !.out = n, !.wants = w, !.wrote = f] \in Children
                /\ [ch EXCEPT !.err = n, !.wants = w, !.wrote = f] \in Children
                /\ [ch EXCEPT !.out = n, !.got = f] \in Children
                /\ [ch EXCEPT !.err = n, !.got = f] \in Children
<1>1. ch.wrote \in [Builtin!Streams -> Nat] /\ ch.got \in [Builtin!Streams -> Nat]
  BY DEF Children
<1>2. \A f \in [Builtin!Streams -> Nat] : [f EXCEPT ![s] = @ + 1] \in [Builtin!Streams -> Nat]
  OBVIOUS
<1> QED
  BY Zenon, <1>1, <1>2 DEF Children

\* What a child writes is in a pipe until the tool reads it.
LEMMA ToolsStreams ==
    ASSUME ToolsInv, NEW c \in Calls,
           Builtin!ChildWrites(c) \/ \E s \in Builtin!Streams : Builtin!Read(c, s)
    PROVE  ToolsInv'
<1>1. SoundChild(x3[c], x4[c]) /\ x4[c] \in Children /\ DOMAIN x4 = Calls
  BY DEF ToolsInv, SoundChild
<1>2. /\ x4[c].wrote \in [Builtin!Streams -> Nat] /\ x4[c].got \in [Builtin!Streams -> Nat]
      /\ None \in Builtin!Wishes \cup {None} /\ "out" \in Builtin!Streams /\ "err" \in Builtin!Streams
      /\ x4[c].out \in 0 .. Pipe /\ x4[c].err \in 0 .. Pipe
  BY <1>1 DEF Children, Builtin!Streams
<1>3. None \notin Builtin!Wishes /\ Pipe \in Nat
  BY ToolsConstants
<1>4. CASE Builtin!ChildWrites(c)
  <2>1. /\ x4[c].wants \in {"out", "err"} /\ x4[c][x4[c].wants] < Pipe
        /\ UNCHANGED <<x1, x2, x3, x5>>
    BY <1>4 DEF Builtin!ChildWrites, Builtin!Streams
  <2>2. x3[c].step \in {"stdin", "stdout", "timeout"} /\ x4[c].wants # None
    BY <1>1, <1>3, <2>1 DEF SoundChild, Children, Builtin!Wishes
  <2>3. CASE x4[c].wants = "out"
    <3>1. PICK f : f = [x4[c].wrote EXCEPT !["out"] = @ + 1]
      OBVIOUS
    <3> DEFINE ch == [x4[c] EXCEPT !.out = @ + 1, !.wants = None, !.wrote = f]
    <3>2. x4' = [x4 EXCEPT ![c] = ch]
      BY <1>1, <1>4, <2>3, <3>1 DEF Builtin!ChildWrites, Children
    <3>3. x4[c].out + 1 \in 0 .. Pipe
      BY <1>2, <1>3, <2>1, <2>3
    <3>4. ch \in Children
      BY Zenon, <1>1, <1>2, <3>1, <3>3, PipeMoves
    <3>5. /\ ch.wrote["out"] = x4[c].wrote["out"] + 1 /\ ch.wrote["err"] = x4[c].wrote["err"]
          /\ ch.out = x4[c].out + 1 /\ ch.wants = None /\ ch.err = x4[c].err
          /\ ch.alive = x4[c].alive /\ ch.rest = x4[c].rest /\ ch.got = x4[c].got
      BY <1>1, <1>2, <3>1 DEF Children
    <3> HIDE DEF ch
    <3>6. SoundChild(x3[c], ch)
      BY <1>1, <1>2, <1>3, <2>1, <2>2, <3>4, <3>5 DEF SoundChild, Builtin!Streams
    <3> QED
      BY <2>1, <3>2, <3>6, ChildGoes
  <2>4. CASE x4[c].wants = "err"
    <3>1. PICK f : f = [x4[c].wrote EXCEPT !["err"] = @ + 1]
      OBVIOUS
    <3> DEFINE ch == [x4[c] EXCEPT !.err = @ + 1, !.wants = None, !.wrote = f]
    <3>2. x4' = [x4 EXCEPT ![c] = ch]
      BY <1>1, <1>4, <2>4, <3>1 DEF Builtin!ChildWrites, Children
    <3>3. x4[c].err + 1 \in 0 .. Pipe
      BY <1>2, <1>3, <2>1, <2>4
    <3>4. ch \in Children
      BY Zenon, <1>1, <1>2, <3>1, <3>3, PipeMoves
    <3>5. /\ ch.wrote["err"] = x4[c].wrote["err"] + 1 /\ ch.wrote["out"] = x4[c].wrote["out"]
          /\ ch.err = x4[c].err + 1 /\ ch.wants = None /\ ch.out = x4[c].out
          /\ ch.alive = x4[c].alive /\ ch.rest = x4[c].rest /\ ch.got = x4[c].got
      BY <1>1, <1>2, <3>1 DEF Children
    <3> HIDE DEF ch
    <3>6. SoundChild(x3[c], ch)
      BY <1>1, <1>2, <1>3, <2>1, <2>2, <3>4, <3>5 DEF SoundChild, Builtin!Streams
    <3> QED
      BY <2>1, <3>2, <3>6, ChildGoes
  <2> QED
    BY <2>1, <2>3, <2>4
<1>5. CASE \E s \in Builtin!Streams : Builtin!Read(c, s)
  <2>1. PICK s \in {"out", "err"} : Builtin!Read(c, s)
    BY <1>5 DEF Builtin!Streams
  <2>2. /\ x3[c].step \in {"stdout", "stderr"} /\ x4[c][s] > 0
        /\ UNCHANGED <<x1, x2, x3, x5>>
    BY <2>1 DEF Builtin!Read
  <2>3. CASE s = "out"
    <3>1. PICK f : f = [x4[c].got EXCEPT !["out"] = @ + 1]
      OBVIOUS
    <3> DEFINE ch == [x4[c] EXCEPT !.out = @ - 1, !.got = f]
    <3>2. x4' = [x4 EXCEPT ![c] = ch]
      BY <1>1, <2>1, <2>3, <3>1 DEF Builtin!Read, Children
    <3>3. x4[c].out - 1 \in 0 .. Pipe /\ x4[c].out > 0
      BY <1>2, <1>3, <2>2, <2>3
    <3>4. ch \in Children
      BY Zenon, <1>1, <1>2, <3>1, <3>3, PipeMoves
    <3>5. /\ ch.got["out"] = x4[c].got["out"] + 1 /\ ch.got["err"] = x4[c].got["err"]
          /\ ch.out = x4[c].out - 1 /\ ch.wants = x4[c].wants /\ ch.err = x4[c].err
          /\ ch.alive = x4[c].alive /\ ch.rest = x4[c].rest /\ ch.wrote = x4[c].wrote
      BY <1>1, <1>2, <3>1 DEF Children
    <3> HIDE DEF ch
    <3>6. SoundChild(x3[c], ch)
      BY <1>1, <1>2, <2>2, <3>3, <3>4, <3>5 DEF SoundChild, Builtin!Streams
    <3> QED
      BY <2>2, <3>2, <3>6, ChildGoes
  <2>4. CASE s = "err"
    <3>1. PICK f : f = [x4[c].got EXCEPT !["err"] = @ + 1]
      OBVIOUS
    <3> DEFINE ch == [x4[c] EXCEPT !.err = @ - 1, !.got = f]
    <3>2. x4' = [x4 EXCEPT ![c] = ch]
      BY <1>1, <2>1, <2>4, <3>1 DEF Builtin!Read, Children
    <3>3. x4[c].err - 1 \in 0 .. Pipe /\ x4[c].err > 0
      BY <1>2, <1>3, <2>2, <2>4
    <3>4. ch \in Children
      BY Zenon, <1>1, <1>2, <3>1, <3>3, PipeMoves
    <3>5. /\ ch.got["err"] = x4[c].got["err"] + 1 /\ ch.got["out"] = x4[c].got["out"]
          /\ ch.err = x4[c].err - 1 /\ ch.wants = x4[c].wants /\ ch.out = x4[c].out
          /\ ch.alive = x4[c].alive /\ ch.rest = x4[c].rest /\ ch.wrote = x4[c].wrote
      BY <1>1, <1>2, <3>1 DEF Children
    <3> HIDE DEF ch
    <3>6. SoundChild(x3[c], ch)
      BY <1>1, <1>2, <2>2, <3>3, <3>4, <3>5 DEF SoundChild, Builtin!Streams
    <3> QED
      BY <2>2, <3>2, <3>6, ChildGoes
  <2> QED
    BY <2>3, <2>4
<1> QED
  BY <1>4, <1>5

LEMMA ToolsFeed ==
    ASSUME ToolsInv, NEW c \in Calls, Builtin!Feed(c)
    PROVE  ToolsInv'
<1>1. /\ SoundCall(x3[c]) /\ SoundChild(x3[c], x4[c]) /\ x4[c] \in Children
      /\ DOMAIN x3 = Calls /\ DOMAIN x4 = Calls /\ (x2 = None \/ x2 \in Seq(Pieces))
  BY DEF ToolsInv, SoundChild
<1>2. x3[c].step = "stdin" /\ UNCHANGED <<x1, x2, x5>> /\ x3[c].tool = "shell"
  BY <1>1 DEF Builtin!Feed, SoundCall
<1>3. CASE \/ x3[c].input = 0
           \/ ~x4[c].alive
  <2> DEFINE r == [x3[c] EXCEPT !.step = "stdout"]
             ch == [x4[c] EXCEPT !.open = FALSE]
  <2>1. x3' = [x3 EXCEPT ![c] = r] /\ x4' = [x4 EXCEPT ![c] = ch]
    BY <1>1, <1>3 DEF Builtin!Feed
  <2>2. /\ {"tool", "step", "given"} \subseteq DOMAIN r /\ r.step = "stdout" /\ r.tool = "shell"
    BY <1>1, <1>2 DEF SoundCall
  <2> HIDE DEF r
  <2>3. SoundCall(r)
    BY <2>2 DEF SoundCall, Builtin!Places, Builtin!Tools
  <2>4. /\ ch \in Children /\ ch.wrote = x4[c].wrote /\ ch.got = x4[c].got /\ ch.out = x4[c].out
        /\ ch.err = x4[c].err /\ ch.wants = x4[c].wants /\ ch.alive = x4[c].alive
        /\ ch.rest = x4[c].rest
    BY <1>1 DEF Children
  <2> HIDE DEF ch
  <2>7. SoundChild(r, ch)
    BY <1>1, <1>2, <2>2, <2>4 DEF SoundChild
  <2>5. /\ DOMAIN x3' = Calls /\ x3'[c] = r /\ \A d \in Calls : d # c => x3'[d] = x3[d]
        /\ DOMAIN x4' = Calls /\ x4'[c] = ch /\ \A d \in Calls : d # c => x4'[d] = x4[d]
    BY <1>1, <2>1
  <2>6. x3[c].step \notin {"ok", "failed"} /\ Books(c, r.step)
    BY <1>2, <2>2 DEF Books
  <2> QED
    BY <1>1, <1>2, <2>3, <2>5, <2>6, <2>7, CallMoves
<1>4. CASE ~(\/ x3[c].input = 0
             \/ ~x4[c].alive)
  <2> DEFINE r == [x3[c] EXCEPT !.input = @ - 1]
             ch == [x4[c] EXCEPT !.in = @ + 1]
  <2>1. x3' = [x3 EXCEPT ![c] = r] /\ x4' = [x4 EXCEPT ![c] = ch] /\ x4[c].in < Pipe
    BY <1>1, <1>4 DEF Builtin!Feed
  <2>2. /\ {"tool", "step", "given"} \subseteq DOMAIN r /\ r.step = "stdin" /\ r.tool = "shell"
    BY <1>1, <1>2 DEF SoundCall
  <2> HIDE DEF r
  <2>3. SoundCall(r)
    BY <2>2 DEF SoundCall, Builtin!Places, Builtin!Tools
  <2>4. x4[c].in + 1 \in 0 .. Pipe
    BY <1>1, <2>1, ToolsConstants DEF Children
  <2>5. ch \in Children
    BY <1>1, <2>4 DEF Children
  <2>9. /\ ch.wrote = x4[c].wrote /\ ch.got = x4[c].got /\ ch.out = x4[c].out
        /\ ch.err = x4[c].err /\ ch.wants = x4[c].wants /\ ch.alive = x4[c].alive
        /\ ch.rest = x4[c].rest
    BY <1>1 DEF Children
  <2> HIDE DEF ch
  <2>6. SoundChild(r, ch)
    BY <1>1, <1>2, <2>2, <2>5, <2>9 DEF SoundChild
  <2>7. /\ DOMAIN x3' = Calls /\ x3'[c] = r /\ \A d \in Calls : d # c => x3'[d] = x3[d]
        /\ DOMAIN x4' = Calls /\ x4'[c] = ch /\ \A d \in Calls : d # c => x4'[d] = x4[d]
    BY <1>1, <2>1
  <2>8. x3[c].step \notin {"ok", "failed"} /\ Books(c, r.step)
    BY <1>2, <2>2 DEF Books
  <2> QED
    BY <1>1, <1>2, <2>3, <2>6, <2>7, <2>8, CallMoves
<1> QED
  BY <1>3, <1>4

\* Who has read what there is, after the end of the child, has all of it.
LEMMA ToolsStreamEnds ==
    ASSUME ToolsInv, NEW c \in Calls, Builtin!StreamEnds(c)
    PROVE  ToolsInv'
<1>1. /\ SoundCall(x3[c]) /\ SoundChild(x3[c], x4[c]) /\ x4[c] \in Children
      /\ DOMAIN x3 = Calls /\ (x2 = None \/ x2 \in Seq(Pieces))
  BY DEF ToolsInv, SoundChild
<1>2. /\ x3[c].step \in {"stdout", "stderr"} /\ ~x4[c].alive /\ x4[c].rest # "holding"
      /\ UNCHANGED <<x1, x2, x4>>
      /\ \A s \in Builtin!Reads(c) : x4[c][s] = 0
  BY DEF Builtin!StreamEnds
<1>3. x3[c].tool \in {"shell", "code"} /\ (x3[c].tool = "code" => x3[c].step = "stdout")
  BY <1>1, <1>2 DEF SoundCall
<1>4. /\ x3[c].tool = "code" => x4[c].out = 0 /\ x4[c].err = 0
      /\ x3[c].tool = "shell" /\ x3[c].step = "stdout" => x4[c].out = 0
      /\ x3[c].step = "stderr" => x4[c].out = 0 /\ x4[c].err = 0
  <2>1. x3[c].tool = "code" => x4[c].out = 0 /\ x4[c].err = 0
    BY <1>2, <1>3 DEF Builtin!Reads
  <2>2. x3[c].tool = "shell" /\ x3[c].step = "stdout" => x4[c].out = 0
    BY <1>2 DEF Builtin!Reads
  <2>3. x3[c].step = "stderr" => x4[c].out = 0 /\ x4[c].err = 0
    BY <1>1, <1>2, <1>3 DEF Builtin!Reads, SoundChild
  <2> QED
    BY <2>1, <2>2, <2>3
<1>5. CASE x3[c].tool = "shell" /\ x3[c].step = "stdout"
  <2> DEFINE r == [x3[c] EXCEPT !.step = "stderr"]
  <2>1. x3' = [x3 EXCEPT ![c] = r] /\ x5' = x5
    BY <1>1, <1>5 DEF Builtin!StreamEnds
  <2>2. {"tool", "step", "given"} \subseteq DOMAIN r /\ r.step = "stderr" /\ r.tool = "shell"
    BY <1>1, <1>5 DEF SoundCall
  <2> HIDE DEF r
  <2>3. SoundCall(r)
    BY <2>2 DEF SoundCall, Builtin!Places, Builtin!Tools
  <2>4. SoundChild(r, x4[c])
    BY <1>1, <1>2, <1>4, <1>5, <2>2 DEF SoundChild
  <2>5. Books(c, r.step)
    BY <2>1, <2>2 DEF Books
  <2> QED
    BY <1>1, <1>2, <1>5, <2>1, <2>3, <2>4, <2>5, CallGoes
<1>6. CASE ~(x3[c].tool = "shell" /\ x3[c].step = "stdout")
  <2>1. PICK how \in {"ok", "failed", "panic"} : Builtin!Returns(c, how)
    BY <1>6 DEF Builtin!StreamEnds
  <2>2. PICK g : g = IF how = "ok" \/ (how = "failed" /\ x3[c].tool = "code")
                     THEN Builtin!Beginnings(c) ELSE Builtin!Nothing
    OBVIOUS
  <2> DEFINE r == [x3[c] EXCEPT !.step = how, !.given = g]
  <2>3. x3' = [x3 EXCEPT ![c] = r]
    BY <1>1, <2>1, <2>2 DEF Builtin!Returns
  <2>4. Books(c, how)
    BY <2>1 DEF Builtin!Returns, Builtin!Counted, Builtin!Direct, Books
  <2>5. /\ {"tool", "step"} \subseteq DOMAIN r /\ r.step = how /\ r.tool = x3[c].tool
        /\ r.given = g
    BY <1>1, <1>2 DEF SoundCall
  <2> HIDE DEF r
  <2>6. SoundCall(r)
    BY <1>3, <2>5 DEF SoundCall, Builtin!Places, Builtin!Tools
  <2>7. x4[c].out = 0 /\ x4[c].err = 0
    BY <1>2, <1>3, <1>4, <1>6
  <2>8. x4[c].got["out"] = x4[c].wrote["out"] /\ x4[c].got["err"] = x4[c].wrote["err"]
    BY <1>1, <2>7 DEF SoundChild, Children, Builtin!Streams
  <2>9. how = "ok" \/ (how = "failed" /\ x3[c].tool = "code") =>
          \A s \in Builtin!Streams : g[s] = Builtin!Cut(x4[c].wrote[s])
    BY <2>2, <2>8 DEF Builtin!Beginnings, Builtin!Streams
  <2>10. SoundChild(r, x4[c])
    BY <1>1, <1>2, <2>1, <2>5, <2>9 DEF SoundChild
  <2> QED
    BY <1>1, <1>2, <2>3, <2>4, <2>5, <2>6, <2>10, CallGoes
<1> QED
  BY <1>5, <1>6

LEMMA ToolsTimeout ==
    ASSUME ToolsInv, NEW c \in Calls, Builtin!Timeout(c)
    PROVE  ToolsInv'
<1>1. /\ SoundCall(x3[c]) /\ SoundChild(x3[c], x4[c]) /\ x4[c] \in Children
      /\ DOMAIN x3 = Calls /\ DOMAIN x4 = Calls /\ (x2 = None \/ x2 \in Seq(Pieces))
  BY DEF ToolsInv, SoundChild
<1>2. /\ x3[c].step \in {"stdout", "stderr"} /\ UNCHANGED <<x1, x2, x5>>
  BY DEF Builtin!Timeout, Builtin!Ends
<1>3. x3[c].tool \in {"shell", "code"}
  BY <1>1, <1>2 DEF SoundCall
<1> DEFINE r == [x3[c] EXCEPT !.step = "timeout"]
           ch == IF x3[c].tool = "shell" /\ x4[c].alive THEN [x4[c] EXCEPT !.alive = FALSE, !.wants = None]
                 ELSE x4[c]
<1>4. x3' = [x3 EXCEPT ![c] = r]
  BY <1>1 DEF Builtin!Timeout, Builtin!Ends
<1>5. DOMAIN x4' = Calls /\ x4'[c] = ch /\ \A d \in Calls : d # c => x4'[d] = x4[d]
  <2>1. CASE x3[c].tool = "shell" /\ x4[c].alive
    BY <1>1, <2>1 DEF Builtin!Timeout
  <2>2. CASE ~(x3[c].tool = "shell" /\ x4[c].alive)
    BY <1>1, <2>2 DEF Builtin!Timeout
  <2> QED
    BY <2>1, <2>2
<1>6. {"tool", "step"} \subseteq DOMAIN r /\ r.step = "timeout" /\ r.tool = x3[c].tool
  BY <1>1 DEF SoundCall
<1> HIDE DEF r
<1>7. SoundCall(r)
  BY <1>3, <1>6 DEF SoundCall, Builtin!Places, Builtin!Tools
<1>8. SoundChild(r, ch)
  <2>1. CASE x3[c].tool = "shell" /\ x4[c].alive
    <3>1. ch \in Children /\ ~ch.alive /\ ch.wants = None /\ ch.rest = x4[c].rest
          /\ ch.out = x4[c].out /\ ch.err = x4[c].err /\ ch.wrote = x4[c].wrote
          /\ ch.got = x4[c].got
      BY <1>1, <2>1 DEF Children
    <3> HIDE DEF ch
    <3> QED
      BY <1>1, <1>6, <3>1 DEF SoundChild
  <2>2. CASE ~(x3[c].tool = "shell" /\ x4[c].alive)
    BY <1>1, <1>3, <1>6, <2>2 DEF SoundChild
  <2> QED
    BY <2>1, <2>2
<1> HIDE DEF ch
<1>9. DOMAIN x3' = Calls /\ x3'[c] = r /\ \A d \in Calls : d # c => x3'[d] = x3[d]
  BY <1>1, <1>4
<1>10. x3[c].step \notin {"ok", "failed"} /\ Books(c, r.step)
  BY <1>2, <1>6 DEF Books
<1> QED
  BY <1>1, <1>2, <1>5, <1>7, <1>8, <1>9, <1>10, CallMoves

LEMMA ToolsInit == Builtin!Init => ToolsInv
<1> SUFFICES ASSUME Builtin!Init PROVE ToolsInv
  OBVIOUS
<1>1. /\ x1 \subseteq Calls /\ x2 = None
      /\ x3 = [c \in Calls |-> Builtin!Free] /\ x4 = [c \in Calls |-> Builtin!NoChild]
      /\ x5 = [total |-> 0, ok |-> 0, failed |-> 0]
  BY DEF Builtin!Init
<1>2. None \notin {"read", "stdin", "stdout", "stderr", "ok", "failed", "timeout"}
  BY ToolsConstants DEF Builtin!Places
<1>3. SoundCall(Builtin!Free)
  BY <1>2 DEF SoundCall, Builtin!Free
<1>4. 0 \in 0 .. Pipe
  BY ToolsConstants
<1>5. SoundChild(Builtin!Free, Builtin!NoChild)
  <2>1. Builtin!NoChild \in Children
    BY <1>4 DEF Builtin!NoChild, Builtin!Nothing, Children
  <2> QED
    BY <1>2, <2>1 DEF SoundChild, Builtin!NoChild, Builtin!Free, Builtin!Nothing, Builtin!Streams
<1>6. Ended("ok") = {} /\ Ended("failed") = {}
  BY <1>1, <1>2 DEF Ended, Builtin!Free
<1>7. x5 \in [total : Nat, ok : Nat, failed : Nat] /\ x5.ok = 0 /\ x5.failed = 0 /\ x5.total = 0
  BY <1>1
<1>8. \A c \in Calls : SoundCall(x3[c]) /\ SoundChild(x3[c], x4[c])
  BY <1>1, <1>3, <1>5
<1> QED
  BY <1>1, <1>6, <1>7, <1>8, FS_EmptySet DEF ToolsInv

LEMMA ToolsStep ==
    ASSUME ToolsInv, Builtin!Next \/ UNCHANGED own
    PROVE  ToolsInv'
<1>1. CASE UNCHANGED own
  <2>1. UNCHANGED <<x1, x2, x3, x4, x5>>
    BY <1>1 DEF own
  <2> QED
    BY <2>1 DEF ToolsInv, Ended, SoundCall, SoundChild, Children
<1>2. CASE Builtin!Next
  <2>1. PICK c \in Calls :
          \/ \E t \in Builtin!Tools : Builtin!Refuse(c, t)
          \/ \E p \in Pieces : Builtin!Write(c, <<p>>) \/ Builtin!AppendTo(c, p)
          \/ \E old, new \in Pieces, create \in BOOLEAN : Builtin!ReadFile(c, old, new, create)
          \/ Builtin!WriteFile(c)
          \/ \E t \in Builtin!Tools, n \in 0..MaxInput : Builtin!Spawn(c, t, n)
          \/ \E w \in Builtin!Wishes : Builtin!Wants(c, w)
          \/ \E how \in {"holding", "apart"} : Builtin!Starts(c, how)
          \/ Builtin!RestEnds(c)
          \/ \E survives \in BOOLEAN : Builtin!WriteFails(c, survives)
          \/ Builtin!ChildReads(c) \/ Builtin!ChildSeesEnd(c) \/ Builtin!ChildWrites(c)
          \/ Builtin!ChildExits(c)
          \/ Builtin!Feed(c) \/ Builtin!StreamEnds(c) \/ Builtin!Timeout(c)
          \/ \E s \in Builtin!Streams : Builtin!Read(c, s)
    BY <1>2 DEF Builtin!Next
  <2> QED
    BY <2>1, ToolsRefuse, ToolsWrite, ToolsRead, ToolsPatch, ToolsSpawn, ToolsChild, ToolsRest,
       ToolsStreams, ToolsFeed, ToolsStreamEnds, ToolsTimeout
<1> QED
  BY <1>1, <1>2

LEMMA ToolsTyped == ToolsInv => Builtin!TypeOK
<1> SUFFICES ASSUME ToolsInv PROVE Builtin!TypeOK
  OBVIOUS
<1>1. \A c \in Calls : /\ x3[c].tool \in Builtin!Tools \cup {None}
                       /\ x3[c].step \in Builtin!Places \cup {None}
  BY DEF ToolsInv, SoundCall
<1>2. \A c \in Calls : /\ x4[c].in \in 0 .. Pipe /\ x4[c].out \in 0 .. Pipe
                       /\ x4[c].err \in 0 .. Pipe
                       /\ \A s \in Builtin!Streams : x4[c].got[s] <= x4[c].wrote[s]
  <2> SUFFICES ASSUME NEW c \in Calls
               PROVE  /\ x4[c].in \in 0 .. Pipe /\ x4[c].out \in 0 .. Pipe
                      /\ x4[c].err \in 0 .. Pipe
                      /\ x4[c].got["out"] <= x4[c].wrote["out"]
                      /\ x4[c].got["err"] <= x4[c].wrote["err"]
    BY DEF Builtin!Streams
  <2>1. /\ x4[c] \in Children /\ x4[c].wrote["out"] = x4[c].got["out"] + x4[c].out
        /\ x4[c].wrote["err"] = x4[c].got["err"] + x4[c].err
    BY DEF ToolsInv, SoundChild
  <2> QED
    BY <2>1, ToolsConstants DEF Children, Builtin!Streams
<1>3. x5.total \in Nat /\ x1 \subseteq Calls /\ (x2 = None \/ x2 \in Seq(Pieces))
  BY DEF ToolsInv
<1> QED
  BY <1>1, <1>2, <1>3 DEF Builtin!TypeOK

LEMMA ToolsCounted == ToolsInv => Builtin!CallsCounted
<1> SUFFICES ASSUME ToolsInv PROVE Builtin!CallsCounted
  OBVIOUS
<1>1. /\ x5.ok = Cardinality({c \in Calls \ x1 : x3[c].step = "ok"})
      /\ x5.failed = Cardinality({c \in Calls \ x1 : x3[c].step = "failed"})
      /\ x5.total = x5.ok + x5.failed
  BY DEF ToolsInv, Ended
<1>2. \A S : Builtin!Cardinality(S) = Cardinality(S)
  BY Zenon DEF Builtin!Cardinality, Cardinality
<1> QED
  BY <1>1, <1>2 DEF Builtin!CallsCounted

LEMMA ToolsSound == ToolsInv => Builtin!OutputWhole /\ Builtin!NoShellLeft
<1> SUFFICES ASSUME ToolsInv PROVE Builtin!OutputWhole /\ Builtin!NoShellLeft
  OBVIOUS
<1>1. ASSUME NEW c \in Calls
      PROVE  /\ x3[c].step \in {"ok", "failed"} => ~x4[c].alive
             /\ x3[c].tool = "shell" /\ x4[c].alive => x3[c].step \in {"stdin", "stdout"}
             /\ x4[c].rest = "holding" => x3[c].step \in {"stdin", "stdout", "timeout"}
             /\ \/ x3[c].step = "ok" /\ x3[c].tool \in {"shell", "code"}
                \/ x3[c].step = "failed" /\ x3[c].tool = "code"
                => \A s \in Builtin!Streams : x3[c].given[s] = Builtin!Cut(x4[c].wrote[s])
  BY DEF ToolsInv, SoundChild
<1> QED
  BY <1>1 DEF Builtin!OutputWhole, Builtin!NoShellLeft

-------------------------------------------------------------------------------
(* Vectors                                                                 *)

LEMMA VectorsConstants == Torn # None /\ \A c : Good(c) => c # Torn
BY NodeAssumption DEF Vectors!VectorAssumption, Good

\* What threads do and what the files hold stays sound while collections are
\* only added or stay good.
LEMMA VectorsKept ==
    ASSUME VectorsInv, DOMAIN x1 \subseteq DOMAIN x1', \A n \in DOMAIN x1' : Good(x1'[n]),
           x2' # None => x2' \in DOMAIN x1', GoodFile(x3'), GoodFile(x4'),
           DOMAIN x5' = Threads,
           \A s \in Threads : Sound(x5'[s]) \/ x5'[s].step \in {"idle", "closed"},
           ~x6' => Apart'
    PROVE  VectorsInv'
<1>1. ASSUME NEW s \in Threads PROVE Sound(x5[s])'
  BY DEF Sound
<1>2. \A n \in DOMAIN x1' : Good(x1[n])'
  BY DEF Good
<1>3. GoodFile(x3)' /\ GoodFile(x4)'
  BY DEF GoodFile, Good
<1> QED
  BY <1>1, <1>2, <1>3 DEF VectorsInv

\* One thread goes on, and saves nothing.
LEMMA ThreadGoes ==
    ASSUME VectorsInv, NEW t \in Threads, NEW next, Vectors!Goes(t, next),
           DOMAIN x1 \subseteq DOMAIN x1', \A n \in DOMAIN x1' : Good(x1'[n]),
           Sound(next), next.step \notin {"fill", "rename"}, x2' # None => x2' \in DOMAIN x1',
           x3' = x3, UNCHANGED <<x4, x6>>
    PROVE  VectorsInv'
<1>1. /\ DOMAIN x5' = Threads /\ x5'[t] = next
      /\ \A s \in Threads : s # t => x5'[s] = x5[s]
  BY DEF VectorsInv, Vectors!Goes
<1>2. \A s \in Threads : Sound(x5'[s])
  BY <1>1 DEF VectorsInv
<1>3. GoodFile(x3) /\ GoodFile(x4)
  BY DEF VectorsInv
<1>4. ASSUME ~x6 PROVE Apart'
  <2>1. Apart
    BY <1>4 DEF VectorsInv
  <2>2. \A s \in Threads : Clean(x5'[s])
    BY <1>1, <2>1 DEF Apart, Clean
  <2> QED
    BY <1>1, <2>1, <2>2 DEF Apart, Clean
<1> QED
  BY <1>1, <1>2, <1>3, <1>4, VectorsKept

\* A new collection is a good one beside the others.
LEMMA WithIsGood ==
    ASSUME VectorsInv, NEW c, Good(c), x1' = Vectors!With(c)
    PROVE  /\ DOMAIN x1 \subseteq DOMAIN x1' /\ Vectors!Next1 \in DOMAIN x1'
           /\ \A n \in DOMAIN x1' : Good(x1'[n])
<1> DEFINE new == Vectors!Next1
<1>1. x1' = [n \in DOMAIN x1 \cup {new} |-> IF n = new THEN c ELSE x1[n]]
  BY DEF Vectors!With
<1> HIDE DEF new
<1>2. DOMAIN x1' = DOMAIN x1 \cup {new}
      /\ \A n \in DOMAIN x1' : x1'[n] = IF n = new THEN c ELSE x1[n]
  BY <1>1
<1>3. \A n \in DOMAIN x1' : Good(x1'[n])
  BY <1>2 DEF VectorsInv
<1> QED
  BY <1>2, <1>3 DEF new

LEMMA VectorsCreate ==
    ASSUME VectorsInv, NEW t \in Threads, NEW d \in Dims, Vectors!Create(t, d)
    PROVE  VectorsInv'
<1>1. Good(Vectors!Collection(d))
  BY DEF Good, Vectors!Collection, Vectors!Fits
<1>2. /\ x1' = Vectors!With(Vectors!Collection(d)) /\ x2' = Vectors!Next1
      /\ Vectors!Goes(t, Vectors!Saving) /\ x3' = x3 /\ UNCHANGED <<x4, x6>>
  BY DEF Vectors!Create
<1>3. Sound(Vectors!Saving) /\ Vectors!Saving.step = "save"
  BY DEF Sound, Vectors!Saving
<1> QED
  BY <1>1, <1>2, <1>3, WithIsGood, ThreadGoes DEF VectorsInv

LEMMA VectorsChange ==
    ASSUME VectorsInv, NEW t \in Threads, NEW c, c \in DOMAIN x1, NEW points,
           x1' = [x1 EXCEPT ![c].points = points],
           Good([x1[c] EXCEPT !.points = points])
    PROVE  DOMAIN x1' = DOMAIN x1 /\ \A n \in DOMAIN x1' : Good(x1'[n])
<1>1. /\ DOMAIN x1' = DOMAIN x1 /\ x1'[c] = [x1[c] EXCEPT !.points = points]
      /\ \A n \in DOMAIN x1 : n # c => x1'[n] = x1[n]
  OBVIOUS
<1> QED
  BY <1>1 DEF VectorsInv

LEMMA VectorsUpsert ==
    ASSUME VectorsInv, NEW t \in Threads, Vectors!Upsert(t)
    PROVE  VectorsInv'
<1> DEFINE o == x5[t]
           put == Vectors!Put(x1[o.col].points, o.point, o.dim)
<1>1. /\ o.col \in DOMAIN x1 /\ o.point \in Points /\ o.dim \in Dims /\ Good(x1[o.col])
      /\ x3' = x3 /\ UNCHANGED <<x2, x4, x6>>
  BY DEF VectorsInv, Sound, Vectors!Upsert, Vectors!At
<1>2. /\ Sound(Vectors!Saving) /\ Vectors!Saving.step = "save"
      /\ Sound(Vectors!Idle) /\ Vectors!Idle.step = "idle"
  BY DEF Sound, Vectors!Saving, Vectors!Idle
<1>3. CASE o.dim = x1[o.col].dim
  <2>1. x1' = [x1 EXCEPT ![o.col].points = put] /\ Vectors!Goes(t, Vectors!Saving)
    BY <1>1, <1>3 DEF Vectors!Upsert
  <2>2. /\ put \subseteq Points \X Dims
        /\ \A x \in put : x[2] = x1[o.col].dim
    BY <1>1, <1>3 DEF Good, Vectors!Fits, Vectors!Put
  <2> HIDE DEF put
  <2>3. Good([x1[o.col] EXCEPT !.points = put])
    BY <1>1, <2>2 DEF Good, Vectors!Fits
  <2>4. DOMAIN x1' = DOMAIN x1 /\ \A n \in DOMAIN x1' : Good(x1'[n])
    BY <1>1, <2>1, <2>3, VectorsChange
  <2> QED
    BY <1>1, <1>2, <2>1, <2>4, ThreadGoes DEF VectorsInv
<1>4. CASE o.dim # x1[o.col].dim
  <2>1. x1' = x1 /\ Vectors!Goes(t, Vectors!Idle)
    BY <1>4 DEF Vectors!Upsert
  <2> QED
    BY <1>1, <1>2, <2>1, ThreadGoes DEF VectorsInv
<1> QED
  BY <1>3, <1>4

LEMMA VectorsRemove ==
    ASSUME VectorsInv, NEW t \in Threads, Vectors!Remove(t)
    PROVE  VectorsInv'
<1> DEFINE o == x5[t]
           rest == {x \in x1[o.col].points : x[1] # o.point}
<1>1. /\ o.col \in DOMAIN x1 /\ Good(x1[o.col]) /\ x3' = x3 /\ UNCHANGED <<x2, x4, x6>>
  BY DEF VectorsInv, Sound, Vectors!Remove, Vectors!At
<1>2. x1' = [x1 EXCEPT ![o.col].points = rest] /\ Vectors!Goes(t, Vectors!Saving)
  BY <1>1 DEF Vectors!Remove
<1>3. Sound(Vectors!Saving) /\ Vectors!Saving.step = "save"
  BY DEF Sound, Vectors!Saving
<1>4. rest \subseteq x1[o.col].points
  OBVIOUS
<1> HIDE DEF rest
<1>5. Good([x1[o.col] EXCEPT !.points = rest])
  BY <1>1, <1>4 DEF Good, Vectors!Fits
<1>6. DOMAIN x1' = DOMAIN x1 /\ \A n \in DOMAIN x1' : Good(x1'[n])
  BY <1>1, <1>2, <1>5, VectorsChange
<1> QED
  BY <1>1, <1>2, <1>3, <1>6, ThreadGoes DEF VectorsInv

\* Other steps leave the collections and the files alone.
LEMMA VectorsOthers ==
    ASSUME VectorsInv, NEW t \in Threads,
           \/ \E k \in Vectors!Kinds, p \in Points, d \in Dims : Vectors!Begin(t, k, p, d)
           \/ Vectors!Snapshot(t) \/ Vectors!DeleteCollection(t)
    PROVE  VectorsInv'
<1>1. x1' = x1 /\ x3' = x3 /\ UNCHANGED <<x4, x6>>
  BY DEF Vectors!Begin, Vectors!Snapshot, Vectors!DeleteCollection
<1>2. /\ \A n \in DOMAIN x1 : Good(x1[n])
      /\ x2 # None => x2 \in DOMAIN x1
  BY DEF VectorsInv
<1>3. /\ Sound(Vectors!Idle) /\ Vectors!Idle.step = "idle"
      /\ Sound([step |-> "unlink"]) /\ [step |-> "unlink"].step = "unlink"
  BY DEF Sound, Vectors!Idle
<1>4. ASSUME NEW k \in Vectors!Kinds, NEW p \in Points, NEW d \in Dims, Vectors!Begin(t, k, p, d)
      PROVE  VectorsInv'
  <2> DEFINE next == [step |-> k, col |-> x2, point |-> p, dim |-> d]
  <2>1. Vectors!Goes(t, next) /\ x2 # None /\ x2' = x2
    BY <1>4 DEF Vectors!Begin
  <2>2. Sound(next) /\ next.step \notin {"fill", "rename"}
    BY <1>2, <2>1 DEF Sound, Vectors!Kinds
  <2> QED
    BY <1>1, <1>2, <2>1, <2>2, ThreadGoes
<1>5. CASE Vectors!Snapshot(t)
  <2> DEFINE next == [step |-> "write", snap |-> x1[x2]]
  <2>1. x2' = x2
    BY <1>5 DEF Vectors!Snapshot
  <2>2. CASE x2 = None
    <3>1. Vectors!Goes(t, Vectors!Idle)
      BY <1>5, <2>2 DEF Vectors!Snapshot
    <3> QED
      BY <1>1, <1>2, <1>3, <2>1, <3>1, ThreadGoes
  <2>3. CASE x2 # None
    <3>1. Vectors!Goes(t, next)
      BY <1>5, <2>3 DEF Vectors!Snapshot
    <3>2. Sound(next) /\ next.step = "write"
      BY <1>2, <2>3 DEF Sound
    <3> QED
      BY <1>1, <1>2, <2>1, <3>1, <3>2, ThreadGoes
  <2> QED
    BY <2>2, <2>3
<1>6. CASE Vectors!DeleteCollection(t)
  <2>1. Vectors!Goes(t, [step |-> "unlink"]) /\ x2' = None
    BY <1>6 DEF Vectors!DeleteCollection
  <2> QED
    BY <1>1, <1>2, <1>3, <2>1, ThreadGoes
<1> QED
  BY <1>4, <1>5, <1>6

\* Between two saves of other threads, a save has the temporary file to itself.
Busy(o) == o.step \in {"fill", "rename"}
LEMMA OneSaves ==
    ASSUME NEW t \in Threads, x3' # Torn, Clean(x5[t])',
           \A s \in Threads : s # t => ~Busy(x5'[s])
    PROVE  Apart'
BY DEF Apart, Clean, Busy

LEMMA VectorsWrite ==
    ASSUME VectorsInv, NEW t \in Threads, Vectors!Write(t)
    PROVE  VectorsInv'
<1>1. /\ \A n \in DOMAIN x1 : Good(x1[n])
      /\ x2 # None => x2 \in DOMAIN x1
      /\ GoodFile(x3) /\ \A s \in Threads : Sound(x5[s])
      /\ ~x6 => Apart
  BY DEF VectorsInv
<1>2. /\ x5[t].step = "write" /\ x4' = Torn /\ UNCHANGED <<x1, x2, x3>>
      /\ x6' = (x6 \/ \E s \in Threads \ {t} : Vectors!At(s, "fill") \/ Vectors!At(s, "rename"))
  BY DEF Vectors!Write, Vectors!At
<1>3. /\ DOMAIN x5' = Threads
      /\ x5'[t] = [step |-> "fill", snap |-> x5[t].snap, in |-> "temp",
                   shared |-> \E u \in Threads : Vectors!OnTemp(u)]
      /\ \A s \in Threads : s # t =>
           x5'[s] = IF Vectors!OnTemp(s) THEN [x5[s] EXCEPT !.shared = TRUE] ELSE x5[s]
  BY DEF Vectors!Write
<1>4. ASSUME NEW s \in Threads PROVE Sound(x5'[s])
  <2>1. CASE s = t
    <3>1. x5'[t].step = "fill" /\ x5'[t].snap = x5[t].snap
      BY <1>3
    <3> QED
      BY <1>1, <1>2, <2>1, <3>1 DEF Sound
  <2>2. CASE s # t /\ Vectors!OnTemp(s)
    <3>1. x5[s].step = "fill" /\ x5'[s] = [x5[s] EXCEPT !.shared = TRUE]
      BY <1>3, <2>2 DEF Vectors!OnTemp, Vectors!At
    <3>2. x5'[s].step = "fill" /\ x5'[s].snap = x5[s].snap
      BY <3>1
    <3> QED
      BY <1>1, <3>1, <3>2 DEF Sound
  <2>3. CASE s # t /\ ~Vectors!OnTemp(s)
    BY <1>1, <1>3, <2>3 DEF Sound
  <2> QED
    BY <2>1, <2>2, <2>3
<1>5. ASSUME ~x6' PROVE Apart'
  <2>1. ~x6 /\ \A s \in Threads : s # t => ~Busy(x5[s])
    BY <1>2, <1>5 DEF Vectors!At, Busy
  <2>2. \A u \in Threads : ~Vectors!OnTemp(u)
    BY <1>2, <2>1 DEF Vectors!OnTemp, Vectors!At, Busy
  <2>3. \A s \in Threads : s # t => ~Busy(x5'[s])
    BY <1>3, <2>1, <2>2
  <2>4. x3' # Torn
    BY <1>1, <1>2, <2>1 DEF Apart
  <2>5. x5'[t].step = "fill" /\ x5'[t].in = "temp" /\ ~x5'[t].shared
    BY <1>3, <2>2
  <2>6. Clean(x5[t])'
    BY <2>5 DEF Clean
  <2> QED
    BY <2>3, <2>4, <2>6, OneSaves
<1>6. GoodFile(x3') /\ GoodFile(x4')
  BY <1>1, <1>2 DEF GoodFile
<1> QED
  BY <1>1, <1>2, <1>3, <1>4, <1>5, <1>6, VectorsKept

LEMMA VectorsFill ==
    ASSUME VectorsInv, NEW t \in Threads, Vectors!Fill(t)
    PROVE  VectorsInv'
<1>1. /\ \A n \in DOMAIN x1 : Good(x1[n])
      /\ x2 # None => x2 \in DOMAIN x1
      /\ GoodFile(x3) /\ GoodFile(x4) /\ \A s \in Threads : Sound(x5[s])
      /\ ~x6 => Apart
  BY DEF VectorsInv
<1>2. x5[t].step = "fill" /\ UNCHANGED <<x1, x2, x6>> /\ Vectors!Goes(t, [step |-> "rename"])
  BY DEF Vectors!Fill, Vectors!At
<1>3. Good(x5[t].snap)
  BY <1>1, <1>2 DEF Sound
<1>4. /\ DOMAIN x5' = Threads /\ x5'[t] = [step |-> "rename"]
      /\ \A s \in Threads : s # t => x5'[s] = x5[s]
  BY <1>2 DEF VectorsInv, Vectors!Goes
<1>5. PICK text \in {x5[t].snap} \cup (IF x5[t].shared THEN {Torn} ELSE {}) :
         /\ x4' = IF x5[t].in = "temp" THEN text ELSE x4
         /\ x3' = IF x5[t].in = "file" THEN text ELSE x3
  BY DEF Vectors!Fill
<1>6. GoodFile(text)
  BY <1>3, <1>5 DEF GoodFile
<1>7. GoodFile(x3') /\ GoodFile(x4')
  BY <1>1, <1>5, <1>6
<1>8. \A s \in Threads : Sound(x5'[s])
  BY <1>1, <1>4 DEF Sound
<1>9. ASSUME ~x6' PROVE Apart'
  <2>1. Apart
    BY <1>1, <1>2, <1>9
  <2>2. \A s \in Threads : s # t => ~Busy(x5'[s])
    BY <1>2, <1>4, <2>1 DEF Apart, Busy
  <2>3. x5[t].in = "temp" /\ text = x5[t].snap
    BY <1>2, <1>5, <2>1 DEF Apart, Clean
  <2>4. x4' # Torn /\ x3' = x3
    BY <1>3, <1>5, <2>3, VectorsConstants
  <2>5. x3' # Torn /\ Clean(x5[t])'
    BY <1>4, <2>1, <2>4 DEF Apart, Clean
  <2> QED
    BY <2>2, <2>5, OneSaves
<1> QED
  BY <1>1, <1>2, <1>4, <1>7, <1>8, <1>9, VectorsKept

\* Where a file was moved to changes nothing of what is written there.
LEMMA MovedIsSound ==
    ASSUME NEW o, NEW to, Sound(o)
    PROVE  /\ Sound(Vectors!Moved(o, to)) /\ Vectors!Moved(o, to).step = o.step
           /\ ~Busy(o) => Vectors!Moved(o, to) = o
<1> DEFINE m == [o EXCEPT !.in = IF @ = "temp" THEN to ELSE "gone"]
<1>1. /\ m.step = o.step /\ m.snap = o.snap
      /\ m.col = o.col /\ m.point = o.point /\ m.dim = o.dim
  OBVIOUS
<1>2. Vectors!Moved(o, to) = o \/ (o.step = "fill" /\ Vectors!Moved(o, to) = m)
  BY DEF Vectors!Moved
<1> HIDE DEF m
<1>3. Sound(m)
  BY <1>1 DEF Sound
<1> QED
  BY <1>1, <1>2, <1>3 DEF Busy

LEMMA VectorsMoves ==
    ASSUME VectorsInv, NEW t \in Threads, Vectors!Rename(t) \/ Vectors!Unlink(t)
    PROVE  VectorsInv'
<1>1. /\ \A n \in DOMAIN x1 : Good(x1[n])
      /\ x2 # None => x2 \in DOMAIN x1
      /\ GoodFile(x3) /\ GoodFile(x4) /\ \A s \in Threads : Sound(x5[s])
      /\ ~x6 => Apart
  BY DEF VectorsInv
<1>2. UNCHANGED <<x1, x2, x6>>
  BY DEF Vectors!Rename, Vectors!Unlink
<1>3. Sound(Vectors!Idle) /\ Vectors!Idle.step = "idle"
  BY DEF Sound, Vectors!Idle
<1>4. CASE Vectors!Rename(t) /\ x4 = None
  <2>1. Vectors!Goes(t, Vectors!Idle) /\ x3' = x3 /\ x4' = x4
    BY <1>4 DEF Vectors!Rename
  <2> QED
    BY <1>1, <1>2, <1>3, <2>1, ThreadGoes
<1>5. CASE Vectors!Rename(t) /\ x4 # None
  <2>1. /\ x3' = x4 /\ x4' = None /\ x5[t].step = "rename"
        /\ DOMAIN x5' = Threads /\ x5'[t] = Vectors!Idle
        /\ \A s \in Threads : s # t => x5'[s] = Vectors!Moved(x5[s], "file")
    BY <1>5 DEF Vectors!Rename, Vectors!At
  <2>2. \A s \in Threads : Sound(x5'[s])
    BY <1>1, <1>3, <2>1, MovedIsSound
  <2>3. ASSUME ~x6' PROVE Apart'
    <3>1. Apart
      BY <1>1, <1>2, <2>3
    <3>2. \A s \in Threads : s # t => ~Busy(x5[s])
      BY <2>1, <3>1 DEF Apart, Busy
    <3>3. \A s \in Threads : s # t => ~Busy(x5'[s])
      BY <1>1, <2>1, <3>2, MovedIsSound
    <3>4. x3' # Torn /\ Clean(x5[t])'
      BY <1>3, <2>1, <3>1 DEF Apart, Clean
    <3> QED
      BY <3>3, <3>4, OneSaves
  <2>4. GoodFile(x3') /\ GoodFile(x4')
    BY <1>1, <2>1 DEF GoodFile
  <2> QED
    BY <1>1, <1>2, <2>1, <2>2, <2>3, <2>4, VectorsKept
<1>6. CASE Vectors!Unlink(t)
  <2>1. /\ x3' = None /\ x4' = x4
        /\ DOMAIN x5' = Threads /\ x5'[t] = Vectors!Idle
        /\ \A s \in Threads : s # t => x5'[s] = Vectors!Moved(x5[s], "gone")
    BY <1>6 DEF Vectors!Unlink
  <2>2. \A s \in Threads : Sound(x5'[s])
    BY <1>1, <1>3, <2>1, MovedIsSound
  <2>3. ASSUME ~x6' PROVE Apart'
    <3>1. Apart
      BY <1>1, <1>2, <2>3
    <3>2. ASSUME NEW s \in Threads, s # t PROVE x5'[s] = x5[s]
      <4>1. x5[s].step = "fill" => x5[s].in = "temp"
        BY <3>1 DEF Apart, Clean
      <4> QED
        BY <2>1, <3>2, <4>1 DEF Vectors!Moved
    <3>3. \A s \in Threads : Clean(x5[s])'
      BY <1>3, <2>1, <3>1, <3>2 DEF Apart, Clean
    <3>4. x3' # Torn
      BY <2>1, VectorsConstants
    <3> QED
      BY <1>3, <2>1, <3>1, <3>2, <3>3, <3>4 DEF Apart
  <2>4. GoodFile(x3') /\ GoodFile(x4')
    BY <1>1, <2>1 DEF GoodFile
  <2> QED
    BY <1>1, <1>2, <2>1, <2>2, <2>3, <2>4, VectorsKept
<1> QED
  BY <1>4, <1>5, <1>6

\* What is loaded after a restart is what was saved.
LEMMA VectorsRestart ==
    ASSUME VectorsInv, Vectors!Restart
    PROVE  VectorsInv'
<1>1. /\ x5' = [t \in Threads |-> IF x3 = Torn THEN [step |-> "closed"] ELSE Vectors!Idle]
      /\ x3' = x3 /\ x4' = x4 /\ x6' = x6
  BY DEF Vectors!Restart
<1>2. DOMAIN x5' = Threads /\ \A t \in Threads : x5'[t].step \in {"idle", "closed"}
  BY <1>1 DEF Vectors!Idle
<1>3. /\ DOMAIN x1 \subseteq DOMAIN x1' /\ \A n \in DOMAIN x1' : Good(x1'[n])
      /\ x2' # None => x2' \in DOMAIN x1'
  <2>1. CASE x3 \in {None, Torn}
    BY <2>1 DEF Vectors!Restart, VectorsInv
  <2>2. CASE x3 \notin {None, Torn}
    <3>1. x1' = Vectors!With(x3) /\ x2' = Vectors!Next1 /\ Good(x3)
      BY <2>2 DEF Vectors!Restart, VectorsInv, GoodFile
    <3> QED
      BY <3>1, WithIsGood
  <2> QED
    BY <2>1, <2>2
<1>4. GoodFile(x3') /\ GoodFile(x4')
  BY <1>1 DEF VectorsInv
<1>5. ASSUME ~x6' PROVE Apart'
  <2>1. x3 # Torn
    BY <1>1, <1>5 DEF VectorsInv, Apart
  <2> QED
    BY <1>1, <1>2, <2>1 DEF Apart, Clean
<1> QED
  BY <1>2, <1>3, <1>4, <1>5, VectorsKept

LEMMA VectorsInit ==
    ASSUME Vectors!Init
    PROVE  VectorsInv
<1>1. /\ x1 = [n \in {} |-> Vectors!Collection(0)]
      /\ x2 = None /\ x3 = None /\ x4 = None
      /\ x5 = [t \in Threads |-> Vectors!Idle] /\ x6 = FALSE
  BY DEF Vectors!Init
<1>2. DOMAIN x5 = Threads /\ \A t \in Threads : x5[t].step = "idle"
  BY <1>1 DEF Vectors!Idle
<1>3. Apart
  BY <1>1, <1>2, VectorsConstants DEF Apart, Clean
<1> QED
  BY <1>1, <1>2, <1>3 DEF VectorsInv, GoodFile, Sound

LEMMA VectorsStep ==
    ASSUME VectorsInv, Vectors!Next \/ UNCHANGED own
    PROVE  VectorsInv'
<1>1. CASE UNCHANGED own
  BY <1>1 DEF own, VectorsInv, Good, GoodFile, Sound, Apart, Clean
<1> QED
  BY <1>1, VectorsCreate, VectorsUpsert, VectorsRemove, VectorsOthers, VectorsWrite,
     VectorsFill, VectorsMoves, VectorsRestart DEF Vectors!Next

LEMMA VectorsAgree == VectorsInv => Vectors!DimensionsAgree
BY DEF VectorsInv, Good, GoodFile, Vectors!DimensionsAgree

LEMMA VectorsSaved == VectorsInv => Vectors!SavedWhole
BY DEF VectorsInv, Apart, Vectors!SavedWhole

-------------------------------------------------------------------------------
(* WebAssembly                                                             *)

\* The remainder of what is no further than one word away.
LEMMA WordWraps ==
    ASSUME NEW w \in Nat, w > 0, NEW n \in Int
    PROVE  /\ n >= 0 /\ n < w => n % w = n
           /\ n >= w /\ n < 2 * w => n % w = n - w
           /\ n < 0 /\ n >= -w => n % w = n + w
OBVIOUS

\* Signs survive the conversion of an argument as long as the memory is small
\* against the word: no sum that wraps looks like a range of the memory.
LEMMA RangesKept == Wasm!HostKeepsRange
<1> SUFFICES ASSUME NEW ptr \in Arguments, NEW len \in Arguments
             PROVE  Wasm!Slice(Wasm!AsUsize(ptr), Wasm!AsUsize(len)) = "taken" <=>
                      /\ ptr >= 0 /\ len >= 0 /\ ptr + len <= MemorySize
  BY DEF Wasm!HostKeepsRange
<1> DEFINE start == Wasm!AsUsize(ptr)
           count == Wasm!AsUsize(len)
           end == (start + count) % Word
<1>1. /\ MemorySize \in Nat /\ MemorySize > 0 /\ Word \in Nat /\ MemorySize < Word
      /\ ptr \in Int /\ 2 * ptr < Word - MemorySize /\ 2 * ptr > MemorySize - Word
      /\ len \in Int /\ 2 * len < Word - MemorySize /\ 2 * len > MemorySize - Word
  BY NodeAssumption DEF Wasm!WasmAssumption
<1>2. start = (IF ptr >= 0 THEN ptr ELSE ptr + Word) /\ count = (IF len >= 0 THEN len ELSE len + Word)
  <2>1. /\ ptr >= 0 => ptr % Word = ptr
        /\ ptr < 0 => ptr % Word = ptr + Word
    BY <1>1, WordWraps
  <2>2. /\ len >= 0 => len % Word = len
        /\ len < 0 => len % Word = len + Word
    BY <1>1, WordWraps
  <2> QED
    BY <1>1, <2>1, <2>2 DEF Wasm!AsUsize
<1>3. Wasm!Slice(start, count) = IF end > MemorySize THEN "refused"
                                 ELSE IF start > end THEN "panic" ELSE "taken"
  BY DEF Wasm!Slice
<1> HIDE DEF start, count
<1>4. CASE ptr >= 0 /\ len >= 0
  <2>1. start + count \in Int /\ start + count >= 0 /\ start + count < Word /\ start + count = ptr + len
    BY <1>1, <1>2, <1>4
  <2>2. end = ptr + len
    BY <1>1, <2>1, WordWraps
  <2> QED
    BY <1>1, <1>2, <1>3, <1>4, <2>2 DEF start, count
<1>5. CASE ~(ptr >= 0 /\ len >= 0)
  <2>1. end > MemorySize \/ start > end
    <3>1. CASE ptr < 0 /\ len < 0
      <4>1. start + count \in Int /\ start + count >= Word /\ start + count < 2 * Word
            /\ start + count - Word > MemorySize
        BY <1>1, <1>2, <3>1
      <4>2. end = start + count - Word
        <5> DEFINE n == start + count
        <5>1. n \in Int /\ n >= Word /\ n < 2 * Word
          BY <4>1
        <5> HIDE DEF n
        <5>2. n % Word = n - Word
          BY <1>1, <5>1, WordWraps
        <5>3. end = n % Word
          BY DEF n
        <5>4. n - Word = start + count - Word
          BY <1>1, <1>2 DEF n
        <5> HIDE DEF end
        <5> QED
          BY <5>2, <5>3, <5>4
      <4> QED
        BY <4>1, <4>2
    <3>2. CASE ~(ptr < 0 /\ len < 0) /\ ptr + len >= 0
      <4>1. start + count \in Int /\ start + count >= Word /\ start + count < 2 * Word
            /\ start + count - Word = ptr + len /\ start > ptr + len
        BY <1>1, <1>2, <1>5, <3>2
      <4>2. end = start + count - Word
        <5> DEFINE n == start + count
        <5>1. n \in Int /\ n >= Word /\ n < 2 * Word
          BY <4>1
        <5> HIDE DEF n
        <5>2. n % Word = n - Word
          BY <1>1, <5>1, WordWraps
        <5>3. end = n % Word
          BY DEF n
        <5>4. n - Word = start + count - Word
          BY <1>1, <1>2 DEF n
        <5> HIDE DEF end
        <5> QED
          BY <5>2, <5>3, <5>4
      <4> QED
        BY <4>1, <4>2
    <3>3. CASE ~(ptr < 0 /\ len < 0) /\ ptr + len < 0
      <4>1. start + count \in Int /\ start + count >= 0 /\ start + count < Word
            /\ start + count > MemorySize
        BY <1>1, <1>2, <1>5, <3>3
      <4>2. end = start + count
        BY <1>1, <4>1, WordWraps
      <4> QED
        BY <4>1, <4>2
    <3> QED
      BY <1>1, <3>1, <3>2, <3>3
  <2> QED
    BY <1>1, <1>3, <1>5, <2>1 DEF start, count
<1> QED
  BY <1>1, <1>4, <1>5

\* Files and loaders.
LEMMA WasmConstants ==
    None \notin Installed /\ None \notin {"none", "part", "whole"}
BY NodeAssumption DEF Wasm!WasmAssumption

\* The steps of a file leave what was torn so, or tear it.
LEMMA WasmFiles ==
    ASSUME WasmInv, NEW t \in Installed, Wasm!Write(t) \/ Wasm!Register(t) \/ Wasm!WriteFails(t)
    PROVE  WasmInv'
<1>1. UNCHANGED <<x3, x4, x5>>
  BY DEF Wasm!Write, Wasm!Register, Wasm!WriteFails
<1>2. x1 \in [Installed -> Files]
  BY DEF WasmInv
<1>3. /\ x1' \in [Installed -> Files]
      /\ \A u \in Installed : x1[u].torn => x1'[u].torn
      /\ \A u \in Installed : u # t => x1'[u] = x1[u]
      /\ x1'[t].writing \/ x1'[t].torn \/ x1'[t].holds = "whole"
  <2>1. CASE Wasm!Write(t)
    BY <1>2, <2>1 DEF Wasm!Write, Files
  <2>2. CASE Wasm!Register(t)
    BY <1>2, <2>2 DEF Wasm!Register, Files
  <2>3. CASE Wasm!WriteFails(t)
    BY <1>2, <2>3 DEF Wasm!WriteFails, Files
  <2> QED
    BY <2>1, <2>2, <2>3
<1>4. \A u \in Installed : \A b : WholeOrTorn(u, b) => WholeOrTorn(u, b)'
  BY <1>3 DEF WholeOrTorn
<1>5. ASSUME NEW u \in Installed PROVE (~x1[u].writing => WholeOrTorn(u, x1[u].holds))'
  <2>1. CASE u = t
    BY <1>3, <2>1 DEF WholeOrTorn
  <2>2. CASE u # t
    BY <1>3, <2>2 DEF WholeOrTorn, WasmInv
  <2> QED
    BY <2>1, <2>2
<1>6. \A u \in Installed : WholeOrTorn(u, x3[u])'
  BY <1>1, <1>4 DEF WasmInv, WholeOrTorn
<1>7. ASSUME NEW c \in Executions PROVE SoundLoader(x4[c])'
  BY <1>1, <1>3, WasmConstants DEF WasmInv, SoundLoader, Loaders, WholeOrTorn
<1>8. (x5 # None => SoundRun(x5))'
  BY <1>1, <1>3 DEF WasmInv, SoundRun, WholeOrTorn
<1> QED
  BY <1>1, <1>3, <1>5, <1>6, <1>7, <1>8 DEF WasmInv

LEMMA WasmLoads ==
    ASSUME WasmInv, NEW c \in Executions, NEW step, NEW t, NEW bytes,
           Wasm!Loading(c, step, t, bytes),
           SoundLoader([step |-> step, tool |-> t, bytes |-> bytes]),
           x1' = x1, x3' \in [Installed -> {None, "part", "whole"}],
           \A u \in Installed : WholeOrTorn(u, x3'[u]),
           x5' # None => SoundRun(x5')
    PROVE  WasmInv'
<1>1. x4' = [x4 EXCEPT ![c] = [step |-> step, tool |-> t, bytes |-> bytes]]
  BY DEF Wasm!Loading
<1>2. /\ DOMAIN x4' = Executions /\ x4'[c] = [step |-> step, tool |-> t, bytes |-> bytes]
      /\ \A d \in Executions : d # c => x4'[d] = x4[d]
  BY <1>1 DEF WasmInv
<1>3. \A l : SoundLoader(l) => SoundLoader(l)'
  BY DEF SoundLoader, WholeOrTorn
<1>4. ASSUME NEW d \in Executions PROVE SoundLoader(x4[d])'
  <2>1. SoundLoader(x4'[d])
    BY <1>2 DEF WasmInv
  <2> QED
    BY <2>1 DEF SoundLoader, WholeOrTorn
<1>5. (x5 # None => SoundRun(x5))'
  BY DEF SoundRun, WholeOrTorn
<1>6. /\ \A u \in Installed : (~x1[u].writing => WholeOrTorn(u, x1[u].holds))'
      /\ \A u \in Installed : WholeOrTorn(u, x3[u])'
  BY DEF WasmInv, WholeOrTorn
<1>7. (x1 \in [Installed -> Files])'
  BY DEF WasmInv
<1> QED
  BY <1>2, <1>4, <1>5, <1>6, <1>7 DEF WasmInv

LEMMA WasmReads ==
    ASSUME WasmInv, NEW c \in Executions, NEW t \in Installed,
           Wasm!GetCompiled(c, t) \/ Wasm!ReadFile(c, t)
    PROVE  WasmInv'
<1>1. /\ t # None /\ x3[t] \in {None, "part", "whole"}
      /\ x1[t].holds \in {"none", "part", "whole"} /\ x1[t].holds # None
      /\ WholeOrTorn(t, x3[t]) /\ (~x1[t].writing => WholeOrTorn(t, x1[t].holds))
      /\ UNCHANGED <<x1, x3, x5>>
  BY WasmConstants DEF WasmInv, Files, Wasm!GetCompiled, Wasm!ReadFile
<1>2. ASSUME NEW step, NEW bytes, Wasm!Loading(c, step, t, bytes),
             SoundLoader([step |-> step, tool |-> t, bytes |-> bytes])
      PROVE  WasmInv'
  BY <1>1, <1>2, WasmLoads DEF WasmInv
<1>3. CASE x3[t] # None /\ Wasm!Loading(c, "ready", t, x3[t])
  <2>1. SoundLoader([step |-> "ready", tool |-> t, bytes |-> x3[t]])
    BY <1>1, <1>3 DEF SoundLoader, Loaders
  <2> QED
    BY <1>2, <1>3, <2>1
<1>4. CASE /\ ~Wasm!Registering /\ x1[t].holds # "none"
           /\ Wasm!Loading(c, "read", t, x1[t].holds)
  <2>1. SoundLoader([step |-> "read", tool |-> t, bytes |-> x1[t].holds])
    BY <1>1, <1>4 DEF SoundLoader, Loaders, Wasm!Registering
  <2> QED
    BY <1>2, <1>4, <2>1
<1>5. CASE x1[t].holds # "none" /\ Wasm!Loading(c, "own", t, x1[t].holds)
  <2>1. SoundLoader([step |-> "own", tool |-> t, bytes |-> x1[t].holds])
    BY <1>1, <1>5 DEF SoundLoader, Loaders
  <2> QED
    BY <1>2, <1>5, <2>1
<1> QED
  BY <1>3, <1>4, <1>5 DEF Wasm!GetCompiled, Wasm!ReadFile

\* What compiles is kept for its hash only when get_compiled read it.
LEMMA WasmCompiles ==
    ASSUME WasmInv, NEW c \in Executions, Wasm!Compile(c)
    PROVE  WasmInv'
<1> DEFINE l == x4[c]
<1>1. SoundLoader(l) /\ l.step \in {"read", "own"} /\ UNCHANGED <<x1, x5>>
  BY DEF WasmInv, Wasm!Compile
<1>2. l.tool \in Installed /\ l.bytes \in {"part", "whole"}
  BY <1>1 DEF SoundLoader, Loaders
<1>3. x3 \in [Installed -> {None, "part", "whole"}] /\ \A u \in Installed : WholeOrTorn(u, x3[u])
  BY DEF WasmInv
<1>4. ASSUME NEW step, NEW t, NEW bytes, Wasm!Loading(c, step, t, bytes),
             SoundLoader([step |-> step, tool |-> t, bytes |-> bytes]), x3' = x3
      PROVE  WasmInv'
  BY <1>1, <1>3, <1>4, WasmLoads DEF WasmInv
<1>5. CASE Wasm!Loading(c, "idle", None, None) /\ x3' = x3
  <2>1. SoundLoader([step |-> "idle", tool |-> None, bytes |-> None])
    BY DEF SoundLoader, Loaders
  <2> QED
    BY <1>4, <1>5, <2>1
<1>6. CASE /\ l.step = "read" /\ Wasm!Loading(c, "ready", l.tool, l.bytes)
           /\ x3' = [x3 EXCEPT ![l.tool] = l.bytes]
  <2>1. SoundLoader([step |-> "ready", tool |-> l.tool, bytes |-> l.bytes])
    BY <1>1, <1>6 DEF SoundLoader, Loaders
  <2>2. WholeOrTorn(l.tool, l.bytes)
    BY <1>1, <1>6 DEF SoundLoader
  <2>3. /\ x3' \in [Installed -> {None, "part", "whole"}]
        /\ \A u \in Installed : x3'[u] = IF u = l.tool THEN l.bytes ELSE x3[u]
    BY <1>2, <1>3, <1>6
  <2>4. \A u \in Installed : WholeOrTorn(u, x3'[u])
    BY <1>3, <2>2, <2>3
  <2> QED
    BY <1>1, <1>6, <2>1, <2>3, <2>4, WasmLoads DEF WasmInv
<1>7. CASE l.step = "own" /\ Wasm!Loading(c, "apart", l.tool, l.bytes) /\ x3' = x3
  <2>1. SoundLoader([step |-> "apart", tool |-> l.tool, bytes |-> l.bytes])
    BY <1>1, <1>7 DEF SoundLoader, Loaders
  <2> QED
    BY <1>4, <1>7, <2>1
<1> QED
  BY <1>5, <1>6, <1>7 DEF Wasm!Compile

LEMMA WasmExecutes ==
    ASSUME WasmInv, NEW c \in Executions, Wasm!Execute(c)
    PROVE  WasmInv'
<1>1. /\ x4[c].step \in {"ready", "apart"} /\ SoundLoader(x4[c]) /\ UNCHANGED <<x1, x3>>
      /\ Wasm!Loading(c, "idle", None, None)
  BY DEF WasmInv, Wasm!Execute
<1>2. PICK random \in BOOLEAN, first \in {"running", "error"} : x5' = Wasm!NewRun(c, random, first)
  BY DEF Wasm!Execute
<1>3. SoundRun(x5')
  <2>1. x4[c].tool \in Installed
    BY <1>1 DEF SoundLoader, Loaders
  <2>2. /\ {"tool", "bytes", "own", "outcome"} \subseteq DOMAIN x5'
        /\ x5'.tool = x4[c].tool /\ x5'.bytes = x4[c].bytes /\ x5'.own = (x4[c].step = "apart")
    BY <1>2 DEF Wasm!NewRun
  <2> QED
    BY <1>1, <2>1, <2>2 DEF SoundRun, SoundLoader
<1>4. SoundLoader([step |-> "idle", tool |-> None, bytes |-> None])
  BY DEF SoundLoader, Loaders
<1> QED
  BY <1>1, <1>3, <1>4, WasmLoads DEF WasmInv

\* A run that keeps its code is as sound as it was.
LEMMA WasmRunKeeps ==
    ASSUME WasmInv, SoundRun(x5'), UNCHANGED <<x1, x3, x4>>
    PROVE  WasmInv'
<1>1. (x5 # None => SoundRun(x5))'
  BY DEF SoundRun, WholeOrTorn
<1>2. \A c \in Executions : SoundLoader(x4[c])'
  BY DEF WasmInv, SoundLoader, WholeOrTorn
<1>3. /\ (x1 \in [Installed -> Files])' /\ (x3 \in [Installed -> {None, "part", "whole"}])'
      /\ (DOMAIN x4 = Executions)'
      /\ \A u \in Installed : (~x1[u].writing => WholeOrTorn(u, x1[u].holds))'
      /\ \A u \in Installed : WholeOrTorn(u, x3[u])'
  BY DEF WasmInv, WholeOrTorn
<1> QED
  BY <1>1, <1>2, <1>3 DEF WasmInv

\* Whatever the module does, and whatever the host does for it, its code stays.
LEMMA WasmSteps ==
    ASSUME WasmInv, x5 # None, NEW next, SoundRun(next), Wasm!Step(next)
    PROVE  WasmInv'
<1>1. x5' = [next EXCEPT !.fuel = @ - 1] /\ UNCHANGED <<x1, x2, x3, x4>>
  BY DEF Wasm!Step
<1>2. SoundRun(x5')
  BY <1>1 DEF SoundRun
<1> QED
  BY <1>1, <1>2, WasmRunKeeps

LEMMA WasmRun ==
    ASSUME WasmInv, Wasm!Running,
           \/ Wasm!Return \/ Wasm!Compute
           \/ \E ptr, len \in Arguments :
                Wasm!GetInput(ptr, len) \/ Wasm!Random(ptr, len)
                \/ Wasm!SetOutput(ptr, len) \/ Wasm!Log(ptr, len)
    PROVE  WasmInv'
<1>1. x5 # None /\ SoundRun(x5)
  BY DEF WasmInv, Wasm!Running
<1>2. /\ \A m : SoundRun([x5 EXCEPT !.memory = m])
      /\ \A o : SoundRun([x5 EXCEPT !.output = o])
      /\ \A o : SoundRun([x5 EXCEPT !.outcome = o])
  BY <1>1 DEF SoundRun
<1>3. ASSUME NEW ptr, NEW count, NEW taken, SoundRun(taken), Wasm!HostCall(ptr, count, taken)
      PROVE  WasmInv'
  <2>1. \/ Wasm!Step(taken) \/ Wasm!Step(x5) \/ Wasm!Step([x5 EXCEPT !.outcome = "panic"])
    BY <1>3 DEF Wasm!HostCall
  <2> QED
    BY <1>1, <1>2, <1>3, <2>1, WasmSteps
<1>4. CASE Wasm!Return
  <2>1. PICK o : x5' = [x5 EXCEPT !.outcome = o]
    BY <1>4 DEF Wasm!Return
  <2>2. SoundRun(x5') /\ UNCHANGED <<x1, x3, x4>>
    BY <1>2, <1>4, <2>1 DEF Wasm!Return
  <2> QED
    BY <2>2, WasmRunKeeps
<1>5. CASE Wasm!Compute
  <2>1. PICK i \in 0 .. MemorySize - 1 : Wasm!Step([x5 EXCEPT !.memory[i] = "own"])
    BY <1>5 DEF Wasm!Compute
  <2>2. SoundRun([x5 EXCEPT !.memory[i] = "own"])
    BY <1>1 DEF SoundRun
  <2> QED
    BY <1>1, <2>1, <2>2, WasmSteps
<1>6. ASSUME NEW ptr \in Arguments, NEW len \in Arguments,
             Wasm!GetInput(ptr, len) \/ Wasm!Random(ptr, len)
             \/ Wasm!SetOutput(ptr, len) \/ Wasm!Log(ptr, len)
      PROVE  WasmInv'
  <2>1. CASE Wasm!GetInput(ptr, len)
    BY <1>2, <1>3, <2>1 DEF Wasm!GetInput
  <2>2. CASE Wasm!Random(ptr, len)
    BY <1>1, <1>2, <1>3, <2>2, WasmSteps DEF Wasm!Random
  <2>3. CASE Wasm!SetOutput(ptr, len)
    BY <1>1, <1>2, <1>3, <2>3, WasmSteps DEF Wasm!SetOutput
  <2>4. CASE Wasm!Log(ptr, len)
    BY <1>1, <1>3, <2>4 DEF Wasm!Log
  <2> QED
    BY <1>6, <2>1, <2>2, <2>3, <2>4
<1> QED
  BY <1>4, <1>5, <1>6

LEMMA WasmInit ==
    ASSUME Wasm!Init
    PROVE  WasmInv
<1>1. /\ x1 = [t \in Installed |-> [holds |-> "none", writing |-> FALSE, torn |-> FALSE]]
      /\ x3 = [t \in Installed |-> None] /\ x5 = None
      /\ x4 = [c \in Executions |-> [step |-> "idle", tool |-> None, bytes |-> None]]
  BY DEF Wasm!Init
<1>2. x1 \in [Installed -> Files]
  BY <1>1 DEF Files
<1>3. /\ \A t \in Installed : WholeOrTorn(t, x1[t].holds)
      /\ \A t \in Installed : WholeOrTorn(t, x3[t])
  BY <1>1, WasmConstants DEF WholeOrTorn
<1>4. DOMAIN x4 = Executions /\ \A c \in Executions : SoundLoader(x4[c])
  BY <1>1 DEF SoundLoader, Loaders
<1> QED
  BY <1>1, <1>2, <1>3, <1>4 DEF WasmInv

\* A node that starts anew has only the files, and the torn ones are known.
LEMMA WasmRestart ==
    ASSUME WasmInv, Wasm!Restart
    PROVE  WasmInv'
<1>1. /\ x1' = [t \in Installed |-> [holds |-> x1[t].holds, writing |-> FALSE,
                                   torn |-> x1[t].holds = "part"]]
      /\ x3' = [t \in Installed |-> None] /\ x5' = None
      /\ x4' = [c \in Executions |-> [step |-> "idle", tool |-> None, bytes |-> None]]
  BY DEF Wasm!Restart
<1>2. x1' \in [Installed -> Files]
  BY <1>1 DEF WasmInv, Files
<1>3. \A t \in Installed : x1'[t].holds = "part" => x1'[t].torn
  BY <1>1
<1>4. /\ \A t \in Installed : WholeOrTorn(t, x1[t].holds)'
      /\ \A t \in Installed : WholeOrTorn(t, x3[t])'
  BY <1>1, <1>3, WasmConstants DEF WholeOrTorn
<1>5. DOMAIN x4' = Executions /\ \A c \in Executions : SoundLoader(x4[c])'
  BY <1>1 DEF SoundLoader, Loaders
<1> QED
  BY <1>1, <1>2, <1>4, <1>5 DEF WasmInv

LEMMA WasmStep ==
    ASSUME WasmInv, Wasm!Next \/ UNCHANGED own
    PROVE  WasmInv'
<1>1. CASE UNCHANGED own
  BY <1>1 DEF own, WasmInv, SoundRun, SoundLoader, WholeOrTorn
<1>2. Wasm!Return \/ Wasm!Compute => Wasm!Running
  BY DEF Wasm!Return, Wasm!Compute, Wasm!Step
<1> QED
  BY <1>1, <1>2, WasmFiles, WasmReads, WasmCompiles, WasmExecutes, WasmRun, WasmRestart
     DEF Wasm!Next

\* A part that is kept or was executed from the registry is torn.
LEMMA WasmModules == WasmInv => Wasm!PartsOnlyTorn
BY DEF WasmInv, SoundRun, WholeOrTorn, Wasm!PartsOnlyTorn

-------------------------------------------------------------------------------
(* The chat of the command line                                            *)

LEMMA OneTurn ==
    ASSUME NEW w \in BOOLEAN, NEW o \in SUBSET Nat
    PROVE  [whole |-> w, of |-> o] \in Turns
BY DEF Turns

LEMMA TalkBegins == ASSUME NEW n \in Nat PROVE SoundTalk(<<>>, n)
<1>1. <<>> \in Seq(Turns) /\ DOMAIN <<>> = {}
  BY EmptySeq
<1> QED
  BY <1>1 DEF SoundTalk

LEMMA TalkGoesOn ==
    ASSUME NEW t, NEW n, SoundTalk(t, n)
    PROVE  SoundTalk(Append(t, Cli!Turn(n + 1)), n + 1)
<1> DEFINE u == Cli!Turn(n + 1)
           s == Append(t, u)
           k == Len(t)
<1>1. n \in Nat /\ n + 1 \in Nat /\ t \in Seq(Turns) /\ k \in Nat /\ DOMAIN t = 1 .. k
  BY LenProperties DEF SoundTalk
<1>2. u \in Turns /\ u.of = {n + 1}
  <2>1. u = [whole |-> TRUE, of |-> {n + 1}]
    BY DEF Cli!Turn
  <2>2. {n + 1} \in SUBSET Nat
    BY <1>1
  <2>3. TRUE \in BOOLEAN
    BY Zenon
  <2>4. u \in Turns
    BY <2>1, <2>2, <2>3, OneTurn, Zenon
  <2> QED
    BY <2>1, <2>4
<1> HIDE DEF u
<1>3. /\ s \in Seq(Turns) /\ Len(s) = k + 1 /\ s[k + 1] = u
      /\ \A i \in 1 .. k : s[i] = t[i]
  BY <1>1, <1>2, AppendProperties
<1>4. DOMAIN s = 1 .. k + 1
  BY <1>3, LenProperties
<1>5. u = Cli!Turn(n + 1)
  BY DEF u
<1> HIDE DEF s, k
<1>6. \A i \in 1 .. k + 1 : i \in 1 .. k \/ i = k + 1
  BY <1>1
<1>7. \A i \in 1 .. k : \A q \in t[i].of : q \in Nat /\ q <= n
  <2>1. \A i \in 1 .. k : t[i] \in Turns
    BY <1>1, ElementOfSeq DEF k
  <2> QED
    BY <1>1, <2>1 DEF SoundTalk, Turns
<1>8. \A i \in DOMAIN s : \A q \in s[i].of : q <= n + 1
  BY <1>1, <1>2, <1>3, <1>4, <1>6, <1>7
<1>9. \A i, j \in DOMAIN s : i < j => \A p \in s[i].of, q \in s[j].of : p < q
  <2> SUFFICES ASSUME NEW i \in 1 .. k + 1, NEW j \in 1 .. k + 1, i < j,
                      NEW p \in s[i].of, NEW q \in s[j].of
               PROVE  p < q
    BY <1>4
  <2>1. i \in 1 .. k /\ s[i] = t[i]
    BY <1>1, <1>3
  <2>2. CASE j \in 1 .. k
    BY <1>1, <1>3, <2>1, <2>2 DEF SoundTalk
  <2>3. CASE j = k + 1
    BY <1>1, <1>2, <1>3, <1>7, <2>1, <2>3
  <2> QED
    BY <1>6, <2>2, <2>3
<1>10. \A i \in DOMAIN s : i > Len(s) - 2 => s[i] = Cli!Turn((n + 1) - Len(s) + i)
  <2> SUFFICES ASSUME NEW i \in 1 .. k + 1, i > k + 1 - 2
               PROVE  s[i] = Cli!Turn((n + 1) - (k + 1) + i)
    BY <1>1, <1>3, <1>4
  <2>1. CASE i = k + 1
    <3>1. (n + 1) - (k + 1) + i = n + 1
      BY <1>1, <2>1
    <3> QED
      BY <1>3, <1>5, <2>1, <3>1
  <2>2. CASE i \in 1 .. k
    <3>1. i > k - 2 /\ n - k + i = (n + 1) - (k + 1) + i
      BY <1>1
    <3>2. t[i] = Cli!Turn(n - k + i)
      BY <1>1, <2>2, <3>1 DEF SoundTalk, k
    <3> QED
      BY <1>3, <2>2, <3>1, <3>2
  <2> QED
    BY <1>6, <2>1, <2>2
<1>11. SoundTalk(s, n + 1)
  BY <1>1, <1>3, <1>8, <1>9, <1>10 DEF SoundTalk
<1> QED
  BY <1>11 DEF s, u

\* The summary tells of questions before those of the last two turns.
LEMMA TalkCompacted ==
    ASSUME NEW t, NEW n, SoundTalk(t, n), Len(t) > 2
    PROVE  SoundTalk(Cli!Compacted(t), n)
<1> DEFINE k == Len(t) - 2
           front == SubSeq(t, 1, k)
           sum == Cli!Summary(front)
           back == SubSeq(t, k + 1, k + 2)
           s == <<sum>> \o back
<1>1. /\ n \in Nat /\ t \in Seq(Turns) /\ k \in Nat /\ k > 0 /\ Len(t) = k + 2
      /\ DOMAIN t = 1 .. k + 2
  BY LenProperties DEF SoundTalk
<1>2. \A i \in 1 .. k + 2 : t[i] \in Turns /\ \A q \in t[i].of : q \in Nat /\ q <= n
  <2>1. \A i \in 1 .. k + 2 : t[i] \in Turns
    BY <1>1, ElementOfSeq
  <2> QED
    BY <1>1, <2>1 DEF SoundTalk, Turns
<1> HIDE DEF k
<1>3. front \in Seq(Turns) /\ Len(front) = k /\ \A i \in 1 .. k : front[i] = t[i]
  BY <1>1, <1>2, SubSeqProperties
<1>4. back \in Seq(Turns) /\ Len(back) = 2 /\ back[1] = t[k + 1] /\ back[2] = t[k + 2]
  BY <1>1, <1>2, SubSeqProperties
<1>5. DOMAIN front = 1 .. k
  BY <1>3, LenProperties
<1> HIDE DEF front, back
<1>6. \A q \in sum.of : \E i \in 1 .. k : q \in t[i].of
  BY <1>3, <1>5 DEF Cli!Summary
<1>7. sum \in Turns
  <2>1. sum = [whole |-> FALSE, of |-> sum.of] /\ sum.of \in SUBSET Nat
    BY <1>1, <1>2, <1>6 DEF Cli!Summary
  <2> HIDE DEF sum
  <2>2. FALSE \in BOOLEAN
    BY Zenon
  <2> QED
    BY <2>1, <2>2, OneTurn, Zenon
<1> HIDE DEF sum
<1>8. <<sum>> \in Seq(Turns) /\ Len(<<sum>>) = 1 /\ <<sum>>[1] = sum
  BY <1>7
<1>9. /\ s \in Seq(Turns) /\ Len(s) = 3
      /\ s[1] = sum /\ s[2] = t[k + 1] /\ s[3] = t[k + 2]
  <2>1. /\ s \in Seq(Turns) /\ Len(s) = Len(<<sum>>) + Len(back)
        /\ \A i \in 1 .. Len(<<sum>>) + Len(back) :
              s[i] = IF i <= Len(<<sum>>) THEN <<sum>>[i] ELSE back[i - Len(<<sum>>)]
    BY <1>4, <1>8, ConcatProperties, Zenon
  <2> HIDE DEF s
  <2>2. \A i \in 1 .. 3 : s[i] = IF i <= 1 THEN <<sum>>[i] ELSE back[i - 1]
    BY <1>4, <1>8, <2>1
  <2>3. s[1] = <<sum>>[1] /\ s[2] = back[1] /\ s[3] = back[2]
    BY <2>2
  <2> QED
    BY <1>4, <1>8, <2>1, <2>3
<1>10. DOMAIN s = 1 .. 3
  BY <1>9, LenProperties
<1> HIDE DEF s
<1>11. \A i, j \in 1 .. k + 2 : i < j => \A p \in t[i].of, q \in t[j].of : p < q
  BY <1>1 DEF SoundTalk
<1>12. \A i \in DOMAIN s : \A q \in s[i].of : q <= n
  <2> SUFFICES ASSUME NEW i \in 1 .. 3, NEW q \in s[i].of PROVE q <= n
    BY <1>10
  <2>1. CASE i = 1
    BY <1>1, <1>2, <1>6, <1>9, <2>1
  <2>2. CASE i \in {2, 3}
    BY <1>1, <1>2, <1>9, <2>2
  <2> QED
    BY <2>1, <2>2
<1>13. \A i, j \in DOMAIN s : i < j => \A p \in s[i].of, q \in s[j].of : p < q
  <2> SUFFICES ASSUME NEW i \in 1 .. 3, NEW j \in 1 .. 3, i < j,
                      NEW p \in s[i].of, NEW q \in s[j].of
               PROVE  p < q
    BY <1>10
  <2>1. CASE i = 1
    <3>1. PICK m \in 1 .. k : p \in t[m].of
      BY <1>6, <1>9, <2>1
    <3>2. CASE j = 2
      BY <1>1, <1>9, <1>11, <3>1, <3>2
    <3>3. CASE j = 3
      BY <1>1, <1>9, <1>11, <3>1, <3>3
    <3> QED
      BY <2>1, <3>2, <3>3
  <2>2. CASE i = 2
    <3>1. j = 3 /\ k + 1 \in 1 .. k + 2 /\ k + 2 \in 1 .. k + 2 /\ k + 1 < k + 2
      BY <1>1, <2>2
    <3> QED
      BY <1>9, <1>11, <2>2, <3>1
  <2> QED
    BY <2>1, <2>2
<1>14. \A i \in DOMAIN s : i > Len(s) - 2 => s[i] = Cli!Turn(n - Len(s) + i)
  <2>1. \A i \in 1 .. k + 2 : i > k => t[i] = Cli!Turn(n - (k + 2) + i)
    BY <1>1 DEF SoundTalk
  <2>2. /\ k + 1 \in 1 .. k + 2 /\ k + 2 \in 1 .. k + 2 /\ k + 1 > k /\ k + 2 > k
        /\ n - (k + 2) + (k + 1) = n - 3 + 2 /\ n - (k + 2) + (k + 2) = n - 3 + 3
    BY <1>1
  <2>3. s[2] = Cli!Turn(n - 3 + 2) /\ s[3] = Cli!Turn(n - 3 + 3)
    BY <1>9, <2>1, <2>2
  <2> QED
    BY <1>9, <1>10, <2>3
<1>15. SoundTalk(s, n)
  BY <1>1, <1>9, <1>12, <1>13, <1>14 DEF SoundTalk
<1>16. Cli!Compacted(t) = s
  BY DEF Cli!Compacted, s, sum, front, back, k
<1> QED
  BY <1>15, <1>16

LEMMA CliInit == Cli!Init => CliInv
<1> SUFFICES ASSUME Cli!Init PROVE CliInv
  OBVIOUS
<1>1. x6 = [c \in Chats |-> <<>>] /\ x7 = [c \in Chats |-> 0]
  BY DEF Cli!Init
<1> QED
  BY <1>1, TalkBegins DEF CliInv

\* The history of one chat, which a step may change.
LEMMA CliChat ==
    ASSUME CliInv, NEW c \in Chats, NEW t, NEW n, SoundTalk(t, n),
           x6' = [x6 EXCEPT ![c] = t],
           DOMAIN x7' = Chats, x7'[c] = n, \A d \in Chats : d # c => x7'[d] = x7[d]
    PROVE  CliInv'
<1>1. \A d \in Chats : SoundTalk(x6'[d], x7'[d])
  BY DEF CliInv
<1>2. DOMAIN x6' = Chats /\ DOMAIN x7' = Chats
  BY DEF CliInv
<1>3. (\A d \in Chats : SoundTalk(x6[d], x7[d]))'
  BY <1>1 DEF SoundTalk, Turns, Cli!Turn
<1> QED
  BY <1>2, <1>3 DEF CliInv

LEMMA CliStep ==
    ASSUME CliInv, Cli!Next \/ UNCHANGED own
    PROVE  CliInv'
<1>1. CASE UNCHANGED <<x6, x7>>
  BY <1>1 DEF CliInv, SoundTalk, Turns, Cli!Turn
<1>2. CASE \E c \in Chats : Cli!Clear(c)
  <2>1. PICK c \in Chats : Cli!Clear(c)
    BY <1>2
  <2>2. x7[c] \in Nat
    BY DEF CliInv, SoundTalk
  <2>3. x6' = [x6 EXCEPT ![c] = <<>>] /\ x7' = x7 /\ DOMAIN x7 = Chats
    BY <2>1 DEF Cli!Clear, CliInv
  <2> QED
    BY <2>2, <2>3, TalkBegins, CliChat
<1>3. CASE \E c \in Chats : Cli!Compact(c)
  <2>1. PICK c \in Chats : Cli!Compact(c)
    BY <1>3
  <2>2. SoundTalk(Cli!Compacted(x6[c]), x7[c])
    BY <2>1, TalkCompacted DEF CliInv, Cli!Compact
  <2>3. x6' = [x6 EXCEPT ![c] = Cli!Compacted(x6[c])] /\ x7' = x7 /\ DOMAIN x7 = Chats
    BY <2>1 DEF Cli!Compact, CliInv
  <2> QED
    BY <2>2, <2>3, CliChat
<1>4. CASE \E c \in Chats : Cli!Ask(c)
  <2>1. PICK c \in Chats : Cli!Ask(c)
    BY <1>4
  <2>2. SoundTalk(Append(x6[c], Cli!Turn(x7[c] + 1)), x7[c] + 1)
    BY TalkGoesOn DEF CliInv
  <2>3. /\ x6' = [x6 EXCEPT ![c] = Append(x6[c], Cli!Turn(x7[c] + 1))]
        /\ DOMAIN x7' = Chats /\ x7'[c] = x7[c] + 1 /\ \A d \in Chats : d # c => x7'[d] = x7[d]
    BY <2>1 DEF Cli!Ask, CliInv
  <2> QED
    BY <2>2, <2>3, CliChat
<1>5. CASE \E c \in Chats : Cli!Quit(c)
  <2>1. PICK c \in Chats : Cli!Quit(c)
    BY <1>5
  <2>2. /\ x6' = [x6 EXCEPT ![c] = <<>>]
        /\ DOMAIN x7' = Chats /\ x7'[c] = 0 /\ \A d \in Chats : d # c => x7'[d] = x7[d]
    BY <2>1 DEF Cli!Quit, CliInv
  <2>3. SoundTalk(<<>>, 0)
    BY TalkBegins
  <2> QED
    BY <2>2, <2>3, CliChat
<1>6. CASE \/ Cli!NodeChanges
           \/ \E c \in Chats :
                 \/ \E args \in Cli!Settings, standalone \in BOOLEAN : Cli!Start(c, args, standalone)
                 \/ Cli!Command(c) \/ Cli!Menu(c) \/ Cli!AskNode(c)
  <2>1. UNCHANGED <<x6, x7>>
    BY <1>6 DEF Cli!NodeChanges, Cli!Start, Cli!Command, Cli!Menu, Cli!Change, Cli!AskNode
  <2> QED
    BY <1>1, <2>1
<1>7. CASE UNCHANGED own
  BY <1>1, <1>7 DEF own
<1> QED
  BY <1>2, <1>3, <1>4, <1>5, <1>6, <1>7 DEF Cli!Next

LEMMA CliKept == CliInv => Cli!TalkKept
<1> SUFFICES ASSUME CliInv, NEW c \in Chats
             PROVE  /\ \A i, j \in DOMAIN x6[c] : i < j =>
                          \A p \in x6[c][i].of, q \in x6[c][j].of : p < q
                    /\ \A i \in DOMAIN x6[c] : i > Len(x6[c]) - 2 =>
                          x6[c][i] = Cli!Turn(x7[c] - Len(x6[c]) + i)
  BY DEF Cli!TalkKept
<1>1. SoundTalk(x6[c], x7[c])
  BY DEF CliInv
<1> QED
  BY <1>1 DEF SoundTalk

-------------------------------------------------------------------------------
(* Channels                                                                *)

LEMMA MailConstants ==
    MaxUpdates \in Nat /\ Filtered \subseteq 1 .. MaxUpdates /\ None \notin 1 .. MaxUpdates
BY NodeAssumption DEF Mail!MessagingAssumption

LEMMA MailPrimed ==
    ASSUME Queues', x7' \in Nat, x8' \in 0 .. MaxUpdates,
           InOrder(Queued'), Reached(Queued', x7'), x6' = None \/ SoundPoller(x6', Queued')
    PROVE  MailInv'
<1>1. InOrder(Queued)'
  BY Zenon DEF InOrder, Reached, Mail!Members
<1>2. Reached(Queued, x7)'
  BY Zenon DEF Reached, Mail!Members
<1>3. (x6 = None \/ SoundPoller(x6, Queued))'
  BY Zenon DEF SoundPoller, Reached, Mail!Members, Allowed
<1> QED
  BY <1>1, <1>2, <1>3 DEF MailInv

\* A step that changes neither what was queued nor what the task and the server know.
LEMMA MailKept ==
    ASSUME MailInv, Queues', Queued' = Queued, UNCHANGED <<x6, x7>>, x8' \in 0 .. MaxUpdates
    PROVE  MailInv'
<1> DEFINE s == Queued
<1>1. /\ x7 \in Nat /\ InOrder(s) /\ Reached(s, x7) /\ (x6 = None \/ SoundPoller(x6, s))
  BY DEF MailInv
<1>2. s' = s
  OBVIOUS
<1> HIDE DEF s
<1>3. InOrder(s') /\ Reached(s', x7') /\ (x6' = None \/ SoundPoller(x6', s'))
  BY <1>1, <1>2
<1> QED
  BY <1>1, <1>3, MailPrimed DEF s

\* The same when the task goes on, or the server forgets.
LEMMA MailPolled ==
    ASSUME MailInv, UNCHANGED <<x4, x8, x9>>, x7' \in Nat, Reached(Queued, x7'),
           x6' = None \/ SoundPoller(x6', Queued)
    PROVE  MailInv'
<1> DEFINE s == Queued
<1>1. /\ Queues /\ x8 \in 0 .. MaxUpdates /\ InOrder(s)
  BY DEF MailInv
<1>2. s' = s /\ Queues'
  BY <1>1 DEF Queued, Queues
<1> HIDE DEF s
<1>3. InOrder(s') /\ Reached(s', x7') /\ (x6' = None \/ SoundPoller(x6', s'))
  BY <1>1, <1>2 DEF s
<1> QED
  BY <1>1, <1>2, <1>3, MailPrimed DEF s

LEMMA QueuedIsSeq ==
    ASSUME Queues
    PROVE  /\ Queued \in Seq(Allowed) /\ x9 \in Seq(Allowed) /\ x4["telegram"] \in Seq(Allowed)
           /\ Len(Queued) = Len(x9) + Len(x4["telegram"])
           /\ \A i \in 1 .. Len(Queued) :
                 Queued[i] = IF i <= Len(x9) THEN x9[i] ELSE x4["telegram"][i - Len(x9)]
BY ConcatProperties DEF Queues, Queued

\* What is taken from the front of a sequence and appended to another leaves
\* both together as they were.
LEMMA TakenAndAppended ==
    ASSUME NEW S, NEW g \in Seq(S), NEW q \in Seq(S), q # <<>>
    PROVE  /\ Append(g, Head(q)) \in Seq(S) /\ Tail(q) \in Seq(S)
           /\ Append(g, Head(q)) \o Tail(q) = g \o q
<1> DEFINE h == Head(q)
           r == Tail(q)
<1>1. h \in S /\ r \in Seq(S) /\ h = q[1]
  BY HeadTailProperties
<1>2. Len(q) \in Nat /\ Len(q) > 0
  BY LenProperties, EmptySeq
<1>3. r = SubSeq(q, 2, Len(q)) /\ SubSeq(q, 1, Len(q)) = q
  BY TailIsSubSeq, SubSeqFull
<1>4. SubSeq(q, 1, Len(q)) = <<q[1]>> \o SubSeq(q, 1 + 1, Len(q))
  BY <1>2, SubSeqRecursiveFirst
<1>5. q = <<h>> \o r
  BY <1>1, <1>3, <1>4
<1> HIDE DEF h, r
<1>6. <<h>> \in Seq(S)
  BY <1>1
<1>7. Append(g, h) = g \o <<h>> /\ Append(g, h) \in Seq(S)
  BY <1>1, AppendIsConcat, AppendProperties
<1>8. (g \o <<h>>) \o r = g \o (<<h>> \o r)
  BY <1>1, <1>6, ConcatAssociative
<1> QED
  BY <1>1, <1>5, <1>7, <1>8 DEF h, r

\* Who receives takes from the front of the queue.
LEMMA MailReceive ==
    ASSUME MailInv, NEW k \in Callers, NEW c \in Mail!Channels, Mail!Receive(k, c)
    PROVE  MailInv'
<1>1. /\ Queues /\ x4[c] # <<>> /\ UNCHANGED <<x6, x7, x8>> /\ x8 \in 0 .. MaxUpdates
      /\ x4' = [x4 EXCEPT ![c] = Tail(x4[c])] /\ c \in {"telegram", "p2p"}
  BY DEF MailInv, Mail!Receive, Mail!Channels
<1>2. CASE c = "p2p"
  <2>1. x9' = x9 /\ x4'["telegram"] = x4["telegram"] /\ x4'["p2p"] = Tail(x4["p2p"])
    BY <1>1, <1>2 DEF Mail!Receive, Queues, Mail!Channels
  <2>2. Tail(x4["p2p"]) \in Seq(Friends \ Strangers)
    BY <1>1, <1>2, HeadTailProperties DEF Queues
  <2>3. Queues'
    BY <1>1, <2>1, <2>2 DEF Queues
  <2>4. Queued' = Queued
    BY <2>1 DEF Queued
  <2> QED
    BY <1>1, <2>3, <2>4, MailKept
<1>3. CASE c = "telegram"
  <2> DEFINE q == x4["telegram"]
             q1 == Tail(q)
             g1 == Append(x9, Head(q))
  <2>1. x9' = g1 /\ x4'["telegram"] = q1 /\ x4'["p2p"] = x4["p2p"]
    BY <1>1, <1>3 DEF Mail!Receive, Queues, Mail!Channels
  <2>2. q \in Seq(Allowed) /\ q # <<>> /\ x9 \in Seq(Allowed)
    BY <1>1, <1>3 DEF Queues
  <2> HIDE DEF q
  <2>3. g1 \in Seq(Allowed) /\ q1 \in Seq(Allowed) /\ g1 \o q1 = x9 \o q
    BY <2>2, TakenAndAppended
  <2> HIDE DEF q1, g1
  <2>5. Queues'
    BY <1>1, <2>1, <2>3 DEF Queues
  <2>7. Queued' = Queued
    BY <2>1, <2>3 DEF Queued, q
  <2> QED
    BY <1>1, <2>5, <2>7, MailKept
<1> QED
  BY <1>1, <1>2, <1>3

LEMMA MailDeliver ==
    ASSUME MailInv, NEW k \in Callers, NEW p \in Mail!Peers, Mail!Deliver(k, p)
    PROVE  MailInv'
<1>1. Queues /\ UNCHANGED <<x6, x7, x8, x9>> /\ x8 \in 0 .. MaxUpdates
  BY DEF MailInv, Mail!Deliver
<1>2. CASE p \in Strangers
  <2>1. x4' = x4
    BY <1>2 DEF Mail!Deliver
  <2> QED
    BY <1>1, <2>1, MailKept DEF Queues, Queued
<1>3. CASE p \notin Strangers
  <2>1. x4' = [x4 EXCEPT !["p2p"] = Append(x4["p2p"], p)]
    BY <1>3 DEF Mail!Deliver
  <2>2. Append(x4["p2p"], p) \in Seq(Friends \ Strangers)
    BY <1>1, <1>3, AppendProperties DEF Queues, Mail!Peers
  <2>3. x4'["telegram"] = x4["telegram"] /\ x4'["p2p"] = Append(x4["p2p"], p)
    BY <1>1, <2>1 DEF Queues, Mail!Channels
  <2>4. Queues' /\ Queued' = Queued
    BY <1>1, <2>1, <2>2, <2>3 DEF Queues, Queued
  <2> QED
    BY <1>1, <2>4, MailKept
<1> QED
  BY <1>2, <1>3

\* An answer begins where the server has begun to remember.
LEMMA MailPoll ==
    ASSUME MailInv, Mail!Poll
    PROVE  MailInv'
<1> DEFINE n == IF x6.offset > x7 + 1 THEN x6.offset - 1 ELSE x7
           b == [i \in 1 .. (x8 - n) |-> n + i]
           p == [x6 EXCEPT !.batch = b]
           s == Queued
<1>1. /\ x6 # None /\ x6.batch = <<>> /\ x6.holds = None /\ UNCHANGED <<x4, x8, x9>>
      /\ x7' = n /\ (x6' = p \/ x6' = x6)
  BY DEF Mail!Poll
<1>2. /\ x7 \in Nat /\ x8 \in 0 .. MaxUpdates /\ Reached(s, x7) /\ SoundPoller(x6, s)
  BY <1>1 DEF MailInv
<1> HIDE DEF s
<1>3. x6 \in [offset : Nat, batch : Seq(1 .. MaxUpdates), holds : Allowed \cup {None}]
  BY <1>2 DEF SoundPoller
<1>4. n \in Nat /\ Reached(s, n) /\ Reached(s, x6.offset - 1)
  BY <1>1, <1>2, <1>3 DEF SoundPoller
<1> HIDE DEF n
<1>5. /\ b \in Seq(1 .. MaxUpdates) /\ \A i \in DOMAIN b : b[i] = b[1] + (i - 1)
      /\ b # <<>> => b[1] = n + 1
  <2> DEFINE m == IF x8 > n THEN x8 - n ELSE 0
  <2>1. m \in Nat /\ 1 .. (x8 - n) = 1 .. m /\ MaxUpdates \in Nat
    BY <1>2, <1>4, MailConstants
  <2>2. \A i \in 1 .. m : n + i \in 1 .. MaxUpdates
    BY <1>2, <1>4, <2>1
  <2> HIDE DEF m
  <2>3. b = [i \in 1 .. m |-> n + i]
    BY <2>1
  <2> HIDE DEF b
  <2>4. b \in [1 .. m -> 1 .. MaxUpdates] /\ \A i \in 1 .. m : b[i] = n + i
    BY <2>2, <2>3
  <2>5. b \in Seq(1 .. MaxUpdates) /\ DOMAIN b = 1 .. m
    BY <2>1, <2>4, SeqDef
  <2>6. b # <<>> => 1 \in 1 .. m
    BY <2>1, <2>5, EmptySeq, LenProperties
  <2> HIDE DEF b
  <2> QED
    BY <1>4, <2>1, <2>4, <2>5, <2>6
<1> HIDE DEF b
<1>6. /\ p \in [offset : Nat, batch : Seq(1 .. MaxUpdates), holds : Allowed \cup {None}]
      /\ p.batch = b /\ p.holds = None /\ p.offset = x6.offset
  BY <1>1, <1>3, <1>5
<1> HIDE DEF p
<1>7. b # <<>> => Reached(s, b[1] - 1)
  BY <1>4, <1>5
<1>8. SoundPoller(p, s)
  BY <1>4, <1>5, <1>6, <1>7 DEF SoundPoller
<1>9. Reached(s, x7') /\ x7' \in Nat /\ SoundPoller(x6', s)
  BY <1>1, <1>2, <1>4, <1>8
<1> QED
  BY <1>1, <1>9, MailPolled DEF s

\* The update that is taken comes next; what is not allowed is passed over.
LEMMA MailTake ==
    ASSUME MailInv, Mail!TakeUpdate
    PROVE  MailInv'
<1> DEFINE b == x6.batch
           u == Head(b)
           p == [offset |-> u + 1, batch |-> Tail(b), holds |-> IF u \in Filtered THEN None ELSE u]
           s == Queued
<1>1. /\ x6 # None /\ b # <<>> /\ x6.holds = None /\ UNCHANGED <<x4, x7, x8, x9>> /\ x6' = p
  BY DEF Mail!TakeUpdate
<1>2. x7 \in Nat /\ Reached(s, x7) /\ SoundPoller(x6, s)
  BY <1>1 DEF MailInv
<1> HIDE DEF s
<1>3. b \in Seq(1 .. MaxUpdates)
  BY <1>2 DEF SoundPoller
<1>4. Reached(s, b[1] - 1) /\ \A i \in DOMAIN b : b[i] = b[1] + (i - 1)
  BY <1>1, <1>2 DEF SoundPoller
<1> HIDE DEF b
<1> DEFINE r == Tail(b)
<1>5. /\ u = b[1] /\ u \in 1 .. MaxUpdates /\ r \in Seq(1 .. MaxUpdates) /\ Len(b) \in Nat
      /\ DOMAIN b = 1 .. Len(b) /\ Len(r) = Len(b) - 1 /\ \A i \in 1 .. Len(r) : r[i] = b[i + 1]
  <2>1. /\ u \in 1 .. MaxUpdates /\ r \in Seq(1 .. MaxUpdates) /\ Len(r) = Len(b) - 1
        /\ \A i \in 1 .. Len(r) : r[i] = b[i + 1]
    BY <1>1, <1>3, HeadTailProperties
  <2>2. Len(b) \in Nat /\ DOMAIN b = 1 .. Len(b)
    BY <1>3, LenProperties
  <2>3. u = b[1]
    BY <1>3
  <2> QED
    BY <2>1, <2>2, <2>3
<1>6. DOMAIN r = 1 .. Len(r) /\ Len(r) \in Nat /\ (r # <<>> => 1 \in DOMAIN r)
  BY <1>5, LenProperties, EmptySeq
<1>7. u \in Nat /\ u + 1 \in Nat /\ MaxUpdates \in Nat
  BY <1>5, MailConstants
<1> HIDE DEF r, u
<1>8. \A i \in DOMAIN r : r[i] = u + i
  <2> SUFFICES ASSUME NEW i \in 1 .. Len(r) PROVE r[i] = u + i
    BY <1>6
  <2>1. i + 1 \in DOMAIN b
    BY <1>5
  <2>2. r[i] = b[i + 1]
    BY <1>5
  <2>3. b[i + 1] = b[1] + ((i + 1) - 1)
    BY <1>4, <2>1
  <2> QED
    BY <1>5, <1>7, <2>2, <2>3
<1>9. /\ r # <<>> => r[1] = u + 1
      /\ \A i \in DOMAIN r : r[i] = r[1] + (i - 1)
  BY <1>6, <1>7, <1>8
<1>10. Reached(s, u - 1)
  BY <1>4, <1>5
<1>11. CASE u \in Filtered
  <2>1. p = [offset |-> u + 1, batch |-> r, holds |-> None]
    BY <1>11 DEF r
  <2>2. /\ p \in [offset : Nat, batch : Seq(1 .. MaxUpdates), holds : Allowed \cup {None}]
        /\ p.offset = u + 1 /\ p.batch = r /\ p.holds = None
    BY <1>5, <1>7, <2>1
  <2>3. Reached(s, u)
    <3>1. (1 .. u) \ Filtered \subseteq (1 .. u - 1) \ Filtered
      BY <1>7, <1>11
    <3> QED
      BY <1>10, <3>1 DEF Reached
  <2>4. Reached(s, p.offset - 1) /\ (r # <<>> => Reached(s, r[1] - 1))
    <3>1. p.offset - 1 = u /\ (r # <<>> => r[1] - 1 = u)
      BY <1>7, <1>9, <2>2
    <3> QED
      BY <2>3, <3>1
  <2> HIDE DEF p
  <2>5. SoundPoller(p, s)
    BY <1>9, <2>2, <2>4 DEF SoundPoller
  <2> QED
    BY <1>1, <1>2, <2>5, MailPolled DEF s
<1>12. CASE u \notin Filtered
  <2>1. p = [offset |-> u + 1, batch |-> r, holds |-> u]
    BY <1>12 DEF r
  <2>2. u \in Allowed /\ u # None
    BY <1>5, <1>12, MailConstants DEF Allowed
  <2>3. /\ p \in [offset : Nat, batch : Seq(1 .. MaxUpdates), holds : Allowed \cup {None}]
        /\ p.offset = u + 1 /\ p.batch = r /\ p.holds = u
    BY <1>5, <1>7, <2>1, <2>2
  <2> HIDE DEF p
  <2>4. SoundPoller(p, s)
    BY <1>9, <1>10, <2>2, <2>3 DEF SoundPoller
  <2> QED
    BY <1>1, <1>2, <2>4, MailPolled DEF s
<1> QED
  BY <1>11, <1>12

\* The update that is held goes to the end of the queue, after those before it.
LEMMA MailQueue ==
    ASSUME MailInv, Mail!QueueUpdate
    PROVE  MailInv'
<1> DEFINE u == x6.holds
           q == x4["telegram"]
           s == Queued
           t == Append(s, u)
           p == [x6 EXCEPT !.holds = None]
<1>1. /\ x6 # None /\ u # None /\ UNCHANGED <<x7, x8, x9>> /\ x6' = p
      /\ x4' = [x4 EXCEPT !["telegram"] = Append(q, u)]
  BY DEF Mail!QueueUpdate
<1>2. /\ Queues /\ x7 \in Nat /\ x8 \in 0 .. MaxUpdates /\ InOrder(s) /\ Reached(s, x7)
      /\ SoundPoller(x6, s)
  BY <1>1 DEF MailInv
<1>3. /\ x6 \in [offset : Nat, batch : Seq(1 .. MaxUpdates), holds : Allowed \cup {None}]
      /\ u \in Allowed /\ Reached(s, u - 1) /\ x6.offset = u + 1
      /\ x6.batch # <<>> => x6.batch[1] = u + 1
      /\ \A i \in DOMAIN x6.batch : x6.batch[i] = x6.batch[1] + (i - 1)
  BY <1>1, <1>2 DEF SoundPoller
<1>4. u \in Nat
  BY <1>3, MailConstants DEF Allowed
<1>5. /\ p \in [offset : Nat, batch : Seq(1 .. MaxUpdates), holds : Allowed \cup {None}]
      /\ p.offset = u + 1 /\ p.batch = x6.batch /\ p.holds = None
  BY <1>3
<1> HIDE DEF u, p
<1>6. s \in Seq(Allowed) /\ x9 \in Seq(Allowed) /\ q \in Seq(Allowed)
  BY <1>2, QueuedIsSeq
<1>7. Append(q, u) \in Seq(Allowed)
  BY <1>3, <1>6, AppendProperties
<1>8. /\ x4'["telegram"] = Append(q, u) /\ x4'["p2p"] = x4["p2p"] /\ DOMAIN x4' = DOMAIN x4
  BY <1>1, <1>2 DEF Queues, Mail!Channels
<1>9. Queues'
  BY <1>1, <1>2, <1>7, <1>8 DEF Queues
<1>10. x9 \o Append(q, u) = Append(x9 \o q, u)
  <2>1. <<u>> \in Seq(Allowed) /\ x9 \o q \in Seq(Allowed)
    BY <1>3, <1>6, ConcatProperties
  <2> HIDE DEF q
  <2> DEFINE z == x9 \o q
  <2>2. z \in Seq(Allowed)
    BY <2>1
  <2> HIDE DEF z
  <2>3. Append(q, u) = q \o <<u>> /\ Append(z, u) = z \o <<u>>
    BY <1>3, <1>6, <2>2, AppendIsConcat
  <2>4. (x9 \o q) \o <<u>> = x9 \o (q \o <<u>>)
    BY <1>6, <2>1, ConcatAssociative
  <2> QED
    BY <2>3, <2>4 DEF z
<1>11. Queued' = t
  BY <1>1, <1>8, <1>10 DEF Queued
<1> HIDE DEF s, q
<1>12. /\ t \in Seq(Allowed) /\ Len(s) \in Nat /\ Len(t) = Len(s) + 1 /\ t[Len(s) + 1] = u
       /\ \A i \in 1 .. Len(s) : t[i] = s[i]
       /\ DOMAIN s = 1 .. Len(s) /\ DOMAIN t = 1 .. Len(s) + 1
  BY <1>3, <1>6, AppendProperties, LenProperties
<1> HIDE DEF t
<1>13. Mail!Members(s) \subseteq Mail!Members(t) /\ u \in Mail!Members(t)
  BY <1>12 DEF Mail!Members
<1>14. \A n : Reached(s, n) => Reached(t, n)
  BY <1>13 DEF Reached
<1>15. Reached(t, u)
  <2>1. \A i \in 1 .. u : i = u \/ i \in 1 .. u - 1
    BY <1>4
  <2> QED
    BY <1>3, <1>13, <2>1 DEF Reached
<1>16. InOrder(t)
  <2> SUFFICES ASSUME NEW i \in 1 .. Len(s) + 1 PROVE Reached(SubSeq(t, 1, i), t[i])
    BY <1>12 DEF InOrder
  <2>1. CASE i = Len(s) + 1
    <3>1. SubSeq(t, 1, i) = t
      BY <1>12, <2>1, SubSeqFull
    <3> QED
      BY <1>12, <1>15, <2>1, <3>1
  <2>2. CASE i \in 1 .. Len(s)
    <3>1. SubSeq(t, 1, i) = SubSeq(s, 1, i)
      <4>1. t = s \o <<u>> /\ <<u>> \in Seq(Allowed) /\ 1 \in 1 .. Len(s)
        BY <1>3, <1>6, <1>12, <2>2, AppendIsConcat DEF t
      <4> QED
        BY <1>6, <2>2, <4>1, SubSeqOfConcat1
    <3> QED
      BY <1>2, <1>12, <2>2, <3>1 DEF InOrder
  <2> QED
    BY <1>12, <2>1, <2>2
<1>17. SoundPoller(p, t)
  <2>1. (u + 1) - 1 = u
    BY <1>4
  <2> QED
    BY <1>3, <1>5, <1>15, <2>1 DEF SoundPoller
<1>18. Reached(t, x7)
  BY <1>2, <1>14
<1>19. InOrder(Queued') /\ Reached(Queued', x7') /\ SoundPoller(x6', Queued')
  BY <1>1, <1>11, <1>16, <1>17, <1>18
<1> QED
  BY <1>1, <1>2, <1>9, <1>19, MailPrimed

LEMMA MailInit == Mail!Init => MailInv
<1> SUFFICES ASSUME Mail!Init PROVE MailInv
  OBVIOUS
<1>1. /\ x4 = [c \in Mail!Channels |-> <<>>] /\ x6 = None /\ x7 = 0 /\ x8 = 0 /\ x9 = <<>>
  BY DEF Mail!Init
<1>2. Queues
  BY <1>1 DEF Queues, Mail!Channels
<1>3. Queued \in Seq(Allowed) /\ Len(Queued) = 0
  BY <1>1, <1>2, QueuedIsSeq, EmptySeq DEF Mail!Channels
<1>4. DOMAIN Queued = {}
  BY <1>3, LenProperties
<1> QED
  BY <1>1, <1>2, <1>4, MailConstants DEF MailInv, InOrder, Reached

LEMMA MailStep ==
    ASSUME MailInv, Mail!Next \/ UNCHANGED own
    PROVE  MailInv'
<1>1. Queues /\ x7 \in Nat /\ x8 \in 0 .. MaxUpdates /\ Reached(Queued, x7)
  BY DEF MailInv
<1>2. CASE UNCHANGED <<x4, x6, x7, x8, x9>>
  BY <1>1, <1>2, MailKept DEF Queues, Queued
<1>3. CASE \E k \in Callers : \E c \in Mail!Channels : Mail!Connect(k, c) \/ Mail!Disconnect(k, c)
  <2>1. UNCHANGED <<x4, x7, x8, x9>> /\ x6' \in {x6, None, Mail!Poller}
    BY <1>3 DEF Mail!Connect, Mail!Disconnect
  <2>2. SoundPoller(Mail!Poller, Queued)
    <3>1. <<>> \in Seq(1 .. MaxUpdates) /\ DOMAIN <<>> = {} /\ 1 .. (0 - 1) = {}
      BY EmptySeq
    <3> QED
      BY <3>1 DEF SoundPoller, Mail!Poller, Reached
  <2>3. x6' = None \/ SoundPoller(x6', Queued)
    BY <2>1, <2>2 DEF MailInv
  <2> QED
    BY <1>1, <2>1, <2>3, MailPolled
<1>4. CASE Mail!Arrive
  <2>1. UNCHANGED <<x4, x6, x7, x9>> /\ x8' \in 0 .. MaxUpdates
    BY <1>1, <1>4, MailConstants DEF Mail!Arrive
  <2> QED
    BY <1>1, <2>1, MailKept DEF Queues, Queued
<1>5. CASE UNCHANGED own
  BY <1>2, <1>5 DEF own
<1>6. CASE \/ \E k \in Callers :
                 \/ \E what \in {"connect", "disconnect", "send"} : Mail!All(k, what)
                 \/ \E c \in Mail!Channels :
                       \/ Mail!Remove(k, c) \/ Mail!One(k, "receive", c) \/ Mail!Test(k, c)
                       \/ Mail!Take(k, c) \/ Mail!ReceiveNothing(k, c) \/ Mail!Send(k, c)
                 \/ Mail!One(k, "deliver", "p2p") \/ Mail!Return(k)
           \/ Mail!NetworkTakes
  <2>1. UNCHANGED <<x4, x6, x7, x8, x9>>
    BY <1>6 DEF Mail!All, Mail!Remove, Mail!One, Mail!Test, Mail!Take, Mail!ReceiveNothing,
       Mail!Send, Mail!Return, Mail!NetworkTakes
  <2> QED
    BY <1>2, <2>1
<1>7. CASE \E k \in Callers : \/ \E c \in Mail!Channels : Mail!Receive(k, c)
                              \/ \E p \in Mail!Peers : Mail!Deliver(k, p)
  BY <1>7, MailReceive, MailDeliver
<1>8. CASE Mail!Poll \/ Mail!TakeUpdate \/ Mail!QueueUpdate
  BY <1>8, MailPoll, MailTake, MailQueue
<1> QED
  BY <1>3, <1>4, <1>5, <1>6, <1>7, <1>8 DEF Mail!Next

LEMMA MailNotLost == MailInv => Mail!NoUpdateLost /\ Mail!OnlyAllowed
<1> SUFFICES ASSUME MailInv PROVE Mail!NoUpdateLost /\ Mail!OnlyAllowed
  OBVIOUS
<1>1. Mail!NoUpdateLost
  <2>1. InOrder(x9 \o x4["telegram"]) /\ Reached(x9 \o x4["telegram"], x7)
    BY DEF MailInv, Queued
  <2> QED
    BY <2>1 DEF Mail!NoUpdateLost, InOrder, Reached
<1>2. Mail!OnlyAllowed
  <2>1. x4["telegram"] \in Seq(Allowed) /\ x4["p2p"] \in Seq(Friends \ Strangers)
    BY DEF MailInv, Queues
  <2>2. /\ \A i \in DOMAIN x4["telegram"] : x4["telegram"][i] \in Allowed
        /\ \A i \in DOMAIN x4["p2p"] : x4["p2p"][i] \in Friends \ Strangers
    BY <2>1, ElementOfSeq, LenProperties
  <2> QED
    BY <2>2 DEF Mail!OnlyAllowed, Mail!Members, Allowed
<1> QED
  BY <1>1, <1>2

-------------------------------------------------------------------------------
(* The parts together                                                      *)

\* The part of the behaviour keeps its invariant; the other variables are its own.
NodeInv ==
    /\ part = "cli" => CliInv
    /\ part = "exec" => ExecInv
    /\ part = "vectors" => VectorsInv
    /\ part = "engine" => EngineInv
    /\ part = "mcp" => McpInv
    /\ part = "mail" => MailInv
    /\ part = "net" => NetInv
    /\ part = "proxy" => ProxyInv
    /\ part = "skills" => SkillsInv
    /\ part = "tools" => ToolsInv
    /\ part = "wasm" => WasmInv
    /\ part = "home" => HomeInv

LEMMA NodeInit == Init => NodeInv
<1> SUFFICES ASSUME Init PROVE NodeInv
  OBVIOUS
<1>1. part = "cli" => Cli!Init
  BY DEF Init
<1>2. part = "exec" => Exec!Init
  BY DEF Init
<1>3. part = "vectors" => Vectors!Init
  BY DEF Init
<1>4. part = "engine" => Engine!Init
  BY DEF Init
<1>5. part = "mcp" => Mcp!Init
  BY DEF Init
<1>6. part = "mail" => Mail!Init
  BY DEF Init
<1>7. part = "net" => Net!Init
  BY DEF Init
<1>8. part = "proxy" => Proxy!Init
  BY DEF Init
<1>9. part = "skills" => Skills!Init
  BY DEF Init
<1>10. part = "tools" => Builtin!Init
  BY DEF Init
<1>11. part = "wasm" => Wasm!Init
  BY DEF Init
<1>12. part = "home" => Home!Init
  BY DEF Init
<1> QED
  BY <1>1, <1>2, <1>3, <1>4, <1>5, <1>6, <1>7, <1>8, <1>9, <1>10, <1>11, <1>12, CliInit,
     ExecInit, VectorsInit, EngineInit, McpInit, MailInit, NetInit, ProxyInit,
     SkillsInit, ToolsInit, WasmInit, HomeInit DEF NodeInv

LEMMA NodeStep ==
    ASSUME NodeInv, Next \/ UNCHANGED vars
    PROVE  NodeInv'
<1>0. part' = part
  BY DEF Next, In, vars
<1>1. part = "cli" => Cli!Next \/ UNCHANGED own
  BY DEF Next, In, vars
<1>2. part = "exec" => Exec!Next \/ UNCHANGED own
  BY DEF Next, In, vars
<1>3. part = "vectors" => Vectors!Next \/ UNCHANGED own
  BY DEF Next, In, vars
<1>4. part = "engine" => Engine!Next \/ UNCHANGED own
  BY DEF Next, In, vars
<1>5. part = "mcp" => Mcp!Next \/ UNCHANGED own
  BY DEF Next, In, vars
<1>6. part = "mail" => Mail!Next \/ UNCHANGED own
  BY DEF Next, In, vars
<1>7. part = "net" => Net!Next \/ UNCHANGED own
  BY DEF Next, In, vars
<1>8. part = "proxy" => Proxy!Next \/ UNCHANGED own
  BY DEF Next, In, vars
<1>9. part = "skills" => Skills!Next \/ UNCHANGED own
  BY DEF Next, In, vars
<1>10. part = "tools" => Builtin!Next \/ UNCHANGED own
  BY DEF Next, In, vars
<1>11. part = "wasm" => Wasm!Next \/ UNCHANGED own
  BY DEF Next, In, vars
<1>12. part = "home" => Home!Next \/ UNCHANGED own
  BY DEF Next, In, vars
<1> QED
  BY <1>0, <1>1, <1>2, <1>3, <1>4, <1>5, <1>6, <1>7, <1>8, <1>9, <1>10, <1>11, <1>12,
     CliStep, ExecStep, VectorsStep, EngineStep, McpStep, MailStep, NetStep, ProxyStep,
     SkillsStep, ToolsStep, WasmStep, HomeStep DEF NodeInv

LEMMA NodeInvHolds == Spec => []NodeInv
BY NodeInit, NodeStep, PTL DEF Spec

\* What is begun can end: a call of an MCP tool that still waits is among the
\* pending ones of the session that reads its answer (McpClient::send_request,
\* start_reader, mcp/client.rs), a routine that runs is marked as running, and
\* each start of the engine leaves at most one loop per routine
\* (RoutineEngine::start, run_routine, routines/mod.rs).
THEOREM BegunCanEnd == Spec => []CallsCanEnd
<1>1. NodeInv => CallsCanEnd
  BY DEF NodeInv, EngineInv, McpInv, McpCalls, CallsCanEnd
<1> QED
  BY <1>1, NodeInvHolds, PTL

\* Two records of one thing agree: the counters that routing looks at are those
\* of the tasks that run here or, of streams, are away (executor/mod.rs); every
\* vector has its collection's dimension, though the collection is replaced
\* while a vector is on its way (vector/mod.rs); between events the dashboard
\* lists the peers the network lists (serve.rs); with no save at work config.toml
\* has the node's settings, but for a flag, the first-time setup and a save that
\* failed, and it never has a flag (web/mod.rs, config/mod.rs); the live MCP
\* session is the configured one, if none was put during a reload (web/mod.rs);
\* the statistics of tools count the calls that returned an output
\* (tools/registry.rs).
THEOREM TwoAccountsAgree == Spec => []AccountsAgree
<1>1. NodeInv => Typed
  BY ToolsTyped, HomeTyped DEF NodeInv, SkillsInv, Typed
<1>2. /\ NodeInv /\ part = "exec" => Exec!CountsRunning
      /\ NodeInv /\ part = "vectors" => Vectors!DimensionsAgree
      /\ NodeInv /\ part = "net" => Net!ListsAgree
  BY ExecCounted, VectorsAgree, NetListsAgree DEF NodeInv
<1>3. /\ NodeInv /\ part = "home" => Home!NodeAndFileAgree /\ Home!FlagsNotSaved
      /\ NodeInv /\ part = "mcp" => Mcp!LiveAsConfigured
      /\ NodeInv /\ part = "tools" => Builtin!CallsCounted
  BY ToolsCounted DEF NodeInv, HomeInv, McpInv, McpReloads
<1>4. NodeInv => AccountsAgree
  BY <1>1, <1>2, <1>3 DEF AccountsAgree
<1> QED
  BY <1>4, NodeInvHolds, PTL

\* Nothing is lost on the way: the history of a chat keeps its last two answers
\* whole and its questions in their order, however often it is cleared and
\* compacted (chat.rs); an update that the bot server forgot was queued, and
\* those before it, through any connecting, disconnecting and lost answers
\* (messaging/platforms); of a shell command that succeeded and of a program
\* that code_exec ran to its end the beginning of each stream is returned,
\* whatever the room of the pipes and whoever else held them, and no shell
\* outlives its call (shell.rs, code_exec.rs; what the tools lose is in the
\* model: the output of a shell command that failed, that of one cut inside a
\* character, and what a shell left running); a saved collection is whole after
\* any crash, if no two saves used the temporary file at once (vector/mod.rs);
\* first starts that do not overlap make one identity, and settings whose save
\* succeeded are in config.toml until another save or the first-time setup
\* (serve.rs, web/mod.rs).
THEOREM NothingIsLost == Spec => []NothingLost
<1>1. NodeInv => NothingLost
  BY CliKept, MailNotLost, ToolsSound, VectorsSaved, HomeOne DEF NodeInv, HomeInv, NothingLost
<1> QED
  BY <1>1, NodeInvHolds, PTL

\* However many handlers look at the limits before any of them counts, the free
\* requests of an hour and the requests of a minute exceed their limits by less
\* than the handlers (proxy/mod.rs); a price is that of the first rule, which
\* means the path (pricing.rs); the offers of a skill are in the order of their
\* prices, one of each provider (registry.rs); and the host touches what a
\* module in the sandbox names within its memory (sandbox.rs), which for a tool of
\* the registry is a part of its module only if a failed write or a crash left
\* that part in its file (wasm/mod.rs).
THEOREM PricesAndLimitsHold == Spec => []PricesAndLimits
<1>1. NodeInv => PricesAndLimits
  BY ProxyLimits, ProxyPrices, SkillsOffered, RangesKept, WasmModules
     DEF NodeInv, PricesAndLimits
<1> QED
  BY <1>1, NodeInvHolds, PTL

===============================================================================
