------------------------------ MODULE ServeProofs ------------------------------
(***************************************************************************)
(* The serve loop for any callers, runs and capacities.  What was offered  *)
(* to the network is never executed here and paid for as well, because     *)
(* every piece of work is new when the loop takes it up: its item is not   *)
(* among those in use (Used), and no other message stands for it.  That    *)
(* holds as long as the loop does not wait for itself; then it never takes *)
(* up anything again.                                                      *)
(***************************************************************************)
EXTENDS ServeLoop, SequenceTheorems, TLAPS

USE ServeAssumption

\* Asks that become work of the executor or of the marketplace.
WorkAsks == {"infer", "submit", "job", "llm"}
Work(m) == m.ask \in WorkAsks
ItemOf(m) == <<m.who, m.n>>

\* Items that the executor or the marketplace has seen.
Used ==
    requested \cup unsent \cup sent \cup arrived \cup bids \cup accepted \cup ranHere
    \cup ({exec.item} \ {None})

Places(c) == 1 .. Len(queue[c])

\* The messages of work that wait for the loop are of items that are new, one for
\* each item.
QueueNew ==
    /\ \A c \in Channels : \A k \in Places(c) : queue[c][k].n <= turn[queue[c][k].who]
    /\ \A c \in Channels : \A k \in Places(c) :
         Work(queue[c][k]) => ItemOf(queue[c][k]) \notin Used
    /\ \A c, d \in Channels : \A k \in Places(c) : \A l \in Places(d) :
         Work(queue[c][k]) /\ Work(queue[d][l]) /\ ItemOf(queue[c][k]) = ItemOf(queue[d][l])
           => c = d /\ k = l

\* So is the item of a caller that waits for room.
SenderNew ==
    \A c \in Callers \ Agents : state[c].is = "sending" /\ state[c].ask \in WorkAsks =>
        /\ <<c, turn[c]>> \notin Used
        /\ \A d \in Channels : \A k \in Places(d) :
             Work(queue[d][k]) => ItemOf(queue[d][k]) # <<c, turn[c]>>

UsedCounted == \A i \in Used : i[2] <= turn[i[1]]

New == QueueNew /\ SenderNew /\ UsedCounted

\* Agent tasks are asked for as such; each channel has what it is for.
AsksFit ==
    /\ \A a \in Agents : state[a].ask = "run"
    /\ \A c \in Callers \ Agents : state[c].is = "sending" => state[c].ask # "run"

WellQueued ==
    \A c \in Channels : \A k \in Places(c) :
        /\ c \in {"agent", "crews", "flows"} => queue[c][k].who \in Runs
        /\ c \in {"infer", "submit"} => queue[c][k].ask = c

\* The executor is busy for a run that waits for its model, or for no run.
LoopFits ==
    /\ exec.stage = "idle" <=> exec.item = None
    /\ run = None <=> step = "idle"
    /\ run # None /\ exec # Idle <=> step = "model"
    /\ at = "stopped" => exec = Idle /\ run = None

Placed == AsksFit /\ WellQueued /\ LoopFits

\* What is executed here was not accepted, and cannot be.
Apart ==
    /\ NeverPaidTwice
    /\ named \cap ranHere = {}
    /\ exec.item \notin named \cup accepted \cup bids
    /\ OffloadStaysHere

Inv == TypeOK /\ RunningIsRun /\ Placed /\ Apart /\ (~SelfWait => New)

-------------------------------------------------------------------------------
(* What the helpers of ServeLoop do.                                       *)

QueueOK ==
    /\ queue \in [Channels -> Seq(Messages)]
    /\ \A c \in Channels : Len(queue[c]) <= Capacity

StateOK ==
    state \in [Callers -> [is : {"idle", "sending", "waiting", "done", "gaveup", "gone"},
                           ask : Asks]]

\* Taking a message shifts the others of its channel by one place (try_recv).
LEMMA TakeShifts ==
  ASSUME QueueOK, NEW c \in Channels, queue[c] # <<>>, Take(c)
  PROVE  /\ QueueOK'
         /\ Head(queue[c]) = queue[c][1] /\ queue[c][1] \in Messages /\ 1 \in Places(c)
         /\ \A d \in Channels : d # c => queue'[d] = queue[d]
         /\ \A k \in Places(c)' : k + 1 \in Places(c) /\ queue'[c][k] = queue[c][k + 1]
<1> DEFINE q == queue[c]
<1>1. q \in Seq(Messages) /\ q # <<>> /\ Len(q) <= Capacity
  BY DEF QueueOK
<1>2. /\ Tail(q) \in Seq(Messages) /\ Len(Tail(q)) = Len(q) - 1 /\ Len(q) \in Nat \ {0}
      /\ \A k \in 1 .. Len(Tail(q)) : Tail(q)[k] = q[k + 1]
  BY <1>1, HeadTailProperties, EmptySeq, LenProperties
<1>3. queue' = [queue EXCEPT ![c] = Tail(q)]
  BY DEF Take
<1>4. queue'[c] = Tail(q) /\ \A d \in Channels : d # c => queue'[d] = queue[d]
  BY <1>3 DEF QueueOK
<1>5. QueueOK'
  BY <1>1, <1>2, <1>3, <1>4 DEF QueueOK
<1>6. Head(q) = q[1] /\ q[1] \in Messages
  BY <1>1, <1>2
<1> QED
  BY <1>2, <1>4, <1>5, <1>6 DEF Places

\* A message that is put into a channel with room is its last.
LEMMA PutAppends ==
  ASSUME QueueOK, NEW c \in Channels, NEW m \in Messages, HasRoom(c), Put(c, m)
  PROVE  /\ QueueOK'
         /\ \A d \in Channels : d # c => queue'[d] = queue[d]
         /\ Places(c)' = Places(c) \cup {Len(queue[c]) + 1} /\ Len(queue[c]) \in Nat
         /\ queue'[c][Len(queue[c]) + 1] = m
         /\ \A k \in Places(c) : queue'[c][k] = queue[c][k]
<1> DEFINE q == queue[c]
<1>1. q \in Seq(Messages) /\ Len(q) \in Nat /\ Len(q) < Capacity
  BY DEF QueueOK, HasRoom
<1>2. /\ Append(q, m) \in Seq(Messages) /\ Len(Append(q, m)) = Len(q) + 1
      /\ Append(q, m)[Len(q) + 1] = m
      /\ \A k \in 1 .. Len(q) : Append(q, m)[k] = q[k]
  BY <1>1, AppendProperties
<1>3. queue' = [queue EXCEPT ![c] = Append(q, m)]
  BY DEF Put
<1>4. queue'[c] = Append(q, m) /\ \A d \in Channels : d # c => queue'[d] = queue[d]
  BY <1>3 DEF QueueOK
<1>5. QueueOK'
  BY <1>1, <1>2, <1>3, <1>4 DEF QueueOK
<1> QED
  BY <1>1, <1>2, <1>4, <1>5 DEF Places

\* An answer changes no request, and no caller that is still sending.
LEMMA AnswerKeeps ==
  ASSUME StateOK, NEW m, state' = Answered(m)
  PROVE  /\ StateOK'
         /\ \A c \in Callers : /\ state'[c].ask = state[c].ask
                               /\ state'[c].is = "sending" <=> state[c].is = "sending"
BY DEF StateOK, Answered

\* A task that the executor takes up is requested and published, or neither; nothing
\* else happens in the marketplace.
Started(i) ==
    /\ exec' = [item |-> i, stage |-> exec'.stage]
    /\ exec'.stage \in {"refused", "local", "collect"}
    /\ requested' \subseteq requested \cup {i} /\ requested \subseteq requested'
    /\ unsent' \subseteq unsent \cup {i}
    /\ UNCHANGED <<peers, named, sent, arrived, bids, accepted>>

LEMMA StartMoves ==
  ASSUME NEW i, Start(i, TRUE) \/ Start(i, FALSE)
  PROVE  Started(i)
BY DEF Start, Begin, Broadcast, Publish, market, Started

\* A job that is submitted is requested in this node's name, or nothing happens.
LEMMA SubmitMoves ==
  ASSUME NEW i \in Items, SubmitJob(i)
  PROVE  /\ requested' \subseteq requested \cup {i} /\ requested \subseteq requested'
         /\ unsent' \subseteq unsent \cup {i}
         /\ named' \subseteq named \cup {i} /\ (i \in requested' \/ named' = named)
         /\ UNCHANGED <<peers, sent, arrived, bids, accepted>>
BY DEF SubmitJob, Publish, market

-------------------------------------------------------------------------------
(* Types.                                                                  *)

LEMMA TypeInit == Init => TypeOK
<1> SUFFICES ASSUME Init PROVE TypeOK
  OBVIOUS
<1>1. queue \in [Channels -> Seq(Messages)] /\ \A c \in Channels : Len(queue[c]) <= Capacity
  BY EmptySeq DEF Init
<1>2. /\ state \in [Callers -> [is : {"idle", "sending", "waiting", "done", "gaveup", "gone"},
                                ask : Asks]]
      /\ turn \in [Workers -> 0 .. MaxTurns]
      /\ record \in [Kickoffs -> {"none", "pending", "running", "finished"}]
  BY DEF Init, Asks
<1> QED
  BY <1>1, <1>2 DEF Init, TypeOK, Idle, Stages

LEMMA TypeKept == TypeOK /\ Placed /\ Next => TypeOK'
<1> SUFFICES ASSUME TypeOK, Placed, Next PROVE TypeOK'
  OBVIOUS
<1> DEFINE Stage == Stages \cup {"stopped"}
           Exec == [item : Items \cup {None},
                    stage : {"idle", "collect", "local", "remote", "refused"}]
<1>0. QueueOK /\ StateOK
  BY DEF TypeOK, QueueOK, StateOK
<1> DEFINE Follow == \A x \in Stages : Following[x] \in Stages
<1>a. Follow
  BY DEF Following, Stages
<1>b. \A i : i \in Items <=> \E w \in Workers, n \in 0 .. MaxTurns : i = <<w, n>>
  BY DEF Items
<1>c. \A w \in Workers : turn[w] \in Nat /\ turn[w] <= MaxTurns
  BY DEF TypeOK
<1>d. run # None => run \in Workers
  BY DEF TypeOK, Runs, Workers, Callers, Kickoffs
<1>1. CASE Poll
  BY <1>1, <1>a DEF Poll, Free, Advance, TypeOK, settings, runs
<1>2. CASE PollOffer
  <2>1. PICK o \in Offers : /\ turn[o] = 0 /\ turn' = [turn EXCEPT ![o] = 1]
                            /\ Start(<<o, 1>>, FALSE)
    BY <1>2 DEF PollOffer
  <2>2. <<o, 1>> \in Items
    BY <1>b DEF Workers
  <2>3. turn' \in [Workers -> 0 .. MaxTurns]
    <3>1. o \in Workers /\ 1 \in 0 .. MaxTurns
      BY DEF Workers
    <3> QED
      BY <2>1, <3>1 DEF TypeOK
  <2>4. at = "poll"
    BY <1>2 DEF PollOffer, Free
  <2> QED
    <3> DEFINE i == <<o, 1>>
    <3> HIDE DEF i
    <3>1. i \in Items /\ Started(i)
      BY <2>1, <2>2, StartMoves, Zenon DEF i
    <3> QED
      BY <1>2, <2>3, <3>1 DEF PollOffer, TypeOK, settings, runs, Started
<1>3. ASSUME NEW c \in Channels, Skip(c) PROVE TypeOK'
  BY <1>3, <1>a DEF Skip, Free, Advance, TypeOK, settings, runs, market, Stages, Channels
<1>4. CASE Infer
  <2> DEFINE m == Head(queue["infer"])
  <2>1. "infer" \in Channels
    BY DEF Channels
  <2>2. QueueOK' /\ m \in Messages
    BY <1>0, <1>4, <2>1, TakeShifts DEF Infer
  <2>3. ItemOf(m) \in Items
    BY <2>2 DEF Messages, Items, ItemOf
  <2>4. Started(ItemOf(m))
    <3>1. Start(ItemOf(m), TRUE) \/ Start(ItemOf(m), FALSE)
      BY <1>4 DEF Infer, ItemOf
    <3> QED
      BY <3>1, StartMoves, Zenon
  <2> QED
    BY <1>4, <2>2, <2>3, <2>4 DEF Infer, TypeOK, QueueOK, settings, runs, Started
<1>5. CASE Submit
  <2> DEFINE m == Head(queue["submit"])
  <2>1. "submit" \in Channels
    BY DEF Channels
  <2>2. QueueOK' /\ m \in Messages
    BY <1>0, <1>5, <2>1, TakeShifts DEF Submit
  <2>3. ItemOf(m) \in Items /\ SubmitJob(ItemOf(m))
    BY <1>5, <2>2 DEF Messages, Items, ItemOf, Submit
  <2>4. StateOK'
    BY <1>0, <1>5, AnswerKeeps DEF Submit
  <2> QED
    BY <1>5, <1>a, <2>2, <2>3, <2>4, SubmitMoves
    DEF Submit, Free, Advance, TypeOK, QueueOK, StateOK, settings, runs
<1>6. CASE Tool
  <2> DEFINE m == Head(queue["tools"])
  <2>1. "tools" \in Channels
    BY DEF Channels
  <2>2. QueueOK' /\ m \in Messages
    BY <1>0, <1>6, <2>1, TakeShifts DEF Tool
  <2>3. ItemOf(m) \in Items
    BY <2>2 DEF Messages, Items, ItemOf
  <2>4. CASE /\ m.ask = "query" \/ (m.ask = "spawn" /\ ~withAgent)
             /\ state' = Answered(m) /\ Advance
             /\ UNCHANGED <<exec, run, step, market>>
    <3>1. StateOK'
      BY <1>0, <2>4, AnswerKeeps
    <3> QED
      BY <1>6, <1>a, <2>2, <2>4, <3>1
      DEF Tool, Free, Advance, TypeOK, QueueOK, StateOK, settings, market
  <2>5. CASE /\ SubmitJob(ItemOf(m)) /\ state' = Answered(m) /\ Advance
             /\ UNCHANGED <<exec, run, step>>
    <3>1. StateOK'
      BY <1>0, <2>5, AnswerKeeps
    <3> QED
      BY <1>6, <1>a, <2>2, <2>3, <2>5, <3>1, SubmitMoves
      DEF Tool, Free, Advance, TypeOK, QueueOK, StateOK, settings
  <2>6. CASE Start(ItemOf(m), FALSE) /\ UNCHANGED <<at, run, step, state>>
    <3> DEFINE i == ItemOf(m)
    <3> HIDE DEF i
    <3>1. i \in Items /\ Started(i)
      BY <2>3, <2>6, StartMoves, Zenon DEF i
    <3> QED
      BY <1>6, <2>2, <2>6, <3>1 DEF Tool, TypeOK, QueueOK, settings, Started
  <2>7. CASE run' = SubAgent /\ step' = "think" /\ UNCHANGED <<at, exec, state, market>>
    BY <1>6, <2>2, <2>7 DEF Tool, TypeOK, QueueOK, settings, market
  <2> QED
    BY <1>6, <2>4, <2>5, <2>6, <2>7 DEF Tool, ItemOf
<1>7. ASSUME NEW c \in {"agent", "crews", "flows"}, StartRun(c) PROVE TypeOK'
  <2> DEFINE m == Head(queue[c])
  <2>1. c \in Channels
    BY DEF Channels
  <2>2. QueueOK' /\ m \in Messages
    BY <1>0, <1>7, <2>1, TakeShifts DEF StartRun
  <2>3. m.who \in Runs
    BY <1>0, <1>7, <2>1, TakeShifts DEF StartRun, Placed, WellQueued
  <2>4. record' \in [Kickoffs -> {"none", "pending", "running", "finished"}]
    BY <1>7 DEF StartRun, TypeOK
  <2> QED
    BY <1>7, <2>2, <2>3, <2>4 DEF StartRun, TypeOK, QueueOK, settings, market
<1>8. CASE \E b \in BOOLEAN : Signal(b)
  <2>1. PICK b \in BOOLEAN : Signal(b)
    BY <1>8
  <2>2. StateOK'
    BY <1>0, <2>1 DEF Signal, StateOK
  <2>3. at' \in Stages \cup {"stopped"}
    BY <1>a, <2>1 DEF Signal, Free, Advance, Stages
  <2> QED
    BY <2>1, <2>2, <2>3 DEF Signal, TypeOK, StateOK, settings, runs, market
<1>9. CASE Tick
  <2>1. PICK due \in SUBSET Acceptable : /\ accepted' = accepted \cup due
                                         /\ requested' = requested \ due
                                         /\ named' = named \ due
    BY <1>9 DEF Tick
  <2>2. due \subseteq Items
    BY <2>1 DEF Acceptable, TypeOK
  <2>3. at' \in Stages
    BY <1>9, <1>a DEF Tick, Free, Advance, Stages
  <2> QED
    BY <1>9, <2>1, <2>2, <2>3 DEF Tick, TypeOK, settings, runs
<1>10. CASE Collect
  BY <1>10 DEF Collect, HasBid, TypeOK, settings, runs
<1>11. CASE Finish
  <2>1. StateOK'
    BY <1>0, <1>11, AnswerKeeps DEF Finish, StateOK
  <2>2. at' \in Stages \cup {"stopped"}
    BY <1>11, <1>a DEF Finish, Resumed, TypeOK, Placed, LoopFits, Idle
  <2>3. {i \in {exec.item} : exec.stage = "local"} \subseteq Items
    BY DEF TypeOK, Placed, LoopFits
  <2>4. step' \in {"act", step}
    BY <1>11 DEF Finish
  <2> QED
    BY <1>11, <2>1, <2>2, <2>3, <2>4 DEF Finish, Idle, TypeOK, StateOK, settings, market
<1>e. ASSUME run # None, MoreTurns
      PROVE  /\ turn[run] + 1 \in 0 .. MaxTurns
             /\ NextTurn \in [Workers -> 0 .. MaxTurns]
  BY <1>c, <1>d, <1>e DEF MoreTurns, NextTurn, TypeOK
<1>f. ASSUME run # None, NEW ask \in Asks, NEW w \in {"self", "spawn"}, Request(ask, w)
      PROVE  QueueOK' /\ step' \in {"self", "spawn"}
  <2> DEFINE c == ChannelOf(ask)
             m == [who |-> run, n |-> turn[run], ask |-> ask]
  <2>1. c \in Channels /\ m \in Messages
    BY <1>c, <1>d, <1>f DEF ChannelOf, Channels, Messages, Asks, ToolAsks
  <2>2. CASE HasRoom(c) /\ Put(c, m) /\ step' = w
    BY <1>0, <2>1, <2>2, PutAppends
  <2>3. CASE step' = "self" /\ UNCHANGED queue
    BY <1>0, <2>3 DEF QueueOK
  <2> QED
    BY <1>f, <2>2, <2>3 DEF Request
<1>12. CASE ThinkBySink
  <2>1. "infer" \in Asks /\ run # None
    BY <1>12 DEF Asks, ThinkBySink, AtIteration
  <2>2. QueueOK' /\ step' \in {"self", "spawn"}
    BY <1>12, <1>f, <2>1 DEF ThinkBySink
  <2>3. turn' \in [Workers -> 0 .. MaxTurns]
    BY <1>12, <1>e, <2>1 DEF ThinkBySink
  <2> QED
    BY <1>12, <2>2, <2>3 DEF ThinkBySink, TypeOK, QueueOK, settings, market
<1>13. CASE ThinkDirectly
  <2>1. run # None /\ turn' = NextTurn /\ MoreTurns
    BY <1>13 DEF ThinkDirectly, AtIteration
  <2> DEFINE i == <<run, turn[run] + 1>>
  <2>2. i \in Items
    BY <1>d, <1>e, <2>1 DEF Items
  <2>4. Started(i)
    BY <1>13, StartMoves, Zenon DEF ThinkDirectly
  <2>3. turn' \in [Workers -> 0 .. MaxTurns]
    BY <1>e, <2>1
  <2> HIDE DEF i
  <2> QED
    BY <1>13, <2>2, <2>3, <2>4 DEF ThinkDirectly, TypeOK, settings, Started
<1>14. CASE UseTool
  <2>1. run # None
    BY <1>14 DEF UseTool, Placed, LoopFits
  <2>2. QueueOK' /\ step' \in {"think", "self", "spawn"}
    <3>1. CASE AnswersItself
      BY <1>0, <3>1 DEF AnswersItself, QueueOK
    <3>2. CASE AskToSubmit \/ LookUp \/ AskForWork
      <4>1. PICK ask \in Asks, w \in {"self", "spawn"} : Request(ask, w)
        BY <3>2 DEF AskToSubmit, LookUp, AskForWork, Asks, ToolAsks
      <4> QED
        BY <1>f, <2>1, <4>1
    <3> QED
      BY <1>14, <3>1, <3>2 DEF UseTool
  <2> QED
    BY <1>14, <2>2 DEF UseTool, TypeOK, QueueOK, settings, market
<1>15. CASE SpawnTimeout
  BY <1>15 DEF SpawnTimeout, TypeOK, settings, market
<1>16. CASE EndRun
  <2>1. StateOK'
    BY <1>0, <1>16, AnswerKeeps DEF EndRun, StateOK
  <2>2. record' \in [Kickoffs -> {"none", "pending", "running", "finished"}]
    BY <1>16 DEF EndRun, Completed, TypeOK
  <2>3. at' \in Stages \cup {"stopped"}
    BY <1>16, <1>a DEF EndRun, AtIteration, TypeOK, Placed, LoopFits
  <2> QED
    BY <1>16, <2>1, <2>2, <2>3 DEF EndRun, TypeOK, StateOK, settings, market
<1>17. ASSUME NEW c \in Callers, Ask(c) \/ Send(c) \/ GiveUp(c) PROVE TypeOK'
  <2>1. c \in Workers
    BY DEF Workers
  <2>2. CASE Ask(c)
    <3>1. PICK ask \in Asked(c) : state' = [state EXCEPT ![c] = [is |-> "sending", ask |-> ask]]
      BY <2>2 DEF Ask
    <3>2. Asked(c) \subseteq Asks
      BY DEF Asked, Asks, ToolAsks, Callers
    <3>3. StateOK'
      BY <1>0, <3>1, <3>2 DEF StateOK
    <3>4. turn' \in [Workers -> 0 .. MaxTurns]
      BY <1>c, <2>1, <2>2 DEF Ask, TypeOK
    <3> QED
      BY <2>2, <3>3, <3>4 DEF Ask, TypeOK, StateOK, settings, runs, market
  <2>3. CASE Send(c)
    <3> DEFINE ask == state[c].ask
               m == [who |-> c, n |-> turn[c], ask |-> ask]
    <3>1. ask \in Asks
      BY DEF TypeOK
    <3>2. ChannelOf(ask) \in Channels /\ m \in Messages
      BY <1>c, <2>1, <3>1 DEF ChannelOf, Channels, Messages, Asks, ToolAsks
    <3>3. QueueOK'
      BY <1>0, <2>3, <3>2, PutAppends DEF Send
    <3>4. StateOK'
      BY <1>0, <2>3 DEF Send, StateOK
    <3> QED
      BY <2>3, <3>3, <3>4 DEF Send, TypeOK, QueueOK, StateOK, settings, runs, market
  <2>4. CASE GiveUp(c)
    <3>1. StateOK'
      BY <1>0, <2>4 DEF GiveUp, StateOK
    <3> QED
      BY <2>4, <3>1 DEF GiveUp, TypeOK, StateOK, settings, runs, market
  <2> QED
    BY <1>17, <2>2, <2>3, <2>4
<1>18. ASSUME NEW k \in Kickoffs, Kickoff(k) PROVE TypeOK'
  <2> DEFINE c == IF k \in Crews THEN "crews" ELSE "flows"
             m == [who |-> k, n |-> 0, ask |-> "run"]
  <2>1. c \in Channels /\ m \in Messages
    BY DEF Channels, Messages, Asks, Workers
  <2>2. QueueOK'
    <3>1. CASE HasRoom(c) /\ Put(c, m)
      BY <1>0, <2>1, <3>1, PutAppends
    <3>2. CASE UNCHANGED queue
      BY <1>0, <3>2 DEF QueueOK
    <3> QED
      BY <1>18, <3>1, <3>2 DEF Kickoff
  <2>3. record' \in [Kickoffs -> {"none", "pending", "running", "finished"}]
    BY <1>18 DEF Kickoff, TypeOK
  <2> QED
    BY <1>18, <2>2, <2>3 DEF Kickoff, TypeOK, QueueOK, settings, market
<1>19. ASSUME NEW r \in Runs, Stop(r) PROVE TypeOK'
  BY <1>19 DEF Stop, TypeOK, settings, market
<1>20. ASSUME NEW i \in Items, PeerBid(i) PROVE TypeOK'
  BY <1>20 DEF PeerBid, TypeOK, settings, runs
<1> QED
  BY <1>1, <1>2, <1>3, <1>4, <1>5, <1>6, <1>7, <1>8, <1>9, <1>10, <1>11, <1>12, <1>13,
     <1>14, <1>15, <1>16, <1>17, <1>18, <1>19, <1>20
  DEF Next, LoopStep

-------------------------------------------------------------------------------
(* Where the loop, its runs and its callers are.                           *)

LEMMA PlacedInit == Init => Placed /\ RunningIsRun
<1> SUFFICES ASSUME Init PROVE Placed /\ RunningIsRun
  OBVIOUS
<1>1. AsksFit
  BY DEF Init, AsksFit, Callers
<1>2. WellQueued
  <2> SUFFICES ASSUME NEW c \in Channels, NEW k \in Places(c) PROVE FALSE
    BY DEF WellQueued
  <2>1. queue[c] = <<>>
    BY DEF Init, Channels
  <2> QED
    BY <2>1, EmptySeq DEF Places
<1>3. LoopFits
  BY DEF Init, LoopFits, Idle
<1>4. RunningIsRun
  BY DEF Init, RunningIsRun, Kickoffs, Workers
<1> QED
  BY <1>1, <1>2, <1>3, <1>4 DEF Placed

LEMMA AsksKept == TypeOK /\ AsksFit /\ Next => AsksFit'
<1> SUFFICES ASSUME TypeOK, AsksFit, Next PROVE AsksFit'
  OBVIOUS
<1>1. StateOK
  BY DEF TypeOK, StateOK
<1>2. ASSUME NEW m, state' = Answered(m) PROVE AsksFit'
  BY <1>1, <1>2, AnswerKeeps DEF AsksFit, Callers
<1>3. CASE UNCHANGED state
  BY <1>3 DEF AsksFit
<1>4. ASSUME NEW b \in BOOLEAN, Signal(b) PROVE AsksFit'
  <2>1. \A c \in Callers : /\ state'[c].ask = state[c].ask
                           /\ state'[c].is = "sending" => state[c].is = "sending"
    BY <1>1, <1>4 DEF Signal, StateOK
  <2> QED
    BY <2>1 DEF AsksFit, Callers
<1>5. ASSUME NEW c \in Callers, Ask(c) PROVE AsksFit'
  <2>1. PICK ask \in Asked(c) : state' = [state EXCEPT ![c] = [is |-> "sending", ask |-> ask]]
    BY <1>5 DEF Ask
  <2>2. c \in Agents => ask = "run"
    BY <2>1 DEF Asked, Runs
  <2>3. c \notin Agents => ask # "run"
    BY <2>1 DEF Asked, Callers, ToolAsks
  <2> QED
    BY <1>1, <2>1, <2>2, <2>3 DEF AsksFit, StateOK
<1>6. ASSUME NEW c \in Callers, Send(c) \/ GiveUp(c) PROVE AsksFit'
  <2>1. \A d \in Callers : /\ state'[d].ask = state[d].ask
                           /\ state'[d].is = "sending" => state[d].is = "sending"
    BY <1>1, <1>6 DEF Send, GiveUp, StateOK
  <2> QED
    BY <2>1 DEF AsksFit, Callers
<1>7. CASE LoopStep
  <2>1. UNCHANGED state \/ (\E m : state' = Answered(m)) \/ Signal(FALSE)
    BY <1>7 DEF LoopStep, Poll, PollOffer, Skip, Infer, Submit, Tool, StartRun, Tick, Collect,
       Finish, ThinkBySink, ThinkDirectly, UseTool, SpawnTimeout, EndRun
  <2> QED
    BY <1>2, <1>3, <1>4, <2>1
<1>8. CASE \/ \E k \in Kickoffs : Kickoff(k)
           \/ \E r \in Runs : Stop(r)
           \/ \E i \in Items : PeerBid(i)
  BY <1>3, <1>8 DEF Kickoff, Stop, PeerBid
<1> QED
  BY <1>4, <1>5, <1>6, <1>7, <1>8 DEF Next

LEMMA QueuedKept == TypeOK /\ Placed /\ Next => WellQueued'
<1> SUFFICES ASSUME TypeOK, AsksFit, WellQueued, LoopFits, Next PROVE WellQueued'
  BY DEF Placed
<1>0. QueueOK /\ StateOK
  BY DEF TypeOK, QueueOK, StateOK
<1> DEFINE C == {"agent", "crews", "flows"}
<1>1. CASE UNCHANGED queue
  BY <1>1 DEF WellQueued, Places
<1>2. ASSUME NEW c \in Channels, queue[c] # <<>>, Take(c) PROVE WellQueued'
  <2>1. \A d \in Channels : \A k \in Places(d)' :
           \E l \in Places(d) : queue'[d][k] = queue[d][l]
    BY <1>0, <1>2, TakeShifts DEF Places
  <2> QED
    BY <2>1 DEF WellQueued, Channels
<1>3. ASSUME NEW c \in Channels, NEW m \in Messages, HasRoom(c), Put(c, m),
             c \in C => m.who \in Runs, c \in {"infer", "submit"} => m.ask = c
      PROVE  WellQueued'
  <2> SUFFICES ASSUME NEW d \in Channels, NEW k \in Places(d)'
               PROVE  /\ d \in C => queue'[d][k].who \in Runs
                      /\ d \in {"infer", "submit"} => queue'[d][k].ask = d
    BY DEF WellQueued
  <2>1. CASE d = c
    BY <1>0, <1>3, <2>1, PutAppends DEF WellQueued
  <2>2. CASE d # c
    BY <1>0, <1>3, <2>2, PutAppends DEF WellQueued, Places, Channels
  <2> QED
    BY <2>1, <2>2
<1>4. ASSUME run # None, NEW ask \in Asks \ {"run"}, NEW w, Request(ask, w)
      PROVE  WellQueued'
  <2>1. [who |-> run, n |-> turn[run], ask |-> ask] \in Messages
    BY <1>4 DEF TypeOK, Messages, Runs, Workers, Callers, Kickoffs
  <2>2. /\ ChannelOf(ask) \in Channels \ C
        /\ ChannelOf(ask) \in {"infer", "submit"} => ask = ChannelOf(ask)
    BY <1>4 DEF ChannelOf, Channels, Asks, ToolAsks
  <2> QED
    BY <1>1, <1>3, <1>4, <2>1, <2>2 DEF Request
<1>5. CASE ThinkBySink
  BY <1>4, <1>5 DEF ThinkBySink, AtIteration, Asks
<1>6. CASE UseTool
  <2>1. CASE AnswersItself
    BY <1>1, <2>1 DEF AnswersItself
  <2>2. run # None
    BY <1>6 DEF UseTool, LoopFits
  <2> QED
    BY <1>4, <1>6, <2>1, <2>2
    DEF UseTool, AskToSubmit, LookUp, AskForWork, Asks, ToolAsks
<1>7. CASE LoopStep
  <2>1. \/ UNCHANGED queue
        \/ \E c \in Channels : queue[c] # <<>> /\ Take(c)
        \/ ThinkBySink \/ UseTool
    BY <1>7 DEF LoopStep, Poll, PollOffer, Skip, Infer, Submit, Tool, StartRun, Signal, Tick, Collect,
       Finish, ThinkDirectly, SpawnTimeout, EndRun, runs, Channels
  <2> QED
    BY <1>1, <1>2, <1>5, <1>6, <2>1
<1>8. ASSUME NEW c \in Callers, Ask(c) \/ Send(c) \/ GiveUp(c) PROVE WellQueued'
  <2>1. CASE Send(c)
    <3> DEFINE ask == state[c].ask
               m == [who |-> c, n |-> turn[c], ask |-> ask]
    <3>1. ask \in Asks
      BY <1>0 DEF StateOK
    <3>2. ChannelOf(ask) \in Channels /\ m \in Messages
      BY <3>1 DEF TypeOK, ChannelOf, Channels, Messages, Asks, ToolAsks, Workers
    <3>3. /\ ChannelOf(ask) \in C => c \in Runs
          /\ ChannelOf(ask) \in {"infer", "submit"} => ask = ChannelOf(ask)
      BY <2>1, <3>1 DEF Send, ChannelOf, Asks, ToolAsks, AsksFit, Runs
    <3> QED
      BY <1>3, <2>1, <3>2, <3>3 DEF Send
  <2> QED
    BY <1>1, <1>8, <2>1 DEF Ask, GiveUp
<1>9. ASSUME NEW k \in Kickoffs, Kickoff(k) PROVE WellQueued'
  <2> DEFINE c == IF k \in Crews THEN "crews" ELSE "flows"
             m == [who |-> k, n |-> 0, ask |-> "run"]
  <2>1. c \in Channels \ {"infer", "submit"} /\ m \in Messages /\ m.who \in Runs
    BY DEF Channels, Messages, Asks, Workers, Runs
  <2> QED
    BY <1>1, <1>3, <1>9, <2>1 DEF Kickoff
<1>10. CASE \/ \E b \in BOOLEAN : Signal(b)
            \/ \E r \in Runs : Stop(r)
            \/ \E i \in Items : PeerBid(i)
  BY <1>1, <1>10 DEF Signal, Stop, PeerBid
<1> QED
  BY <1>7, <1>8, <1>9, <1>10 DEF Next

\* Each step of the loop is at one place of it; the others leave it alone.
LEMMA LoopKept == TypeOK /\ Placed /\ RunningIsRun /\ Next => LoopFits' /\ RunningIsRun'
<1> SUFFICES ASSUME TypeOK, Placed, LoopFits, RunningIsRun, Next
             PROVE  LoopFits' /\ RunningIsRun'
  BY DEF Placed
<1> DEFINE Goal == LoopFits' /\ RunningIsRun'
<1>a. \A x \in Stages : Following[x] # "stopped"
  BY DEF Following, Stages
<1>b. \A i \in Items : i # None
  OBVIOUS
<1>q. QueueOK
  BY DEF TypeOK, QueueOK
<1>c. ASSUME NEW c \in Channels, queue[c] # <<>> PROVE ItemOf(Head(queue[c])) # None
  <2>1. Head(queue[c]) \in Messages
    BY <1>c, <1>q DEF QueueOK
  <2> QED
    BY <1>b, <2>1 DEF Messages, ItemOf, Items
<1>1. CASE UNCHANGED <<at, exec, run, step, record>>
  BY <1>1 DEF LoopFits, RunningIsRun
<1>2. CASE at \in Stages /\ Advance /\ UNCHANGED <<exec, run, step, record>>
  BY <1>2, <1>a DEF Advance, LoopFits, RunningIsRun
<1>3. ASSUME NEW i, i # None, Started(i), run = None, at \in Stages, UNCHANGED <<at, run, step, record>>
      PROVE  Goal
  BY <1>3 DEF Started, LoopFits, RunningIsRun, Idle, Stages
<1>4. CASE PollOffer
  <2>1. PICK o \in Offers : Start(<<o, 1>>, FALSE)
    BY <1>4 DEF PollOffer
  <2> DEFINE i == <<o, 1>>
  <2>2. i # None
    BY <1>b DEF Items, Workers
  <2>3. Started(i)
    BY <2>1, StartMoves, Zenon
  <2> HIDE DEF i
  <2> QED
    BY <1>3, <1>4, <2>2, <2>3 DEF PollOffer, Free, runs, Stages
<1>5. CASE Infer
  <2> DEFINE i == ItemOf(Head(queue["infer"]))
  <2>1. i # None
    BY <1>c, <1>5 DEF Infer, Channels
  <2>2. Start(i, TRUE) \/ Start(i, FALSE)
    BY <1>5 DEF Infer, ItemOf
  <2>3. Started(i)
    BY <2>2, StartMoves, Zenon
  <2> HIDE DEF i
  <2> QED
    BY <1>3, <1>5, <2>1, <2>3 DEF Infer, Free, runs, Stages
<1>6. CASE Tool
  <2> DEFINE m == Head(queue["tools"])
             i == ItemOf(m)
  <2>1. i # None
    BY <1>c, <1>6 DEF Tool, Channels
  <2>2. CASE Start(i, FALSE) /\ UNCHANGED <<at, run, step, state>>
    <3>1. Started(i)
      BY <2>2, StartMoves, Zenon
    <3> HIDE DEF i
    <3> QED
      BY <1>3, <1>6, <2>1, <2>2, <3>1 DEF Tool, Free, Stages
  <2>3. CASE run' = SubAgent /\ step' = "think" /\ UNCHANGED <<at, exec, state, market>>
    BY <1>6, <2>3 DEF Tool, Free, LoopFits, RunningIsRun, Idle, Workers
  <2>4. CASE Advance /\ UNCHANGED <<exec, run, step>>
    BY <1>2, <1>6, <2>4 DEF Tool, Free, Stages
  <2> QED
    BY <1>6, <2>2, <2>3, <2>4 DEF Tool, ItemOf
<1>7. ASSUME NEW c \in {"agent", "crews", "flows"}, StartRun(c) PROVE Goal
  <2> DEFINE w == Head(queue[c]).who
  <2>1. w \in Runs
    BY <1>7, <1>q, TakeShifts DEF StartRun, Placed, WellQueued, Channels
  <2>2. w # None
    BY <2>1 DEF Runs, Workers, Callers, Kickoffs
  <2>3. /\ run = None /\ exec = Idle /\ at = c
        /\ run' = w /\ step' = "think" /\ UNCHANGED <<at, exec>>
        /\ record' = IF w \in Kickoffs THEN [record EXCEPT ![w] = "running"] ELSE record
    BY <1>7 DEF StartRun, Free
  <2> HIDE DEF w
  <2>4. LoopFits'
    BY <2>2, <2>3 DEF LoopFits, Idle
  <2>5. RunningIsRun'
    BY <2>3 DEF RunningIsRun, TypeOK, Kickoffs, Workers
  <2> QED
    BY <2>4, <2>5
<1>8. ASSUME NEW b \in BOOLEAN, Signal(b) PROVE Goal
  BY <1>8, <1>a DEF Signal, Free, Advance, runs, LoopFits, RunningIsRun, Stages
<1>9. CASE Collect
  BY <1>9 DEF Collect, runs, LoopFits, RunningIsRun, Idle, TypeOK
<1>10. CASE Finish
  <2>1. at \in Stages
    BY <1>10 DEF Finish, LoopFits, TypeOK, Idle
  <2>2. /\ exec # Idle /\ exec' = Idle /\ UNCHANGED <<run, record>>
        /\ at' = IF run # None THEN at ELSE Following[at]
        /\ step' = IF run # None THEN "act" ELSE step
    BY <1>10 DEF Finish, Resumed, Idle
  <2> QED
    BY <1>a, <2>1, <2>2 DEF LoopFits, RunningIsRun, Idle, Stages
<1>11. CASE ThinkBySink \/ UseTool \/ SpawnTimeout
  <2>1. /\ run # None /\ step \notin {"idle", "model"}
        /\ step' \notin {"idle", "model"} /\ UNCHANGED <<at, exec, run, record>>
    BY <1>11 DEF ThinkBySink, UseTool, SpawnTimeout, AtIteration, Request, AnswersItself,
       AskToSubmit, LookUp, AskForWork, LoopFits
  <2> QED
    BY <2>1 DEF LoopFits, RunningIsRun
<1>12. CASE ThinkDirectly
  <2> DEFINE i == <<run, turn[run] + 1>>
  <2>1. /\ run # None /\ step = "think" /\ MoreTurns
        /\ step' = "model" /\ UNCHANGED <<at, run, record>>
    BY <1>12 DEF ThinkDirectly, AtIteration
  <2>2. i # None
    <3>1. run \in Workers
      BY <2>1 DEF TypeOK, Runs, Workers, Callers, Kickoffs
    <3>2. turn[run] + 1 \in 0 .. MaxTurns
      BY <2>1, <3>1 DEF MoreTurns, TypeOK
    <3> QED
      BY <1>b, <3>1, <3>2 DEF Items
  <2>3. Started(i)
    BY <1>12, StartMoves, Zenon DEF ThinkDirectly
  <2> HIDE DEF i
  <2> QED
    BY <2>1, <2>2, <2>3 DEF Started, LoopFits, RunningIsRun, Idle
<1>13. CASE EndRun
  <2>1. /\ run # None /\ step # "model" /\ exec = Idle
        /\ run' = None /\ step' = "idle" /\ UNCHANGED exec
        /\ at' \in {at, Following[at]} /\ at \in Stages
        /\ record' = IF run \in Kickoffs THEN [record EXCEPT ![run] = "finished"] ELSE record
    BY <1>13 DEF EndRun, AtIteration, Completed, LoopFits, TypeOK
  <2>2. LoopFits'
    BY <1>a, <2>1 DEF LoopFits, Idle, Stages
  <2>3. RunningIsRun'
    BY <2>1 DEF RunningIsRun, TypeOK, Kickoffs, Workers
  <2> QED
    BY <2>2, <2>3
<1>14. ASSUME NEW k \in Kickoffs, Kickoff(k) PROVE Goal
  BY <1>14 DEF Kickoff, LoopFits, RunningIsRun, TypeOK
<1>15. CASE Poll \/ (\E c \in Channels : Skip(c)) \/ Submit \/ Tick
  BY <1>2, <1>15 DEF Poll, Skip, Submit, Tick, Free, runs, Stages, Channels
<1>16. CASE \/ \E c \in Callers : Ask(c) \/ Send(c) \/ GiveUp(c)
            \/ \E r \in Runs : Stop(r)
            \/ \E i \in Items : PeerBid(i)
  BY <1>1, <1>16 DEF Ask, Send, GiveUp, Stop, PeerBid, runs
<1> QED
  BY <1>4, <1>5, <1>6, <1>7, <1>8, <1>9, <1>10, <1>11, <1>12, <1>13, <1>14, <1>15, <1>16
  DEF Next, LoopStep

-------------------------------------------------------------------------------
(* The loop that waits for itself, and what is executed here.              *)

\* While the loop waits for itself only callers, peers and the dashboard move.
LEMMA SelfStays ==
  ASSUME TypeOK, LoopFits, Next, SelfWait
  PROVE  SelfWait' /\ UNCHANGED <<exec, requested, named, bids, accepted, ranHere>>
<1>1. run # None /\ exec = Idle /\ step = "self"
  BY DEF SelfWait, LoopFits
<1>2. ~LoopStep /\ ~(\E b \in BOOLEAN : Signal(b))
  BY <1>1 DEF LoopStep, Poll, PollOffer, Skip, Infer, Submit, Tool, StartRun, Signal, Tick, Free,
     Collect, Finish, ThinkBySink, ThinkDirectly, UseTool, SpawnTimeout, EndRun, AtIteration, Idle
<1>3. ASSUME NEW c \in Callers, Ask(c) \/ Send(c) \/ GiveUp(c)
      PROVE  UNCHANGED <<step, exec, requested, named, bids, accepted, ranHere>>
  BY <1>3 DEF Ask, Send, GiveUp, runs, market
<1>4. ASSUME NEW k \in Kickoffs, Kickoff(k)
      PROVE  UNCHANGED <<step, exec, requested, named, bids, accepted, ranHere>>
  BY <1>4 DEF Kickoff, market
<1>5. ASSUME NEW r \in Runs, Stop(r)
      PROVE  UNCHANGED <<step, exec, requested, named, bids, accepted, ranHere>>
  BY <1>5 DEF Stop, market
<1>6. ASSUME NEW i \in Items, PeerBid(i)
      PROVE  UNCHANGED <<step, exec, requested, named, bids, accepted, ranHere>>
  BY <1>6 DEF PeerBid, runs
<1> QED
  BY <1>2, <1>3, <1>4, <1>5, <1>6 DEF Next, SelfWait

\* The item of the next model call of a run, and of a job of another peer, is new.
LEMMA NextIsNew ==
  ASSUME TypeOK, UsedCounted, NEW w \in Workers
  PROVE  <<w, turn[w] + 1>> \notin Used
BY DEF TypeOK, UsedCounted

\* The item of a message of work is new.
LEMMA HeadIsNew ==
  ASSUME TypeOK, QueueNew, NEW c \in Channels, queue[c] # <<>>, Take(c), Work(Head(queue[c]))
  PROVE  ItemOf(Head(queue[c])) \notin Used /\ ItemOf(Head(queue[c])) \in Items
<1>1. QueueOK
  BY DEF TypeOK, QueueOK
<1>2. Head(queue[c]) = queue[c][1] /\ queue[c][1] \in Messages /\ 1 \in Places(c)
  BY <1>1, TakeShifts
<1> QED
  BY <1>2 DEF QueueNew, Messages, ItemOf, Items

LEMMA ApartKept == TypeOK /\ Placed /\ Apart /\ (~SelfWait => New) /\ Next => Apart'
<1> SUFFICES ASSUME TypeOK, LoopFits, AsksFit, WellQueued, Apart, ~SelfWait => New, Next PROVE Apart'
  BY DEF Placed
<1>1. CASE UNCHANGED <<exec, requested, named, bids, accepted, ranHere>>
  BY <1>1 DEF Apart, NeverPaidTwice, OffloadStaysHere
<1>2. CASE SelfWait
  BY <1>1, <1>2, SelfStays
<1>3. ASSUME New, NEW i, i \notin Used, Started(i), UNCHANGED ranHere PROVE Apart'
  <2>1. exec'.item = i /\ exec'.stage # "remote" /\ UNCHANGED <<named, bids, accepted>>
    BY <1>3 DEF Started
  <2>2. i \notin named \cup accepted \cup bids
    BY <1>3 DEF TypeOK, Used
  <2> QED
    BY <1>3, <2>1, <2>2 DEF Apart, NeverPaidTwice, OffloadStaysHere
<1>4. ASSUME NEW i \in Items, i \notin Used, SubmitJob(i), UNCHANGED <<exec, ranHere>>, exec = Idle
      PROVE  Apart'
  <2>1. named' \subseteq named \cup {i} /\ UNCHANGED <<bids, accepted>>
    BY <1>4, SubmitMoves
  <2>2. None \notin named' \cup accepted' \cup bids'
    BY <1>4, <2>1 DEF TypeOK
  <2> QED
    BY <1>4, <2>1, <2>2 DEF Apart, NeverPaidTwice, OffloadStaysHere, Idle, Used
<1>5. ASSUME New, PollOffer PROVE Apart'
  <2>1. PICK o \in Offers : turn[o] = 0 /\ Start(<<o, 1>>, FALSE)
    BY <1>5 DEF PollOffer
  <2> DEFINE i == <<o, 1>>
  <2>2. i \notin Used
    BY <1>5, <2>1, NextIsNew DEF New, Workers
  <2>3. Started(i)
    BY <2>1, StartMoves, Zenon
  <2> HIDE DEF i
  <2> QED
    BY <1>3, <1>5, <2>2, <2>3 DEF PollOffer
<1>6. ASSUME New, Infer PROVE Apart'
  <2> DEFINE i == ItemOf(Head(queue["infer"]))
  <2>1. Work(Head(queue["infer"]))
    <3>1. QueueOK /\ "infer" \in Channels
      BY DEF TypeOK, QueueOK, Channels
    <3>2. Head(queue["infer"]) = queue["infer"][1] /\ 1 \in Places("infer")
      BY <1>6, <3>1, TakeShifts DEF Infer
    <3> QED
      BY <3>1, <3>2 DEF WellQueued, Work, WorkAsks
  <2>2. i \notin Used
    BY <1>6, <2>1, HeadIsNew DEF Infer, New, Channels
  <2>3. Start(i, TRUE) \/ Start(i, FALSE)
    BY <1>6 DEF Infer, ItemOf
  <2>4. Started(i)
    BY <2>3, StartMoves, Zenon
  <2> HIDE DEF i
  <2> QED
    BY <1>3, <1>6, <2>2, <2>4 DEF Infer
<1>7. ASSUME New, Submit PROVE Apart'
  <2> DEFINE i == ItemOf(Head(queue["submit"]))
  <2>1. Work(Head(queue["submit"]))
    <3>1. QueueOK /\ "submit" \in Channels
      BY DEF TypeOK, QueueOK, Channels
    <3>2. Head(queue["submit"]) = queue["submit"][1] /\ 1 \in Places("submit")
      BY <1>7, <3>1, TakeShifts DEF Submit
    <3> QED
      BY <3>1, <3>2 DEF WellQueued, Work, WorkAsks
  <2>2. i \notin Used /\ i \in Items
    BY <1>7, <2>1, HeadIsNew DEF Submit, New, Channels
  <2>3. SubmitJob(i)
    BY <1>7 DEF Submit, ItemOf
  <2> HIDE DEF i
  <2> QED
    BY <1>4, <1>7, <2>2, <2>3 DEF Submit, Free
<1>8. ASSUME New, Tool PROVE Apart'
  <2> DEFINE m == Head(queue["tools"])
             i == ItemOf(m)
  <2>1. ASSUME Work(m) PROVE i \notin Used /\ i \in Items
    BY <1>8, <2>1, HeadIsNew DEF Tool, New, Channels
  <2>2. CASE m.ask = "llm" /\ Start(i, FALSE)
    <3>1. i \notin Used
      BY <2>1, <2>2 DEF Work, WorkAsks
    <3>2. Started(i)
      BY <2>2, StartMoves, Zenon
    <3> HIDE DEF i
    <3> QED
      BY <1>3, <1>8, <3>1, <3>2 DEF Tool
  <2>3. CASE m.ask = "job" /\ SubmitJob(i) /\ UNCHANGED exec
    <3>1. i \notin Used /\ i \in Items
      BY <2>1, <2>3 DEF Work, WorkAsks
    <3> HIDE DEF i
    <3> QED
      BY <1>4, <1>8, <2>3, <3>1 DEF Tool, Free
  <2>4. CASE UNCHANGED <<exec, market>>
    BY <1>1, <1>8, <2>4 DEF Tool, market
  <2> QED
    BY <1>8, <2>2, <2>3, <2>4 DEF Tool, ItemOf
<1>9. ASSUME New, ThinkDirectly PROVE Apart'
  <2> DEFINE i == <<run, turn[run] + 1>>
  <2>1. run \in Workers
    BY <1>9 DEF ThinkDirectly, AtIteration, TypeOK, Runs, Workers, Callers, Kickoffs
  <2>2. i \notin Used
    BY <1>9, <2>1, NextIsNew DEF New
  <2>3. Started(i)
    BY <1>9, StartMoves, Zenon DEF ThinkDirectly
  <2> HIDE DEF i
  <2> QED
    BY <1>3, <1>9, <2>2, <2>3 DEF ThinkDirectly
<1>10. CASE Collect
  BY <1>10 DEF Collect, HasBid, Apart, NeverPaidTwice, OffloadStaysHere, TypeOK
<1>11. CASE Finish
  BY <1>11 DEF Finish, Apart, NeverPaidTwice, OffloadStaysHere, TypeOK, Idle, market
<1>12. CASE Poll
  <2>1. exec = Idle /\ UNCHANGED <<exec, named, accepted, ranHere>> /\ bids' \subseteq Items
    BY <1>12 DEF Poll, Free, TypeOK
  <2> QED
    BY <2>1 DEF Apart, NeverPaidTwice, OffloadStaysHere, TypeOK, Idle
<1>13. CASE Tick
  <2>1. PICK due \in SUBSET Acceptable : accepted' = accepted \cup due /\ named' = named \ due
    BY <1>13 DEF Tick
  <2>2. due \subseteq named
    BY <2>1 DEF Acceptable, Mine
  <2>3. exec = Idle /\ UNCHANGED <<exec, bids, ranHere>>
    BY <1>13 DEF Tick, Free
  <2> QED
    BY <2>1, <2>2, <2>3 DEF Apart, NeverPaidTwice, OffloadStaysHere, TypeOK, Idle
<1>14. CASE \/ \E c \in Channels : Skip(c)
            \/ \E c \in {"agent", "crews", "flows"} : StartRun(c)
            \/ \E b \in BOOLEAN : Signal(b)
            \/ ThinkBySink \/ UseTool \/ SpawnTimeout \/ EndRun
  BY <1>1, <1>14 DEF Skip, StartRun, Signal, ThinkBySink, UseTool, SpawnTimeout, EndRun, market
<1>15. CASE \/ \E c \in Callers : Ask(c) \/ Send(c) \/ GiveUp(c)
            \/ \E k \in Kickoffs : Kickoff(k)
            \/ \E r \in Runs : Stop(r)
            \/ \E i \in Items : PeerBid(i)
  BY <1>1, <1>15 DEF Ask, Send, GiveUp, Kickoff, Stop, PeerBid, market
<1> QED
  BY <1>2, <1>5, <1>6, <1>7, <1>8, <1>9, <1>10, <1>11, <1>12, <1>13, <1>14, <1>15
  DEF Next, LoopStep

-------------------------------------------------------------------------------
(* What waits is new.                                                      *)

LEMMA UsedItems == TypeOK => Used \subseteq Items
<1> SUFFICES ASSUME TypeOK PROVE Used \subseteq Items
  OBVIOUS
<1>1. {exec.item} \ {None} \subseteq Items
  BY DEF TypeOK
<1>2. requested \cup unsent \cup sent \cup arrived \cup bids \cup accepted \cup ranHere \subseteq Items
  BY DEF TypeOK
<1> QED
  BY <1>1, <1>2 DEF Used

\* The work X is taken up, or none is: at most the first message of a channel leaves
\* it, and nothing else in it or with a caller stands for X.
Leaves(f, X) ==
    /\ \A d \in Channels : \A k \in Places(d)' :
         /\ k + f[d] \in Places(d) /\ queue'[d][k] = queue[d][k + f[d]]
         /\ Work(queue'[d][k]) => ItemOf(queue'[d][k]) \notin X
    /\ \A c \in Callers \ Agents :
         /\ turn'[c] = turn[c]
         /\ state'[c].is = "sending" => /\ state[c].is = "sending"
                                        /\ state'[c].ask = state[c].ask
                                        /\ state[c].ask \in WorkAsks => <<c, turn[c]>> \notin X
    /\ \A w \in Workers : turn[w] <= turn'[w]
    /\ Used' \subseteq Used \cup X

LEMMA NewTaken ==
  ASSUME TypeOK, TypeOK', New, NEW f \in [Channels -> {0, 1}], NEW X \in SUBSET Items, Leaves(f, X),
         \A i \in X : i[2] <= turn'[i[1]]
  PROVE  New'
<1>q. QueueOK /\ QueueOK'
  BY DEF TypeOK, QueueOK
<1>t. \A w \in Workers : turn[w] \in Nat /\ turn'[w] \in Nat /\ turn[w] <= turn'[w]
  BY DEF TypeOK, Leaves
<1>m. \A d \in Channels : \A k \in Places(d)' :
        queue'[d][k] \in Messages /\ k \in Nat /\ f[d] \in Nat
  BY <1>q DEF QueueOK, Places
<1>1. ASSUME NEW c \in Channels, NEW k \in Places(c)'
      PROVE  queue'[c][k].n <= turn'[queue'[c][k].who]
  <2>1. queue'[c][k].n <= turn[queue'[c][k].who]
    BY DEF Leaves, New, QueueNew
  <2>2. queue'[c][k].n \in Nat /\ queue'[c][k].who \in Workers
    BY <1>m DEF Messages
  <2> QED
    BY <1>t, <2>1, <2>2
<1>2. ASSUME NEW c \in Channels, NEW k \in Places(c)', Work(queue'[c][k])
      PROVE  ItemOf(queue'[c][k]) \notin Used'
  BY <1>2 DEF Leaves, New, QueueNew
<1>3. ASSUME NEW c \in Channels, NEW d \in Channels, NEW k \in Places(c)', NEW l \in Places(d)',
             Work(queue'[c][k]), Work(queue'[d][l]), ItemOf(queue'[c][k]) = ItemOf(queue'[d][l])
      PROVE  c = d /\ k = l
  <2>1. c = d /\ k + f[c] = l + f[d]
    BY <1>3 DEF Leaves, New, QueueNew
  <2> QED
    BY <1>m, <2>1
<1>4. SenderNew'
  <2> SUFFICES ASSUME NEW c \in Callers \ Agents, state'[c].is = "sending", state'[c].ask \in WorkAsks
               PROVE  /\ <<c, turn'[c]>> \notin Used'
                      /\ \A d \in Channels : \A k \in Places(d)' :
                           Work(queue'[d][k]) => ItemOf(queue'[d][k]) # <<c, turn'[c]>>
    BY DEF SenderNew
  <2>1. turn'[c] = turn[c] /\ state[c].is = "sending" /\ state'[c].ask = state[c].ask
    BY DEF Leaves
  <2>2. state[c].ask \in WorkAsks => <<c, turn[c]>> \notin X
    BY DEF Leaves
  <2> QED
    BY <2>1, <2>2 DEF Leaves, New, SenderNew
<1>5. UsedCounted'
  <2> SUFFICES ASSUME NEW i \in Used' PROVE i[2] <= turn'[i[1]]
    BY DEF UsedCounted
  <2>1. CASE i \in X
    BY <2>1
  <2>2. CASE i \in Used
    <3>1. i \in Items
      BY <2>2, UsedItems
    <3>2. i[1] \in Workers /\ i[2] \in Nat
      BY <3>1 DEF Items
    <3>3. i[2] <= turn[i[1]]
      BY <2>2 DEF New, UsedCounted
    <3> QED
      BY <1>t, <3>2, <3>3
  <2> QED
    BY <2>1, <2>2 DEF Leaves
<1> QED
  BY <1>1, <1>2, <1>3, <1>4, <1>5 DEF New, QueueNew

\* A message that is put into a channel is no work, or that of a caller that waited
\* for room.
LEMMA NewPut ==
  ASSUME TypeOK, TypeOK', New, NEW c \in Channels, NEW m \in Messages, HasRoom(c), Put(c, m),
         UNCHANGED <<turn, exec, market, ranHere>>,
         m.n <= turn[m.who],
         Work(m) => /\ m.who \in Callers \ Agents /\ m.n = turn[m.who]
                    /\ state[m.who].is = "sending" /\ state[m.who].ask \in WorkAsks
                    /\ state'[m.who].is # "sending",
         \A d \in Callers \ Agents :
            state'[d].is = "sending" => state[d].is = "sending" /\ state'[d].ask = state[d].ask
  PROVE  New'
<1> DEFINE last == Len(queue[c]) + 1
<1>q. QueueOK
  BY DEF TypeOK, QueueOK
<1>1. /\ \A d \in Channels : d # c => queue'[d] = queue[d]
      /\ Places(c)' = Places(c) \cup {last} /\ last \notin Places(c)
      /\ queue'[c][last] = m
      /\ \A k \in Places(c) : queue'[c][k] = queue[c][k]
  BY <1>q, PutAppends DEF Places
<1>2. \A d \in Channels : d # c => Places(d)' = Places(d)
  BY <1>1 DEF Places
<1>u. Used' = Used
  BY DEF Used, market
<1> HIDE DEF last
<1>3. ASSUME Work(m)
      PROVE  /\ ItemOf(m) \notin Used
             /\ \A d \in Channels : \A k \in Places(d) :
                  Work(queue[d][k]) => ItemOf(queue[d][k]) # ItemOf(m)
  <2>1. ItemOf(m) = <<m.who, turn[m.who]>>
    BY <1>3 DEF ItemOf
  <2> QED
    BY <1>3, <2>1 DEF New, SenderNew
<1>4. ASSUME NEW d \in Channels, NEW k \in Places(d)'
      PROVE  \/ d = c /\ k = last /\ queue'[d][k] = m
             \/ k \in Places(d) /\ queue'[d][k] = queue[d][k] /\ (d = c => k # last)
  BY <1>1, <1>2
<1>5. QueueNew'
  <2>1. ASSUME NEW d \in Channels, NEW k \in Places(d)'
        PROVE  /\ queue'[d][k].n <= turn'[queue'[d][k].who]
               /\ Work(queue'[d][k]) => ItemOf(queue'[d][k]) \notin Used'
    BY <1>3, <1>4, <1>u DEF New, QueueNew
  <2>2. ASSUME NEW d \in Channels, NEW e \in Channels, NEW k \in Places(d)', NEW l \in Places(e)',
               Work(queue'[d][k]), Work(queue'[e][l]), ItemOf(queue'[d][k]) = ItemOf(queue'[e][l])
        PROVE  d = e /\ k = l
    <3>1. CASE d = c /\ k = last /\ queue'[d][k] = m
      BY <1>3, <1>4, <2>2, <3>1
    <3>2. CASE e = c /\ l = last /\ queue'[e][l] = m
      BY <1>3, <1>4, <2>2, <3>2
    <3>3. CASE /\ k \in Places(d) /\ queue'[d][k] = queue[d][k]
               /\ l \in Places(e) /\ queue'[e][l] = queue[e][l]
      BY <2>2, <3>3 DEF New, QueueNew
    <3> QED
      BY <1>4, <3>1, <3>2, <3>3
  <2> QED
    BY <2>1, <2>2 DEF QueueNew
<1>6. SenderNew'
  <2> SUFFICES ASSUME NEW s \in Callers \ Agents, state'[s].is = "sending", state'[s].ask \in WorkAsks
               PROVE  /\ <<s, turn'[s]>> \notin Used'
                      /\ \A d \in Channels : \A k \in Places(d)' :
                           Work(queue'[d][k]) => ItemOf(queue'[d][k]) # <<s, turn'[s]>>
    BY DEF SenderNew
  <2>1. state[s].is = "sending" /\ state[s].ask \in WorkAsks /\ turn'[s] = turn[s]
    OBVIOUS
  <2>2. Work(m) => ItemOf(m) # <<s, turn'[s]>>
    BY DEF ItemOf
  <2> QED
    BY <1>4, <1>u, <2>1, <2>2 DEF New, SenderNew
<1>7. UsedCounted'
  BY <1>u DEF New, UsedCounted
<1> QED
  BY <1>5, <1>6, <1>7 DEF New

\* No caller begins to wait for room.
SendersKept ==
    \A c \in Callers \ Agents :
        state'[c].is = "sending" => state[c].is = "sending" /\ state'[c].ask = state[c].ask

LEMMA NewQuiet ==
  ASSUME TypeOK, TypeOK', New, UNCHANGED <<queue, turn>>, SendersKept, Used' \subseteq Used
  PROVE  New'
<1> DEFINE f == [c \in Channels |-> 0]
<1>1. f \in [Channels -> {0, 1}] /\ {} \in SUBSET Items
  OBVIOUS
<1>2. \A d \in Channels : \A k \in Places(d)' :
         k + f[d] \in Places(d) /\ queue'[d][k] = queue[d][k + f[d]]
  BY DEF Places
<1>3. \A w \in Workers : turn[w] <= turn'[w]
  BY DEF TypeOK
<1> HIDE DEF f
<1>4. Leaves(f, {})
  BY <1>2, <1>3 DEF Leaves, SendersKept
<1> QED
  BY <1>1, <1>4, NewTaken

\* The first message of a channel is taken: if it is work, its item may be in use then.
LEMMA NewHead ==
  ASSUME TypeOK, TypeOK', New, NEW c \in Channels, queue[c] # <<>>, Take(c), UNCHANGED turn,
         SendersKept,
         Used' \subseteq Used \cup {i \in {ItemOf(Head(queue[c]))} : Work(Head(queue[c]))}
  PROVE  New'
<1> DEFINE m == Head(queue[c])
           X == {i \in {ItemOf(m)} : Work(m)}
           f == [d \in Channels |-> IF d = c THEN 1 ELSE 0]
<1>q. QueueOK
  BY DEF TypeOK, QueueOK
<1>1. /\ m = queue[c][1] /\ m \in Messages /\ 1 \in Places(c)
      /\ \A d \in Channels : d # c => queue'[d] = queue[d]
      /\ \A k \in Places(c)' : k + 1 \in Places(c) /\ queue'[c][k] = queue[c][k + 1]
  BY <1>q, TakeShifts
<1>2. f \in [Channels -> {0, 1}]
  OBVIOUS
<1>3. X \subseteq Items /\ \A i \in X : i[2] <= turn'[i[1]]
  BY <1>1 DEF ItemOf, Items, Messages, New, QueueNew
<1>4. ASSUME NEW d \in Channels, NEW k \in Places(d)'
      PROVE  /\ k + f[d] \in Places(d) /\ queue'[d][k] = queue[d][k + f[d]]
             /\ ~(d = c /\ k + f[d] = 1)
  <2>1. k \in Nat \ {0}
    BY DEF Places
  <2> QED
    BY <1>1, <2>1 DEF Places
<1> HIDE DEF f
<1>5. ASSUME NEW d \in Channels, NEW k \in Places(d)', Work(queue'[d][k])
      PROVE  ItemOf(queue'[d][k]) \notin X
  BY <1>1, <1>4, <1>5 DEF New, QueueNew
<1>6. ASSUME NEW s \in Callers \ Agents, state[s].is = "sending", state[s].ask \in WorkAsks
      PROVE  <<s, turn[s]>> \notin X
  BY <1>1, <1>6 DEF New, SenderNew
<1>7. \A w \in Workers : turn[w] <= turn'[w]
  BY DEF TypeOK
<1>8. Leaves(f, X)
  BY <1>4, <1>5, <1>6, <1>7 DEF Leaves, SendersKept
<1> QED
  BY <1>2, <1>3, <1>8, NewTaken

\* A worker that has no caller waiting for room begins its next item.
LEMMA NewNext ==
  ASSUME TypeOK, TypeOK', New, NEW w \in Workers, w \notin Callers \ Agents,
         turn[w] < MaxTurns, turn' = [turn EXCEPT ![w] = @ + 1], UNCHANGED <<queue, state>>,
         Used' \subseteq Used \cup {<<w, turn[w] + 1>>}
  PROVE  New'
<1> DEFINE i == <<w, turn[w] + 1>>
           f == [c \in Channels |-> 0]
<1>t. \A v \in Workers : turn[v] \in Nat
  BY DEF TypeOK
<1>1. i \in Items /\ i[2] <= turn'[i[1]]
  BY <1>t DEF TypeOK, Items
<1>2. \A v \in Workers : turn[v] <= turn'[v]
  BY <1>t DEF TypeOK
<1>3. \A c \in Callers \ Agents : turn'[c] = turn[c] /\ c # w
  BY DEF TypeOK, Workers
<1>4. f \in [Channels -> {0, 1}]
  OBVIOUS
<1>5. \A d \in Channels : \A k \in Places(d)' :
         k + f[d] \in Places(d) /\ queue'[d][k] = queue[d][k + f[d]]
  BY DEF Places
<1> HIDE DEF f
<1>6. ASSUME NEW d \in Channels, NEW k \in Places(d)'
      PROVE  ItemOf(queue'[d][k]) # i
  <2>1. queue'[d][k] = queue[d][k] /\ k \in Places(d)
    BY DEF Places
  <2>2. queue[d][k].n <= turn[queue[d][k].who]
    BY <2>1 DEF New, QueueNew
  <2> QED
    BY <1>t, <2>1, <2>2 DEF ItemOf
<1>7. Leaves(f, {i})
  BY <1>2, <1>3, <1>5, <1>6 DEF Leaves
<1> QED
  BY <1>1, <1>4, <1>7, NewTaken

LEMMA AskKeepsNew ==
  ASSUME TypeOK, TypeOK', New, NEW c \in Callers, Ask(c)
  PROVE  New'
<1>t. \A w \in Workers : turn[w] \in Nat
  BY DEF TypeOK
<1>1. /\ turn' = [turn EXCEPT ![c] = IF c \in Agents THEN 0 ELSE @ + 1]
      /\ turn[c] < (IF c \in Tasks THEN MaxTurns ELSE 1)
      /\ UNCHANGED <<queue, exec, market, ranHere>>
      /\ \A d \in Callers : d # c => state'[d] = state[d]
  BY DEF Ask, TypeOK
<1>2. Used' = Used
  BY <1>1 DEF Used, market
<1>3. c \in Workers
  BY DEF Workers
<1>4. turn'[c] = (IF c \in Agents THEN 0 ELSE turn[c] + 1) /\ \A w \in Workers : w # c => turn'[w] = turn[w]
  BY <1>1, <1>3 DEF TypeOK
<1>5. \A w \in Workers : turn[w] <= turn'[w]
  <2>1. c \in Agents => turn[c] = 0
    <3>1. c \in Agents => c \notin Tasks
      BY DEF Runs
    <3> QED
      BY <1>1, <1>3, <1>t, <3>1
  <2> QED
    BY <1>3, <1>4, <1>t, <2>1
<1>6. QueueNew'
  <2>1. \A d \in Channels : Places(d)' = Places(d) /\ queue'[d] = queue[d]
    BY <1>1 DEF Places
  <2>2. ASSUME NEW d \in Channels, NEW k \in Places(d) PROVE queue[d][k].n <= turn'[queue[d][k].who]
    <3>1. queue[d][k] \in Messages
      BY DEF TypeOK, Places
    <3>2. queue[d][k].n \in Nat /\ queue[d][k].who \in Workers
      BY <3>1 DEF Messages
    <3>3. queue[d][k].n <= turn[queue[d][k].who]
      BY DEF New, QueueNew
    <3>4. \A w \in Workers : turn'[w] \in Nat
      BY DEF TypeOK
    <3> QED
      BY <1>t, <1>5, <3>2, <3>3, <3>4
  <2> QED
    BY <1>2, <2>1, <2>2 DEF New, QueueNew
<1>7. SenderNew'
  <2> SUFFICES ASSUME NEW s \in Callers \ Agents, state'[s].is = "sending", state'[s].ask \in WorkAsks
               PROVE  /\ <<s, turn'[s]>> \notin Used
                      /\ \A d \in Channels : \A k \in Places(d) :
                           Work(queue[d][k]) => ItemOf(queue[d][k]) # <<s, turn'[s]>>
    BY <1>1, <1>2 DEF SenderNew, Places
  <2>1. CASE s # c
    <3>1. state'[s] = state[s] /\ turn'[s] = turn[s]
      BY <1>1, <1>4, <2>1 DEF Workers
    <3> QED
      BY <3>1 DEF New, SenderNew
  <2>2. CASE s = c
    <3>1. turn'[s] = turn[s] + 1
      BY <1>4, <2>2
    <3>2. <<s, turn[s] + 1>> \notin Used
      BY <1>3, <2>2, NextIsNew DEF New
    <3>3. ASSUME NEW d \in Channels, NEW k \in Places(d) PROVE ItemOf(queue[d][k]) # <<s, turn[s] + 1>>
      <4>1. queue[d][k].n <= turn[queue[d][k].who]
        BY DEF New, QueueNew
      <4> QED
        BY <1>3, <1>t, <2>2, <4>1 DEF ItemOf
    <3> QED
      BY <3>1, <3>2, <3>3
  <2> QED
    BY <2>1, <2>2
<1>8. UsedCounted'
  <2> SUFFICES ASSUME NEW i \in Used PROVE i[2] <= turn'[i[1]]
    BY <1>2 DEF UsedCounted
  <2>1. i \in Items
    BY UsedItems
  <2>2. i[1] \in Workers /\ i[2] \in Nat
    BY <2>1 DEF Items
  <2>3. i[2] <= turn[i[1]]
    BY DEF New, UsedCounted
  <2>4. \A w \in Workers : turn'[w] \in Nat
    BY DEF TypeOK
  <2> QED
    BY <1>t, <1>5, <2>2, <2>3, <2>4
<1> QED
  BY <1>6, <1>7, <1>8 DEF New

LEMMA NewKept == TypeOK /\ TypeOK' /\ Placed /\ New /\ ~SelfWait' /\ Next => New'
<1> SUFFICES ASSUME TypeOK, TypeOK', AsksFit, WellQueued, LoopFits, New, ~SelfWait', Next PROVE New'
  BY DEF Placed
<1>0. QueueOK /\ StateOK
  BY DEF TypeOK, QueueOK, StateOK
<1>a. ASSUME NEW m, state' = Answered(m) PROVE SendersKept
  BY <1>0, <1>a, AnswerKeeps DEF SendersKept
<1>b. ASSUME UNCHANGED state PROVE SendersKept
  BY <1>b DEF SendersKept
<1>c. ASSUME UNCHANGED <<exec, market, ranHere>> PROVE Used' = Used
  BY <1>c DEF Used, market
<1>d. ASSUME NEW i, Started(i), exec = Idle, UNCHANGED ranHere PROVE Used' \subseteq Used \cup {i}
  BY <1>d DEF Started, Used
<1>e. ASSUME NEW i \in Items, SubmitJob(i), UNCHANGED <<exec, ranHere>>
      PROVE  Used' \subseteq Used \cup {i}
  <2>1. requested' \subseteq requested \cup {i} /\ unsent' \subseteq unsent \cup {i}
        /\ UNCHANGED <<sent, arrived, bids, accepted>>
    BY <1>e, SubmitMoves
  <2> QED
    BY <1>e, <2>1 DEF Used
<1>1. CASE Poll
  <2>1. UNCHANGED <<queue, turn, state, exec, requested, accepted, ranHere>>
    BY <1>1 DEF Poll
  <2>2. /\ sent' \subseteq sent \cup unsent /\ unsent' = {}
        /\ arrived' \subseteq arrived /\ bids' \subseteq bids \cup requested
    BY <1>1 DEF Poll
  <2>3. Used' \subseteq Used
    BY <2>1, <2>2 DEF Used
  <2> QED
    BY <1>b, <2>1, <2>3, NewQuiet
<1>2. CASE PollOffer
  <2>1. PICK o \in Offers : /\ turn[o] = 0 /\ turn' = [turn EXCEPT ![o] = 1]
                            /\ Start(<<o, 1>>, FALSE)
    BY <1>2 DEF PollOffer
  <2> DEFINE i == <<o, 1>>
  <2>2. o \in Workers /\ o \notin Callers \ Agents
    BY DEF Workers, Callers
  <2>3. Started(i)
    BY <2>1, StartMoves, Zenon
  <2>4. turn' = [turn EXCEPT ![o] = @ + 1] /\ turn[o] < MaxTurns /\ i = <<o, turn[o] + 1>>
    BY <2>1, <2>2 DEF TypeOK
  <2> HIDE DEF i
  <2>5. UNCHANGED <<queue, state, ranHere>> /\ exec = Idle
    BY <1>2 DEF PollOffer, Free
  <2>6. Used' \subseteq Used \cup {i}
    BY <1>d, <2>3, <2>5
  <2> QED
    BY <2>2, <2>4, <2>5, <2>6, NewNext
<1>3. ASSUME NEW c \in Channels, Skip(c) PROVE New'
  BY <1>3, <1>b, <1>c, NewQuiet DEF Skip
<1>4. CASE Infer
  <2> DEFINE m == Head(queue["infer"])
             i == ItemOf(m)
  <2>1. Work(m)
    BY <1>0, <1>4, TakeShifts DEF Infer, WellQueued, Work, WorkAsks, Channels
  <2>2. Start(i, TRUE) \/ Start(i, FALSE)
    BY <1>4 DEF Infer, ItemOf
  <2>3. Started(i)
    BY <2>2, StartMoves, Zenon
  <2>4. Used' \subseteq Used \cup {i}
    <3> HIDE DEF i
    <3> QED
      BY <1>d, <1>4, <2>3 DEF Infer, Free
  <2>5. UNCHANGED <<turn, state>> /\ "infer" \in Channels /\ queue["infer"] # <<>> /\ Take("infer")
    BY <1>4 DEF Infer, Channels
  <2>6. SendersKept
    BY <1>b, <2>5
  <2> QED
    BY <2>1, <2>4, <2>5, <2>6, NewHead
<1>5. CASE Submit
  <2> DEFINE m == Head(queue["submit"])
             i == ItemOf(m)
  <2>1. Work(m) /\ i \in Items
    BY <1>0, <1>5, TakeShifts
    DEF Submit, WellQueued, Work, WorkAsks, Channels, Messages, ItemOf, Items
  <2>2. SubmitJob(i) /\ state' = Answered(m)
    BY <1>5 DEF Submit, ItemOf
  <2>3. Used' \subseteq Used \cup {i}
    <3> HIDE DEF i
    <3> QED
      BY <1>e, <1>5, <2>1, <2>2 DEF Submit
  <2>4. UNCHANGED turn /\ "submit" \in Channels /\ queue["submit"] # <<>> /\ Take("submit")
    BY <1>5 DEF Submit, Channels
  <2>5. SendersKept
    BY <1>a, <2>2
  <2> QED
    BY <2>1, <2>3, <2>4, <2>5, NewHead
<1>6. CASE Tool
  <2> DEFINE m == Head(queue["tools"])
             i == ItemOf(m)
  <2>1. UNCHANGED turn /\ "tools" \in Channels /\ queue["tools"] # <<>> /\ Take("tools")
    BY <1>6 DEF Tool, Channels
  <2>2. i \in Items
    BY <1>0, <2>1, TakeShifts DEF Messages, ItemOf, Items
  <2>3. SendersKept
    <3>1. state' = Answered(m) \/ UNCHANGED state
      BY <1>6 DEF Tool
    <3> QED
      BY <1>a, <1>b, <3>1
  <2>4. Used' \subseteq Used \cup {j \in {i} : Work(m)}
    <3>1. CASE Work(m) /\ Start(i, FALSE)
      <4>1. Started(i)
        BY <3>1, StartMoves, Zenon
      <4> HIDE DEF i
      <4> QED
        BY <1>d, <1>6, <3>1, <4>1 DEF Tool, Free
    <3>2. CASE Work(m) /\ SubmitJob(i) /\ UNCHANGED exec
      <4> HIDE DEF i
      <4> QED
        BY <1>e, <1>6, <2>2, <3>2 DEF Tool
    <3>3. CASE UNCHANGED <<exec, market>>
      BY <1>c, <1>6, <3>3 DEF Tool
    <3> QED
      BY <1>6, <3>1, <3>2, <3>3 DEF Tool, ItemOf, Work, WorkAsks
  <2> QED
    BY <2>1, <2>3, <2>4, NewHead
<1>7. ASSUME NEW c \in {"agent", "crews", "flows"}, StartRun(c) PROVE New'
  <2>1. /\ c \in Channels /\ queue[c] # <<>> /\ Take(c)
        /\ UNCHANGED <<turn, state, exec, market, ranHere>>
    BY <1>7 DEF StartRun, Channels
  <2> QED
    BY <1>b, <1>c, <2>1, NewHead
<1>8. ASSUME NEW b \in BOOLEAN, Signal(b) PROVE New'
  <2>1. UNCHANGED <<queue, turn, exec, market, ranHere>>
    BY <1>8 DEF Signal
  <2>2. SendersKept
    BY <1>0, <1>8 DEF Signal, SendersKept, StateOK
  <2> QED
    BY <1>c, <2>1, <2>2, NewQuiet
<1>9. CASE Tick
  <2>1. UNCHANGED <<queue, turn, state, exec, unsent, sent, arrived, bids, ranHere>>
    BY <1>9 DEF Tick
  <2>2. accepted' \subseteq accepted \cup requested /\ requested' \subseteq requested
    BY <1>9 DEF Tick, Acceptable
  <2>3. Used' \subseteq Used
    BY <2>1, <2>2 DEF Used
  <2> QED
    BY <1>b, <2>1, <2>3, NewQuiet
<1>10. CASE Collect
  <2>1. UNCHANGED <<queue, turn, state, requested, unsent, sent, arrived, bids, ranHere>>
    BY <1>10 DEF Collect
  <2>2. exec'.item = exec.item /\ accepted' \subseteq accepted \cup bids
    BY <1>10 DEF Collect, HasBid, TypeOK
  <2>3. Used' \subseteq Used
    BY <2>1, <2>2 DEF Used
  <2> QED
    BY <1>b, <2>1, <2>3, NewQuiet
<1>11. CASE Finish
  <2>1. UNCHANGED <<queue, turn, market>> /\ exec'.item = None
        /\ ranHere' \subseteq ranHere \cup {exec.item} /\ exec.item # None
    BY <1>11 DEF Finish, Idle, LoopFits
  <2>2. Used' \subseteq Used
    BY <2>1 DEF Used, market
  <2>3. SendersKept
    <3>1. UNCHANGED state \/ \E m : state' = Answered(m)
      BY <1>11 DEF Finish
    <3> QED
      BY <1>a, <1>b, <3>1
  <2> QED
    BY <2>1, <2>2, <2>3, NewQuiet
<1>12. CASE ThinkBySink
  <2>1. step' = "self"
    BY <1>12 DEF ThinkBySink, Request
  <2> QED
    BY <2>1 DEF SelfWait
<1>13. CASE ThinkDirectly
  <2> DEFINE i == <<run, turn[run] + 1>>
  <2>1. run # None /\ exec = Idle /\ turn[run] < MaxTurns
    BY <1>13 DEF ThinkDirectly, AtIteration, MoreTurns, LoopFits
  <2>2. run \in Workers /\ run \notin Callers \ Agents
    BY <2>1 DEF TypeOK, Runs, Workers, Callers, Kickoffs
  <2>3. Started(i)
    BY <1>13, StartMoves, Zenon DEF ThinkDirectly
  <2>4. Used' \subseteq Used \cup {i}
    <3> HIDE DEF i
    <3> QED
      BY <1>d, <1>13, <2>1, <2>3 DEF ThinkDirectly
  <2> QED
    BY <1>13, <2>1, <2>2, <2>4, NewNext DEF ThinkDirectly, NextTurn
<1>14. CASE UseTool
  <2>1. run # None /\ UNCHANGED <<exec, state, turn, market, ranHere>>
    BY <1>14 DEF UseTool, LoopFits
  <2>2. CASE UNCHANGED queue
    BY <1>b, <1>c, <2>1, <2>2, NewQuiet
  <2>3. CASE Request("spawn", "spawn")
    <3> DEFINE m == [who |-> run, n |-> turn[run], ask |-> "spawn"]
    <3>1. HasRoom("tools") /\ Put("tools", m)
      BY <2>3 DEF Request, ChannelOf, ToolAsks, SelfWait
    <3>2. m \in Messages /\ "tools" \in Channels
      BY <2>1 DEF TypeOK, Messages, Asks, ToolAsks, Runs, Workers, Callers, Kickoffs, Channels
    <3>3. m.n <= turn[m.who] /\ ~Work(m)
      BY <3>2 DEF Messages, Work, WorkAsks
    <3> HIDE DEF m
    <3> QED
      BY <2>1, <3>1, <3>2, <3>3, NewPut
  <2> QED
    BY <1>14, <2>2, <2>3
    DEF UseTool, AnswersItself, AskToSubmit, LookUp, AskForWork, Request, SelfWait
<1>15. CASE SpawnTimeout
  BY <1>15, <1>b, <1>c, NewQuiet DEF SpawnTimeout
<1>16. CASE EndRun
  <2>1. UNCHANGED <<queue, turn, exec, market, ranHere>>
    BY <1>16 DEF EndRun
  <2>2. UNCHANGED state \/ \E m : state' = Answered(m)
    BY <1>16 DEF EndRun
  <2> QED
    BY <1>a, <1>b, <1>c, <2>1, <2>2, NewQuiet
<1>17. ASSUME NEW c \in Callers, Send(c) PROVE New'
  <2> DEFINE ask == state[c].ask
             m == [who |-> c, n |-> turn[c], ask |-> ask]
             ch == ChannelOf(ask)
  <2>1. /\ state[c].is = "sending" /\ HasRoom(ch) /\ Put(ch, m)
        /\ UNCHANGED <<turn, exec, market, ranHere>>
    BY <1>17 DEF Send
  <2>2. ask \in Asks /\ c \in Workers
    BY <1>0 DEF StateOK, Workers
  <2>3. ch \in Channels /\ m \in Messages
    BY <2>2 DEF TypeOK, ChannelOf, Channels, Messages, Asks, ToolAsks
  <2>4. state'[c].is = "waiting" /\ \A d \in Callers : d # c => state'[d] = state[d]
    BY <1>0, <1>17 DEF Send, StateOK
  <2>5. m.n <= turn[m.who]
    BY <2>2 DEF TypeOK
  <2>6. Work(m) => c \notin Agents /\ ask \in WorkAsks
    BY DEF Work, WorkAsks, AsksFit
  <2>7. m.who = c /\ m.n = turn[c]
    OBVIOUS
  <2> HIDE DEF m, ch
  <2> QED
    BY <2>1, <2>3, <2>4, <2>5, <2>6, <2>7, NewPut
<1>18. ASSUME NEW c \in Callers, GiveUp(c) PROVE New'
  <2>1. UNCHANGED <<queue, turn, exec, market, ranHere>>
    BY <1>18 DEF GiveUp
  <2>2. SendersKept
    BY <1>0, <1>18 DEF GiveUp, SendersKept, StateOK
  <2> QED
    BY <1>c, <2>1, <2>2, NewQuiet
<1>19. ASSUME NEW k \in Kickoffs, Kickoff(k) PROVE New'
  <2> DEFINE c == IF k \in Crews THEN "crews" ELSE "flows"
             m == [who |-> k, n |-> 0, ask |-> "run"]
  <2>1. UNCHANGED <<exec, state, turn, market, ranHere>>
    BY <1>19 DEF Kickoff
  <2>2. CASE UNCHANGED queue
    BY <1>b, <1>c, <2>1, <2>2, NewQuiet
  <2>3. CASE HasRoom(c) /\ Put(c, m)
    <3>1. c \in Channels /\ m \in Messages
      BY DEF Channels, Messages, Asks, Workers
    <3>2. m.n <= turn[m.who] /\ ~Work(m)
      BY DEF TypeOK, Workers, Work, WorkAsks
    <3> HIDE DEF c, m
    <3> QED
      BY <2>1, <2>3, <3>1, <3>2, NewPut
  <2> QED
    BY <1>19, <2>2, <2>3 DEF Kickoff
<1>20. ASSUME NEW r \in Runs, Stop(r) PROVE New'
  BY <1>20, <1>b, <1>c, NewQuiet DEF Stop
<1>21. ASSUME NEW i \in Items, PeerBid(i) PROVE New'
  <2>1. UNCHANGED <<queue, turn, state, exec, requested, unsent, bids, accepted, ranHere>>
    BY <1>21 DEF PeerBid
  <2>2. sent' \subseteq sent /\ arrived' \subseteq arrived \cup sent
    BY <1>21 DEF PeerBid
  <2>3. Used' \subseteq Used
    BY <2>1, <2>2 DEF Used
  <2> QED
    BY <1>b, <2>1, <2>3, NewQuiet
<1> QED
  BY <1>1, <1>2, <1>3, <1>4, <1>5, <1>6, <1>7, <1>8, <1>9, <1>10, <1>11, <1>12, <1>13, <1>14,
     <1>15, <1>16, <1>17, <1>18, <1>19, <1>20, <1>21, AskKeepsNew
  DEF Next, LoopStep

-------------------------------------------------------------------------------
(* The theorems.                                                           *)

LEMMA InvInit == Init => Inv
<1> SUFFICES ASSUME Init PROVE Inv
  OBVIOUS
<1>1. Apart
  BY DEF Init, Apart, NeverPaidTwice, OffloadStaysHere, Idle
<1>2. Used = {}
  BY DEF Init, Used, Idle
<1>3. \A c \in Channels : Places(c) = {}
  BY EmptySeq DEF Init, Places
<1>4. New
  BY <1>2, <1>3 DEF Init, New, QueueNew, SenderNew, UsedCounted
<1> QED
  BY <1>1, <1>4, TypeInit, PlacedInit DEF Inv

LEMMA InvKept == Inv /\ [Next]_vars => Inv'
<1> SUFFICES ASSUME Inv, [Next]_vars PROVE Inv'
  OBVIOUS
<1>1. CASE Next
  <2>1. TypeOK' /\ Placed' /\ RunningIsRun'
    BY <1>1, TypeKept, AsksKept, QueuedKept, LoopKept DEF Inv, Placed
  <2>2. Apart'
    BY <1>1, ApartKept DEF Inv
  <2>3. ASSUME ~SelfWait' PROVE New'
    <3>1. ~SelfWait
      BY <1>1, <2>3, SelfStays DEF Inv, Placed
    <3> QED
      BY <1>1, <2>1, <2>3, <3>1, NewKept DEF Inv
  <2> QED
    BY <2>1, <2>2, <2>3 DEF Inv
<1>2. CASE UNCHANGED vars
  BY <1>2 DEF vars, settings, runs, market, Inv, TypeOK, RunningIsRun, Placed, AsksFit, WellQueued, LoopFits,
     Apart, NeverPaidTwice, OffloadStaysHere, SelfWait, New, QueueNew, SenderNew, UsedCounted, Used, Places
<1> QED
  BY <1>1, <1>2

LEMMA InvHolds == Spec => []Inv
BY InvInit, InvKept, PTL DEF Spec

\* Work that was offered to the network and fell back to this node, or never left
\* it, is not paid for as well, although its request stays in JobManager.requests
\* and bids for it come in later (executor/remote.rs:140, cli/serve.rs:1333).
THEOREM PaidOrRunHere == Spec => []NeverPaidTwice
<1>1. Inv => NeverPaidTwice
  BY DEF Inv, Apart
<1> QED
  BY <1>1, InvHolds, PTL

\* A crew or a flow is recorded as running exactly while the loop runs it, and no
\* task of this node is ever executed by a peer (crew/store.rs:61, cli/serve.rs:834,
\* executor/remote.rs:167).
THEOREM RecordsFollowRuns == Spec => []RunRecordsTrue
<1>1. Inv => RunRecordsTrue
  BY DEF Inv, Apart, RunRecordsTrue
<1> QED
  BY <1>1, InvHolds, PTL

\* Once the loop waits for an answer that only it could give, no step of any part
\* of the node ends that (web/mod.rs:1660, agent/unified_loop.rs:327).
THEOREM SelfWaitStays == Spec => SelfWaitIsFinal
<1>1. Inv /\ [Next]_vars => [SelfWait => SelfWait']_vars
  BY SelfStays DEF Inv, Placed
<1> QED
  BY <1>1, InvHolds, PTL DEF Spec, SelfWaitIsFinal

===============================================================================
