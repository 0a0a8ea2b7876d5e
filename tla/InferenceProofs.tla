---------------------------- MODULE InferenceProofs ----------------------------
(***************************************************************************)
(* The safety of the inference engine's parts, for any callers, models,    *)
(* sizes and limits.  Each part has an inductive invariant of its own; a   *)
(* step of MCInference is a step of the part the behaviour is of, and      *)
(* leaves the others' invariants, which then say nothing, alone.           *)
(***************************************************************************)
EXTENDS MCInference, SequenceTheorems, FiniteSetTheorems, WellFoundedInduction, NaturalsInduction, TLAPS

-------------------------------------------------------------------------------
(* The parts' own copies of operators of the library are those operators.  *)

LEMMA QueueCardinality ==
    ASSUME NEW S
    PROVE  /\ Queue!Cardinality(S) = Cardinality(S)
           /\ Queue!IsFiniteSet(S) <=> IsFiniteSet(S)
<1>1. Queue!Cardinality(S) = Cardinality(S)
  BY Zenon DEF Queue!Cardinality, Cardinality
<1>2. Queue!IsFiniteSet(S) <=> IsFiniteSet(S)
  BY Zenon DEF Queue!IsFiniteSet, IsFiniteSet
<1> QED
  BY <1>1, <1>2

LEMMA CacheCardinality ==
    ASSUME NEW S
    PROVE  /\ Cache!Cardinality(S) = Cardinality(S)
           /\ Cache!IsFiniteSet(S) <=> IsFiniteSet(S)
<1>1. Cache!Cardinality(S) = Cardinality(S)
  BY Zenon DEF Cache!Cardinality, Cardinality
<1>2. Cache!IsFiniteSet(S) <=> IsFiniteSet(S)
  BY Zenon DEF Cache!IsFiniteSet, IsFiniteSet
<1> QED
  BY <1>1, <1>2

\* The total of the cache.
Total(f, n) == Cache!Total(f, n)

LEMMA CacheTotal ==
    ASSUME NEW f, NEW n
    PROVE  Cache!Total(f, n) = Total(f, n)
BY DEF Total

-------------------------------------------------------------------------------
(* Induction on numbers, and the laws of totals                              *)

\* Every non-empty set of naturals has a least element.
LEMMA LeastElement ==
    ASSUME NEW T, T \subseteq Nat, T # {}
    PROVE  \E x \in T : \A y \in T : x <= y
<1>1. IsWellFoundedOn(OpToRel(<, Nat), Nat)
  BY NatLessThanWellFounded
<1>2. PICK x \in T : \A y \in T : ~ (<<y, x>> \in OpToRel(<, Nat))
  BY <1>1, WFMin
<1>3. \A y \in T : ~ (y < x)
  BY <1>2 DEF OpToRel
<1> QED
  BY <1>3

LEMMA SetInduction ==
    ASSUME NEW S, 0 \in S, \A i \in Nat : i \in S => i + 1 \in S
    PROVE  \A i \in Nat : i \in S
<1> DEFINE T == {i \in Nat : i \notin S}
<1>1. SUFFICES ASSUME T # {} PROVE FALSE
  OBVIOUS
<1>2. PICK x \in T : \A y \in T : x <= y
  <2> HIDE DEF T
  <2>1. T \subseteq Nat
    BY DEF T
  <2> QED
    BY <1>1, <2>1, LeastElement
<1>3. x \in Nat /\ x \notin S /\ x # 0
  OBVIOUS
<1>4. x - 1 \in Nat /\ x - 1 \notin T
  BY <1>2, <1>3
<1> QED
  BY <1>3, <1>4

\* g holds the running totals of f up to n.
Running(g, f, n) ==
    /\ g \in [0 .. n -> Int]
    /\ g[0] = 0
    /\ \A i \in 1 .. n : g[i] = g[i - 1] + f[i]

\* The running totals of n amounts exist.
LEMMA RunningExists ==
    ASSUME NEW n \in Nat, NEW f \in [1 .. n -> Nat]
    PROVE  \E g \in [0 .. n -> Nat] : Running(g, f, n)
<1> DEFINE S == {m \in Nat : m <= n => \E g \in [0 .. m -> Nat] : Running(g, f, m)}
<1>1. 0 \in S
  <2>1. Running([i \in 0 .. 0 |-> 0], f, 0)
    BY DEF Running
  <2> QED
    BY <2>1
<1>2. ASSUME NEW m \in Nat, m \in S PROVE m + 1 \in S
  <2>1. SUFFICES ASSUME m + 1 <= n PROVE \E g \in [0 .. m + 1 -> Nat] : Running(g, f, m + 1)
    OBVIOUS
  <2>2. PICK g \in [0 .. m -> Nat] : Running(g, f, m)
    BY <1>2, <2>1
  <2> DEFINE h == [i \in 0 .. m + 1 |-> IF i <= m THEN g[i] ELSE g[m] + f[m + 1]]
  <2>3. f[m + 1] \in Nat /\ g[m] \in Nat
    BY <2>1, <2>2 DEF Running
  <2>4. h \in [0 .. m + 1 -> Nat] /\ h[0] = 0
    BY <2>2, <2>3 DEF Running
  <2>5. ASSUME NEW i \in 1 .. m + 1 PROVE h[i] = h[i - 1] + f[i]
    <3>1. CASE i <= m
      BY <2>2, <3>1 DEF Running
    <3>2. CASE i = m + 1
      BY <2>2, <3>2 DEF Running
    <3> QED
      BY <3>1, <3>2
  <2>6. h \in [0 .. m + 1 -> Int]
    BY <2>4
  <2> HIDE DEF h
  <2>7. Running(h, f, m + 1)
    BY <2>4, <2>5, <2>6 DEF Running
  <2> QED
    BY <2>4, <2>7
<1>3. \A m \in Nat : m \in S
  <2> HIDE DEF S
  <2> QED
    BY <1>1, <1>2, SetInduction
<1> QED
  BY <1>3

\* They are unique, so Total is the last of them.
LEMMA TotalIsLast ==
    ASSUME NEW n \in Nat, NEW f, NEW g, Running(g, f, n)
    PROVE  Total(f, n) = g[n]
<1> DEFINE F(r) == [i \in 0 .. n |-> IF i = 0 THEN 0 ELSE r[i - 1] + f[i]]
           run == CHOOSE r : r = F(r)
<1>1. g = F(g)
  BY DEF Running
<1>2. run = F(run)
  <2> HIDE DEF F
  <2> QED
    BY <1>1, Zenon
<1>3. Total(f, n) = run[n]
  BY DEF Total, Cache!Total
<1> HIDE DEF run
<1>4. \A i \in 0 .. n : run[i] = IF i = 0 THEN 0 ELSE run[i - 1] + f[i]
  BY <1>2
<1> DEFINE S == {i \in Nat : i <= n => run[i] = g[i]}
<1>5. 0 \in S
  BY <1>4 DEF Running
<1>6. ASSUME NEW i \in Nat, i \in S PROVE i + 1 \in S
  BY <1>4, <1>6 DEF Running
<1>7. \A i \in Nat : i \in S
  <2> HIDE DEF S
  <2> QED
    BY <1>5, <1>6, SetInduction
<1> QED
  BY <1>3, <1>7

LEMMA TotalType ==
    ASSUME NEW n \in Nat, NEW f \in [1 .. n -> Nat]
    PROVE  Total(f, n) \in Nat
<1>1. PICK g \in [0 .. n -> Nat] : Running(g, f, n)
  BY RunningExists
<1>2. Total(f, n) = g[n]
  BY <1>1, TotalIsLast
<1> QED
  BY <1>1, <1>2 DEF Running

\* Changing one amount changes the total by as much.
LEMMA TotalUpdate ==
    ASSUME NEW n \in Nat, NEW k \in 1 .. n,
           NEW f \in [1 .. n -> Nat], NEW h \in [1 .. n -> Nat],
           \A i \in 1 .. n : i # k => h[i] = f[i]
    PROVE  Total(h, n) + f[k] = Total(f, n) + h[k]
<1>1. PICK g : Running(g, f, n)
  BY RunningExists
<1> DEFINE c == [i \in 0 .. n |-> IF i < k THEN g[i] ELSE g[i] + (h[k] - f[k])]
<1>2. Running(c, h, n)
  <2>1. f[k] \in Nat /\ h[k] \in Nat /\ g \in [0 .. n -> Int] /\ g[0] = 0
    BY <1>1 DEF Running
  <2>2. c \in [0 .. n -> Int] /\ c[0] = 0
    BY <2>1
  <2>3. ASSUME NEW i \in 1 .. n PROVE c[i] = c[i - 1] + h[i]
    <3>1. g[i] = g[i - 1] + f[i] /\ g[i - 1] \in Int /\ f[i] \in Nat /\ h[i] \in Nat
      BY <1>1 DEF Running
    <3>2. i # k => h[i] = f[i]
      OBVIOUS
    <3>3. CASE i < k
      BY <2>1, <3>1, <3>2, <3>3
    <3>4. CASE i = k
      BY <2>1, <3>1, <3>4
    <3>5. CASE i > k
      BY <2>1, <3>1, <3>2, <3>5
    <3> QED
      BY <3>3, <3>4, <3>5
  <2> QED
    BY <2>2, <2>3 DEF Running
<1>3. c[n] = g[n] + (h[k] - f[k]) /\ g[n] \in Int /\ h[k] \in Nat /\ f[k] \in Nat
  BY <1>1 DEF Running
<1>4. Total(h, n) = c[n] /\ Total(f, n) = g[n]
  <2> HIDE DEF c
  <2> QED
    BY <1>1, <1>2, TotalIsLast
<1> QED
  BY <1>3, <1>4

\* Amounts of at most b each, one of them zero.
LEMMA TotalBelow ==
    ASSUME NEW n \in Nat, NEW k \in 1 .. n, NEW b \in Nat, NEW f \in [1 .. n -> Nat],
           \A i \in 1 .. n : f[i] <= b, f[k] = 0
    PROVE  Total(f, n) <= (n - 1) * b
<1>1. PICK g \in [0 .. n -> Nat] : Running(g, f, n)
  BY RunningExists
\* The amount of k is let go from its place on.
<1> DEFINE S == {i \in Nat : i <= n => g[i] <= (IF i < k THEN i ELSE i - 1) * b}
<1>2. 0 \in S
  <2>1. g[0] = 0 /\ 0 < k /\ 0 * b = 0
    BY <1>1 DEF Running
  <2> QED
    BY <2>1
<1>3. ASSUME NEW i \in Nat, i \in S PROVE i + 1 \in S
  <2>1. SUFFICES ASSUME i + 1 <= n
                 PROVE g[i + 1] <= (IF i + 1 < k THEN i + 1 ELSE (i + 1) - 1) * b
    OBVIOUS
  <2>a. i + 1 \in 1 .. n /\ i \in 0 .. n /\ (i + 1) - 1 = i
    BY <2>1
  <2>b. g[i + 1] = g[i] + f[i + 1]
    BY <1>1, <2>a DEF Running
  <2>2. /\ g[i + 1] = g[i] + f[i + 1] /\ g[i] \in Nat /\ f[i + 1] \in Nat /\ f[i + 1] <= b
        /\ i + 1 = k => f[i + 1] = 0
    BY <2>a, <2>b
  <2>3. CASE i + 1 < k
    <3>1. g[i] <= i * b
      BY <1>3, <2>1, <2>3
    <3>2. (i + 1) * b = i * b + b /\ i * b \in Nat
      OBVIOUS
    <3> QED
      BY <2>2, <2>3, <3>1, <3>2
  <2>4. CASE i + 1 = k
    <3>1. g[i] <= i * b /\ (i + 1) - 1 = i
      BY <1>3, <2>1, <2>4
    <3> QED
      BY <2>2, <2>4, <3>1
  <2>5. CASE i + 1 > k
    <3>1. g[i] <= (i - 1) * b /\ (i + 1) - 1 = i
      BY <1>3, <2>1, <2>5
    <3>2. i * b = (i - 1) * b + b /\ (i - 1) * b \in Int
      OBVIOUS
    <3> QED
      BY <2>2, <2>5, <3>1, <3>2
  <2> QED
    BY <2>3, <2>4, <2>5
<1> HIDE DEF S
<1>4. n \in S
  BY <1>2, <1>3, SetInduction
<1>5. Total(f, n) = g[n]
  BY <1>1, TotalIsLast
<1> QED
  BY <1>4, <1>5 DEF S

\* No amount of one is more than that of the other.
LEMMA TotalMonotone ==
    ASSUME NEW n \in Nat, NEW f \in [1 .. n -> Nat], NEW h \in [1 .. n -> Nat],
           \A i \in 1 .. n : f[i] <= h[i]
    PROVE  Total(f, n) <= Total(h, n)
<1>1. PICK g \in [0 .. n -> Nat] : Running(g, f, n)
  BY RunningExists
<1>2. PICK e \in [0 .. n -> Nat] : Running(e, h, n)
  BY RunningExists
<1> DEFINE S == {i \in Nat : i <= n => g[i] <= e[i]}
<1>3. 0 \in S
  BY <1>1, <1>2 DEF Running
<1>4. ASSUME NEW i \in Nat, i \in S PROVE i + 1 \in S
  <2>1. SUFFICES ASSUME i + 1 <= n PROVE g[i + 1] <= e[i + 1]
    OBVIOUS
  <2>a. i + 1 \in 1 .. n /\ i \in 0 .. n /\ (i + 1) - 1 = i
    BY <2>1
  <2>b. g[i + 1] = g[i] + f[i + 1] /\ e[i + 1] = e[i] + h[i + 1]
    BY <1>1, <1>2, <2>a DEF Running
  <2>2. /\ f[i + 1] <= h[i + 1]
        /\ g[i] \in Nat /\ e[i] \in Nat /\ f[i + 1] \in Nat /\ h[i + 1] \in Nat
    BY <2>a
  <2>c. g[i] <= e[i]
    BY <1>4, <2>1
  <2>d. \A a, b, c, d \in Nat : a <= b /\ c <= d => a + c <= b + d
    OBVIOUS
  <2> QED
    BY <2>b, <2>2, <2>c, <2>d
<1> HIDE DEF S
<1>5. n \in S
  BY <1>3, <1>4, SetInduction
<1>6. Total(f, n) = g[n] /\ Total(h, n) = e[n]
  BY <1>1, <1>2, TotalIsLast
<1> QED
  BY <1>5, <1>6 DEF S

-------------------------------------------------------------------------------
(* The invariants                                                          *)

Distinct(s) == \A i, j \in DOMAIN s : s[i] = s[j] => i = j

\* The batch queue.  x1: at, x2: answer, x3: queue, x4: depth, x5: down,
\* x6: proc, x7: batch, x8: group.
\* A request is in one place only, once, ...
QueueShape ==
    /\ Queue!TypeOK
    /\ Distinct(x3) /\ Distinct(x7)
    /\ Queue!Elements(x3) \cap Queue!Elements(x7) = {}
    /\ x8 \cap Queue!Held = {}
    /\ x6 # "groups" => x8 = {}
    /\ x6 \notin {"more", "tally"} => x7 = <<>>

\* ... after it was sent and before its caller has its answer.
QueueHands ==
    /\ \A r \in Queue!Held \cup x8 : x1[r] \in {"count", "wait"}
    /\ \A r \in Callers : x1[r] \in {"out", "send"} => x2[r] = None

QueueInv == QueueShape /\ QueueHands /\ Queue!OneAnswer /\ Queue!DepthCovers

\* The cache.  x1: loaded, x2: refs, x3: memory, x4: at, x5: wants, x6: fits,
\* x7: holds.
\* The loaders that found room in the table and have not taken it.
Entering == {t \in Loaders : x4[t] \in {"fit", "empty", "evictfit", "insert"}}

\* What was promised room and is not in the counter yet.
Passed(at, fits) == at \in {"insert", "account"} \/ (fits /\ at \in {"count", "evict"})
Promised(at, wants, fits) ==
    [t \in Loaders |-> IF Passed(at[t], fits[t]) THEN Size[wants[t]] ELSE 0]
Pledge(at, wants, fits) == Total(Promised(at, wants, fits), Cardinality(Loaders))
Others == (Cardinality(Loaders) - 1) * Largest

CacheInv ==
    /\ Cache!TypeOK
    /\ \A t \in Loaders : x4[t] # "out" => x5[t] \in Models
    /\ Cache!MemoryCovers
    /\ x3 + Pledge(x4, x5, x6) <= MaxMemory + Others
    /\ Cardinality(x1) + Cardinality(Entering) <= MaxModels + Cardinality(Loaders) - 1

\* The choice of a back end.  x1: chain, x2: live, x3: writer, x4: registry,
\* x5: cached, x6: cooling, x7: at, x8: request, x9: todo, x10: reading,
\* x11: light, x12: moved, x13: answer.
\* What is loaded to answer is a model the request's name begins, and the one of
\* that name unless something has changed.
Fitting(m) ==
    <<x8.model, m>> \in Begins /\ (x8.model \in x4 /\ ~x12 => m = x8.model)

\* A light task would not run here now, unless something has changed.
EngineInv ==
    /\ Engine!TypeOK /\ Engine!RightModel /\ Engine!LightStaysLight
    /\ x7 # "out" => x8 # None
    /\ x7 = "try" => x1
    /\ x7 = "generate" => Fitting(x5)
    /\ (x7 \notin {"out", "route"} /\ x11) => (x12 \/ ~Engine!RunsLocal)

\* The download from peers.  x1: pending, x2: partial, x3: final,
\* x4: available, x5: at, x6: works.
\* There is one driver: from the test of the marks to the rename nobody else
\* opens the file, and once there is a final file nothing is started.
DriverInv(d) ==
    /\ x5[d] # "out" => x6[d] # None
    /\ x5[d] \in {"asked", "create", "insert"} => x6[d].got = {}
    /\ x5[d] \in {"create", "insert", "read", "rename", "publish"} => x1 = None
    /\ x5[d] = "rename" => x2 = Download!Whole(x6[d].version)
    /\ x5[d] = "publish" => x3 = Download!Whole(x6[d].version)
    /\ x3 # None => x5[d] \in {"out", "publish"}
    /\ (x3 # None /\ x5[d] = "out") => x4 # None

DownloadInv ==
    /\ Download!TypeOK /\ Download!OfferedIsWhole /\ Download!MarksAreWritten
    /\ \A d \in Drivers : DriverInv(d)
    /\ x3 # None => x1 = None

\* The directory of models.  x1: shelf, x2: data, x3: at, x4: name, x5: version,
\* x6: file, x7: written, x8: registry, x9: met, x10: removed.
ShelfTypes ==
    /\ x1 \in [Models -> Fetches \cup {None}]
    /\ x2 = [f \in Fetches |-> x2[f]]
    /\ x3 \in [Fetches -> {"new", "asked", "refused", "open", "scan", "ok", "failed"}]
    /\ x4 \in [Fetches -> Models \cup {None}]
    /\ x5 \in [Fetches -> Versions \cup {None}]
    /\ x6 \in [Fetches -> Fetches \cup {None}]
    /\ x7 \in [Fetches -> 0 .. Length]

\* What a download has, by where it is; a file is known by who created it.
FetchInv(d) ==
    /\ x3[d] # "new" => x4[d] \in Models /\ x5[d] \in Versions
    /\ x3[d] \in {"new", "asked", "refused"} => x6[d] = None
    /\ x3[d] \in {"new", "asked"} => x7[d] = 0
    /\ x3[d] \in {"open", "scan", "ok"} => x6[d] # None
    /\ x3[d] \in {"scan", "ok"} => x7[d] = Length
    /\ x6[d] # None => x6[x6[d]] = x6[d]

\* Who opens a file that another one has opened met it on the way.
FetchesMeet ==
    /\ \A n \in Models : x1[n] # None => x6[x1[n]] = x1[n]
    /\ \A d, e \in Shelf!UnderWay : d # e => {d, e} \in x9
    /\ \A d, e \in Fetches :
         (x3[d] = "asked" /\ x6[e] # None /\ x6[e] = x1[x4[d]]) => {d, e} \in x9
    /\ Shelf!WritersMet

\* A download that met nobody finds what it has written, and nothing else.
WrittenAlone ==
    \A d \in Fetches :
      (x3[d] \in {"open", "scan", "ok"} /\ Shelf!Alone(d)) =>
      /\ x2[x6[d]] = [i \in 1 .. x7[d] |-> x5[d]]
      /\ x6[d] \in x10 \/ x1[x4[d]] = x6[d]

ShelfInv ==
    /\ ShelfTypes /\ (\A d \in Fetches : FetchInv(d)) /\ FetchesMeet /\ WrittenAlone
    /\ Shelf!SuccessIsRegistered

\* The generation.  x1: prompt, x2: limit, x3: fed, x4: chunk, x5: count,
\* x6: text, x7: streamed, x8: outcome.
TextInv ==
    /\ Text!TypeOK /\ Text!FittingIsAnswered /\ Text!EveryTokenFed
    /\ Text!StreamCoversText /\ Text!CutAtStop
    /\ Text!Running => x1 < Context /\ x7 = x6 /\ (x3 < x1 => x5 = 0)

-------------------------------------------------------------------------------
(* Sequences without repetitions                                           *)

LEMMA AppendElements ==
    ASSUME NEW S, NEW s \in Seq(S), NEW e \in S
    PROVE  /\ Append(s, e) \in Seq(S)
           /\ Len(Append(s, e)) = Len(s) + 1
           /\ Queue!Elements(Append(s, e)) = Queue!Elements(s) \cup {e}
           /\ Distinct(s) /\ e \notin Queue!Elements(s) => Distinct(Append(s, e))
<1>1. /\ Append(s, e) \in Seq(S) /\ Len(s) \in Nat /\ Len(Append(s, e)) = Len(s) + 1
      /\ \A i \in 1 .. Len(s) : Append(s, e)[i] = s[i]
      /\ Append(s, e)[Len(s) + 1] = e
  OBVIOUS
<1>2. DOMAIN s = 1 .. Len(s) /\ DOMAIN Append(s, e) = 1 .. Len(s) + 1
  BY <1>1
<1>3. \A i \in 1 .. Len(s) + 1 : i \in 1 .. Len(s) \/ i = Len(s) + 1
  BY <1>1
<1>4. \A i \in 1 .. Len(s) : i \in 1 .. Len(s) + 1 /\ Len(s) + 1 \in 1 .. Len(s) + 1
  BY <1>1
<1>5. Queue!Elements(Append(s, e)) = Queue!Elements(s) \cup {e}
  <2>1. Len(s) + 1 \in 1 .. Len(s) + 1
    BY <1>1
  <2> QED
    BY <1>1, <1>2, <1>3, <1>4, <2>1 DEF Queue!Elements
<1>6. Distinct(s) /\ e \notin Queue!Elements(s) => Distinct(Append(s, e))
  BY <1>1, <1>2, <1>3 DEF Distinct, Queue!Elements
<1> QED
  BY <1>1, <1>5, <1>6

LEMMA TailElements ==
    ASSUME NEW S, NEW s \in Seq(S), s # <<>>
    PROVE  /\ Head(s) \in S /\ Tail(s) \in Seq(S)
           /\ Len(Tail(s)) = Len(s) - 1
           /\ Queue!Elements(s) = Queue!Elements(Tail(s)) \cup {Head(s)}
           /\ Distinct(s) => Distinct(Tail(s)) /\ Head(s) \notin Queue!Elements(Tail(s))
<1>1. /\ Len(s) \in Nat /\ Len(s) >= 1 /\ Head(s) = s[1] /\ Head(s) \in S
      /\ Tail(s) \in Seq(S) /\ Len(Tail(s)) = Len(s) - 1
      /\ \A i \in 1 .. Len(s) - 1 : Tail(s)[i] = s[i + 1]
  OBVIOUS
<1>2. DOMAIN s = 1 .. Len(s) /\ DOMAIN Tail(s) = 1 .. Len(s) - 1
  BY <1>1
<1>3. /\ 1 \in 1 .. Len(s)
      /\ \A i \in 1 .. Len(s) - 1 : i + 1 \in 1 .. Len(s) /\ i + 1 # 1
      /\ \A i \in 1 .. Len(s) : i # 1 => i - 1 \in 1 .. Len(s) - 1 /\ (i - 1) + 1 = i
  BY <1>1
<1>4. Queue!Elements(s) = Queue!Elements(Tail(s)) \cup {Head(s)}
  <2>1. \A i \in 1 .. Len(s) : i = 1 \/ s[i] = Tail(s)[i - 1]
    BY <1>1, <1>3
  <2>2. Queue!Elements(s) \subseteq Queue!Elements(Tail(s)) \cup {Head(s)}
    <3> SUFFICES ASSUME NEW i \in 1 .. Len(s), i # 1
                 PROVE  \E j \in DOMAIN Tail(s) : s[i] = Tail(s)[j]
      BY <1>1, <1>2 DEF Queue!Elements
    <3>1. i - 1 \in DOMAIN Tail(s) /\ s[i] = Tail(s)[i - 1]
      BY <1>2, <1>3, <2>1
    <3> QED
      BY <3>1
  <2>3. Queue!Elements(Tail(s)) \cup {Head(s)} \subseteq Queue!Elements(s)
    BY <1>1, <1>2, <1>3 DEF Queue!Elements
  <2> QED
    BY <2>2, <2>3
<1>5. ASSUME Distinct(s) PROVE Distinct(Tail(s)) /\ Head(s) \notin Queue!Elements(Tail(s))
  <2>1. \A i, j \in 1 .. Len(s) - 1 : i + 1 = j + 1 => i = j
    BY <1>1
  <2>2. Distinct(Tail(s))
    BY <1>1, <1>2, <1>3, <1>5, <2>1 DEF Distinct
  <2>3. Head(s) \notin Queue!Elements(Tail(s))
    BY <1>1, <1>2, <1>3, <1>5 DEF Distinct, Queue!Elements
  <2> QED
    BY <2>2, <2>3
<1> QED
  BY <1>1, <1>4, <1>5

LEMMA DistinctLength ==
    ASSUME NEW S, NEW s \in Seq(S), Distinct(s)
    PROVE  IsFiniteSet(Queue!Elements(s)) /\ Cardinality(Queue!Elements(s)) = Len(s)
<1> DEFINE f == [i \in 1 .. Len(s) |-> s[i]]
<1>1. Len(s) \in Nat /\ DOMAIN s = 1 .. Len(s)
  OBVIOUS
<1>2. f \in Bijection(1 .. Len(s), Queue!Elements(s))
  BY <1>1 DEF Bijection, Injection, Surjection, IsInjective, Queue!Elements, Distinct
<1>3. ExistsBijection(1 .. Len(s), Queue!Elements(s))
  BY <1>2 DEF ExistsBijection
<1>4. IsFiniteSet(1 .. Len(s)) /\ Cardinality(1 .. Len(s)) = Len(s)
  BY <1>1, FS_Interval
<1> QED
  BY <1>3, <1>4, FS_Bijection

-------------------------------------------------------------------------------
(* The batch queue                                                         *)

Counting == {r \in Callers : x1[r] = "count"}

LEMMA QueueDepth ==
    /\ Queue!DepthCovers <=> x4 + Cardinality(Counting) >= Cardinality(Queue!Held)
    /\ Queue!DepthCovers' <=> x4' + Cardinality(Counting') >= Cardinality(Queue!Held')
<1>1. /\ Queue!DepthCovers <=> x4 + Queue!Cardinality(Counting) >= Queue!Cardinality(Queue!Held)
      /\ Queue!DepthCovers' <=> x4' + Queue!Cardinality(Counting') >= Queue!Cardinality(Queue!Held')
  BY Zenon DEF Queue!DepthCovers, Counting
<1> QED
  BY <1>1, QueueCardinality

LEMMA QueueConstants ==
    /\ IsFiniteSet(Callers) /\ MaxQueue \in Nat \ {0} /\ MaxBatch \in Nat \ {0}
    /\ MinBatch \in Nat /\ ModelOf \in [Callers -> Models]
    /\ None \notin {"ok", "failed", "shutdown", "full"}
BY InferenceAssumption, QueueCardinality DEF Queue!BatchAssumption

LEMMA QueueSets ==
    ASSUME QueueShape
    PROVE  /\ x3 \in Seq(Callers) /\ x7 \in Seq(Callers) /\ x8 \subseteq Callers
           /\ Queue!Held = Queue!Elements(x3) \cup Queue!Elements(x7)
           /\ Queue!Held \subseteq Callers /\ Queue!Elements(x3) \subseteq Callers
           /\ IsFiniteSet(Queue!Held) /\ Cardinality(Queue!Held) \in Nat
           /\ IsFiniteSet(Counting) /\ Cardinality(Counting) \in Nat
<1>1. x3 \in Seq(Callers) /\ x7 \in Seq(Callers) /\ x8 \subseteq Callers
  BY DEF QueueShape, Queue!TypeOK
<1>2. Queue!Elements(x3) \subseteq Callers /\ Queue!Elements(x7) \subseteq Callers
  BY <1>1 DEF Queue!Elements
<1>3. Counting \subseteq Callers
  BY DEF Counting
<1> QED
  BY <1>1, <1>2, <1>3, QueueConstants, FS_Subset, FS_CardinalityType DEF Queue!Held

\* One caller goes on and the tables stay: what it may do, and what it must have.
LEMMA CallerMoves ==
    ASSUME QueueInv, NEW r \in Callers, NEW to \in Queue!Places,
           x1' = [x1 EXCEPT ![r] = to], UNCHANGED <<x3, x6, x7, x8>>, x5' \in BOOLEAN,
           x2' \in [Callers -> Queue!Answers \cup {None}],
           \A q \in Callers : q # r => x2'[q] = x2[q],
           to \in {"out", "send"} => x2'[r] = None,
           to \in {"count", "wait"} => ((x2'[r] = None) <=> (r \in Queue!Held \cup x8)),
           r \in Queue!Held \cup x8 => to \in {"count", "wait"},
           x4' \in Nat, x4' + Cardinality(Counting') >= x4 + Cardinality(Counting),
           Cardinality(Counting') \in Nat
    PROVE  QueueInv'
<1>1. /\ x1 \in [Callers -> Queue!Places] /\ x1' \in [Callers -> Queue!Places]
      /\ x1'[r] = to /\ \A q \in Callers : q # r => x1'[q] = x1[q]
  BY DEF QueueInv, QueueShape, Queue!TypeOK
<1>2. Queue!Held' = Queue!Held
  BY DEF Queue!Held, Queue!Elements
<1>3. QueueShape'
  <2>1. Queue!TypeOK'
    BY <1>1 DEF QueueInv, QueueShape, Queue!TypeOK
  <2>2. Queue!Elements(x3)' = Queue!Elements(x3) /\ Queue!Elements(x7)' = Queue!Elements(x7)
    BY DEF Queue!Elements
  <2>3. Distinct(x3)' /\ Distinct(x7)'
    BY DEF QueueInv, QueueShape, Distinct
  <2> QED
    BY <1>2, <2>1, <2>2, <2>3 DEF QueueInv, QueueShape
<1>4. Queue!Held \subseteq Callers /\ x8 \subseteq Callers
  BY QueueSets DEF QueueInv
<1>5. QueueHands'
  BY <1>1, <1>2, <1>4 DEF QueueInv, QueueHands
<1>6. Queue!OneAnswer'
  BY <1>1, <1>2 DEF QueueInv, Queue!OneAnswer
<1>7. Queue!DepthCovers'
  <2>1. /\ Cardinality(Counting) \in Nat /\ Cardinality(Queue!Held) \in Nat /\ x4 \in Nat
    BY QueueSets DEF QueueInv, QueueShape, Queue!TypeOK
  <2>2. x4 + Cardinality(Counting) >= Cardinality(Queue!Held)
    BY QueueDepth DEF QueueInv
  <2>3. x4' + Cardinality(Counting') >= Cardinality(Queue!Held')
    BY <1>2, <2>1, <2>2
  <2> QED
    BY <2>3, QueueDepth
<1> QED
  BY <1>3, <1>5, <1>6, <1>7 DEF QueueInv

LEMMA CountingSame ==
    ASSUME QueueInv, NEW r \in Callers, NEW to, to # "count", x1[r] # "count",
           x1' = [x1 EXCEPT ![r] = to]
    PROVE  /\ Counting' = Counting /\ Cardinality(Counting) \in Nat
           /\ x4 + Cardinality(Counting') >= x4 + Cardinality(Counting)
<1>1. x1 \in [Callers -> Queue!Places] /\ x4 \in Nat
  BY DEF QueueInv, QueueShape, Queue!TypeOK
<1>2. Counting' = Counting
  BY <1>1 DEF Counting
<1>3. Cardinality(Counting) \in Nat
  BY QueueSets DEF QueueInv
<1> QED
  BY <1>1, <1>2, <1>3

\* A caller is told something.
LEMMA ToldTypes ==
    ASSUME QueueInv, NEW S, NEW a \in Queue!Answers, Queue!Told(S, a)
    PROVE  /\ x2' \in [Callers -> Queue!Answers \cup {None}] /\ a # None
           /\ \A q \in Callers : x2'[q] = IF q \in S THEN a ELSE x2[q]
<1>1. x2 \in [Callers -> Queue!Answers \cup {None}]
  BY DEF QueueInv, QueueShape, Queue!TypeOK
<1> QED
  BY <1>1, QueueConstants DEF Queue!Told, Queue!Answers

LEMMA QueueCallerStep ==
    ASSUME QueueInv, NEW r \in Callers,
           \/ Queue!CheckShutdown(r) \/ Queue!SendFails(r) \/ Queue!Count(r) \/ Queue!Return(r)
    PROVE  QueueInv'
<1>1. /\ x1 \in [Callers -> Queue!Places] /\ x4 \in Nat /\ x5 \in BOOLEAN
      /\ x2 \in [Callers -> Queue!Answers \cup {None}]
  BY DEF QueueInv, QueueShape, Queue!TypeOK
<1>2. x1[r] \notin {"count", "wait"} => r \notin Queue!Held \cup x8
  BY DEF QueueInv, QueueHands
<1>3. /\ x1[r] \in {"out", "send"} => x2[r] = None
      /\ x1[r] \in {"count", "wait"} => ((x2[r] = None) <=> (r \in Queue!Held \cup x8))
  BY DEF QueueInv, QueueHands, Queue!OneAnswer
<1>4. {"out", "send", "count", "wait", "done"} = Queue!Places
      /\ {"ok", "failed", "shutdown", "full"} = Queue!Answers
  BY DEF Queue!Places, Queue!Answers
<1>5. CASE Queue!CheckShutdown(r)
  <2>1. UNCHANGED <<x3, x4, x5, x6, x7, x8>> /\ x1[r] = "out"
    BY <1>5 DEF Queue!CheckShutdown, Queue!Move, Queue!processor
  <2>2. CASE x5
    <3>1. x1' = [x1 EXCEPT ![r] = "done"] /\ Queue!Told({r}, "shutdown")
      BY <1>5, <2>2 DEF Queue!CheckShutdown, Queue!Move
    <3>2. x2' \in [Callers -> Queue!Answers \cup {None}] /\ \A q \in Callers : q # r => x2'[q] = x2[q]
      BY <1>4, <3>1, ToldTypes
    <3>3. Counting' = Counting /\ Cardinality(Counting') \in Nat
          /\ x4 + Cardinality(Counting') >= x4 + Cardinality(Counting)
      BY <2>1, <3>1, CountingSame
    <3> QED
      BY <1>1, <1>2, <1>4, <2>1, <3>1, <3>2, <3>3, CallerMoves
  <2>3. CASE ~x5
    <3>1. x1' = [x1 EXCEPT ![r] = "send"] /\ x2' = x2
      BY <1>5, <2>3 DEF Queue!CheckShutdown, Queue!Move
    <3>2. Counting' = Counting /\ Cardinality(Counting') \in Nat
          /\ x4 + Cardinality(Counting') >= x4 + Cardinality(Counting)
      BY <2>1, <3>1, CountingSame
    <3> QED
      BY <1>1, <1>2, <1>3, <1>4, <2>1, <3>1, <3>2, CallerMoves
  <2> QED
    BY <2>2, <2>3
<1>6. CASE Queue!SendFails(r)
  <2>1. /\ UNCHANGED <<x3, x4, x5, x6, x7, x8>> /\ x1[r] = "send"
        /\ x1' = [x1 EXCEPT ![r] = "done"] /\ Queue!Told({r}, "full")
    BY <1>6 DEF Queue!SendFails, Queue!Move, Queue!processor
  <2>2. x2' \in [Callers -> Queue!Answers \cup {None}] /\ \A q \in Callers : q # r => x2'[q] = x2[q]
    BY <1>4, <2>1, ToldTypes
  <2>3. Counting' = Counting /\ Cardinality(Counting') \in Nat
        /\ x4 + Cardinality(Counting') >= x4 + Cardinality(Counting)
    BY <2>1, CountingSame
  <2> QED
    BY <1>1, <1>2, <1>4, <2>1, <2>2, <2>3, CallerMoves
<1>7. CASE Queue!Count(r)
  <2>1. /\ UNCHANGED <<x2, x3, x5, x6, x7, x8>> /\ x1[r] = "count"
        /\ x1' = [x1 EXCEPT ![r] = "wait"] /\ x4' = x4 + 1
    BY <1>7 DEF Queue!Count, Queue!Move, Queue!processor
  <2>2. Counting' = Counting \ {r} /\ r \in Counting
    BY <1>1, <2>1 DEF Counting
  <2>3. /\ Cardinality(Counting) \in Nat /\ Cardinality(Counting') = Cardinality(Counting) - 1
        /\ Cardinality(Counting') \in Nat
    <3>1. IsFiniteSet(Counting) /\ Cardinality(Counting) \in Nat
      BY QueueSets DEF QueueInv
    <3>2. IsFiniteSet(Counting \ {r}) /\ Cardinality(Counting \ {r}) = Cardinality(Counting) - 1
      BY <2>2, <3>1, FS_RemoveElement
    <3>3. Cardinality(Counting \ {r}) \in Nat
      BY <3>2, FS_CardinalityType
    <3> QED
      BY <2>2, <3>1, <3>2, <3>3
  <2>4. x4' \in Nat /\ x4' + Cardinality(Counting') >= x4 + Cardinality(Counting)
    BY <1>1, <2>1, <2>3
  <2>5. /\ \A q \in Callers : q # r => x2'[q] = x2[q]
        /\ x2' \in [Callers -> Queue!Answers \cup {None}] /\ x5' \in BOOLEAN
        /\ "wait" \in Queue!Places /\ UNCHANGED <<x3, x6, x7, x8>>
    BY <1>1, <1>4, <2>1
  <2>6. (x2'[r] = None) <=> (r \in Queue!Held \cup x8)
    BY <1>3, <2>1
  <2> QED
    BY <2>1, <2>3, <2>4, <2>5, <2>6, CallerMoves
<1>8. CASE Queue!Return(r)
  <2>1. /\ UNCHANGED <<x2, x3, x4, x5, x6, x7, x8>> /\ x1[r] = "wait" /\ x2[r] # None
        /\ x1' = [x1 EXCEPT ![r] = "done"]
    BY <1>8 DEF Queue!Return, Queue!Move, Queue!processor
  <2>2. Counting' = Counting /\ Cardinality(Counting') \in Nat
        /\ x4 + Cardinality(Counting') >= x4 + Cardinality(Counting)
    BY <2>1, CountingSame
  <2>3. r \notin Queue!Held \cup x8
    BY <1>3, <2>1
  <2> QED
    BY <1>1, <1>4, <2>1, <2>2, <2>3, CallerMoves
<1> QED
  BY <1>5, <1>6, <1>7, <1>8

LEMMA QueueSend ==
    ASSUME QueueInv, NEW r \in Callers, Queue!Send(r)
    PROVE  QueueInv'
<1>1. /\ UNCHANGED <<x2, x4, x5, x6, x7, x8>> /\ x1[r] = "send" /\ Len(x3) < MaxQueue
      /\ x1' = [x1 EXCEPT ![r] = "count"] /\ x3' = Append(x3, r)
  BY DEF Queue!Send, Queue!Move, Queue!processor
<1>2. /\ x1 \in [Callers -> Queue!Places] /\ x4 \in Nat
      /\ x1' \in [Callers -> Queue!Places] /\ x1'[r] = "count"
      /\ \A q \in Callers : q # r => x1'[q] = x1[q]
  BY <1>1 DEF QueueInv, QueueShape, Queue!TypeOK, Queue!Places
<1>3. r \notin Queue!Held \cup x8 /\ x2[r] = None
  BY <1>1 DEF QueueInv, QueueHands
<1>4. /\ x3' \in Seq(Callers) /\ Len(x3') = Len(x3) + 1
      /\ Queue!Elements(x3') = Queue!Elements(x3) \cup {r}
      /\ Distinct(x3')
  BY <1>1, <1>3, QueueSets, AppendElements DEF QueueInv, QueueShape, Queue!Held
<1>5. Queue!Held' = Queue!Held \cup {r}
  BY <1>1, <1>4 DEF Queue!Held, Queue!Elements
<1>6. Queue!Elements(x7)' = Queue!Elements(x7)
  BY <1>1 DEF Queue!Elements
<1>7. Len(x3') <= MaxQueue
  BY <1>1, <1>4, QueueConstants, QueueSets DEF QueueInv
<1>8. QueueShape'
  <2>1. Queue!TypeOK'
    BY <1>1, <1>2, <1>4, <1>7 DEF QueueInv, QueueShape, Queue!TypeOK
  <2>2. Queue!Elements(x3') \cap Queue!Elements(x7') = {} /\ x8' \cap Queue!Held' = {}
    BY <1>1, <1>3, <1>4, <1>5 DEF QueueInv, QueueShape, Queue!Held
  <2>3. Distinct(x7')
    BY <1>1 DEF QueueInv, QueueShape
  <2> QED
    BY <1>1, <1>4, <2>1, <2>2, <2>3 DEF QueueInv, QueueShape
<1>9. QueueHands'
  BY <1>1, <1>2, <1>5 DEF QueueInv, QueueHands
<1>10. Queue!OneAnswer'
  BY <1>1, <1>2, <1>3, <1>5 DEF QueueInv, Queue!OneAnswer
<1>11. Queue!DepthCovers'
  <2>1. Counting' = Counting \cup {r} /\ r \notin Counting
    BY <1>1, <1>2 DEF Counting
  <2>2. /\ IsFiniteSet(Counting) /\ Cardinality(Counting) \in Nat
        /\ IsFiniteSet(Queue!Held) /\ Cardinality(Queue!Held) \in Nat
    BY QueueSets DEF QueueInv
  <2>3. Cardinality(Counting') = Cardinality(Counting) + 1
    BY <2>1, <2>2, FS_AddElement
  <2>4. Cardinality(Queue!Held') = Cardinality(Queue!Held) + 1
    BY <1>3, <1>5, <2>2, FS_AddElement
  <2>5. x4 + Cardinality(Counting) >= Cardinality(Queue!Held)
    BY QueueDepth DEF QueueInv
  <2>6. x4' + Cardinality(Counting') >= Cardinality(Queue!Held')
    BY <1>1, <1>2, <2>2, <2>3, <2>4, <2>5
  <2> QED
    BY <2>6, QueueDepth
<1> QED
  BY <1>8, <1>9, <1>10, <1>11 DEF QueueInv

\* The processor goes on: requests leave its hands only with an answer.
LEMMA ProcessorMoves ==
    ASSUME QueueInv, UNCHANGED <<x1, x5>>, QueueShape',
           (Queue!Held \cup x8)' \subseteq Queue!Held \cup x8,
           \A r \in Callers :
             IF r \in (Queue!Held \cup x8) \ (Queue!Held \cup x8)'
             THEN x2'[r] # None ELSE x2'[r] = x2[r],
           x4' + Cardinality(Counting) >= Cardinality(Queue!Held')
    PROVE  QueueInv'
<1>1. Counting' = Counting
  BY DEF Counting
<1>2. Queue!DepthCovers'
  BY <1>1, QueueDepth
<1>3. \A r \in Callers : x1[r] \in {"out", "send"} => r \notin Queue!Held \cup x8
  BY DEF QueueInv, QueueHands
<1>4. QueueHands'
  BY <1>3 DEF QueueInv, QueueHands
<1>5. Queue!OneAnswer'
  BY DEF QueueInv, Queue!OneAnswer
<1> QED
  BY <1>2, <1>4, <1>5 DEF QueueInv

LEMMA QueueCounts ==
    ASSUME QueueInv
    PROVE  /\ x4 \in Nat /\ Cardinality(Counting) \in Nat /\ Cardinality(Queue!Held) \in Nat
           /\ x4 + Cardinality(Counting) >= Cardinality(Queue!Held)
BY QueueSets, QueueDepth DEF QueueInv, QueueShape, Queue!TypeOK

LEMMA QueueIdleStep ==
    ASSUME QueueInv,
           Queue!Go \/ Queue!NothingCame \/ Queue!WindowEnds \/ Queue!BatchDone
    PROVE  QueueInv'
<1>1. /\ UNCHANGED <<x1, x2, x3, x4, x5, x7, x8>>
      /\ \/ x6 = "top" /\ x6' = "first"
         \/ x6 = "first" /\ x6' = "top"
         \/ x6 = "more" /\ x6' = "tally"
         \/ x6 = "groups" /\ x6' = "top" /\ x8 = {}
  BY DEF Queue!Go, Queue!NothingCame, Queue!WindowEnds, Queue!BatchDone, Queue!callers
<1>2. Queue!Held' = Queue!Held /\ (Queue!Held \cup x8)' = Queue!Held \cup x8
  BY <1>1 DEF Queue!Held, Queue!Elements
<1>3. QueueShape'
  <2>1. Queue!TypeOK'
    BY <1>1 DEF QueueInv, QueueShape, Queue!TypeOK, Queue!Phases
  <2>2. Queue!Elements(x3)' = Queue!Elements(x3) /\ Queue!Elements(x7)' = Queue!Elements(x7)
    BY <1>1 DEF Queue!Elements
  <2>3. Distinct(x3)' /\ Distinct(x7)'
    BY <1>1 DEF QueueInv, QueueShape, Distinct
  <2> QED
    BY <1>1, <1>2, <2>1, <2>2, <2>3 DEF QueueInv, QueueShape
<1> QED
  BY <1>1, <1>2, <1>3, QueueCounts, ProcessorMoves

\* A request goes from the channel to the batch.
LEMMA QueueTake ==
    ASSUME QueueInv, Queue!First \/ Queue!More
    PROVE  QueueInv'
<1>1. /\ UNCHANGED <<x1, x2, x4, x5, x8>> /\ x3 # <<>>
      /\ x7' = Append(x7, Head(x3)) /\ x3' = Tail(x3)
      /\ \/ x6 = "first" /\ x6' = "more"
         \/ x6 = "more" /\ x6' = x6 /\ Len(x7) < Queue!Least(MaxBatch, MinBatch)
  BY DEF Queue!First, Queue!More, Queue!Take, Queue!callers
<1>2. x3 \in Seq(Callers) /\ x7 \in Seq(Callers) /\ x8 \subseteq Callers
  BY QueueSets DEF QueueInv
<1>3. /\ Head(x3) \in Callers /\ x3' \in Seq(Callers) /\ Len(x3') = Len(x3) - 1
      /\ Queue!Elements(x3) = Queue!Elements(x3') \cup {Head(x3)}
      /\ Distinct(x3') /\ Head(x3) \notin Queue!Elements(x3')
  BY <1>1, <1>2, TailElements DEF QueueInv, QueueShape
<1>4. Head(x3) \notin Queue!Elements(x7)
  BY <1>3 DEF QueueInv, QueueShape
<1>5. /\ x7' \in Seq(Callers) /\ Len(x7') = Len(x7) + 1
      /\ Queue!Elements(x7') = Queue!Elements(x7) \cup {Head(x3)}
      /\ Distinct(x7')
  BY <1>1, <1>2, <1>3, <1>4, AppendElements DEF QueueInv, QueueShape
<1>6. Queue!Held' = Queue!Held
  BY <1>3, <1>5 DEF Queue!Held
<1>7. QueueShape'
  <2>1. Len(x3') <= MaxQueue /\ Len(x7') <= MaxBatch
    <3>1. Len(x7) \in Nat /\ Len(x3) \in Nat /\ Len(x3) <= MaxQueue
      BY <1>2 DEF QueueInv, QueueShape, Queue!TypeOK
    <3>2. x6 = "first" => Len(x7) = 0
      BY DEF QueueInv, QueueShape
    <3>3. x6 = "first" \/ Len(x7) < MaxBatch
      BY <1>1, <3>1, QueueConstants DEF Queue!Least
    <3> QED
      BY <1>3, <1>5, <3>1, <3>2, <3>3, QueueConstants
  <2>2. Queue!TypeOK'
    BY <1>1, <1>3, <1>5, <2>1 DEF QueueInv, QueueShape, Queue!TypeOK, Queue!Phases
  <2>3. Queue!Elements(x3') \cap Queue!Elements(x7') = {} /\ x8' \cap Queue!Held' = {}
    BY <1>1, <1>3, <1>5, <1>6 DEF QueueInv, QueueShape
  <2> QED
    BY <1>1, <1>3, <1>5, <2>2, <2>3 DEF QueueInv, QueueShape
<1> QED
  BY <1>1, <1>6, <1>7, QueueCounts, ProcessorMoves

\* The shutdown: what is in the channel is answered with it.
LEMMA QueueDrain ==
    ASSUME QueueInv, Queue!Drain \/ Queue!DropProcessor
    PROVE  QueueInv'
<1>1. /\ UNCHANGED <<x1, x4, x5, x7, x8>> /\ x3' = <<>>
      /\ Queue!Told(Queue!Elements(x3), "shutdown")
      /\ \/ x6 = "top" /\ x6' = "left"
         \/ x6 = "left" /\ x6' = "gone"
  <2>1. CASE Queue!Drain
    BY <2>1 DEF Queue!Drain
  <2>2. CASE Queue!DropProcessor
    BY <2>2 DEF Queue!DropProcessor
  <2> QED
    BY <2>1, <2>2
<1>2. /\ x2' \in [Callers -> Queue!Answers \cup {None}]
      /\ \A q \in Callers : IF q \in Queue!Elements(x3) THEN x2'[q] # None ELSE x2'[q] = x2[q]
  BY <1>1, ToldTypes DEF Queue!Answers
<1>3. x7 = <<>> /\ x8 = {}
  BY <1>1 DEF QueueInv, QueueShape
<1>4. Queue!Elements(x3') = {} /\ Queue!Elements(x7) = {} /\ Queue!Elements(x7)' = {}
  BY <1>1, <1>3 DEF Queue!Elements
<1>5. Queue!Held = Queue!Elements(x3) /\ Queue!Held' = {}
  BY <1>4 DEF Queue!Held
<1>6. QueueShape'
  <2>1. Queue!TypeOK'
    BY <1>1, <1>2, QueueConstants DEF QueueInv, QueueShape, Queue!TypeOK, Queue!Phases
  <2>2. Distinct(x3') /\ Distinct(x7')
    BY <1>1, <1>3 DEF Distinct
  <2> QED
    BY <1>1, <1>3, <1>4, <1>5, <2>1, <2>2 DEF QueueShape
<1>7. Cardinality(Queue!Held') = 0
  BY <1>5, FS_EmptySet
<1>8. x4' + Cardinality(Counting) >= Cardinality(Queue!Held')
  BY <1>1, <1>7, QueueCounts
<1>9. \A r \in Callers :
        IF r \in (Queue!Held \cup x8) \ (Queue!Held \cup x8)'
        THEN x2'[r] # None ELSE x2'[r] = x2[r]
  BY <1>1, <1>2, <1>3, <1>5
<1> QED
  BY <1>1, <1>3, <1>5, <1>6, <1>8, <1>9, ProcessorMoves

\* The counter loses a batch that has no request twice.
LEMMA QueueTally ==
    ASSUME QueueInv, Queue!Tally
    PROVE  QueueInv'
<1>1. /\ UNCHANGED <<x1, x2, x3, x5>> /\ x6 = "tally" /\ x6' = "groups"
      /\ x4' = IF Len(x7) > x4 THEN 0 ELSE x4 - Len(x7)
      /\ x8' = Queue!Elements(x7) /\ x7' = <<>>
  BY DEF Queue!Tally, Queue!callers
<1>2. x8 = {}
  BY <1>1 DEF QueueInv, QueueShape
<1>3. /\ x3 \in Seq(Callers) /\ x7 \in Seq(Callers) /\ Len(x7) \in Nat
      /\ Queue!Elements(x3) \cap Queue!Elements(x7) = {}
      /\ Distinct(x3) /\ Distinct(x7)
  BY QueueSets DEF QueueInv, QueueShape
<1>4. Queue!Elements(x7') = {} /\ Queue!Elements(x3)' = Queue!Elements(x3)
  BY <1>1 DEF Queue!Elements
<1>5. /\ Queue!Held = Queue!Elements(x3) \cup Queue!Elements(x7)
      /\ Queue!Held' = Queue!Elements(x3)
  BY <1>4 DEF Queue!Held
<1>6. QueueShape'
  <2>1. Len(x7') = 0 /\ x7' \in Seq(Callers) /\ Distinct(x7') /\ Queue!Elements(x7) \subseteq Callers
    BY <1>1, <1>3 DEF Distinct, Queue!Elements
  <2>2. x4' \in Nat
    BY <1>1, <1>3, QueueCounts
  <2>3. Queue!TypeOK'
    BY <1>1, <2>1, <2>2, QueueConstants DEF QueueInv, QueueShape, Queue!TypeOK, Queue!Phases
  <2>4. Distinct(x3')
    BY <1>1, <1>3 DEF Distinct
  <2> QED
    BY <1>1, <1>3, <1>4, <1>5, <2>1, <2>3, <2>4 DEF QueueShape
<1>7. x4' + Cardinality(Counting) >= Cardinality(Queue!Held')
  <2>1. /\ IsFiniteSet(Queue!Elements(x3)) /\ Cardinality(Queue!Elements(x3)) = Len(x3)
        /\ IsFiniteSet(Queue!Elements(x7)) /\ Cardinality(Queue!Elements(x7)) = Len(x7)
    BY <1>3, DistinctLength
  <2>2. Cardinality(Queue!Elements(x3) \cap Queue!Elements(x7)) = 0
    BY <1>3, FS_EmptySet
  <2>3. Cardinality(Queue!Held) = Len(x3) + Len(x7) - 0
    BY <1>5, <2>1, <2>2, FS_Union
  <2>4. Len(x3) \in Nat /\ Cardinality(Queue!Held') = Len(x3)
    BY <1>3, <1>5, <2>1
  <2> QED
    BY <1>1, <1>3, <2>3, <2>4, QueueCounts
<1>8. (Queue!Held \cup x8)' = Queue!Held \cup x8
  BY <1>1, <1>2, <1>5
<1> QED
  BY <1>1, <1>6, <1>7, <1>8, ProcessorMoves

LEMMA QueueInfer ==
    ASSUME QueueInv, Queue!Infer
    PROVE  QueueInv'
<1>1. UNCHANGED <<x1, x3, x4, x5, x6, x7>> /\ x6 = "groups"
  BY DEF Queue!Infer
<1>2. PICK m, good : 
        /\ good \subseteq Queue!OfModel(m)
        /\ x2' = [r \in Callers |->
                    IF r \in good THEN "ok"
                    ELSE IF r \in Queue!OfModel(m) THEN "failed" ELSE x2[r]]
        /\ x8' = x8 \ Queue!OfModel(m)
  BY DEF Queue!Infer
<1>3. Queue!OfModel(m) \subseteq x8
  BY DEF Queue!OfModel
<1>4. /\ x2' \in [Callers -> Queue!Answers \cup {None}]
      /\ \A r \in Callers : IF r \in Queue!OfModel(m) THEN x2'[r] # None ELSE x2'[r] = x2[r]
  <2>1. x2 \in [Callers -> Queue!Answers \cup {None}]
    BY DEF QueueInv, QueueShape, Queue!TypeOK
  <2> QED
    BY <1>2, <2>1, QueueConstants DEF Queue!Answers
<1>5. Queue!Held' = Queue!Held /\ Queue!Elements(x3)' = Queue!Elements(x3) /\ Queue!Elements(x7)' = Queue!Elements(x7)
  BY <1>1 DEF Queue!Held, Queue!Elements
<1>6. QueueShape'
  <2>1. Queue!TypeOK'
    BY <1>1, <1>2, <1>4 DEF QueueInv, QueueShape, Queue!TypeOK
  <2>2. Distinct(x3)' /\ Distinct(x7)'
    BY <1>1 DEF QueueInv, QueueShape, Distinct
  <2> QED
    BY <1>1, <1>2, <1>5, <2>1, <2>2 DEF QueueInv, QueueShape
<1>7. x8 \cap Queue!Held = {}
  BY DEF QueueInv, QueueShape
<1>8. (Queue!Held \cup x8) \ (Queue!Held \cup x8)' = Queue!OfModel(m)
  BY <1>2, <1>3, <1>5, <1>7
<1> QED
  BY <1>1, <1>2, <1>4, <1>5, <1>6, <1>8, QueueCounts, ProcessorMoves

LEMMA QueueInit ==
    ASSUME Queue!Init
    PROVE  QueueInv
<1>1. /\ x1 = [r \in Callers |-> "out"] /\ x2 = [r \in Callers |-> None]
      /\ x3 = <<>> /\ x4 = 0 /\ x5 = FALSE /\ x6 \in {"top", "gone"} /\ x7 = <<>> /\ x8 = {}
  BY Zenon DEF Queue!Init
<1>2. Queue!Elements(x3) = {} /\ Queue!Elements(x7) = {} /\ Queue!Held = {}
  BY <1>1 DEF Queue!Elements, Queue!Held
<1>3. QueueShape
  <2>1. x5 \in BOOLEAN
    BY <1>1, Zenon
  <2>2. Queue!TypeOK
    BY <1>1, <2>1, QueueConstants DEF Queue!TypeOK, Queue!Places, Queue!Phases
  <2> QED
    BY <1>1, <1>2, <2>2 DEF QueueShape, Distinct
<1>4. Queue!DepthCovers
  <2>1. Cardinality(Queue!Held) = 0 /\ Cardinality(Counting) \in Nat
    BY <1>2, <1>3, QueueSets, FS_EmptySet
  <2> QED
    BY <1>1, <2>1, QueueDepth
<1> QED
  BY <1>1, <1>2, <1>3, <1>4 DEF QueueInv, QueueHands, Queue!OneAnswer

LEMMA QueueStep ==
    ASSUME QueueInv, Queue!Next
    PROVE  QueueInv'
<1>1. ASSUME NEW r \in Callers, Queue!Caller(r) PROVE QueueInv'
  BY <1>1, QueueCallerStep, QueueSend DEF Queue!Caller
<1>2. CASE Queue!Shutdown
  <2>1. UNCHANGED <<x1, x2, x3, x4, x6, x7, x8>> /\ x5' = TRUE
    BY <1>2 DEF Queue!Shutdown, Queue!callers, Queue!processor
  <2>2. x5' \in BOOLEAN
    BY <2>1, Zenon
  <2>3. Queue!Held' = Queue!Held /\ Counting' = Counting
    BY <2>1 DEF Queue!Held, Queue!Elements, Counting
  <2>4. QueueShape'
    <3>1. Queue!TypeOK'
      BY <2>1, <2>2 DEF QueueInv, QueueShape, Queue!TypeOK
    <3> QED
      BY <2>1, <2>3, <3>1 DEF QueueInv, QueueShape, Queue!Elements, Distinct
  <2>5. Queue!DepthCovers'
    BY <2>1, <2>3, QueueDepth DEF QueueInv
  <2> QED
    BY <2>1, <2>3, <2>4, <2>5 DEF QueueInv, QueueHands, Queue!OneAnswer
<1>3. CASE Queue!Process
  BY <1>3, QueueDrain, QueueIdleStep, QueueTake, QueueTally, QueueInfer DEF Queue!Process
<1> QED
  BY <1>1, <1>2, <1>3 DEF Queue!Next


-------------------------------------------------------------------------------
(* The cache                                                               *)

LEMMA CacheConstants ==
    /\ IsFiniteSet(Loaders) /\ Cardinality(Loaders) \in Nat /\ Loaders = 1 .. Cardinality(Loaders)
    /\ IsFiniteSet(Models) /\ Cardinality(Models) \in Nat /\ Models = 1 .. Cardinality(Models)
    /\ None \notin Models /\ Size \in [Models -> Nat \ {0}]
    /\ Loaders # {} /\ Largest \in Nat /\ \A m \in Models : Size[m] <= Largest
    /\ MaxModels \in Nat \ {0} /\ MaxMemory \in Nat
BY InferenceAssumption, CacheCardinality, FS_CardinalityType DEF Cache!CacheAssumption

SizeIn(S) == [m \in Models |-> IF m \in S THEN Size[m] ELSE 0]
SumOf(S) == Total(SizeIn(S), Cardinality(Models))
Due(at, wants) == [t \in Loaders |-> IF at[t] = "account" THEN Size[wants[t]] ELSE 0]
Owed(at, wants) == Total(Due(at, wants), Cardinality(Loaders))

LEMMA CacheCovers ==
    /\ Cache!MemoryCovers <=> x3 + Owed(x4, x5) >= SumOf(x1)
    /\ Cache!MemoryCovers' <=> x3' + Owed(x4', x5') >= SumOf(x1')
<1>1. \A S : Cache!Sum(S) = SumOf(S)
  <2> SUFFICES ASSUME NEW S PROVE Cache!Sum(S) = SumOf(S)
    OBVIOUS
  <2>1. Cache!Sum(S) = Cache!Total(SizeIn(S), Cache!Cardinality(Models))
    BY Zenon DEF Cache!Sum, SizeIn
  <2> QED
    BY <2>1, CacheTotal, CacheCardinality, Zenon DEF SumOf
<1>2. Cache!Uncounted = Cache!Total(Due(x4, x5), Cache!Cardinality(Loaders))
  BY Zenon DEF Cache!Uncounted, Due
<1>3. Cache!Uncounted' = Cache!Total(Due(x4', x5'), Cache!Cardinality(Loaders))
  BY Zenon DEF Cache!Uncounted, Due
<1>4. Cache!Uncounted = Owed(x4, x5) /\ Cache!Uncounted' = Owed(x4', x5')
  BY <1>2, <1>3, CacheTotal, CacheCardinality, Zenon DEF Owed
<1>5. Cache!Sum(x1)' = SumOf(x1') /\ Cache!Sum(x1) = SumOf(x1)
  BY <1>1
<1> QED
  BY <1>4, <1>5, Zenon DEF Cache!MemoryCovers

LEMMA SumOfEmpty == SumOf({}) = 0
<1> DEFINE g == [i \in 0 .. Cardinality(Models) |-> 0]
<1>1. Running(g, SizeIn({}), Cardinality(Models))
  BY CacheConstants DEF Running, SizeIn
<1> QED
  BY <1>1, CacheConstants, TotalIsLast DEF SumOf

LEMMA SumOfType == \A S : SumOf(S) \in Nat
<1>1. \A T : SizeIn(T) \in [1 .. Cardinality(Models) -> Nat]
  BY CacheConstants DEF SizeIn
<1> QED
  BY <1>1, CacheConstants, TotalType DEF SumOf

LEMMA SumOfOne ==
    ASSUME NEW S, NEW m \in Models
    PROVE  /\ SumOf(S) \in Nat
           /\ m \in S => SumOf(S) = SumOf(S \ {m}) + Size[m]
           /\ SumOf(S \cup {m}) <= SumOf(S) + Size[m]
<1>1. \A T : SizeIn(T) \in [1 .. Cardinality(Models) -> Nat]
  BY CacheConstants DEF SizeIn
<1>2. \A T : SumOf(T) \in Nat
  BY SumOfType
<1>3. Size[m] \in Nat
  BY CacheConstants
<1>4. ASSUME NEW T, m \in T PROVE SumOf(T) = SumOf(T \ {m}) + Size[m]
  <2>1. \A i \in 1 .. Cardinality(Models) : i # m => SizeIn(T)[i] = SizeIn(T \ {m})[i]
    BY CacheConstants DEF SizeIn
  <2>2. SumOf(T) + SizeIn(T \ {m})[m] = SumOf(T \ {m}) + SizeIn(T)[m]
    <3>1. m \in 1 .. Cardinality(Models)
      BY CacheConstants
    <3>2. Total(SizeIn(T), Cardinality(Models)) + SizeIn(T \ {m})[m]
          = Total(SizeIn(T \ {m}), Cardinality(Models)) + SizeIn(T)[m]
      <4> DEFINE n == Cardinality(Models)
                 f == SizeIn(T \ {m})
                 h == SizeIn(T)
      <4>1. n \in Nat /\ m \in 1 .. n /\ f \in [1 .. n -> Nat] /\ h \in [1 .. n -> Nat]
        BY <1>1, <3>1, CacheConstants
      <4>2. \A i \in 1 .. n : i # m => h[i] = f[i]
        BY <2>1
      <4> HIDE DEF n, f, h
      <4>3. Total(h, n) + f[m] = Total(f, n) + h[m]
        BY <4>1, <4>2, TotalUpdate
      <4> QED
        BY <4>3 DEF n, f, h
    <3> QED
      BY <3>2 DEF SumOf
  <2>3. SizeIn(T \ {m})[m] = 0 /\ SizeIn(T)[m] = Size[m]
    BY <1>4 DEF SizeIn
  <2> QED
    BY <1>2, <1>3, <2>2, <2>3
<1>5. SumOf(S \cup {m}) <= SumOf(S) + Size[m]
  <2>1. CASE m \in S
    <3>1. S \cup {m} = S
      BY <2>1
    <3> QED
      BY <1>2, <1>3, <3>1
  <2>2. CASE m \notin S
    <3>1. (S \cup {m}) \ {m} = S
      BY <2>2
    <3>2. SumOf(S \cup {m}) = SumOf((S \cup {m}) \ {m}) + Size[m]
      BY <1>4
    <3> QED
      BY <1>2, <1>3, <3>1, <3>2
  <2> QED
    BY <2>1, <2>2
<1> QED
  BY <1>2, <1>4, <1>5

\* One loader goes on; what it owes changes.
LEMMA OwedMoves ==
    ASSUME CacheInv, NEW t \in Loaders, NEW to \in Cache!Steps, NEW w,
           to = "account" => w \in Models,
           x4' = [x4 EXCEPT ![t] = to], x5' = [x5 EXCEPT ![t] = w]
    PROVE  /\ Owed(x4, x5) \in Nat /\ Owed(x4', x5') \in Nat
           /\ Owed(x4', x5') + (IF x4[t] = "account" THEN Size[x5[t]] ELSE 0)
              = Owed(x4, x5) + (IF to = "account" THEN Size[w] ELSE 0)
<1>1. /\ x4 \in [Loaders -> Cache!Steps] /\ x5 \in [Loaders -> Models \cup {None}]
      /\ \A u \in Loaders : x4[u] = "account" => x5[u] \in Models
  BY DEF CacheInv, Cache!TypeOK
<1>2. Due(x4, x5) \in [1 .. Cardinality(Loaders) -> Nat]
  BY <1>1, CacheConstants DEF Due
<1>3. Due(x4', x5') \in [1 .. Cardinality(Loaders) -> Nat]
  BY <1>1, CacheConstants DEF Due
<1>4. t \in 1 .. Cardinality(Loaders)
      /\ \A u \in 1 .. Cardinality(Loaders) : u # t => Due(x4', x5')[u] = Due(x4, x5)[u]
  BY <1>1, CacheConstants DEF Due
<1>5. Owed(x4', x5') + Due(x4, x5)[t] = Owed(x4, x5) + Due(x4', x5')[t]
  <2> DEFINE n == Cardinality(Loaders)
             f == Due(x4, x5)
             h == Due(x4', x5')
  <2>1. /\ n \in Nat /\ t \in 1 .. n /\ f \in [1 .. n -> Nat] /\ h \in [1 .. n -> Nat]
        /\ \A i \in 1 .. n : i # t => h[i] = f[i]
    BY <1>2, <1>3, <1>4, CacheConstants
  <2> HIDE DEF n, f, h
  <2>2. Total(h, n) + f[t] = Total(f, n) + h[t]
    BY <2>1, TotalUpdate
  <2> QED
    BY <2>2 DEF n, f, h, Owed
<1>6. /\ Due(x4, x5)[t] = IF x4[t] = "account" THEN Size[x5[t]] ELSE 0
      /\ Due(x4', x5')[t] = IF to = "account" THEN Size[w] ELSE 0
  BY <1>1 DEF Due
<1>7. Owed(x4, x5) \in Nat /\ Owed(x4', x5') \in Nat
  BY <1>2, <1>3, CacheConstants, TotalType DEF Owed
<1> QED
  BY <1>5, <1>6, <1>7

\* The same for what is promised; the others are promised one model each.
LEMMA PledgeMoves ==
    ASSUME CacheInv, NEW t \in Loaders, NEW to \in Cache!Steps, NEW w, NEW f \in BOOLEAN,
           Passed(to, f) => w \in Models,
           x4' = [x4 EXCEPT ![t] = to], x5' = [x5 EXCEPT ![t] = w], x6' = [x6 EXCEPT ![t] = f]
    PROVE  /\ Pledge(x4, x5, x6) \in Nat /\ Pledge(x4', x5', x6') \in Nat
           /\ Pledge(x4', x5', x6') + (IF Passed(x4[t], x6[t]) THEN Size[x5[t]] ELSE 0)
              = Pledge(x4, x5, x6) + (IF Passed(to, f) THEN Size[w] ELSE 0)
           /\ ~Passed(x4[t], x6[t]) => Pledge(x4, x5, x6) <= Others
<1>1. /\ x4 \in [Loaders -> Cache!Steps] /\ x5 \in [Loaders -> Models \cup {None}]
      /\ x6 \in [Loaders -> BOOLEAN]
      /\ \A u \in Loaders : Passed(x4[u], x6[u]) => x5[u] \in Models
  BY DEF CacheInv, Cache!TypeOK, Passed
<1>2. /\ \A u \in Loaders : u # t => x4'[u] = x4[u] /\ x5'[u] = x5[u] /\ x6'[u] = x6[u]
      /\ x4'[t] = to /\ x5'[t] = w
  BY <1>1
<1>3. x6'[t] = f
  BY Zenon, <1>1
<1>4. Promised(x4, x5, x6) \in [1 .. Cardinality(Loaders) -> Nat]
  BY <1>1, CacheConstants DEF Promised
<1>5. Promised(x4', x5', x6') \in [1 .. Cardinality(Loaders) -> Nat]
  <2>1. \A u \in Loaders : Passed(x4'[u], x6'[u]) => x5'[u] \in Models
    BY Zenon, <1>1, <1>2, <1>3
  <2> QED
    BY <2>1, CacheConstants DEF Promised
<1>6. t \in 1 .. Cardinality(Loaders)
      /\ \A u \in 1 .. Cardinality(Loaders) :
           u # t => Promised(x4', x5', x6')[u] = Promised(x4, x5, x6)[u]
  BY <1>2, CacheConstants DEF Promised
<1>a. /\ Promised(x4, x5, x6)[t] = IF Passed(x4[t], x6[t]) THEN Size[x5[t]] ELSE 0
      /\ Promised(x4', x5', x6')[t] = IF Passed(x4'[t], x6'[t]) THEN Size[x5'[t]] ELSE 0
  BY DEF Promised
<1>7. /\ Promised(x4, x5, x6)[t] = IF Passed(x4[t], x6[t]) THEN Size[x5[t]] ELSE 0
      /\ Promised(x4', x5', x6')[t] = IF Passed(to, f) THEN Size[w] ELSE 0
  BY Zenon, <1>a, <1>2, <1>3
<1>8. /\ Pledge(x4', x5', x6') + Promised(x4, x5, x6)[t]
         = Pledge(x4, x5, x6) + Promised(x4', x5', x6')[t]
      /\ Promised(x4, x5, x6)[t] = 0 => Pledge(x4, x5, x6) <= Others
  <2> DEFINE n == Cardinality(Loaders)
             g == Promised(x4, x5, x6)
             h == Promised(x4', x5', x6')
  <2>1. /\ n \in Nat /\ t \in 1 .. n /\ g \in [1 .. n -> Nat] /\ h \in [1 .. n -> Nat]
        /\ \A i \in 1 .. n : i # t => h[i] = g[i]
    BY <1>4, <1>5, <1>6, CacheConstants
  <2>2. Largest \in Nat /\ \A i \in 1 .. n : g[i] <= Largest
    BY <1>1, CacheConstants DEF Promised
  <2> HIDE DEF n, g, h
  <2>3. Total(h, n) + g[t] = Total(g, n) + h[t]
    BY <2>1, TotalUpdate
  <2>4. g[t] = 0 => Total(g, n) <= (n - 1) * Largest
    BY <2>1, <2>2, TotalBelow
  <2> QED
    BY <2>3, <2>4 DEF n, g, h, Pledge, Others
<1>9. Pledge(x4, x5, x6) \in Nat /\ Pledge(x4', x5', x6') \in Nat
  BY <1>4, <1>5, CacheConstants, TotalType DEF Pledge
<1> QED
  BY Zenon, <1>7, <1>8, <1>9

LEMMA PledgeType ==
    ASSUME CacheInv
    PROVE  Pledge(x4, x5, x6) \in Nat
<1>1. \A u \in Loaders : Passed(x4[u], x6[u]) => x5[u] \in Models
  BY DEF CacheInv, Cache!TypeOK, Passed
<1>2. Promised(x4, x5, x6) \in [1 .. Cardinality(Loaders) -> Nat]
  BY <1>1, CacheConstants DEF Promised
<1> QED
  BY <1>2, CacheConstants, TotalType DEF Pledge

\* So the counter with what is to be added to it stays within that bound.
LEMMA CacheBounded ==
    ASSUME CacheInv
    PROVE  Cache!MemoryBounded
<1>1. /\ \A u \in Loaders : Passed(x4[u], x6[u]) => x5[u] \in Models
      /\ \A u \in Loaders : x4[u] = "account" => Passed(x4[u], x6[u])
  BY DEF CacheInv, Cache!TypeOK, Passed
<1>2. /\ Promised(x4, x5, x6) \in [1 .. Cardinality(Loaders) -> Nat]
      /\ Due(x4, x5) \in [1 .. Cardinality(Loaders) -> Nat]
      /\ \A u \in 1 .. Cardinality(Loaders) : Due(x4, x5)[u] <= Promised(x4, x5, x6)[u]
  BY <1>1, CacheConstants DEF Promised, Due
<1>3. Owed(x4, x5) <= Pledge(x4, x5, x6) /\ Owed(x4, x5) \in Nat
  <2> DEFINE n == Cardinality(Loaders)
             f == Due(x4, x5)
             h == Promised(x4, x5, x6)
  <2>1. /\ n \in Nat /\ f \in [1 .. n -> Nat] /\ h \in [1 .. n -> Nat]
        /\ \A i \in 1 .. n : f[i] <= h[i]
    BY <1>2, CacheConstants
  <2> HIDE DEF n, f, h
  <2>2. Total(f, n) <= Total(h, n) /\ Total(f, n) \in Nat
    BY <2>1, TotalMonotone, TotalType
  <2> QED
    BY <2>2 DEF n, f, h, Owed, Pledge
<1>4. x3 + Pledge(x4, x5, x6) <= MaxMemory + Others /\ x3 \in Nat
  BY DEF CacheInv, Cache!TypeOK
<1>5. Cache!Uncounted = Owed(x4, x5)
  BY CacheTotal, CacheCardinality, Zenon DEF Cache!Uncounted, Due, Owed
<1>6. Cache!Cardinality(Loaders) = Cardinality(Loaders)
  BY CacheCardinality
<1>7. Others \in Int /\ MaxMemory \in Nat /\ Pledge(x4, x5, x6) \in Nat
  BY PledgeType, CacheConstants DEF Others
<1>8. x3 + Owed(x4, x5) <= MaxMemory + Others
  BY <1>3, <1>4, <1>7
<1> QED
  BY Zenon, <1>5, <1>6, <1>8 DEF Cache!MemoryBounded, Others

InsideSteps == {"fit", "empty", "evictfit", "insert"}

LEMMA CacheSets ==
    ASSUME CacheInv
    PROVE  /\ IsFiniteSet(x1) /\ Cardinality(x1) \in Nat
           /\ IsFiniteSet(Entering) /\ Cardinality(Entering) \in Nat
           /\ Cardinality(Entering) <= Cardinality(Loaders)
           /\ Cardinality(x1) + Cardinality(Entering) <= MaxModels + Cardinality(Loaders) - 1
           /\ x3 + Owed(x4, x5) >= SumOf(x1) /\ x3 \in Nat /\ x1 \subseteq Models
<1>1. x1 \subseteq Models /\ Entering \subseteq Loaders
  BY DEF CacheInv, Cache!TypeOK, Entering
<1>2. x3 + Owed(x4, x5) >= SumOf(x1) /\ x3 \in Nat
  BY CacheCovers DEF CacheInv, Cache!TypeOK
<1> QED
  BY <1>1, <1>2, CacheConstants, FS_Subset, FS_CardinalityType DEF CacheInv

LEMMA EnteringMoves ==
    ASSUME CacheInv, NEW t \in Loaders, NEW to, x4' = [x4 EXCEPT ![t] = to]
    PROVE  /\ IsFiniteSet(Entering') /\ Cardinality(Entering') \in Nat
           /\ Cardinality(Entering') <= Cardinality(Loaders)
           /\ Cardinality(Entering') <= Cardinality(Entering) + 1
           /\ to \notin InsideSteps \/ x4[t] \in InsideSteps
              => Cardinality(Entering') <= Cardinality(Entering)
           /\ to \notin InsideSteps /\ x4[t] \in InsideSteps
              => Cardinality(Entering') = Cardinality(Entering) - 1
<1>1. x4 \in [Loaders -> Cache!Steps]
  BY DEF CacheInv, Cache!TypeOK
<1>2. IsFiniteSet(Entering) /\ Cardinality(Entering) \in Nat
  BY CacheSets
<1>3. t \in Entering <=> x4[t] \in InsideSteps
  BY DEF Entering, InsideSteps
<1>4. Entering' \subseteq Loaders
  BY DEF Entering
<1>5. IsFiniteSet(Entering') /\ Cardinality(Entering') \in Nat /\ Cardinality(Entering') <= Cardinality(Loaders)
  BY <1>4, CacheConstants, FS_Subset, FS_CardinalityType
<1>6. CASE to \in InsideSteps
  <2>1. Entering' = Entering \cup {t}
    BY <1>1, <1>6 DEF Entering, InsideSteps
  <2>2. t \in Entering => Entering' = Entering
    BY <2>1
  <2>3. t \notin Entering => Cardinality(Entering') = Cardinality(Entering) + 1
    BY <1>2, <2>1, FS_AddElement
  <2> QED
    BY <1>2, <1>3, <1>5, <1>6, <2>2, <2>3
<1>7. CASE to \notin InsideSteps
  <2>1. Entering' = Entering \ {t}
    BY <1>1, <1>7 DEF Entering, InsideSteps
  <2>2. t \notin Entering => Entering' = Entering
    BY <2>1
  <2>3. t \in Entering => Cardinality(Entering') = Cardinality(Entering) - 1
    BY <1>2, <2>1, FS_RemoveElement
  <2> QED
    BY <1>2, <1>3, <1>5, <1>7, <2>2, <2>3
<1> QED
  BY <1>6, <1>7

\* What a loader is promised comes out of the counter, or of what the counter
\* leaves.
FairShare(t, to, w, f) ==
    \/ x3' + (IF Passed(to, f) THEN Size[w] ELSE 0)
         <= x3 + (IF Passed(x4[t], x6[t]) THEN Size[x5[t]] ELSE 0)
    \/ /\ ~Passed(x4[t], x6[t])
       /\ x3' + (IF Passed(to, f) THEN Size[w] ELSE 0) <= MaxMemory

\* What the table gains is counted or left to be counted.
StillCovers(t, to, w) ==
    x3' + (IF to = "account" THEN Size[w] ELSE 0) + SumOf(x1)
      >= x3 + (IF x4[t] = "account" THEN Size[x5[t]] ELSE 0) + SumOf(x1')

LEMMA RoomKept ==
    ASSUME NEW a \in Nat, NEW b \in Nat, NEW c \in Nat, NEW d \in Nat,
           NEW p \in Nat, NEW q \in Nat, NEW k \in Nat, NEW h \in Int,
           a + p <= k + h, q + c = p + d,
           b + d <= a + c \/ (b + d <= k /\ p <= h /\ c = 0)
    PROVE  b + q <= k + h
  OBVIOUS

\* One loader goes on.
LEMMA LoaderMoves ==
    ASSUME CacheInv, NEW t \in Loaders, NEW to \in Cache!Steps, NEW w \in Models \cup {None},
           to # "out" => w \in Models,
           x4' = [x4 EXCEPT ![t] = to], x5' = [x5 EXCEPT ![t] = w],
           x1' \subseteq Models, x2' \in [Models -> Nat], x3' \in Nat,
           NEW f \in BOOLEAN, x6' = [x6 EXCEPT ![t] = f], x7' = x7,
           Passed(to, f) => w \in Models,
           FairShare(t, to, w, f), StillCovers(t, to, w),
           Cardinality(x1') + Cardinality(Entering') <= MaxModels + Cardinality(Loaders) - 1
    PROVE  CacheInv'
<1>1. /\ x4 \in [Loaders -> Cache!Steps] /\ x5 \in [Loaders -> Models \cup {None}]
      /\ \A u \in Loaders : x4[u] # "out" => x5[u] \in Models
      /\ x7 \in [Loaders -> SUBSET Models]
  BY DEF CacheInv, Cache!TypeOK
<1>2. Cache!TypeOK'
  <2>1. x6' \in [Loaders -> BOOLEAN]
    BY Zenon DEF CacheInv, Cache!TypeOK
  <2> QED
    BY <1>1, <2>1 DEF Cache!TypeOK
<1>3. \A u \in Loaders : x4'[u] # "out" => x5'[u] \in Models
  BY <1>1
<1>4. Cache!MemoryCovers'
  <2>1. /\ Owed(x4, x5) \in Nat /\ Owed(x4', x5') \in Nat
        /\ Owed(x4', x5') + (IF x4[t] = "account" THEN Size[x5[t]] ELSE 0)
           = Owed(x4, x5) + (IF to = "account" THEN Size[w] ELSE 0)
    BY OwedMoves
  <2>2. x3 + Owed(x4, x5) >= SumOf(x1) /\ x3 \in Nat
    BY CacheSets
  <2>3. SumOf(x1) \in Nat /\ SumOf(x1') \in Nat
    BY SumOfType
  <2>4. /\ (IF x4[t] = "account" THEN Size[x5[t]] ELSE 0) \in Nat
        /\ (IF to = "account" THEN Size[w] ELSE 0) \in Nat
    BY <1>1, CacheConstants
  <2>5. x3' + Owed(x4', x5') >= SumOf(x1')
    <3> DEFINE old == IF x4[t] = "account" THEN Size[x5[t]] ELSE 0
               due == IF to = "account" THEN Size[w] ELSE 0
    <3>1. /\ Owed(x4', x5') + old = Owed(x4, x5) + due
          /\ x3' + due + SumOf(x1) >= x3 + old + SumOf(x1')
          /\ old \in Nat /\ due \in Nat
      BY <2>1, <2>4 DEF StillCovers
    <3> HIDE DEF old, due
    <3> QED
      BY <2>1, <2>2, <2>3, <3>1
  <2> QED
    BY <2>5, CacheCovers
<1>5. x3' + Pledge(x4', x5', x6') <= MaxMemory + Others
  <2> DEFINE old == IF Passed(x4[t], x6[t]) THEN Size[x5[t]] ELSE 0
             new == IF Passed(to, f) THEN Size[w] ELSE 0
             p == Pledge(x4, x5, x6)
             q == Pledge(x4', x5', x6')
  <2>1. /\ p \in Nat /\ q \in Nat /\ q + old = p + new
        /\ ~Passed(x4[t], x6[t]) => p <= Others
    BY Zenon, PledgeMoves
  <2>2. old \in Nat /\ new \in Nat /\ (~Passed(x4[t], x6[t]) => old = 0)
    <3>1. Passed(x4[t], x6[t]) => x5[t] \in Models
      BY <1>1 DEF Passed
    <3>2. \A m \in Models : Size[m] \in Nat
      BY CacheConstants
    <3> QED
      BY <3>1, <3>2
  <2>3. x3 + p <= MaxMemory + Others /\ x3 \in Nat /\ MaxMemory \in Nat /\ Others \in Int
    BY CacheConstants DEF CacheInv, Cache!TypeOK, Others
  <2>4. x3' + new <= x3 + old \/ (~Passed(x4[t], x6[t]) /\ x3' + new <= MaxMemory)
    BY DEF FairShare
  <2>a. \/ x3' + new <= x3 + old
        \/ x3' + new <= MaxMemory /\ p <= Others /\ old = 0
    <3> HIDE DEF old, new, p
    <3> QED
      BY Zenon, <2>1, <2>2, <2>4
  <2>b. old \in Nat /\ new \in Nat /\ p \in Nat /\ q \in Nat /\ x3' \in Nat
        /\ q + old = p + new
    BY Zenon, <2>1, <2>2
  <2>c. q + old = p + new /\ old \in Nat /\ new \in Nat /\ p \in Nat /\ q \in Nat
    BY <2>b
  <2>5. x3' + q <= MaxMemory + Others
    <3> HIDE DEF old, new, p, q
    <3>1. PICK a \in Nat, b \in Nat, k \in Nat, h \in Int :
             a = x3 /\ b = x3' /\ k = MaxMemory /\ h = Others
      BY Zenon, <2>b, <2>3
    <3>2. a + p <= k + h
      BY Zenon, <2>3, <3>1
    <3>4. b + new <= a + old \/ (b + new <= k /\ p <= h /\ old = 0)
      BY Zenon, <2>a, <3>1
    <3>3. b + q <= k + h
      BY <2>c, <3>2, <3>4, RoomKept
    <3> QED
      BY Zenon, <3>1, <3>3
  <2> QED
    BY <2>5
<1> QED
  BY <1>2, <1>3, <1>4, <1>5 DEF CacheInv

\* A model is evicted; the counter loses its size or less.
LEMMA EvictLoses ==
    ASSUME CacheInv, Cache!EvictLRU
    PROVE  /\ x1' \subseteq Models /\ x2' = x2 /\ x3' \in Nat /\ x3' <= x3
           /\ x3' + SumOf(x1) >= x3 + SumOf(x1')
           /\ Cardinality(x1') = Cardinality(x1) - 1
<1>1. PICK m \in x1 : /\ x1' = x1 \ {m} /\ x2' = x2
                      /\ x3' = IF Size[m] > x3 THEN 0 ELSE x3 - Size[m]
  BY DEF Cache!EvictLRU, Cache!Unused
<1>2. x1 \subseteq Models /\ x3 \in Nat /\ IsFiniteSet(x1) /\ Cardinality(x1) \in Nat
  BY CacheSets
<1>3. m \in Models /\ Size[m] \in Nat
  BY <1>1, <1>2, CacheConstants
<1>4. SumOf(x1) = SumOf(x1') + Size[m] /\ SumOf(x1') \in Nat
  BY <1>1, <1>3, SumOfOne
<1>5. Cardinality(x1') = Cardinality(x1) - 1
  BY <1>1, <1>2, FS_RemoveElement
<1>6. x3' \in Nat /\ x3' + Size[m] >= x3 /\ x3' <= x3
  BY <1>1, <1>2, <1>3
<1>7. x3' + SumOf(x1) >= x3 + SumOf(x1')
  <2> DEFINE s == SumOf(x1')
  <2>1. s \in Nat /\ SumOf(x1) = s + Size[m]
    BY <1>4
  <2> HIDE DEF s
  <2>2. x3' + (s + Size[m]) >= x3 + s
    BY <1>2, <1>3, <1>6, <2>1
  <2> QED
    BY <2>1, <2>2 DEF s
<1> QED
  BY <1>1, <1>2, <1>5, <1>6, <1>7

\* A loader goes on without changing the table or the counter.
Looks(t, to, w) ==
    /\ to \in Cache!Steps \ {"account"} /\ w \in Models \cup {None}
    /\ to # "out" => w \in Models
    /\ x4[t] # "account"
    /\ x4' = [x4 EXCEPT ![t] = to] /\ x5' = [x5 EXCEPT ![t] = w]
    /\ UNCHANGED <<x1, x2, x3, x7>>
    /\ to \notin InsideSteps \/ x4[t] \in InsideSteps \/ Cardinality(x1) < MaxModels

\* It keeps what it was promised, or is promised what the counter leaves.
FairlyPromised(t, to, w, f) ==
    \/ ~Passed(to, f)
    \/ Passed(x4[t], x6[t]) /\ w = x5[t]
    \/ ~Passed(x4[t], x6[t]) /\ x3 + Size[w] <= MaxMemory

LEMMA CacheTypes ==
    ASSUME CacheInv, NEW t \in Loaders
    PROVE  /\ x4 \in [Loaders -> Cache!Steps] /\ x5 \in [Loaders -> Models \cup {None}]
           /\ x4[t] # "out" => x5[t] \in Models
           /\ x2 \in [Models -> Nat] /\ x3 \in Nat /\ x6 \in [Loaders -> BOOLEAN]
           /\ x7 \in [Loaders -> SUBSET Models] /\ x1 \subseteq Models
  BY DEF CacheInv, Cache!TypeOK

LEMMA LooksKeeps ==
    ASSUME CacheInv, NEW t \in Loaders, NEW to, NEW w, NEW f \in BOOLEAN,
           Looks(t, to, w), x6' = [x6 EXCEPT ![t] = f], FairlyPromised(t, to, w, f)
    PROVE  CacheInv'
<1> USE DEF Cache!Steps
<1>1. /\ x4 \in [Loaders -> Cache!Steps] /\ x5 \in [Loaders -> Models \cup {None}]
      /\ x4[t] # "out" => x5[t] \in Models
      /\ x2 \in [Models -> Nat] /\ x3 \in Nat /\ x7 \in [Loaders -> SUBSET Models]
      /\ x1 \subseteq Models
  BY CacheTypes
<1>2. /\ Cardinality(x1) \in Nat /\ Cardinality(Entering) \in Nat
      /\ Cardinality(x1) + Cardinality(Entering) <= MaxModels + Cardinality(Loaders) - 1
      /\ SumOf(x1) \in Nat /\ MaxModels \in Nat /\ Cardinality(Loaders) \in Nat
  BY CacheSets, SumOfType, CacheConstants
<1>3. /\ to \in Cache!Steps \ {"account"} /\ w \in Models \cup {None}
      /\ to # "out" => w \in Models
      /\ x4[t] # "account"
      /\ x4' = [x4 EXCEPT ![t] = to] /\ x5' = [x5 EXCEPT ![t] = w]
      /\ UNCHANGED <<x1, x2, x3, x7>>
      /\ to \notin InsideSteps \/ x4[t] \in InsideSteps \/ Cardinality(x1) < MaxModels
  BY DEF Looks
<1>4. Cardinality(x1') + Cardinality(Entering') <= MaxModels + Cardinality(Loaders) - 1
  <2>1. /\ Cardinality(Entering') \in Nat /\ Cardinality(Entering') <= Cardinality(Loaders)
        /\ to \notin InsideSteps \/ x4[t] \in InsideSteps
           => Cardinality(Entering') <= Cardinality(Entering)
    BY <1>3, EnteringMoves
  <2> QED
    BY <1>2, <1>3, <2>1
<1>5. StillCovers(t, to, w)
  BY <1>1, <1>2, <1>3 DEF StillCovers
<1>6. Passed(to, f) => w \in Models
  BY <1>3 DEF Passed
<1>7. FairShare(t, to, w, f)
  <2> USE DEF FairShare
  <2>1. Passed(x4[t], x6[t]) => x5[t] \in Models
    BY <1>1 DEF Passed
  <2>2. (IF Passed(x4[t], x6[t]) THEN Size[x5[t]] ELSE 0) \in Nat
    BY <2>1, CacheConstants
  <2>3. CASE ~Passed(to, f)
    BY <1>1, <1>3, <2>2, <2>3
  <2>4. CASE Passed(to, f) /\ Passed(x4[t], x6[t]) /\ w = x5[t]
    BY <1>1, <1>3, <1>6, <2>4, CacheConstants
  <2>5. CASE Passed(to, f) /\ ~Passed(x4[t], x6[t]) /\ x3 + Size[w] <= MaxMemory
    BY <1>1, <1>3, <2>5
  <2> QED
    BY Zenon, <2>3, <2>4, <2>5 DEF FairlyPromised
<1>8. /\ to \in Cache!Steps /\ (to # "out" => w \in Models) /\ x1' \subseteq Models
      /\ x2' \in [Models -> Nat] /\ x3' \in Nat /\ x7' = x7
  BY <1>1, <1>3
<1>9. x4' = [x4 EXCEPT ![t] = to] /\ x5' = [x5 EXCEPT ![t] = w]
  BY <1>3
<1> QED
  BY Zenon, <1>3, <1>4, <1>5, <1>6, <1>7, <1>8, <1>9, LoaderMoves

\* Steps that only look.
LEMMA CacheLookStep ==
    ASSUME CacheInv, NEW t \in Loaders,
           \/ Cache!Measure(t) \/ Cache!CountModels(t) \/ Cache!Fit(t)
           \/ Cache!NotEmpty(t) \/ Cache!Refuse(t)
           \/ \E m \in Models, prefix \in BOOLEAN : Cache!Load(t, m, prefix)
    PROVE  CacheInv'
<1> USE DEF Cache!Steps
<1>a. x5 \in [Loaders -> Models \cup {None}] /\ (x4[t] # "out" => x5[t] \in Models)
  BY Zenon, CacheTypes
<1>1. /\ x4[t] # "out" => x5[t] \in Models
      /\ x5 = [x5 EXCEPT ![t] = x5[t]] /\ x5[t] \in Models \cup {None}
  BY <1>a
<1>2. Cardinality(x1) \in Nat /\ MaxModels \in Nat
  BY CacheSets, CacheConstants
<1>3. x6[t] \in BOOLEAN
  BY CacheTypes
<1>4. x6' = x6 => x6' = [x6 EXCEPT ![t] = x6[t]]
  BY Zenon, CacheTypes
<1>5. CASE Cache!Measure(t)
  <2>1. /\ x4[t] = "measure" /\ x4' = [x4 EXCEPT ![t] = "count"] /\ UNCHANGED <<x1, x2, x3, x5, x7>>
    BY <1>5 DEF Cache!Measure, Cache!Go, Cache!table
  <2>a. x6' = [x6 EXCEPT ![t] = x3 + Size[x5[t]] <= MaxMemory]
    BY Zenon, <1>5 DEF Cache!Measure
  <2>2. (x3 + Size[x5[t]] <= MaxMemory) \in BOOLEAN
    OBVIOUS
  <2>5. Looks(t, "count", x5[t])
    BY <1>1, <2>1 DEF Looks, InsideSteps
  <2>6. FairlyPromised(t, "count", x5[t], x3 + Size[x5[t]] <= MaxMemory)
    <3>1. ~Passed(x4[t], x6[t])
      BY <2>1 DEF Passed
    <3>2. ~(x3 + Size[x5[t]] <= MaxMemory) => ~Passed("count", x3 + Size[x5[t]] <= MaxMemory)
      BY Zenon DEF Passed
    <3> QED
      BY Zenon, <3>1, <3>2 DEF FairlyPromised
  <2> QED
    BY Zenon, <2>a, <2>2, <2>5, <2>6, LooksKeeps
<1>6. CASE Cache!CountModels(t)
  <2>1. /\ x4[t] = "count" /\ UNCHANGED <<x1, x2, x3, x5, x6, x7>>
        /\ x4' = [x4 EXCEPT ![t] =
                    IF Cache!Cardinality(x1) >= MaxModels THEN "evict" ELSE Cache!Room(t)]
    BY <1>6 DEF Cache!CountModels, Cache!Go, Cache!table
  <2>2. Cache!Cardinality(x1) = Cardinality(x1)
    BY CacheCardinality
  <2>3. PICK to : to = IF Cardinality(x1) >= MaxModels THEN "evict" ELSE Cache!Room(t)
    OBVIOUS
  <2>4. \/ to = "evict"
        \/ to = "fit" /\ Cardinality(x1) < MaxModels
        \/ to = "insert" /\ x6[t] /\ Cardinality(x1) < MaxModels
    <3>1. Cardinality(x1) >= MaxModels \/ Cardinality(x1) < MaxModels
      BY <1>2
    <3>2. Cardinality(x1) < MaxModels => ~(Cardinality(x1) >= MaxModels)
      BY <1>2
    <3> QED
      BY Zenon, <2>3, <3>1, <3>2 DEF Cache!Room
  <2>5. x4' = [x4 EXCEPT ![t] = to]
    BY Zenon, <2>1, <2>2, <2>3
  <2>6. Looks(t, to, x5[t])
    BY <1>1, <2>1, <2>4, <2>5 DEF Looks, InsideSteps
  <2>7. FairlyPromised(t, to, x5[t], x6[t])
    BY <1>3, <2>1, <2>4 DEF Passed, FairlyPromised
  <2> QED
    BY Zenon, <1>3, <1>4, <2>1, <2>6, <2>7, LooksKeeps
<1>7. CASE Cache!Fit(t) \/ Cache!NotEmpty(t)
  <2>1. UNCHANGED <<x1, x2, x3, x5, x6, x7>>
    BY <1>7 DEF Cache!Fit, Cache!NotEmpty, Cache!table
  <2>2. ASSUME NEW to \in {"insert", "empty", "evictfit"}, x4[t] \in {"fit", "empty"},
               x4' = [x4 EXCEPT ![t] = to],
               to = "insert" => x3 + Size[x5[t]] <= MaxMemory
        PROVE  CacheInv'
    <3>1. Looks(t, to, x5[t])
      BY <1>1, <2>1, <2>2 DEF Looks, InsideSteps
    <3>2. /\ to # "insert" => ~Passed(to, x6[t])
          /\ ~Passed(x4[t], x6[t])
      BY <2>2 DEF Passed
    <3>3. FairlyPromised(t, to, x5[t], x6[t])
      BY Zenon, <2>2, <3>2 DEF FairlyPromised
    <3> QED
      BY Zenon, <1>3, <1>4, <2>1, <3>1, <3>3, LooksKeeps
  <2>3. CASE Cache!Fit(t)
    <3>1. x4[t] = "fit" /\ x4' = [x4 EXCEPT ![t] =
              IF x3 + Size[x5[t]] <= MaxMemory THEN "insert" ELSE "empty"]
      BY Zenon, <2>3 DEF Cache!Fit, Cache!Go
    <3>2. CASE x3 + Size[x5[t]] <= MaxMemory
      <4>1. x4' = [x4 EXCEPT ![t] = "insert"]
        BY Zenon, <3>1, <3>2
      <4> QED
        BY Zenon, <2>2, <3>1, <3>2, <4>1
    <3>3. CASE ~(x3 + Size[x5[t]] <= MaxMemory)
      <4>1. x4' = [x4 EXCEPT ![t] = "empty"]
        BY Zenon, <3>1, <3>3
      <4> QED
        BY Zenon, <2>2, <3>1, <4>1
    <3> QED
      BY <3>2, <3>3
  <2>4. CASE Cache!NotEmpty(t)
    <3>1. x4[t] = "empty" /\ x4' = [x4 EXCEPT ![t] = "evictfit"]
      BY Zenon, <2>4 DEF Cache!NotEmpty, Cache!Go
    <3> QED
      BY Zenon, <2>2, <3>1
  <2> QED
    BY <1>7, <2>3, <2>4
<1>8. CASE Cache!Refuse(t)
  <2>1. /\ x4[t] \in {"evict", "evictfit", "empty"} /\ UNCHANGED <<x1, x2, x3, x7>>
        /\ x4' = [x4 EXCEPT ![t] = "out"] /\ x5' = [x5 EXCEPT ![t] = None]
        /\ x6' = [x6 EXCEPT ![t] = FALSE]
    BY <1>8 DEF Cache!Refuse, Cache!Back, Cache!Go, Cache!table
  <2>2. Looks(t, "out", None) /\ FairlyPromised(t, "out", None, FALSE)
    BY <2>1 DEF Looks, InsideSteps, FairlyPromised, Passed
  <2> QED
    BY Zenon, <2>1, <2>2, LooksKeeps
<1>9. ASSUME NEW m \in Models, NEW prefix \in BOOLEAN, Cache!Load(t, m, prefix) PROVE CacheInv'
  <2>1. /\ x4[t] = "out" /\ x4' = [x4 EXCEPT ![t] = "measure"]
        /\ x5' = [x5 EXCEPT ![t] = m] /\ UNCHANGED <<x1, x2, x3, x6, x7>>
    BY <1>9 DEF Cache!Load, Cache!Go, Cache!table
  <2>2. Looks(t, "measure", m) /\ FairlyPromised(t, "measure", m, x6[t])
    BY <2>1 DEF Looks, InsideSteps, FairlyPromised, Passed
  <2> QED
    BY Zenon, <1>3, <1>4, <2>1, <2>2, LooksKeeps
<1> QED
  BY <1>5, <1>6, <1>7, <1>8, <1>9

\* Steps that change the table or the counter.
LEMMA CacheTableStep ==
    ASSUME CacheInv, NEW t \in Loaders,
           Cache!Evict(t) \/ Cache!EvictToFit(t) \/ Cache!Insert(t) \/ Cache!Account(t)
    PROVE  CacheInv'
<1> USE DEF Cache!Steps
<1>1. /\ x4 \in [Loaders -> Cache!Steps] /\ x5 \in [Loaders -> Models \cup {None}]
      /\ x4[t] # "out" => x5[t] \in Models
      /\ x2 \in [Models -> Nat] /\ x3 \in Nat /\ x6 \in [Loaders -> BOOLEAN]
      /\ x7 \in [Loaders -> SUBSET Models] /\ x1 \subseteq Models
      /\ x5 = [x5 EXCEPT ![t] = x5[t]]
  BY DEF CacheInv, Cache!TypeOK
<1>6. x6[t] \in BOOLEAN /\ (x6' = x6 => x6' = [x6 EXCEPT ![t] = x6[t]])
  BY Zenon, <1>1
<1>7. x5[t] \in Models \cup {None}
  BY <1>1
<1>2. /\ IsFiniteSet(x1) /\ Cardinality(x1) \in Nat /\ Cardinality(Entering) \in Nat
      /\ Cardinality(x1) + Cardinality(Entering) <= MaxModels + Cardinality(Loaders) - 1
      /\ SumOf(x1) \in Nat /\ SumOf(x1') \in Nat /\ MaxModels \in Nat /\ Cardinality(Loaders) \in Nat
  BY CacheSets, SumOfType, CacheConstants
<1>3. CASE Cache!Evict(t) \/ Cache!EvictToFit(t)
  <2>1. PICK to \in InsideSteps :
          /\ x4[t] \in {"evict", "evictfit"} /\ x4' = [x4 EXCEPT ![t] = to]
          /\ Cache!EvictLRU /\ UNCHANGED <<x5, x6, x7>>
          /\ Passed(to, x6[t]) => Passed(x4[t], x6[t])
    <3>1. CASE Cache!Evict(t)
      BY <1>6, <3>1 DEF Cache!Evict, Cache!Go, Cache!Room, InsideSteps, Passed
    <3>2. CASE Cache!EvictToFit(t)
      BY <3>2 DEF Cache!EvictToFit, Cache!Go, InsideSteps, Passed
    <3> QED
      BY <1>3, <3>1, <3>2
  <2>2. /\ x1' \subseteq Models /\ x2' = x2 /\ x3' \in Nat /\ x3' <= x3
        /\ x3' + SumOf(x1) >= x3 + SumOf(x1')
        /\ Cardinality(x1') = Cardinality(x1) - 1
    BY <2>1, EvictLoses
  <2>3. Cardinality(Entering') \in Nat /\ Cardinality(Entering') <= Cardinality(Entering) + 1
    BY <2>1, EnteringMoves
  <2>4. Cardinality(x1') + Cardinality(Entering') <= MaxModels + Cardinality(Loaders) - 1
    BY <1>2, <2>2, <2>3
  <2>6. to # "account" /\ to # "out" /\ to \in Cache!Steps /\ x4[t] # "account" /\ x4[t] # "out"
    BY <2>1 DEF InsideSteps
  <2>7. FairShare(t, to, x5[t], x6[t])
    <3>1. x5[t] \in Models /\ Size[x5[t]] \in Nat
      BY <1>1, <2>6, CacheConstants
    <3> QED
      BY <1>1, <2>1, <2>2, <3>1 DEF FairShare
  <2>8. StillCovers(t, to, x5[t])
    BY <1>1, <1>2, <2>2, <2>6 DEF StillCovers
  <2>9. /\ x4' = [x4 EXCEPT ![t] = to] /\ x5' = [x5 EXCEPT ![t] = x5[t]]
        /\ x2' \in [Models -> Nat] /\ x7' = x7 /\ x6' = x6
        /\ x5[t] \in Models
    BY <1>1, <2>1, <2>2, <2>6
  <2> QED
    BY Zenon, <1>6, <1>7, <2>2, <2>4, <2>6, <2>7, <2>8, <2>9, LoaderMoves
<1>4. CASE Cache!Insert(t)
  <2>1. /\ x4[t] = "insert" /\ x4' = [x4 EXCEPT ![t] = "account"] /\ UNCHANGED <<x3, x5, x6, x7>>
        /\ x1' = x1 \cup {x5[t]} /\ x2' = [x2 EXCEPT ![x5[t]] = 0]
    BY <1>4 DEF Cache!Insert, Cache!Go
  <2>2. /\ x5[t] \in Models /\ Size[x5[t]] \in Nat
        /\ SumOf(x1') <= SumOf(x1) + Size[x5[t]]
        /\ x2' \in [Models -> Nat] /\ x1' \subseteq Models
    BY <1>1, <2>1, SumOfOne, CacheConstants
  <2>3. Cardinality(x1') <= Cardinality(x1) + 1 /\ Cardinality(x1') \in Nat
    <3>1. x5[t] \in x1 => x1' = x1
      BY <2>1
    <3>2. x5[t] \notin x1 => Cardinality(x1') = Cardinality(x1) + 1
      BY <1>2, <2>1, FS_AddElement
    <3> QED
      BY <1>2, <3>1, <3>2
  <2>4. Cardinality(Entering') \in Nat /\ Cardinality(Entering') = Cardinality(Entering) - 1
    <3>1. "account" \notin InsideSteps /\ x4[t] \in InsideSteps
      BY <2>1 DEF InsideSteps
    <3> QED
      BY <2>1, <3>1, EnteringMoves
  <2>5. Cardinality(x1') + Cardinality(Entering') <= MaxModels + Cardinality(Loaders) - 1
    BY <1>2, <2>3, <2>4
  <2>6. StillCovers(t, "account", x5[t])
    BY <1>1, <1>2, <2>1, <2>2 DEF StillCovers
  <2>7. Passed(x4[t], x6[t]) /\ Passed("account", x6[t])
    BY <2>1 DEF Passed
  <2>8. FairShare(t, "account", x5[t], x6[t])
    BY <1>1, <2>1, <2>2, <2>7 DEF FairShare
  <2>9. /\ x4' = [x4 EXCEPT ![t] = "account"] /\ x5' = [x5 EXCEPT ![t] = x5[t]]
        /\ x3' \in Nat /\ x7' = x7 /\ x6' = x6 /\ "account" \in Cache!Steps
    BY <1>1, <2>1, <2>2
  <2> QED
    BY Zenon, <1>6, <1>7, <2>2, <2>5, <2>6, <2>8, <2>9, LoaderMoves
<1>5. CASE Cache!Account(t)
  <2>1. /\ x4[t] = "account" /\ x4' = [x4 EXCEPT ![t] = "out"] /\ x5' = [x5 EXCEPT ![t] = None]
        /\ x6' = [x6 EXCEPT ![t] = FALSE] /\ UNCHANGED <<x1, x2, x7>> /\ x3' = x3 + Size[x5[t]]
    BY <1>5 DEF Cache!Account, Cache!Back, Cache!Go, Cache!table
  <2>2. Passed(x4[t], x6[t]) /\ ~Passed("out", FALSE)
    BY <2>1 DEF Passed
  <2>3. Size[x5[t]] \in Nat /\ x3' \in Nat
    BY <1>1, <2>1, CacheConstants
  <2>4. Cardinality(Entering') \in Nat /\ Cardinality(Entering') <= Cardinality(Entering)
    <3>1. "out" \notin InsideSteps
      BY DEF InsideSteps
    <3> QED
      BY <2>1, <3>1, EnteringMoves
  <2>5. Cardinality(x1') + Cardinality(Entering') <= MaxModels + Cardinality(Loaders) - 1
    BY <1>2, <2>1, <2>4
  <2>6. StillCovers(t, "out", None)
    BY <1>1, <1>2, <2>1, <2>3 DEF StillCovers
  <2>7. FairShare(t, "out", None, FALSE)
    BY <1>1, <2>1, <2>2, <2>3 DEF FairShare
  <2>8. /\ "out" \in Cache!Steps /\ None \in Models \cup {None}
        /\ x1' \subseteq Models /\ x2' \in [Models -> Nat] /\ x7' = x7
    BY <1>1, <2>1
  <2> QED
    BY Zenon, <2>1, <2>2, <2>3, <2>5, <2>6, <2>7, <2>8, LoaderMoves
<1> QED
  BY <1>3, <1>4, <1>5

\* Users of models, and the emptying of a table nobody uses.
LEMMA CacheUseStep ==
    ASSUME CacheInv,
           \/ \E t \in Loaders, m \in Models : Cache!Get(t, m) \/ Cache!Release(t, m)
           \/ Cache!Clear
    PROVE  CacheInv'
<1>1. /\ x2 \in [Models -> Nat] /\ x7 \in [Loaders -> SUBSET Models]
  BY DEF CacheInv, Cache!TypeOK
<1>2. UNCHANGED <<x4, x5, x6>> /\ Entering' = Entering
  BY DEF Cache!Get, Cache!Release, Cache!Clear, Cache!loading, Entering
<1>3. ASSUME NEW t \in Loaders, NEW m \in Models, Cache!Get(t, m) \/ Cache!Release(t, m)
      PROVE  CacheInv'
  <2>1. UNCHANGED <<x1, x3>>
    BY <1>3 DEF Cache!Get, Cache!Release
  <2>2. x2' \in [Models -> Nat] /\ x7' \in [Loaders -> SUBSET Models]
    <3>1. CASE Cache!Get(t, m)
      BY <1>1, <3>1 DEF Cache!Get
    <3>2. CASE Cache!Release(t, m)
      BY <1>1, <3>2 DEF Cache!Release
    <3> QED
      BY <1>3, <3>1, <3>2
  <2>3. Cache!TypeOK'
    BY <1>2, <2>1, <2>2 DEF CacheInv, Cache!TypeOK
  <2>4. Cache!MemoryCovers'
    BY <1>2, <2>1, CacheCovers DEF CacheInv
  <2>5. x3' + Pledge(x4', x5', x6') <= MaxMemory + Others
    BY <1>2, <2>1 DEF CacheInv
  <2> QED
    BY <1>2, <2>1, <2>3, <2>4, <2>5 DEF CacheInv, Pledge, Promised
<1>4. CASE Cache!Clear
  <2>1. x1' = {} /\ x3' = 0 /\ UNCHANGED <<x2, x7>>
    BY <1>4 DEF Cache!Clear
  <2>2. Cache!TypeOK'
    BY <1>2, <2>1 DEF CacheInv, Cache!TypeOK
  <2>3. Owed(x4, x5) \in Nat
    <3>1. Due(x4, x5) \in [1 .. Cardinality(Loaders) -> Nat]
      BY CacheConstants DEF Due, CacheInv, Cache!TypeOK
    <3> QED
      BY <3>1, CacheConstants, TotalType DEF Owed
  <2>4. Cache!MemoryCovers'
    BY <1>2, <2>1, <2>3, CacheCovers, SumOfEmpty
  <2>5. Cardinality(x1') + Cardinality(Entering') <= MaxModels + Cardinality(Loaders) - 1
    BY <1>2, <2>1, CacheSets, CacheConstants, FS_EmptySet
  <2>6. x3' + Pledge(x4', x5', x6') <= MaxMemory + Others
    <3>1. /\ x3 + Pledge(x4, x5, x6) <= MaxMemory + Others /\ x3 \in Nat
          /\ MaxMemory \in Nat /\ Others \in Int
      BY CacheConstants DEF CacheInv, Cache!TypeOK, Others
    <3>2. Pledge(x4, x5, x6) \in Nat
      BY PledgeType
    <3> QED
      BY <1>2, <2>1, <3>1, <3>2
  <2> QED
    BY <1>2, <2>2, <2>4, <2>5, <2>6 DEF CacheInv, Pledge, Promised
<1> QED
  BY <1>3, <1>4

LEMMA CacheInit ==
    ASSUME Cache!Init
    PROVE  CacheInv
<1>1. /\ x1 = {} /\ x2 = [m \in Models |-> 0] /\ x3 = 0
      /\ x4 = [t \in Loaders |-> "out"] /\ x5 = [t \in Loaders |-> None]
      /\ x6 = [t \in Loaders |-> FALSE] /\ x7 = [t \in Loaders |-> {}]
  BY DEF Cache!Init
<1>2. Cache!TypeOK
  <2>1. x6 \in [Loaders -> BOOLEAN]
    BY <1>1, Zenon
  <2> QED
    BY <1>1, <2>1 DEF Cache!TypeOK, Cache!Steps
<1>3. Owed(x4, x5) \in Nat
  <2>1. Due(x4, x5) \in [1 .. Cardinality(Loaders) -> Nat]
    BY <1>1, CacheConstants DEF Due
  <2> QED
    BY <2>1, CacheConstants, TotalType DEF Owed
<1>4. Cache!MemoryCovers
  BY <1>1, <1>3, CacheCovers, SumOfEmpty
<1>5. Cardinality(x1) + Cardinality(Entering) <= MaxModels + Cardinality(Loaders) - 1
  <2>1. Entering = {}
    BY <1>1 DEF Entering
  <2>2. Cardinality(x1) = 0 /\ Cardinality(Entering) = 0
    BY <1>1, <2>1, FS_EmptySet
  <2> QED
    BY <2>2, CacheConstants
<1>6. x3 + Pledge(x4, x5, x6) <= MaxMemory + Others
  <2> DEFINE n == Cardinality(Loaders)
             f == Promised(x4, x5, x6)
  <2>1. 1 \in 1 .. n /\ n \in Nat
    BY CacheConstants
  <2>2. f = [t \in 1 .. n |-> 0]
    BY <1>1, CacheConstants DEF Promised, Passed
  <2>3. /\ f \in [1 .. n -> Nat] /\ f[1] = 0 /\ Largest \in Nat
        /\ \A i \in 1 .. n : f[i] <= Largest
    BY <2>1, <2>2, CacheConstants
  <2> HIDE DEF n, f
  <2>4. Total(f, n) <= (n - 1) * Largest /\ Total(f, n) \in Nat
    BY <2>1, <2>3, TotalBelow, TotalType
  <2>5. Pledge(x4, x5, x6) <= Others /\ Pledge(x4, x5, x6) \in Nat
    BY <2>4 DEF n, f, Pledge, Others
  <2>6. MaxMemory \in Nat /\ Others \in Int /\ x3 = 0
    BY <1>1, CacheConstants DEF Others
  <2> QED
    BY <2>5, <2>6
<1> QED
  BY <1>1, <1>2, <1>4, <1>5, <1>6 DEF CacheInv

LEMMA CacheStep ==
    ASSUME CacheInv, Cache!Next
    PROVE  CacheInv'
BY CacheLookStep, CacheTableStep, CacheUseStep
   DEF Cache!Next, Cache!Step, Cache!Call

-------------------------------------------------------------------------------
(* The choice of a back end                                                *)

LEMMA EngineConstants ==
    /\ None \notin Models /\ None \notin Engine!Requests /\ None \notin Engine!Sources
    /\ None \notin {"waiting", "writing"}
    /\ Models \subseteq Names /\ Norm \in [Names -> Names]
    /\ Begins \subseteq Names \X Names /\ \A n \in Names : <<n, n>> \in Begins
BY InferenceAssumption DEF Engine!BackendsAssumption

\* An answer as RightModel wants it.
SoundAnswer(a) ==
    /\ a \in Engine!Answers
    /\ a.by = "gguf" => a.name \in {"same", "begun"} /\ (a.exact => a.name = "same")
    /\ a.by = "ollama" => a.name # "other"

\* Back end b may answer the request with m.
Answering(b, m) ==
    /\ b \in Engine!Sources
    /\ b = "gguf" => Fitting(m)
    /\ b = "ollama" => Engine!Alike(m, x8.model)

LEMMA NoAnswerIsSound == SoundAnswer(Engine!NoAnswer)
<1>1. PICK a : a = Engine!NoAnswer
  BY Zenon
<1>2. a.by = None /\ a \in Engine!Answers
  <2>1. FALSE \in BOOLEAN
    OBVIOUS
  <2> QED
    BY <1>1, <2>1 DEF Engine!NoAnswer, Engine!Answers
<1>3. None # "gguf" /\ None # "ollama"
  BY EngineConstants DEF Engine!Sources
<1> QED
  BY Zenon, <1>1, <1>2, <1>3 DEF SoundAnswer

LEMMA ReturnIsSound ==
    ASSUME NEW b, NEW m, Answering(b, m), Engine!Return(b, m)
    PROVE  \E a : SoundAnswer(a) /\ Engine!End(a)
<1>1. PICK e \in BOOLEAN : e <=> x8.model \in x4 /\ ~x12
  OBVIOUS
<1>2. e = (x8.model \in x4 /\ ~x12)
  BY Zenon, <1>1
<1>3. PICK n : n = IF m = x8.model THEN "same"
                   ELSE IF <<x8.model, m>> \in Begins THEN "begun"
                   ELSE IF Engine!Alike(m, x8.model) THEN "alike" ELSE "other"
  BY Zenon
<1>4. PICK a : a = [by |-> b, name |-> n, exact |-> e]
  OBVIOUS
<1>5. Engine!End(a)
  BY Zenon, <1>2, <1>3, <1>4 DEF Engine!Return
<1>6. n \in {"same", "begun", "alike", "other"} /\ b \in Engine!Sources
  BY <1>3 DEF Answering
<1>7. a \in Engine!Answers /\ a.by = b /\ a.name = n /\ a.exact = e
  BY <1>4, <1>6 DEF Engine!Answers
<1>8. b = "gguf" => n \in {"same", "begun"} /\ (e => n = "same")
  BY <1>1, <1>3 DEF Answering, Fitting
<1>9. b = "ollama" => n # "other"
  BY <1>3 DEF Answering
<1>10. SoundAnswer(a)
  BY Zenon, <1>7, <1>8, <1>9 DEF SoundAnswer
<1> QED
  BY <1>5, <1>10

\* What Ollama is asked for is like the name of the request.
LEMMA ResolvedIsAlike ==
    ASSUME NEW n \in Names, NEW listed \in SUBSET Names, NEW m \in Engine!Resolved(n, listed)
    PROVE  Engine!Alike(m, n)
<1>1. Norm[n] \in Names /\ <<Norm[n], Norm[n]>> \in Begins
  BY EngineConstants
<1>2. PICK norm : norm = [l \in Names |-> Norm[n]]
  OBVIOUS
<1>3. \A l \in Names : norm[l] = Norm[n]
  BY <1>2
<1>4. \/ m \in listed /\ Norm[m] = Norm[n]
      \/ m \in listed /\ <<norm[m], Norm[m]>> \in Begins
      \/ m \in listed /\ <<Norm[m], norm[m]>> \in Begins
      \/ m = n
  BY <1>2 DEF Engine!Resolved
<1> QED
  BY Zenon, <1>1, <1>3, <1>4 DEF Engine!Alike

\* The request is over.
LEMMA EngineReturns ==
    ASSUME EngineInv, x7 # "out", NEW a, SoundAnswer(a),
           Engine!End(a), UNCHANGED <<x1, x2, x3, x4, x5>>, x6' \subseteq Engine!Sources
    PROVE  EngineInv'
<1>1. /\ x7' = "out" /\ x9' = {} /\ x10' = FALSE /\ x8' = None
      /\ x11' = FALSE /\ x12' = FALSE /\ x13' = a
  BY DEF Engine!End
<1>2. x10' \in BOOLEAN /\ x11' \in BOOLEAN /\ x12' \in BOOLEAN
  BY <1>1, Zenon
<1>3. Engine!TypeOK'
  BY <1>1, <1>2 DEF EngineInv, Engine!TypeOK, SoundAnswer
<1>4. Engine!RightModel'
  BY Zenon, <1>1 DEF Engine!RightModel, SoundAnswer
<1>5. Engine!LightStaysLight'
  BY <1>1 DEF Engine!LightStaysLight
<1> QED
  BY <1>1, <1>3, <1>4, <1>5 DEF EngineInv

\* It goes on, with what it was told.
LEMMA EngineGoesOn ==
    ASSUME EngineInv, UNCHANGED <<x1, x2, x3, x4, x8, x11, x12, x13>>,
           x5' \in Models \cup {None}, x6' \subseteq Engine!Sources,
           x7 \notin {"out", "route"}, x7' \in Engine!Sources \cup {"try", "generate"},
           x9' \subseteq Engine!Sources, x10' \in BOOLEAN,
           x7' = "try" => x1, x7' = "generate" => Fitting(x5'),
           x7' \in {"gguf", "generate"} => x7 = "gguf" \/ Engine!RunsLocal
    PROVE  EngineInv'
<1>1. Engine!TypeOK'
  BY DEF EngineInv, Engine!TypeOK
<1>2. Engine!RightModel'
  BY DEF EngineInv, Engine!RightModel
<1>3. x11 => x12 \/ ~Engine!RunsLocal
  BY DEF EngineInv
<1>4. Engine!RunsLocal' <=> Engine!RunsLocal
  BY DEF Engine!RunsLocal, Engine!Local, Engine!Found
<1>5. Engine!LightStaysLight'
  BY <1>3 DEF EngineInv, Engine!LightStaysLight
<1>6. x7' # "out" => x8' # None
  BY DEF EngineInv
<1>7. x7' = "generate" => Fitting(x5)'
  BY DEF Fitting
<1> QED
  BY <1>1, <1>2, <1>3, <1>4, <1>5, <1>6, <1>7 DEF EngineInv

LEMMA EngineOnward ==
    ASSUME EngineInv, x7 \notin {"out", "route"}, x1, Engine!Onward,
           UNCHANGED <<x1, x2, x3, x4, x5>>, x6' \subseteq Engine!Sources
    PROVE  EngineInv'
<1> DEFINE rest == x9 \ {Engine!Foremost(x9)}
<1>1. CASE rest = {}
  <2>1. Engine!End(Engine!NoAnswer)
    BY <1>1 DEF Engine!Onward
  <2> QED
    BY <2>1, NoAnswerIsSound, EngineReturns
<1>2. CASE rest # {}
  <2>1. /\ x7' = "try" /\ x9' = rest /\ x10' = FALSE
        /\ UNCHANGED <<x8, x11, x12, x13>>
    BY <1>2 DEF Engine!Onward
  <2>2. x10' \in BOOLEAN
    BY <2>1, Zenon
  <2>3. x9' \subseteq Engine!Sources /\ x5' \in Models \cup {None}
    BY <2>1 DEF EngineInv, Engine!TypeOK
  <2> QED
    BY <2>1, <2>2, <2>3, EngineGoesOn
<1> QED
  BY <1>1, <1>2

LEMMA EngineEnds ==
    ASSUME EngineInv, x7 \notin {"out", "route"}, NEW b \in Engine!Sources, NEW m,
           (Answering(b, m) /\ Engine!Succeed(b, m)) \/ Engine!Fail(b),
           UNCHANGED <<x1, x2, x3, x4, x5>>
    PROVE  EngineInv'
<1>1. x6' \subseteq Engine!Sources
  BY DEF EngineInv, Engine!TypeOK, Engine!Succeed, Engine!Fail
<1>2. CASE Answering(b, m) /\ Engine!Succeed(b, m)
  <2>1. PICK a : SoundAnswer(a) /\ Engine!End(a)
    BY <1>2, ReturnIsSound DEF Engine!Succeed
  <2> QED
    BY <1>1, <2>1, EngineReturns
<1>3. CASE Engine!Fail(b)
  <2>1. (x1 /\ Engine!Onward) \/ Engine!End(Engine!NoAnswer)
    BY <1>3 DEF Engine!Fail
  <2> QED
    BY <1>1, <2>1, NoAnswerIsSound, EngineOnward, EngineReturns
<1> QED
  BY <1>2, <1>3

LEMMA EngineServe ==
    ASSUME EngineInv, Engine!Serve
    PROVE  EngineInv'
<1>1. /\ x1 \in BOOLEAN /\ x2 \in Engine!Settings /\ x5 \in Models \cup {None}
      /\ x6 \subseteq Engine!Sources /\ x8 \in Engine!Requests \cup {None}
      /\ x9 \subseteq Engine!Sources /\ x10 \in BOOLEAN
  BY DEF EngineInv, Engine!TypeOK
<1>2. x7 # "out" => x8.model \in Names
  BY <1>1 DEF EngineInv, Engine!Requests
<1>3. {"gguf", "ollama", "remote"} = Engine!Sources
  BY DEF Engine!Sources
<1>4. CASE Engine!Route
  <2>1. /\ x7 = "route" /\ x7' = "begin" /\ x11' = (~Engine!RunsLocal) /\ x12' = FALSE
        /\ UNCHANGED <<x1, x2, x3, x4, x5, x6, x8, x9, x10, x13>>
    BY <1>4 DEF Engine!Route, Engine!settings
  <2>2. x11' \in BOOLEAN /\ x12' \in BOOLEAN
    BY <2>1, Zenon
  <2>3. Engine!TypeOK'
    BY <2>1, <2>2 DEF EngineInv, Engine!TypeOK
  <2>4. Engine!RunsLocal' <=> Engine!RunsLocal
    BY <2>1 DEF Engine!RunsLocal, Engine!Local, Engine!Found
  <2>5. Engine!RightModel' /\ Engine!LightStaysLight'
    BY <2>1 DEF EngineInv, Engine!RightModel, Engine!LightStaysLight
  <2>6. x11' => ~Engine!RunsLocal'
    BY <2>1, <2>4
  <2> QED
    BY <2>1, <2>3, <2>5, <2>6 DEF EngineInv
<1>5. CASE Engine!Begin
  <2>1. /\ x7 = "begin" /\ ~x1 /\ UNCHANGED <<x1, x2, x3, x4, x5, x6>>
    BY <1>5 DEF Engine!Begin, Engine!settings
  <2>2. CASE Engine!Chosen = None
    <3>1. Engine!End(Engine!NoAnswer)
      BY <1>5, <2>2 DEF Engine!Begin
    <3> QED
      BY <1>1, <2>1, <3>1, NoAnswerIsSound, EngineReturns
  <2>3. CASE Engine!Chosen # None
    <3>1. /\ x7' = Engine!Chosen /\ x10' = (~x8.stream \/ Engine!Chosen = "remote")
          /\ UNCHANGED <<x8, x9, x11, x12, x13>>
      BY <1>5, <2>3 DEF Engine!Begin
    <3>2. x10' \in BOOLEAN
      BY <3>1, Zenon
    <3>3. Engine!Chosen \in Engine!Sources
      BY <1>3, <2>3 DEF Engine!Chosen
    <3>4. Engine!Chosen = "gguf" => Engine!RunsLocal
      BY <2>1, <2>3 DEF Engine!Chosen, Engine!RunsLocal
    <3>5. x7' # "generate" /\ x7' # "try"
      BY <3>1, <3>3, <1>3
    <3> QED
      BY <1>1, <2>1, <3>1, <3>2, <3>3, <3>4, <3>5, EngineGoesOn
  <2> QED
    BY <2>2, <2>3
<1>6. CASE Engine!BeginChain
  <2>1. /\ x7 = "begin" /\ x1 /\ UNCHANGED <<x1, x2, x3, x4, x5, x6>>
        /\ \/ Engine!End(Engine!NoAnswer)
           \/ /\ x7' = "try" /\ x9' = Engine!Sources \ x6
              /\ UNCHANGED <<x8, x10, x11, x12, x13>>
    BY <1>6 DEF Engine!BeginChain, Engine!settings
  <2>2. x6' \subseteq Engine!Sources /\ x5' \in Models \cup {None}
    BY <1>1, <2>1
  <2>3. CASE Engine!End(Engine!NoAnswer)
    BY <2>1, <2>2, <2>3, NoAnswerIsSound, EngineReturns
  <2>4. CASE /\ x7' = "try" /\ x9' = Engine!Sources \ x6
             /\ UNCHANGED <<x8, x10, x11, x12, x13>>
    <3>1. x9' \subseteq Engine!Sources /\ x10' \in BOOLEAN
      BY <1>1, <2>4
    <3> QED
      BY <2>1, <2>2, <2>4, <3>1, EngineGoesOn
  <2> QED
    BY <2>1, <2>3, <2>4
<1>7. CASE Engine!Try
  <2>1. x7 = "try" /\ x1 /\ UNCHANGED <<x1, x2, x3, x4, x5, x6>>
    BY <1>7 DEF EngineInv, Engine!Try, Engine!settings
  <2>2. x6' \subseteq Engine!Sources /\ x5' \in Models \cup {None}
    BY <1>1, <2>1
  <2>3. CASE Engine!SwitchedOn(Engine!Foremost(x9))
    <3> DEFINE b == Engine!Foremost(x9)
    <3>1. x7' = b /\ x10' = TRUE /\ UNCHANGED <<x8, x9, x11, x12, x13>>
      BY <1>7, <2>3 DEF Engine!Try
    <3>2. b \in Engine!Sources /\ b # "generate" /\ b # "try"
      BY <1>3 DEF Engine!Foremost
    <3>4. b = "gguf" => Engine!RunsLocal
      BY <2>1, <2>3 DEF Engine!SwitchedOn, Engine!RunsLocal, Engine!Local
    <3>3. x10' \in BOOLEAN
      BY <3>1, Zenon
    <3> QED
      BY <1>1, <2>1, <2>2, <3>1, <3>2, <3>3, <3>4, EngineGoesOn
  <2>4. CASE ~Engine!SwitchedOn(Engine!Foremost(x9))
    <3>1. Engine!Onward
      BY <1>7, <2>4 DEF Engine!Try
    <3> QED
      BY <2>1, <2>2, <3>1, EngineOnward
  <2> QED
    BY <2>3, <2>4
<1>8. CASE Engine!Load
  <2>1. /\ x7 = "gguf" /\ x7' = "generate"
        /\ UNCHANGED <<x1, x2, x3, x4, x6, x8, x9, x10, x11, x12, x13>>
    BY <1>8 DEF Engine!Load, Engine!settings
  <2>2. PICK m \in Engine!Found(x8.model) : x5' = m
    BY <1>8 DEF Engine!Load
  <2>3. m \in x4 /\ x4 \subseteq Models /\ x8.model \in Names
    BY <1>2, <2>1, <2>2 DEF Engine!Found, EngineInv, Engine!TypeOK
  <2>4. Fitting(m)
    BY <2>2, <2>3, EngineConstants DEF Engine!Found, Fitting
  <2> QED
    BY <1>1, <2>1, <2>2, <2>3, <2>4, EngineGoesOn
<1>9. CASE Engine!LoadFails
  <2>1. x7 = "gguf" /\ Engine!Fail("gguf") /\ UNCHANGED <<x1, x2, x3, x4, x5>>
    BY <1>9 DEF Engine!LoadFails, Engine!settings
  <2> QED
    BY <1>3, <2>1, EngineEnds
<1>10. CASE Engine!Generate
  <2>1. /\ x7 = "generate" /\ UNCHANGED <<x1, x2, x3, x4, x5>>
        /\ Engine!Succeed("gguf", x5) \/ Engine!Fail("gguf")
    BY <1>10 DEF Engine!Generate, Engine!settings
  <2>2. Answering("gguf", x5)
    BY <1>3, <2>1 DEF EngineInv, Answering
  <2> QED
    BY <1>3, <2>1, <2>2, EngineEnds
<1>11. ASSUME NEW b \in Engine!Sources, Engine!Reply(b) PROVE EngineInv'
  <2>1. /\ x7 = b /\ b # "gguf" /\ UNCHANGED <<x1, x2, x3, x4, x5>>
        /\ \/ b = "ollama" /\ \E listed \in SUBSET Names :
                \E m \in Engine!Resolved(x8.model, listed) : Engine!Succeed(b, m)
           \/ b = "remote" /\ \E m \in Names : Engine!Succeed(b, m)
           \/ Engine!Fail(b)
    BY <1>11 DEF Engine!Reply, Engine!settings
  <2>2. x8.model \in Names
    BY <1>2, <1>3, <2>1
  <2>3. ASSUME NEW m, Answering(b, m), Engine!Succeed(b, m) PROVE EngineInv'
    BY <1>3, <2>1, <2>3, EngineEnds
  <2>4. CASE b = "ollama" /\ \E listed \in SUBSET Names :
               \E m \in Engine!Resolved(x8.model, listed) : Engine!Succeed(b, m)
    BY <2>1, <2>2, <2>3, <2>4, ResolvedIsAlike DEF Answering
  <2>5. CASE b = "remote" /\ \E m \in Names : Engine!Succeed(b, m)
    BY <2>1, <2>3, <2>5 DEF Answering
  <2>6. CASE Engine!Fail(b)
    BY <1>3, <2>1, <2>6, EngineEnds
  <2> QED
    BY <2>1, <2>4, <2>5, <2>6
<1> QED
  BY <1>3, <1>4, <1>5, <1>6, <1>7, <1>8, <1>9, <1>10, <1>11 DEF Engine!Serve

\* Settings and registry change, which a request that was routed is told.
LEMMA EngineChanges ==
    ASSUME EngineInv, Engine!PutWrites \/ Engine!Scan
    PROVE  EngineInv'
<1>1. /\ UNCHANGED <<x1, x5, x6, x7, x8, x9, x10, x11, x13>>
      /\ x12' = (x7 \notin {"out", "route"})
      /\ x2' \in Engine!Settings /\ x3' \in {None, "waiting", "writing"} /\ x4' \subseteq Models
  <2>1. x2 \in Engine!Settings /\ x3 \in {None, "waiting", "writing"} /\ x4 \subseteq Models
    BY DEF EngineInv, Engine!TypeOK
  <2>2. CASE Engine!PutWrites
    BY <2>1, <2>2 DEF Engine!PutWrites, Engine!run
  <2>3. CASE Engine!Scan
    BY <2>1, <2>3 DEF Engine!Scan, Engine!run, Engine!settings
  <2> QED
    BY <2>2, <2>3
<1>2. x12' \in BOOLEAN
  BY <1>1, Zenon
<1>3. Engine!TypeOK'
  BY <1>1, <1>2 DEF EngineInv, Engine!TypeOK
<1>4. x7 \notin {"out", "route"} => x12'
  BY <1>1
<1>5. Engine!RightModel' /\ Engine!LightStaysLight'
  BY <1>1, <1>4 DEF EngineInv, Engine!RightModel, Engine!LightStaysLight
<1>6. x7' = "generate" => Fitting(x5)'
  <2>1. x7' = "generate" => x12' /\ Fitting(x5)
    BY <1>1, <1>4 DEF EngineInv
  <2> QED
    BY <1>1, <2>1 DEF Fitting
<1> QED
  BY <1>1, <1>3, <1>4, <1>5, <1>6 DEF EngineInv

LEMMA EngineStep ==
    ASSUME EngineInv, Engine!Next
    PROVE  EngineInv'
<1>1. ASSUME NEW r \in Engine!Requests, Engine!Ask(r) PROVE EngineInv'
  <2>1. /\ x7 = "out" /\ x7' = "route" /\ x8' = r /\ x13' = Engine!NoAnswer
        /\ UNCHANGED <<x1, x2, x3, x4, x5, x6, x9, x10, x11, x12>>
    BY <1>1 DEF Engine!Ask, Engine!settings
  <2>2. Engine!TypeOK'
    BY <1>1, <2>1, NoAnswerIsSound DEF EngineInv, Engine!TypeOK, SoundAnswer
  <2>4. Engine!RightModel'
    BY Zenon, <2>1, NoAnswerIsSound DEF Engine!RightModel, SoundAnswer
  <2>3. Engine!RightModel' /\ Engine!LightStaysLight' /\ r # None
    BY <2>1, <2>4, EngineConstants DEF Engine!LightStaysLight
  <2> QED
    BY <2>1, <2>2, <2>3 DEF EngineInv
<1>2. CASE \/ Engine!PutWaits \/ Engine!PutSaves
           \/ \E b \in Engine!Sources : Engine!CoolDownEnds(b)
  <2>1. UNCHANGED <<x1, x2, x4, x5, x7, x8, x9, x10, x11, x12, x13>>
    BY <1>2 DEF Engine!PutWaits, Engine!PutSaves, Engine!CoolDownEnds, Engine!run, Engine!settings
  <2>2. x3' \in {None, "waiting", "writing"} /\ x6' \subseteq Engine!Sources
    BY <1>2 DEF EngineInv, Engine!TypeOK, Engine!PutWaits, Engine!PutSaves, Engine!CoolDownEnds,
                Engine!settings
  <2>3. Engine!TypeOK'
    BY <2>1, <2>2 DEF EngineInv, Engine!TypeOK
  <2>4. Engine!RunsLocal' <=> Engine!RunsLocal
    BY <2>1 DEF Engine!RunsLocal, Engine!Local, Engine!Found
  <2>5. Engine!RightModel' /\ Engine!LightStaysLight'
    BY <2>1 DEF EngineInv, Engine!RightModel, Engine!LightStaysLight
  <2>6. Fitting(x5)' <=> Fitting(x5)
    BY <2>1 DEF Fitting
  <2> QED
    BY <2>1, <2>3, <2>4, <2>5, <2>6 DEF EngineInv
<1> QED
  BY <1>1, <1>2, EngineServe, EngineChanges DEF Engine!Next

LEMMA OutIsNotRunning == "out" \notin {"gguf", "generate"}
OBVIOUS

LEMMA EngineInit ==
    ASSUME Engine!Init
    PROVE  EngineInv
<1>1. /\ x1 \in BOOLEAN /\ x2 \in Engine!Settings /\ x3 = None /\ x4 \in SUBSET Models
      /\ x5 = None /\ x6 = {} /\ x7 = "out" /\ x8 = None /\ x9 = {} /\ x10 = FALSE
      /\ x11 = FALSE /\ x12 = FALSE /\ x13 = Engine!NoAnswer
  BY DEF Engine!Init
<1>2. x10 \in BOOLEAN /\ x11 \in BOOLEAN /\ x12 \in BOOLEAN
  BY <1>1, Zenon
<1>3. Engine!TypeOK
  BY <1>1, <1>2, NoAnswerIsSound DEF Engine!TypeOK, SoundAnswer
<1>4. Engine!RightModel /\ Engine!LightStaysLight
  BY Zenon, <1>1, NoAnswerIsSound, OutIsNotRunning
     DEF Engine!RightModel, Engine!LightStaysLight, SoundAnswer
<1> QED
  BY <1>1, <1>3, <1>4 DEF EngineInv

-------------------------------------------------------------------------------
(* The download from peers                                                 *)

LEMMA DownloadConstants ==
    /\ \A d, e \in Drivers : d = e
    /\ None \notin Versions /\ None \notin Download!Files /\ None \notin Download!Downloads
    /\ \A v \in Versions : Download!Whole(v) \in Download!Files /\ Download!Whole(v) # None
    /\ Download!Holes \in Download!Files
    /\ \A v \in Versions : /\ Download!New(v) \in Download!Downloads
                           /\ Download!New(v).got = {} /\ Download!New(v).version = v
    /\ \A w \in Download!Downloads : w.version \in Versions /\ w.got \subseteq Chunks
<1>1. /\ \A d, e \in Drivers : d = e
      /\ None \notin Versions /\ None \notin Download!Files /\ None \notin Download!Downloads
  BY InferenceAssumption DEF Download!DownloadAssumption
<1>2. \A v \in Versions : Download!Whole(v) \in Download!Files
  BY DEF Download!Whole, Download!Files
<1>3. Download!Holes \in Download!Files
  BY DEF Download!Holes, Download!Files
<1>4. \A v \in Versions : /\ Download!New(v) \in Download!Downloads
                          /\ Download!New(v).got = {} /\ Download!New(v).version = v
  BY DEF Download!New, Download!Downloads
<1>5. \A w \in Download!Downloads : w.version \in Versions /\ w.got \subseteq Chunks
  BY DEF Download!Downloads
<1> QED
  BY <1>1, <1>2, <1>3, <1>4, <1>5

DownloadTypes ==
    /\ x1 \in Download!Downloads \cup {None}
    /\ x2 \in Download!Files \cup {None} /\ x3 \in Download!Files \cup {None}
    /\ x4 \in Versions \cup {None}
    /\ x5 \in [Drivers -> Download!Steps] /\ x6 \in [Drivers -> Download!Downloads \cup {None}]

LEMMA DownloadFacts ==
    ASSUME DownloadInv, NEW d \in Drivers
    PROVE  /\ DownloadTypes /\ DriverInv(d)
           /\ x4 # None => x3 = Download!Whole(x4)
           /\ x1 # None /\ x2 # None => \A c \in x1.got : x2[c] = x1.version
           /\ x3 # None => x1 = None
BY DEF DownloadInv, DownloadTypes, Download!TypeOK, Download!OfferedIsWhole, Download!MarksAreWritten

\* What is to be shown of a step of the only driver.
LEMMA DriverMoves ==
    ASSUME DownloadInv, NEW d \in Drivers, NEW to \in Download!Steps,
           NEW w \in Download!Downloads \cup {None},
           x5' = [x5 EXCEPT ![d] = to], x6' = [x6 EXCEPT ![d] = w],
           x1' \in Download!Downloads \cup {None}, x2' \in Download!Files \cup {None},
           x3' \in Download!Files \cup {None}, x4' \in Versions \cup {None},
           to # "out" => w # None,
           to \in {"asked", "create", "insert"} => w.got = {},
           to \in {"create", "insert", "read", "rename", "publish"} => x1' = None,
           to = "rename" => x2' = Download!Whole(w.version),
           to = "publish" => x3' = Download!Whole(w.version),
           x3' # None => to \in {"out", "publish"},
           (x3' # None /\ to = "out") => x4' # None,
           x3' # None => x1' = None,
           x4' # None => x3' = Download!Whole(x4'),
           x1' # None /\ x2' # None => \A c \in x1'.got : x2'[c] = x1'.version
    PROVE  DownloadInv'
<1>1. DownloadTypes
  BY DownloadFacts
<1>2. \A e \in Drivers : e = d
  BY DownloadConstants
<1>3. /\ x5' \in [Drivers -> Download!Steps] /\ x6' \in [Drivers -> Download!Downloads \cup {None}]
      /\ x5'[d] = to /\ x6'[d] = w
  BY <1>1 DEF DownloadTypes
<1>4. Download!TypeOK'
  BY <1>3 DEF Download!TypeOK
<1>5. Download!OfferedIsWhole'
  BY DEF Download!OfferedIsWhole, Download!Whole
<1>6. Download!MarksAreWritten'
  BY DEF Download!MarksAreWritten
<1>7. DriverInv(d)'
  BY <1>3 DEF DriverInv, Download!Whole
<1>8. \A e \in Drivers : DriverInv(e)'
  BY <1>2, <1>7
<1> QED
  BY <1>4, <1>5, <1>6, <1>8 DEF DownloadInv

LEMMA DriverStep ==
    ASSUME DownloadInv, NEW d \in Drivers, Download!Drive(d)
    PROVE  DownloadInv'
<1> USE DEF Download!Steps
<1>1. /\ DownloadTypes /\ DriverInv(d)
      /\ x4 # None => x3 = Download!Whole(x4)
      /\ x1 # None /\ x2 # None => \A c \in x1.got : x2[c] = x1.version
      /\ x3 # None => x1 = None
  BY DownloadFacts
<1>2. /\ x1 \in Download!Downloads \cup {None}
      /\ x2 \in Download!Files \cup {None} /\ x3 \in Download!Files \cup {None}
      /\ x4 \in Versions \cup {None}
      /\ x6[d] \in Download!Downloads \cup {None}
      /\ x5 \in [Drivers -> Download!Steps]
      /\ x5 = [x5 EXCEPT ![d] = x5[d]] /\ x6 = [x6 EXCEPT ![d] = x6[d]]
  BY <1>1 DEF DownloadTypes
<1>3. /\ x5[d] # "out" => x6[d] # None
      /\ x5[d] \in {"asked", "create", "insert"} => x6[d].got = {}
      /\ x5[d] \in {"create", "insert", "read", "rename", "publish"} => x1 = None
      /\ x5[d] = "rename" => x2 = Download!Whole(x6[d].version)
      /\ x5[d] = "publish" => x3 = Download!Whole(x6[d].version)
      /\ x3 # None => x5[d] \in {"out", "publish"}
      /\ (x3 # None /\ x5[d] = "out") => x4 # None
  BY <1>1 DEF DriverInv
<1>4. ASSUME NEW v \in Versions, Download!AskAvailable(d, v) PROVE DownloadInv'
  <2>1. /\ x5[d] = "out" /\ UNCHANGED <<x1, x2, x3, x4>>
        /\ x5' = [x5 EXCEPT ![d] = IF x4 = None THEN "asked" ELSE "out"]
        /\ x6' = [x6 EXCEPT ![d] = IF x4 = None THEN Download!New(v) ELSE x6[d]]
    BY <1>2, <1>4 DEF Download!AskAvailable, Download!Go, Download!files
  <2>2. CASE x4 = None
    <3>1. /\ x5' = [x5 EXCEPT ![d] = "asked"] /\ x6' = [x6 EXCEPT ![d] = Download!New(v)]
          /\ Download!New(v) \in Download!Downloads /\ Download!New(v) # None /\ Download!New(v).got = {}
      BY <2>1, <2>2, DownloadConstants
    <3>2. x3 = None
      BY <1>3, <2>1, <2>2
    <3> QED
      BY <1>1, <1>2, <2>1, <2>2, <3>1, <3>2, DriverMoves
  <2>3. CASE x4 # None
    <3>1. x5' = [x5 EXCEPT ![d] = "out"] /\ x6' = [x6 EXCEPT ![d] = x6[d]]
      BY <2>1, <2>3
    <3> QED
      BY <1>1, <1>2, <2>1, <2>3, <3>1, DriverMoves
  <2> QED
    BY <2>2, <2>3
<1>5. CASE Download!AskPending(d)
  <2>1. /\ x5[d] = "asked" /\ UNCHANGED <<x1, x2, x3, x4, x6>> /\ x3 = None
    BY <1>3, <1>5 DEF Download!AskPending, Download!Go, Download!files
  <2>2. PICK to \in {"create", "out"} :
          x5' = [x5 EXCEPT ![d] = to] /\ (to = "create" => x1 = None)
    BY <1>5 DEF Download!AskPending, Download!Go
  <2>3. x6' = [x6 EXCEPT ![d] = x6[d]] /\ to \in Download!Steps /\ x6[d].got = {} /\ x6[d] # None
    BY <1>2, <1>3, <2>1
  <2>4. x1' # None /\ x2' # None => \A c \in x1'.got : x2'[c] = x1'.version
    BY <1>1, <2>1
  <2>5. to # "rename" /\ to # "publish" /\ x3' = None /\ (x4' # None => x3' = Download!Whole(x4'))
    BY <1>1, <2>1
  <2> QED
    BY <1>2, <2>1, <2>2, <2>3, <2>4, <2>5, DriverMoves
<1>6. CASE Download!Create(d)
  <2>1. /\ x5[d] = "create" /\ UNCHANGED <<x1, x3, x4, x6>> /\ x1 = None /\ x3 = None
    BY <1>3, <1>6 DEF Download!Create, Download!Go
  <2>2. PICK to \in {"insert", "out"} : x5' = [x5 EXCEPT ![d] = to]
    BY <1>6 DEF Download!Create, Download!Go
  <2>3. x2' \in Download!Files \cup {None}
    BY <1>2, <1>6, DownloadConstants DEF Download!Create
  <2> QED
    BY <1>1, <1>2, <1>3, <2>1, <2>2, <2>3, DriverMoves
<1>7. CASE Download!InsertPending(d)
  <2>1. /\ x5[d] = "insert" /\ UNCHANGED <<x2, x3, x4, x6>> /\ x3 = None
        /\ x1' = x6[d] /\ x6[d].got = {} /\ x5' = [x5 EXCEPT ![d] = "out"]
    BY <1>3, <1>7 DEF Download!InsertPending, Download!Go, Download!files
  <2> QED
    BY <1>1, <1>2, <1>3, <2>1, DriverMoves
<1>8. CASE Download!Remove(d)
  <2>1. /\ x1 # None /\ x1' = None /\ UNCHANGED <<x2, x3, x4>> /\ x5[d] = "out"
        /\ x5' = [x5 EXCEPT ![d] = IF Download!Complete THEN "read" ELSE "out"]
        /\ x6' = [x6 EXCEPT ![d] = IF Download!Complete THEN x1 ELSE x6[d]]
    BY <1>2, <1>8 DEF Download!Remove, Download!Go, Download!files
  <2>2. x3 = None
    BY <1>1, <2>1
  <2>3. CASE Download!Complete
    <3>1. x5' = [x5 EXCEPT ![d] = "read"] /\ x6' = [x6 EXCEPT ![d] = x1]
      BY <2>1, <2>3
    <3> QED
      BY <1>1, <1>2, <2>1, <2>2, <3>1, DriverMoves
  <2>4. CASE ~Download!Complete
    <3>1. x5' = [x5 EXCEPT ![d] = "out"] /\ x6' = [x6 EXCEPT ![d] = x6[d]]
      BY <2>1, <2>4
    <3> QED
      BY <1>1, <1>2, <2>1, <2>2, <3>1, DriverMoves
  <2> QED
    BY <2>3, <2>4
<1>9. CASE Download!Verify(d)
  <2>1. /\ x5[d] = "read" /\ UNCHANGED <<x1, x3, x4, x6>> /\ x1 = None /\ x3 = None
        /\ x2' \in {None, x2}
    BY <1>3, <1>9 DEF Download!Verify, Download!Go
  <2>2. PICK to \in {"rename", "out"} :
          x5' = [x5 EXCEPT ![d] = to] /\ (to = "rename" => x2' = Download!Whole(x6[d].version))
    BY <1>9 DEF Download!Verify, Download!Go
  <2>3. x6' = [x6 EXCEPT ![d] = x6[d]] /\ to \in Download!Steps /\ x6[d] # None
    BY <1>2, <1>3, <2>1
  <2>4. to \notin {"asked", "create", "insert", "publish"} /\ x1' = None /\ x3' = None
    BY <2>1
  <2>5. (x4' # None => x3' = Download!Whole(x4')) /\ x2' \in Download!Files \cup {None}
    BY <1>1, <1>2, <2>1
  <2> QED
    BY <1>2, <2>1, <2>2, <2>3, <2>4, <2>5, DriverMoves
<1>10. CASE Download!Rename(d)
  <2>1. /\ x5[d] = "rename" /\ UNCHANGED <<x1, x4, x6>> /\ x1 = None /\ x3 = None
        /\ x2 = Download!Whole(x6[d].version)
    BY <1>3, <1>10 DEF Download!Rename, Download!Go
  <2>2. x4 = None
    BY <1>1, <1>2, <2>1, DownloadConstants
  <2>3. CASE x2 # None /\ x5' = [x5 EXCEPT ![d] = "publish"] /\ x3' = x2 /\ x2' = None
    BY <1>1, <1>2, <1>3, <2>1, <2>2, <2>3, DriverMoves
  <2>4. CASE x5' = [x5 EXCEPT ![d] = "out"] /\ x3' = x3 /\ x2' = x2
    BY <1>1, <1>2, <1>3, <2>1, <2>2, <2>4, DriverMoves
  <2> QED
    BY <1>10, <2>3, <2>4 DEF Download!Rename, Download!Go, Download!files
<1>11. CASE Download!Publish(d)
  <2>1. /\ x5[d] = "publish" /\ UNCHANGED <<x1, x2, x3, x6>> /\ x1 = None
        /\ x3 = Download!Whole(x6[d].version)
        /\ x4' = x6[d].version /\ x5' = [x5 EXCEPT ![d] = "out"]
    BY <1>3, <1>11 DEF Download!Publish, Download!Go, Download!files
  <2>2. x6[d].version \in Versions /\ x6[d].version # None
    BY <1>2, <1>3, <2>1, DownloadConstants
  <2> QED
    BY <1>1, <1>2, <1>3, <2>1, <2>2, DriverMoves
<1> QED
  BY <1>4, <1>5, <1>6, <1>7, <1>8, <1>9, <1>10, <1>11 DEF Download!Drive

\* The driver stays where it is.
LEMMA OtherDownloadStep ==
    ASSUME DownloadInv,
           \/ \E c \in Chunks, v \in Versions : Download!WriteChunk(c, v)
           \/ Download!Cancel \/ Download!Scan
    PROVE  DownloadInv'
<1>1. /\ DownloadTypes /\ \A d \in Drivers : DriverInv(d)
      /\ x4 # None => x3 = Download!Whole(x4)
      /\ x1 # None /\ x2 # None => \A c \in x1.got : x2[c] = x1.version
      /\ x3 # None => x1 = None
  BY DEF DownloadInv, DownloadTypes, Download!TypeOK, Download!OfferedIsWhole,
         Download!MarksAreWritten
<1>2. x5' = x5 /\ x6' = x6
  BY DEF Download!WriteChunk, Download!Cancel, Download!Scan, Download!drivers
<1>3. ASSUME NEW c \in Chunks, NEW v \in Versions, Download!WriteChunk(c, v) PROVE DownloadInv'
  <2>1. /\ x1 # None /\ x2 # None /\ v = x1.version /\ UNCHANGED <<x3, x4>> /\ x3 = None
    BY <1>1, <1>3 DEF Download!WriteChunk
  <2>2. x1 \in Download!Downloads /\ x2 \in Download!Files /\ x1.got \subseteq Chunks
    BY <1>1, <2>1, DownloadConstants DEF DownloadTypes
  <2>3. /\ [x2 EXCEPT ![c] = v] \in Download!Files /\ [x2 EXCEPT ![c] = v][c] = v
        /\ \A b \in Chunks : b # c => [x2 EXCEPT ![c] = v][b] = x2[b]
    BY <2>2 DEF Download!Files
  <2>4. /\ x1' \in Download!Downloads /\ x2' \in Download!Files
        /\ \A b \in x1'.got : x2'[b] = x1'.version
    <3>1. CASE /\ x2' = [x2 EXCEPT ![c] = v]
               /\ x1' = [x1 EXCEPT !.got = @ \cup {c}]
      <4>1. /\ x1' \in Download!Downloads /\ x1'.version = x1.version /\ x1'.got = x1.got \cup {c}
        BY <2>2, <3>1 DEF Download!Downloads
      <4> QED
        BY <1>1, <2>1, <2>2, <2>3, <3>1, <4>1
    <3>2. CASE x2' \in {x2, [x2 EXCEPT ![c] = v]} /\ x1' = x1
      BY <1>1, <2>1, <2>2, <2>3, <3>2
    <3> QED
      BY <1>3, <3>1, <3>2 DEF Download!WriteChunk
  <2>5. x1' # None
    BY <2>4, DownloadConstants
  <2>6. \A d \in Drivers : x5[d] \notin {"create", "insert", "read", "rename", "publish"}
    BY <1>1, <2>1 DEF DriverInv
  <2>7. \A d \in Drivers : DriverInv(d)'
    BY <1>1, <1>2, <2>1, <2>6 DEF DriverInv
  <2>8. Download!TypeOK'
    BY <1>1, <1>2, <2>1, <2>4 DEF DownloadTypes, Download!TypeOK
  <2>9. Download!OfferedIsWhole' /\ Download!MarksAreWritten'
    BY <1>1, <2>1, <2>4 DEF Download!OfferedIsWhole, Download!MarksAreWritten, Download!Whole
  <2> QED
    BY <2>1, <2>7, <2>8, <2>9 DEF DownloadInv
<1>4. CASE Download!Cancel
  <2>1. x1 # None /\ x1' = None /\ x2' \in {None, x2} /\ UNCHANGED <<x3, x4>>
    BY <1>4 DEF Download!Cancel
  <2>2. \A d \in Drivers : DriverInv(d)'
    BY <1>1, <1>2, <2>1 DEF DriverInv
  <2>3. Download!TypeOK'
    BY <1>1, <1>2, <2>1 DEF DownloadTypes, Download!TypeOK
  <2>4. Download!OfferedIsWhole' /\ Download!MarksAreWritten'
    BY <1>1, <2>1 DEF Download!OfferedIsWhole, Download!MarksAreWritten, Download!Whole
  <2> QED
    BY <2>1, <2>2, <2>3, <2>4 DEF DownloadInv
<1>5. CASE Download!Scan
  <2>1. x4' \in Versions /\ x3 = Download!Whole(x4') /\ UNCHANGED <<x1, x2, x3>>
    BY <1>5 DEF Download!Scan, Download!files
  <2>2. x4' # None
    BY <2>1, DownloadConstants
  <2>3. \A d \in Drivers : DriverInv(d)'
    BY <1>1, <1>2, <2>1, <2>2 DEF DriverInv, Download!Whole
  <2>4. Download!TypeOK'
    BY <1>1, <1>2, <2>1 DEF DownloadTypes, Download!TypeOK
  <2>5. Download!OfferedIsWhole' /\ Download!MarksAreWritten'
    BY <1>1, <2>1 DEF Download!OfferedIsWhole, Download!MarksAreWritten, Download!Whole
  <2> QED
    BY <1>1, <2>1, <2>3, <2>4, <2>5 DEF DownloadInv
<1> QED
  BY <1>3, <1>4, <1>5

LEMMA DownloadStep ==
    ASSUME DownloadInv, Download!Next
    PROVE  DownloadInv'
BY DriverStep, OtherDownloadStep DEF Download!Next

LEMMA DownloadInit ==
    ASSUME Download!Init
    PROVE  DownloadInv
<1>1. /\ x1 = None /\ x2 = None
      /\ x5 = [d \in Drivers |-> "out"] /\ x6 = [d \in Drivers |-> None]
  BY DEF Download!Init
<1>2. PICK v \in Versions : \/ x3 = None /\ x4 = None
                            \/ x3 = Download!Whole(v) /\ x4 = v
  BY DEF Download!Init
<1>3. x3 # None => x4 # None
  BY <1>2, DownloadConstants
<1>4. Download!TypeOK
  BY <1>1, <1>2, DownloadConstants DEF Download!TypeOK, Download!Steps
<1>5. Download!OfferedIsWhole /\ Download!MarksAreWritten
  BY <1>1, <1>2 DEF Download!OfferedIsWhole, Download!MarksAreWritten
<1>6. \A d \in Drivers : DriverInv(d)
  BY <1>1, <1>3 DEF DriverInv
<1> QED
  BY <1>1, <1>4, <1>5, <1>6 DEF DownloadInv

-------------------------------------------------------------------------------
(* The directory of models                                                 *)

LEMMA ShelfConstants ==
    /\ Web \subseteq Fetches /\ None \notin Versions /\ None \notin Fetches
    /\ Length \in Nat \ {0}
BY InferenceAssumption DEF Shelf!ShelfAssumption

LEMMA Pairs == \A d, e : {d, e} = {e, d}
OBVIOUS

\* Nobody has a file yet that the download d would create.
LEMMA NoFileOfAsked ==
    ASSUME ShelfInv, NEW d \in Fetches, x6[d] = None
    PROVE  /\ \A e \in Fetches : x6[e] # d
           /\ \A n \in Models : x1[n] # d
<1>1. \A e \in Fetches : x6[e] # None => x6[x6[e]] = x6[e]
  BY DEF ShelfInv, FetchInv
<1>2. \A n \in Models : x1[n] # None => x6[x1[n]] = x1[n]
  BY DEF ShelfInv, FetchesMeet
<1> QED
  BY <1>1, <1>2, ShelfConstants

LEMMA ShelfAsk ==
    ASSUME ShelfInv, NEW d \in Fetches, NEW n \in Models, NEW v \in Versions, Shelf!Ask(d, n, v)
    PROVE  ShelfInv'
<1>1. /\ x3[d] = "new" /\ UNCHANGED <<x1, x2, x6, x7, x8, x10>>
      /\ x4' = [x4 EXCEPT ![d] = n] /\ x5' = [x5 EXCEPT ![d] = v]
      /\ x9' = x9 \cup {{d, e} : e \in Shelf!UnderWay}
  BY DEF Shelf!Ask, Shelf!Go
<1>2. PICK to \in {"asked", "refused"} :
        x3' = [x3 EXCEPT ![d] = to] /\ (to = "asked" => x1[n] = None)
  BY DEF Shelf!Ask, Shelf!Go
<1>3. ShelfTypes /\ (\A e \in Fetches : FetchInv(e)) /\ FetchesMeet /\ WrittenAlone
  BY DEF ShelfInv
<1>4. ShelfTypes'
  BY <1>1, <1>2, <1>3 DEF ShelfTypes
<1>5. /\ x3'[d] = to /\ x4'[d] = n /\ x5'[d] = v
      /\ \A e \in Fetches : e # d => x3'[e] = x3[e] /\ x4'[e] = x4[e] /\ x5'[e] = x5[e]
  BY <1>1, <1>2, <1>3 DEF ShelfTypes
<1>6. \A e \in Fetches : FetchInv(e)'
  BY <1>1, <1>2, <1>3, <1>5 DEF FetchInv
<1>7. \A e \in Shelf!UnderWay' : e = d \/ e \in Shelf!UnderWay
  BY <1>5 DEF Shelf!UnderWay
<1>8. FetchesMeet'
  <2>1. \A m \in Models : x1'[m] # None => x6'[x1'[m]] = x1'[m]
    BY <1>1, <1>3 DEF FetchesMeet
  <2>2. \A e, f \in Shelf!UnderWay' : e # f => {e, f} \in x9'
    <3> SUFFICES ASSUME NEW e \in Shelf!UnderWay', NEW f \in Shelf!UnderWay', e # f
                 PROVE  {e, f} \in x9'
      OBVIOUS
    <3>1. CASE e = d
      BY <1>1, <1>7, <3>1
    <3>2. CASE f = d
      <4>1. {f, e} \in x9'
        BY <1>1, <1>7, <3>2
      <4> QED
        BY <4>1, Pairs
    <3>3. CASE e # d /\ f # d
      BY <1>1, <1>3, <1>7, <3>3 DEF FetchesMeet
    <3> QED
      BY <3>1, <3>2, <3>3
  <2>3. \A e, f \in Fetches :
          (x3'[e] = "asked" /\ x6'[f] # None /\ x6'[f] = x1'[x4'[e]]) => {e, f} \in x9'
    <3> SUFFICES ASSUME NEW e \in Fetches, NEW f \in Fetches,
                        x3'[e] = "asked", x6'[f] # None, x6'[f] = x1'[x4'[e]]
                 PROVE  {e, f} \in x9'
      OBVIOUS
    <3>1. e # d
      BY <1>1, <1>2, <1>5
    <3>2. {e, f} \in x9
      BY <1>1, <1>3, <1>5, <3>1 DEF FetchesMeet
    <3> QED
      BY <1>1, <3>2
  <2>4. Shelf!WritersMet'
    BY <1>1, <1>3 DEF FetchesMeet, Shelf!WritersMet
  <2> QED
    BY <2>1, <2>2, <2>3, <2>4 DEF FetchesMeet
<1>9. \A e \in Fetches : Shelf!Alone(e)' => Shelf!Alone(e)
  BY <1>1 DEF Shelf!Alone
<1>10. WrittenAlone'
  <2> SUFFICES ASSUME NEW e \in Fetches, x3'[e] \in {"open", "scan", "ok"}, Shelf!Alone(e)'
               PROVE  /\ x2'[x6'[e]] = [i \in 1 .. x7'[e] |-> x5'[e]]
                      /\ x6'[e] \in x10' \/ x1'[x4'[e]] = x6'[e]
    BY DEF WrittenAlone
  <2>1. e # d
    BY <1>2, <1>5
  <2> QED
    BY <1>1, <1>3, <1>5, <1>9, <2>1 DEF WrittenAlone
<1>11. Shelf!SuccessIsRegistered'
  <2> SUFFICES ASSUME NEW e \in Web, x3'[e] = "ok", Shelf!Alone(e)'
               PROVE  x6'[e] \in x10' \/ x8'[x4'[e]] = Length
    BY DEF Shelf!SuccessIsRegistered
  <2>1. e \in Fetches /\ e # d
    BY <1>2, <1>5, ShelfConstants
  <2> QED
    BY <1>1, <1>5, <1>9, <2>1 DEF ShelfInv, Shelf!SuccessIsRegistered
<1> QED
  BY <1>4, <1>6, <1>8, <1>10, <1>11 DEF ShelfInv

LEMMA ShelfCreate ==
    ASSUME ShelfInv, NEW d \in Fetches, Shelf!Create(d)
    PROVE  ShelfInv'
<1> DEFINE f == IF x1[x4[d]] = None THEN d ELSE x1[x4[d]]
<1>1. /\ x3[d] = "asked" /\ UNCHANGED <<x4, x5, x7, x8, x9, x10>>
      /\ x3' = [x3 EXCEPT ![d] = "open"] /\ x6' = [x6 EXCEPT ![d] = f]
      /\ x2' = [x2 EXCEPT ![f] = <<>>] /\ x1' = [x1 EXCEPT ![x4[d]] = f]
  BY DEF Shelf!Create, Shelf!Go
<1>2. ShelfTypes /\ (\A e \in Fetches : FetchInv(e)) /\ FetchesMeet /\ WrittenAlone
  BY DEF ShelfInv
<1>3. x4[d] \in Models /\ x6[d] = None /\ x7[d] = 0 /\ f \in Fetches /\ f # None
  BY <1>1, <1>2, ShelfConstants DEF FetchInv, ShelfTypes
<1>4. /\ \A e \in Fetches : x6[e] # d
      /\ \A n \in Models : x1[n] # d
  BY <1>3, NoFileOfAsked
<1>5. /\ x3'[d] = "open" /\ x6'[d] = f /\ x1'[x4[d]] = f /\ x2'[f] = <<>>
      /\ \A e \in Fetches : e # d => x3'[e] = x3[e] /\ x6'[e] = x6[e]
      /\ \A n \in Models : n # x4[d] => x1'[n] = x1[n]
      /\ \A g \in Fetches : g # f => x2'[g] = x2[g]
  BY <1>1, <1>2, <1>3 DEF ShelfTypes
<1>6. f # d => f = x1[x4[d]] /\ x6[f] = f
  <2>1. x4[d] \in Models
    BY <1>3
  <2>2. x1[x4[d]] # None => x6[x1[x4[d]]] = x1[x4[d]]
    BY <1>2, <2>1, Zenon DEF FetchesMeet
  <2> QED
    BY <2>2
<1>7. x6'[f] = f
  BY <1>3, <1>5, <1>6
\* Who has the file has met d.
<1>8. ASSUME NEW e \in Fetches, e # d, x6[e] = f PROVE {d, e} \in x9
  <2>1. f # d /\ x6[e] = x1[x4[d]] /\ x6[e] # None
    BY <1>3, <1>4, <1>6, <1>8
  <2> QED
    BY <1>1, <1>2, <2>1 DEF FetchesMeet
<1> HIDE DEF f
<1>9. ShelfTypes'
  <2>1. x2' = [g \in Fetches |-> x2'[g]]
    BY <1>1, <1>2, <1>3 DEF ShelfTypes
  <2> QED
    BY <1>1, <1>2, <1>3, <2>1 DEF ShelfTypes
<1>10. \A e \in Fetches : FetchInv(e)'
  <2> SUFFICES ASSUME NEW e \in Fetches PROVE FetchInv(e)'
    OBVIOUS
  <2>1. CASE e = d
    BY <1>1, <1>2, <1>3, <1>5, <1>7, <2>1 DEF FetchInv
  <2>2. CASE e # d
    <3>1. x6[e] # None => x6[e] \in Fetches /\ x6'[x6[e]] = x6[x6[e]]
      BY <1>2, <1>4, <1>5 DEF ShelfTypes
    <3> QED
      BY <1>1, <1>2, <1>5, <2>2, <3>1 DEF FetchInv
  <2> QED
    BY <2>1, <2>2
<1>11. Shelf!UnderWay' = Shelf!UnderWay
  BY <1>1, <1>5 DEF Shelf!UnderWay
<1>12. FetchesMeet'
  <2>1. ASSUME NEW n \in Models, x1'[n] # None PROVE x6'[x1'[n]] = x1'[n]
    <3>1. CASE n = x4[d]
      BY <1>5, <1>7, <3>1
    <3>2. CASE n # x4[d]
      <4>1. x1'[n] = x1[n] /\ x1[n] \in Fetches /\ x1[n] # d /\ x6[x1[n]] = x1[n]
        BY <1>2, <1>4, <1>5, <2>1, <3>2 DEF FetchesMeet, ShelfTypes
      <4> QED
        BY <1>5, <4>1
    <3> QED
      BY <3>1, <3>2
  <2>2. \A e, g \in Shelf!UnderWay' : e # g => {e, g} \in x9'
    BY <1>1, <1>2, <1>11 DEF FetchesMeet
  <2>3. ASSUME NEW e \in Fetches, NEW g \in Fetches,
               x3'[e] = "asked", x6'[g] # None, x6'[g] = x1'[x4'[e]]
        PROVE  {e, g} \in x9'
    <3>1. e # d /\ x3[e] = "asked" /\ x4'[e] = x4[e] /\ x4[e] \in Models
      BY <1>1, <1>2, <1>5, <2>3 DEF FetchInv
    <3>2. CASE g = d
      BY <1>1, <1>2, <3>1, <3>2 DEF FetchesMeet, Shelf!UnderWay
    <3>3. CASE g # d
      <4>1. x6[g] # None /\ x6[g] = x1'[x4[e]]
        BY <1>5, <2>3, <3>1, <3>3
      <4>2. x1'[x4[e]] = x1[x4[e]]
        <5>1. CASE x4[e] = x4[d]
          <6>1. x6[g] = f
            BY <1>5, <4>1, <5>1
          <6>2. f # d
            BY <1>4, <6>1
          <6> QED
            BY <1>5, <1>6, <5>1, <6>2
        <5>2. CASE x4[e] # x4[d]
          BY <1>5, <3>1, <5>2
        <5> QED
          BY <5>1, <5>2
      <4> QED
        BY <1>1, <1>2, <3>1, <4>1, <4>2 DEF FetchesMeet
    <3> QED
      BY <3>2, <3>3
  <2>4. Shelf!WritersMet'
    <3> SUFFICES ASSUME NEW e \in Fetches, NEW g \in Fetches, e # g, x6'[e] # None, x6'[e] = x6'[g]
                 PROVE  {e, g} \in x9'
      BY DEF Shelf!WritersMet
    <3>1. CASE e = d
      BY <1>1, <1>5, <1>8, <3>1
    <3>2. CASE g = d
      <4>1. {g, e} \in x9'
        BY <1>1, <1>5, <1>8, <3>2
      <4> QED
        BY <4>1, Pairs
    <3>3. CASE e # d /\ g # d
      BY <1>1, <1>2, <1>5, <3>3 DEF FetchesMeet, Shelf!WritersMet
    <3> QED
      BY <3>1, <3>2, <3>3
  <2> QED
    BY <2>1, <2>2, <2>3, <2>4 DEF FetchesMeet
<1>13. WrittenAlone'
  <2> SUFFICES ASSUME NEW e \in Fetches, x3'[e] \in {"open", "scan", "ok"}, Shelf!Alone(e)'
               PROVE  /\ x2'[x6'[e]] = [i \in 1 .. x7'[e] |-> x5'[e]]
                      /\ x6'[e] \in x10' \/ x1'[x4'[e]] = x6'[e]
    BY DEF WrittenAlone
  <2>1. CASE e = d
    <3>1. [i \in 1 .. 0 |-> x5[d]] = <<>>
      OBVIOUS
    <3> QED
      BY <1>1, <1>3, <1>5, <2>1, <3>1
  <2>2. CASE e # d
    <3>1. Shelf!Alone(e) /\ {e, d} \notin x9 /\ {d, e} \notin x9
      BY <1>1, <2>2, Pairs DEF Shelf!Alone
    <3>2. /\ x6'[e] = x6[e] /\ x6[e] # f /\ x6[e] \in Fetches /\ x4[e] \in Models
          /\ x3[e] \in {"open", "scan", "ok"}
      BY <1>2, <1>5, <1>8, <2>2, <3>1 DEF FetchInv, ShelfTypes
    <3>3. /\ x2[x6[e]] = [i \in 1 .. x7[e] |-> x5[e]]
          /\ x6[e] \in x10 \/ x1[x4[e]] = x6[e]
      BY <1>2, <3>1, <3>2 DEF WrittenAlone
    <3>4. x1[x4[e]] = x6[e] => x1'[x4[e]] = x6[e]
      <4>1. ASSUME x1[x4[e]] = x6[e], x4[e] = x4[d] PROVE FALSE
        <5>1. x1[x4[d]] # None
          BY <3>2, <4>1, ShelfConstants
        <5>2. f = x6[e]
          BY <4>1, <5>1 DEF f
        <5> QED
          BY <3>2, <5>2
      <4> QED
        BY <1>5, <3>2, <4>1
    <3> QED
      BY <1>1, <1>5, <3>2, <3>3, <3>4
  <2> QED
    BY <2>1, <2>2
<1>14. Shelf!SuccessIsRegistered'
  <2> SUFFICES ASSUME NEW e \in Web, x3'[e] = "ok", Shelf!Alone(e)'
               PROVE  x6'[e] \in x10' \/ x8'[x4'[e]] = Length
    BY DEF Shelf!SuccessIsRegistered
  <2>1. e \in Fetches /\ e # d /\ Shelf!Alone(e) /\ x3[e] = "ok"
    BY <1>1, <1>5, ShelfConstants DEF Shelf!Alone
  <2> QED
    BY <1>1, <1>5, <2>1 DEF ShelfInv, Shelf!SuccessIsRegistered
<1> QED
  BY <1>9, <1>10, <1>12, <1>13, <1>14 DEF ShelfInv

\* A piece goes where the file ends, if nobody else has written.
LEMMA WriteAtEnd ==
    ASSUME NEW n \in Nat, NEW v
    PROVE  Shelf!WriteAt([i \in 1 .. n |-> v], n + 1, v) = [i \in 1 .. n + 1 |-> v]
<1> DEFINE s == [i \in 1 .. n |-> v]
<1>1. Len(s) = n
  <2>1. s \in Seq({v})
    OBVIOUS
  <2>2. DOMAIN s = 1 .. n
    OBVIOUS
  <2> QED
    BY <2>1, <2>2, LenProperties
<1>2. \A j \in 1 .. n : s[j] = v
  OBVIOUS
<1> HIDE DEF s
<1>3. n + 1 > Len(s)
  BY <1>1
<1>4. Shelf!WriteAt(s, n + 1, v)
      = [j \in 1 .. n + 1 |-> IF j = n + 1 THEN v ELSE IF j <= n THEN s[j] ELSE None]
  BY <1>1, <1>3 DEF Shelf!WriteAt
<1>5. \A j \in 1 .. n + 1 : j # n + 1 => j <= n /\ j \in 1 .. n
  OBVIOUS
<1>6. Shelf!WriteAt(s, n + 1, v) = [j \in 1 .. n + 1 |-> v]
  BY <1>2, <1>4, <1>5
<1> QED
  BY <1>6 DEF s

LEMMA ShelfPiece ==
    ASSUME ShelfInv, NEW d \in Fetches, Shelf!Piece(d)
    PROVE  ShelfInv'
<1>1. /\ x3[d] = "open" /\ x7[d] < Length /\ UNCHANGED <<x1, x3, x4, x5, x6, x8, x9, x10>>
      /\ x7' = [x7 EXCEPT ![d] = x7[d] + 1]
      /\ x2' = [x2 EXCEPT ![x6[d]] = Shelf!WriteAt(x2[x6[d]], x7[d] + 1, x5[d])]
  BY DEF Shelf!Piece
<1>2. ShelfTypes /\ (\A e \in Fetches : FetchInv(e)) /\ FetchesMeet /\ WrittenAlone
  BY DEF ShelfInv
<1>3. /\ x6[d] \in Fetches /\ x7[d] \in 0 .. Length
  BY <1>1, <1>2 DEF FetchInv, ShelfTypes
<1>4. /\ x2'[x6[d]] = Shelf!WriteAt(x2[x6[d]], x7[d] + 1, x5[d])
      /\ x7'[d] = x7[d] + 1 /\ x7[d] + 1 \in 0 .. Length
      /\ \A e \in Fetches : e # d => x7'[e] = x7[e]
      /\ \A f \in Fetches : f # x6[d] => x2'[f] = x2[f]
  BY <1>1, <1>2, <1>3, ShelfConstants DEF ShelfTypes
<1>5. ShelfTypes'
  <2>1. x2' = [g \in Fetches |-> x2'[g]]
    BY <1>1, <1>2, <1>3 DEF ShelfTypes
  <2> QED
    BY <1>1, <1>2, <1>4, <2>1 DEF ShelfTypes
<1>6. \A e \in Fetches : FetchInv(e)'
  BY <1>1, <1>2, <1>4 DEF FetchInv
<1>7. FetchesMeet'
  BY <1>1, <1>2 DEF FetchesMeet, Shelf!UnderWay, Shelf!WritersMet
<1>8. WrittenAlone'
  <2> SUFFICES ASSUME NEW e \in Fetches, x3[e] \in {"open", "scan", "ok"}, Shelf!Alone(e)
               PROVE  /\ x2'[x6[e]] = [i \in 1 .. x7'[e] |-> x5[e]]
                      /\ x6[e] \in x10 \/ x1[x4[e]] = x6[e]
    BY <1>1 DEF WrittenAlone, Shelf!Alone
  <2>1. /\ x2[x6[e]] = [i \in 1 .. x7[e] |-> x5[e]]
        /\ x6[e] \in x10 \/ x1[x4[e]] = x6[e]
    BY <1>2 DEF WrittenAlone
  <2>2. CASE e = d
    <3>1. x7[d] \in Nat
      BY <1>3, ShelfConstants
    <3>2. Shelf!WriteAt([i \in 1 .. x7[d] |-> x5[d]], x7[d] + 1, x5[d])
          = [i \in 1 .. x7[d] + 1 |-> x5[d]]
      BY <3>1, WriteAtEnd, Zenon
    <3>3. x2'[x6[d]] = [i \in 1 .. x7'[d] |-> x5[d]]
      BY <1>4, <2>1, <2>2, <3>2, Zenon
    <3> QED
      BY <2>1, <2>2, <3>3
  <2>3. CASE e # d
    <3>1. x6[e] \in Fetches /\ {e, d} \notin x9 /\ x6[e] # None
      BY <1>2, <2>3 DEF Shelf!Alone, ShelfTypes, FetchInv
    <3>2. x6[e] # x6[d]
      BY <1>2, <2>3, <3>1 DEF FetchesMeet, Shelf!WritersMet
    <3> QED
      BY <1>4, <2>1, <2>3, <3>1, <3>2
  <2> QED
    BY <2>2, <2>3
<1>9. Shelf!SuccessIsRegistered'
  BY <1>1 DEF ShelfInv, Shelf!SuccessIsRegistered, Shelf!Alone
<1> QED
  BY <1>5, <1>6, <1>7, <1>8, <1>9 DEF ShelfInv

\* Downloads end, or have everything; no file is touched.
LEMMA ShelfEnds ==
    ASSUME ShelfInv, UNCHANGED <<x1, x2, x4, x5, x6, x7, x9, x10>>,
           x3' \in [Fetches -> {"new", "asked", "refused", "open", "scan", "ok", "failed"}],
           \A d \in Fetches :
             \/ x3'[d] = x3[d]
             \/ x3[d] \in {"asked", "open", "scan"} /\ x3'[d] = "failed"
             \/ x3[d] = "open" /\ x3'[d] \in {"scan", "ok"} /\ x7[d] = Length
             \/ x3[d] = "scan" /\ x3'[d] = "ok",
           \A d \in Web :
             x3'[d] = "ok" /\ Shelf!Alone(d) => x6[d] \in x10 \/ x8'[x4[d]] = Length
    PROVE  ShelfInv'
<1>1. ShelfTypes /\ (\A e \in Fetches : FetchInv(e)) /\ FetchesMeet /\ WrittenAlone
  BY DEF ShelfInv
<1>2. ShelfTypes'
  BY <1>1 DEF ShelfTypes
<1>3. \A d \in Fetches : FetchInv(d)'
  <2> SUFFICES ASSUME NEW d \in Fetches PROVE FetchInv(d)'
    OBVIOUS
  <2> QED
    BY <1>1 DEF FetchInv
<1>4. Shelf!UnderWay' \subseteq Shelf!UnderWay
  BY DEF Shelf!UnderWay
<1>5. \A d \in Fetches : x3'[d] = "asked" => x3[d] = "asked"
  OBVIOUS
<1>6. FetchesMeet'
  <2>1. \A d, e \in Shelf!UnderWay' : d # e => {d, e} \in x9
    BY <1>1, <1>4 DEF FetchesMeet
  <2>2. \A d, e \in Fetches :
         (x3'[d] = "asked" /\ x6[e] # None /\ x6[e] = x1[x4[d]]) => {d, e} \in x9
    BY <1>1, <1>5 DEF FetchesMeet
  <2>3. Shelf!WritersMet'
    BY <1>1 DEF FetchesMeet, Shelf!WritersMet
  <2>4. \A n \in Models : x1[n] # None => x6[x1[n]] = x1[n]
    BY <1>1 DEF FetchesMeet
  <2> QED
    BY <2>1, <2>2, <2>3, <2>4 DEF FetchesMeet
<1>7. \A d \in Fetches : x3'[d] \in {"open", "scan", "ok"} => x3[d] \in {"open", "scan", "ok"}
  OBVIOUS
<1>8. WrittenAlone'
  <2> SUFFICES ASSUME NEW e \in Fetches, x3'[e] \in {"open", "scan", "ok"}, Shelf!Alone(e)
               PROVE  /\ x2[x6[e]] = [i \in 1 .. x7[e] |-> x5[e]]
                      /\ x6[e] \in x10 \/ x1[x4[e]] = x6[e]
    BY DEF WrittenAlone, Shelf!Alone
  <2> QED
    BY <1>1, <1>7 DEF WrittenAlone
<1>9. Shelf!SuccessIsRegistered'
  BY DEF Shelf!SuccessIsRegistered, Shelf!Alone
<1> QED
  BY <1>2, <1>3, <1>6, <1>8, <1>9 DEF ShelfInv

\* What a scan registers for a download that has met nobody.
LEMMA ScanSees ==
    ASSUME ShelfInv, NEW d \in Fetches, x3[d] \in {"scan", "ok"}, Shelf!Alone(d)
    PROVE  /\ x4[d] \in Models
           /\ x6[d] \in x10 \/ (x1[x4[d]] # None /\ Len(x2[x1[x4[d]]]) = Length)
<1>1. /\ x6[d] # None /\ x7[d] = Length /\ x4[d] \in Models
  BY DEF ShelfInv, FetchInv
<1>2. /\ x2[x6[d]] = [i \in 1 .. Length |-> x5[d]]
      /\ x6[d] \in x10 \/ x1[x4[d]] = x6[d]
  BY <1>1 DEF ShelfInv, WrittenAlone
<1>3. Len([i \in 1 .. Length |-> x5[d]]) = Length
  <2> DEFINE s == [i \in 1 .. Length |-> x5[d]]
  <2>1. s \in Seq({x5[d]}) /\ DOMAIN s = 1 .. Length
    BY ShelfConstants
  <2> QED
    BY <2>1, ShelfConstants, LenProperties
<1> QED
  BY <1>1, <1>2, <1>3

LEMMA ShelfStep ==
    ASSUME ShelfInv, Shelf!Next
    PROVE  ShelfInv'
<1>1. /\ x3 \in [Fetches -> {"new", "asked", "refused", "open", "scan", "ok", "failed"}]
      /\ ShelfTypes /\ (\A e \in Fetches : FetchInv(e)) /\ FetchesMeet /\ WrittenAlone
      /\ Shelf!SuccessIsRegistered
  BY DEF ShelfInv, ShelfTypes
<1>2. ASSUME NEW d \in Fetches, Shelf!Complete(d) \/ Shelf!Fail(d) PROVE ShelfInv'
  <2>1. UNCHANGED <<x1, x2, x4, x5, x6, x7, x8, x9, x10>>
    BY <1>2 DEF Shelf!Complete, Shelf!Fail
  <2>2. PICK to \in {"scan", "ok", "failed"} :
          /\ x3' = [x3 EXCEPT ![d] = to]
          /\ \/ to = "failed" /\ x3[d] \in {"asked", "open"}
             \/ to # "failed" /\ x3[d] = "open" /\ x7[d] = Length /\ (d \in Web <=> to = "scan")
    BY <1>2 DEF Shelf!Complete, Shelf!Fail, Shelf!Go
  <2>3. x3'[d] = to /\ \A e \in Fetches : e # d => x3'[e] = x3[e]
    BY <1>1, <2>2
  <2>4. x3' \in [Fetches -> {"new", "asked", "refused", "open", "scan", "ok", "failed"}]
    BY <1>1, <2>2
  <2>5. \A e \in Web : x3'[e] = "ok" => x3[e] = "ok"
    BY <2>2, <2>3, ShelfConstants
  <2>6. \A e \in Web :
          x3'[e] = "ok" /\ Shelf!Alone(e) => x6[e] \in x10 \/ x8'[x4[e]] = Length
    BY <1>1, <2>1, <2>5 DEF Shelf!SuccessIsRegistered
  <2>7. \A e \in Fetches :
             \/ x3'[e] = x3[e]
             \/ x3[e] \in {"asked", "open", "scan"} /\ x3'[e] = "failed"
             \/ x3[e] = "open" /\ x3'[e] \in {"scan", "ok"} /\ x7[e] = Length
             \/ x3[e] = "scan" /\ x3'[e] = "ok"
    BY <2>2, <2>3
  <2> QED
    BY <2>1, <2>4, <2>6, <2>7, ShelfEnds
<1>3. ASSUME NEW d \in Fetches, Shelf!ScanAfter(d) PROVE ShelfInv'
  <2>1. /\ x3[d] = "scan" /\ UNCHANGED <<x1, x2, x4, x5, x6, x7, x9, x10>>
        /\ x3' = [x3 EXCEPT ![d] = "ok"] /\ x8' = Shelf!Seen
    BY <1>3 DEF Shelf!ScanAfter, Shelf!Go
  <2>2. x3'[d] = "ok" /\ \A e \in Fetches : e # d => x3'[e] = x3[e]
    BY <1>1, <2>1
  <2>3. x3' \in [Fetches -> {"new", "asked", "refused", "open", "scan", "ok", "failed"}]
    BY <1>1, <2>1
  <2>4. ASSUME NEW e \in Web, x3'[e] = "ok", Shelf!Alone(e)
        PROVE  x6[e] \in x10 \/ x8'[x4[e]] = Length
    <3>1. e \in Fetches /\ x3[e] \in {"scan", "ok"}
      BY <2>1, <2>2, <2>4, ShelfConstants
    <3>2. /\ x4[e] \in Models
          /\ x6[e] \in x10 \/ (x1[x4[e]] # None /\ Len(x2[x1[x4[e]]]) = Length)
      BY <2>4, <3>1, ScanSees
    <3> QED
      BY <2>1, <3>2 DEF Shelf!Seen
  <2> QED
    BY <2>1, <2>2, <2>3, <2>4, ShelfEnds
<1>4. CASE Shelf!Restart
  <2>1. /\ UNCHANGED <<x1, x2, x4, x5, x6, x7, x9, x10>>
        /\ x8' = [n \in Models |-> IF x1[n] = None THEN None ELSE Len(x2[x1[n]])]
        /\ x3' = [d \in Fetches |-> IF d \in Web /\ d \in Shelf!UnderWay THEN "failed" ELSE x3[d]]
    BY <1>4 DEF Shelf!Restart
  <2>2. \A e \in Fetches : \/ x3'[e] = x3[e]
                           \/ x3[e] \in {"asked", "open", "scan"} /\ x3'[e] = "failed"
    BY <2>1 DEF Shelf!UnderWay
  <2>3. x3' \in [Fetches -> {"new", "asked", "refused", "open", "scan", "ok", "failed"}]
    BY <1>1, <2>1
  <2>4. ASSUME NEW e \in Web, x3'[e] = "ok", Shelf!Alone(e)
        PROVE  x6[e] \in x10 \/ x8'[x4[e]] = Length
    <3>1. e \in Fetches /\ x3[e] = "ok"
      BY <2>2, <2>4, ShelfConstants
    <3>2. /\ x4[e] \in Models
          /\ x6[e] \in x10 \/ (x1[x4[e]] # None /\ Len(x2[x1[x4[e]]]) = Length)
      BY <2>4, <3>1, ScanSees
    <3> QED
      BY <2>1, <3>2
  <2> QED
    BY <2>1, <2>2, <2>3, <2>4, ShelfEnds
<1>5. ASSUME NEW n \in Models, Shelf!Remove(n) PROVE ShelfInv'
  <2>1. /\ x1[n] # None /\ UNCHANGED <<x2, x3, x4, x5, x6, x7, x8, x9>>
        /\ x10' = x10 \cup {x1[n]} /\ x1' = [x1 EXCEPT ![n] = None]
    BY <1>5 DEF Shelf!Remove
  <2>2. x1'[n] = None /\ \A m \in Models : m # n => x1'[m] = x1[m]
    BY <1>1, <2>1 DEF ShelfTypes
  <2>3. ShelfTypes'
    BY <1>1, <2>1 DEF ShelfTypes
  <2>4. \A d \in Fetches : FetchInv(d)'
    BY <1>1, <2>1 DEF FetchInv
  <2>5. \A d \in Fetches : x3[d] # "new" => x4[d] \in Models
    BY <1>1 DEF FetchInv
  <2>6. FetchesMeet'
    <3>1. \A m \in Models : x1'[m] # None => x1'[m] = x1[m]
      BY <2>2
    <3>2. \A d, e \in Fetches :
         (x3[d] = "asked" /\ x6[e] # None /\ x6[e] = x1'[x4[d]]) => {d, e} \in x9
      BY <1>1, <2>5, <3>1 DEF FetchesMeet
    <3> QED
      BY <1>1, <2>1, <3>1, <3>2 DEF FetchesMeet, Shelf!UnderWay, Shelf!WritersMet
  <2>7. WrittenAlone'
    <3> SUFFICES ASSUME NEW e \in Fetches, x3[e] \in {"open", "scan", "ok"}, Shelf!Alone(e)
                 PROVE  /\ x2[x6[e]] = [i \in 1 .. x7[e] |-> x5[e]]
                        /\ x6[e] \in x10' \/ x1'[x4[e]] = x6[e]
      BY <2>1 DEF WrittenAlone, Shelf!Alone
    <3>1. /\ x2[x6[e]] = [i \in 1 .. x7[e] |-> x5[e]]
          /\ x6[e] \in x10 \/ x1[x4[e]] = x6[e]
      BY <1>1 DEF WrittenAlone
    <3>2. CASE x4[e] = n
      BY <2>1, <3>1, <3>2
    <3>3. CASE x4[e] # n
      BY <2>1, <2>2, <2>5, <3>1, <3>3
    <3> QED
      BY <3>2, <3>3
  <2>8. Shelf!SuccessIsRegistered'
    BY <1>1, <2>1 DEF Shelf!SuccessIsRegistered, Shelf!Alone
  <2> QED
    BY <2>3, <2>4, <2>6, <2>7, <2>8 DEF ShelfInv
<1> QED
  BY <1>2, <1>3, <1>4, <1>5, ShelfAsk, ShelfCreate, ShelfPiece DEF Shelf!Next

LEMMA ShelfInit ==
    ASSUME Shelf!Init
    PROVE  ShelfInv
<1>1. /\ x1 = [n \in Models |-> None] /\ x2 = [f \in Fetches |-> <<>>]
      /\ x3 = [d \in Fetches |-> "new"]
      /\ x4 = [d \in Fetches |-> None] /\ x5 = [d \in Fetches |-> None]
      /\ x6 = [d \in Fetches |-> None] /\ x7 = [d \in Fetches |-> 0]
      /\ x9 = {} /\ x10 = {}
  BY DEF Shelf!Init
<1>2. ShelfTypes
  BY <1>1, ShelfConstants DEF ShelfTypes
<1>3. \A d \in Fetches : FetchInv(d)
  BY <1>1 DEF FetchInv
<1>4. FetchesMeet /\ WrittenAlone
  BY <1>1 DEF FetchesMeet, WrittenAlone, Shelf!UnderWay, Shelf!WritersMet
<1>5. Shelf!SuccessIsRegistered
  BY <1>1, ShelfConstants DEF Shelf!SuccessIsRegistered
<1> QED
  BY <1>2, <1>3, <1>4, <1>5 DEF ShelfInv

\* What a download has written is whole when it has all its pieces.
LEMMA ShelfWhole ==
    ASSUME ShelfInv
    PROVE  Shelf!SuccessIsWhole
<1>1. \A d \in Shelf!Finished : x3[d] \in {"open", "scan", "ok"} /\ x7[d] = Length /\ d \in Fetches
  BY DEF ShelfInv, FetchInv, Shelf!Finished
<1> QED
  BY <1>1 DEF ShelfInv, WrittenAlone, Shelf!SuccessIsWhole, Shelf!Whole

-------------------------------------------------------------------------------
(* The generation                                                          *)

LEMMA TextConstants ==
    /\ Stops \subseteq Seq(Pieces) /\ <<>> \notin Stops
    /\ Prompts \subseteq Nat \ {0} /\ Limits \subseteq Nat
    /\ Batch \in Nat \ {0} /\ Context \in Nat \ {0}
BY InferenceAssumption DEF Text!GenerationAssumption

\* What a text ends with, and what comes before it, are the text.
LEMMA SuffixSplits ==
    ASSUME NEW s \in Seq(Pieces), NEW t \in Seq(Pieces), Text!IsSuffix(s, t)
    PROVE  /\ Len(s) <= Len(t)
           /\ Text!Without(t, s) \in Seq(Pieces)
           /\ t = Text!Without(t, s) \o s
<1> DEFINE m == Len(s)
           n == Len(t)
<1>1. m \in Nat /\ n \in Nat
  OBVIOUS
<1>2. /\ Text!Reverse(s) = [i \in 1 .. m |-> s[(m - i) + 1]]
      /\ Text!Reverse(t) = [i \in 1 .. n |-> t[(n - i) + 1]]
  BY DEF Text!Reverse
<1>3. /\ Text!Reverse(s) \in Seq(Pieces) /\ Len(Text!Reverse(s)) = m
      /\ Text!Reverse(t) \in Seq(Pieces) /\ Len(Text!Reverse(t)) = n
  <2>1. \A i \in 1 .. m : s[(m - i) + 1] \in Pieces
    OBVIOUS
  <2>2. \A i \in 1 .. n : t[(n - i) + 1] \in Pieces
    OBVIOUS
  <2>3. /\ Text!Reverse(s) \in Seq(Pieces) /\ DOMAIN Text!Reverse(s) = 1 .. m
        /\ Text!Reverse(t) \in Seq(Pieces) /\ DOMAIN Text!Reverse(t) = 1 .. n
    BY <1>1, <1>2, <2>1, <2>2
  <2> QED
    BY <1>1, <2>3, LenProperties
<1>4. /\ m <= n
      /\ SubSeq(Text!Reverse(s), 1, m) = SubSeq(Text!Reverse(t), 1, m)
  BY <1>3, Zenon DEF Text!IsSuffix, Text!IsPrefix
<1>5. \A i \in 1 .. m : Text!Reverse(s)[i] = Text!Reverse(t)[i]
  <2> SUFFICES ASSUME NEW i \in 1 .. m PROVE Text!Reverse(s)[i] = Text!Reverse(t)[i]
    OBVIOUS
  <2>1. SubSeq(Text!Reverse(s), 1, m)[i] = Text!Reverse(s)[i]
    BY <1>1, <1>3
  <2>2. SubSeq(Text!Reverse(t), 1, m)[i] = Text!Reverse(t)[i]
    BY <1>1, <1>3, <1>4
  <2> QED
    BY <1>4, <2>1, <2>2
<1>6. \A j \in 1 .. m : s[j] = t[(n - m) + j]
  <2> SUFFICES ASSUME NEW j \in 1 .. m PROVE s[j] = t[(n - m) + j]
    OBVIOUS
  <2>1. (m - j) + 1 \in 1 .. m /\ (m - j) + 1 \in 1 .. n
    BY <1>1, <1>4
  <2> DEFINE k == (m - j) + 1
  <2> HIDE DEF k
  <2>2. s[(m - k) + 1] = t[(n - k) + 1]
    <3>1. k \in 1 .. m /\ k \in 1 .. n
      BY <2>1 DEF k
    <3>2. Text!Reverse(s)[k] = s[(m - k) + 1]
      BY <1>2, <3>1, Zenon
    <3>3. Text!Reverse(t)[k] = t[(n - k) + 1]
      BY <1>2, <3>1, Zenon
    <3> QED
      BY <1>5, <3>1, <3>2, <3>3, Zenon
  <2>3. (m - k) + 1 = j /\ (n - k) + 1 = (n - m) + j
    BY <1>1 DEF k
  <2> QED
    BY <2>2, <2>3
<1> DEFINE u == SubSeq(t, 1, n - m)
<1>7. /\ u \in Seq(Pieces) /\ Len(u) = n - m
      /\ \A i \in 1 .. n - m : u[i] = t[i]
  BY <1>1, <1>4
<1> HIDE DEF u
<1>8. /\ u \o s \in Seq(Pieces) /\ Len(u \o s) = n
      /\ \A i \in 1 .. n : (u \o s)[i] = t[i]
  <2>1. u \o s \in Seq(Pieces) /\ Len(u \o s) = (n - m) + m
    BY <1>7
  <2>2. ASSUME NEW i \in 1 .. n PROVE (u \o s)[i] = t[i]
    <3>1. CASE i <= n - m
      BY <1>1, <1>7, <3>1
    <3>2. CASE i > n - m
      <4>1. i - (n - m) \in 1 .. m /\ (n - m) + (i - (n - m)) = i
        BY <1>1, <1>4, <3>2
      <4>2. (u \o s)[i] = s[i - (n - m)]
        BY <1>1, <1>4, <1>7, <3>2
      <4> QED
        BY <1>6, <4>1, <4>2
    <3>3. i <= n - m \/ i > n - m
      BY <1>1
    <3> QED
      BY <3>1, <3>2, <3>3
  <2> QED
    BY <1>1, <2>1, <2>2
<1>9. u \o s = t
  BY <1>8, SeqEqual
<1> QED
  BY <1>4, <1>7, <1>9 DEF u, Text!Without

LEMMA TextInit ==
    ASSUME Text!Init
    PROVE  TextInv
<1>1. /\ x1 \in Prompts /\ x2 \in Limits /\ x3 = 0 /\ x4 = 0 /\ x5 = 0
      /\ x6 = <<>> /\ x7 = <<>>
      /\ x8 = IF x1 >= Context THEN "too_long" ELSE "running"
  BY DEF Text!Init
<1>2. /\ x1 \in Nat \ {0} /\ x2 \in Nat /\ Context \in Nat
      /\ Text!Smaller(Batch, Context) \in Nat
  BY <1>1, TextConstants DEF Text!Smaller
<1>3. Text!TypeOK
  BY <1>1, <1>2 DEF Text!TypeOK
<1>4. /\ Text!FittingIsAnswered /\ Text!EveryTokenFed /\ Text!StreamCoversText
  BY <1>1, <1>2 DEF Text!FittingIsAnswered, Text!EveryTokenFed, Text!StreamCoversText
<1>5. Text!CutAtStop
  <2> SUFFICES ASSUME NEW stop \in Stops, Text!IsSuffix(stop, <<>>) PROVE FALSE
    BY <1>1 DEF Text!CutAtStop
  <2>1. stop \in Seq(Pieces) /\ <<>> \in Seq(Pieces)
    BY TextConstants
  <2>2. Len(stop) <= Len(<<>>)
    BY <2>1, SuffixSplits
  <2>3. stop = <<>>
    BY <2>1, <2>2
  <2> QED
    BY <2>3, TextConstants
<1>6. Text!Running => x1 < Context /\ x7 = x6 /\ (x3 < x1 => x5 = 0)
  BY <1>1, <1>2 DEF Text!Running
<1> QED
  BY <1>3, <1>4, <1>5, <1>6 DEF TextInv

LEMMA TextStep ==
    ASSUME TextInv, Text!Next
    PROVE  TextInv'
<1>1. /\ x1 \in Nat \ {0} /\ x1 \in Prompts /\ x2 \in Nat /\ x2 \in Limits
      /\ x3 \in 0 .. Context /\ x4 \in 0 .. Text!Smaller(Batch, Context) /\ x5 \in 0 .. x2
      /\ x6 \in Seq(Pieces) /\ x7 \in Seq(Pieces)
      /\ Batch \in Nat \ {0} /\ Context \in Nat \ {0} /\ UNCHANGED <<x1, x2>>
  BY TextConstants DEF TextInv, Text!TypeOK, Text!Next, Text!FeedPrompt, Text!EndOfText,
                       Text!Produce, Text!LimitReached, Text!input
<1>2. Text!Running /\ x8 = "running" /\ x1 < Context /\ x7 = x6 /\ (x3 < x1 => x5 = 0)
      /\ (x1 + x2 <= Context => x8 # "no_room")
      /\ (x3 >= x1 => x3 = x1 + x5 /\ x4 > 0)
  BY DEF TextInv, Text!Next, Text!FeedPrompt, Text!EndOfText, Text!Produce, Text!LimitReached,
         Text!MayProduce, Text!Running, Text!FittingIsAnswered, Text!EveryTokenFed
<1>3. \A stop \in Stops : ~Text!IsSuffix(stop, x6)
  BY <1>2 DEF TextInv, Text!CutAtStop
\* It ends without another token.
<1>4. CASE Text!EndOfText \/ Text!LimitReached
  <2>1. UNCHANGED <<x3, x4, x5, x6, x7>> /\ x8' \in {"stop", "length"}
    BY <1>4 DEF Text!EndOfText, Text!LimitReached, Text!Reason
  <2>2. ~Text!Running'
    BY <2>1 DEF Text!Running
  <2>3. Text!TypeOK'
    BY <1>1, <2>1 DEF Text!TypeOK
  <2> QED
    BY <1>1, <1>2, <2>1, <2>2, <2>3 DEF TextInv, Text!FittingIsAnswered, Text!EveryTokenFed,
        Text!StreamCoversText, Text!CutAtStop
<1>5. CASE Text!FeedPrompt
  <2> DEFINE n == Text!Smaller(Batch, x1 - x3)
  <2>1. x3 < x1 /\ Text!Decode(n) /\ UNCHANGED <<x5, x6, x7>>
    BY <1>5 DEF Text!FeedPrompt
  <2>2. n \in Nat \ {0} /\ n <= Batch /\ x3 + n <= x1 /\ x3 + n <= Context /\ n <= Context
    BY <1>1, <1>2, <2>1 DEF Text!Smaller
  <2> HIDE DEF n
  <2>3. x3' = x3 + n /\ x4' = n /\ x8' = x8
    BY <2>1, <2>2 DEF Text!Decode
  <2>4. n \in 0 .. Text!Smaller(Batch, Context) /\ x3' \in 0 .. Context
    BY <1>1, <2>2, <2>3 DEF Text!Smaller
  <2>5. Text!TypeOK'
    BY <1>1, <1>2, <2>1, <2>3, <2>4 DEF Text!TypeOK
  <2>6. Text!FittingIsAnswered'
    BY <1>2, <2>3 DEF Text!FittingIsAnswered
  <2>7. x3' >= x1' => x3' = x1' + x5' /\ x4' > 0
    BY <1>1, <1>2, <2>1, <2>2, <2>3
  <2>8. x5' = 0
    BY <1>2, <2>1
  <2> QED
    BY <1>1, <1>2, <1>3, <2>1, <2>3, <2>5, <2>6, <2>7, <2>8
    DEF TextInv, Text!EveryTokenFed, Text!StreamCoversText, Text!CutAtStop, Text!Running
<1>6. ASSUME NEW p \in {<<x>> : x \in Pieces} \cup {<<>>}, Text!Produce(p) PROVE TextInv'
  <2> DEFINE grown == x6 \o p
             hits == {stop \in Stops : Text!IsSuffix(stop, grown)}
  <2>1. /\ x3 >= x1 /\ x5 < x2 /\ x5' = x5 + 1 /\ x7' = x7 \o p
    BY <1>6 DEF Text!Produce, Text!MayProduce
  <2>2. p \in Seq(Pieces) /\ grown \in Seq(Pieces) /\ x7' = grown
    <3>1. p \in Seq(Pieces)
      <4>1. CASE p = <<>>
        BY <4>1
      <4>2. ASSUME NEW x \in Pieces, p = <<x>> PROVE p \in Seq(Pieces)
        BY <4>2
      <4> QED
        BY <1>6, <4>1, <4>2
    <3>2. grown \in Seq(Pieces)
      BY <1>1, <3>1
    <3> QED
      BY <1>2, <2>1, <3>1, <3>2
  <2>3. x5' \in 0 .. x2 /\ x3 = x1 + x5
    BY <1>1, <1>2, <2>1
  <2>4. CASE hits = {}
    <3>1. x6' = grown /\ Text!Decode(1)
      BY <1>6, <2>4 DEF Text!Produce
    <3>2. \A stop \in Stops : ~Text!IsSuffix(stop, grown)
      BY <2>4
    <3> HIDE DEF grown, hits
    <3>3. CASE x3 + 1 <= Context
      <4>1. x3' = x3 + 1 /\ x4' = 1 /\ x8' = x8
        BY <3>1, <3>3 DEF Text!Decode
      <4>2. x3' \in 0 .. Context /\ x4' \in 0 .. Text!Smaller(Batch, Context)
        BY <1>1, <3>3, <4>1 DEF Text!Smaller
      <4>3. Text!TypeOK'
        BY <1>1, <1>2, <2>2, <2>3, <3>1, <4>1, <4>2 DEF Text!TypeOK
      <4>4. Text!FittingIsAnswered'
        BY <1>2, <4>1 DEF Text!FittingIsAnswered
      <4>5. x3' = x1' + x5' /\ x4' > 0 /\ ~(x3' < x1')
        BY <1>1, <2>1, <2>3, <4>1
      <4> QED
        BY <1>1, <1>2, <2>2, <3>1, <3>2, <4>3, <4>4, <4>5
        DEF TextInv, Text!EveryTokenFed, Text!StreamCoversText, Text!CutAtStop
    <3>4. CASE ~(x3 + 1 <= Context)
      <4>1. UNCHANGED <<x3, x4>> /\ x8' = "no_room"
        BY <3>1, <3>4 DEF Text!Decode
      <4>2. Text!TypeOK'
        BY <1>1, <2>2, <2>3, <3>1, <4>1 DEF Text!TypeOK
      <4>3. ~(x1 + x2 <= Context)
        BY <1>1, <2>1, <2>3, <3>4
      <4>4. Text!FittingIsAnswered'
        BY <1>1, <4>3 DEF Text!FittingIsAnswered
      <4>5. ~Text!Running'
        BY <4>1 DEF Text!Running
      <4> QED
        BY <2>2, <3>1, <4>2, <4>4, <4>5
        DEF TextInv, Text!EveryTokenFed, Text!StreamCoversText, Text!CutAtStop
    <3> QED
      BY <3>3, <3>4
  <2>5. CASE hits # {}
    <3>1. /\ \E stop \in hits : x6' = Text!Without(grown, stop)
          /\ UNCHANGED <<x3, x4>> /\ x8' \in {"stop", "length"}
      BY <1>6, <2>5 DEF Text!Produce, Text!Reason
    <3>2. PICK stop \in hits : x6' = Text!Without(grown, stop)
      BY <3>1
    <3>3. stop \in Stops /\ stop \in Seq(Pieces) /\ Text!IsSuffix(stop, grown)
      BY TextConstants
    <3> HIDE DEF grown, hits
    <3>4. x6' \in Seq(Pieces) /\ x7' = x6' \o stop
      BY <2>2, <3>2, <3>3, SuffixSplits
    <3>5. Text!TypeOK'
      BY <1>1, <2>2, <2>3, <3>1, <3>4 DEF Text!TypeOK
    <3>6. ~Text!Running'
      BY <3>1 DEF Text!Running
    <3> QED
      BY <3>1, <3>3, <3>4, <3>5, <3>6
      DEF TextInv, Text!FittingIsAnswered, Text!EveryTokenFed, Text!StreamCoversText,
          Text!CutAtStop
  <2> QED
    BY <2>4, <2>5
<1> QED
  BY <1>4, <1>5, <1>6 DEF Text!Next

-------------------------------------------------------------------------------
(* The stream of Ollama                                                    *)

\* b may be the byte of an answer at place q, whole or cut; only bytes of the
\* lines in T are cut.
ByteAt(b, q, T) ==
    /\ b \in Stream!Bytes
    /\ b[2] = "cut" => b[1] \in T
    /\ q % 3 = 0 => b = Stream!Newline
    /\ q % 3 # 0 => b # Stream!Newline /\ b[1] = (q + 2) \div 3

\* The texts of the first k lines of an answer were handed on, in order.
HandedOn(texts, replied, k) ==
    /\ texts \in Seq(Nat)
    /\ \A i, j \in DOMAIN texts : i < j => texts[i] < texts[j]
    /\ \A i \in DOMAIN texts : texts[i] \in 1 .. k /\ replied[texts[i]] = "text"
    /\ \A n \in 1 .. k : replied[n] = "text" => \E i \in DOMAIN texts : texts[i] = n

\* What the first q bytes of an answer make of a state.
ReadStates ==
    [texts : Seq(Nat), hurt : SUBSET Nat, count : BOOLEAN, line : Seq(Stream!Bytes)]
ReadTo(state, replied, T, q) ==
    /\ state \in ReadStates /\ state.hurt \subseteq T
    /\ HandedOn(state.texts, replied, q \div 3)
    /\ Len(state.line) = q % 3
    /\ \A i \in 1 .. q % 3 : ByteAt(state.line[i], 3 * (q \div 3) + i, T)

LEMMA ThirdPlaces ==
    ASSUME NEW k \in Nat, NEW r \in 0 .. 2
    PROVE  (3 * k + r) \div 3 = k /\ (3 * k + r) % 3 = r
OBVIOUS

LEMMA TwoNotZero == 1 # 0 /\ 2 # 0
OBVIOUS

LEMMA OneBeforeTwo ==
    ASSUME NEW p \in Nat, (p + 1) % 3 = 2
    PROVE  p % 3 = 1
OBVIOUS

LEMMA ZeroToTwo == \A a \in 1 .. 2 : a \in 0 .. 2
OBVIOUS

LEMMA InThirds ==
    ASSUME NEW q \in Nat
    PROVE  \E k \in Nat, r \in 0 .. 2 : q = 3 * k + r /\ q \div 3 = k /\ q % 3 = r
<1>1. q \div 3 \in Nat /\ q % 3 \in 0 .. 2 /\ q = 3 * (q \div 3) + (q % 3)
  OBVIOUS
<1> QED
  BY <1>1

\* One line more.
LEMMA LineHandedOn ==
    ASSUME NEW replied, NEW k \in Nat, NEW t, HandedOn(t, replied, k)
    PROVE  /\ replied[k + 1] = "text" => HandedOn(Append(t, k + 1), replied, k + 1)
           /\ replied[k + 1] # "text" => HandedOn(t, replied, k + 1)
<1>1. t \in Seq(Nat) /\ k + 1 \in Nat
  BY DEF HandedOn
<1>2. PICK l \in Nat : l = Len(t) /\ DOMAIN t = 1 .. l
  BY <1>1, LenProperties
<1>3. \A i \in 1 .. l : t[i] \in 1 .. k /\ t[i] \in 1 .. k + 1 /\ t[i] < k + 1 /\ t[i] # k + 1
  BY <1>2 DEF HandedOn
<1>4. \A n \in 1 .. k + 1 : n \in 1 .. k \/ n = k + 1
  OBVIOUS
<1>5. ASSUME replied[k + 1] # "text" PROVE HandedOn(t, replied, k + 1)
  BY Zenon, <1>1, <1>2, <1>3, <1>4, <1>5 DEF HandedOn
<1>6. ASSUME replied[k + 1] = "text" PROVE HandedOn(Append(t, k + 1), replied, k + 1)
  <2>1. PICK u : u = Append(t, k + 1)
    BY Zenon
  <2>2. u \in Seq(Nat) /\ Len(u) = l + 1 /\ u[l + 1] = k + 1 /\ \A i \in 1 .. l : u[i] = t[i]
    BY <1>1, <1>2, <2>1
  <2>3. DOMAIN u = 1 .. l + 1
    BY <2>2, LenProperties
  <2>4. \A i \in 1 .. l + 1 : i \in 1 .. l \/ i = l + 1
    OBVIOUS
  <2>5. \A i \in 1 .. l : i \in 1 .. l + 1
    OBVIOUS
  <2>6. l + 1 \in 1 .. l + 1 /\ k + 1 \in 1 .. k + 1
    OBVIOUS
  <2>7. \A i, j \in 1 .. l + 1 : i < j => i \in 1 .. l
    OBVIOUS
  <2>8. \A i, j \in DOMAIN u : i < j => u[i] < u[j]
    <3> SUFFICES ASSUME NEW i \in 1 .. l + 1, NEW j \in 1 .. l + 1, i < j PROVE u[i] < u[j]
      BY <2>3
    <3>1. i \in 1 .. l
      BY <2>7
    <3>2. CASE j = l + 1
      BY Zenon, <1>3, <2>2, <3>1, <3>2
    <3>3. CASE j \in 1 .. l
      <4>1. t[i] < t[j]
        BY Zenon, <1>2, <3>1, <3>3 DEF HandedOn
      <4> QED
        BY Zenon, <2>2, <3>1, <3>3, <4>1
    <3> QED
      BY Zenon, <2>4, <3>2, <3>3
  <2>9. \A i \in DOMAIN u : u[i] \in 1 .. k + 1 /\ replied[u[i]] = "text"
    <3> SUFFICES ASSUME NEW i \in 1 .. l + 1 PROVE u[i] \in 1 .. k + 1 /\ replied[u[i]] = "text"
      BY Zenon, <2>3
    <3>1. CASE i = l + 1
      BY Zenon, <1>6, <2>2, <2>6, <3>1
    <3>2. CASE i \in 1 .. l
      <4>1. replied[t[i]] = "text"
        BY Zenon, <1>2, <3>2 DEF HandedOn
      <4> QED
        BY Zenon, <1>3, <2>2, <3>2, <4>1
    <3> QED
      BY Zenon, <2>4, <3>1, <3>2
  <2>10. \A n \in 1 .. k + 1 : replied[n] = "text" => \E i \in DOMAIN u : u[i] = n
    <3> SUFFICES ASSUME NEW n \in 1 .. k + 1, replied[n] = "text" PROVE \E i \in 1 .. l + 1 : u[i] = n
      BY Zenon, <2>3
    <3>1. CASE n = k + 1
      BY Zenon, <2>2, <2>6, <3>1
    <3>2. CASE n \in 1 .. k
      <4>1. PICK i \in 1 .. l : t[i] = n
        BY Zenon, <1>2, <3>2 DEF HandedOn
      <4> QED
        BY Zenon, <2>2, <2>5, <4>1
    <3> QED
      BY Zenon, <1>4, <3>1, <3>2
  <2> QED
    BY Zenon, <2>1, <2>2, <2>8, <2>9, <2>10 DEF HandedOn
<1> QED
  BY <1>5, <1>6

\* One line is read, with its text or without.
LEMMA LineIsRead ==
    ASSUME NEW s \in ReadStates, NEW line, NEW k \in Nat, line[1][1] = k + 1,
           HandedOn(s.texts, x1, k),
           NEW T, s.hurt \subseteq T, Stream!Cut(line) => k + 1 \in T
    PROVE  /\ Stream!Read(line, s) \in ReadStates /\ Stream!Read(line, s).hurt \subseteq T
           /\ HandedOn(Stream!Read(line, s).texts, x1, k + 1)
<1>1. Stream!LineOf(line) = k + 1
  BY DEF Stream!LineOf
<1>2. /\ s.texts \in Seq(Nat) /\ s.hurt \in SUBSET Nat /\ s.count \in BOOLEAN
      /\ s.line \in Seq(Stream!Bytes)
      /\ s = [texts |-> s.texts, hurt |-> s.hurt, count |-> s.count, line |-> s.line]
  BY DEF ReadStates
<1>3. PICK hurt : hurt = s.hurt \cup (IF Stream!Cut(line) THEN {k + 1} ELSE {})
  OBVIOUS
<1>4. hurt \in SUBSET Nat /\ hurt \subseteq T
  BY <1>2, <1>3
<1>5. CASE x1[k + 1] = "text"
  <2>1. PICK new : new = [texts |-> Append(s.texts, k + 1), hurt |-> hurt,
                          count |-> s.count, line |-> s.line]
    OBVIOUS
  <2>2. Stream!Read(line, s) = [s EXCEPT !.texts = Append(s.texts, k + 1), !.hurt = hurt]
    BY Zenon, <1>1, <1>3, <1>5 DEF Stream!Read
  <2>3. Stream!Read(line, s) = new
    BY <1>2, <2>1, <2>2
  <2>4. Append(s.texts, k + 1) \in Seq(Nat)
    BY <1>2
  <2>5. new \in ReadStates /\ new.texts = Append(s.texts, k + 1) /\ new.hurt \subseteq T
    BY <1>2, <1>4, <2>1, <2>4 DEF ReadStates
  <2>6. HandedOn(Append(s.texts, k + 1), x1, k + 1)
    BY <1>5, LineHandedOn
  <2> QED
    BY Zenon, <2>3, <2>5, <2>6
<1>6. CASE x1[k + 1] # "text"
  <2>1. HandedOn(s.texts, x1, k + 1)
    BY <1>6, LineHandedOn
  <2>2. PICK new : new = [s EXCEPT !.count = TRUE]
    OBVIOUS
  <2>3. new \in ReadStates /\ new.texts = s.texts /\ new.hurt \subseteq T
    BY <1>2, <2>2 DEF ReadStates
  <2>4. CASE x1[k + 1] = "done"
    <3>1. Stream!Read(line, s) = new
      BY <1>1, <2>2, <2>4 DEF Stream!Read
    <3> QED
      BY Zenon, <2>1, <2>3, <3>1
  <2>5. CASE x1[k + 1] # "done"
    <3>1. Stream!Read(line, s) = s
      BY <1>1, <1>6, <2>5 DEF Stream!Read
    <3> QED
      BY Zenon, <2>1, <3>1
  <2> QED
    BY Zenon, <2>4, <2>5
<1> QED
  BY Zenon, <1>5, <1>6

\* The bytes of a line that is not complete say which line it is.
LEMMA BytesOfLine ==
    ASSUME NEW line \in Seq(Stream!Bytes), NEW k \in Nat, NEW r \in 0 .. 2, Len(line) = r, NEW T,
           \A i \in 1 .. r : ByteAt(line[i], 3 * k + i, T)
    PROVE  /\ 1 \in 1 .. r => line[1][1] = k + 1
           /\ Stream!Cut(line) => k + 1 \in T
<1>1. DOMAIN line = 1 .. r
  BY LenProperties
<1>2. ASSUME NEW i \in 1 .. r
      PROVE  line[i][1] = k + 1 /\ (line[i][2] = "cut" => k + 1 \in T)
  <2>1. (3 * k + i) % 3 # 0 /\ ((3 * k + i) + 2) \div 3 = k + 1
    OBVIOUS
  <2>2. ByteAt(line[i], 3 * k + i, T)
    OBVIOUS
  <2> QED
    BY Zenon, <2>1, <2>2 DEF ByteAt
<1> QED
  BY Zenon, <1>1, <1>2 DEF Stream!Cut

\* One byte more.
LEMMA ByteRead ==
    ASSUME NEW s, NEW q \in Nat, NEW T, ReadTo(s, x1, T, q), NEW b, ByteAt(b, q + 1, T)
    PROVE  ReadTo(Stream!ReadByte(s, b), x1, T, q + 1)
<1>1. PICK k \in Nat, r \in 0 .. 2 : q = 3 * k + r /\ q \div 3 = k /\ q % 3 = r
  BY InThirds
<1>2. /\ s \in ReadStates /\ s.hurt \subseteq T /\ HandedOn(s.texts, x1, k) /\ Len(s.line) = r
      /\ \A i \in 1 .. r : ByteAt(s.line[i], 3 * k + i, T)
  BY <1>1 DEF ReadTo
<1>3. /\ s.texts \in Seq(Nat) /\ s.hurt \in SUBSET Nat /\ s.count \in BOOLEAN
      /\ s.line \in Seq(Stream!Bytes) /\ b \in Stream!Bytes
  BY <1>2 DEF ReadStates, ByteAt
<1>4. CASE r = 2
  <2>1. q + 1 = 3 * (k + 1) /\ (q + 1) \div 3 = k + 1 /\ (q + 1) % 3 = 0
    BY <1>1, <1>4
  <2>2. b = Stream!Newline
    BY <2>1 DEF ByteAt
  <2>3. s.line[1][1] = k + 1 /\ (Stream!Cut(s.line) => k + 1 \in T)
    <3>1. 1 \in 1 .. r /\ Len(s.line) = r /\ r \in 0 .. 2
      BY <1>1, <1>2, <1>4
    <3> QED
      BY Zenon, <1>2, <1>3, <3>1, BytesOfLine
  <2>4. PICK m : m = Stream!Read(s.line, s)
    BY Zenon
  <2>5. m \in ReadStates /\ m.hurt \subseteq T /\ HandedOn(m.texts, x1, k + 1)
    BY <1>2, <2>3, <2>4, LineIsRead
  <2>6. PICK w : w = [m EXCEPT !.line = <<>>]
    BY Zenon
  <2>7. Stream!ReadByte(s, b) = w
    BY Zenon, <2>2, <2>4, <2>6 DEF Stream!ReadByte
  <2>8. w \in ReadStates /\ w.texts = m.texts /\ w.line = <<>> /\ w.hurt \subseteq T
    <3>1. <<>> \in Seq(Stream!Bytes)
      OBVIOUS
    <3> QED
      BY <2>5, <2>6, <3>1 DEF ReadStates
  <2>9. Len(w.line) = 0 /\ 1 .. 0 = {}
    BY <2>8
  <2> QED
    BY Zenon, <2>1, <2>5, <2>7, <2>8, <2>9 DEF ReadTo
<1>5. CASE r # 2
  <2>1. /\ (q + 1) \div 3 = k /\ (q + 1) % 3 = r + 1 /\ r + 1 # 0 /\ q + 1 = 3 * k + (r + 1)
        /\ r + 1 \in Nat
    BY <1>1, <1>5
  <2>2. b # Stream!Newline
    BY <2>1 DEF ByteAt
  <2>3. PICK l : l = Append(s.line, b)
    BY Zenon
  <2>4. /\ l \in Seq(Stream!Bytes) /\ Len(l) = r + 1 /\ l[r + 1] = b
        /\ \A i \in 1 .. r : l[i] = s.line[i]
    BY <1>2, <1>3, <2>3
  <2>5. PICK w : w = [s EXCEPT !.line = l]
    BY Zenon
  <2>6. Stream!ReadByte(s, b) = w
    BY Zenon, <2>2, <2>3, <2>5 DEF Stream!ReadByte
  <2>7. w \in ReadStates /\ w.texts = s.texts /\ w.line = l /\ w.hurt \subseteq T
    BY <1>2, <2>4, <2>5 DEF ReadStates
  <2>8. ASSUME NEW i \in 1 .. r + 1 PROVE ByteAt(l[i], 3 * k + i, T)
    <3>1. CASE i = r + 1
      BY Zenon, <2>1, <2>4, <3>1
    <3>2. CASE i # r + 1
      <4>1. i \in 1 .. r
        BY <1>1, <3>2
      <4> QED
        BY Zenon, <1>2, <2>4, <4>1
    <3> QED
      BY <3>1, <3>2
  <2> QED
    BY Zenon, <1>2, <2>1, <2>4, <2>6, <2>7, <2>8 DEF ReadTo
<1> QED
  BY <1>4, <1>5

\* f has what was read after each of the first n bytes.
ReadInTurn(f, bytes, n) ==
    /\ f = [i \in 0 .. n |-> f[i]]
    /\ f[0] = Stream!Before
    /\ \A i \in 1 .. n : f[i] = Stream!ReadByte(f[i - 1], bytes[i])

LEMMA ReadInTurnExists ==
    ASSUME NEW bytes, NEW n \in Nat
    PROVE  \E f : ReadInTurn(f, bytes, n)
<1> DEFINE T == {k \in Nat : \E f : ReadInTurn(f, bytes, k)}
<1>1. 0 \in T
  <2> DEFINE f == [i \in 0 .. 0 |-> Stream!Before]
  <2>1. f = [i \in 0 .. 0 |-> f[i]] /\ f[0] = Stream!Before /\ 1 .. 0 = {}
    OBVIOUS
  <2>2. ReadInTurn(f, bytes, 0)
    BY <2>1 DEF ReadInTurn
  <2> QED
    BY <2>2
<1>2. ASSUME NEW k \in Nat, k \in T PROVE k + 1 \in T
  <2>1. PICK f : ReadInTurn(f, bytes, k)
    BY <1>2
  <2>2. PICK e : e = Stream!ReadByte(f[k], bytes[k + 1])
    BY Zenon
  <2> DEFINE g == [i \in 0 .. k + 1 |-> IF i = k + 1 THEN e ELSE f[i]]
  <2>3. g[0] = Stream!Before
    BY <2>1 DEF ReadInTurn
  <2>4. ASSUME NEW i \in 1 .. k + 1
        PROVE  g[i] = Stream!ReadByte(g[i - 1], bytes[i])
    <3>1. CASE i = k + 1
      <4>1. g[i] = e /\ g[i - 1] = f[k]
        BY <3>1
      <4> QED
        BY Zenon, <2>2, <3>1, <4>1
    <3>2. CASE i # k + 1
      <4>1. i \in 1 .. k /\ g[i] = f[i] /\ g[i - 1] = f[i - 1]
        BY <3>2
      <4> QED
        BY Zenon, <2>1, <4>1 DEF ReadInTurn
    <3> QED
      BY <3>1, <3>2
  <2>5. g = [i \in 0 .. k + 1 |-> g[i]]
    OBVIOUS
  <2> HIDE DEF g
  <2>6. ReadInTurn(g, bytes, k + 1)
    BY Zenon, <2>3, <2>4, <2>5 DEF ReadInTurn
  <2> QED
    BY <2>6
<1> HIDE DEF T
<1>3. n \in T
  BY <1>1, <1>2, SetInduction
<1> QED
  BY <1>3 DEF T

LEMMA ReadingIsInTurn ==
    ASSUME NEW bytes, Len(bytes) \in Nat
    PROVE  \E f : ReadInTurn(f, bytes, Len(bytes)) /\ Stream!Reading(bytes) = f[Len(bytes)]
<1>1. PICK g : ReadInTurn(g, bytes, Len(bytes))
  BY Zenon, ReadInTurnExists
<1> DEFINE IsRead(f) ==
      f = [i \in 0 .. Len(bytes) |->
             IF i = 0 THEN Stream!Before ELSE Stream!ReadByte(f[i - 1], bytes[i])]
           read == CHOOSE f : IsRead(f)
<1>2. IsRead(g)
  <2>1. \A i \in 0 .. Len(bytes) : i = 0 \/ i \in 1 .. Len(bytes)
    OBVIOUS
  <2>2. \A i \in 0 .. Len(bytes) :
          g[i] = IF i = 0 THEN Stream!Before ELSE Stream!ReadByte(g[i - 1], bytes[i])
    BY Zenon, <1>1, <2>1 DEF ReadInTurn
  <2>3. g = [i \in 0 .. Len(bytes) |-> g[i]]
    BY Zenon, <1>1 DEF ReadInTurn
  <2> QED
    BY Zenon, <2>2, <2>3
<1>3. IsRead(read)
  <2> HIDE DEF IsRead
  <2> QED
    BY Zenon, <1>2
<1>4. Stream!Reading(bytes) = read[Len(bytes)]
  BY Zenon DEF Stream!Reading
<1>5. ReadInTurn(read, bytes, Len(bytes))
  <2> HIDE DEF read
  <2>1. /\ 0 \in 0 .. Len(bytes)
        /\ \A i \in 1 .. Len(bytes) : i \in 0 .. Len(bytes) /\ i # 0
    OBVIOUS
  <2>2. \A i \in 0 .. Len(bytes) :
          read[i] = IF i = 0 THEN Stream!Before ELSE Stream!ReadByte(read[i - 1], bytes[i])
    BY Zenon, <1>3
  <2>3. read = [i \in 0 .. Len(bytes) |-> read[i]]
    BY <1>3
  <2> HIDE DEF IsRead
  <2> QED
    BY Zenon, <2>1, <2>2, <2>3 DEF ReadInTurn
<1> QED
  BY Zenon, <1>4, <1>5

\* Reading what comes after whole lines.
LEMMA ReadingReads ==
    ASSUME NEW bytes, Len(bytes) \in Nat, NEW k \in Nat, NEW T, ReadTo(Stream!Before, x1, T, 3 * k),
           \A i \in 1 .. Len(bytes) : ByteAt(bytes[i], 3 * k + i, T)
    PROVE  ReadTo(Stream!Reading(bytes), x1, T, 3 * k + Len(bytes))
<1>1. PICK f : ReadInTurn(f, bytes, Len(bytes)) /\ Stream!Reading(bytes) = f[Len(bytes)]
  BY Zenon, ReadingIsInTurn
<1> DEFINE S == {i \in Nat : i <= Len(bytes) => ReadTo(f[i], x1, T, 3 * k + i)}
<1>2. 0 \in S
  <2>1. f[0] = Stream!Before /\ 3 * k + 0 = 3 * k
    BY <1>1 DEF ReadInTurn
  <2> QED
    BY <2>1
<1>3. ASSUME NEW i \in Nat, i \in S PROVE i + 1 \in S
  <2> SUFFICES ASSUME i + 1 <= Len(bytes) PROVE ReadTo(f[i + 1], x1, T, 3 * k + (i + 1))
    OBVIOUS
  <2>1. /\ ReadTo(f[i], x1, T, 3 * k + i) /\ i + 1 \in 1 .. Len(bytes) /\ (i + 1) - 1 = i
        /\ 3 * k + i \in Nat /\ (3 * k + i) + 1 = 3 * k + (i + 1)
    BY <1>3
  <2>2. ByteAt(bytes[i + 1], 3 * k + (i + 1), T)
    BY Zenon, <2>1
  <2>3. f[i + 1] = Stream!ReadByte(f[i], bytes[i + 1])
    BY Zenon, <1>1, <2>1 DEF ReadInTurn
  <2>4. PICK q \in Nat : q = 3 * k + i /\ q + 1 = 3 * k + (i + 1)
    BY <2>1
  <2>5. ReadTo(Stream!ReadByte(f[i], bytes[i + 1]), x1, T, q + 1)
    BY Zenon, <2>1, <2>2, <2>4, ByteRead
  <2> QED
    BY Zenon, <2>3, <2>4, <2>5
<1> HIDE DEF S
<1>4. Len(bytes) \in S
  BY <1>2, <1>3, SetInduction
<1> QED
  BY <1>1, <1>4 DEF S

\* The bytes of a line are numbered by it.
SentAt(i) ==
    CASE i % 3 = 1 -> <<(i + 2) \div 3, "first">>
      [] i % 3 = 2 -> <<(i + 2) \div 3, "second">>
      [] OTHER -> Stream!Newline

\* Between chunks: k lines were handed on, the buffer holds what came of the next
\* one, and what is coming is the rest of the answer, the last newline perhaps
\* not sent.  A line of which only the first half has come is torn.
Underway(texts, buffered, rest, replied, T, k) ==
    /\ HandedOn(texts, replied, k)
    /\ buffered \in Seq(Stream!Bytes) /\ Len(buffered) < 3
    /\ \A i \in 1 .. Len(buffered) : ByteAt(buffered[i], 3 * k + i, T)
    /\ Len(buffered) = 1 => k + 1 \in T
    /\ rest \in Seq(Stream!Bytes)
    /\ \A i \in 1 .. Len(rest) : rest[i] = SentAt(3 * k + Len(buffered) + i)
    /\ 3 * k + Len(buffered) + Len(rest) \in 3 * Len(replied) - 1 .. 3 * Len(replied)

StreamTypes ==
    /\ x1 \in Seq(Stream!Lines) /\ x2 \in Seq(Stream!Bytes) /\ x3 \in Seq(Stream!Bytes)
    /\ x4 \in Seq(Nat) /\ x5 \in SUBSET Nat /\ x6 \in BOOLEAN
    /\ x7 \in {"reading", "ok", "error"} /\ x8 \in SUBSET Nat
StreamInv ==
    /\ StreamTypes /\ Stream!OnlyTornDamaged
    /\ x7 = "reading" => \E k \in Nat : Underway(x4, x3, x2, x1, x8, k)
    /\ x7 = "error" => \E k \in 0 .. Len(x1) : HandedOn(x4, x1, k)
    /\ x7 = "ok" => HandedOn(x4, x1, Len(x1))

LEMMA PlaceInLine ==
    ASSUME NEW i \in Nat
    PROVE  /\ ByteAt(SentAt(i), i, {})
           /\ SentAt(i)[2] = "first" <=> i % 3 = 1
           /\ SentAt(i)[2] = "second" <=> i % 3 = 2
           /\ i % 3 # 0 => SentAt(i)[1] = (i + 2) \div 3
<1>0. PICK b : b = SentAt(i)
  BY Zenon
<1>1. PICK k \in Nat, r \in 0 .. 2 : i = 3 * k + r /\ i \div 3 = k /\ i % 3 = r
  BY InThirds
<1>2. PICK n : n = (i + 2) \div 3
  OBVIOUS
<1>3. CASE r = 0
  <2>1. i % 3 = 0 /\ i % 3 # 1 /\ i % 3 # 2
    BY <1>1, <1>3
  <2>2. b = Stream!Newline
    BY Zenon, <1>0, <2>1 DEF SentAt
  <2>3. b[2] = "newline" /\ b[2] # "cut" /\ b[2] # "first" /\ b[2] # "second"
    BY <2>2 DEF Stream!Newline
  <2>4. ByteAt(b, i, {})
    BY <2>1, <2>2, <2>3 DEF ByteAt, Stream!Bytes
  <2> QED
    BY Zenon, <1>0, <2>1, <2>3, <2>4
<1>4. CASE r # 0
  <2>1. n \in Nat \ {0} /\ i % 3 # 0 /\ (i % 3 = 1 \/ i % 3 = 2) /\ 2 # 1
    BY <1>1, <1>2, <1>4
  <2>2. /\ i % 3 = 1 => b = <<n, "first">>
        /\ i % 3 = 2 => b = <<n, "second">>
    BY Zenon, <1>0, <1>2, <2>1 DEF SentAt
  <2>3. b = <<n, "first">> \/ b = <<n, "second">>
    BY Zenon, <2>1, <2>2
  <2>4. /\ b \in Stream!Bytes /\ b[1] = n /\ b # Stream!Newline /\ b[2] # "cut"
        /\ b[2] = "first" <=> i % 3 = 1
        /\ b[2] = "second" <=> i % 3 = 2
    BY <2>1, <2>2, <2>3 DEF Stream!Bytes, Stream!Halves, Stream!Newline
  <2>5. ByteAt(b, i, {})
    BY Zenon, <1>2, <2>1, <2>4 DEF ByteAt
  <2> QED
    BY Zenon, <1>0, <1>2, <2>4, <2>5
<1> QED
  BY <1>3, <1>4

\* An answer is sent byte by byte, with or without its last newline.
LEMMA SentWhole ==
    ASSUME NEW replied \in Seq(Stream!Lines), NEW newline \in BOOLEAN
    PROVE  Underway(<<>>, <<>>, Stream!Sent(replied, newline), replied, {}, 0)
<1>1. PICK l \in Nat : l = Len(replied) /\ (replied = <<>> => l = 0) /\ (l = 0 => replied = <<>>)
  BY EmptySeq, LenProperties
<1>2. PICK n : n = IF replied = <<>> \/ newline THEN 3 * Len(replied) ELSE 3 * Len(replied) - 1
  BY Zenon
<1>3. n \in Nat /\ n \in 3 * l - 1 .. 3 * l
  <2>1. CASE replied = <<>> \/ newline
    <3>1. n = 3 * l
      BY Zenon, <1>1, <1>2, <2>1
    <3> QED
      BY <3>1
  <2>2. CASE ~(replied = <<>> \/ newline)
    <3>1. n = 3 * l - 1 /\ l # 0
      BY Zenon, <1>1, <1>2, <2>2
    <3> QED
      BY <3>1
  <2> QED
    BY Zenon, <2>1, <2>2
<1>4. PICK rest : rest = Stream!Sent(replied, newline)
  BY Zenon
<1>5. rest = [i \in 1 .. n |-> SentAt(i)]
  BY Zenon, <1>2, <1>4 DEF Stream!Sent, SentAt
<1>6. ASSUME NEW i \in 1 .. n PROVE rest[i] = SentAt(i) /\ rest[i] \in Stream!Bytes
  <2>1. i \in Nat
    OBVIOUS
  <2>2. rest[i] = SentAt(i)
    BY Zenon, <1>5
  <2> QED
    BY Zenon, <2>1, <2>2, PlaceInLine DEF ByteAt
<1>7. rest \in Seq(Stream!Bytes) /\ Len(rest) = n
  <2>1. rest \in [1 .. n -> Stream!Bytes]
    BY Zenon, <1>5, <1>6
  <2> QED
    BY <1>3, <2>1, SeqDef, LenProperties
<1>8. HandedOn(<<>>, replied, 0)
  BY DEF HandedOn
<1>9. PICK b : b = <<>>
  OBVIOUS
<1>10. b \in Seq(Stream!Bytes) /\ Len(b) = 0 /\ Len(b) < 3 /\ Len(b) # 1 /\ 1 .. Len(b) = {}
  BY <1>9
<1>11. /\ \A i \in 1 .. n : 3 * 0 + 0 + i = i
       /\ 3 * 0 + 0 + n = n
  BY <1>3
<1>12. \A i \in 1 .. n : rest[i] = SentAt(3 * 0 + Len(b) + i)
  BY Zenon, <1>6, <1>10, <1>11
<1>13. \A i \in 1 .. Len(b) : ByteAt(b[i], 3 * 0 + i, {})
  BY Zenon, <1>10
<1>14. 3 * 0 + Len(b) + n \in 3 * l - 1 .. 3 * l
  BY Zenon, <1>3, <1>10, <1>11
<1> QED
  BY Zenon, <1>1, <1>4, <1>7, <1>8, <1>9, <1>10, <1>12, <1>13, <1>14 DEF Underway

LEMMA StreamInit ==
    ASSUME Stream!Init
    PROVE  StreamInv
<1>1. x1 \in Seq(Stream!Lines)
  BY InferenceAssumption DEF Stream!Init, Stream!OllamaAssumption
<1>2. PICK newline \in BOOLEAN : x2 = Stream!Sent(x1, newline)
  BY DEF Stream!Init
<1>3. /\ x3 = <<>> /\ x4 = <<>> /\ x5 = {} /\ x6 = FALSE /\ x7 = "reading" /\ x8 = {}
  BY DEF Stream!Init
<1>4. Underway(x4, x3, x2, x1, x8, 0)
  BY Zenon, <1>1, <1>2, <1>3, SentWhole
<1>5. x2 \in Seq(Stream!Bytes) /\ x3 \in Seq(Stream!Bytes) /\ x4 \in Seq(Nat)
  BY Zenon, <1>4 DEF Underway, HandedOn
<1>6. StreamTypes
  BY <1>1, <1>3, <1>5 DEF StreamTypes
<1>7. 0 \in Nat
  OBVIOUS
<1> QED
  BY <1>3, <1>4, <1>6, <1>7 DEF StreamInv, Stream!OnlyTornDamaged

\* A chunk damages the lines it begins or ends inside of.
LEMMA SpoilKeeps ==
    ASSUME NEW c \in Seq(Stream!Bytes), NEW p \in Nat, NEW T,
           \A i \in 1 .. Len(c) : c[i] = SentAt(p + i),
           p % 3 = 1 => (p + 3) \div 3 \in T,
           (p + Len(c)) % 3 = 1 => (p + Len(c) + 2) \div 3 \in T
    PROVE  /\ Stream!Spoil(c) \in Seq(Stream!Bytes) /\ Len(Stream!Spoil(c)) = Len(c)
           /\ \A i \in 1 .. Len(c) : ByteAt(Stream!Spoil(c)[i], p + i, T)
<1>1. PICK n \in Nat : n = Len(c) /\ DOMAIN c = 1 .. n
  BY LenProperties
<1>2. PICK s : s = Stream!Spoil(c)
  BY Zenon
<1>3. DOMAIN s = 1 .. n /\ s = [i \in 1 .. n |-> s[i]]
  BY Zenon, <1>1, <1>2 DEF Stream!Spoil
<1>4. \A i \in 1 .. n : \/ s[i] = c[i]
                        \/ s[i] = Stream!Newline /\ c[i] = Stream!Newline
                        \/ /\ s[i] = <<c[i][1], "cut">> /\ c[i] # Stream!Newline
                           /\ \/ i = 1 /\ c[i][2] = "second"
                              \/ i = n /\ c[i][2] = "first"
  BY Zenon, <1>1, <1>2 DEF Stream!Spoil
<1>5. ASSUME NEW i \in 1 .. n PROVE ByteAt(s[i], p + i, T)
  <2>1. PICK q \in Nat : q = p + i
    OBVIOUS
  <2>2. c[i] = SentAt(q)
    BY Zenon, <1>1, <2>1
  <2>3. /\ ByteAt(c[i], q, {})
        /\ c[i][2] = "first" <=> q % 3 = 1
        /\ c[i][2] = "second" <=> q % 3 = 2
        /\ q % 3 # 0 => c[i][1] = (q + 2) \div 3
    BY Zenon, <2>2, PlaceInLine
  <2>4. ByteAt(c[i], q, T)
    BY <2>3 DEF ByteAt
  <2>5. CASE /\ s[i] = <<c[i][1], "cut">> /\ c[i] # Stream!Newline
             /\ \/ i = 1 /\ c[i][2] = "second"
                \/ i = n /\ c[i][2] = "first"
    <3>1. c[i] \in (Nat \ {0}) \X Stream!Halves
      BY <2>4, <2>5 DEF ByteAt, Stream!Bytes
    <3>2. PICK m : m = c[i][1]
      BY Zenon
    <3>3. m \in Nat \ {0} /\ s[i] = <<m, "cut">>
      BY <2>5, <3>1, <3>2
    <3>4. s[i] \in Stream!Bytes /\ s[i] # Stream!Newline /\ s[i][1] = m
      BY <3>3 DEF Stream!Bytes, Stream!Halves, Stream!Newline
    <3>5. m \in T
      <4>1. CASE i = 1 /\ c[i][2] = "second"
        <5>1. q % 3 = 2 /\ q % 3 # 0
          BY Zenon, <2>3, <4>1, TwoNotZero
        <5>2. q = p + 1 /\ q + 2 = p + 3
          BY <2>1, <4>1
        <5>3. p % 3 = 1
          BY Zenon, <5>1, <5>2, OneBeforeTwo
        <5> QED
          BY Zenon, <2>3, <3>2, <5>1, <5>2, <5>3
      <4>2. CASE i = n /\ c[i][2] = "first"
        <5>1. q % 3 = 1 /\ q % 3 # 0
          BY Zenon, <2>3, <4>2, TwoNotZero
        <5>2. (p + Len(c)) % 3 = 1 /\ q + 2 = p + Len(c) + 2
          BY <1>1, <2>1, <4>2, <5>1
        <5> QED
          BY Zenon, <2>3, <3>2, <5>1, <5>2
      <4> QED
        BY Zenon, <2>5, <4>1, <4>2
    <3> QED
      BY Zenon, <2>1, <2>4, <2>5, <3>2, <3>4, <3>5 DEF ByteAt
  <2> QED
    BY Zenon, <1>4, <2>1, <2>4, <2>5
<1>6. s \in [1 .. n -> Stream!Bytes]
  BY Zenon, <1>3, <1>5 DEF ByteAt
<1>7. s \in Seq(Stream!Bytes) /\ Len(s) = n
  BY <1>6, SeqDef, LenProperties
<1> QED
  BY Zenon, <1>1, <1>2, <1>5, <1>7

LEMMA BeforeIsRead ==
    ASSUME StreamTypes, NEW k \in Nat, HandedOn(x4, x1, k), NEW T, x5 \subseteq T
    PROVE  ReadTo(Stream!Before, x1, T, 3 * k)
<1>1. PICK s : s = Stream!Before
  BY Zenon
<1>2. s = [texts |-> x4, hurt |-> x5, count |-> x6, line |-> <<>>]
  BY Zenon, <1>1 DEF Stream!Before
<1>3. s \in ReadStates /\ s.texts = x4 /\ s.line = <<>> /\ s.hurt \subseteq T
  <2>1. <<>> \in Seq(Stream!Bytes)
    OBVIOUS
  <2> QED
    BY <1>2, <2>1 DEF StreamTypes, ReadStates
<1>4. Len(s.line) = 0 /\ 1 .. 0 = {} /\ (3 * k) \div 3 = k /\ (3 * k) % 3 = 0
  BY <1>3
<1> QED
  BY Zenon, <1>1, <1>3, <1>4 DEF ReadTo

\* A chunk of n bytes comes.
Arrives(n) ==
    /\ n \in DOMAIN x2
    /\ x8' = x8 \cup (IF x2[n][2] = "first" THEN {x2[n][1]} ELSE {})

\* What is in the buffer with the next n bytes is at the places that follow the
\* lines that were handed on, and the chunk tears the line it ends inside of.
LEMMA BufferedPlaces ==
    ASSUME NEW k \in Nat, Underway(x4, x3, x2, x1, x8, k), NEW n \in DOMAIN x2, Arrives(n)
    PROVE  /\ Len(Stream!Buffered(n)) = Len(x3) + n
           /\ \A i \in 1 .. Len(x3) + n : ByteAt(Stream!Buffered(n)[i], 3 * k + i, x8')
           /\ (3 * k + Len(x3) + n) % 3 = 1 => (3 * k + Len(x3) + n + 2) \div 3 \in x8'
<1>1. PICK l, m \in Nat : l = Len(x3) /\ m = Len(x2) /\ DOMAIN x2 = 1 .. m
  BY LenProperties DEF Underway
<1>2. PICK c : c = SubSeq(x2, 1, n)
  BY Zenon
<1>3. x2 \in Seq(Stream!Bytes) /\ x3 \in Seq(Stream!Bytes) /\ n \in Nat /\ 1 <= n /\ n <= m
  BY <1>1 DEF Underway
<1>4. c \in Seq(Stream!Bytes) /\ Len(c) = n /\ \A i \in 1 .. n : c[i] = x2[i]
  BY <1>1, <1>2, <1>3
<1>5. PICK p \in Nat : p = 3 * k + l
  BY <1>1
<1>6. \A i \in 1 .. n : x2[i] = SentAt(p + i) /\ c[i] = SentAt(p + i)
  <2>1. \A i \in 1 .. n : i \in 1 .. m
    BY <1>3
  <2>2. \A i \in 1 .. m : x2[i] = SentAt(p + i)
    BY Zenon, <1>1, <1>5 DEF Underway
  <2> QED
    BY Zenon, <1>4, <2>1, <2>2
<1>13. p % 3 = 1 => (p + 3) \div 3 \in x8'
  <2>1. l < 3 /\ (l = 1 => k + 1 \in x8) /\ x8 \subseteq x8'
    BY <1>1 DEF Underway, Arrives
  <2>2. p % 3 = 1 => l = 1 /\ (p + 3) \div 3 = k + 1
    BY <1>1, <1>5, <2>1
  <2> QED
    BY Zenon, <2>1, <2>2
<1>14. (p + n) % 3 = 1 => (p + n + 2) \div 3 \in x8'
  <2>1. PICK q \in Nat : q = p + n
    BY <1>3
  <2>2. n \in 1 .. n /\ (q % 3 = 1 => q % 3 # 0)
    BY <1>3
  <2>3. x2[n] = SentAt(q)
    BY Zenon, <1>6, <2>1, <2>2
  <2>4. /\ x2[n][2] = "first" <=> q % 3 = 1
        /\ q % 3 # 0 => x2[n][1] = (q + 2) \div 3
    BY Zenon, <2>3, PlaceInLine
  <2>5. x2[n][2] = "first" => x2[n][1] \in x8'
    BY DEF Arrives
  <2> QED
    BY Zenon, <2>1, <2>2, <2>4, <2>5
<1>7. PICK d : d = Stream!Spoil(c)
  BY Zenon
<1>8. d \in Seq(Stream!Bytes) /\ Len(d) = n /\ \A i \in 1 .. n : ByteAt(d[i], p + i, x8')
  <2>1. /\ \A i \in 1 .. Len(c) : c[i] = SentAt(p + i)
        /\ (p + Len(c)) % 3 = 1 => (p + Len(c) + 2) \div 3 \in x8'
    BY Zenon, <1>4, <1>6, <1>14
  <2> QED
    BY Zenon, <1>4, <1>7, <1>13, <2>1, SpoilKeeps
<1>9. PICK b : b = Stream!Buffered(n)
  BY Zenon
<1>10. b = x3 \o d
  BY Zenon, <1>2, <1>7, <1>9 DEF Stream!Buffered
<1>11. /\ Len(b) = l + n
       /\ \A i \in 1 .. l + n : b[i] = IF i <= l THEN x3[i] ELSE d[i - l]
  BY <1>1, <1>3, <1>8, <1>10, ConcatProperties
<1>12. ASSUME NEW i \in 1 .. l + n PROVE ByteAt(b[i], 3 * k + i, x8')
  <2>1. CASE i <= l
    <3>1. i \in 1 .. l
      BY <2>1
    <3>2. ByteAt(x3[i], 3 * k + i, x8')
      BY Zenon, <1>1, <3>1 DEF Underway, ByteAt, Arrives
    <3> QED
      BY Zenon, <1>11, <2>1, <3>2
  <2>2. CASE ~(i <= l)
    <3>1. PICK j \in 1 .. n : j = i - l /\ p + j = 3 * k + i
      BY <1>3, <1>5, <2>2
    <3>2. ByteAt(d[j], p + j, x8')
      BY Zenon, <1>8
    <3> QED
      BY Zenon, <1>11, <2>2, <3>1, <3>2
  <2> QED
    BY Zenon, <2>1, <2>2
<1>15. 3 * k + Len(x3) + n = p + n
  BY <1>1, <1>3, <1>5
<1> QED
  BY Zenon, <1>1, <1>9, <1>11, <1>12, <1>14, <1>15

LEMMA StreamChunk ==
    ASSUME StreamInv, NEW n \in DOMAIN x2, Stream!Chunk(n)
    PROVE  StreamInv'
<1>1. /\ x7 = "reading" /\ x7' = x7 /\ x1' = x1 /\ x2' = SubSeq(x2, n + 1, Len(x2))
      /\ Arrives(n)
  BY DEF Stream!Chunk, Stream!Arrive, Arrives
<1>2. PICK k \in Nat : Underway(x4, x3, x2, x1, x8, k)
  BY <1>1 DEF StreamInv
<1>3. PICK s : s = Stream!Reading(Stream!Buffered(n))
  BY Zenon
<1>4. x4' = s.texts /\ x5' = s.hurt /\ x6' = s.count /\ x3' = s.line
  BY Zenon, <1>3 DEF Stream!Chunk, Stream!Becomes
<1>5. PICK l, m \in Nat : l = Len(x3) /\ m = Len(x2) /\ DOMAIN x2 = 1 .. m
  BY <1>2, LenProperties DEF Underway
<1>6. n \in Nat /\ n <= m /\ l + n \in Nat /\ m - n \in Nat
  BY <1>5
<1>7. PICK q \in Nat : q = 3 * k + (l + n)
  BY <1>6
<1>8. /\ ReadTo(s, x1, x8', q)
      /\ q % 3 = 1 => (q + 2) \div 3 \in x8'
  <2>0. x5 \subseteq x8'
    BY <1>1 DEF StreamInv, Stream!OnlyTornDamaged, Arrives
  <2>1. ReadTo(Stream!Before, x1, x8', 3 * k)
    BY <1>2, <2>0, BeforeIsRead DEF StreamInv, Underway
  <2>2. PICK b : b = Stream!Buffered(n)
    BY Zenon
  <2>3. /\ Len(b) = l + n /\ \A i \in 1 .. l + n : ByteAt(b[i], 3 * k + i, x8')
        /\ (3 * k + l + n) % 3 = 1 => (3 * k + l + n + 2) \div 3 \in x8'
    BY Zenon, <1>1, <1>2, <1>5, <2>2, BufferedPlaces
  <2>4. Len(b) \in Nat /\ \A i \in 1 .. Len(b) : ByteAt(b[i], 3 * k + i, x8')
    BY Zenon, <1>6, <2>3
  <2>5. ReadTo(Stream!Reading(b), x1, x8', 3 * k + Len(b))
    BY Zenon, <2>1, <2>4, ReadingReads
  <2>6. 3 * k + l + n = q
    BY <1>5, <1>6, <1>7
  <2> QED
    BY Zenon, <1>3, <1>7, <2>2, <2>3, <2>5, <2>6
<1>9. PICK j \in Nat, r \in 0 .. 2 : q = 3 * j + r /\ q \div 3 = j /\ q % 3 = r
  BY InThirds
<1>10. r \in Nat /\ 3 * j + r = 3 * k + (l + n)
  BY <1>7, <1>9
<1>11. /\ s \in ReadStates /\ s.hurt \subseteq x8' /\ HandedOn(s.texts, x1, j) /\ Len(s.line) = r
       /\ \A i \in 1 .. r : ByteAt(s.line[i], 3 * j + i, x8')
  BY <1>8, <1>9 DEF ReadTo
<1>12. PICK c : c = SubSeq(x2, n + 1, Len(x2))
  BY Zenon
<1>13. /\ c \in Seq(Stream!Bytes) /\ Len(c) = m - n
       /\ \A i \in 1 .. m - n : c[i] = x2[n + i]
  <2>1. x2 \in Seq(Stream!Bytes)
    BY <1>2 DEF Underway
  <2>2. c = SubSeq(x2, n + 1, m) /\ n + 1 \in Int /\ m \in Int
    BY <1>5, <1>6, <1>12
  <2>3. \A i \in n + 1 .. m : x2[i] \in Stream!Bytes
    BY <1>5, <1>6, <2>1
  <2>4. /\ c \in Seq(Stream!Bytes) /\ Len(c) = IF n + 1 <= m THEN m - (n + 1) + 1 ELSE 0
        /\ \A i \in 1 .. m - (n + 1) + 1 : c[i] = x2[n + 1 + i - 1]
    BY <2>2, <2>3, SubSeqProperties
  <2>5. m - (n + 1) + 1 = m - n /\ \A i \in 1 .. m - n : n + 1 + i - 1 = n + i
    BY <1>6
  <2> QED
    BY <1>5, <1>6, <2>4, <2>5
<1>14. \A i \in 1 .. m - n : c[i] = SentAt(3 * j + r + i)
  <2> SUFFICES ASSUME NEW i \in 1 .. m - n PROVE c[i] = SentAt(3 * j + r + i)
    OBVIOUS
  <2>1. PICK h \in 1 .. m : h = n + i /\ 3 * k + l + h = 3 * j + r + i
    <3>1. n + i \in 1 .. m
      BY <1>6
    <3>2. i \in Nat
      BY <1>6
    <3>3. 3 * k + l + (n + i) = 3 * j + r + i
      <4>1. PICK e, f \in Nat : e = 3 * k /\ f = 3 * j
        OBVIOUS
      <4>2. f + r = e + (l + n)
        BY <1>10, <4>1
      <4>3. e + l + (n + i) = f + r + i
        BY <1>6, <1>10, <3>2, <4>2
      <4> QED
        BY Zenon, <4>1, <4>3
    <3> QED
      BY Zenon, <3>1, <3>3
  <2>2. x2[h] = SentAt(3 * k + l + h)
    BY Zenon, <1>2, <1>5 DEF Underway
  <2> QED
    BY Zenon, <1>13, <2>1, <2>2
<1>15. 3 * j + r + (m - n) \in 3 * Len(x1) - 1 .. 3 * Len(x1)
  <2>1. 3 * k + l + m \in 3 * Len(x1) - 1 .. 3 * Len(x1)
    BY Zenon, <1>2, <1>5 DEF Underway
  <2>2. 3 * j + r + (m - n) = 3 * k + l + m
    BY <1>6, <1>10
  <2> QED
    BY Zenon, <2>1, <2>2
<1>16. s.line \in Seq(Stream!Bytes) /\ s.texts \in Seq(Nat) /\ s.hurt \in SUBSET Nat /\ s.count \in BOOLEAN
  BY <1>11 DEF ReadStates
<1>17. r < 3
  OBVIOUS
<1>18. r = 1 => j + 1 \in x8'
  <2>1. r = 1 => q % 3 = 1 /\ (q + 2) \div 3 = j + 1
    BY <1>9
  <2> QED
    BY Zenon, <1>8, <2>1
<1>19. Underway(s.texts, s.line, c, x1, x8', j)
  BY Zenon, <1>11, <1>13, <1>14, <1>15, <1>16, <1>17, <1>18 DEF Underway
<1>20. Underway(x4, x3, x2, x1, x8, j)'
  BY Zenon, <1>1, <1>4, <1>12, <1>19 DEF Underway, HandedOn, ByteAt, SentAt
<1>21. x8' \in SUBSET Nat
  <2>1. x2[n] \in Stream!Bytes /\ x8 \in SUBSET Nat
    BY <1>5 DEF StreamInv, StreamTypes
  <2>2. x2[n][1] \in Nat
    BY <2>1 DEF Stream!Bytes, Stream!Newline
  <2> QED
    BY <1>1, <2>1, <2>2 DEF Arrives
<1>22. StreamTypes'
  BY <1>1, <1>4, <1>12, <1>13, <1>16, <1>21 DEF StreamTypes, StreamInv
<1>23. Stream!OnlyTornDamaged'
  BY <1>4, <1>11 DEF Stream!OnlyTornDamaged
<1> QED
  BY <1>1, <1>20, <1>22, <1>23 DEF StreamInv

LEMMA StreamBreak ==
    ASSUME StreamInv, Stream!Break
    PROVE  StreamInv'
<1>1. /\ x7 = "reading" /\ x7' = "error" /\ x1' = x1 /\ x2' = x2 /\ x3' = x3 /\ x4' = x4
      /\ x5' = x5 /\ x6' = x6 /\ x8' = x8
  BY DEF Stream!Break
<1>2. PICK k \in Nat : Underway(x4, x3, x2, x1, x8, k)
  BY <1>1 DEF StreamInv
<1>3. PICK l \in Nat : l = Len(x1)
  BY LenProperties DEF StreamInv, StreamTypes
<1>4. k \in 0 .. Len(x1)
  <2>1. PICK a, b \in Nat : a = Len(x3) /\ b = Len(x2)
    BY <1>2, LenProperties DEF Underway
  <2>2. 3 * k + a + b \in 3 * l - 1 .. 3 * l
    BY Zenon, <1>2, <1>3, <2>1 DEF Underway
  <2> QED
    BY <1>3, <2>2
<1>5. HandedOn(x4, x1, k)'
  BY Zenon, <1>1, <1>2 DEF Underway, HandedOn
<1>6. StreamTypes' /\ Stream!OnlyTornDamaged'
  BY <1>1 DEF StreamInv, StreamTypes, Stream!OnlyTornDamaged
<1>7. \E i \in 0 .. Len(x1) : HandedOn(x4, x1, i)'
  BY <1>4, <1>5
<1> QED
  BY <1>1, <1>6, <1>7 DEF StreamInv

LEMMA StreamEnd ==
    ASSUME StreamInv, Stream!EndOfStream
    PROVE  StreamInv'
<1>1. /\ x7 = "reading" /\ x7' = "ok" /\ x2 = <<>> /\ x3' = <<>> /\ x1' = x1 /\ x2' = x2
      /\ x8' = x8
  BY DEF Stream!EndOfStream
<1>2. PICK k \in Nat : Underway(x4, x3, x2, x1, x8, k)
  BY <1>1 DEF StreamInv
<1>3. PICK l, a \in Nat : /\ l = Len(x1) /\ a = Len(x3) /\ (a = 0 => x3 = <<>>)
                          /\ (x3 = <<>> => a = 0)
  BY <1>2, LenProperties, EmptySeq DEF StreamInv, StreamTypes, Underway
<1>4. a < 3 /\ 3 * k + a \in 3 * l - 1 .. 3 * l
  <2>1. Len(x2) = 0
    BY <1>1
  <2>2. a < 3 /\ 3 * k + a + 0 \in 3 * l - 1 .. 3 * l
    BY Zenon, <1>2, <1>3, <2>1 DEF Underway
  <2> QED
    BY <2>2
<1>5. PICK s : s = IF x3 = <<>> THEN Stream!Before ELSE Stream!Read(x3, Stream!Before)
  BY Zenon
<1>6. x4' = s.texts /\ x5' = s.hurt /\ x6' = s.count
  BY Zenon, <1>5 DEF Stream!EndOfStream, Stream!Becomes
<1>7. PICK b : b = Stream!Before
  BY Zenon
<1>8. b \in ReadStates /\ b.hurt \subseteq x8 /\ HandedOn(b.texts, x1, k)
  <2>1. ReadTo(b, x1, x8, 3 * k)
    BY <1>2, <1>7, BeforeIsRead DEF StreamInv, Underway, Stream!OnlyTornDamaged
  <2>2. (3 * k) \div 3 = k
    OBVIOUS
  <2> QED
    BY <2>1, <2>2 DEF ReadTo
<1>9. s \in ReadStates /\ s.hurt \subseteq x8 /\ HandedOn(s.texts, x1, l)
  <2>1. CASE x3 = <<>>
    <3>1. k = l
      BY <1>3, <1>4, <2>1
    <3> QED
      BY Zenon, <1>5, <1>7, <1>8, <2>1, <3>1
  <2>2. CASE x3 # <<>>
    <3>1. a \in 1 .. 2 /\ k + 1 = l /\ 1 \in 1 .. a
      BY <1>3, <1>4, <2>2
    <3>2. /\ x3 \in Seq(Stream!Bytes) /\ Len(x3) = a /\ a \in 0 .. 2
          /\ \A i \in 1 .. a : ByteAt(x3[i], 3 * k + i, x8)
      BY Zenon, <1>2, <1>3, <3>1, ZeroToTwo DEF Underway
    <3>3. x3[1][1] = k + 1 /\ (Stream!Cut(x3) => k + 1 \in x8)
      BY Zenon, <3>1, <3>2, BytesOfLine
    <3>5. /\ Stream!Read(x3, b) \in ReadStates /\ Stream!Read(x3, b).hurt \subseteq x8
          /\ HandedOn(Stream!Read(x3, b).texts, x1, k + 1)
      BY <1>8, <3>3, LineIsRead
    <3> QED
      BY Zenon, <1>5, <1>7, <2>2, <3>1, <3>5
  <2> QED
    BY Zenon, <2>1, <2>2
<1>10. s.texts \in Seq(Nat) /\ s.hurt \in SUBSET Nat /\ s.count \in BOOLEAN
  BY <1>9 DEF ReadStates
<1>11. <<>> \in Seq(Stream!Bytes)
  OBVIOUS
<1>12. StreamTypes' /\ Stream!OnlyTornDamaged'
  BY <1>1, <1>6, <1>9, <1>10, <1>11 DEF StreamInv, StreamTypes, Stream!OnlyTornDamaged
<1>13. HandedOn(x4, x1, Len(x1))'
  BY Zenon, <1>1, <1>3, <1>6, <1>9 DEF HandedOn
<1> QED
  BY <1>1, <1>12, <1>13 DEF StreamInv

LEMMA StreamStep == StreamInv /\ Stream!Next => StreamInv'
BY StreamChunk, StreamBreak, StreamEnd DEF Stream!Next

LEMMA HandedOnInOrder ==
    ASSUME NEW k \in 0 .. Len(x1), HandedOn(x4, x1, k), x1 \in Seq(Stream!Lines),
           x7 # "ok" \/ k = Len(x1)
    PROVE  Stream!TextsInOrder
<1>1. PICK l \in Nat : l = Len(x1) /\ DOMAIN x1 = 1 .. l
  BY LenProperties
<1>2. \A i \in 1 .. k : i \in 1 .. l
  BY <1>1
<1>3. \A i \in DOMAIN x4 : x4[i] \in 1 .. k /\ x4[i] \in DOMAIN x1 /\ x1[x4[i]] = "text"
  BY Zenon, <1>1, <1>2 DEF HandedOn
<1>4. \A i, j \in DOMAIN x4 : i < j => x4[i] < x4[j]
  BY Zenon DEF HandedOn
<1>5. ASSUME NEW n \in DOMAIN x1, x1[n] = "text"
      PROVE  \/ \E i \in DOMAIN x4 : x4[i] = n
             \/ x7 # "ok" /\ \A i \in DOMAIN x4 : x4[i] < n
  <2>1. CASE n \in 1 .. k
    BY Zenon, <1>5, <2>1 DEF HandedOn
  <2>2. CASE n \notin 1 .. k
    <3>1. k # l /\ \A m \in 1 .. k : m < n
      BY <1>1, <2>2
    <3> QED
      BY Zenon, <1>1, <1>3, <3>1
  <2> QED
    BY Zenon, <2>1, <2>2
<1> QED
  BY Zenon, <1>3, <1>4, <1>5 DEF Stream!TextsInOrder

LEMMA StreamKeeps ==
    ASSUME StreamInv
    PROVE  Stream!TypeOK /\ Stream!TextsInOrder /\ Stream!OnlyTornDamaged
<1>1. Stream!TypeOK /\ Stream!OnlyTornDamaged
  BY DEF StreamInv, StreamTypes, Stream!TypeOK
<1>2. x1 \in Seq(Stream!Lines) /\ x7 \in {"reading", "ok", "error"}
  BY DEF StreamInv, StreamTypes
<1>3. PICK l \in Nat : l = Len(x1) /\ l \in 0 .. l
  BY <1>2, LenProperties
<1>4. CASE x7 = "reading"
  <2>1. PICK k \in Nat : Underway(x4, x3, x2, x1, x8, k)
    BY <1>4 DEF StreamInv
  <2>2. PICK a, b \in Nat : a = Len(x3) /\ b = Len(x2)
    BY <2>1, LenProperties DEF Underway
  <2>3. 3 * k + a + b \in 3 * l - 1 .. 3 * l
    BY Zenon, <1>3, <2>1, <2>2 DEF Underway
  <2>4. k \in 0 .. Len(x1)
    BY <1>3, <2>3
  <2> QED
    BY <1>1, <1>2, <1>4, <2>1, <2>4, HandedOnInOrder DEF Underway
<1>5. CASE x7 = "error"
  <2>1. PICK k \in 0 .. Len(x1) : HandedOn(x4, x1, k)
    BY <1>5 DEF StreamInv
  <2> QED
    BY <1>1, <1>2, <1>5, <2>1, HandedOnInOrder
<1>6. CASE x7 = "ok"
  <2>1. HandedOn(x4, x1, Len(x1)) /\ Len(x1) \in 0 .. Len(x1)
    BY <1>3, <1>6 DEF StreamInv
  <2> QED
    BY <1>1, <1>2, <2>1, HandedOnInOrder
<1> QED
  BY <1>2, <1>4, <1>5, <1>6

-------------------------------------------------------------------------------
(* The engine                                                              *)

Inv ==
    /\ part = "queue" => QueueInv
    /\ part = "cache" => CacheInv
    /\ part = "engine" => EngineInv
    /\ part = "download" => DownloadInv
    /\ part = "shelf" => ShelfInv
    /\ part = "text" => TextInv
    /\ part = "stream" => StreamInv

LEMMA InvInit == Init => Inv
<1> SUFFICES ASSUME Init PROVE Inv
  OBVIOUS
<1>1. CASE part = "queue" /\ Queue!Init
  BY <1>1, QueueInit DEF Inv
<1>2. CASE part = "cache" /\ Cache!Init
  BY <1>2, CacheInit DEF Inv
<1>3. CASE part = "download" /\ Download!Init
  BY <1>3, DownloadInit DEF Inv
<1>4. CASE part = "shelf" /\ Shelf!Init
  BY <1>4, ShelfInit DEF Inv
<1>5. CASE part = "engine" /\ Engine!Init
  BY <1>5, EngineInit DEF Inv
<1>6. CASE part = "text" /\ Text!Init
  BY <1>6, TextInit DEF Inv
<1>7. CASE part = "stream" /\ Stream!Init
  BY <1>7, StreamInit DEF Inv
<1> QED
  BY <1>1, <1>2, <1>3, <1>4, <1>5, <1>6, <1>7 DEF Init

LEMMA StepKeeps == Inv /\ Next => Inv'
<1> SUFFICES ASSUME Inv, Next PROVE Inv'
  OBVIOUS
<1>1. CASE part = "queue" /\ part' = part /\ Queue!Next
  BY <1>1, QueueStep DEF Inv
<1>2. CASE part = "cache" /\ part' = part /\ Cache!Next
  BY <1>2, CacheStep DEF Inv
<1>3. CASE part = "download" /\ part' = part /\ Download!Next
  BY <1>3, DownloadStep DEF Inv
<1>4. CASE part = "shelf" /\ part' = part /\ Shelf!Next
  BY <1>4, ShelfStep DEF Inv
<1>5. CASE part = "engine" /\ part' = part /\ Engine!Next
  BY <1>5, EngineStep DEF Inv
<1>6. CASE part = "text" /\ part' = part /\ Text!Next
  BY <1>6, TextStep DEF Inv
<1>7. CASE part = "stream" /\ part' = part /\ Stream!Next
  BY <1>7, StreamStep DEF Inv
<1> QED
  BY <1>1, <1>2, <1>3, <1>4, <1>5, <1>6, <1>7 DEF Next, In, InQueue, InEngine, InText

LEMMA StutterKeeps == Inv /\ UNCHANGED vars => Inv'
<1> SUFFICES ASSUME Inv, UNCHANGED vars PROVE Inv'
  OBVIOUS
<1>1. /\ part' = part /\ x1' = x1 /\ x2' = x2 /\ x3' = x3 /\ x4' = x4 /\ x5' = x5 /\ x6' = x6
      /\ x7' = x7 /\ x8' = x8 /\ x9' = x9 /\ x10' = x10 /\ x11' = x11 /\ x12' = x12 /\ x13' = x13
  BY DEF vars, own
<1>2. QueueInv => QueueInv'
  <2>1. Queue!Held' = Queue!Held /\ Counting' = Counting
    BY <1>1 DEF Queue!Held, Queue!Elements, Counting
  <2>2. Queue!DepthCovers => Queue!DepthCovers'
    BY <1>1, <2>1, QueueDepth
  <2> QED
    BY <1>1, <2>1, <2>2 DEF QueueInv, QueueShape, QueueHands, Queue!TypeOK, Queue!OneAnswer,
        Queue!Elements, Distinct
<1>3. CacheInv => CacheInv'
  <2>1. Cache!MemoryCovers => Cache!MemoryCovers'
    BY <1>1, CacheCovers
  <2>2. Entering' = Entering /\ Pledge(x4', x5', x6') = Pledge(x4, x5, x6)
    BY <1>1 DEF Entering
  <2> QED
    BY <1>1, <2>1, <2>2 DEF CacheInv, Cache!TypeOK, Pledge, Promised
<1>4. DownloadInv => DownloadInv'
  <2>1. Download!TypeOK => Download!TypeOK'
    BY <1>1 DEF Download!TypeOK
  <2>2. ASSUME NEW d \in Drivers, DriverInv(d) PROVE DriverInv(d)'
    BY <1>1, <2>2 DEF DriverInv, Download!Whole
  <2>3. Download!OfferedIsWhole => Download!OfferedIsWhole'
    BY <1>1 DEF Download!OfferedIsWhole, Download!Whole
  <2>4. Download!MarksAreWritten => Download!MarksAreWritten'
    BY <1>1 DEF Download!MarksAreWritten
  <2> QED
    BY <1>1, <2>1, <2>2, <2>3, <2>4 DEF DownloadInv
<1>5. ShelfInv => ShelfInv'
  <2>1. ShelfTypes => ShelfTypes'
    BY <1>1 DEF ShelfTypes
  <2>2. ASSUME NEW d \in Fetches, FetchInv(d) PROVE FetchInv(d)'
    BY <1>1, <2>2 DEF FetchInv
  <2>3. FetchesMeet => FetchesMeet'
    BY <1>1 DEF FetchesMeet, Shelf!UnderWay, Shelf!WritersMet
  <2>4. WrittenAlone => WrittenAlone'
    BY <1>1 DEF WrittenAlone, Shelf!Alone
  <2>5. Shelf!SuccessIsRegistered => Shelf!SuccessIsRegistered'
    BY <1>1 DEF Shelf!SuccessIsRegistered, Shelf!Alone
  <2> QED
    BY <2>1, <2>2, <2>3, <2>4, <2>5 DEF ShelfInv
<1>6. EngineInv => EngineInv'
  BY <1>1 DEF EngineInv, Engine!TypeOK, Engine!RightModel, Engine!LightStaysLight,
      Engine!RunsLocal, Engine!Local, Engine!Found, Fitting
<1>7. TextInv => TextInv'
  BY <1>1 DEF TextInv, Text!TypeOK, Text!FittingIsAnswered, Text!EveryTokenFed,
      Text!StreamCoversText, Text!CutAtStop, Text!Running
<1>8. StreamInv => StreamInv'
  BY <1>1 DEF StreamInv, StreamTypes, Stream!OnlyTornDamaged, Underway, HandedOn, ByteAt, SentAt
<1> QED
  BY <1>1, <1>2, <1>3, <1>4, <1>5, <1>6, <1>7, <1>8 DEF Inv

LEMMA InvHolds == Spec => []Inv
<1>1. Inv /\ [Next]_vars => Inv'
  BY StepKeeps, StutterKeeps
<1> QED
  BY <1>1, InvInit, PTL DEF Spec

\* However callers, loaders and the processor interleave, queue_depth and the
\* cache's memory counter fall short by no more than what is on its way into
\* them, and number and memory of the loaded models pass their limits by at most
\* one model for each other loader (inference/batch.rs:214 and :302,
\* inference/cache.rs:82).
THEOREM CountersKeepUp == Spec => []CountersCover
<1>1. QueueInv => Queue!TypeOK /\ Queue!DepthCovers
  BY DEF QueueInv, QueueShape
<1>2. CacheInv => /\ Cache!TypeOK /\ Cache!MemoryCovers
                  /\ Cache!MemoryBounded /\ Cache!TableBounded
  <2> SUFFICES ASSUME CacheInv PROVE Cache!TableBounded
    BY CacheBounded DEF CacheInv
  <2>1. Cardinality(x1) <= MaxModels + Cardinality(Loaders) - 1
    BY CacheSets, CacheConstants
  <2>2. Cache!Cardinality(x1) = Cardinality(x1) /\ Cache!Cardinality(Loaders) = Cardinality(Loaders)
    BY CacheCardinality
  <2> QED
    BY <2>1, <2>2 DEF Cache!TableBounded
<1>3. /\ DownloadInv => Download!TypeOK
      /\ EngineInv => Engine!TypeOK
      /\ TextInv => Text!TypeOK
  BY DEF DownloadInv, EngineInv, TextInv
<1>4. Inv => CountersCover
  BY <1>1, <1>2, <1>3 DEF Inv, CountersCover, Typed
<1> QED
  BY <1>4, InvHolds, PTL

\* A caller has one answer, by the model and the kind of back end it was routed
\* for; what is offered to peers is one whole version; a download that met no other
\* leaves the whole file and a registry that knows it; a text that fits is produced
\* and shown in full (inference/batch.rs:319, inference/mod.rs:563,
\* inference/distribution.rs:411, models_hf.rs:201, inference/gguf.rs:418).
THEOREM AnsweredAsAsked == Spec => []AsAsked
<1>1. QueueInv => Queue!OneAnswer
  BY DEF QueueInv
<1>2. EngineInv => Engine!RightModel /\ Engine!LightStaysLight
  BY DEF EngineInv
<1>3. DownloadInv => Download!OfferedIsWhole /\ Download!MarksAreWritten
  BY DEF DownloadInv
<1>4. ShelfInv => Shelf!SuccessIsWhole /\ Shelf!WritersMet /\ Shelf!SuccessIsRegistered
  BY ShelfWhole DEF ShelfInv, FetchesMeet
<1>5. TextInv => /\ Text!FittingIsAnswered /\ Text!EveryTokenFed
                 /\ Text!StreamCoversText /\ Text!CutAtStop
  BY DEF TextInv
<1>6. Inv => AsAsked
  BY <1>1, <1>2, <1>3, <1>4, <1>5 DEF Inv, AsAsked
<1> QED
  BY <1>6, InvHolds, PTL

\* However the chunks of a stream are cut, each whole line is read once and in
\* its place: the texts handed on are those of the first lines, in order, and a
\* stream that ends has given all of them, the last line also when its newline
\* never came (inference/ollama.rs:339).
THEOREM StreamIsSound == Spec => []StreamSound
<1>1. Inv => StreamSound
  BY StreamKeeps DEF Inv, StreamSound
<1> QED
  BY <1>1, InvHolds, PTL

===============================================================================
