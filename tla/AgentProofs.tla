------------------------------ MODULE AgentProofs ------------------------------
(***************************************************************************)
(* The safety of what works with agents, for any agents, crews, tasks,     *)
(* sessions, clients, memories and limits.  Each part has an inductive     *)
(* invariant of its own, over the variables MCAgents gives it; a step of   *)
(* MCAgents is a step of the part the behaviour is of.                     *)
(***************************************************************************)
EXTENDS MCAgents, SequenceTheorems, FiniteSetTheorems, WellFoundedInduction,
        NaturalsInduction, TLAPS

-------------------------------------------------------------------------------
(* Induction on numbers, and finite sets                                     *)

\* Every non-empty set of naturals has a least element.
LEMMA LeastElement ==
    ASSUME NEW T, T \subseteq Nat, T # {}
    PROVE  \E x \in T : \A y \in T : x <= y
<1>1. IsWellFoundedOn(OpToRel(<, Nat), Nat)
  BY Zenon, NatLessThanWellFounded
<1>2. PICK x \in T : \A y \in T : ~ (<<y, x>> \in OpToRel(<, Nat))
  BY Zenon, <1>1, WFMin
<1>3. \A y \in T : ~ (y < x)
  BY Zenon, <1>2 DEF OpToRel
<1> QED
  BY <1>3

LEMMA SetInduction ==
    ASSUME NEW S, 0 \in S, \A i \in Nat : i \in S => i + 1 \in S
    PROVE  \A i \in Nat : i \in S
<1> DEFINE T == {i \in Nat : i \notin S}
<1>1. SUFFICES ASSUME T # {} PROVE FALSE
  OBVIOUS
<1>2. PICK x \in T : \A y \in T : x <= y
  <2> HIDE DEF T
  <2>1. T \subseteq Nat
    BY DEF T
  <2> QED
    BY Zenon, <1>1, <2>1, LeastElement
<1>3. x \in Nat /\ x \notin S /\ x # 0
  OBVIOUS
<1>4. x - 1 \in Nat /\ x - 1 \notin T
  BY <1>2, <1>3
<1> QED
  BY <1>3, <1>4

LEMMA OneMoreOrLess ==
    ASSUME NEW T, IsFiniteSet(T), NEW S, S \subseteq T
    PROVE  /\ IsFiniteSet(S) /\ Cardinality(S) \in Nat
           /\ \A t \in T \ S : Cardinality(S \cup {t}) = Cardinality(S) + 1
           /\ \A t \in S : Cardinality(S) > 0 /\ Cardinality(S \ {t}) = Cardinality(S) - 1
<1>1. IsFiniteSet(S)
  BY FS_Subset
<1>2. Cardinality(S) \in Nat
  BY <1>1, FS_CardinalityType
<1>3. ASSUME NEW t \in T \ S PROVE Cardinality(S \cup {t}) = Cardinality(S) + 1
  BY <1>1, <1>3, FS_AddElement
<1>4. ASSUME NEW t \in S PROVE Cardinality(S) > 0 /\ Cardinality(S \ {t}) = Cardinality(S) - 1
  <2>1. Cardinality(S \ {t}) = Cardinality(S) - 1
    BY <1>1, FS_RemoveElement
  <2>2. Cardinality(S \ {t}) \in Nat
    BY <1>1, FS_Subset, FS_CardinalityType
  <2> QED
    BY <1>2, <2>1, <2>2
<1> QED
  BY <1>1, <1>2, <1>3, <1>4

-------------------------------------------------------------------------------
(* Sequences                                                               *)

\* Nothing is twice in s.
Distinct(s) == \A i, j \in DOMAIN s : s[i] = s[j] => i = j
Elements(s) == {s[i] : i \in DOMAIN s}

LEMMA AppendElements ==
    ASSUME NEW S, NEW s \in Seq(S), NEW e \in S
    PROVE  /\ Append(s, e) \in Seq(S)
           /\ Len(Append(s, e)) = Len(s) + 1
           /\ Elements(Append(s, e)) = Elements(s) \cup {e}
           /\ Distinct(s) /\ e \notin Elements(s) => Distinct(Append(s, e))
<1>1. /\ Append(s, e) \in Seq(S) /\ Len(s) \in Nat /\ Len(Append(s, e)) = Len(s) + 1
      /\ \A i \in 1 .. Len(s) : Append(s, e)[i] = s[i]
      /\ Append(s, e)[Len(s) + 1] = e
  OBVIOUS
<1>2. DOMAIN s = 1 .. Len(s) /\ DOMAIN Append(s, e) = 1 .. Len(s) + 1
  BY <1>1
<1>3. \A i \in 1 .. Len(s) + 1 : i \in 1 .. Len(s) \/ i = Len(s) + 1
  BY <1>1
<1>4. \A i \in 1 .. Len(s) : i \in 1 .. Len(s) + 1 /\ Len(s) + 1 \in 1 .. Len(s) + 1
  BY <1>1
<1>5. Elements(Append(s, e)) = Elements(s) \cup {e}
  <2>1. Len(s) + 1 \in 1 .. Len(s) + 1
    BY <1>1
  <2> QED
    BY <1>1, <1>2, <1>3, <1>4, <2>1 DEF Elements
<1>6. Distinct(s) /\ e \notin Elements(s) => Distinct(Append(s, e))
  BY <1>1, <1>2, <1>3 DEF Distinct, Elements
<1> QED
  BY <1>1, <1>5, <1>6

LEMMA TailElements ==
    ASSUME NEW S, NEW s \in Seq(S), s # <<>>
    PROVE  /\ Head(s) \in S /\ Tail(s) \in Seq(S)
           /\ Len(Tail(s)) = Len(s) - 1
           /\ Elements(s) = Elements(Tail(s)) \cup {Head(s)}
           /\ Distinct(s) => Distinct(Tail(s)) /\ Head(s) \notin Elements(Tail(s))
<1>1. /\ Len(s) \in Nat /\ Len(s) >= 1 /\ Head(s) = s[1] /\ Head(s) \in S
      /\ Tail(s) \in Seq(S) /\ Len(Tail(s)) = Len(s) - 1
      /\ \A i \in 1 .. Len(s) - 1 : Tail(s)[i] = s[i + 1]
  OBVIOUS
<1>2. DOMAIN s = 1 .. Len(s) /\ DOMAIN Tail(s) = 1 .. Len(s) - 1
  BY <1>1
<1>3. /\ 1 \in 1 .. Len(s)
      /\ \A i \in 1 .. Len(s) - 1 : i + 1 \in 1 .. Len(s) /\ i + 1 # 1
      /\ \A i \in 1 .. Len(s) : i # 1 => i - 1 \in 1 .. Len(s) - 1 /\ (i - 1) + 1 = i
  BY <1>1
<1>4. Elements(s) = Elements(Tail(s)) \cup {Head(s)}
  <2>1. \A i \in 1 .. Len(s) : i = 1 \/ s[i] = Tail(s)[i - 1]
    BY <1>1, <1>3
  <2>2. Elements(s) \subseteq Elements(Tail(s)) \cup {Head(s)}
    <3> SUFFICES ASSUME NEW i \in 1 .. Len(s), i # 1
                 PROVE  \E j \in DOMAIN Tail(s) : s[i] = Tail(s)[j]
      BY <1>1, <1>2 DEF Elements
    <3>1. i - 1 \in DOMAIN Tail(s) /\ s[i] = Tail(s)[i - 1]
      BY <1>2, <1>3, <2>1
    <3> QED
      BY Zenon, <3>1
  <2>3. Elements(Tail(s)) \cup {Head(s)} \subseteq Elements(s)
    BY <1>1, <1>2, <1>3 DEF Elements
  <2> QED
    BY <2>2, <2>3
<1>5. ASSUME Distinct(s) PROVE Distinct(Tail(s)) /\ Head(s) \notin Elements(Tail(s))
  <2>1. \A i, j \in 1 .. Len(s) - 1 : i + 1 = j + 1 => i = j
    BY <1>1
  <2>2. Distinct(Tail(s))
    BY <1>1, <1>2, <1>3, <1>5, <2>1 DEF Distinct
  <2>3. Head(s) \notin Elements(Tail(s))
    BY <1>1, <1>2, <1>3, <1>5 DEF Distinct, Elements
  <2> QED
    BY <2>2, <2>3
<1> QED
  BY <1>1, <1>4, <1>5

-------------------------------------------------------------------------------
(* The elements of a sequence that are in a set                            *)

OnlyIn(s, S) ==
    LET only[i \in 0 .. Len(s)] ==
          IF i = 0 THEN <<>>
          ELSE IF s[i] \in S THEN Append(only[i - 1], s[i]) ELSE only[i - 1]
    IN  only[Len(s)]

\* f has the result for every beginning of s, up to n elements.
Filtering(f, s, S, n) ==
    /\ f = [i \in 0 .. n |-> f[i]]
    /\ f[0] = <<>>
    /\ \A i \in 1 .. n : f[i] = IF s[i] \in S THEN Append(f[i - 1], s[i]) ELSE f[i - 1]

LEMMA FilteringExists ==
    ASSUME NEW s, NEW S, NEW n \in Nat
    PROVE  \E f : Filtering(f, s, S, n)
<1> DEFINE T == {k \in Nat : \E f : Filtering(f, s, S, k)}
<1>1. 0 \in T
  <2> DEFINE f == [i \in 0 .. 0 |-> <<>>]
  <2>1. f = [i \in 0 .. 0 |-> f[i]] /\ f[0] = <<>> /\ 1 .. 0 = {}
    OBVIOUS
  <2>2. Filtering(f, s, S, 0)
    BY <2>1 DEF Filtering
  <2> QED
    BY <2>2
<1>2. ASSUME NEW k \in Nat, k \in T PROVE k + 1 \in T
  <2>1. PICK f : Filtering(f, s, S, k)
    BY <1>2
  <2> DEFINE e == IF s[k + 1] \in S THEN Append(f[k], s[k + 1]) ELSE f[k]
             g == [i \in 0 .. k + 1 |-> IF i = k + 1 THEN e ELSE f[i]]
  <2>2. g[0] = <<>>
    BY <2>1 DEF Filtering
  <2>3. ASSUME NEW i \in 1 .. k + 1
        PROVE  g[i] = IF s[i] \in S THEN Append(g[i - 1], s[i]) ELSE g[i - 1]
    <3>1. CASE i = k + 1
      <4>1. g[i] = e /\ g[i - 1] = f[k]
        BY <3>1
      <4> QED
        BY <3>1, <4>1
    <3>2. CASE i # k + 1
      <4>1. i \in 1 .. k /\ g[i] = f[i] /\ g[i - 1] = f[i - 1]
        BY <3>2
      <4> QED
        BY Zenon, <2>1, <4>1 DEF Filtering
    <3> QED
      BY <3>1, <3>2
  <2>4. g = [i \in 0 .. k + 1 |-> g[i]]
    OBVIOUS
  <2> HIDE DEF g
  <2>5. Filtering(g, s, S, k + 1)
    BY Zenon, <2>2, <2>3, <2>4 DEF Filtering
  <2> QED
    BY <2>5
<1> HIDE DEF T
<1>3. n \in T
  BY <1>1, <1>2, SetInduction
<1> QED
  BY <1>3 DEF T

\* Beginnings that agree have the same results.
LEMMA FilteringAgrees ==
    ASSUME NEW s, NEW t, NEW S, NEW m \in Nat, NEW n \in Nat, m <= n,
           \A i \in 1 .. m : s[i] = t[i],
           NEW f, Filtering(f, s, S, m), NEW g, Filtering(g, t, S, n)
    PROVE  f[m] = g[m]
<1> DEFINE T == {k \in Nat : k <= m => f[k] = g[k]}
<1>1. 0 \in T
  BY DEF Filtering
<1>2. ASSUME NEW k \in Nat, k \in T PROVE k + 1 \in T
  <2> SUFFICES ASSUME k + 1 <= m PROVE f[k + 1] = g[k + 1]
    OBVIOUS
  <2>1. f[k] = g[k] /\ k + 1 \in 1 .. m /\ k + 1 \in 1 .. n /\ (k + 1) - 1 = k
    BY <1>2
  <2>2. f[k + 1] = IF s[k + 1] \in S THEN Append(f[k], s[k + 1]) ELSE f[k]
    BY Zenon, <2>1 DEF Filtering
  <2>3. g[k + 1] = IF t[k + 1] \in S THEN Append(g[k], t[k + 1]) ELSE g[k]
    BY Zenon, <2>1 DEF Filtering
  <2>4. s[k + 1] = t[k + 1]
    BY <2>1
  <2> QED
    BY <2>1, <2>2, <2>3, <2>4
<1> HIDE DEF T
<1>3. m \in T
  BY <1>1, <1>2, SetInduction
<1> QED
  BY <1>3 DEF T

LEMMA OnlyIsFiltering ==
    ASSUME NEW s, Len(s) \in Nat, NEW S
    PROVE  \E f : Filtering(f, s, S, Len(s)) /\ OnlyIn(s, S) = f[Len(s)]
<1>1. PICK g : Filtering(g, s, S, Len(s))
  BY Zenon, FilteringExists
<1> DEFINE IsOnly(f) ==
      f = [i \in 0 .. Len(s) |->
             IF i = 0 THEN <<>>
             ELSE IF s[i] \in S THEN Append(f[i - 1], s[i]) ELSE f[i - 1]]
           only == CHOOSE f : IsOnly(f)
<1>2. IsOnly(g)
  <2>1. \A i \in 0 .. Len(s) : i = 0 \/ i \in 1 .. Len(s)
    OBVIOUS
  <2>2. \A i \in 0 .. Len(s) :
          g[i] = IF i = 0 THEN <<>>
                 ELSE IF s[i] \in S THEN Append(g[i - 1], s[i]) ELSE g[i - 1]
    BY Zenon, <1>1, <2>1 DEF Filtering
  <2>3. g = [i \in 0 .. Len(s) |-> g[i]]
    BY <1>1 DEF Filtering
  <2> QED
    BY <2>2, <2>3
<1>3. IsOnly(only)
  <2> HIDE DEF IsOnly
  <2> QED
    BY <1>2
<1>4. OnlyIn(s, S) = only[Len(s)]
  BY Zenon DEF OnlyIn
<1>5. Filtering(only, s, S, Len(s))
  <2> HIDE DEF only
  <2>1. only = [i \in 0 .. Len(s) |-> only[i]]
    BY <1>3
  <2>2. only[0] = <<>>
    BY <1>3
  <2>3. ASSUME NEW i \in 1 .. Len(s)
        PROVE  only[i] = IF s[i] \in S THEN Append(only[i - 1], s[i]) ELSE only[i - 1]
    <3>1. i \in 0 .. Len(s) /\ i # 0
      OBVIOUS
    <3> QED
      BY Zenon, <1>3, <3>1
  <2> QED
    BY Zenon, <2>1, <2>2, <2>3 DEF Filtering
<1> QED
  BY Zenon, <1>4, <1>5

LEMMA OnlyOfNone ==
    ASSUME NEW S
    PROVE  OnlyIn(<<>>, S) = <<>>
<1>1. PICK f : Filtering(f, <<>>, S, Len(<<>>)) /\ OnlyIn(<<>>, S) = f[Len(<<>>)]
  <2>1. Len(<<>>) \in Nat
    OBVIOUS
  <2> QED
    BY <2>1, OnlyIsFiltering
<1>2. Len(<<>>) = 0
  OBVIOUS
<1> QED
  BY <1>1, <1>2 DEF Filtering

LEMMA OnlyOfAppend ==
    ASSUME NEW A, NEW s \in Seq(A), NEW e \in A, NEW S
    PROVE  OnlyIn(Append(s, e), S) = IF e \in S THEN Append(OnlyIn(s, S), e) ELSE OnlyIn(s, S)
<1> DEFINE t == Append(s, e)
<1>1. /\ Len(s) \in Nat /\ Len(t) = Len(s) + 1 /\ t[Len(s) + 1] = e
      /\ \A i \in 1 .. Len(s) : s[i] = t[i]
  OBVIOUS
<1> HIDE DEF t
<1>2. PICK f : Filtering(f, s, S, Len(s)) /\ OnlyIn(s, S) = f[Len(s)]
  BY <1>1, OnlyIsFiltering
<1>3. PICK g : Filtering(g, t, S, Len(t)) /\ OnlyIn(t, S) = g[Len(t)]
  BY <1>1, OnlyIsFiltering
<1>4. f[Len(s)] = g[Len(s)]
  BY <1>1, <1>2, <1>3, FilteringAgrees
<1>5. Len(s) + 1 \in 1 .. Len(t) /\ (Len(s) + 1) - 1 = Len(s)
  BY <1>1
<1>6. g[Len(s) + 1] = IF t[Len(s) + 1] \in S THEN Append(g[Len(s)], t[Len(s) + 1]) ELSE g[Len(s)]
  BY Zenon, <1>3, <1>5 DEF Filtering
<1> QED
  BY <1>1, <1>2, <1>3, <1>4, <1>6 DEF t

\* What holds of the results is proved from the front of a sequence.
LEMMA AnySeq ==
    ASSUME NEW A, NEW T, <<>> \in T,
           \A s \in Seq(A), e \in A : s \in T => Append(s, e) \in T
    PROVE  \A s \in Seq(A) : s \in T
<1> DEFINE M == {n \in Nat : \A s \in Seq(A) : Len(s) = n => s \in T}
<1>1. 0 \in M
  <2>1. \A s \in Seq(A) : Len(s) = 0 => s = <<>>
    BY EmptySeq
  <2> QED
    BY <2>1
<1>2. ASSUME NEW n \in Nat, n \in M PROVE n + 1 \in M
  <2> SUFFICES ASSUME NEW s \in Seq(A), Len(s) = n + 1 PROVE s \in T
    OBVIOUS
  <2> DEFINE t == SubSeq(s, 1, n)
  <2>1. t \in Seq(A) /\ Len(t) = n /\ s[n + 1] \in A
    OBVIOUS
  <2>2. Append(t, s[n + 1]) = s
    <3>1. /\ Append(t, s[n + 1]) \in Seq(A) /\ Len(Append(t, s[n + 1])) = n + 1
          /\ \A i \in 1 .. n + 1 : Append(t, s[n + 1])[i] = s[i]
      OBVIOUS
    <3> HIDE DEF t
    <3> QED
      BY <3>1, SeqEqual
  <2> HIDE DEF t
  <2>3. t \in T
    BY <1>2, <2>1
  <2> QED
    BY Zenon, <2>1, <2>2, <2>3
<1> HIDE DEF M
<1>3. \A n \in Nat : n \in M
  BY <1>1, <1>2, SetInduction
<1> QED
  BY <1>3, LenProperties DEF M

LEMMA OnlyIsSeq ==
    ASSUME NEW A, NEW S
    PROVE  \A s \in Seq(A) : OnlyIn(s, S) \in Seq(A \cap S) /\ Len(OnlyIn(s, S)) <= Len(s)
<1> DEFINE T == {s \in Seq(A) : OnlyIn(s, S) \in Seq(A \cap S) /\ Len(OnlyIn(s, S)) <= Len(s)}
<1>1. <<>> \in T
  <2>1. <<>> \in Seq(A) /\ <<>> \in Seq(A \cap S) /\ Len(<<>>) = 0 /\ 0 <= 0
    OBVIOUS
  <2>2. OnlyIn(<<>>, S) = <<>>
    BY OnlyOfNone
  <2>3. OnlyIn(<<>>, S) \in Seq(A \cap S) /\ Len(OnlyIn(<<>>, S)) <= Len(<<>>)
    BY <2>1, <2>2, Zenon
  <2> QED
    BY <2>1, <2>3
<1>2. ASSUME NEW s \in Seq(A), NEW e \in A, s \in T PROVE Append(s, e) \in T
  <2> DEFINE o == OnlyIn(s, S)
  <2>1. o \in Seq(A \cap S) /\ Len(o) <= Len(s) /\ Len(o) \in Nat /\ Len(s) \in Nat
    BY <1>2, LenProperties
  <2>2. OnlyIn(Append(s, e), S) = IF e \in S THEN Append(o, e) ELSE o
    BY OnlyOfAppend
  <2> HIDE DEF o
  <2>3. e \in S => Append(o, e) \in Seq(A \cap S) /\ Len(Append(o, e)) = Len(o) + 1
    BY <2>1
  <2>4. Append(s, e) \in Seq(A) /\ Len(Append(s, e)) = Len(s) + 1
    OBVIOUS
  <2> QED
    BY <2>1, <2>2, <2>3, <2>4
<1> HIDE DEF T
<1>3. \A s \in Seq(A) : s \in T
  BY <1>1, <1>2, AnySeq
<1> QED
  BY <1>3 DEF T

AppendsLast(s, t, e) == Append(s \o t, e) = s \o Append(t, e)

LEMMA AppendAfter ==
    ASSUME NEW B, NEW s, s \in Seq(B), NEW t, t \in Seq(B), NEW e, e \in B
    PROVE  AppendsLast(s, t, e)
BY DEF AppendsLast

LEMMA OnlyOfBoth ==
    ASSUME NEW A, NEW S, NEW s \in Seq(A)
    PROVE  \A t \in Seq(A) : OnlyIn(s \o t, S) = OnlyIn(s, S) \o OnlyIn(t, S)
<1> DEFINE T == {t \in Seq(A) : OnlyIn(s \o t, S) = OnlyIn(s, S) \o OnlyIn(t, S)}
<1>1. <<>> \in T
  <2>1. s \o <<>> = s /\ OnlyIn(s, S) \in Seq(A \cap S)
    BY OnlyIsSeq
  <2>2. OnlyIn(s, S) \o <<>> = OnlyIn(s, S)
    BY <2>1
  <2>3. <<>> \in Seq(A)
    OBVIOUS
  <2> QED
    BY <2>1, <2>2, <2>3, OnlyOfNone
<1>2. ASSUME NEW t \in Seq(A), NEW e \in A, t \in T PROVE Append(t, e) \in T
  <2>1. s \o Append(t, e) = Append(s \o t, e) /\ s \o t \in Seq(A) /\ Append(t, e) \in Seq(A)
    OBVIOUS
  <2>2. OnlyIn(s \o t, S) = OnlyIn(s, S) \o OnlyIn(t, S)
    BY <1>2
  <2>3. OnlyIn(Append(s \o t, e), S) = IF e \in S THEN Append(OnlyIn(s \o t, S), e) ELSE OnlyIn(s \o t, S)
    BY Zenon, <2>1, OnlyOfAppend
  <2>4. OnlyIn(Append(t, e), S) = IF e \in S THEN Append(OnlyIn(t, S), e) ELSE OnlyIn(t, S)
    BY OnlyOfAppend
  <2>5. OnlyIn(s, S) \in Seq(A \cap S) /\ OnlyIn(t, S) \in Seq(A \cap S)
    BY OnlyIsSeq
  <2>6. PICK o1, o2, B : /\ o1 = OnlyIn(s, S) /\ o2 = OnlyIn(t, S) /\ B = A \cap S
                         /\ o1 \in Seq(B) /\ o2 \in Seq(B)
    BY <2>5
  <2>7. e \in S => Append(o1 \o o2, e) = o1 \o Append(o2, e)
    <3> SUFFICES ASSUME e \in S PROVE Append(o1 \o o2, e) = o1 \o Append(o2, e)
      BY Zenon
    <3>1. e \in B /\ o1 \in Seq(B) /\ o2 \in Seq(B)
      BY <2>6
    <3>2. AppendsLast(o1, o2, e)
      BY <3>1, AppendAfter
    <3> QED
      BY <3>2 DEF AppendsLast
  <2> QED
    BY Zenon, <2>1, <2>2, <2>3, <2>4, <2>6, <2>7
<1> HIDE DEF T
<1>3. \A t \in Seq(A) : t \in T
  BY <1>1, <1>2, AnySeq
<1> QED
  BY <1>3 DEF T

-------------------------------------------------------------------------------
(* Sums over a finite set                                                  *)

Taken(S) == CHOOSE x \in S : TRUE

\* g has the sums of f over the subsets of D of up to n elements.
UpTo(D, n) == {S \in SUBSET D : Cardinality(S) <= n}
Summing(g, f, D, n) ==
    /\ g = [S \in UpTo(D, n) |-> g[S]]
    /\ g[{}] = 0
    /\ \A S \in UpTo(D, n) : S # {} => g[S] = f[Taken(S)] + g[S \ {Taken(S)}]

LEMMA SubsetSmaller ==
    ASSUME NEW D, IsFiniteSet(D), NEW S, S \subseteq D
    PROVE  /\ IsFiniteSet(S) /\ Cardinality(S) \in Nat
           /\ S = {} <=> Cardinality(S) = 0
           /\ \A x \in S : /\ Cardinality(S \ {x}) = Cardinality(S) - 1
                           /\ Cardinality(S) > 0
                           /\ S \ {x} \subseteq D
           /\ S # {} => Taken(S) \in S
<1>1. IsFiniteSet(S) /\ Cardinality(S) \in Nat /\ Cardinality(S) <= Cardinality(D)
  BY FS_Subset, FS_CardinalityType
<1>2. S = {} <=> Cardinality(S) = 0
  BY <1>1, FS_EmptySet
<1>3. \A x \in S : Cardinality(S \ {x}) = Cardinality(S) - 1 /\ Cardinality(S) > 0
  BY <1>1, OneMoreOrLess
<1>4. S # {} => Taken(S) \in S
  BY DEF Taken
<1> QED
  BY <1>1, <1>2, <1>3, <1>4

LEMMA SummingExists ==
    ASSUME NEW D, IsFiniteSet(D), NEW f, NEW n \in Nat
    PROVE  \E g : Summing(g, f, D, n)
<1> DEFINE T == {k \in Nat : \E g : Summing(g, f, D, k)}
<1>1. 0 \in T
  <2> DEFINE g == [S \in UpTo(D, 0) |-> 0]
  <2>1. \A S \in UpTo(D, 0) : S = {}
    BY SubsetSmaller DEF UpTo
  <2>2. {} \in UpTo(D, 0)
    BY FS_EmptySet DEF UpTo
  <2>3. g = [S \in UpTo(D, 0) |-> g[S]] /\ g[{}] = 0
    BY <2>2
  <2> HIDE DEF g
  <2>4. Summing(g, f, D, 0)
    BY <2>1, <2>3 DEF Summing
  <2> QED
    BY <2>4
<1>2. ASSUME NEW k \in Nat, k \in T PROVE k + 1 \in T
  <2>1. PICK g : Summing(g, f, D, k)
    BY <1>2
  <2> DEFINE h == [S \in UpTo(D, k + 1) |->
                     IF S = {} THEN 0 ELSE f[Taken(S)] + g[S \ {Taken(S)}]]
  <2>2. \A S \in UpTo(D, k) : S \in UpTo(D, k + 1) /\ h[S] = g[S]
    <3> SUFFICES ASSUME NEW S \in UpTo(D, k) PROVE S \in UpTo(D, k + 1) /\ h[S] = g[S]
      BY Zenon
    <3>1. S \in UpTo(D, k + 1)
      BY SubsetSmaller DEF UpTo
    <3> QED
      BY Zenon, <2>1, <3>1 DEF Summing
  <2>3. \A S \in UpTo(D, k + 1) : S # {} => S \ {Taken(S)} \in UpTo(D, k)
    BY SubsetSmaller DEF UpTo
  <2>4. {} \in UpTo(D, k + 1) /\ {} \in UpTo(D, k)
    BY FS_EmptySet DEF UpTo
  <2>5. h = [S \in UpTo(D, k + 1) |-> h[S]] /\ h[{}] = 0
    BY <2>4
  <2>6. \A S \in UpTo(D, k + 1) : S # {} => h[S] = f[Taken(S)] + g[S \ {Taken(S)}]
    OBVIOUS
  <2> HIDE DEF h
  <2>7. Summing(h, f, D, k + 1)
    BY <2>2, <2>3, <2>5, <2>6 DEF Summing
  <2> QED
    BY <2>7
<1> HIDE DEF T
<1>3. n \in T
  BY <1>1, <1>2, SetInduction
<1> QED
  BY <1>3 DEF T

LEMMA SumIsSumming ==
    ASSUME NEW f, IsFiniteSet(DOMAIN f)
    PROVE  \E g : /\ Summing(g, f, DOMAIN f, Cardinality(DOMAIN f))
                  /\ Network!Sum(f) = g[DOMAIN f]
<1> DEFINE D == DOMAIN f
           n == Cardinality(D)
           IsSum(g) == g = [S \in SUBSET D |->
                              IF S = {} THEN 0
                              ELSE LET x == CHOOSE x \in S : TRUE IN f[x] + g[S \ {x}]]
           sum == CHOOSE g : IsSum(g)
<1>1. n \in Nat /\ UpTo(D, n) = SUBSET D
  BY FS_Subset, FS_CardinalityType DEF UpTo
<1>2. PICK g : Summing(g, f, D, n)
  BY <1>1, SummingExists
<1>3. IsSum(g)
  <2>1. g = [S \in SUBSET D |-> g[S]]
    BY <1>1, <1>2 DEF Summing
  <2>2. \A S \in SUBSET D :
          g[S] = IF S = {} THEN 0 ELSE f[Taken(S)] + g[S \ {Taken(S)}]
    BY Zenon, <1>1, <1>2 DEF Summing
  <2> QED
    BY <2>1, <2>2, Zenon DEF Taken
<1>4. IsSum(sum)
  <2> HIDE DEF IsSum
  <2> QED
    BY <1>3
<1>5. Network!Sum(f) = sum[D]
  BY Zenon DEF Network!Sum
<1>6. Summing(sum, f, D, n)
  <2> HIDE DEF sum
  <2>1. sum = [S \in SUBSET D |-> sum[S]]
    BY <1>4
  <2>2. \A S \in SUBSET D :
          sum[S] = IF S = {} THEN 0 ELSE f[Taken(S)] + sum[S \ {Taken(S)}]
    BY <1>4 DEF Taken
  <2>3. sum[{}] = 0
    BY <2>2
  <2> QED
    BY Zenon, <1>1, <2>1, <2>2, <2>3 DEF Summing
<1> QED
  BY Zenon, <1>5, <1>6

\* Sums are numbers, and any element may be taken first.
LEMMA SumTakes ==
    ASSUME NEW D, IsFiniteSet(D), NEW f, \A x \in D : f[x] \in Nat,
           NEW n \in Nat, NEW g, Summing(g, f, D, n)
    PROVE  \A S \in UpTo(D, n) :
             g[S] \in Nat /\ \A x \in S : g[S] = f[x] + g[S \ {x}]
<1> DEFINE P(S) == g[S] \in Nat /\ \A x \in S : g[S] = f[x] + g[S \ {x}]
           T == {k \in Nat : \A S \in UpTo(D, n) : Cardinality(S) <= k => P(S)}
<1>1. 0 \in T
  <2> SUFFICES ASSUME NEW S \in UpTo(D, n), Cardinality(S) <= 0 PROVE P(S)
    OBVIOUS
  <2>1. S = {}
    BY SubsetSmaller DEF UpTo
  <2> QED
    BY <2>1 DEF Summing
<1>2. ASSUME NEW k \in Nat, k \in T PROVE k + 1 \in T
  <2>0. P({})
    BY DEF Summing
  <2> SUFFICES ASSUME NEW S \in UpTo(D, n), Cardinality(S) <= k + 1, S # {} PROVE P(S)
    BY <2>0
  <2>1. /\ Taken(S) \in S /\ S \subseteq D /\ Cardinality(S) \in Nat
        /\ \A x \in S : /\ Cardinality(S \ {x}) = Cardinality(S) - 1
                        /\ S \ {x} \subseteq D
    BY SubsetSmaller DEF UpTo
  <2>2. PICK c : c = Taken(S)
    OBVIOUS
  <2>3. g[S] = f[c] + g[S \ {c}]
    BY <2>2 DEF Summing
  <2>4. \A x \in S : S \ {x} \in UpTo(D, n) /\ Cardinality(S \ {x}) <= k
    BY <2>1 DEF UpTo
  <2>5. \A x \in S : P(S \ {x})
    BY Zenon, <1>2, <2>4
  <2>6. f[c] \in Nat /\ g[S \ {c}] \in Nat
    BY <2>1, <2>2, <2>5
  <2>7. ASSUME NEW x \in S, x # c PROVE g[S] = f[x] + g[S \ {x}]
    <3>1. g[S \ {c}] = f[x] + g[(S \ {c}) \ {x}]
      BY Zenon, <2>1, <2>2, <2>5, <2>7
    <3>2. g[S \ {x}] = f[c] + g[(S \ {x}) \ {c}]
      BY Zenon, <2>1, <2>2, <2>5, <2>7
    <3>3. (S \ {c}) \ {x} = (S \ {x}) \ {c}
      OBVIOUS
    <3>4. PICK R : R = (S \ {c}) \ {x}
      BY Zenon
    <3>5. R \in UpTo(D, n) /\ Cardinality(R) <= k
      <4>1. PICK Q : Q = S \ {c} /\ Q \in UpTo(D, n) /\ Cardinality(Q) <= k /\ x \in Q
        BY Zenon, <2>1, <2>2, <2>4, <2>7
      <4>2. /\ Cardinality(Q) \in Nat /\ Cardinality(Q \ {x}) = Cardinality(Q) - 1
            /\ Q \ {x} \subseteq D
        BY <4>1, SubsetSmaller DEF UpTo
      <4> QED
        BY <3>4, <4>1, <4>2 DEF UpTo
    <3>6. g[R] \in Nat
      BY <1>2, <3>5
    <3>7. f[x] \in Nat
      BY <2>1
    <3>8. g[S] = f[c] + (f[x] + g[R]) /\ g[S \ {x}] = f[c] + g[R]
      BY Zenon, <2>3, <3>1, <3>2, <3>3, <3>4
    <3> QED
      BY <2>6, <3>6, <3>7, <3>8
  <2>8. g[S] \in Nat
    BY <2>3, <2>6
  <2>9. \A x \in S : g[S] = f[x] + g[S \ {x}]
    BY Zenon, <2>3, <2>7
  <2> QED
    BY <2>8, <2>9
<1> HIDE DEF T
<1>3. \A k \in Nat : k \in T
  BY <1>1, <1>2, SetInduction
<1>4. ASSUME NEW S \in UpTo(D, n) PROVE P(S)
  <2>1. Cardinality(S) \in Nat /\ Cardinality(S) <= Cardinality(S)
    BY SubsetSmaller DEF UpTo
  <2> QED
    BY <1>3, <2>1 DEF T
<1> QED
  BY <1>4

\* What is equal on a set has one sum over it.
LEMMA SumAgrees ==
    ASSUME NEW D, IsFiniteSet(D), NEW f, NEW n \in Nat, NEW g, Summing(g, f, D, n),
           NEW C, IsFiniteSet(C), NEW e, NEW m \in Nat, NEW h, Summing(h, e, C, m)
    PROVE  \A S \in UpTo(D, n) \cap UpTo(C, m) : (\A x \in S : f[x] = e[x]) => g[S] = h[S]
<1> DEFINE P(S) == (\A x \in S : f[x] = e[x]) => g[S] = h[S]
           Both == UpTo(D, n) \cap UpTo(C, m)
           T == {k \in Nat : \A S \in Both : Cardinality(S) <= k => P(S)}
<1>1. 0 \in T
  <2> SUFFICES ASSUME NEW S \in Both, Cardinality(S) <= 0 PROVE P(S)
    OBVIOUS
  <2>1. S = {}
    BY SubsetSmaller DEF UpTo
  <2> QED
    BY <2>1 DEF Summing
<1>2. ASSUME NEW k \in Nat, k \in T PROVE k + 1 \in T
  <2> SUFFICES ASSUME NEW S \in Both, Cardinality(S) <= k + 1, S # {},
                      \A x \in S : f[x] = e[x]
               PROVE  g[S] = h[S]
    BY DEF Summing
  <2>1. /\ Taken(S) \in S /\ S \subseteq D /\ S \subseteq C /\ Cardinality(S) \in Nat
        /\ Cardinality(S \ {Taken(S)}) = Cardinality(S) - 1
    BY SubsetSmaller DEF UpTo
  <2>2. PICK c : c = Taken(S)
    OBVIOUS
  <2>3. g[S] = f[c] + g[S \ {c}] /\ h[S] = e[c] + h[S \ {c}]
    BY Zenon, <2>2 DEF Summing
  <2>4. S \ {c} \in Both /\ Cardinality(S \ {c}) <= k
    BY <2>1, <2>2 DEF UpTo
  <2>5. g[S \ {c}] = h[S \ {c}]
    BY <1>2, <2>4
  <2> QED
    BY <2>1, <2>2, <2>3, <2>5
<1> HIDE DEF T
<1>3. \A k \in Nat : k \in T
  BY <1>1, <1>2, SetInduction
<1>4. ASSUME NEW S \in Both PROVE P(S)
  <2>1. Cardinality(S) \in Nat /\ Cardinality(S) <= Cardinality(S)
    BY SubsetSmaller DEF UpTo
  <2> QED
    BY <1>3, <2>1 DEF T
<1> QED
  BY <1>4

LEMMA SumOf ==
    ASSUME NEW D, IsFiniteSet(D), NEW f \in [D -> Nat]
    PROVE  \E g : /\ Summing(g, f, D, Cardinality(D)) /\ Network!Sum(f) = g[D]
                  /\ g[D] \in Nat
                  /\ \A x \in D : g[D] = f[x] + g[D \ {x}] /\ g[D \ {x}] \in Nat
<1>1. PICK n : n = Cardinality(D) /\ n \in Nat
  BY FS_CardinalityType
<1>2. DOMAIN f = D /\ \A x \in D : f[x] \in Nat
  OBVIOUS
<1>3. PICK g : Summing(g, f, D, n) /\ Network!Sum(f) = g[D]
  BY <1>1, <1>2, SumIsSumming
<1>4. \A S \in UpTo(D, n) : g[S] \in Nat /\ \A x \in S : g[S] = f[x] + g[S \ {x}]
  BY <1>1, <1>2, <1>3, SumTakes
<1>5. D \in UpTo(D, n) /\ \A x \in D : D \ {x} \in UpTo(D, n)
  BY <1>1, SubsetSmaller DEF UpTo
<1>6. g[D] \in Nat /\ \A x \in D : g[D] = f[x] + g[D \ {x}] /\ g[D \ {x}] \in Nat
  BY Zenon, <1>4, <1>5
<1> QED
  BY <1>1, <1>3, <1>6

\* One value changes.
LEMMA SumChanges ==
    ASSUME NEW D, IsFiniteSet(D), NEW f \in [D -> Nat], NEW e \in [D -> Nat], NEW x \in D,
           \A y \in D \ {x} : e[y] = f[y]
    PROVE  /\ Network!Sum(f) \in Nat /\ Network!Sum(e) \in Nat
           /\ Network!Sum(e) + f[x] = Network!Sum(f) + e[x]
<1>1. PICK n : n = Cardinality(D) /\ n \in Nat /\ D \ {x} \in UpTo(D, n)
  BY SubsetSmaller DEF UpTo
<1>2. PICK g : /\ Summing(g, f, D, n) /\ Network!Sum(f) = g[D] /\ g[D] \in Nat
               /\ g[D] = f[x] + g[D \ {x}] /\ g[D \ {x}] \in Nat
  BY Zenon, <1>1, SumOf
<1>3. PICK h : /\ Summing(h, e, D, n) /\ Network!Sum(e) = h[D] /\ h[D] \in Nat
               /\ h[D] = e[x] + h[D \ {x}]
  BY Zenon, <1>1, SumOf
<1>4. g[D \ {x}] = h[D \ {x}]
  BY <1>1, <1>2, <1>3, SumAgrees
<1>5. f[x] \in Nat /\ e[x] \in Nat
  OBVIOUS
<1> QED
  BY <1>2, <1>3, <1>4, <1>5

\* One value more.
LEMMA SumGrows ==
    ASSUME NEW D, IsFiniteSet(D), NEW f \in [D -> Nat], NEW x, x \notin D,
           NEW e \in [D \cup {x} -> Nat], \A y \in D : e[y] = f[y]
    PROVE  Network!Sum(e) = Network!Sum(f) + e[x] /\ Network!Sum(f) \in Nat
<1>1. PICK C : C = D \cup {x}
  OBVIOUS
<1>2. IsFiniteSet(C) /\ C \ {x} = D /\ x \in C /\ e \in [C -> Nat]
  BY <1>1, FS_AddElement
<1>3. PICK n, m : /\ n = Cardinality(D) /\ n \in Nat /\ D \in UpTo(D, n)
                  /\ m = Cardinality(C) /\ m \in Nat /\ D \in UpTo(C, m)
  BY <1>2, SubsetSmaller, FS_CardinalityType DEF UpTo
<1>4. PICK g : Summing(g, f, D, n) /\ Network!Sum(f) = g[D] /\ g[D] \in Nat
  BY <1>3, SumOf
<1>5. PICK h : Summing(h, e, C, m) /\ Network!Sum(e) = h[C] /\ h[C] = e[x] + h[D]
  BY Zenon, <1>2, <1>3, SumOf
<1>6. h[D] = g[D]
  BY <1>2, <1>3, <1>4, <1>5, SumAgrees
<1>7. e[x] \in Nat
  BY <1>2
<1> QED
  BY <1>4, <1>5, <1>6, <1>7

LEMMA SumOfZeros ==
    ASSUME NEW x, NEW f \in [{x} -> Nat], f[x] = 0
    PROVE  Network!Sum(f) = 0
<1>1. IsFiniteSet({x}) /\ {x} \ {x} = {} /\ x \in {x}
  BY Zenon, FS_Singleton
<1>2. PICK D : D = {x} /\ IsFiniteSet(D) /\ x \in D /\ f \in [D -> Nat]
  BY <1>1
<1>3. PICK g : /\ Summing(g, f, D, Cardinality(D)) /\ Network!Sum(f) = g[D]
               /\ g[D] = f[x] + g[D \ {x}]
  BY <1>2, SumOf
<1>4. D \ {x} = {} /\ g[{}] = 0
  BY <1>2, <1>3 DEF Summing
<1> QED
  BY <1>3, <1>4

-------------------------------------------------------------------------------
(* Ranks: how many come before each member of a finite set, in an order      *)

\* before[m]: those of S that come before m.
Ordering(S, before) ==
    /\ before \in [S -> SUBSET S]
    /\ \A m \in S : m \notin before[m]
    /\ \A m, n \in S : m # n => m \in before[n] \/ n \in before[m]
    /\ \A l, m, n \in S : l \in before[m] /\ m \in before[n] => l \in before[n]

Rank(before, m) == Cardinality(before[m])
RankedBy(S, before) ==
    /\ \A m, n \in S : Rank(before, m) = Rank(before, n) => m = n
    /\ \A k \in 1 .. Cardinality(S) : \E m \in S : Rank(before, m) = k - 1

LEMMA RankRises ==
    ASSUME NEW S, IsFiniteSet(S), NEW before, Ordering(S, before), NEW n \in S
    PROVE  /\ Rank(before, n) \in Nat /\ Rank(before, n) < Cardinality(S)
           /\ \A m \in before[n] : Rank(before, m) < Rank(before, n)
<1>1. /\ IsFiniteSet(before[n]) /\ Cardinality(before[n]) \in Nat
      /\ before[n] \subseteq S \ {n}
  BY FS_Subset, FS_CardinalityType DEF Ordering
<1>2. Cardinality(before[n]) < Cardinality(S)
  <2>1. IsFiniteSet(S \ {n}) /\ Cardinality(S \ {n}) = Cardinality(S) - 1
    BY FS_RemoveElement
  <2>2. Cardinality(before[n]) <= Cardinality(S \ {n})
    BY <1>1, <2>1, FS_Subset
  <2>3. Cardinality(S) \in Nat
    BY FS_CardinalityType
  <2> QED
    BY <1>1, <2>1, <2>2, <2>3
<1>3. ASSUME NEW m \in before[n] PROVE Cardinality(before[m]) < Cardinality(before[n])
  <2>1. /\ IsFiniteSet(before[n] \ {m}) /\ before[m] \subseteq before[n] \ {m}
        /\ Cardinality(before[n] \ {m}) = Cardinality(before[n]) - 1
    <3>1. m \in S
      BY <1>1
    <3>2. before[m] \subseteq before[n] \ {m}
      BY <3>1 DEF Ordering
    <3> QED
      BY Zenon, <1>1, <3>2, FS_RemoveElement
  <2>2. /\ IsFiniteSet(before[m]) /\ Cardinality(before[m]) <= Cardinality(before[n] \ {m})
    BY <2>1, FS_Subset
  <2>3. Cardinality(before[m]) \in Nat
    BY <2>2, FS_CardinalityType
  <2> QED
    BY <1>1, <2>1, <2>2, <2>3
<1> QED
  BY <1>1, <1>2, <1>3 DEF Rank

\* Every rank is that of one member.
LEMMA RankedOnce ==
    ASSUME NEW S, IsFiniteSet(S), NEW before, Ordering(S, before)
    PROVE  RankedBy(S, before)
<1>1. \A m \in S : Rank(before, m) \in Nat /\ Rank(before, m) < Cardinality(S)
  BY RankRises
<1>2. ASSUME NEW m \in S, NEW n \in S, Rank(before, m) = Rank(before, n) PROVE m = n
  <2>1. ~(m \in before[n]) /\ ~(n \in before[m])
    BY <1>1, <1>2, RankRises
  <2> QED
    BY <2>1 DEF Ordering
<1>3. PICK c \in Nat : c = Cardinality(S)
  BY FS_CardinalityType
<1> DEFINE T == 0 .. c - 1
           rank == [m \in S |-> Rank(before, m)]
<1>4. IsFiniteSet(T) /\ Cardinality(T) = c
  BY FS_Interval
<1>5. rank \in [S -> T] /\ \A m \in S : rank[m] = Rank(before, m)
  BY <1>1, <1>3
<1> HIDE DEF rank
<1>6. rank \in Injection(S, T)
  <2>1. \A m, n \in S : rank[m] = rank[n] => m = n
    BY <1>2, <1>5
  <2> HIDE DEF T
  <2> QED
    BY <1>5, <2>1 DEF Injection, IsInjective
<1>7. rank \in Surjection(S, T)
  <2> HIDE DEF T
  <2> QED
    BY <1>3, <1>4, <1>6, FS_Injection
<1>8. ASSUME NEW k \in 1 .. c PROVE \E m \in S : Rank(before, m) = k - 1
  <2>1. k - 1 \in T
    OBVIOUS
  <2> HIDE DEF T
  <2>2. PICK m \in S : rank[m] = k - 1
    BY <1>7, <2>1 DEF Surjection
  <2> QED
    BY <1>5, <2>2
<1> QED
  BY <1>2, <1>3, <1>8 DEF RankedBy

\* A set of numbers in their order.
LEMMA PlacesRanked ==
    ASSUME NEW S, IsFiniteSet(S), S \subseteq Nat
    PROVE  /\ \A k \in 1 .. Cardinality(S) :
                \E m \in S : Cardinality({j \in S : j < m}) = k - 1
           /\ \A m, n \in S : Cardinality({j \in S : j < m}) = Cardinality({j \in S : j < n}) => m = n
<1>1. PICK lower : lower = [m \in S |-> {j \in S : j < m}]
  BY Zenon
<1>2. Ordering(S, lower)
  BY <1>1 DEF Ordering
<1>3. \A m \in S : Rank(lower, m) = Cardinality({j \in S : j < m})
  BY <1>1 DEF Rank
<1>4. RankedBy(S, lower)
  BY <1>2, RankedOnce
<1>5. ASSUME NEW k \in 1 .. Cardinality(S)
      PROVE  \E m \in S : Cardinality({j \in S : j < m}) = k - 1
  <2>1. PICK m \in S : Rank(lower, m) = k - 1
    BY <1>4 DEF RankedBy
  <2> QED
    BY <1>3, <2>1
<1>6. ASSUME NEW m \in S, NEW n \in S,
             Cardinality({j \in S : j < m}) = Cardinality({j \in S : j < n})
      PROVE  m = n
  <2>1. Rank(lower, m) = Rank(lower, n)
    BY <1>3, <1>6
  <2> QED
    BY <1>4, <2>1 DEF RankedBy
<1> QED
  BY <1>5, <1>6
-------------------------------------------------------------------------------
(* Crews                                                                   *)

\* x1: crew, x2: status, x3: output, x4: stop, x5: accepted, x6: queue, x7: now,
\* x8: outputs, x9: done, x10: busy, x11: gossip.
Entries == [id : TaskIds, agent : Agents, given : SUBSET Nat, success : BOOLEAN]

Outputs == [raw : Nat, tasks : Seq(Entries)]

\* The last of the first i - 1 tasks in d that has the name t, if there is one.
LastOf(d, t, i) ==
    {j \in 1 .. i - 1 : d[j].id = t /\ \A k \in j + 1 .. i - 1 : d[k].id # t}

\* d is what the first tasks of c have left.
Followed(c, d) ==
    \A i \in DOMAIN d :
      /\ d[i].id = c.tasks[i].id
      /\ c.process = "sequential" => d[i].agent = c.tasks[i].agent
      /\ d[i].given = UNION {LastOf(d, t, i) : t \in c.tasks[i].context}

\* The answers by the name of their task: the last one of each.
Remembered(answers, d) ==
    \A t \in TaskIds :
      /\ answers[t] = 0 => \A j \in DOMAIN d : d[j].id # t
      /\ answers[t] # 0 =>
           /\ answers[t] \in DOMAIN d /\ d[answers[t]].id = t
           /\ \A k \in answers[t] + 1 .. Len(d) : d[k].id # t

CrewRecord(r) ==
    /\ x1[r] = None <=> x2[r] = "none"
    /\ x1[r] # None => Work!Validate(x1[r])
    /\ x2[r] # "failed"
    /\ x2[r] = "running" <=> x7 = r
    /\ x2[r] = "completed" <=> x3[r] # Work!NoOutput
    /\ x2[r] = "completed" =>
         /\ DOMAIN x3[r].tasks = DOMAIN x1[r].tasks
         /\ x3[r].raw = Len(x1[r].tasks)
         /\ Followed(x1[r], x3[r].tasks)

CrewQueue ==
    /\ x6 \in Seq(Runs) /\ Len(x6) <= Capacity /\ Distinct(x6)
    /\ \A r \in Runs : r \in Elements(x6) <=> x2[r] = "pending" /\ r \in x5

CrewNow ==
    /\ x7 = None => x9 = <<>> /\ x10 = None /\ \A t \in TaskIds : x8[t] = 0
    /\ x7 # None =>
         /\ Len(x9) <= Len(x1[x7].tasks) /\ Followed(x1[x7], x9) /\ Remembered(x8, x9)
    /\ x10 # None =>
         /\ x7 # None /\ Len(x9) < Len(x1[x7].tasks)
         /\ LET task == x1[x7].tasks[Len(x9) + 1]
            IN  /\ x1[x7].process = "sequential" => x10.agent = task.agent
                /\ x10.given = Work!Given(task)

CrewGossip ==
    /\ x11 \subseteq {"offer", "claim", "result"} \X Runs \X Nat
    /\ \A m \in x11 :
      /\ x2[m[2]] = "completed"
      /\ m[1] = "result" => <<"claim", m[2], m[3]>> \in x11
      /\ m[1] = "claim" => <<"offer", m[2], m[3]>> \in x11

CrewInv ==
    /\ Work!TypeOK /\ x3 \in [Runs -> Outputs] /\ x9 \in Seq(Entries)
    /\ x5 \subseteq {r \in Runs : x1[r] # None}
    /\ \A r \in Runs : CrewRecord(r)
    /\ CrewQueue /\ CrewNow /\ CrewGossip

LEMMA CrewConstants ==
    /\ Capacity \in Nat \ {0} /\ None \notin Runs \cup Agents \cup Crews
    /\ Agents # {}
    /\ \A c \in Crews :
         /\ Len(c.tasks) \in Nat /\ DOMAIN c.tasks = 1 .. Len(c.tasks)
         /\ c.tasks # <<>> => Len(c.tasks) # 0
         /\ \A i \in DOMAIN c.tasks :
              c.tasks[i].id \in TaskIds /\ c.tasks[i].context \subseteq TaskIds
<1>1. Work!CrewAssumption
  BY AgentsAssumption
<1>2. ASSUME NEW c \in Crews
      PROVE  /\ Len(c.tasks) \in Nat /\ DOMAIN c.tasks = 1 .. Len(c.tasks)
             /\ c.tasks # <<>> => Len(c.tasks) # 0
  <2> DEFINE s == c.tasks
             T == {c.tasks[i] : i \in DOMAIN c.tasks}
  <2>1. s \in Seq(T)
    BY <1>1 DEF Work!CrewAssumption
  <2> HIDE DEF s, T
  <2>2. Len(s) \in Nat /\ DOMAIN s = 1 .. Len(s) /\ (s # <<>> => Len(s) # 0)
    BY <2>1
  <2> QED
    BY <2>2 DEF s
<1> QED
  BY Zenon, <1>1, <1>2 DEF Work!CrewAssumption

LEMMA CrewInit == Work!Init => CrewInv
<1> SUFFICES ASSUME Work!Init PROVE CrewInv
  OBVIOUS
<1>1. /\ x1 = [r \in Runs |-> None] /\ x2 = [r \in Runs |-> "none"]
      /\ x3 = [r \in Runs |-> Work!NoOutput] /\ x4 = [r \in Runs |-> FALSE]
      /\ x5 = {} /\ x6 = <<>> /\ x11 = {}
      /\ x7 = None /\ x8 = [t \in TaskIds |-> 0] /\ x9 = <<>> /\ x10 = None
  BY DEF Work!Init
<1>2. Work!TypeOK
  <2>1. x4 \in [Runs -> BOOLEAN]
    BY <1>1, Zenon
  <2> QED
    BY <1>1, <2>1, CrewConstants DEF Work!TypeOK
<1>3. x6 \in Seq(Runs) /\ x9 \in Seq(Entries) /\ Len(x6) = 0 /\ DOMAIN x6 = {}
  BY <1>1
<1>4. CrewQueue
  BY <1>1, <1>3, CrewConstants DEF CrewQueue, Distinct, Elements
<1>5. ASSUME NEW r \in Runs PROVE CrewRecord(r)
  BY <1>1, CrewConstants DEF CrewRecord
<1>6. CrewNow /\ CrewGossip
  BY <1>1 DEF CrewNow, CrewGossip
<1>7. x3 \in [Runs -> Outputs]
  <2>1. Work!NoOutput \in Outputs
    BY DEF Work!NoOutput, Outputs
  <2> QED
    BY <1>1, <2>1
<1> QED
  BY <1>1, <1>2, <1>3, <1>4, <1>5, <1>6, <1>7 DEF CrewInv


\* What holds of the records goes on where a step leaves them alone.
CrewOthers(r) ==
    \A u \in Runs \ {r} :
      /\ x1'[u] = x1[u] /\ x2'[u] = x2[u] /\ x3'[u] = x3[u]
      /\ x7' = u <=> x7 = u

LEMMA CrewRecordsStay ==
    ASSUME CrewInv, NEW r \in Runs, CrewOthers(r), CrewRecord(r)'
    PROVE  \A u \in Runs : CrewRecord(u)'
<1> SUFFICES ASSUME NEW u \in Runs, u # r PROVE CrewRecord(u)'
  OBVIOUS
<1>1. CrewRecord(u) /\ x1'[u] = x1[u] /\ x2'[u] = x2[u] /\ x3'[u] = x3[u] /\ (x7' = u <=> x7 = u)
  BY DEF CrewInv, CrewOthers
<1>2. Work!Validate(x1[u]) => Work!Validate(x1[u])'
  BY <1>1 DEF Work!Validate
<1>3. Followed(x1[u], x3[u].tasks) => Followed(x1[u], x3[u].tasks)'
  BY <1>1 DEF Followed, LastOf
<1> QED
  BY <1>1, <1>2, <1>3 DEF CrewRecord

LEMMA CrewNowStays ==
    ASSUME CrewNow, x7' = x7, x8' = x8, x9' = x9, x10' = x10, x7 # None => x1'[x7] = x1[x7]
    PROVE  CrewNow'
BY DEF CrewNow, Followed, LastOf, Remembered, Work!Given

LEMMA CrewGossipStays ==
    ASSUME CrewGossip, x11' = x11, \A u \in Runs : x2[u] = "completed" => x2'[u] = "completed"
    PROVE  CrewGossip'
BY DEF CrewGossip

LEMMA CrewUnchanged ==
    ASSUME CrewInv, x1' = x1, x2' = x2, x3' = x3, x5' = x5, x6' = x6, x7' = x7, x11' = x11
    PROVE  CrewQueue' /\ CrewGossip' /\ \A r \in Runs : CrewRecord(r)'
<1>1. CrewQueue'
  BY DEF CrewInv, CrewQueue, Elements, Distinct
<1>2. CrewGossip'
  BY CrewGossipStays DEF CrewInv
<1>3. ASSUME NEW r \in Runs PROVE CrewRecord(r)'
  <2>1. CrewRecord(r)
    BY DEF CrewInv
  <2> QED
    BY <2>1 DEF CrewRecord, Work!Validate, Followed, LastOf
<1> QED
  BY <1>1, <1>2, <1>3

LEMMA CrewKickoff ==
    ASSUME CrewInv, NEW r \in Runs, NEW c \in Crews, Work!Kickoff(r, c)
    PROVE  CrewInv'
<1>1. /\ x1[r] = None /\ Work!Validate(c) /\ c # None
      /\ x1' = [x1 EXCEPT ![r] = c] /\ x2' = [x2 EXCEPT ![r] = "pending"]
      /\ x3' = x3 /\ x4' = x4 /\ x7' = x7 /\ x8' = x8 /\ x9' = x9 /\ x10' = x10 /\ x11' = x11
  BY CrewConstants DEF Work!Kickoff, Work!running
<1>2. /\ x1 \in [Runs -> Crews \cup {None}] /\ x1'[r] = c
      /\ x2'[r] = "pending" /\ x2[r] = "none" /\ r \notin x5 /\ x7 # r
      /\ \A u \in Runs \ {r} : x1'[u] = x1[u] /\ x2'[u] = x2[u]
      /\ CrewRecord(r) /\ x6 \in Seq(Runs) /\ Len(x6) \in Nat
  BY <1>1 DEF CrewInv, Work!TypeOK, CrewRecord, CrewQueue
<1>3. r \notin Elements(x6)
  BY <1>2 DEF CrewInv, CrewQueue
<1>4. ASSUME Len(x6) < Capacity, x6' = Append(x6, r), x5' = x5 \cup {r}
      PROVE  CrewQueue' /\ Work!TypeOK'
  <2>1. /\ x6' \in Seq(Runs) /\ Len(x6') = Len(x6) + 1 /\ Distinct(x6')
        /\ Elements(x6') = Elements(x6) \cup {r}
    <3>1. Distinct(x6)
      BY DEF CrewInv, CrewQueue
    <3> QED
      BY <1>2, <1>3, <1>4, <3>1, AppendElements
  <2>2. Elements(x6)' = Elements(x6')
    BY Zenon DEF Elements
  <2>3. Distinct(x6)'
    BY <2>1, Zenon DEF Distinct
  <2>4. CrewQueue'
    BY <1>2, <1>4, <2>1, <2>2, <2>3, CrewConstants DEF CrewInv, CrewQueue
  <2>5. Work!TypeOK'
    BY <1>1, <1>2, <1>4, <2>1, CrewConstants DEF CrewInv, Work!TypeOK
  <2> QED
    BY <2>4, <2>5
<1>5. ASSUME x6' = x6, x5' = x5 PROVE CrewQueue' /\ Work!TypeOK'
  <2>1. Work!TypeOK'
    BY <1>1, <1>2, <1>5 DEF CrewInv, Work!TypeOK
  <2>2. Elements(x6)' = Elements(x6) /\ (Distinct(x6) => Distinct(x6)')
    BY <1>5 DEF Elements, Distinct
  <2>3. \A u \in Runs : u # r => x2'[u] = x2[u]
    BY <1>2
  <2>4. CrewQueue'
    BY <1>2, <1>3, <1>5, <2>2, <2>3 DEF CrewInv, CrewQueue
  <2> QED
    BY <2>1, <2>4
<1>6. CrewQueue' /\ Work!TypeOK' /\ x5' \subseteq x5 \cup {r}
  BY <1>4, <1>5 DEF Work!Kickoff
<1>7. CrewRecord(r)'
  <2>1. Work!Validate(c) => Work!Validate(x1[r])'
    BY <1>2 DEF Work!Validate
  <2> QED
    BY <1>1, <1>2, <2>1 DEF CrewRecord
<1>8. CrewOthers(r)
  BY <1>1, <1>2 DEF CrewOthers
<1>9. CrewNow'
  BY <1>1, <1>2, CrewNowStays DEF CrewInv, Work!TypeOK
<1>10. CrewGossip'
  <2>1. \A u \in Runs : x2[u] = "completed" => x2'[u] = "completed"
    BY <1>2
  <2> QED
    BY <1>1, <2>1, CrewGossipStays DEF CrewInv
<1>11. \A u \in Runs : CrewRecord(u)'
  BY <1>7, <1>8, CrewRecordsStay
<1>12. x5' \subseteq {u \in Runs : x1'[u] # None}
  BY <1>1, <1>2, <1>6 DEF CrewInv
<1> QED
  BY <1>1, <1>6, <1>9, <1>10, <1>11, <1>12 DEF CrewInv

LEMMA CrewStop ==
    ASSUME CrewInv, NEW r \in Runs, Work!Stop(r)
    PROVE  CrewInv'
<1>1. /\ x4' = [x4 EXCEPT ![r] = TRUE]
      /\ x1' = x1 /\ x2' = x2 /\ x3' = x3 /\ x5' = x5 /\ x6' = x6
      /\ x7' = x7 /\ x8' = x8 /\ x9' = x9 /\ x10' = x10 /\ x11' = x11
  BY DEF Work!Stop, Work!running
<1>2. x4' \in [Runs -> BOOLEAN]
  BY <1>1, Zenon DEF CrewInv, Work!TypeOK
<1>3. Work!TypeOK'
  BY <1>1, <1>2 DEF CrewInv, Work!TypeOK
<1>4. CrewNow'
  BY <1>1, CrewNowStays DEF CrewInv
<1> QED
  BY <1>1, <1>3, <1>4, CrewUnchanged DEF CrewInv

LEMMA CrewTake ==
    ASSUME CrewInv, Work!Take
    PROVE  CrewInv'
<1>1. x7 = None /\ x6 # <<>> /\ x6 \in Seq(Runs) /\ Distinct(x6)
  BY DEF CrewInv, CrewQueue, Work!Take
<1>a. Head(x6) \in Runs
  BY <1>1, TailElements
<1>b. PICK r \in Runs : r = Head(x6)
  BY <1>a
<1>2. /\ Tail(x6) \in Seq(Runs) /\ Len(Tail(x6)) = Len(x6) - 1
      /\ Elements(x6) = Elements(Tail(x6)) \cup {r}
      /\ Distinct(Tail(x6)) /\ r \notin Elements(Tail(x6))
  BY <1>1, <1>b, TailElements
<1>3. /\ x7' = r /\ x6' = Tail(x6) /\ x2' = [x2 EXCEPT ![r] = "running"]
      /\ x1' = x1 /\ x3' = x3 /\ x4' = x4 /\ x5' = x5
      /\ x8' = x8 /\ x9' = x9 /\ x10' = x10 /\ x11' = x11
  BY <1>b DEF Work!Take
<1>4. x2[r] = "pending" /\ r \in x5 /\ r # None /\ CrewRecord(r)
  BY <1>2, CrewConstants DEF CrewInv, CrewQueue
<1>5. x2'[r] = "running" /\ (\A u \in Runs \ {r} : x2'[u] = x2[u])
  BY <1>2, <1>3 DEF CrewInv, Work!TypeOK
<1>6. Work!TypeOK'
  <2>1. Len(x6) \in Nat /\ Len(x6) <= Capacity
    BY <1>1, LenProperties DEF CrewInv, Work!TypeOK
  <2>2. Len(x6') <= Capacity
    BY <1>2, <1>3, <2>1, CrewConstants
  <2> QED
    BY <1>2, <1>3, <2>2 DEF CrewInv, Work!TypeOK
<1>7. CrewQueue'
  <2>1. Elements(x6)' = Elements(Tail(x6)) /\ Distinct(x6)'
    BY <1>2, <1>3 DEF Elements, Distinct
  <2>3. x6' \in Seq(Runs) /\ Len(x6') <= Capacity /\ x5' = x5
    BY <1>2, <1>3, <1>6 DEF Work!TypeOK
  <2>2. \A u \in Runs : u \in Elements(Tail(x6)) <=> x2'[u] = "pending" /\ u \in x5
    BY <1>2, <1>4, <1>5 DEF CrewInv, CrewQueue
  <2> QED
    BY <2>1, <2>2, <2>3 DEF CrewQueue
<1>8. CrewRecord(r)'
  BY <1>3, <1>4, <1>5 DEF CrewRecord, Work!Validate
<1>9. CrewOthers(r)
  BY <1>1, <1>3, <1>4, <1>5, CrewConstants DEF CrewOthers
<1>10. CrewNow'
  <2>1. x9 = <<>> /\ x10 = None /\ \A t \in TaskIds : x8[t] = 0
    BY <1>1 DEF CrewInv, CrewNow
  <2>2. Len(x9) = 0 /\ DOMAIN x9 = {}
    BY <2>1
  <2>3. Followed(x1[x7], x9)' /\ Remembered(x8, x9)'
    BY <1>3, <2>1, <2>2 DEF Followed, Remembered
  <2>4. 0 <= Len(x1[r].tasks)
    <3>1. x1[r] \in Crews
      BY <1>2, <1>4 DEF CrewInv, Work!TypeOK, CrewRecord
    <3> QED
      BY <3>1, CrewConstants
  <2> QED
    BY <1>3, <1>4, <2>1, <2>2, <2>3, <2>4 DEF CrewNow
<1>11. CrewGossip'
  <2>1. \A u \in Runs : x2[u] = "completed" => x2'[u] = "completed"
    BY <1>4, <1>5
  <2>2. CrewGossip
    BY DEF CrewInv
  <2> QED
    BY <1>3, <2>1, <2>2, CrewGossipStays
<1>12. \A u \in Runs : CrewRecord(u)'
  BY <1>8, <1>9, CrewRecordsStay
<1> QED
  BY <1>3, <1>6, <1>7, <1>10, <1>11, <1>12 DEF CrewInv

\* A run that waits for its next task is not lost for an agent.
LEMMA NobodyLost ==
    ASSUME CrewInv, x7 # None, Len(x9) < Len(x1[x7].tasks)
    PROVE  /\ x7 \in Runs /\ x1[x7] \in Crews /\ Work!Validate(x1[x7])
           /\ Len(x9) + 1 \in DOMAIN x1[x7].tasks
           /\ ~ Work!Lost(x1[x7])
<1>1. x7 \in Runs /\ x2[x7] = "running" /\ CrewRecord(x7)
  BY DEF CrewInv, Work!TypeOK, CrewRecord
<1>2. x1[x7] \in Crews /\ Work!Validate(x1[x7])
  BY <1>1 DEF CrewInv, Work!TypeOK, CrewRecord
<1> DEFINE c == x1[x7]
<1>3. Len(x9) \in Nat
  BY LenProperties DEF CrewInv
<1>4. Len(x9) + 1 \in DOMAIN c.tasks
  BY <1>2, <1>3, CrewConstants
<1>5. c.tasks[Len(x9) + 1].agent \in Agents
  BY <1>2, <1>4 DEF Work!Validate
<1>6. c.process \in Work!Managed /\ c.manager # None => c.manager \in Agents
  BY <1>2 DEF Work!Validate
<1> HIDE DEF c
<1>7. Work!Chosen(c, c.tasks[Len(x9) + 1]) # {}
  <2> DEFINE a == c.tasks[Len(x9) + 1].agent
  <2>1. CASE c.process # "delegate"
    BY <1>5, <2>1 DEF Work!Chosen
  <2>2. CASE c.process = "delegate"
    <3>1. c.process \in Work!Managed
      BY <2>2 DEF Work!Managed
    <3>2. PICK m \in Work!Managers(c) : m \in Agents
      BY <1>5, <1>6, <3>1 DEF Work!Managers
    <3>3. \E b \in Agents : b # m \/ (Agents \subseteq {m} /\ b = a)
      BY <1>5
    <3> QED
      BY <2>2, <3>2, <3>3 DEF Work!Chosen
  <2> QED
    BY <2>1, <2>2
<1>8. ~ Work!Lost(c)
  BY <1>6, <1>7 DEF Work!Lost, Work!TaskOf, Work!Managed
<1> QED
  BY <1>1, <1>2, <1>4, <1>8 DEF c

LEMMA CrewBegin ==
    ASSUME CrewInv, Work!Begin
    PROVE  CrewInv'
<1>1. x7 # None /\ x10 = None /\ Len(x9) < Len(x1[x7].tasks)
  BY DEF Work!Begin
<1> DEFINE task == x1[x7].tasks[Len(x9) + 1]
<1>2. /\ x7 \in Runs /\ x1[x7] \in Crews /\ Work!Validate(x1[x7])
      /\ Len(x9) + 1 \in DOMAIN x1[x7].tasks /\ ~ Work!Lost(x1[x7])
  BY <1>1, NobodyLost
<1>3. PICK a \in Work!Chosen(x1[x7], task) :
        /\ x10' = [agent |-> a, given |-> Work!Given(task)]
        /\ x1' = x1 /\ x2' = x2 /\ x3' = x3 /\ x4' = x4 /\ x5' = x5 /\ x6' = x6
        /\ x7' = x7 /\ x8' = x8 /\ x9' = x9 /\ x11' = x11
  BY <1>2 DEF Work!Begin, Work!TaskOf, Work!records
<1>4. a \in Agents /\ (x1[x7].process = "sequential" => a = task.agent)
  BY DEF Work!Chosen
<1>5. Work!Given(task) \in SUBSET Nat
  <2>1. task.context \subseteq TaskIds
    BY <1>2, CrewConstants
  <2> QED
    BY <2>1 DEF Work!Given, CrewInv, Work!TypeOK
<1>6. Work!TypeOK'
  BY <1>3, <1>4, <1>5 DEF CrewInv, Work!TypeOK
<1>7. CrewQueue' /\ CrewGossip' /\ \A r \in Runs : CrewRecord(r)'
  BY <1>3, CrewUnchanged DEF CrewInv
<1>8. CrewNow'
  <2>1. x10'.agent = a /\ x10'.given = Work!Given(task)
    BY <1>3
  <2>2. Followed(x1[x7], x9)' /\ Remembered(x8, x9)'
    BY <1>1, <1>3 DEF CrewInv, CrewNow, Followed, LastOf, Remembered
  <2>3. Work!Given(task) = {x8[t] : t \in {u \in task.context : x8[u] # 0}}
    BY DEF Work!Given
  <2>4. Work!Given(task)' = {x8[t] : t \in {u \in task.context : x8[u] # 0}}
    BY <1>3 DEF Work!Given
  <2> QED
    BY <1>1, <1>3, <1>4, <2>1, <2>2, <2>3, <2>4 DEF CrewNow
<1> QED
  BY <1>3, <1>6, <1>7, <1>8 DEF CrewInv

LEMMA EntryType ==
    ASSUME NEW t \in TaskIds, NEW a \in Agents, NEW g \in SUBSET Nat, NEW b \in BOOLEAN
    PROVE  LET e == [id |-> t, agent |-> a, given |-> g, success |-> b]
           IN  e \in Entries /\ e.id = t /\ e.agent = a /\ e.given = g
BY DEF Entries

\* One more task is done: the context it was given are the last answers of the
\* tasks it names.
LEMMA OneMoreDone ==
    ASSUME NEW c \in Crews, NEW d \in Seq(Entries), Len(d) < Len(c.tasks),
           NEW answers \in [TaskIds -> Nat], NEW e \in Entries,
           Followed(c, d), Remembered(answers, d),
           e.id = c.tasks[Len(d) + 1].id,
           c.process = "sequential" => e.agent = c.tasks[Len(d) + 1].agent,
           e.given = {answers[t] : t \in {u \in c.tasks[Len(d) + 1].context : answers[u] # 0}}
    PROVE  /\ Followed(c, Append(d, e))
           /\ Remembered([answers EXCEPT ![e.id] = Len(d) + 1], Append(d, e))
<1> DEFINE n == Len(d)
           task == c.tasks[n + 1]
           new == Append(d, e)
           after == [answers EXCEPT ![e.id] = n + 1]
<1>1. /\ n \in Nat /\ DOMAIN d = 1 .. n /\ new \in Seq(Entries)
      /\ Len(new) = n + 1 /\ DOMAIN new = 1 .. n + 1
      /\ new[n + 1] = e /\ \A i \in 1 .. n : new[i] = d[i]
  OBVIOUS
<1>2. /\ n + 1 \in DOMAIN c.tasks /\ e.id \in TaskIds /\ task.context \subseteq TaskIds
      /\ task.id = e.id
  <2>1. Len(c.tasks) \in Nat /\ DOMAIN c.tasks = 1 .. Len(c.tasks)
    BY CrewConstants
  <2>2. n + 1 \in DOMAIN c.tasks
    BY <1>1, <2>1
  <2> QED
    BY <2>2, CrewConstants
<1>3. /\ after \in [TaskIds -> Nat] /\ after[e.id] = n + 1
      /\ \A t \in TaskIds \ {e.id} : after[t] = answers[t]
  BY <1>1, <1>2
<1> HIDE DEF n, task, new, after
<1>4. \A t, i : i \in 1 .. n + 1 => LastOf(new, t, i) = LastOf(d, t, i)
  BY <1>1 DEF LastOf
<1>5. ASSUME NEW t \in TaskIds
      PROVE  LastOf(d, t, n + 1) = IF answers[t] # 0 THEN {answers[t]} ELSE {}
  <2>1. CASE answers[t] = 0
    <3>1. \A j \in 1 .. n : d[j].id # t
      BY Zenon, <1>1, <2>1 DEF Remembered
    <3> QED
      BY <1>1, <2>1, <3>1 DEF LastOf
  <2>2. CASE answers[t] # 0
    <3>1. /\ answers[t] \in 1 .. n /\ d[answers[t]].id = t
          /\ \A k \in answers[t] + 1 .. n : d[k].id # t
      BY <1>1, <2>2 DEF Remembered, n
    <3>2. answers[t] \in LastOf(d, t, n + 1)
      BY <1>1, <3>1 DEF LastOf
    <3>3. ASSUME NEW j \in LastOf(d, t, n + 1) PROVE j = answers[t]
      <4>1. j \in 1 .. n /\ d[j].id = t /\ \A k \in j + 1 .. n : d[k].id # t
        BY <1>1 DEF LastOf
      <4>2. ~ (j > answers[t])
        BY <1>1, <3>1, <4>1
      <4>3. ~ (j < answers[t])
        BY <1>1, <3>1, <4>1
      <4> QED
        BY <1>1, <3>1, <4>1, <4>2, <4>3
    <3> QED
      BY <2>2, <3>2, <3>3
  <2> QED
    BY <2>1, <2>2
<1>6. e.given = UNION {LastOf(new, t, n + 1) : t \in task.context}
  <2>1. e.given = {answers[t] : t \in {u \in task.context : answers[u] # 0}}
    BY DEF n, task
  <2>2. \A t \in task.context :
          LastOf(new, t, n + 1) = IF answers[t] # 0 THEN {answers[t]} ELSE {}
    <3> SUFFICES ASSUME NEW t \in task.context
                 PROVE  LastOf(new, t, n + 1) = IF answers[t] # 0 THEN {answers[t]} ELSE {}
      BY Zenon
    <3>1. t \in TaskIds /\ n + 1 \in 1 .. n + 1
      BY <1>1, <1>2
    <3>2. LastOf(new, t, n + 1) = LastOf(d, t, n + 1)
      BY <1>4, <3>1
    <3> QED
      BY Zenon, <1>5, <3>1, <3>2
  <2>3. ASSUME NEW x
        PROVE  x \in e.given <=> \E t \in task.context : x \in LastOf(new, t, n + 1)
    BY Zenon, <2>1, <2>2
  <2> QED
    BY Zenon, <2>3
<1>7. Followed(c, new)
  <2> SUFFICES ASSUME NEW i \in 1 .. n + 1
               PROVE  /\ new[i].id = c.tasks[i].id
                      /\ c.process = "sequential" => new[i].agent = c.tasks[i].agent
                      /\ new[i].given = UNION {LastOf(new, t, i) : t \in c.tasks[i].context}
    BY <1>1 DEF Followed
  <2>1. CASE i = n + 1
    BY <1>1, <1>2, <1>6, <2>1 DEF n, task
  <2>2. CASE i # n + 1
    <3>1. i \in 1 .. n
      BY <1>1, <2>2
    <3>2. /\ d[i].id = c.tasks[i].id
          /\ c.process = "sequential" => d[i].agent = c.tasks[i].agent
          /\ d[i].given = UNION {LastOf(d, t, i) : t \in c.tasks[i].context}
      BY Zenon, <1>1, <3>1 DEF Followed
    <3>3. {LastOf(d, t, i) : t \in c.tasks[i].context} = {LastOf(new, t, i) : t \in c.tasks[i].context}
      BY Zenon, <1>4
    <3> QED
      BY Zenon, <1>1, <3>1, <3>2, <3>3
  <2> QED
    BY <2>1, <2>2
<1>8. Remembered(after, new)
  <2> SUFFICES ASSUME NEW t \in TaskIds
               PROVE  /\ after[t] = 0 => \A j \in 1 .. n + 1 : new[j].id # t
                      /\ after[t] # 0 =>
                           /\ after[t] \in 1 .. n + 1 /\ new[after[t]].id = t
                           /\ \A k \in after[t] + 1 .. n + 1 : new[k].id # t
    BY <1>1 DEF Remembered
  <2>1. CASE t = e.id
    BY <1>1, <1>3, <2>1
  <2>2. CASE t # e.id
    <3>1. /\ answers[t] = 0 => \A j \in 1 .. n : d[j].id # t
          /\ answers[t] # 0 =>
               /\ answers[t] \in 1 .. n /\ d[answers[t]].id = t
               /\ \A k \in answers[t] + 1 .. n : d[k].id # t
      BY Zenon, <1>1 DEF Remembered, n
    <3>2. after[t] = answers[t] /\ answers[t] \in Nat
      BY <1>3, <2>2
    <3>3. \A j \in 1 .. n + 1 : j \in 1 .. n \/ new[j].id # t
      BY <1>1, <2>2
    <3> QED
      BY <1>1, <3>1, <3>2, <3>3
  <2> QED
    BY <2>1, <2>2
<1> QED
  BY <1>7, <1>8 DEF n, new, after

LEMMA CrewEnd ==
    ASSUME CrewInv, NEW success \in BOOLEAN, Work!End(success)
    PROVE  CrewInv'
<1> DEFINE task == x1[x7].tasks[Len(x9) + 1]
           e == [id |-> task.id, agent |-> x10.agent, given |-> x10.given, success |-> success]
<1>1. /\ x10 # None
      /\ x8' = [x8 EXCEPT ![task.id] = Len(x9) + 1] /\ x9' = Append(x9, e) /\ x10' = None
      /\ x1' = x1 /\ x2' = x2 /\ x3' = x3 /\ x4' = x4 /\ x5' = x5 /\ x6' = x6
      /\ x7' = x7 /\ x11' = x11
  BY DEF Work!End, Work!TaskOf, Work!records
<1>2. /\ x7 # None /\ Len(x9) < Len(x1[x7].tasks)
      /\ x1[x7].process = "sequential" => x10.agent = task.agent
      /\ x10.given = {x8[t] : t \in {u \in task.context : x8[u] # 0}}
      /\ Followed(x1[x7], x9) /\ Remembered(x8, x9)
  BY <1>1 DEF CrewInv, CrewNow, Work!Given
<1>3. /\ x7 \in Runs /\ x1[x7] \in Crews /\ Len(x9) + 1 \in DOMAIN x1[x7].tasks
  BY <1>2, NobodyLost
<1>4. task.id \in TaskIds /\ Len(x1[x7].tasks) \in Nat
  BY <1>3, CrewConstants
<1>5. x9 \in Seq(Entries) /\ Len(x9) \in Nat /\ x8 \in [TaskIds -> Nat]
  BY LenProperties DEF CrewInv, Work!TypeOK
<1>6. e \in Entries /\ e.id = task.id /\ e.agent = x10.agent /\ e.given = x10.given
  <2>1. x10.agent \in Agents /\ x10.given \in SUBSET Nat
    BY <1>1 DEF CrewInv, Work!TypeOK
  <2> QED
    BY Zenon, <1>4, <2>1, EntryType
<1> HIDE DEF task, e
<1>7. /\ x9' \in Seq(Entries) /\ Len(x9') = Len(x9) + 1
      /\ x8' \in [TaskIds -> Nat]
  BY <1>1, <1>4, <1>5, <1>6
<1>8. Followed(x1[x7], Append(x9, e)) /\ Remembered([x8 EXCEPT ![e.id] = Len(x9) + 1], Append(x9, e))
  <2>1. /\ e.id = x1[x7].tasks[Len(x9) + 1].id
        /\ x1[x7].process = "sequential" => e.agent = x1[x7].tasks[Len(x9) + 1].agent
        /\ e.given = {x8[t] : t \in {u \in x1[x7].tasks[Len(x9) + 1].context : x8[u] # 0}}
    BY <1>2, <1>6 DEF task
  <2> QED
    BY Zenon, <1>2, <1>3, <1>5, <1>6, <2>1, OneMoreDone
<1>9. Followed(x1[x7], x9)' /\ Remembered(x8, x9)'
  <2>1. Followed(x1'[x7'], x9') /\ Remembered(x8', x9')
    BY <1>1, <1>6, <1>8
  <2>2. Followed(x1[x7], x9)'
    BY <2>1, Zenon DEF Followed, LastOf
  <2>3. Remembered(x8, x9)'
    BY <2>1, Zenon DEF Remembered
  <2> QED
    BY <2>2, <2>3
<1>10. CrewNow'
  <2>1. Len(x9') <= Len(x1[x7].tasks)
    BY <1>2, <1>4, <1>5, <1>7
  <2> QED
    BY <1>1, <1>2, <1>9, <2>1 DEF CrewNow
<1>11. Work!TypeOK'
  BY <1>1, <1>7 DEF CrewInv, Work!TypeOK
<1> QED
  BY <1>1, <1>7, <1>10, <1>11, CrewUnchanged DEF CrewInv

LEMMA CrewComplete ==
    ASSUME CrewInv, Work!Complete
    PROVE  CrewInv'
<1> DEFINE c == x1[x7]
           n == Len(x9)
           out == [raw |-> x8[c.tasks[n].id], tasks |-> x9]
<1>1. /\ x7 # None /\ n = Len(c.tasks)
      /\ x2' = [x2 EXCEPT ![x7] = "completed"] /\ x3' = [x3 EXCEPT ![x7] = out]
      /\ x7' = None /\ x8' = [t \in TaskIds |-> 0] /\ x9' = <<>>
      /\ x1' = x1 /\ x4' = x4 /\ x5' = x5 /\ x6' = x6 /\ x10' = x10
      /\ x11 \subseteq x11'
      /\ x11' \subseteq x11 \cup {<<"offer", x7, i>> : i \in DOMAIN x9}
  BY DEF Work!Complete, Work!Finish
<1>2. /\ x7 \in Runs /\ x2[x7] = "running" /\ CrewRecord(x7)
      /\ x9 \in Seq(Entries) /\ n \in Nat /\ DOMAIN x9 = 1 .. n
      /\ Followed(c, x9) /\ Remembered(x8, x9) /\ x10 = None
  BY <1>1, LenProperties DEF CrewInv, Work!TypeOK, CrewRecord, CrewNow
<1>3. /\ c \in Crews /\ c # None /\ Work!Validate(c) /\ c.tasks # <<>>
      /\ DOMAIN c.tasks = 1 .. n
  <2>1. c \in Crews /\ c # None /\ Work!Validate(c)
    BY <1>2, CrewConstants DEF CrewInv, Work!TypeOK, CrewRecord
  <2> QED
    BY <1>1, <2>1, CrewConstants DEF Work!Validate
<1>4. n > 0
  BY <1>1, <1>2, <1>3, CrewConstants
<1> HIDE DEF c, n
<1>5. x8[c.tasks[n].id] = n
  <2>1. n \in 1 .. n /\ c.tasks[n].id \in TaskIds /\ x9[n].id = c.tasks[n].id
    BY <1>2, <1>3, <1>4, CrewConstants DEF Followed
  <2> DEFINE k == x8[c.tasks[n].id]
  <2>2. /\ k # 0 /\ k \in 1 .. n
        /\ \A j \in k + 1 .. n : x9[j].id # c.tasks[n].id
    BY <1>2, <2>1 DEF Remembered, n
  <2>3. ~ (k < n)
    BY <1>2, <2>1, <2>2
  <2> QED
    BY <1>2, <2>2, <2>3
<1>6. out.raw = n /\ out.tasks = x9 /\ out \in Outputs /\ out # Work!NoOutput
  BY <1>2, <1>4, <1>5 DEF Outputs, Work!NoOutput
<1> HIDE DEF out
<1>7. /\ x2'[x7] = "completed" /\ x3'[x7] = out /\ x3' \in [Runs -> Outputs]
      /\ \A u \in Runs \ {x7} : x2'[u] = x2[u] /\ x3'[u] = x3[u]
  BY <1>1, <1>2, <1>6 DEF CrewInv, Work!TypeOK
<1>8. Work!TypeOK'
  BY <1>1, <1>2 DEF CrewInv, Work!TypeOK
<1>9. CrewQueue'
  <2>1. Elements(x6)' = Elements(x6) /\ (Distinct(x6) => Distinct(x6)')
    BY <1>1 DEF Elements, Distinct
  <2>2. \A r \in Runs : x2'[r] = "pending" <=> x2[r] = "pending"
    BY <1>2, <1>7
  <2> QED
    BY <1>1, <2>1, <2>2 DEF CrewInv, CrewQueue
<1>12. \A u \in Runs : CrewRecord(u)'
  <2> PICK r \in Runs : r = x7
    BY <1>2
  <2>1. Followed(x1[r], x3[r].tasks)'
    <3>1. Followed(x1'[r], x3'[r].tasks)
      BY <1>1, <1>2, <1>6, <1>7 DEF c
    <3> QED
      BY <3>1, Zenon DEF Followed, LastOf
  <2>2. Work!Validate(x1[r])'
    BY <1>1, <1>3 DEF Work!Validate, c
  <2>3. x1'[r] = c /\ x2'[r] = "completed" /\ x3'[r] = out /\ r # None
    BY <1>1, <1>2, <1>7, CrewConstants DEF c
  <2>4. CrewRecord(r)'
    BY <1>1, <1>2, <1>3, <1>6, <2>1, <2>2, <2>3 DEF CrewRecord, n
  <2>5. CrewOthers(r)
    BY <1>1, <1>2, <1>7, CrewConstants DEF CrewOthers
  <2> QED
    BY <2>4, <2>5, CrewRecordsStay
<1>13. CrewNow'
  BY <1>1, <1>2 DEF CrewNow
<1>14. CrewGossip'
  <2>1. x11' \subseteq {"offer", "claim", "result"} \X Runs \X Nat
    BY <1>1, <1>2 DEF CrewInv, CrewGossip
  <2>2. ASSUME NEW m \in x11' PROVE x2'[m[2]] = "completed"
    <3>1. m[2] = x7 \/ m \in x11
      BY <1>1
    <3> QED
      BY Zenon, <1>2, <1>7, <2>1, <3>1 DEF CrewInv, CrewGossip
  <2>3. ASSUME NEW m \in x11'
        PROVE  /\ m[1] = "result" => <<"claim", m[2], m[3]>> \in x11'
               /\ m[1] = "claim" => <<"offer", m[2], m[3]>> \in x11'
    <3>1. m[1] = "offer" \/ m \in x11
      BY <1>1
    <3> QED
      BY <1>1, <3>1 DEF CrewInv, CrewGossip
  <2> QED
    BY <2>1, <2>2, <2>3 DEF CrewGossip
<1> QED
  BY <1>1, <1>2, <1>7, <1>8, <1>9, <1>12, <1>13, <1>14 DEF CrewInv

LEMMA CrewWork ==
    ASSUME CrewInv, NEW offer \in x11, NEW answers \in BOOLEAN, Work!Work(offer, answers)
    PROVE  CrewInv'
<1> DEFINE claim == <<"claim", offer[2], offer[3]>>
           result == <<"result", offer[2], offer[3]>>
<1>1. /\ offer[1] = "offer"
      /\ x11 \cup {claim} \subseteq x11' /\ x11' \subseteq x11 \cup {claim, result}
      /\ x1' = x1 /\ x2' = x2 /\ x3' = x3 /\ x4' = x4 /\ x5' = x5 /\ x6' = x6
      /\ x7' = x7 /\ x8' = x8 /\ x9' = x9 /\ x10' = x10
  BY DEF Work!Work, Work!ActedUpon, Work!records, Work!running
<1>2. /\ offer \in {"offer", "claim", "result"} \X Runs \X Nat
      /\ x2[offer[2]] = "completed"
  BY Zenon DEF CrewInv, CrewGossip
<1>3. /\ offer = <<"offer", offer[2], offer[3]>>
      /\ claim \in {"offer", "claim", "result"} \X Runs \X Nat
      /\ result \in {"offer", "claim", "result"} \X Runs \X Nat
      /\ claim[1] = "claim" /\ claim[2] = offer[2] /\ claim[3] = offer[3]
      /\ result[1] = "result" /\ result[2] = offer[2] /\ result[3] = offer[3]
  BY <1>1, <1>2
<1>4. CrewGossip'
  <2>1. x11' \subseteq {"offer", "claim", "result"} \X Runs \X Nat
    BY <1>1, <1>3 DEF CrewInv, CrewGossip
  <2>2. ASSUME NEW m \in x11'
        PROVE  /\ x2'[m[2]] = "completed"
               /\ m[1] = "result" => <<"claim", m[2], m[3]>> \in x11'
               /\ m[1] = "claim" => <<"offer", m[2], m[3]>> \in x11'
    <3>1. CASE m \in x11
      BY <1>1, <3>1 DEF CrewInv, CrewGossip
    <3>2. CASE m = claim
      BY <1>1, <1>2, <1>3, <3>2
    <3>3. CASE m = result
      BY <1>1, <1>2, <1>3, <3>3
    <3> QED
      BY <1>1, <3>1, <3>2, <3>3
  <2> QED
    BY <2>1, <2>2 DEF CrewGossip
<1>5. CrewQueue' /\ \A r \in Runs : CrewRecord(r)'
  <2>1. CrewQueue'
    BY <1>1 DEF CrewInv, CrewQueue, Elements, Distinct
  <2>2. ASSUME NEW r \in Runs PROVE CrewRecord(r)'
    <3>1. CrewRecord(r)
      BY DEF CrewInv
    <3> QED
      BY <1>1, <3>1 DEF CrewRecord, Work!Validate, Followed, LastOf
  <2> QED
    BY <2>1, <2>2
<1>6. CrewNow' /\ Work!TypeOK'
  BY <1>1, CrewNowStays DEF CrewInv, Work!TypeOK
<1> QED
  BY <1>1, <1>4, <1>5, <1>6 DEF CrewInv

LEMMA CrewStep ==
    ASSUME CrewInv, Work!Next \/ UNCHANGED own
    PROVE  CrewInv'
<1>1. CASE Work!Next
  BY <1>1, CrewKickoff, CrewStop, CrewTake, CrewBegin, CrewEnd, CrewComplete, CrewWork
     DEF Work!Next, Work!Run
<1>2. CASE UNCHANGED own
  <2>1. /\ x1' = x1 /\ x2' = x2 /\ x3' = x3 /\ x4' = x4 /\ x5' = x5 /\ x6' = x6
        /\ x7' = x7 /\ x8' = x8 /\ x9' = x9 /\ x10' = x10 /\ x11' = x11
    BY <1>2 DEF own
  <2>2. CrewNow' /\ Work!TypeOK'
    BY <2>1, CrewNowStays DEF CrewInv, Work!TypeOK
  <2> QED
    BY <2>1, <2>2, CrewUnchanged DEF CrewInv
<1> QED
  BY <1>1, <1>2

LEMMA CrewTrue ==
    ASSUME CrewInv
    PROVE  /\ Work!TypeOK /\ Work!ValidIsEnough /\ Work!RecordsAgree
           /\ Work!OutputIsWhole /\ Work!OffersFollowRuns
<1>1. Work!TypeOK /\ Work!ValidIsEnough
  BY DEF CrewInv, CrewRecord, Work!ValidIsEnough
<1>2. Work!OffersFollowRuns
  BY Zenon DEF CrewInv, CrewGossip, Work!OffersFollowRuns
<1>3. Work!OutputIsWhole
  <2> SUFFICES ASSUME NEW r \in Runs, x3[r] # Work!NoOutput
               PROVE  LET c == x1[r] out == x3[r].tasks
                          Last(t, i) == {j \in 1 .. i - 1 : out[j].id = t /\ \A k \in j + 1 .. i - 1 : out[k].id # t}
                      IN  /\ DOMAIN out = DOMAIN c.tasks /\ x3[r].raw = Len(c.tasks)
                          /\ \A i \in DOMAIN out :
                               /\ out[i].id = c.tasks[i].id
                               /\ c.process = "sequential" => out[i].agent = c.tasks[i].agent
                               /\ out[i].given = UNION {Last(t, i) : t \in c.tasks[i].context}
    BY Zenon DEF Work!OutputIsWhole
  <2>1. CrewRecord(r)
    BY DEF CrewInv
  <2> QED
    BY <2>1 DEF CrewRecord, Followed, LastOf
<1>4. Work!RecordsAgree
  <2> SUFFICES ASSUME NEW r \in Runs
               PROVE  LET places == Work!Cardinality({i \in DOMAIN x6 : x6[i] = r})
                      IN  /\ x2[r] = "pending" => places = IF r \in x5 THEN 1 ELSE 0
                          /\ x2[r] = "running" <=> x7 = r
                          /\ places > 0 => x2[r] = "pending" /\ r \in x5
                          /\ x2[r] = "completed" <=> x3[r] # Work!NoOutput
    BY Zenon DEF Work!RecordsAgree
  <2>1. CrewRecord(r) /\ Distinct(x6) /\ (r \in Elements(x6) <=> x2[r] = "pending" /\ r \in x5)
    BY DEF CrewInv, CrewQueue
  <2> DEFINE at == {i \in DOMAIN x6 : x6[i] = r}
  <2>2. Work!Cardinality(at) = Cardinality(at)
    BY Zenon DEF Work!Cardinality, Cardinality, Work!IsFiniteSet, IsFiniteSet
  <2>3. CASE r \in Elements(x6)
    <3>1. PICK i \in DOMAIN x6 : x6[i] = r
      BY <2>3 DEF Elements
    <3>2. at = {i}
      BY <2>1, <3>1 DEF Distinct
    <3>3. Cardinality(at) = 1
      BY Zenon, <3>2, FS_Singleton
    <3> QED
      BY <2>1, <2>2, <2>3, <3>3 DEF CrewRecord
  <2>4. CASE r \notin Elements(x6)
    <3>1. at = {}
      BY <2>4 DEF Elements
    <3>2. Cardinality(at) = 0
      BY <3>1, FS_EmptySet
    <3> QED
      BY <2>1, <2>2, <2>4, <3>2 DEF CrewRecord
  <2> QED
    BY <2>3, <2>4
<1> QED
  BY <1>1, <1>2, <1>3, <1>4
-------------------------------------------------------------------------------
(* The background tasks of the dashboard                                   *)

\* x1: path, x2: at, x3: status, x4: text, x5: registered, x6: stop, x7: unread,
\* x8: sent, x9: outcome.
WebTask(t) ==
    /\ x2[t] \in {"new", "created"} => x1[t] = "none" /\ t \notin x5
    /\ x2[t] \in {"new", "created", "started"} => x3[t] = "pending"
    /\ x2[t] \in {"started", "waiting", "ended", "closing"} => x1[t] # "none"
    /\ x2[t] = "waiting" => x3[t] = "running"
    /\ x2[t] = "ended" =>
         x3[t] = "running" /\ x1[t] \in Web!Loops /\ t \notin x5 /\ x9[t] # None
    /\ x2[t] = "closing" => x1[t] = "agent" /\ x3[t] \in Web!Final
    /\ x2[t] = "over" => x3[t] \in Web!Final /\ t \notin x5
    /\ x3[t] \in Web!Final =>
         /\ x4[t] # <<>> /\ x3[t] = Web!StatusOf(x4[t][1])
         /\ x3[t] = "cancelled" => t \in x6
    /\ x9[t] = "stopped" => t \in x6

WebInv ==
    /\ Web!TypeOK
    /\ x4 \in [WebTaskIds -> Seq(Web!Outcomes \cup {"chunk"})]
    /\ x7 \in [WebTaskIds -> Nat] /\ x8 \in [WebTaskIds -> Nat]
    /\ \A t \in WebTaskIds : WebTask(t)

LEMMA WebConstants == MaxChunks \in Nat /\ None \notin WebTaskIds \cup Web!Outcomes
BY AgentsAssumption DEF Web!WebTasksAssumption

LEMMA WebInit == Web!Init => WebInv
<1> SUFFICES ASSUME Web!Init PROVE WebInv
  OBVIOUS
<1>1. /\ x1 = [t \in WebTaskIds |-> "none"] /\ x2 = [t \in WebTaskIds |-> "new"]
      /\ x3 = [t \in WebTaskIds |-> "pending"] /\ x4 = [t \in WebTaskIds |-> <<>>]
      /\ x5 = {} /\ x6 = {}
      /\ x7 = [t \in WebTaskIds |-> 0] /\ x8 = [t \in WebTaskIds |-> 0]
      /\ x9 = [t \in WebTaskIds |-> None]
  BY DEF Web!Init
<1>2. x4 \in [WebTaskIds -> Seq(Web!Outcomes \cup {"chunk"})]
  BY <1>1
<1>3. Web!TypeOK
  BY <1>1, <1>2, WebConstants DEF Web!TypeOK, Web!Places, Web!Ways, Web!Final
<1>4. ASSUME NEW t \in WebTaskIds PROVE WebTask(t)
  BY <1>1, WebConstants DEF WebTask, Web!Final, Web!Outcomes
<1> QED
  BY <1>1, <1>2, <1>3, <1>4 DEF WebInv

\* What a step of one task leaves of the others.
WebOthers(t) ==
    \A u \in WebTaskIds \ {t} :
      /\ x1'[u] = x1[u] /\ x2'[u] = x2[u] /\ x3'[u] = x3[u] /\ x4'[u] = x4[u]
      /\ u \in x5' <=> u \in x5
      /\ u \in x6 => u \in x6'
      /\ x9'[u] = x9[u]

\* The status of a task that has ended stays.
WebKept(t) == x3[t] \in Web!Final => x3'[t] = x3[t]

LEMMA WebStays ==
    ASSUME WebInv, NEW t \in WebTaskIds, Web!TypeOK',
           x4' \in [WebTaskIds -> Seq(Web!Outcomes \cup {"chunk"})],
           x7' \in [WebTaskIds -> Nat], x8' \in [WebTaskIds -> Nat],
           WebOthers(t), WebTask(t)', WebKept(t)
    PROVE  WebInv' /\ Web!Settled
<1>1. ASSUME NEW u \in WebTaskIds PROVE WebTask(u)'
  BY Zenon DEF WebInv, WebTask, WebOthers
<1>2. ASSUME NEW u \in WebTaskIds, x3[u] \in Web!Final PROVE x3'[u] = x3[u]
  BY <1>2 DEF WebOthers, WebKept
<1> QED
  BY Zenon, <1>1, <1>2 DEF WebInv, Web!Settled

\* The outcome of a run as the status of its task.
LEMMA StatusOfEnds ==
    ASSUME NEW how \in Web!Outcomes
    PROVE  /\ Web!StatusOf(how) \in Web!Final
           /\ Web!StatusOf(how) = "cancelled" => how = "stopped"
BY DEF Web!Outcomes, Web!Final, Web!StatusOf

LEMMA WebCreates ==
    ASSUME WebInv, NEW t \in WebTaskIds,
           Web!Create(t) \/ (\E p \in Web!Ways : Web!Route(t, p)) \/ Web!Start(t)
    PROVE  WebInv' /\ Web!Settled
<1>1. Web!TypeOK'
  <2>1. CASE Web!Create(t)
    BY <2>1 DEF WebInv, Web!TypeOK, Web!Create, Web!Goes, Web!Places
  <2>2. ASSUME NEW p \in Web!Ways, Web!Route(t, p) PROVE Web!TypeOK'
    BY <2>2 DEF WebInv, Web!TypeOK, Web!Route, Web!Goes, Web!Places
  <2>3. CASE Web!Start(t)
    BY <2>3 DEF WebInv, Web!TypeOK, Web!Start, Web!Goes, Web!Places
  <2> QED
    BY <2>1, <2>2, <2>3
<1>2. WebOthers(t) /\ WebKept(t)
  BY DEF WebInv, Web!TypeOK, Web!Create, Web!Route, Web!Start, Web!Goes, WebOthers, WebKept, Web!Final
<1>3. WebTask(t)'
  BY DEF WebInv, WebTask, Web!TypeOK, Web!Create, Web!Route, Web!Start, Web!Goes, Web!Final, Web!Ways
<1>4. x4' = x4 /\ x7' = x7 /\ x8' = x8
  BY DEF Web!Create, Web!Route, Web!Start
<1> QED
  BY Zenon, <1>1, <1>2, <1>3, <1>4, WebStays DEF WebInv

LEMMA WebStopsAndEnds ==
    ASSUME WebInv, NEW t \in WebTaskIds,
           Web!Stop(t) \/ (\E how \in Web!Outcomes : Web!Ends(t, how))
    PROVE  WebInv' /\ Web!Settled
<1>1. Web!TypeOK'
  BY Zenon DEF WebInv, Web!TypeOK, Web!Stop, Web!Ends
<1>2. WebOthers(t) /\ WebKept(t)
  BY DEF WebInv, Web!TypeOK, Web!Stop, Web!Ends, WebOthers, WebKept
<1>3. WebTask(t)'
  <2>1. CASE Web!Stop(t)
    BY <2>1 DEF WebInv, WebTask, Web!Stop
  <2>2. ASSUME NEW how \in Web!Outcomes, Web!Ends(t, how) PROVE WebTask(t)'
    <3>1. x9'[t] = how /\ how # None
      BY <2>2, WebConstants DEF WebInv, Web!TypeOK, Web!Ends
    <3> QED
      BY <2>2, <3>1 DEF WebInv, WebTask, Web!Ends
  <2> QED
    BY <2>1, <2>2
<1>4. x4' = x4 /\ x7' = x7 /\ x8' = x8
  BY DEF Web!Stop, Web!Ends
<1> QED
  BY Zenon, <1>1, <1>2, <1>3, <1>4, WebStays DEF WebInv

\* A result that takes the place of the text begins with what the task ended with.
LEMMA WebBecomes ==
    ASSUME WebInv, NEW t \in WebTaskIds, NEW how \in Web!Outcomes,
           Web!Becomes(t, Web!StatusOf(how), how)
    PROVE  /\ x3' \in [WebTaskIds -> Web!Final \cup {"pending", "running"}]
           /\ x4' \in [WebTaskIds -> Seq(Web!Outcomes \cup {"chunk"})]
           /\ x3'[t] = Web!StatusOf(how) /\ x3'[t] \in Web!Final
           /\ x4'[t] # <<>> /\ x4'[t][1] = how
           /\ \A u \in WebTaskIds \ {t} : x3'[u] = x3[u] /\ x4'[u] = x4[u]
<1>1. /\ x3 \in [WebTaskIds -> {"pending", "running"} \cup Web!Final]
      /\ x4 \in [WebTaskIds -> Seq(Web!Outcomes \cup {"chunk"})]
  BY DEF WebInv, Web!TypeOK
<1>2. <<how>> \in Seq(Web!Outcomes \cup {"chunk"}) /\ <<how>> # <<>> /\ <<how>>[1] = how
  OBVIOUS
<1>3. x3' = [x3 EXCEPT ![t] = Web!StatusOf(how)] /\ x4' = [x4 EXCEPT ![t] = <<how>>]
  BY DEF Web!Becomes
<1> DEFINE c == <<how>>
<1> HIDE DEF c
<1>4. c \in Seq(Web!Outcomes \cup {"chunk"}) /\ c # <<>> /\ c[1] = how
      /\ x4' = [x4 EXCEPT ![t] = c]
  BY <1>2, <1>3 DEF c
<1> QED
  BY <1>1, <1>3, <1>4, StatusOfEnds

\* The way of an answer or a failure into the record.
WebStored(t, how) ==
    \/ /\ x2[t] = "created" /\ how = "error" /\ Web!Goes(t, "over")
       /\ UNCHANGED <<x1, x5, x6, x7, x8, x9>>
    \/ /\ x1[t] = "agent" /\ x2[t] = "waiting" /\ Web!Goes(t, "closing")
       /\ how = x9[t] \/ how = "error"
       /\ UNCHANGED <<x1, x5, x6, x7, x8, x9>>
    \/ /\ x1[t] \in Web!Loops /\ x2[t] = "ended" /\ Web!Goes(t, "over")
       /\ how = x9[t]
       /\ UNCHANGED <<x1, x5, x6, x7, x8, x9>>

LEMMA WebStores ==
    ASSUME WebInv, NEW t \in WebTaskIds, NEW how \in Web!Outcomes,
           WebStored(t, how), Web!Becomes(t, Web!StatusOf(how), how)
    PROVE  WebInv' /\ Web!Settled
<1>1. /\ x3' \in [WebTaskIds -> Web!Final \cup {"pending", "running"}]
      /\ x4' \in [WebTaskIds -> Seq(Web!Outcomes \cup {"chunk"})]
      /\ x3'[t] = Web!StatusOf(how) /\ x3'[t] \in Web!Final
      /\ x4'[t] # <<>> /\ x4'[t][1] = how
      /\ \A u \in WebTaskIds \ {t} : x3'[u] = x3[u] /\ x4'[u] = x4[u]
  BY WebBecomes
<1>2. /\ x2 \in [WebTaskIds -> Web!Places]
      /\ x2' \in [WebTaskIds -> Web!Places] /\ \A u \in WebTaskIds \ {t} : x2'[u] = x2[u]
      /\ x1' = x1 /\ x5' = x5 /\ x6' = x6 /\ x7' = x7 /\ x8' = x8 /\ x9' = x9
  BY Zenon DEF WebInv, Web!TypeOK, WebStored, Web!Goes, Web!Places
<1>3. \A u \in WebTaskIds : x4'[u] \in Seq(Web!Outcomes \cup {"chunk"})
  BY <1>1
<1>4. Web!TypeOK'
  BY <1>1, <1>2, <1>3 DEF WebInv, Web!TypeOK
<1>5. x3[t] \notin Web!Final
  BY DEF WebInv, WebTask, WebStored, Web!Final
<1>6. WebOthers(t) /\ WebKept(t)
  BY <1>1, <1>2, <1>5 DEF WebOthers, WebKept
<1>7. x3'[t] = "cancelled" => t \in x6'
  <2>1. x3'[t] = "cancelled" => how = "stopped"
    BY Zenon, <1>1, StatusOfEnds
  <2> QED
    BY <1>2, <2>1 DEF WebStored, WebInv, WebTask
<1>8. WebTask(t)'
  <2>1. x2'[t] \in {"closing", "over"}
        /\ (x2'[t] = "closing" => x1[t] = "agent")
        /\ (x2'[t] = "over" => t \notin x5)
    BY DEF WebInv, WebTask, Web!TypeOK, WebStored, Web!Goes
  <2> QED
    BY <1>1, <1>2, <1>7, <2>1 DEF WebTask, WebInv
<1> QED
  BY Zenon, <1>1, <1>2, <1>4, <1>6, <1>8, WebStays DEF WebInv

LEMMA WebAnswers ==
    ASSUME WebInv, NEW t \in WebTaskIds,
           \/ Web!NoWay(t) \/ Web!Answered(t) \/ Web!GivenUp(t)
           \/ Web!Store(t) \/ Web!StoreMcp(t)
    PROVE  WebInv' /\ Web!Settled
<1>1. "error" \in Web!Outcomes /\ Web!StatusOf("error") = "failed"
  BY DEF Web!Outcomes, Web!StatusOf
<1>2. CASE Web!NoWay(t)
  BY <1>1, <1>2, WebStores DEF Web!NoWay, WebStored
<1>3. CASE Web!GivenUp(t)
  BY <1>1, <1>3, WebStores DEF Web!GivenUp, WebStored
<1>4. CASE Web!Answered(t)
  <2>1. x9[t] \in Web!Outcomes
    BY <1>4 DEF WebInv, Web!TypeOK, Web!Answered
  <2> QED
    BY <1>4, <2>1, WebStores DEF Web!Answered, WebStored
<1>5. CASE Web!Store(t) \/ Web!StoreMcp(t)
  <2>1. x9[t] \in Web!Outcomes
    BY <1>5 DEF WebInv, Web!TypeOK, Web!Store, Web!StoreMcp, WebTask
  <2> QED
    BY <1>5, <2>1, WebStores DEF Web!Store, Web!StoreMcp, WebStored, Web!Loops
<1> QED
  BY <1>2, <1>3, <1>4, <1>5

LEMMA WebEnds ==
    ASSUME WebInv, NEW t \in WebTaskIds, Web!Ended(t) \/ Web!Unregister(t)
    PROVE  WebInv' /\ Web!Settled
<1>1. Web!TypeOK'
  BY Zenon DEF WebInv, Web!TypeOK, Web!Ended, Web!Unregister, Web!Goes, Web!Places
<1>2. WebOthers(t) /\ WebKept(t)
  BY DEF WebInv, Web!TypeOK, Web!Ended, Web!Unregister, Web!Goes, WebOthers, WebKept
<1>3. WebTask(t)'
  BY DEF WebInv, WebTask, Web!TypeOK, Web!Ended, Web!Unregister, Web!Goes, Web!Loops
<1>4. x4' = x4 /\ x7' = x7 /\ x8' = x8
  BY DEF Web!Ended, Web!Unregister
<1> QED
  BY Zenon, <1>1, <1>2, <1>3, <1>4, WebStays DEF WebInv

LEMMA WebChunks ==
    ASSUME WebInv, NEW t \in WebTaskIds, Web!Chunk(t)
    PROVE  WebInv' /\ Web!Settled
<1>1. x7' \in [WebTaskIds -> Nat] /\ x8' \in [WebTaskIds -> Nat]
      /\ \A u \in WebTaskIds : x7'[u] <= x8'[u] /\ x8'[u] <= MaxChunks
  BY WebConstants DEF WebInv, Web!TypeOK, Web!Chunk
<1>2. Web!TypeOK'
  BY <1>1 DEF WebInv, Web!TypeOK, Web!Chunk
<1>3. WebOthers(t) /\ WebKept(t) /\ WebTask(t)'
  BY DEF WebInv, Web!Chunk, WebOthers, WebKept, WebTask
<1>4. x4' = x4
  BY DEF Web!Chunk
<1> QED
  BY Zenon, <1>1, <1>2, <1>3, <1>4, WebStays DEF WebInv

\* A chunk is put behind what there is.
LEMMA WebCopies ==
    ASSUME WebInv, NEW t \in WebTaskIds, Web!Copy(t)
    PROVE  WebInv' /\ Web!Settled
<1>1. x7' \in [WebTaskIds -> Nat] /\ \A u \in WebTaskIds : x7'[u] <= x8[u]
  <2>1. x7[t] \in Nat /\ x7[t] - 1 \in Nat /\ x7[t] <= x8[t] /\ x8[t] \in Nat
    BY DEF WebInv, Web!TypeOK, Web!Copy
  <2> QED
    BY <2>1 DEF WebInv, Web!TypeOK, Web!Copy
<1> DEFINE old == x4[t]
           new == Append(x4[t], "chunk")
<1>2. old \in Seq(Web!Outcomes \cup {"chunk"})
  BY DEF WebInv
<1>3. new \in Seq(Web!Outcomes \cup {"chunk"}) /\ (old # <<>> => new # <<>> /\ new[1] = old[1])
  <2> HIDE DEF old
  <2> QED
    BY <1>2 DEF new, old
<1>4. x4' = [x4 EXCEPT ![t] = new]
  BY DEF Web!Copy
<1> HIDE DEF old, new
<1>5. /\ x4' \in [WebTaskIds -> Seq(Web!Outcomes \cup {"chunk"})] /\ x4'[t] = new
      /\ \A u \in WebTaskIds \ {t} : x4'[u] = x4[u]
  BY <1>3, <1>4 DEF WebInv
<1>6. Web!TypeOK'
  BY Zenon, <1>1, <1>5 DEF WebInv, Web!TypeOK, Web!Copy
<1>7. WebOthers(t) /\ WebKept(t)
  BY <1>5 DEF Web!Copy, WebOthers, WebKept
<1>8. WebTask(t)'
  BY <1>3, <1>5 DEF WebInv, WebTask, Web!Copy, old
<1> QED
  BY Zenon, <1>1, <1>5, <1>6, <1>7, <1>8, WebStays DEF WebInv, Web!Copy

LEMMA WebStep ==
    ASSUME WebInv, Web!Next \/ UNCHANGED own
    PROVE  WebInv' /\ Web!Settled
<1>1. CASE Web!Next
  BY <1>1, WebCreates, WebStopsAndEnds, WebAnswers, WebEnds, WebChunks, WebCopies
     DEF Web!Next
<1>2. CASE UNCHANGED own
  BY <1>2 DEF own, WebInv, WebTask, Web!TypeOK, Web!Settled
<1> QED
  BY <1>1, <1>2

\* What a task shows, and that its result begins with the answer.
LEMMA WebShown == WebInv => Web!ShownAsEnded /\ Web!TypeOK
<1> SUFFICES ASSUME WebInv, NEW t \in WebTaskIds
             PROVE  /\ x3[t] \in Web!Final =>
                         /\ x3[t] = Web!StatusOf(x4[t][1])
                         /\ x3[t] = "cancelled" => t \in x6
                    /\ x2[t] = "over" => x3[t] \in Web!Final /\ t \notin x5
                    /\ x1[t] \in Web!Loops /\ t \in x5 => x3[t] \notin Web!Final
  BY DEF WebInv, Web!ShownAsEnded
<1> QED
  BY Zenon DEF WebInv, WebTask, Web!TypeOK, Web!Places, Web!Loops, Web!Final


-------------------------------------------------------------------------------
(* The answers on their way to clients                                     *)

\* x1: kind, x2: queue, x3: serving, x4: delta, x5: response, x6: relay, x7: sse,
\* x8: seen, x9: gone, x10: saved.
AnswerEvents == 0 .. AnswerChunks + 2
ChunkEvents == 1 .. AnswerChunks
AnswerDelta == [made : 0 .. AnswerChunks, waiting : Seq(ChunkEvents), open : BOOLEAN]
AnswerOutcomes == {None, "answer", "error", "cancelled"}
AnswerPlaces == {"none", "await", "forward", "error", "finish", "over"}

AnswersTyped ==
    /\ x1 \in [Clients -> Answers!Kinds]
    /\ x2 \in Seq(Clients) /\ Distinct(x2)
    /\ x3 \in Clients \cup {None, Halted} /\ (x3 \in Clients => x3 \notin Elements(x2))
    /\ x4 \in [Clients -> AnswerDelta]
    /\ x5 \in [Clients -> AnswerOutcomes]
    /\ x6 \in [Clients -> AnswerPlaces]
    /\ x7 \in [Clients -> Seq(AnswerEvents)] /\ x8 \in [Clients -> Seq(AnswerEvents)]

\* A request whose turn is to come or has come.
Waits(r) == x3 = r \/ r \in Elements(x2)

\* The events made for a client: those it has read and those it may read.
Events(r) == x8[r] \o x7[r]

\* Where the answer to a request is, and what the channels hold then.
AnswerWay(r) ==
    /\ Waits(r) => x4[r].open /\ x5[r] = None /\ x6[r] # "none"
    /\ ~x4[r].open => x5[r] # None
    /\ r \notin x9 /\ x1[r] \in Answers!Streams /\ x6[r] \notin {"none", "forward"} =>
         ~x4[r].open /\ x4[r].waiting = <<>>
    /\ x1[r] = "plain" /\ x6[r] \in {"await", "finish"} => ~x4[r].open
    /\ r \in x10 => ~x4[r].open

\* Before the request is made.
AnswerUnasked(r) ==
    x6[r] = "none" =>
      /\ x4[r].open /\ x5[r] = None /\ x4[r].made = 0 /\ x4[r].waiting = <<>>
      /\ Events(r) = <<>> /\ r \notin x9 /\ r \notin x10

\* The last event is the last one, and follows what it ends.
AnswerEnd(r) ==
    /\ r \in x9 => x7[r] = <<>> /\ Answers!Done \notin Elements(Events(r))
    /\ r \notin x9 =>
         \A i \in 1 .. Len(Events(r)) :
           Events(r)[i] = Answers!Done => i = Len(Events(r)) /\ x6[r] = "over"
    /\ r \notin x9 /\ x1[r] \in {"plain", "agentic", "mcp"} /\ x6[r] \in {"finish", "over"} =>
         r \in x10 \/ Answers!ErrorText \in Elements(Events(r))

\* The chunks made are those sent and those not yet forwarded.
Count(n) == [i \in 1 .. n |-> i]
AnswerChunked(r) ==
    r \notin x9 /\ x1[r] \in Answers!Streams =>
      OnlyIn(Events(r), ChunkEvents) \o x4[r].waiting = Count(x4[r].made)

AnswerOf(r) == AnswerWay(r) /\ AnswerUnasked(r) /\ AnswerEnd(r) /\ AnswerChunked(r)

AnswersInv == AnswersTyped /\ \A r \in Clients : AnswerOf(r)

LEMMA AnswersConstants ==
    /\ AnswerChunks \in Nat \ {0} /\ Wanted \subseteq [Clients -> Answers!Kinds]
    /\ Halted # None /\ None \notin Clients /\ Halted \notin Clients
    /\ None \notin {"answer", "error", "cancelled"}
    /\ Answers!Done = AnswerChunks + 2 /\ Answers!ErrorText = AnswerChunks + 1
    /\ Answers!Role = 0
    /\ ChunkEvents \subseteq AnswerEvents
    /\ Answers!Done \in AnswerEvents \ ChunkEvents
    /\ Answers!ErrorText \in AnswerEvents \ ChunkEvents
    /\ Answers!Role \in AnswerEvents \ ChunkEvents
    /\ Answers!Done # Answers!ErrorText /\ Answers!Done # Answers!Role
<1>1. /\ AnswerChunks \in Nat \ {0} /\ Wanted \subseteq [Clients -> Answers!Kinds]
      /\ Halted # None /\ None \notin Clients /\ Halted \notin Clients
      /\ None \notin {"answer", "error", "cancelled"}
  BY AgentsAssumption DEF Answers!CompletionsAssumption
<1> QED
  BY <1>1 DEF Answers!Done, Answers!ErrorText, Answers!Role, AnswerEvents, ChunkEvents

\* Events sent and read.
LEMMA EventsRead ==
    ASSUME NEW A, NEW s \in Seq(A), NEW t \in Seq(A), t # <<>>
    PROVE  Append(s, Head(t)) \o Tail(t) = s \o t
OBVIOUS

LEMMA EventsSent ==
    ASSUME NEW A, NEW s \in Seq(A), NEW t \in Seq(A), NEW e \in A
    PROVE  s \o Append(t, e) = Append(s \o t, e) /\ s \o t \in Seq(A)
OBVIOUS

LEMMA EventsChunks ==
    ASSUME AnswersTyped, NEW r \in Clients
    PROVE  Events(r) \in Seq(AnswerEvents) /\ OnlyIn(Events(r), ChunkEvents) \in Seq(ChunkEvents)
<1>1. PICK s, t \in Seq(AnswerEvents) : s = x8[r] /\ t = x7[r]
  BY DEF AnswersTyped
<1>2. PICK E : E = s \o t /\ E \in Seq(AnswerEvents) /\ E = Events(r)
  <2>1. s \o t \in Seq(AnswerEvents)
    OBVIOUS
  <2> QED
    BY Zenon, <1>1, <2>1 DEF Events
<1>3. AnswerEvents \cap ChunkEvents = ChunkEvents
  BY Zenon, AnswersConstants
<1>4. OnlyIn(E, ChunkEvents) \in Seq(ChunkEvents)
  <2>1. OnlyIn(E, ChunkEvents) \in Seq(AnswerEvents \cap ChunkEvents)
    BY <1>2, OnlyIsSeq
  <2> QED
    BY <1>3, <2>1, Zenon
<1> QED
  BY <1>2, <1>4

LEMMA CountMore ==
    ASSUME NEW n \in Nat
    PROVE  Append(Count(n), n + 1) = Count(n + 1)
<1>1. Count(n) \in Seq(Nat) /\ Len(Count(n)) = n
  BY DEF Count
<1>2. Count(n + 1) \in Seq(Nat) /\ Len(Count(n + 1)) = n + 1
  BY DEF Count
<1>3. \A i \in 1 .. n : Count(n)[i] = i /\ Count(n + 1)[i] = i
  BY DEF Count
<1>4. Count(n + 1)[n + 1] = n + 1
  BY DEF Count
<1> HIDE DEF Count
<1>5. PICK s, t \in Seq(Nat) : s = Count(n) /\ t = Count(n + 1)
  BY <1>1, <1>2
<1>6. /\ Append(s, n + 1) \in Seq(Nat) /\ Len(Append(s, n + 1)) = n + 1
      /\ Append(s, n + 1)[n + 1] = n + 1
      /\ \A i \in 1 .. n : Append(s, n + 1)[i] = s[i]
  BY <1>1, <1>5
<1>7. \A i \in 1 .. n + 1 : Append(s, n + 1)[i] = t[i]
  BY <1>3, <1>4, <1>5, <1>6
<1> QED
  BY Zenon, <1>2, <1>5, <1>6, <1>7, SeqEqual

LEMMA AnswersInit == Answers!Init => AnswersInv
<1> SUFFICES ASSUME Answers!Init PROVE AnswersInv
  OBVIOUS
<1>1. PICK none : none = <<>> /\ none \in Seq(AnswerEvents) /\ none \in Seq(ChunkEvents)
                  /\ none \o none = none /\ Len(none) = 0 /\ none \in Seq(Clients)
                  /\ Distinct(none) /\ Elements(none) = {}
  <2>1. /\ <<>> \in Seq(AnswerEvents) /\ <<>> \in Seq(ChunkEvents)
        /\ <<>> \o <<>> = <<>> /\ Len(<<>>) = 0 /\ <<>> \in Seq(Clients)
    OBVIOUS
  <2>2. Distinct(<<>>) /\ Elements(<<>>) = {}
    BY DEF Distinct, Elements
  <2> QED
    BY Zenon, <2>1, <2>2
<1>2. /\ x1 \in [Clients -> Answers!Kinds] /\ x2 = none /\ x3 = None
      /\ x4 = [r \in Clients |-> [made |-> 0, waiting |-> none, open |-> TRUE]]
      /\ x5 = [r \in Clients |-> None] /\ x6 = [r \in Clients |-> "none"]
      /\ x7 = [r \in Clients |-> none] /\ x8 = [r \in Clients |-> none]
      /\ x9 = {} /\ x10 = {}
  BY <1>1, AnswersConstants DEF Answers!Init
<1>3. AnswersTyped
  BY <1>1, <1>2, AnswersConstants DEF AnswersTyped, AnswerDelta, AnswerOutcomes, AnswerPlaces
<1>4. ASSUME NEW r \in Clients PROVE AnswerOf(r)
  <2>1. /\ x4[r].made = 0 /\ x4[r].waiting = none /\ x4[r].open /\ x5[r] = None
        /\ x6[r] = "none" /\ Events(r) = none /\ ~Waits(r)
    BY <1>1, <1>2, AnswersConstants DEF Events, Waits
  <2>2. OnlyIn(none, ChunkEvents) = none /\ Count(0) = none
    BY <1>1, OnlyOfNone DEF Count
  <2>3. AnswerChunked(r)
    BY <1>1, <2>1, <2>2 DEF AnswerChunked
  <2> QED
    BY <1>1, <1>2, <2>1, <2>3
       DEF AnswerOf, AnswerWay, AnswerUnasked, AnswerEnd
<1> QED
  BY <1>3, <1>4 DEF AnswersInv

\* What a step for one request leaves of the others.
AnswersOthers(r) ==
    \A u \in Clients \ {r} :
      /\ x1'[u] = x1[u] /\ x4'[u] = x4[u] /\ x5'[u] = x5[u] /\ x6'[u] = x6[u]
      /\ x7'[u] = x7[u] /\ x8'[u] = x8[u]
      /\ u \in x9' <=> u \in x9
      /\ u \in x10' <=> u \in x10
      /\ Waits(u)' => Waits(u)

LEMMA AnswersStay ==
    ASSUME AnswersInv, NEW r \in Clients, AnswersTyped', AnswersOthers(r), AnswerOf(r)'
    PROVE  AnswersInv'
<1>1. ASSUME NEW u \in Clients, u # r PROVE AnswerOf(u)'
  <2>1. Events(u)' = Events(u)
    BY Zenon, <1>1 DEF AnswersOthers, Events
  <2>2. AnswerOf(u)
    BY DEF AnswersInv
  <2>3. AnswerWay(u)' /\ AnswerUnasked(u)' /\ AnswerEnd(u)'
    BY <1>1, <2>1, <2>2 DEF AnswersOthers, AnswerOf, AnswerWay, AnswerUnasked, AnswerEnd
  <2>4. AnswerChunked(u)'
    BY Zenon, <1>1, <2>1, <2>2 DEF AnswersOthers, AnswerOf, AnswerChunked
  <2> QED
    BY <2>3, <2>4 DEF AnswerOf
<1> QED
  BY <1>1 DEF AnswersInv

\* A step that sends no event and makes no chunk changes only the way.
LEMMA AnswersMove ==
    ASSUME AnswersInv, NEW r \in Clients, AnswersTyped', AnswersOthers(r),
           x1' = x1, x7' = x7, x8' = x8, x9' = x9,
           x4'[r].made = x4[r].made, x4'[r].waiting = x4[r].waiting,
           x6'[r] # "none", x6'[r] = x6[r] \/ (x6[r] # "over" /\ x6'[r] # "over"),
           x6'[r] = "finish" /\ x1[r] \in {"plain", "agentic", "mcp"} /\ x6[r] # "finish" => r \in x10',
           r \in x10 => r \in x10',
           AnswerWay(r)'
    PROVE  AnswersInv'
<1>1. Events(r)' = Events(r)
  BY DEF Events
<1>2. AnswerOf(r)
  BY DEF AnswersInv
<1>3. AnswerUnasked(r)'
  BY DEF AnswerUnasked
<1>4. AnswerEnd(r)'
  BY <1>1, <1>2 DEF AnswerOf, AnswerEnd
<1>5. AnswerChunked(r)'
  BY <1>1, <1>2 DEF AnswerOf, AnswerChunked
<1> QED
  BY <1>3, <1>4, <1>5, AnswersStay DEF AnswerOf

\* A request is queued.
LEMMA AnswersQueued ==
    ASSUME AnswersInv, NEW r \in Clients, x6[r] = "none", x2' = Append(x2, r), x3' = x3
    PROVE  /\ x2' \in Seq(Clients) /\ Distinct(x2') /\ Elements(x2') = Elements(x2) \cup {r}
           /\ (x3' \in Clients => x3' \notin Elements(x2'))
           /\ ~Waits(r)
<1>1. ~Waits(r)
  BY DEF AnswersInv, AnswerOf, AnswerWay
<1>2. x2 \in Seq(Clients) /\ Distinct(x2)
  BY DEF AnswersInv, AnswersTyped
<1>3. PICK s \in Seq(Clients) : s = x2
  BY <1>2
<1>4. /\ Append(s, r) \in Seq(Clients) /\ Elements(Append(s, r)) = Elements(s) \cup {r}
      /\ Distinct(s) /\ r \notin Elements(s) => Distinct(Append(s, r))
  BY AppendElements
<1>5. x2' = Append(s, r)
  BY <1>3
<1>6. Distinct(x2') /\ Elements(x2') = Elements(x2) \cup {r} /\ x2' \in Seq(Clients)
  <2>1. PICK q : q = Append(s, r)
    BY Zenon
  <2>2. x2' = q /\ q \in Seq(Clients) /\ Elements(q) = Elements(x2) \cup {r} /\ Distinct(q)
    BY <1>1, <1>2, <1>3, <1>4, <1>5, <2>1 DEF Waits
  <2> QED
    BY <2>2
<1> QED
  BY <1>1, <1>6 DEF Waits, AnswersInv, AnswersTyped

LEMMA AnswersAsk ==
    ASSUME AnswersInv, NEW r \in Clients,
           Answers!AskWhole(r) \/ Answers!AskOpenai(r) \/ Answers!AskPlain(r)
             \/ Answers!AskWithTools(r)
    PROVE  AnswersInv'
<1>1. /\ x6[r] = "none" /\ x2' = Append(x2, r) /\ x3' = x3 /\ x1' = x1 /\ x4' = x4
      /\ x5' = x5 /\ x8' = x8 /\ x9' = x9 /\ x10' = x10
  BY DEF Answers!AskWhole, Answers!AskOpenai, Answers!AskPlain, Answers!AskWithTools,
         Answers!Queued
<1>2. \/ x6' = [x6 EXCEPT ![r] = "await"] /\ x1[r] = "whole" /\ x7' = x7
      \/ x6' = [x6 EXCEPT ![r] = "forward"] /\ x7' = x7
      \/ x6' = [x6 EXCEPT ![r] = "forward"] /\ x7' = Answers!Sent(r, Answers!Role)
  BY DEF Answers!AskWhole, Answers!AskOpenai, Answers!AskPlain, Answers!AskWithTools,
         Answers!To
<1>3. /\ x2' \in Seq(Clients) /\ Distinct(x2') /\ Elements(x2') = Elements(x2) \cup {r}
      /\ (x3' \in Clients => x3' \notin Elements(x2'))
      /\ ~Waits(r)
  BY <1>1, AnswersQueued
<1>4. /\ x4[r].open /\ x5[r] = None /\ x4[r].made = 0 /\ x4[r].waiting = <<>>
      /\ Events(r) = <<>> /\ r \notin x9 /\ r \notin x10
  BY <1>1 DEF AnswersInv, AnswerOf, AnswerUnasked
<1>5. PICK s, t \in Seq(AnswerEvents) : s = x8[r] /\ t = x7[r]
  BY DEF AnswersInv, AnswersTyped
<1>6. PICK one \in Seq(AnswerEvents) :
        /\ one = Append(t, Answers!Role)
        /\ s \o one = Append(<<>>, Answers!Role)
  <2>1. Append(t, Answers!Role) \in Seq(AnswerEvents)
        /\ s \o Append(t, Answers!Role) = Append(s \o t, Answers!Role)
    BY AnswersConstants, EventsSent
  <2> QED
    BY Zenon, <1>4, <1>5, <2>1 DEF Events
<1>7. /\ x7' \in [Clients -> Seq(AnswerEvents)]
      /\ x7'[r] = t \/ x7'[r] = one
      /\ \A u \in Clients \ {r} : x7'[u] = x7[u]
  BY Zenon, <1>2, <1>4, <1>5, <1>6 DEF AnswersInv, AnswersTyped, Answers!Sent
<1>8. AnswersTyped'
  BY Zenon, <1>1, <1>2, <1>3, <1>7 DEF AnswersInv, AnswersTyped, AnswerPlaces
<1>9. AnswersOthers(r)
  BY <1>1, <1>2, <1>3, <1>7 DEF AnswersInv, AnswersTyped, AnswersOthers, Waits
<1>10. PICK E : /\ E = Events(r)'
                /\ \/ E = <<>>
                   \/ E = Append(<<>>, Answers!Role)
  BY Zenon, <1>1, <1>4, <1>5, <1>6, <1>7 DEF Events
<1>11. /\ OnlyIn(E, ChunkEvents) = <<>>
       /\ E \in Seq(AnswerEvents) /\ Answers!Done \notin Elements(E)
  <2>1. CASE E = <<>>
    BY <2>1, OnlyOfNone DEF Elements
  <2>2. CASE E = Append(<<>>, Answers!Role)
    <3>1. PICK e \in AnswerEvents : e = Answers!Role /\ e \notin ChunkEvents /\ e # Answers!Done
      BY AnswersConstants
    <3>2. <<>> \in Seq(AnswerEvents)
      OBVIOUS
    <3>3. OnlyIn(Append(<<>>, e), ChunkEvents) = <<>>
      BY Zenon, <3>1, <3>2, OnlyOfAppend, OnlyOfNone
    <3>4. Append(<<>>, e) \in Seq(AnswerEvents) /\ Elements(Append(<<>>, e)) = {e}
      BY DEF Elements
    <3> QED
      BY <2>2, <3>1, <3>3, <3>4
  <2> QED
    BY <1>10, <2>1, <2>2
<1>12. x6'[r] \in {"await", "forward"} /\ (x6'[r] = "await" => x1'[r] = "whole")
  BY <1>1, <1>2 DEF AnswersInv, AnswersTyped
<1>13. AnswerWay(r)' /\ AnswerUnasked(r)'
  BY <1>1, <1>4, <1>12 DEF AnswersInv, AnswerOf, AnswerWay, AnswerUnasked,
         Answers!Streams
<1>14. AnswerEnd(r)'
  BY <1>1, <1>4, <1>10, <1>11, <1>12 DEF AnswerEnd, Elements
<1>15. AnswerChunked(r)'
  <2>1. Count(0) = <<>> /\ <<>> \o <<>> = <<>>
    BY DEF Count
  <2> QED
    BY <1>1, <1>4, <1>10, <1>11, <2>1 DEF AnswerChunked
<1> QED
  BY <1>8, <1>9, <1>13, <1>14, <1>15, AnswersStay DEF AnswerOf

LEMMA AnswersServe ==
    ASSUME AnswersInv, Answers!Serve
    PROVE  AnswersInv'
<1>1. /\ x2 # <<>> /\ x3 = None /\ x3' = Head(x2) /\ x2' = Tail(x2)
      /\ x1' = x1 /\ x4' = x4 /\ x5' = x5 /\ x6' = x6 /\ x7' = x7 /\ x8' = x8
      /\ x9' = x9 /\ x10' = x10
  BY DEF Answers!Serve
<1>2. PICK s \in Seq(Clients) : s = x2 /\ s # <<>> /\ Distinct(s)
  BY <1>1 DEF AnswersInv, AnswersTyped
<1>3. PICK h, q : /\ h = Head(s) /\ q = Tail(s)
                  /\ h \in Clients /\ q \in Seq(Clients) /\ Distinct(q)
                  /\ Elements(s) = Elements(q) \cup {h} /\ h \notin Elements(q)
  BY Zenon, <1>2, TailElements
<1>4. x3' = h /\ x2' = q /\ Elements(x2) = Elements(x2') \cup {h}
  BY <1>1, <1>2, <1>3
<1>5. AnswersTyped'
  BY Zenon, <1>1, <1>3, <1>4 DEF AnswersInv, AnswersTyped
<1>6. ASSUME NEW u \in Clients PROVE AnswerOf(u)'
  <2>1. (Waits(u)' => Waits(u)) /\ Events(u)' = Events(u) /\ AnswerOf(u)
    BY Zenon, <1>1, <1>4 DEF Waits, Events, AnswersInv
  <2> QED
    BY Zenon, <1>1, <2>1 DEF AnswerOf, AnswerWay, AnswerUnasked, AnswerEnd, AnswerChunked
<1> QED
  BY <1>5, <1>6 DEF AnswersInv

LEMMA WithToolsIsTruth == \A r : Answers!WithTools(r) \in BOOLEAN
<1> TAKE r
<1>1. Answers!WithTools(r) <=> x1[r] \in {"agentic", "mcp"}
  BY DEF Answers!WithTools
<1> QED
  BY <1>1 DEF Answers!WithTools

LEMMA AnswersAnswer ==
    ASSUME AnswersInv, NEW r \in Clients, NEW answer \in {"answer", "error"},
           Answers!Answer(r, answer)
    PROVE  AnswersInv'
<1>1. /\ x3 = r /\ x3' = None /\ x1' = x1 /\ x2' = x2 /\ x6' = x6 /\ x7' = x7
      /\ x8' = x8 /\ x9' = x9 /\ x10' = x10
      /\ x5' = [x5 EXCEPT ![r] = answer]
      /\ x4' = [x4 EXCEPT ![r].open = Answers!WithTools(r)]
  BY DEF Answers!Answer
<1>2. PICK b \in BOOLEAN : b = Answers!WithTools(r)
  BY WithToolsIsTruth
<1>3. /\ x4' \in [Clients -> AnswerDelta] /\ \A u \in Clients \ {r} : x4'[u] = x4[u]
      /\ x4'[r].made = x4[r].made /\ x4'[r].waiting = x4[r].waiting /\ x4'[r].open = b
  BY Zenon, <1>1, <1>2 DEF AnswersInv, AnswersTyped, AnswerDelta
<1>4. /\ x5' \in [Clients -> AnswerOutcomes] /\ x5'[r] # None
      /\ \A u \in Clients \ {r} : x5'[u] = x5[u]
  BY <1>1, AnswersConstants DEF AnswersInv, AnswersTyped, AnswerOutcomes
<1>5. AnswersTyped'
  BY <1>1, <1>3, <1>4, AnswersConstants DEF AnswersInv, AnswersTyped
<1>6. AnswersOthers(r)
  BY <1>1, <1>3, <1>4, AnswersConstants DEF AnswersOthers, Waits
<1>7. x6[r] # "none" /\ x4[r].open /\ ~Waits(r)'
  <2>1. Waits(r)
    BY <1>1 DEF Waits
  <2>2. r \notin Elements(x2)
    BY <1>1 DEF AnswersInv, AnswersTyped
  <2> QED
    BY <1>1, <2>1, <2>2, AnswersConstants DEF AnswersInv, AnswerOf, AnswerWay, Waits
<1>8. AnswerWay(r)'
  BY <1>1, <1>3, <1>4, <1>7 DEF AnswersInv, AnswerOf, AnswerWay
<1> QED
  BY <1>1, <1>3, <1>5, <1>6, <1>7, <1>8, AnswersMove

LEMMA AnswersStop ==
    ASSUME AnswersInv, Answers!Stop
    PROVE  AnswersInv'
<1>1. /\ x3 \in {None, Halted} /\ x3' = Halted /\ x2' = <<>> /\ x1' = x1 /\ x6' = x6
      /\ x7' = x7 /\ x8' = x8 /\ x9' = x9 /\ x10' = x10
  BY DEF Answers!Stop
<1>2. Answers!Dropped = Elements(x2)
  BY DEF Answers!Dropped, Elements
<1>3. ASSUME NEW u \in Clients
      PROVE  /\ u \in Elements(x2) => x5'[u] = "cancelled"
             /\ u \notin Elements(x2) => x5'[u] = x5[u] /\ x4'[u] = x4[u]
             /\ x4'[u] \in AnswerDelta /\ x5'[u] \in AnswerOutcomes
             /\ x4'[u].made = x4[u].made /\ x4'[u].waiting = x4[u].waiting
  <2>1. x5'[u] = IF u \in Elements(x2) THEN "cancelled" ELSE x5[u]
    BY <1>2 DEF Answers!Stop
  <2>2. x4'[u] = IF u \in Elements(x2) THEN [x4[u] EXCEPT !.open = Answers!WithTools(u)]
                 ELSE x4[u]
    BY <1>2 DEF Answers!Stop
  <2>3. PICK b \in BOOLEAN : b = Answers!WithTools(u)
    BY WithToolsIsTruth
  <2>4. PICK d : d = x4[u] /\ d \in AnswerDelta
    BY DEF AnswersInv, AnswersTyped
  <2>5. /\ [d EXCEPT !.open = b] \in AnswerDelta
        /\ [d EXCEPT !.open = b].made = d.made /\ [d EXCEPT !.open = b].waiting = d.waiting
    BY <2>4 DEF AnswerDelta
  <2> QED
    BY <2>1, <2>2, <2>3, <2>4, <2>5 DEF AnswersInv, AnswersTyped, AnswerOutcomes
<1>4. /\ x4' = [u \in Clients |-> x4'[u]] /\ x5' = [u \in Clients |-> x5'[u]]
  BY DEF Answers!Stop
<1>5. x2' \in Seq(Clients) /\ Distinct(x2') /\ Elements(x2') = {}
  BY <1>1 DEF Distinct, Elements
<1>6. AnswersTyped'
  <2>1. x4' \in [Clients -> AnswerDelta] /\ x5' \in [Clients -> AnswerOutcomes]
    BY <1>3, <1>4
  <2> QED
    BY <1>1, <1>5, <2>1, AnswersConstants DEF AnswersInv, AnswersTyped
<1>7. ASSUME NEW u \in Clients PROVE AnswerOf(u)'
  <2>1. ~Waits(u)' /\ Events(u)' = Events(u) /\ AnswerOf(u)
    BY <1>1, <1>5, AnswersConstants DEF Waits, Events, AnswersInv
  <2>2. u \in Elements(x2) => x4[u].open /\ x6[u] # "none"
    BY <2>1 DEF Waits, AnswerOf, AnswerWay
  <2>3. AnswerWay(u)'
    BY <1>1, <1>3, <2>1, <2>2, AnswersConstants DEF AnswerOf, AnswerWay
  <2>4. AnswerUnasked(u)'
    BY <1>1, <1>3, <2>1, <2>2 DEF AnswerOf, AnswerUnasked
  <2>5. AnswerEnd(u)'
    BY <1>1, <2>1 DEF AnswerOf, AnswerEnd
  <2>6. AnswerChunked(u)'
    BY Zenon, <1>1, <1>3, <2>1 DEF AnswerOf, AnswerChunked
  <2> QED
    BY <2>3, <2>4, <2>5, <2>6 DEF AnswerOf
<1> QED
  BY <1>6, <1>7 DEF AnswersInv

LEMMA AnswersAskAgain ==
    ASSUME AnswersInv, NEW r \in Clients, Answers!AskAgain(r)
    PROVE  AnswersInv'
<1>1. /\ x5[r] = "answer" /\ x4[r].open /\ x2' = Append(x2, r) /\ x3' = x3 /\ x1' = x1
      /\ x4' = x4 /\ x6' = x6 /\ x7' = x7 /\ x8' = x8 /\ x9' = x9 /\ x10' = x10
      /\ x5' = [x5 EXCEPT ![r] = None]
  BY DEF Answers!AskAgain
<1>2. ~Waits(r) /\ x6[r] # "none"
  BY <1>1, AnswersConstants DEF AnswersInv, AnswerOf, AnswerWay, AnswerUnasked
<1>3. PICK s \in Seq(Clients) : s = x2 /\ Distinct(s) /\ r \notin Elements(s)
  BY <1>2 DEF AnswersInv, AnswersTyped, Waits
<1>4. PICK q \in Seq(Clients) : /\ q = Append(s, r) /\ Elements(q) = Elements(s) \cup {r}
                                /\ Distinct(q)
  BY Zenon, <1>3, AppendElements
<1>5. AnswersTyped'
  BY <1>1, <1>2, <1>3, <1>4 DEF AnswersInv, AnswersTyped, AnswerOutcomes, Waits
<1>6. AnswersOthers(r)
  BY <1>1, <1>3, <1>4 DEF AnswersInv, AnswersTyped, AnswersOthers, Waits
<1>7. AnswerWay(r)'
  BY <1>1, <1>2 DEF AnswersInv, AnswersTyped, AnswerOf, AnswerWay
<1> QED
  BY <1>1, <1>2, <1>5, <1>6, <1>7, AnswersMove

LEMMA AnswersRunEnds ==
    ASSUME AnswersInv, NEW r \in Clients, Answers!RunEnds(r)
    PROVE  AnswersInv'
<1>1. /\ x5[r] # None /\ x4[r].open /\ x1[r] \in {"agentic", "mcp"}
      /\ x1' = x1 /\ x2' = x2 /\ x3' = x3 /\ x5' = x5
      /\ x6' = x6 /\ x7' = x7 /\ x8' = x8 /\ x9' = x9 /\ x10' = x10
      /\ x4' = [x4 EXCEPT ![r].open = FALSE]
  BY DEF Answers!RunEnds, Answers!WithTools
<1>2. /\ x4' \in [Clients -> AnswerDelta] /\ \A u \in Clients \ {r} : x4'[u] = x4[u]
      /\ x4'[r].made = x4[r].made /\ x4'[r].waiting = x4[r].waiting /\ ~x4'[r].open
  <2>1. PICK b \in BOOLEAN : b = FALSE
    BY Zenon
  <2> QED
    BY Zenon, <1>1, <2>1 DEF AnswersInv, AnswersTyped, AnswerDelta
<1>3. AnswersTyped' /\ AnswersOthers(r)
  BY <1>1, <1>2 DEF AnswersInv, AnswersTyped, AnswersOthers, Waits
<1>4. x6[r] # "none" /\ ~Waits(r) /\ (Waits(r)' => Waits(r))
  BY <1>1 DEF AnswersInv, AnswerOf, AnswerWay, AnswerUnasked, Waits
<1>5. AnswerWay(r)'
  BY <1>1, <1>2, <1>4 DEF AnswersInv, AnswerOf, AnswerWay
<1> QED
  BY <1>1, <1>2, <1>3, <1>4, <1>5, AnswersMove

LEMMA AnswersGot ==
    ASSUME AnswersInv, NEW r \in Clients,
           \/ Answers!ChunksEnd(r) \/ Answers!GotOpenai(r) \/ Answers!GotPlain(r)
           \/ Answers!GotAgentic(r) \/ Answers!GotMcp(r)
    PROVE  AnswersInv'
<1>1. /\ x1' = x1 /\ x2' = x2 /\ x3' = x3 /\ x4' = x4 /\ x5' = x5 /\ x7' = x7 /\ x8' = x8
      /\ x9' = x9
  BY DEF Answers!ChunksEnd, Answers!GotOpenai, Answers!GotPlain, Answers!GotAgentic,
         Answers!GotMcp, Answers!GotOfLoop, Answers!Got
<1>2. \/ /\ x6[r] = "forward" /\ x4[r].waiting = <<>> /\ ~x4[r].open
         /\ x6' = [x6 EXCEPT ![r] = "await"] /\ x10' = x10
      \/ /\ x6[r] = "await" /\ x1[r] \in {"whole", "openai"}
         /\ x6' = [x6 EXCEPT ![r] = "finish"] /\ x10' = x10
      \/ /\ x6[r] = "await" /\ x1[r] \in {"plain", "agentic", "mcp"}
         /\ x1[r] \in {"agentic", "mcp"} => ~x4[r].open
         /\ x6' = [x6 EXCEPT ![r] = "finish"] /\ x10' = x10 \cup {r}
      \/ /\ x6[r] = "await" /\ x1[r] \in {"agentic", "mcp"} /\ ~x4[r].open
         /\ x6' = [x6 EXCEPT ![r] = "error"] /\ x10' = x10
  BY DEF Answers!ChunksEnd, Answers!GotOpenai, Answers!GotPlain, Answers!GotAgentic,
         Answers!GotMcp, Answers!GotOfLoop, Answers!Got, Answers!To
<1>3. /\ x6' \in [Clients -> AnswerPlaces] /\ \A u \in Clients \ {r} : x6'[u] = x6[u]
      /\ x6[r] \in {"forward", "await"} /\ x6'[r] \in {"await", "finish", "error"}
  BY Zenon, <1>2 DEF AnswersInv, AnswersTyped, AnswerPlaces
<1>4. AnswersTyped'
  BY <1>1, <1>3 DEF AnswersInv, AnswersTyped
<1>5. AnswersOthers(r)
  BY <1>1, <1>2, <1>3 DEF AnswersOthers, Waits
<1>6. AnswerWay(r)'
  BY <1>1, <1>2, <1>3 DEF AnswersInv, AnswersTyped, AnswerOf, AnswerWay, Waits, Answers!Streams
<1>7. x6'[r] = "finish" /\ x1[r] \in {"plain", "agentic", "mcp"} /\ x6[r] # "finish" => r \in x10'
  BY <1>2 DEF AnswersInv, AnswersTyped
<1>8. r \in x10 => r \in x10'
  BY <1>2
<1> QED
  BY <1>1, <1>3, <1>4, <1>5, <1>6, <1>7, <1>8, AnswersMove

LEMMA AnswersProduce ==
    ASSUME AnswersInv, NEW r \in Clients, Answers!Produce(r)
    PROVE  AnswersInv'
<1>1. /\ x3 = r /\ x1[r] \in Answers!Streams /\ x4[r].made < AnswerChunks
      /\ x1' = x1 /\ x2' = x2 /\ x3' = x3 /\ x5' = x5 /\ x6' = x6 /\ x7' = x7 /\ x8' = x8
      /\ x9' = x9 /\ x10' = x10
  BY DEF Answers!Produce
<1>2. PICK d \in AnswerDelta : d = x4[r]
  BY DEF AnswersInv, AnswersTyped
<1>3. PICK n, w : /\ n = d.made + 1
                  /\ w = IF x6[r] = "forward" THEN Append(d.waiting, n) ELSE d.waiting
                  /\ x4' = [x4 EXCEPT ![r].made = n, ![r].waiting = w]
  BY Zenon, <1>2 DEF Answers!Produce, AnswersInv, AnswersTyped
<1>4. /\ d.made \in Nat /\ n \in 1 .. AnswerChunks /\ n \in 0 .. AnswerChunks
      /\ d.waiting \in Seq(ChunkEvents)
  BY <1>1, <1>2, <1>3, AnswersConstants DEF AnswerDelta
<1>5. w \in Seq(ChunkEvents)
  <2>1. n \in ChunkEvents
    BY <1>4 DEF ChunkEvents
  <2>2. PICK o \in Seq(ChunkEvents) : o = d.waiting
    BY <1>4
  <2>3. Append(o, n) \in Seq(ChunkEvents)
    BY <2>1
  <2> QED
    BY <1>3, <2>2, <2>3
<1>6. /\ x4' \in [Clients -> AnswerDelta] /\ \A u \in Clients \ {r} : x4'[u] = x4[u]
      /\ x4'[r].made = n /\ x4'[r].waiting = w /\ x4'[r].open = x4[r].open
  BY Zenon, <1>2, <1>3, <1>4, <1>5 DEF AnswersInv, AnswersTyped, AnswerDelta
<1>7. Events(r)' = Events(r) /\ (Waits(r)' <=> Waits(r)) /\ Waits(r)
  BY <1>1 DEF Events, Waits
<1>8. /\ x6[r] # "none" /\ x4[r].open
      /\ r \notin x9 => x6[r] = "forward"
  BY <1>1, <1>7 DEF AnswersInv, AnswerOf, AnswerWay
<1>9. AnswersTyped' /\ AnswersOthers(r)
  BY <1>1, <1>6 DEF AnswersInv, AnswersTyped, AnswersOthers, Waits
<1>10. AnswerWay(r)' /\ AnswerUnasked(r)'
  BY <1>1, <1>6, <1>7, <1>8 DEF AnswersInv, AnswerOf, AnswerWay, AnswerUnasked
<1>11. AnswerEnd(r)'
  BY <1>1, <1>7 DEF AnswersInv, AnswerOf, AnswerEnd
<1>12. AnswerChunked(r)'
  <2> SUFFICES ASSUME r \notin x9
               PROVE  OnlyIn(Events(r), ChunkEvents) \o w = Count(n)
    BY <1>1, <1>6, <1>7 DEF AnswerChunked
  <2>1. OnlyIn(Events(r), ChunkEvents) \o d.waiting = Count(d.made)
    BY Zenon, <1>1, <1>2 DEF AnswersInv, AnswerOf, AnswerChunked
  <2>2. PICK o, v \in Seq(ChunkEvents) : o = OnlyIn(Events(r), ChunkEvents) /\ v = d.waiting
    BY <1>4, EventsChunks DEF AnswersInv
  <2>3. w = Append(v, n) /\ n \in ChunkEvents
    BY <1>3, <1>4, <1>8, <2>2 DEF ChunkEvents
  <2>4. o \o Append(v, n) = Append(o \o v, n)
    BY <2>3, EventsSent
  <2>5. Append(Count(d.made), n) = Count(n)
    BY Zenon, <1>3, <1>4, CountMore
  <2> QED
    BY <2>1, <2>2, <2>3, <2>4, <2>5
<1> QED
  BY <1>9, <1>10, <1>11, <1>12, AnswersStay DEF AnswerOf

\* What is known of the events of r once one was sent.
LEMMA AnswerSent ==
    ASSUME AnswersInv, NEW r \in Clients, NEW e \in AnswerEvents, x7' = Answers!Sent(r, e),
           x8' = x8, x9' = x9
    PROVE  /\ x7' \in [Clients -> Seq(AnswerEvents)]
           /\ \A u \in Clients \ {r} : x7'[u] = x7[u]
           /\ r \in x9 => x7' = x7 /\ Events(r)' = Events(r)
           /\ r \notin x9 => /\ Events(r)' = Append(Events(r), e)
                             /\ Events(r)' \in Seq(AnswerEvents)
                             /\ Len(Events(r)') = Len(Events(r)) + 1
                             /\ Events(r)'[Len(Events(r)) + 1] = e
                             /\ \A i \in 1 .. Len(Events(r)) : Events(r)'[i] = Events(r)[i]
                             /\ Elements(Events(r)') = Elements(Events(r)) \cup {e}
<1>1. PICK s, t \in Seq(AnswerEvents) : s = x8[r] /\ t = x7[r]
  BY DEF AnswersInv, AnswersTyped
<1>2. /\ s \o Append(t, e) = Append(s \o t, e) /\ s \o t \in Seq(AnswerEvents)
      /\ Append(t, e) \in Seq(AnswerEvents)
  BY EventsSent
<1>3. PICK E \in Seq(AnswerEvents) : E = s \o t
  BY Zenon, <1>2
<1>4. /\ Append(E, e) \in Seq(AnswerEvents) /\ Len(Append(E, e)) = Len(E) + 1
      /\ Elements(Append(E, e)) = Elements(E) \cup {e}
  BY AppendElements
<1>5. Append(E, e)[Len(E) + 1] = e /\ \A i \in 1 .. Len(E) : Append(E, e)[i] = E[i]
  OBVIOUS
<1>6. CASE r \in x9
  BY <1>6 DEF Answers!Sent, AnswersInv, AnswersTyped, Events
<1>7. CASE r \notin x9
  <2>1. x7' = [x7 EXCEPT ![r] = Append(t, e)]
    BY <1>1, <1>7 DEF Answers!Sent
  <2>2. PICK one \in Seq(AnswerEvents) : one = Append(t, e)
    BY Zenon, <1>2
  <2>3. /\ x7' \in [Clients -> Seq(AnswerEvents)] /\ x7'[r] = one
        /\ \A u \in Clients \ {r} : x7'[u] = x7[u]
    BY <2>1, <2>2 DEF AnswersInv, AnswersTyped
  <2>4. PICK F : F = Append(E, e)
    BY Zenon
  <2>5. Events(r)' = F /\ Events(r) = E
    BY Zenon, <1>1, <1>2, <1>3, <2>2, <2>3, <2>4 DEF Events
  <2>6. /\ F \in Seq(AnswerEvents) /\ Len(F) = Len(E) + 1 /\ F[Len(E) + 1] = e
        /\ \A i \in 1 .. Len(E) : F[i] = E[i]
        /\ Elements(F) = Elements(E) \cup {e}
    BY <1>4, <1>5, <2>4
  <2> QED
    BY <1>7, <2>3, <2>4, <2>5, <2>6
<1> QED
  BY <1>6, <1>7

LEMMA AnswersForward ==
    ASSUME AnswersInv, NEW r \in Clients,
           \/ Answers!ForwardOpenai(r) \/ Answers!ForwardPlain(r)
           \/ Answers!ForwardAgentic(r) \/ Answers!ForwardMcp(r)
    PROVE  AnswersInv'
<1>1. PICK next \in {"over", "await"} : /\ Answers!Forward(r, next)
                                        /\ x1[r] \in Answers!Streams
                                        /\ x1[r] = "plain" => next = "over"
  BY DEF Answers!ForwardOpenai, Answers!ForwardPlain, Answers!ForwardAgentic,
         Answers!ForwardMcp, Answers!Streams
<1>2. PICK d \in AnswerDelta, v \in Seq(ChunkEvents) :
        d = x4[r] /\ v = d.waiting /\ v # <<>>
  BY <1>1 DEF AnswersInv, AnswersTyped, AnswerDelta, Answers!Forward
<1>3. /\ x6[r] = "forward"
      /\ x7' = Answers!Sent(r, Head(v))
      /\ x4' = [x4 EXCEPT ![r].waiting = IF r \in x9 THEN <<>> ELSE Tail(@)]
      /\ r \in x9 => x6' = [x6 EXCEPT ![r] = next]
      /\ r \notin x9 => x6' = x6
      /\ x1' = x1 /\ x2' = x2 /\ x3' = x3 /\ x5' = x5 /\ x8' = x8 /\ x9' = x9 /\ x10' = x10
  BY <1>1, <1>2 DEF Answers!Forward, Answers!To
<1>4. PICK h, q : h = Head(v) /\ q = Tail(v) /\ h \in ChunkEvents /\ q \in Seq(ChunkEvents)
  BY Zenon, <1>2, TailElements
<1>5. PICK w \in Seq(ChunkEvents) : /\ w = IF r \in x9 THEN <<>> ELSE q
                                    /\ x4' = [x4 EXCEPT ![r].waiting = w]
  <2>1. <<>> \in Seq(ChunkEvents)
    OBVIOUS
  <2> QED
    BY Zenon, <1>2, <1>3, <1>4, <2>1 DEF AnswersInv, AnswersTyped
<1>6. /\ x4' \in [Clients -> AnswerDelta] /\ \A u \in Clients \ {r} : x4'[u] = x4[u]
      /\ x4'[r].made = d.made /\ x4'[r].waiting = w /\ x4'[r].open = x4[r].open
  BY Zenon, <1>2, <1>5 DEF AnswersInv, AnswersTyped, AnswerDelta
<1>7. /\ x7' \in [Clients -> Seq(AnswerEvents)]
      /\ \A u \in Clients \ {r} : x7'[u] = x7[u]
      /\ r \in x9 => x7' = x7 /\ Events(r)' = Events(r)
      /\ r \notin x9 => /\ Events(r)' = Append(Events(r), h)
                        /\ Len(Events(r)') = Len(Events(r)) + 1
                        /\ Events(r)'[Len(Events(r)) + 1] = h
                        /\ \A i \in 1 .. Len(Events(r)) : Events(r)'[i] = Events(r)[i]
  BY Zenon, <1>3, <1>4, AnswersConstants, AnswerSent
<1>8. /\ x6' \in [Clients -> AnswerPlaces] /\ \A u \in Clients \ {r} : x6'[u] = x6[u]
      /\ r \in x9 => x6'[r] = next
      /\ r \notin x9 => x6'[r] = "forward"
  BY Zenon, <1>3 DEF AnswersInv, AnswersTyped, AnswerPlaces
<1>9. AnswersTyped' /\ AnswersOthers(r)
  BY Zenon, <1>3, <1>6, <1>7, <1>8 DEF AnswersInv, AnswersTyped, AnswersOthers, Waits
<1>10. AnswerWay(r)' /\ AnswerUnasked(r)'
  BY <1>1, <1>3, <1>6, <1>8 DEF AnswersInv, AnswerOf, AnswerWay, AnswerUnasked, Waits
<1>11. AnswerEnd(r)'
  <2>1. CASE r \in x9
    BY <1>3, <1>7, <2>1 DEF AnswersInv, AnswerOf, AnswerEnd
  <2>2. CASE r \notin x9
    <3>1. h # Answers!Done
      BY <1>4, AnswersConstants
    <3>2. \A i \in 1 .. Len(Events(r)) : Events(r)[i] # Answers!Done
      BY <1>3, <2>2 DEF AnswersInv, AnswerOf, AnswerEnd
    <3>3. Len(Events(r)) \in Nat
      BY EventsChunks, LenProperties DEF AnswersInv
    <3>4. PICK n, F : n = Len(Events(r)) /\ n \in Nat /\ F = Events(r)'
      BY <3>3
    <3>5. /\ Len(F) = n + 1 /\ F[n + 1] = h
          /\ \A i \in 1 .. n : F[i] # Answers!Done
      BY <1>7, <2>2, <3>2, <3>4
    <3>6. \A i \in 1 .. Len(F) : F[i] # Answers!Done
      BY <3>1, <3>4, <3>5
    <3> QED
      BY <1>3, <1>8, <2>2, <3>4, <3>6 DEF AnswerEnd
  <2> QED
    BY <2>1, <2>2
<1>12. AnswerChunked(r)'
  <2> SUFFICES ASSUME r \notin x9
               PROVE  OnlyIn(Events(r)', ChunkEvents) \o q = Count(d.made)
    BY Zenon, <1>3, <1>5, <1>6 DEF AnswerChunked
  <2>1. OnlyIn(Events(r), ChunkEvents) \o v = Count(d.made)
    BY <1>1, <1>2 DEF AnswersInv, AnswerOf, AnswerChunked
  <2>2. PICK E, o : /\ E = Events(r) /\ o = OnlyIn(E, ChunkEvents)
                    /\ E \in Seq(AnswerEvents) /\ o \in Seq(ChunkEvents)
    BY EventsChunks DEF AnswersInv
  <2>3. OnlyIn(Append(E, h), ChunkEvents) = Append(o, h)
    <3>1. h \in AnswerEvents /\ h \in ChunkEvents
      BY <1>4, AnswersConstants
    <3>2. OnlyIn(Append(E, h), ChunkEvents)
            = IF h \in ChunkEvents THEN Append(OnlyIn(E, ChunkEvents), h)
              ELSE OnlyIn(E, ChunkEvents)
      BY <2>2, <3>1, OnlyOfAppend
    <3> QED
      BY <2>2, <3>1, <3>2
  <2>4. Append(o, h) \o q = o \o v
    <3>1. Append(o, Head(v)) \o Tail(v) = o \o v
      BY Zenon, <1>2, <2>2, EventsRead
    <3> QED
      BY Zenon, <1>4, <3>1
  <2> QED
    BY Zenon, <1>7, <2>1, <2>2, <2>3, <2>4
<1> QED
  BY <1>9, <1>10, <1>11, <1>12, AnswersStay DEF AnswerOf

\* An error or the end of the answer.
LEMMA AnswersLast ==
    ASSUME AnswersInv, NEW r \in Clients,
           \/ Answers!Timeout(r) \/ Answers!ErrorAgentic(r) \/ Answers!ErrorMcp(r)
           \/ Answers!FinishWhole(r) \/ Answers!FinishOpenai(r) \/ Answers!FinishPlain(r)
           \/ Answers!FinishAgentic(r) \/ Answers!FinishMcp(r)
    PROVE  AnswersInv'
<1>1. /\ x1' = x1 /\ x2' = x2 /\ x3' = x3 /\ x4' = x4 /\ x5' = x5 /\ x8' = x8
      /\ x9' = x9 /\ x10' = x10
  BY DEF Answers!Timeout, Answers!ErrorAgentic, Answers!ErrorMcp, Answers!ErrorChunk,
         Answers!FinishWhole, Answers!FinishOpenai, Answers!FinishPlain,
         Answers!FinishAgentic, Answers!FinishMcp, Answers!Finish
<1>2. PICK e \in AnswerEvents, p \in AnswerPlaces :
        /\ x7' = Answers!Sent(r, e) /\ x6' = [x6 EXCEPT ![r] = p]
        /\ \/ e = Answers!Done /\ p = "over" /\ x6[r] = "await" /\ x1[r] = "whole"
           \/ e = Answers!Done /\ p = "over" /\ x6[r] = "finish"
           \/ /\ e = Answers!ErrorText /\ x6[r] = "error" /\ x1[r] \in {"agentic", "mcp"}
              /\ p = IF r \in x9 THEN "over" ELSE "finish"
  <2>1. CASE Answers!Timeout(r)
    BY <2>1, AnswersConstants DEF Answers!Timeout, Answers!To, AnswerPlaces
  <2>2. CASE Answers!ErrorAgentic(r) \/ Answers!ErrorMcp(r)
    <3>1. (IF r \in x9 THEN "over" ELSE "finish") \in AnswerPlaces
      BY DEF AnswerPlaces
    <3> QED
      BY <2>2, <3>1, AnswersConstants
         DEF Answers!ErrorAgentic, Answers!ErrorMcp, Answers!ErrorChunk, Answers!To
  <2>3. CASE \/ Answers!FinishWhole(r) \/ Answers!FinishOpenai(r) \/ Answers!FinishPlain(r)
             \/ Answers!FinishAgentic(r) \/ Answers!FinishMcp(r)
    BY <2>3, AnswersConstants
       DEF Answers!FinishWhole, Answers!FinishOpenai, Answers!FinishPlain,
           Answers!FinishAgentic, Answers!FinishMcp, Answers!Finish, Answers!To, AnswerPlaces
  <2> QED
    BY <2>1, <2>2, <2>3
<1>3. /\ x7' \in [Clients -> Seq(AnswerEvents)]
      /\ \A u \in Clients \ {r} : x7'[u] = x7[u]
      /\ r \in x9 => x7' = x7 /\ Events(r)' = Events(r)
      /\ r \notin x9 => /\ Events(r)' = Append(Events(r), e)
                        /\ Len(Events(r)') = Len(Events(r)) + 1
                        /\ Events(r)'[Len(Events(r)) + 1] = e
                        /\ \A i \in 1 .. Len(Events(r)) : Events(r)'[i] = Events(r)[i]
                        /\ Elements(Events(r)') = Elements(Events(r)) \cup {e}
  BY <1>1, <1>2, AnswerSent
<1>4. /\ x6' \in [Clients -> AnswerPlaces] /\ \A u \in Clients \ {r} : x6'[u] = x6[u]
      /\ x6'[r] = p /\ p \in {"over", "finish"}
      /\ x6[r] \in {"await", "error", "finish"}
  BY <1>2 DEF AnswersInv, AnswersTyped
<1>5. AnswersTyped' /\ AnswersOthers(r)
  BY <1>1, <1>3, <1>4 DEF AnswersInv, AnswersTyped, AnswersOthers, Waits
<1>6. AnswerWay(r)' /\ AnswerUnasked(r)'
  BY <1>1, <1>2, <1>4
     DEF AnswersInv, AnswerOf, AnswerWay, AnswerUnasked, Waits, Answers!Streams
<1>7. AnswerEnd(r)'
  <2>1. CASE r \in x9
    BY <1>1, <1>3, <2>1 DEF AnswersInv, AnswerOf, AnswerEnd
  <2>2. CASE r \notin x9
    <3>1. \A i \in 1 .. Len(Events(r)) : Events(r)[i] # Answers!Done
      BY <1>4, <2>2 DEF AnswersInv, AnswerOf, AnswerEnd
    <3>2. Len(Events(r)) \in Nat
      BY EventsChunks, LenProperties DEF AnswersInv
    <3>3. e = Answers!Done => p = "over"
      BY <1>2, AnswersConstants
    <3>4. \A i \in 1 .. Len(Events(r)') :
            Events(r)'[i] = Answers!Done => i = Len(Events(r)') /\ p = "over"
      BY <1>3, <2>2, <3>1, <3>2, <3>3
    <3>5. x1[r] \in {"plain", "agentic", "mcp"} =>
            r \in x10 \/ Answers!ErrorText \in Elements(Events(r)')
      BY <1>2, <1>3, <2>2 DEF AnswersInv, AnswerOf, AnswerEnd
    <3> QED
      BY <1>1, <1>4, <2>2, <3>4, <3>5 DEF AnswerEnd
  <2> QED
    BY <2>1, <2>2
<1>8. AnswerChunked(r)'
  <2> SUFFICES ASSUME r \notin x9, x1[r] \in Answers!Streams
               PROVE  OnlyIn(Events(r)', ChunkEvents) = OnlyIn(Events(r), ChunkEvents)
    BY <1>1 DEF AnswersInv, AnswerOf, AnswerChunked
  <2>1. PICK E \in Seq(AnswerEvents) : E = Events(r)
    BY EventsChunks DEF AnswersInv
  <2>2. e \notin ChunkEvents
    BY <1>2, AnswersConstants
  <2>3. OnlyIn(Append(E, e), ChunkEvents) = OnlyIn(E, ChunkEvents)
    BY <2>2, OnlyOfAppend
  <2> QED
    BY Zenon, <1>3, <2>1, <2>3
<1> QED
  BY <1>5, <1>6, <1>7, <1>8, AnswersStay DEF AnswerOf

LEMMA AnswersRead ==
    ASSUME AnswersInv, NEW r \in Clients, Answers!Read(r)
    PROVE  AnswersInv'
<1>1. /\ r \notin x9 /\ x7[r] # <<>>
      /\ x8' = [x8 EXCEPT ![r] = Append(@, Head(x7[r]))] /\ x7' = [x7 EXCEPT ![r] = Tail(@)]
      /\ x1' = x1 /\ x2' = x2 /\ x3' = x3 /\ x4' = x4 /\ x5' = x5 /\ x6' = x6
      /\ x9' = x9 /\ x10' = x10
  BY DEF Answers!Read
<1>2. PICK s, t \in Seq(AnswerEvents) : s = x8[r] /\ t = x7[r] /\ t # <<>>
  BY <1>1 DEF AnswersInv, AnswersTyped
<1>3. PICK a, b : /\ a = Append(s, Head(t)) /\ b = Tail(t)
                  /\ a \in Seq(AnswerEvents) /\ b \in Seq(AnswerEvents)
  <2>1. PICK h \in AnswerEvents : h = Head(t) /\ Tail(t) \in Seq(AnswerEvents)
    BY <1>2, TailElements
  <2>2. Append(s, h) \in Seq(AnswerEvents)
    OBVIOUS
  <2> QED
    BY Zenon, <2>1, <2>2
<1>4. a \o b = s \o t
  BY Zenon, <1>2, <1>3, EventsRead
<1>5. /\ x8' \in [Clients -> Seq(AnswerEvents)] /\ x8'[r] = a
      /\ x7' \in [Clients -> Seq(AnswerEvents)] /\ x7'[r] = b
      /\ \A u \in Clients \ {r} : x7'[u] = x7[u] /\ x8'[u] = x8[u]
  BY <1>1, <1>2, <1>3 DEF AnswersInv, AnswersTyped
<1>6. Events(r)' = Events(r)
  BY Zenon, <1>2, <1>4, <1>5 DEF Events
<1>7. AnswersTyped' /\ AnswersOthers(r)
  BY <1>1, <1>5 DEF AnswersInv, AnswersTyped, AnswersOthers, Waits
<1>8. AnswerOf(r)'
  <2>1. AnswerWay(r)' /\ AnswerUnasked(r)' /\ AnswerChunked(r)'
    BY <1>1, <1>6
       DEF AnswersInv, AnswerOf, AnswerWay, AnswerUnasked, AnswerChunked, Waits
  <2>2. AnswerEnd(r)'
    BY <1>1, <1>6 DEF AnswersInv, AnswerOf, AnswerEnd
  <2> QED
    BY <2>1, <2>2 DEF AnswerOf
<1> QED
  BY <1>7, <1>8, AnswersStay

LEMMA AnswersLeave ==
    ASSUME AnswersInv, NEW r \in Clients, Answers!Leave(r)
    PROVE  AnswersInv'
<1>1. /\ r \notin x9 /\ x6[r] \notin {"none", "over"} /\ x9' = x9 \cup {r}
      /\ x7' = [x7 EXCEPT ![r] = <<>>]
      /\ x1' = x1 /\ x2' = x2 /\ x3' = x3 /\ x4' = x4 /\ x5' = x5 /\ x8' = x8 /\ x10' = x10
      /\ IF x1[r] = "whole" THEN x6' = [x6 EXCEPT ![r] = "over"] ELSE x6' = x6
  BY DEF Answers!Leave, Answers!To
<1>2. PICK s, t, none \in Seq(AnswerEvents) : s = x8[r] /\ t = x7[r] /\ none = <<>>
  <2>1. <<>> \in Seq(AnswerEvents)
    OBVIOUS
  <2> QED
    BY Zenon, <2>1 DEF AnswersInv, AnswersTyped
<1>3. /\ x7' \in [Clients -> Seq(AnswerEvents)] /\ x7'[r] = none
      /\ \A u \in Clients \ {r} : x7'[u] = x7[u]
  BY <1>1, <1>2 DEF AnswersInv, AnswersTyped
<1>4. /\ x6' \in [Clients -> AnswerPlaces] /\ \A u \in Clients \ {r} : x6'[u] = x6[u]
      /\ x6'[r] = IF x1[r] = "whole" THEN "over" ELSE x6[r]
  BY Zenon, <1>1 DEF AnswersInv, AnswersTyped, AnswerPlaces
<1>5. AnswersTyped' /\ AnswersOthers(r)
  BY <1>1, <1>3, <1>4 DEF AnswersInv, AnswersTyped, AnswersOthers, Waits
<1>6. AnswerWay(r)' /\ AnswerUnasked(r)' /\ AnswerChunked(r)'
  BY <1>1, <1>4
     DEF AnswersInv, AnswerOf, AnswerWay, AnswerUnasked, AnswerChunked, Waits
<1>7. AnswerEnd(r)'
  <2>1. Events(r)' = s
    <3>1. s \o none = s
      BY <1>2
    <3> QED
      BY <1>1, <1>2, <1>3, <3>1 DEF Events
  <2>2. \A i \in 1 .. Len(s \o t) : (s \o t)[i] # Answers!Done
    BY Zenon, <1>1, <1>2 DEF AnswersInv, AnswerOf, AnswerEnd, Events
  <2>3. \A i \in 1 .. Len(s) : i \in 1 .. Len(s \o t) /\ (s \o t)[i] = s[i]
    OBVIOUS
  <2>4. DOMAIN s = 1 .. Len(s)
    OBVIOUS
  <2>5. Answers!Done \notin Elements(s)
    BY <2>2, <2>3, <2>4 DEF Elements
  <2> QED
    BY <1>1, <1>2, <1>3, <2>1, <2>5 DEF AnswerEnd
<1> QED
  BY <1>5, <1>6, <1>7, AnswersStay DEF AnswerOf

LEMMA AnswersStep ==
    ASSUME AnswersInv, Answers!Next \/ UNCHANGED own
    PROVE  AnswersInv'
<1>1. CASE Answers!Next
  BY <1>1, AnswersServe, AnswersStop, AnswersAsk, AnswersProduce, AnswersAnswer,
     AnswersAskAgain, AnswersRunEnds, AnswersForward, AnswersGot, AnswersLast, AnswersRead,
     AnswersLeave
     DEF Answers!Next
<1>2. CASE UNCHANGED own
  BY <1>2 DEF own, AnswersInv, AnswersTyped, AnswerOf, AnswerWay, AnswerUnasked, AnswerEnd,
              AnswerChunked, Events, Waits
<1> QED
  BY <1>1, <1>2

\* What a client has read.
LEMMA AnswersTrue ==
    ASSUME AnswersInv
    PROVE  Answers!ChunksInOrder /\ Answers!DoneAfterAll /\ Answers!DoneIsSaved
<1>1. \A s : Answers!OnlyIn(s, ChunkEvents) = OnlyIn(s, ChunkEvents)
  BY Zenon DEF OnlyIn, Answers!OnlyIn
<1>2. \A s : Answers!Chunks(s) = OnlyIn(s, ChunkEvents)
  BY <1>1 DEF Answers!Chunks, ChunkEvents
<1>3. Answers!ChunksInOrder
  <2> SUFFICES ASSUME NEW r \in Clients \ x9, x1[r] \in Answers!Streams
               PROVE  Answers!Chunks(x8[r]) \o Answers!Chunks(x7[r]) \o x4[r].waiting
                        = [i \in 1 .. x4[r].made |-> i]
    BY Zenon DEF Answers!ChunksInOrder
  <2>1. PICK s, t \in Seq(AnswerEvents) : s = x8[r] /\ t = x7[r]
    BY DEF AnswersInv, AnswersTyped
  <2>2. OnlyIn(s, ChunkEvents) \o OnlyIn(t, ChunkEvents) = OnlyIn(s \o t, ChunkEvents)
    BY OnlyOfBoth
  <2>3. OnlyIn(s \o t, ChunkEvents) \o x4[r].waiting = Count(x4[r].made)
    BY Zenon, <2>1 DEF AnswersInv, AnswerOf, AnswerChunked, Events
  <2> QED
    BY Zenon, <1>2, <2>1, <2>2, <2>3 DEF Count
<1>4. Answers!DoneAfterAll
  <2> SUFFICES ASSUME NEW r \in Clients \ x9, NEW i \in DOMAIN Events(r),
                      Events(r)[i] = Answers!Done
               PROVE  /\ i = Len(Events(r))
                      /\ x1[r] \in Answers!Streams =>
                           Len(Answers!Chunks(Events(r))) = x4[r].made
    BY Zenon DEF Answers!DoneAfterAll, Events
  <2>1. PICK E \in Seq(AnswerEvents), o \in Seq(ChunkEvents) :
          E = Events(r) /\ o = OnlyIn(E, ChunkEvents)
    BY EventsChunks DEF AnswersInv
  <2>2. DOMAIN E = 1 .. Len(E)
    OBVIOUS
  <2>3. i = Len(E) /\ x6[r] = "over"
    BY <2>1, <2>2 DEF AnswersInv, AnswerOf, AnswerEnd
  <2>4. ASSUME x1[r] \in Answers!Streams PROVE Len(o) = x4[r].made
    <3>1. x4[r].waiting = <<>> /\ o \o x4[r].waiting = Count(x4[r].made)
      BY Zenon, <2>1, <2>3, <2>4 DEF AnswersInv, AnswerOf, AnswerWay, AnswerChunked
    <3>2. o \o <<>> = o
      OBVIOUS
    <3>3. x4[r].made \in Nat
      BY AnswersConstants DEF AnswersInv, AnswersTyped, AnswerDelta
    <3> QED
      BY <3>1, <3>2, <3>3 DEF Count
  <2> QED
    BY <1>2, <2>1, <2>3, <2>4
<1>5. Answers!DoneIsSaved
  <2> SUFFICES ASSUME NEW r \in Clients
               PROVE  /\ /\ Answers!Done \in Elements(x8[r])
                         /\ x1[r] \in {"plain", "agentic", "mcp"}
                         => r \in x10 \/ Answers!ErrorText \in Elements(x8[r])
                      /\ r \in x10 => x5[r] # None /\ ~x4[r].open
    BY DEF Answers!DoneIsSaved, Elements
  <2>1. r \in x10 => x5[r] # None /\ ~x4[r].open
    BY DEF AnswersInv, AnswerOf, AnswerWay
  <2>2. ASSUME Answers!Done \in Elements(x8[r]), x1[r] \in {"plain", "agentic", "mcp"}
        PROVE  r \in x10 \/ Answers!ErrorText \in Elements(x8[r])
    <3>1. PICK s, t \in Seq(AnswerEvents) : s = x8[r] /\ t = x7[r]
      BY DEF AnswersInv, AnswersTyped
    <3>2. PICK E : E = s \o t /\ E \in Seq(AnswerEvents)
      <4>1. s \o t \in Seq(AnswerEvents)
        OBVIOUS
      <4> QED
        BY Zenon, <4>1
    <3>3. /\ DOMAIN s = 1 .. Len(s) /\ DOMAIN E = 1 .. Len(E) /\ Len(E) = Len(s) + Len(t)
          /\ Len(s) \in Nat /\ Len(t) \in Nat
          /\ \A i \in 1 .. Len(s) : E[i] = s[i]
      BY <3>2
    <3>4. PICK i \in 1 .. Len(s) : s[i] = Answers!Done
      BY <2>2, <3>1, <3>3 DEF Elements
    <3>5. i \in 1 .. Len(E) /\ E[i] = Answers!Done
      BY <3>3, <3>4
    <3>6. Events(r) = E
      BY <3>1, <3>2 DEF Events
    <3>7. r \notin x9
      BY <3>3, <3>5, <3>6 DEF AnswersInv, AnswerOf, AnswerEnd, Elements
    <3>8. i = Len(E) /\ x6[r] = "over"
      BY <3>5, <3>6, <3>7 DEF AnswersInv, AnswerOf, AnswerEnd
    <3>9. Len(E) = Len(s)
      <4>1. PICK m, n, k \in Nat : m = Len(s) /\ n = Len(t) /\ k = Len(E)
        BY <3>3
      <4>2. i <= m /\ i = k /\ k = m + n
        BY <3>3, <3>8, <4>1
      <4>3. k = m
        BY <4>2
      <4> QED
        BY <4>1, <4>3
    <3>10. Elements(E) = Elements(s)
      BY Zenon, <3>3, <3>9 DEF Elements
    <3> QED
      BY <2>2, <3>1, <3>6, <3>7, <3>8, <3>10 DEF AnswersInv, AnswerOf, AnswerEnd
  <2> QED
    BY <2>1, <2>2
<1> QED
  BY <1>3, <1>4, <1>5

-------------------------------------------------------------------------------
(* The agents of the swarm, their counts and the timeline                  *)

\* x1: agents, x2: index, x3: bridge, x4: op, x5: stats, x6: history, x7: begun.
SwarmTyped ==
    /\ x1 \in [Locals \cup Remotes -> Network!Shown \cup {None}]
    /\ x2 \in [Peers -> Remotes \cup {None}]
    /\ x3 \in [step : {"free", "index", "stuck"}, peer : Peers \cup {None},
               agent : Remotes \cup {None}]
    /\ x4 \in [Callers -> [step : {"idle", "job", "agent", "total", "push"},
                           agent : Locals \cup Remotes \cup {None}, number : Nat]]
    /\ x5 \in [actions : Nat, jobs : Nat]
    /\ x6 \in Seq(Nat) /\ x7 \in Nat

\* The callers that record an action, each an action of its own.
Recording == {c \in Callers : x4[c].step # "idle"}
SwarmRecords ==
    /\ \A c \in Recording : /\ x4[c].agent \in Network!Known
                            /\ x4[c].number <= x7 /\ x4[c].number \notin Elements(x6)
    /\ \A c, d \in Recording : c # d => x4[c].number # x4[d].number
    /\ \A n \in Elements(x6) : n <= x7
    /\ Distinct(x6)

\* What the index and the bridge name is in the table.
SwarmIndex ==
    /\ \A p \in Peers : x2[p] # None => x2[p] \in Network!Known
    /\ x3.step = "index" => /\ x3.peer \in Peers /\ x3.agent \in Network!Known
                            /\ x1[x3.agent].peer = x3.peer /\ x2[x3.peer] = None
    /\ x3.step = "free" => x3.agent = None
    /\ \A a \in Network!Known :
         x1[a].peer # None => x2[x1[a].peer] = a \/ x3.agent = a \/ x3.step = "stuck"

\* The counts of the agents against the totals, and those against the timeline.
AgentActions == [a \in Network!Known |-> x1[a].actions]
AgentEnded == [a \in Network!Known |-> x1[a].completed + x1[a].failed]
AtStep(s) == {c \in Callers : x4[c].step = s}
AgentsCounted ==
    /\ Network!Sum(AgentActions) = x5.actions + Cardinality(AtStep("total"))
    /\ Network!Sum(AgentEnded) + Cardinality(AtStep("job")) = x5.jobs
Shortened(n) == IF n < MaxHistory THEN n ELSE MaxHistory
HistoryCounted == Len(x6) = Shortened(x5.actions - Cardinality(AtStep("push")))

SwarmInv == SwarmTyped /\ SwarmRecords /\ SwarmIndex /\ AgentsCounted /\ HistoryCounted

LEMMA SwarmConstants ==
    /\ IsFiniteSet(Locals) /\ IsFiniteSet(Remotes) /\ IsFiniteSet(Callers)
    /\ Locals \cap Remotes = {} /\ None \notin Locals \cup Remotes \cup Peers
    /\ None \notin Network!Shown /\ MaxHistory \in Nat \ {0}
<1>1. \A S : Network!IsFiniteSet(S) <=> IsFiniteSet(S)
  BY Zenon DEF Network!IsFiniteSet, IsFiniteSet
<1> QED
  BY <1>1, AgentsAssumption DEF Network!SwarmAssumption

\* The agents that are known, and what is counted of them.
LEMMA KnownAgents ==
    ASSUME SwarmTyped
    PROVE  /\ IsFiniteSet(Network!Known) /\ Network!Known \subseteq Locals \cup Remotes
           /\ \A a \in Network!Known :
                /\ x1[a] \in Network!Shown
                /\ x1[a].actions \in Nat /\ x1[a].completed \in Nat /\ x1[a].failed \in Nat
                /\ x1[a].peer \in Peers \cup {None}
           /\ \A a \in Locals \cup Remotes : a \in Network!Known <=> x1[a] # None
           /\ AgentActions \in [Network!Known -> Nat]
           /\ AgentEnded \in [Network!Known -> Nat]
<1>1. Network!Known = {a \in Locals \cup Remotes : x1[a] # None}
  BY DEF SwarmTyped, Network!Known
<1>2. IsFiniteSet(Network!Known)
  <2>1. IsFiniteSet(Locals \cup Remotes)
    BY Zenon, SwarmConstants, FS_Union
  <2> QED
    BY <1>1, <2>1, FS_Subset
<1>3. \A a \in Network!Known : x1[a] \in Network!Shown
  BY <1>1 DEF SwarmTyped
<1>4. \A a \in Network!Known :
        /\ x1[a].actions \in Nat /\ x1[a].completed \in Nat /\ x1[a].failed \in Nat
        /\ x1[a].peer \in Peers \cup {None}
  BY <1>3 DEF Network!Shown
<1>5. AgentActions \in [Network!Known -> Nat] /\ AgentEnded \in [Network!Known -> Nat]
  BY <1>4 DEF AgentActions, AgentEnded
<1> QED
  BY <1>1, <1>2, <1>3, <1>4, <1>5

LEMMA KnownAgentsNext ==
    ASSUME SwarmTyped'
    PROVE  /\ AgentActions' \in [Network!Known' -> Nat]
           /\ AgentEnded' \in [Network!Known' -> Nat]
<1>1. Network!Known' = {a \in Locals \cup Remotes : x1'[a] # None}
  BY DEF SwarmTyped, Network!Known
<1>2. \A a \in Network!Known' : x1'[a] \in Network!Shown
  BY <1>1 DEF SwarmTyped
<1>3. \A a \in Network!Known' :
        x1'[a].actions \in Nat /\ x1'[a].completed \in Nat /\ x1'[a].failed \in Nat
  BY <1>2 DEF Network!Shown
<1> QED
  BY <1>3 DEF AgentActions, AgentEnded

\* A caller goes from one step to the next.
LEMMA StepsCounted ==
    ASSUME NEW s
    PROVE  /\ IsFiniteSet(AtStep(s)) /\ Cardinality(AtStep(s)) \in Nat
           /\ Network!Count(s) = Cardinality(AtStep(s))
<1>1. IsFiniteSet(AtStep(s)) /\ Cardinality(AtStep(s)) \in Nat
  BY SwarmConstants, FS_Subset, FS_CardinalityType DEF AtStep
<1>2. Network!Count(s) = Network!Cardinality(AtStep(s))
  BY Zenon DEF Network!Count, Network!At, AtStep
<1>3. Network!Cardinality(AtStep(s)) = Cardinality(AtStep(s))
  BY Zenon DEF Network!Cardinality, Cardinality, Network!IsFiniteSet, IsFiniteSet
<1> QED
  BY <1>1, <1>2, <1>3

Moves(c, from, to) ==
    /\ x4[c].step = from /\ x4'[c].step = to
    /\ \A d \in Callers \ {c} : x4'[d] = x4[d]

LEMMA StepMoves ==
    ASSUME NEW c \in Callers, NEW from, NEW to, from # to, Moves(c, from, to)
    PROVE  /\ Cardinality(AtStep(from)) > 0
           /\ Cardinality(AtStep(from)') = Cardinality(AtStep(from)) - 1
           /\ Cardinality(AtStep(to)') = Cardinality(AtStep(to)) + 1
           /\ \A s : s \notin {from, to} => AtStep(s)' = AtStep(s)
<1>1. /\ AtStep(from)' = AtStep(from) \ {c} /\ c \in AtStep(from)
      /\ AtStep(to)' = AtStep(to) \cup {c} /\ c \in Callers \ AtStep(to)
  BY DEF Moves, AtStep
<1>2. ASSUME NEW s, s \notin {from, to} PROVE AtStep(s)' = AtStep(s)
  BY <1>2 DEF Moves, AtStep
<1>3. AtStep(from) \subseteq Callers /\ AtStep(to) \subseteq Callers
  BY DEF AtStep
<1>4. PICK S, T : S = AtStep(from) /\ T = AtStep(to)
  OBVIOUS
<1>5. /\ Cardinality(S) > 0 /\ Cardinality(S \ {c}) = Cardinality(S) - 1
      /\ Cardinality(T \cup {c}) = Cardinality(T) + 1
  BY Zenon, <1>1, <1>3, <1>4, SwarmConstants, OneMoreOrLess
<1> QED
  BY <1>1, <1>2, <1>4, <1>5

LEMMA SwarmInit == Network!Init => SwarmInv
<1> SUFFICES ASSUME Network!Init PROVE SwarmInv
  OBVIOUS
<1>1. PICK l \in Locals :
        x1 = [b \in Locals \cup Remotes |-> IF b = l THEN Network!NewAgent(None) ELSE None]
  BY DEF Network!Init
<1>2. /\ x2 = [p \in Peers |-> None] /\ x3 = Network!Free
      /\ x4 = [c \in Callers |-> Network!Idle] /\ x5 = [actions |-> 0, jobs |-> 0]
      /\ x6 = <<>> /\ x7 = 0
  BY DEF Network!Init
<1>3. Network!NewAgent(None) \in Network!Shown /\ Network!NewAgent(None) # None
  BY SwarmConstants DEF Network!NewAgent, Network!Shown
<1>4. SwarmTyped
  <2>1. <<>> \in Seq(Nat)
    OBVIOUS
  <2> QED
    BY <1>1, <1>2, <1>3, <2>1 DEF SwarmTyped, Network!Free, Network!Idle
<1>5. Network!Known = {l}
  BY Zenon, <1>1, <1>3, SwarmConstants DEF Network!Known
<1>6. Elements(x6) = {} /\ Distinct(x6) /\ Len(x6) = 0
  BY <1>2 DEF Elements, Distinct
<1>7. SwarmRecords
  BY <1>2, <1>6 DEF SwarmRecords, Recording, Network!Idle
<1>8. x1[l].actions = 0 /\ x1[l].completed + x1[l].failed = 0 /\ x1[l].peer = None
  BY <1>1 DEF Network!NewAgent
<1>9. SwarmIndex
  BY <1>2, <1>5, <1>8 DEF SwarmIndex, Network!Free
<1>10. ASSUME NEW s, s # "idle" PROVE Cardinality(AtStep(s)) = 0
  <2>1. AtStep(s) = {}
    BY <1>2, <1>10 DEF AtStep, Network!Idle
  <2> QED
    BY <2>1, FS_EmptySet
<1>11. AgentsCounted
  <2>1. AgentActions \in [{l} -> Nat] /\ AgentEnded \in [{l} -> Nat]
    BY <1>4, <1>5, KnownAgents
  <2>2. AgentActions[l] = 0 /\ AgentEnded[l] = 0
    BY <1>5, <1>8 DEF AgentActions, AgentEnded
  <2>3. Network!Sum(AgentActions) = 0 /\ Network!Sum(AgentEnded) = 0
    BY <2>1, <2>2, SumOfZeros
  <2> QED
    BY <1>2, <1>10, <2>3 DEF AgentsCounted
<1>12. HistoryCounted
  BY <1>2, <1>6, <1>10, SwarmConstants DEF HistoryCounted, Shortened
<1> QED
  BY <1>4, <1>7, <1>9, <1>11, <1>12 DEF SwarmInv

\* A new agent, for which nothing is counted yet.
LEMMA SwarmGrows ==
    ASSUME SwarmInv, NEW a \in (Locals \cup Remotes) \ Network!Known,
           NEW p \in Peers \cup {None}, x1' = [x1 EXCEPT ![a] = Network!NewAgent(p)],
           UNCHANGED <<x2, x4, x5, x6, x7>>,
           x3' \in [step : {"free", "index", "stuck"}, peer : Peers \cup {None},
                    agent : Remotes \cup {None}],
           \/ p = None /\ x3' = x3
           \/ x3'.step = "index" /\ x3'.peer = p /\ p \in Peers /\ x3'.agent = a /\ x2[p] = None
              /\ x3.step = "free"
           \/ x3'.step = "stuck"
    PROVE  SwarmInv'
<1>1. Network!NewAgent(p) \in Network!Shown /\ Network!NewAgent(p) # None
  BY SwarmConstants DEF Network!NewAgent, Network!Shown
<1>2. SwarmTyped'
  BY <1>1 DEF SwarmInv, SwarmTyped
<1>3. x1'[a] = Network!NewAgent(p) /\ \A b \in Locals \cup Remotes : b # a => x1'[b] = x1[b]
  BY DEF SwarmInv, SwarmTyped
<1>4. Network!Known' = Network!Known \cup {a}
  BY <1>1, <1>2, <1>3 DEF SwarmInv, SwarmTyped, Network!Known
<1>5. x1'[a].peer = p /\ x1'[a].actions = 0 /\ x1'[a].completed + x1'[a].failed = 0
  BY <1>3 DEF Network!NewAgent
<1>6. \A b \in Network!Known : b # a /\ x1'[b] = x1[b] /\ b \in Network!Known'
  BY <1>3, <1>4, KnownAgents DEF SwarmInv
<1>7. SwarmRecords'
  BY <1>4 DEF SwarmInv, SwarmRecords, Recording
<1>8. SwarmIndex'
  <2>1. \A q \in Peers : x2'[q] # None => x2'[q] \in Network!Known'
    BY <1>4 DEF SwarmInv, SwarmIndex
  <2>2. /\ x3'.step = "index" => /\ x3'.peer \in Peers /\ x3'.agent \in Network!Known'
                                 /\ x1'[x3'.agent].peer = x3'.peer /\ x2'[x3'.peer] = None
        /\ x3'.step = "free" => x3'.agent = None
    BY <1>4, <1>5, <1>6 DEF SwarmInv, SwarmIndex
  <2>3. ASSUME NEW b \in Network!Known', x1'[b].peer # None
        PROVE  x2'[x1'[b].peer] = b \/ x3'.agent = b \/ x3'.step = "stuck"
    <3>1. CASE b = a
      BY <1>5, <2>3, <3>1
    <3>2. CASE b # a
      <4>1. b \in Network!Known /\ x1'[b] = x1[b]
        BY <1>4, <1>6, <3>2
      <4>2. x2[x1[b].peer] = b \/ x3.agent = b \/ x3.step = "stuck"
        BY <2>3, <4>1 DEF SwarmInv, SwarmIndex
      <4>3. x3.agent = b => x3.step # "free"
        BY <4>1, SwarmConstants, KnownAgents DEF SwarmInv, SwarmIndex
      <4> QED
        BY <4>1, <4>2, <4>3
    <3> QED
      BY <3>1, <3>2
  <2> QED
    BY <2>1, <2>2, <2>3 DEF SwarmIndex
<1>9. AgentsCounted' /\ HistoryCounted'
  <2>1. PICK K, f, e, g, h :
          /\ K = Network!Known /\ f = AgentActions /\ e = AgentEnded
          /\ g = AgentActions' /\ h = AgentEnded'
    OBVIOUS
  <2>2. /\ IsFiniteSet(K) /\ f \in [K -> Nat] /\ e \in [K -> Nat] /\ a \notin K
        /\ g \in [K \cup {a} -> Nat] /\ h \in [K \cup {a} -> Nat]
    <3>1. AgentActions' \in [Network!Known' -> Nat] /\ AgentEnded' \in [Network!Known' -> Nat]
      BY <1>2, KnownAgentsNext
    <3> QED
      BY <1>4, <2>1, <3>1, KnownAgents DEF SwarmInv
  <2>3. \A b \in K : g[b] = f[b] /\ h[b] = e[b]
    BY <1>6, <2>1 DEF AgentActions, AgentEnded
  <2>4. g[a] = 0 /\ h[a] = 0
    BY <1>4, <1>5, <2>1 DEF AgentActions, AgentEnded
  <2>5. Network!Sum(g) = Network!Sum(f) + g[a] /\ Network!Sum(f) \in Nat
    BY <2>2, <2>3, SumGrows
  <2>6. Network!Sum(h) = Network!Sum(e) + h[a] /\ Network!Sum(e) \in Nat
    BY <2>2, <2>3, SumGrows
  <2>7. \A s : AtStep(s)' = AtStep(s)
    BY DEF AtStep
  <2>8. AgentsCounted'
    BY <2>1, <2>4, <2>5, <2>6, <2>7 DEF SwarmInv, AgentsCounted
  <2>9. HistoryCounted'
    BY <2>7 DEF SwarmInv, HistoryCounted
  <2> QED
    BY <2>8, <2>9
<1> QED
  BY <1>2, <1>7, <1>8, <1>9 DEF SwarmInv

LEMMA SwarmRegisters ==
    ASSUME SwarmInv,
           \/ \E a \in Locals : Network!RegisterLocal(a)
           \/ \E p \in Peers : Network!Advertised(p) \/ \E a \in Remotes : Network!PeerConnected(p, a)
    PROVE  SwarmInv'
<1>1. ASSUME NEW a \in Locals, Network!RegisterLocal(a) PROVE SwarmInv'
  BY Zenon, <1>1, SwarmGrows DEF Network!RegisterLocal, SwarmInv, SwarmTyped
<1>2. ASSUME NEW p \in Peers, Network!Advertised(p) PROVE SwarmInv'
  <2>1. PICK a \in Remotes \ Network!Known : x1' = [x1 EXCEPT ![a] = Network!NewAgent(p)]
    BY Zenon, <1>2 DEF Network!Advertised
  <2>2. x3' = [x3 EXCEPT !.step = "stuck"] /\ UNCHANGED <<x2, x4, x5, x6, x7>>
    BY <1>2 DEF Network!Advertised
  <2>3. x3' \in [step : {"free", "index", "stuck"}, peer : Peers \cup {None},
                 agent : Remotes \cup {None}]
        /\ x3'.step = "stuck"
    BY Zenon, <2>2 DEF SwarmInv, SwarmTyped
  <2> QED
    BY Zenon, <2>1, <2>2, <2>3, SwarmGrows
<1>3. ASSUME NEW p \in Peers, NEW a \in Remotes, Network!PeerConnected(p, a) PROVE SwarmInv'
  <2>1. /\ x3 = Network!Free /\ x2[p] = None /\ a \in Remotes \ Network!Known
        /\ x1' = [x1 EXCEPT ![a] = Network!NewAgent(p)]
        /\ x3' = [step |-> "index", peer |-> p, agent |-> a]
        /\ UNCHANGED <<x2, x4, x5, x6, x7>>
    BY <1>3 DEF Network!PeerConnected
  <2>2. /\ x3' \in [step : {"free", "index", "stuck"}, peer : Peers \cup {None},
                    agent : Remotes \cup {None}]
        /\ x3'.step = "index" /\ x3'.peer = p /\ x3'.agent = a /\ x3.step = "free"
    BY <2>1 DEF Network!Free
  <2> QED
    BY Zenon, <2>1, <2>2, SwarmGrows
<1> QED
  BY <1>1, <1>2, <1>3

\* The state of an agent is not counted.
LEMMA SwarmDisconnects ==
    ASSUME SwarmInv, NEW p \in Peers, Network!PeerDisconnected(p)
    PROVE  SwarmInv'
<1>1. /\ x2[p] # None /\ x1' = [x1 EXCEPT ![x2[p]].state = "offline"]
      /\ UNCHANGED <<x2, x3, x4, x5, x6, x7>>
  BY DEF Network!PeerDisconnected, Network!SetState
<1>2. PICK a \in Network!Known : a = x2[p]
  BY <1>1 DEF SwarmInv, SwarmIndex
<1>3. a \in Locals \cup Remotes /\ x1[a] \in Network!Shown
  BY KnownAgents DEF SwarmInv
<1>4. PICK g \in Network!Shown :
        /\ x1' = [x1 EXCEPT ![a] = g]
        /\ g.peer = x1[a].peer /\ g.actions = x1[a].actions
        /\ g.completed = x1[a].completed /\ g.failed = x1[a].failed
  <2>1. PICK r \in Network!Shown : r = x1[a]
    BY <1>3
  <2>2. /\ [r EXCEPT !.state = "offline"] \in Network!Shown
        /\ [r EXCEPT !.state = "offline"].peer = r.peer
        /\ [r EXCEPT !.state = "offline"].actions = r.actions
        /\ [r EXCEPT !.state = "offline"].completed = r.completed
        /\ [r EXCEPT !.state = "offline"].failed = r.failed
    BY <2>1 DEF Network!Shown
  <2>3. x1' = [x1 EXCEPT ![a] = [r EXCEPT !.state = "offline"]]
    BY <1>1, <1>2, <2>1
  <2> QED
    BY Zenon, <2>1, <2>2, <2>3
<1>5. SwarmTyped' /\ x1'[a] = g /\ \A b \in Locals \cup Remotes : b # a => x1'[b] = x1[b]
  BY <1>1, <1>3, <1>4 DEF SwarmInv, SwarmTyped
<1>6. Network!Known' = Network!Known
  BY <1>3, <1>4, <1>5, SwarmConstants DEF SwarmInv, SwarmTyped, Network!Known
<1>7. \A b \in Network!Known :
        /\ x1'[b].peer = x1[b].peer /\ x1'[b].actions = x1[b].actions
        /\ x1'[b].completed = x1[b].completed /\ x1'[b].failed = x1[b].failed
  BY <1>4, <1>5, KnownAgents DEF SwarmInv
<1>8. SwarmRecords'
  BY <1>1, <1>6 DEF SwarmInv, SwarmRecords, Recording
<1>9. SwarmIndex'
  BY <1>1, <1>6, <1>7 DEF SwarmInv, SwarmIndex
<1>10. AgentActions' = AgentActions /\ AgentEnded' = AgentEnded
  BY <1>6, <1>7 DEF AgentActions, AgentEnded
<1>11. \A s : AtStep(s)' = AtStep(s)
  BY <1>1 DEF AtStep
<1>12. AgentsCounted' /\ HistoryCounted'
  BY <1>1, <1>10, <1>11 DEF SwarmInv, AgentsCounted, HistoryCounted
<1> QED
  BY <1>5, <1>8, <1>9, <1>12 DEF SwarmInv

LEMMA SwarmIndexed ==
    ASSUME SwarmInv, Network!Indexed
    PROVE  SwarmInv'
<1>1. /\ x3.step = "index" /\ x3' = Network!Free
      /\ x2' = [x2 EXCEPT ![x3.peer] = x3.agent]
      /\ UNCHANGED <<x1, x4, x5, x6, x7>>
  BY DEF Network!Indexed
<1>2. PICK p \in Peers, a \in Remotes : /\ p = x3.peer /\ a = x3.agent /\ a \in Network!Known
                                        /\ x1[a].peer = p /\ x2[p] = None
  <2>1. x3.agent \in Remotes \cup {None}
    BY DEF SwarmInv, SwarmTyped
  <2>2. x3.agent \in Network!Known /\ x3.agent # None
    BY <1>1, SwarmConstants, KnownAgents DEF SwarmInv, SwarmIndex
  <2> QED
    BY <1>1, <2>1, <2>2 DEF SwarmInv, SwarmIndex
<1>3. /\ x2' \in [Peers -> Remotes \cup {None}] /\ x2'[p] = a
      /\ \A q \in Peers : q # p => x2'[q] = x2[q]
  BY <1>1, <1>2 DEF SwarmInv, SwarmTyped
<1>4. SwarmTyped'
  BY <1>1, <1>3 DEF SwarmInv, SwarmTyped, Network!Free
<1>5. Network!Known' = Network!Known /\ AgentActions' = AgentActions /\ AgentEnded' = AgentEnded
      /\ \A s : AtStep(s)' = AtStep(s)
  BY <1>1 DEF Network!Known, AgentActions, AgentEnded, AtStep
<1>6. SwarmRecords'
  BY <1>1, <1>5 DEF SwarmInv, SwarmRecords, Recording
<1>7. SwarmIndex'
  <2>1. \A q \in Peers : x2'[q] # None => x2'[q] \in Network!Known
    BY <1>2, <1>3 DEF SwarmInv, SwarmIndex
  <2>2. x3'.step = "free" /\ x3'.agent = None
    BY <1>1 DEF Network!Free
  <2>3. ASSUME NEW b \in Network!Known, x1[b].peer # None PROVE x2'[x1[b].peer] = b
    <3>1. x1[b].peer \in Peers
      BY <2>3, KnownAgents DEF SwarmInv
    <3>2. x2[x1[b].peer] = b \/ a = b
      BY <1>1, <1>2, <2>3 DEF SwarmInv, SwarmIndex
    <3>3. b # None
      BY KnownAgents, SwarmConstants DEF SwarmInv
    <3> QED
      BY <1>2, <1>3, <3>1, <3>2, <3>3
  <2> QED
    BY <1>1, <1>5, <2>1, <2>2, <2>3 DEF SwarmIndex
<1>8. AgentsCounted' /\ HistoryCounted'
  BY <1>1, <1>5 DEF SwarmInv, AgentsCounted, HistoryCounted
<1> QED
  BY <1>4, <1>6, <1>7, <1>8 DEF SwarmInv

\* An action begins, for an agent that is known.
LEMMA SwarmBegins ==
    ASSUME SwarmInv, NEW c \in Callers, NEW a \in Network!Known, NEW step \in {"job", "agent"},
           Network!BeginAction(c, a, step), UNCHANGED <<x1, x2, x3, x6>>,
           x5' = IF step = "job" THEN [x5 EXCEPT !.jobs = @ + 1] ELSE x5
    PROVE  SwarmInv'
<1>1. PICK n \in Nat : n = x7 + 1 /\ x7' = n
  BY DEF SwarmInv, SwarmTyped, Network!BeginAction
<1>2. /\ x4[c].step = "idle"
      /\ x4' = [x4 EXCEPT ![c] = [step |-> step, agent |-> a, number |-> n]]
  BY <1>1 DEF Network!BeginAction, Network!At
<1>3. a \in Locals \cup Remotes
  BY KnownAgents DEF SwarmInv
<1>4. PICK o : /\ o = [step |-> step, agent |-> a, number |-> n]
               /\ o \in [step : {"idle", "job", "agent", "total", "push"},
                         agent : Locals \cup Remotes \cup {None}, number : Nat]
               /\ o.step = step /\ o.agent = a /\ o.number = n
  <2> DEFINE o == [step |-> step, agent |-> a, number |-> n]
  <2>1. o \in [step : {"idle", "job", "agent", "total", "push"},
               agent : Locals \cup Remotes \cup {None}, number : Nat]
    BY <1>3
  <2>2. o.step = step /\ o.agent = a /\ o.number = n
    OBVIOUS
  <2> QED
    BY Zenon, <2>1, <2>2
<1>5. /\ x4' \in [Callers -> [step : {"idle", "job", "agent", "total", "push"},
                              agent : Locals \cup Remotes \cup {None}, number : Nat]]
      /\ x4'[c] = o /\ \A d \in Callers \ {c} : x4'[d] = x4[d]
  BY <1>2, <1>4 DEF SwarmInv, SwarmTyped
<1>6. /\ x5' \in [actions : Nat, jobs : Nat] /\ x5'.actions = x5.actions
      /\ x5'.jobs = IF step = "job" THEN x5.jobs + 1 ELSE x5.jobs
      /\ x5.jobs \in Nat
  <2>1. PICK s \in [actions : Nat, jobs : Nat] : s = x5
    BY DEF SwarmInv, SwarmTyped
  <2>2. /\ [s EXCEPT !.jobs = @ + 1] \in [actions : Nat, jobs : Nat]
        /\ [s EXCEPT !.jobs = @ + 1].actions = s.actions
        /\ [s EXCEPT !.jobs = @ + 1].jobs = s.jobs + 1
    OBVIOUS
  <2>3. CASE step = "job"
    BY <2>1, <2>2, <2>3
  <2>4. CASE step # "job"
    BY <2>1, <2>4
  <2> QED
    BY <2>3, <2>4
<1>7. SwarmTyped'
  BY <1>1, <1>5, <1>6 DEF SwarmInv, SwarmTyped
<1>8. Network!Known' = Network!Known /\ AgentActions' = AgentActions /\ AgentEnded' = AgentEnded
  BY DEF Network!Known, AgentActions, AgentEnded
<1>9. SwarmRecords'
  <2>1. x7 \in Nat /\ \A d \in Callers : x4[d].number \in Nat
    BY DEF SwarmInv, SwarmTyped
  <2>2. \A d \in Recording' \ {c} : d \in Recording /\ d \in Callers /\ x4'[d] = x4[d]
    BY <1>5 DEF Recording
  <2>3. \A m \in Elements(x6) : m \in Nat /\ m <= x7
    BY DEF SwarmInv, SwarmTyped, SwarmRecords, Elements
  <2>4. ASSUME NEW d \in Recording'
        PROVE  /\ x4'[d].agent \in Network!Known /\ x4'[d].number <= n
               /\ x4'[d].number \notin Elements(x6)
               /\ d # c => x4'[d].number < n
    <3>1. CASE d = c
      BY <1>1, <1>4, <1>5, <2>1, <2>3, <3>1
    <3>2. CASE d # c
      <4>1. /\ x4'[d].agent \in Network!Known /\ x4'[d].number <= x7
            /\ x4'[d].number \notin Elements(x6) /\ x4'[d].number \in Nat
        BY <2>1, <2>2, <3>2 DEF SwarmInv, SwarmRecords
      <4> QED
        BY <1>1, <2>1, <3>2, <4>1
    <3> QED
      BY <3>1, <3>2
  <2>5. ASSUME NEW d \in Recording', NEW e \in Recording', d # e
        PROVE  x4'[d].number # x4'[e].number
    <3>1. CASE d = c \/ e = c
      BY <1>1, <1>4, <1>5, <2>4, <2>5, <3>1
    <3>2. CASE d # c /\ e # c
      BY <2>2, <2>5, <3>2 DEF SwarmInv, SwarmRecords
    <3> QED
      BY <3>1, <3>2
  <2>6. \A m \in Elements(x6) : m <= n
    BY <1>1, <2>1, <2>3
  <2> QED
    BY <1>1, <1>8, <2>4, <2>5, <2>6 DEF SwarmInv, SwarmRecords
<1>10. SwarmIndex'
  BY <1>8 DEF SwarmInv, SwarmIndex
<1>11. Moves(c, "idle", step)
  BY <1>2, <1>4, <1>5 DEF Moves
<1>12. /\ Cardinality(AtStep(step)') = Cardinality(AtStep(step)) + 1
       /\ \A s : s \notin {"idle", step} => AtStep(s)' = AtStep(s)
  BY <1>11, StepMoves
<1>13. AgentsCounted'
  <2>1. Cardinality(AtStep("job")) \in Nat /\ Network!Sum(AgentEnded) \in Nat
    BY StepsCounted, KnownAgents, SumOf DEF SwarmInv
  <2>2. AtStep("total")' = AtStep("total")
    BY <1>12
  <2>3. step = "agent" => AtStep("job")' = AtStep("job")
    BY <1>12
  <2> QED
    BY <1>6, <1>8, <1>12, <2>1, <2>2, <2>3 DEF SwarmInv, AgentsCounted
<1>14. HistoryCounted'
  <2>1. AtStep("push")' = AtStep("push")
    BY <1>12
  <2> QED
    BY <1>6, <2>1 DEF SwarmInv, HistoryCounted
<1> QED
  BY <1>7, <1>9, <1>10, <1>13, <1>14 DEF SwarmInv

LEMMA SwarmBeginnings ==
    ASSUME SwarmInv, NEW c \in Callers,
           \/ \E a \in Network!Known : Network!RecordJob(c, a)
           \/ Network!TakeOffer(c) \/ Network!Claim(c) \/ Network!Result(c)
    PROVE  SwarmInv'
<1>1. ASSUME NEW a \in Network!Known, Network!RecordJob(c, a) PROVE SwarmInv'
  BY <1>1, SwarmBegins DEF Network!RecordJob
<1>2. CASE Network!TakeOffer(c) \/ Network!Claim(c) \/ Network!Result(c)
  <2>1. PICK a \in Network!Known : Network!BeginAction(c, a, "agent")
    BY <1>2 DEF Network!TakeOffer, Network!Claim, Network!Result, Network!Recorded
  <2>2. UNCHANGED <<x1, x2, x3, x6>> /\ x5' = x5
    BY <1>2 DEF Network!TakeOffer, Network!Claim, Network!Result, Network!Recorded
  <2> QED
    BY <2>1, <2>2, SwarmBegins
<1> QED
  BY <1>1, <1>2

\* A caller goes on with its action.
LEMMA SwarmGoes ==
    ASSUME SwarmInv, NEW c \in Callers, NEW from \in {"job", "agent", "total"},
           NEW to \in {"agent", "total", "push"}, from # to,
           Network!At(c, from), Network!Go(c, to),
           Network!Known' = Network!Known, x6' = x6, x7' = x7
    PROVE  /\ x4' \in [Callers -> [step : {"idle", "job", "agent", "total", "push"},
                                   agent : Locals \cup Remotes \cup {None}, number : Nat]]
           /\ Moves(c, from, to) /\ SwarmRecords' /\ x4[c].agent \in Network!Known
<1>1. x4[c].step = from /\ x4' = [x4 EXCEPT ![c].step = to]
  BY DEF Network!At, Network!Go
<1>2. PICK o, q : /\ o = x4[c] /\ q = [o EXCEPT !.step = to]
                  /\ q \in [step : {"idle", "job", "agent", "total", "push"},
                            agent : Locals \cup Remotes \cup {None}, number : Nat]
                  /\ q.step = to /\ q.agent = o.agent /\ q.number = o.number
  <2>1. PICK o \in [step : {"idle", "job", "agent", "total", "push"},
                    agent : Locals \cup Remotes \cup {None}, number : Nat] : o = x4[c]
    BY DEF SwarmInv, SwarmTyped
  <2> DEFINE q == [o EXCEPT !.step = to]
  <2>2. q \in [step : {"idle", "job", "agent", "total", "push"},
               agent : Locals \cup Remotes \cup {None}, number : Nat]
    OBVIOUS
  <2>3. q.step = to /\ q.agent = o.agent /\ q.number = o.number
    OBVIOUS
  <2> QED
    BY <2>1, <2>2, <2>3
<1>3. /\ x4' \in [Callers -> [step : {"idle", "job", "agent", "total", "push"},
                              agent : Locals \cup Remotes \cup {None}, number : Nat]]
      /\ x4'[c] = q /\ \A d \in Callers \ {c} : x4'[d] = x4[d]
  BY <1>1, <1>2 DEF SwarmInv, SwarmTyped
<1>4. Moves(c, from, to)
  BY <1>1, <1>2, <1>3 DEF Moves
<1>5. /\ Recording' = Recording /\ c \in Recording
      /\ \A d \in Callers : x4'[d].agent = x4[d].agent /\ x4'[d].number = x4[d].number
  <2>1. \A d \in Callers : d \in Recording' <=> d \in Recording
    BY <1>1, <1>2, <1>3 DEF Recording
  <2>2. Recording' \subseteq Callers /\ Recording \subseteq Callers /\ c \in Recording
    BY <1>1 DEF Recording
  <2> QED
    BY Zenon, <1>2, <1>3, <2>1, <2>2
<1>6. Recording \subseteq Callers
  BY DEF Recording
<1>7. SwarmRecords'
  BY <1>5, <1>6 DEF SwarmInv, SwarmRecords
<1> QED
  BY <1>3, <1>4, <1>5, <1>7 DEF SwarmInv, SwarmRecords

\* An agent is counted something.
LEMMA SwarmCountsOne ==
    ASSUME SwarmInv, NEW a \in Network!Known, NEW g \in Network!Shown,
           g.peer = x1[a].peer, x1' = [x1 EXCEPT ![a] = g], UNCHANGED <<x2, x3>>
    PROVE  /\ x1' \in [Locals \cup Remotes -> Network!Shown \cup {None}]
           /\ Network!Known' = Network!Known /\ SwarmIndex'
           /\ Network!Sum(AgentActions)' + x1[a].actions
                = Network!Sum(AgentActions) + g.actions
           /\ Network!Sum(AgentEnded)' + (x1[a].completed + x1[a].failed)
                = Network!Sum(AgentEnded) + (g.completed + g.failed)
           /\ Network!Sum(AgentActions) \in Nat /\ Network!Sum(AgentActions)' \in Nat
           /\ Network!Sum(AgentEnded) \in Nat /\ Network!Sum(AgentEnded)' \in Nat
<1>1. a \in Locals \cup Remotes
  BY KnownAgents DEF SwarmInv
<1>2. /\ x1' \in [Locals \cup Remotes -> Network!Shown \cup {None}] /\ x1'[a] = g
      /\ \A b \in Locals \cup Remotes : b # a => x1'[b] = x1[b]
  BY <1>1 DEF SwarmInv, SwarmTyped
<1>3. Network!Known' = Network!Known
  BY <1>1, <1>2, SwarmConstants DEF SwarmInv, SwarmTyped, Network!Known
<1>4. \A b \in Network!Known : x1'[b].peer = x1[b].peer /\ (b # a => x1'[b] = x1[b])
  BY <1>2, KnownAgents DEF SwarmInv
<1>5. SwarmIndex'
  BY <1>3, <1>4 DEF SwarmInv, SwarmIndex
<1>6. PICK K, f, e, h, i :
        /\ K = Network!Known /\ f = AgentActions /\ e = AgentEnded
        /\ h = AgentActions' /\ i = AgentEnded'
  OBVIOUS
<1>7. g.actions \in Nat /\ g.completed \in Nat /\ g.failed \in Nat
      /\ g.completed + g.failed \in Nat
  BY DEF Network!Shown
<1>8. \A b \in K : h[b] = x1'[b].actions /\ i[b] = x1'[b].completed + x1'[b].failed
  BY <1>3, <1>6 DEF AgentActions, AgentEnded
<1>9. \A b \in K : f[b] = x1[b].actions /\ e[b] = x1[b].completed + x1[b].failed
  BY <1>6 DEF AgentActions, AgentEnded
<1>10. IsFiniteSet(K) /\ f \in [K -> Nat] /\ e \in [K -> Nat] /\ a \in K
  BY <1>6, KnownAgents DEF SwarmInv
<1>11. h \in [K -> Nat] /\ i \in [K -> Nat]
  <2>1. h = [b \in K |-> h[b]] /\ i = [b \in K |-> i[b]]
    BY <1>3, <1>6 DEF AgentActions, AgentEnded
  <2>2. ASSUME NEW b \in K PROVE h[b] \in Nat /\ i[b] \in Nat
    <3>1. f[b] \in Nat /\ e[b] \in Nat
      BY <1>10
    <3> QED
      BY <1>2, <1>4, <1>6, <1>7, <1>8, <1>9, <3>1
  <2> QED
    BY <2>1, <2>2
<1>12. \A b \in K \ {a} : h[b] = f[b] /\ i[b] = e[b]
  BY <1>4, <1>6, <1>8, <1>9
<1>13. /\ Network!Sum(f) \in Nat /\ Network!Sum(h) \in Nat
       /\ Network!Sum(h) + f[a] = Network!Sum(f) + h[a]
  BY <1>10, <1>11, <1>12, SumChanges
<1>14. /\ Network!Sum(e) \in Nat /\ Network!Sum(i) \in Nat
       /\ Network!Sum(i) + e[a] = Network!Sum(e) + i[a]
  BY <1>10, <1>11, <1>12, SumChanges
<1>15. Network!Sum(AgentActions)' = Network!Sum(h) /\ Network!Sum(AgentEnded)' = Network!Sum(i)
  <2>1. Network!Sum(AgentActions)' = Network!Sum(AgentActions')
    BY Zenon DEF Network!Sum
  <2>2. Network!Sum(AgentEnded)' = Network!Sum(AgentEnded')
    BY Zenon DEF Network!Sum
  <2> QED
    BY <1>6, <2>1, <2>2
<1> QED
  BY <1>2, <1>3, <1>5, <1>6, <1>8, <1>9, <1>10, <1>13, <1>14, <1>15

LEMMA SwarmJobResult ==
    ASSUME SwarmInv, NEW c \in Callers, Network!JobResult(c)
    PROVE  SwarmInv'
<1>1. PICK result \in {"completed", "failed"} :
        /\ x1' = [x1 EXCEPT ![x4[c].agent][result] = @ + 1]
        /\ Network!At(c, "job") /\ Network!Go(c, "agent")
        /\ UNCHANGED <<x2, x3, x5, x6, x7>>
  BY Zenon DEF Network!JobResult
<1>2. PICK a \in Network!Known : a = x4[c].agent
  BY <1>1 DEF SwarmInv, SwarmTyped, SwarmRecords, Recording, Network!At
<1>3. a \in Locals \cup Remotes /\ x1[a] \in Network!Shown
  BY KnownAgents DEF SwarmInv
<1>4. PICK g \in Network!Shown :
        /\ x1' = [x1 EXCEPT ![a] = g] /\ g.peer = x1[a].peer /\ g.actions = x1[a].actions
        /\ g.completed + g.failed = (x1[a].completed + x1[a].failed) + 1
  <2>1. PICK r \in Network!Shown : r = x1[a] /\ r.completed \in Nat /\ r.failed \in Nat
    BY <1>3 DEF Network!Shown
  <2>2. CASE result = "completed"
    <3> DEFINE q == [r EXCEPT !.completed = @ + 1]
    <3>1. /\ q \in Network!Shown /\ q.peer = r.peer /\ q.actions = r.actions
          /\ q.completed = r.completed + 1 /\ q.failed = r.failed
      BY <2>1 DEF Network!Shown
    <3>2. x1' = [x1 EXCEPT ![a] = q]
      BY Zenon, <1>1, <1>2, <2>1, <2>2
    <3> HIDE DEF q
    <3>3. q.completed + q.failed = (r.completed + r.failed) + 1
      BY <2>1, <3>1
    <3> QED
      BY Zenon, <2>1, <3>1, <3>2, <3>3
  <2>3. CASE result = "failed"
    <3> DEFINE q == [r EXCEPT !.failed = @ + 1]
    <3>1. /\ q \in Network!Shown /\ q.peer = r.peer /\ q.actions = r.actions
          /\ q.failed = r.failed + 1 /\ q.completed = r.completed
      BY <2>1 DEF Network!Shown
    <3>2. x1' = [x1 EXCEPT ![a] = q]
      BY Zenon, <1>1, <1>2, <2>1, <2>3
    <3> HIDE DEF q
    <3>3. q.completed + q.failed = (r.completed + r.failed) + 1
      BY <2>1, <3>1
    <3> QED
      BY Zenon, <2>1, <3>1, <3>2, <3>3
  <2> QED
    BY <2>2, <2>3
<1>5. /\ x1' \in [Locals \cup Remotes -> Network!Shown \cup {None}]
      /\ Network!Known' = Network!Known /\ SwarmIndex'
      /\ Network!Sum(AgentActions)' = Network!Sum(AgentActions)
      /\ Network!Sum(AgentEnded)' = Network!Sum(AgentEnded) + 1
      /\ Network!Sum(AgentEnded) \in Nat
  <2>1. /\ x1' \in [Locals \cup Remotes -> Network!Shown \cup {None}]
        /\ Network!Known' = Network!Known /\ SwarmIndex'
        /\ Network!Sum(AgentActions)' + x1[a].actions
             = Network!Sum(AgentActions) + g.actions
        /\ Network!Sum(AgentEnded)' + (x1[a].completed + x1[a].failed)
             = Network!Sum(AgentEnded) + (g.completed + g.failed)
        /\ Network!Sum(AgentActions) \in Nat /\ Network!Sum(AgentActions)' \in Nat
        /\ Network!Sum(AgentEnded) \in Nat /\ Network!Sum(AgentEnded)' \in Nat
    BY Zenon, <1>1, <1>4, SwarmCountsOne
  <2>2. x1[a].actions \in Nat /\ x1[a].completed \in Nat /\ x1[a].failed \in Nat
    BY KnownAgents DEF SwarmInv
  <2> QED
    BY <1>4, <2>1, <2>2
<1>6. /\ x4' \in [Callers -> [step : {"idle", "job", "agent", "total", "push"},
                              agent : Locals \cup Remotes \cup {None}, number : Nat]]
      /\ Moves(c, "job", "agent") /\ SwarmRecords'
  BY <1>1, <1>5, SwarmGoes
<1>7. SwarmTyped'
  BY <1>1, <1>5, <1>6 DEF SwarmInv, SwarmTyped
<1>8. /\ Cardinality(AtStep("job")') = Cardinality(AtStep("job")) - 1
      /\ AtStep("total")' = AtStep("total") /\ AtStep("push")' = AtStep("push")
  BY <1>6, StepMoves
<1>9. AgentsCounted'
  <2>1. Cardinality(AtStep("job")) \in Nat
    BY StepsCounted
  <2> QED
    BY <1>1, <1>5, <1>8, <2>1 DEF SwarmInv, AgentsCounted
<1>10. HistoryCounted'
  BY <1>1, <1>8 DEF SwarmInv, HistoryCounted
<1> QED
  BY <1>5, <1>6, <1>7, <1>9, <1>10 DEF SwarmInv

LEMMA SwarmAgentCounts ==
    ASSUME SwarmInv, NEW c \in Callers, Network!AgentCounts(c)
    PROVE  SwarmInv'
<1>1. /\ x1' = [x1 EXCEPT ![x4[c].agent].actions = @ + 1]
      /\ Network!At(c, "agent") /\ Network!Go(c, "total")
      /\ UNCHANGED <<x2, x3, x5, x6, x7>>
  BY DEF Network!AgentCounts
<1>2. PICK a \in Network!Known : a = x4[c].agent
  BY <1>1 DEF SwarmInv, SwarmTyped, SwarmRecords, Recording, Network!At
<1>3. a \in Locals \cup Remotes /\ x1[a] \in Network!Shown
  BY KnownAgents DEF SwarmInv
<1>4. PICK g \in Network!Shown :
        /\ x1' = [x1 EXCEPT ![a] = g] /\ g.peer = x1[a].peer
        /\ g.actions = x1[a].actions + 1
        /\ g.completed = x1[a].completed /\ g.failed = x1[a].failed
  <2>1. PICK r \in Network!Shown : r = x1[a] /\ r.actions \in Nat
    BY <1>3 DEF Network!Shown
  <2>2. /\ [r EXCEPT !.actions = @ + 1] \in Network!Shown
        /\ [r EXCEPT !.actions = @ + 1].peer = r.peer
        /\ [r EXCEPT !.actions = @ + 1].actions = r.actions + 1
        /\ [r EXCEPT !.actions = @ + 1].completed = r.completed
        /\ [r EXCEPT !.actions = @ + 1].failed = r.failed
    BY <2>1 DEF Network!Shown
  <2>3. x1' = [x1 EXCEPT ![a] = [r EXCEPT !.actions = @ + 1]]
    BY <1>1, <1>2, <2>1
  <2> QED
    BY Zenon, <2>1, <2>2, <2>3
<1>5. /\ x1' \in [Locals \cup Remotes -> Network!Shown \cup {None}]
      /\ Network!Known' = Network!Known /\ SwarmIndex'
      /\ Network!Sum(AgentActions)' = Network!Sum(AgentActions) + 1
      /\ Network!Sum(AgentEnded)' = Network!Sum(AgentEnded)
      /\ Network!Sum(AgentActions) \in Nat
  <2>1. /\ x1' \in [Locals \cup Remotes -> Network!Shown \cup {None}]
        /\ Network!Known' = Network!Known /\ SwarmIndex'
        /\ Network!Sum(AgentActions)' + x1[a].actions
             = Network!Sum(AgentActions) + g.actions
        /\ Network!Sum(AgentEnded)' + (x1[a].completed + x1[a].failed)
             = Network!Sum(AgentEnded) + (g.completed + g.failed)
        /\ Network!Sum(AgentActions) \in Nat /\ Network!Sum(AgentActions)' \in Nat
        /\ Network!Sum(AgentEnded) \in Nat /\ Network!Sum(AgentEnded)' \in Nat
    BY Zenon, <1>1, <1>4, SwarmCountsOne
  <2>2. x1[a].actions \in Nat /\ x1[a].completed \in Nat /\ x1[a].failed \in Nat
    BY KnownAgents DEF SwarmInv
  <2>3. Network!Sum(AgentActions)' = Network!Sum(AgentActions) + 1
    BY <1>4, <2>1, <2>2
  <2>4. Network!Sum(AgentEnded)' = Network!Sum(AgentEnded)
    BY <1>4, <2>1, <2>2
  <2> QED
    BY <2>1, <2>3, <2>4
<1>6. /\ x4' \in [Callers -> [step : {"idle", "job", "agent", "total", "push"},
                              agent : Locals \cup Remotes \cup {None}, number : Nat]]
      /\ Moves(c, "agent", "total") /\ SwarmRecords'
  BY <1>1, <1>5, SwarmGoes
<1>7. SwarmTyped'
  BY <1>1, <1>5, <1>6 DEF SwarmInv, SwarmTyped
<1>8. /\ Cardinality(AtStep("total")') = Cardinality(AtStep("total")) + 1
      /\ AtStep("job")' = AtStep("job") /\ AtStep("push")' = AtStep("push")
  BY <1>6, StepMoves
<1>9. AgentsCounted'
  <2>1. Cardinality(AtStep("total")) \in Nat /\ x5.actions \in Nat
    BY StepsCounted DEF SwarmInv, SwarmTyped
  <2> QED
    BY <1>1, <1>5, <1>8, <2>1 DEF SwarmInv, AgentsCounted
<1>10. HistoryCounted'
  BY <1>1, <1>8 DEF SwarmInv, HistoryCounted
<1> QED
  BY <1>5, <1>6, <1>7, <1>9, <1>10 DEF SwarmInv

LEMMA SwarmTotalCounts ==
    ASSUME SwarmInv, NEW c \in Callers, Network!TotalCounts(c)
    PROVE  SwarmInv'
<1>1. /\ x5' = [x5 EXCEPT !.actions = @ + 1]
      /\ Network!At(c, "total") /\ Network!Go(c, "push")
      /\ UNCHANGED <<x1, x2, x3, x6, x7>>
  BY DEF Network!TotalCounts
<1>2. /\ x5' \in [actions : Nat, jobs : Nat] /\ x5'.actions = x5.actions + 1
      /\ x5'.jobs = x5.jobs /\ x5.actions \in Nat
  <2>1. PICK r \in [actions : Nat, jobs : Nat] : r = x5
    BY DEF SwarmInv, SwarmTyped
  <2>2. /\ [r EXCEPT !.actions = @ + 1] \in [actions : Nat, jobs : Nat]
        /\ [r EXCEPT !.actions = @ + 1].actions = r.actions + 1
        /\ [r EXCEPT !.actions = @ + 1].jobs = r.jobs /\ r.actions \in Nat
    OBVIOUS
  <2> QED
    BY <1>1, <2>1, <2>2
<1>3. Network!Known' = Network!Known /\ AgentActions' = AgentActions /\ AgentEnded' = AgentEnded
  BY <1>1 DEF Network!Known, AgentActions, AgentEnded
<1>4. /\ x4' \in [Callers -> [step : {"idle", "job", "agent", "total", "push"},
                              agent : Locals \cup Remotes \cup {None}, number : Nat]]
      /\ Moves(c, "total", "push") /\ SwarmRecords'
  BY <1>1, <1>3, SwarmGoes
<1>5. SwarmTyped' /\ SwarmIndex'
  BY <1>1, <1>2, <1>3, <1>4 DEF SwarmInv, SwarmTyped, SwarmIndex
<1>6. /\ Cardinality(AtStep("total")') = Cardinality(AtStep("total")) - 1
      /\ Cardinality(AtStep("push")') = Cardinality(AtStep("push")) + 1
      /\ AtStep("job")' = AtStep("job")
  BY <1>4, StepMoves
<1>7. Cardinality(AtStep("total")) \in Nat /\ Cardinality(AtStep("push")) \in Nat
  BY StepsCounted
<1>8. AgentsCounted'
  BY <1>2, <1>3, <1>6, <1>7 DEF SwarmInv, AgentsCounted
<1>9. HistoryCounted'
  <2>1. x5'.actions - Cardinality(AtStep("push")') = x5.actions - Cardinality(AtStep("push"))
    BY <1>2, <1>6, <1>7
  <2> QED
    BY <1>1, <2>1 DEF SwarmInv, HistoryCounted
<1> QED
  BY <1>4, <1>5, <1>8, <1>9 DEF SwarmInv

\* The timeline with one more action.
LEMMA Trims ==
    ASSUME NEW s \in Seq(Nat), NEW n \in Nat, NEW k \in Int, Len(s) = Shortened(k),
           Distinct(s), n \notin Elements(s), NEW t, t = Network!Trimmed(Append(s, n))
    PROVE  /\ t \in Seq(Nat) /\ Len(t) = Shortened(k + 1) /\ Distinct(t)
           /\ Elements(t) \subseteq Elements(s) \cup {n}
<1>1. PICK a \in Seq(Nat) : /\ a = Append(s, n) /\ Len(a) = Len(s) + 1
                            /\ Elements(a) = Elements(s) \cup {n} /\ Distinct(a)
  BY Zenon, AppendElements
<1>2. Len(s) \in Nat /\ Len(a) \in Nat /\ MaxHistory \in Nat \ {0}
  BY SwarmConstants, LenProperties
<1>3. CASE Len(a) > MaxHistory
  <2>1. t = Tail(a) /\ a # <<>>
    <3>1. t = Tail(a)
      BY Zenon, <1>1, <1>3 DEF Network!Trimmed
    <3>2. a # <<>>
      BY <1>2, <1>3
    <3> QED
      BY <3>1, <3>2
  <2>2. /\ Tail(a) \in Seq(Nat) /\ Len(Tail(a)) = Len(a) - 1
        /\ Elements(Tail(a)) \subseteq Elements(a) /\ Distinct(Tail(a))
    <3>1. /\ Tail(a) \in Seq(Nat) /\ Len(Tail(a)) = Len(a) - 1
          /\ Elements(a) = Elements(Tail(a)) \cup {Head(a)}
          /\ Distinct(a) => Distinct(Tail(a))
      BY Zenon, <1>1, <2>1, TailElements
    <3> QED
      BY <1>1, <3>1
  <2>3. Len(a) - 1 = Shortened(k + 1)
    BY <1>1, <1>2, <1>3 DEF Shortened
  <2> QED
    BY <1>1, <2>1, <2>2, <2>3
<1>4. CASE ~(Len(a) > MaxHistory)
  <2>1. t = a
    BY <1>1, <1>4 DEF Network!Trimmed
  <2>2. Len(a) = Shortened(k + 1)
    BY <1>1, <1>2, <1>4 DEF Shortened
  <2> QED
    BY <1>1, <2>1, <2>2
<1> QED
  BY <1>3, <1>4

LEMMA SwarmPush ==
    ASSUME SwarmInv, NEW c \in Callers, Network!Push(c)
    PROVE  SwarmInv'
<1>1. /\ x4[c].step = "push" /\ x4' = [x4 EXCEPT ![c] = Network!Idle]
      /\ x6' = Network!Trimmed(Append(x6, x4[c].number))
      /\ UNCHANGED <<x1, x2, x3, x5, x7>>
  BY DEF Network!Push, Network!At
<1>2. PICK n \in Nat : n = x4[c].number
  BY DEF SwarmInv, SwarmTyped
<1>3. c \in Recording /\ n <= x7 /\ n \notin Elements(x6)
  BY <1>1, <1>2 DEF SwarmInv, SwarmRecords, Recording
<1>4. /\ x4' \in [Callers -> [step : {"idle", "job", "agent", "total", "push"},
                              agent : Locals \cup Remotes \cup {None}, number : Nat]]
      /\ x4'[c].step = "idle" /\ \A d \in Callers \ {c} : x4'[d] = x4[d]
  BY <1>1 DEF SwarmInv, SwarmTyped, Network!Idle
<1>5. Moves(c, "push", "idle")
  BY <1>1, <1>4 DEF Moves
<1>6. /\ Cardinality(AtStep("push")') = Cardinality(AtStep("push")) - 1
      /\ AtStep("job")' = AtStep("job") /\ AtStep("total")' = AtStep("total")
      /\ Cardinality(AtStep("push")) \in Nat /\ x5.actions \in Nat
  <2>1. /\ Cardinality(AtStep("push")') = Cardinality(AtStep("push")) - 1
        /\ AtStep("job")' = AtStep("job") /\ AtStep("total")' = AtStep("total")
    BY <1>5, StepMoves
  <2>2. Cardinality(AtStep("push")) \in Nat
    BY StepsCounted
  <2>3. x5.actions \in Nat
    BY DEF SwarmInv, SwarmTyped
  <2> QED
    BY <2>1, <2>2, <2>3
<1>7. PICK k \in Int : k = x5.actions - Cardinality(AtStep("push"))
  BY <1>6
<1>8. PICK t : t = x6'
  OBVIOUS
<1>9. /\ t \in Seq(Nat) /\ Len(t) = Shortened(k + 1) /\ Distinct(t)
      /\ Elements(t) \subseteq Elements(x6) \cup {n}
  <2>1. PICK s \in Seq(Nat) : s = x6
    BY DEF SwarmInv, SwarmTyped
  <2>2. Len(s) = Shortened(k) /\ Distinct(s) /\ n \notin Elements(s)
        /\ t = Network!Trimmed(Append(s, n))
    BY <1>1, <1>2, <1>3, <1>7, <1>8, <2>1 DEF SwarmInv, HistoryCounted, SwarmRecords
  <2> QED
    BY <2>1, <2>2, Trims
<1>10. Network!Known' = Network!Known /\ AgentActions' = AgentActions
       /\ AgentEnded' = AgentEnded
  BY <1>1 DEF Network!Known, AgentActions, AgentEnded
<1>11. SwarmTyped' /\ SwarmIndex'
  BY <1>1, <1>4, <1>8, <1>9, <1>10 DEF SwarmInv, SwarmTyped, SwarmIndex
<1>12. SwarmRecords'
  <2>1. \A d \in Recording' : d \in Recording /\ d # c /\ x4'[d] = x4[d]
    BY <1>4 DEF Recording
  <2>2. \A d \in Recording' : x4[d].number # n
    BY <1>2, <1>3, <2>1 DEF SwarmInv, SwarmRecords
  <2>3. \A d \in Recording' : /\ x4'[d].agent \in Network!Known /\ x4'[d].number <= x7
                              /\ x4'[d].number \notin Elements(t)
    BY <1>9, <2>1, <2>2 DEF SwarmInv, SwarmRecords
  <2>4. \A d, e \in Recording' : d # e => x4'[d].number # x4'[e].number
    BY <2>1 DEF SwarmInv, SwarmRecords
  <2>5. \A m \in Elements(t) : m <= x7
    BY <1>3, <1>9 DEF SwarmInv, SwarmRecords
  <2> QED
    BY <1>1, <1>8, <1>9, <1>10, <2>3, <2>4, <2>5 DEF SwarmRecords
<1>13. AgentsCounted'
  BY <1>1, <1>6, <1>10 DEF SwarmInv, AgentsCounted
<1>14. HistoryCounted'
  <2>1. x5'.actions - Cardinality(AtStep("push")') = k + 1
    BY <1>1, <1>6, <1>7
  <2> QED
    BY <1>8, <1>9, <2>1 DEF HistoryCounted
<1> QED
  BY <1>11, <1>12, <1>13, <1>14 DEF SwarmInv

LEMMA SwarmSame ==
    ASSUME SwarmInv, UNCHANGED <<x1, x2, x3, x4, x5, x6, x7>>
    PROVE  SwarmInv'
<1>1. Network!Known' = Network!Known /\ AgentActions' = AgentActions
      /\ AgentEnded' = AgentEnded /\ Recording' = Recording
      /\ \A s : AtStep(s)' = AtStep(s)
  BY DEF Network!Known, AgentActions, AgentEnded, Recording, AtStep
<1>2. SwarmTyped' /\ SwarmRecords' /\ SwarmIndex'
  BY <1>1 DEF SwarmInv, SwarmTyped, SwarmRecords, SwarmIndex
<1>3. AgentsCounted' /\ HistoryCounted'
  BY <1>1 DEF SwarmInv, AgentsCounted, HistoryCounted
<1> QED
  BY <1>2, <1>3 DEF SwarmInv

LEMMA SwarmStep ==
    ASSUME SwarmInv, Network!Next \/ UNCHANGED own
    PROVE  SwarmInv'
<1>1. CASE Network!Next
  <2>1. CASE \/ \E a \in Locals : Network!RegisterLocal(a)
             \/ \E p \in Peers : \/ Network!Advertised(p)
                                 \/ \E a \in Remotes : Network!PeerConnected(p, a)
    BY <2>1, SwarmRegisters
  <2>2. CASE (\E p \in Peers : Network!PeerDisconnected(p)) \/ Network!Indexed
    BY <2>2, SwarmDisconnects, SwarmIndexed
  <2>3. ASSUME NEW c \in Callers,
               \/ \E a \in Network!Known : Network!RecordJob(c, a)
               \/ Network!JobResult(c) \/ Network!AgentCounts(c) \/ Network!TotalCounts(c)
               \/ Network!Push(c) \/ Network!TakeOffer(c) \/ Network!Claim(c)
               \/ Network!Result(c) \/ Network!Abandon(c)
        PROVE  SwarmInv'
    <3>1. CASE \/ \E a \in Network!Known : Network!RecordJob(c, a)
               \/ Network!TakeOffer(c) \/ Network!Claim(c) \/ Network!Result(c)
      BY <3>1, SwarmBeginnings
    <3>2. CASE Network!JobResult(c) \/ Network!AgentCounts(c)
      BY <3>2, SwarmJobResult, SwarmAgentCounts
    <3>3. CASE Network!TotalCounts(c) \/ Network!Push(c)
      BY <3>3, SwarmTotalCounts, SwarmPush
    <3>4. CASE Network!Abandon(c)
      BY <3>4, SwarmSame DEF Network!Abandon
    <3> QED
      BY <2>3, <3>1, <3>2, <3>3, <3>4
  <2> QED
    BY <1>1, <2>1, <2>2, <2>3 DEF Network!Next
<1>2. CASE UNCHANGED own
  BY <1>2, SwarmSame DEF own
<1> QED
  BY <1>1, <1>2

\* The pages from the end of a timeline, put together.
LEMMA PagesJoin ==
    ASSUME NEW s \in Seq(Nat), NEW m \in Nat, NEW n \in Nat, m <= n, n <= Len(s)
    PROVE  SubSeq(s, 1, m) \o SubSeq(s, m + 1, n) = SubSeq(s, 1, n)
<1>1. 1 \in 1 .. Len(s) + 1 /\ m \in 1 - 1 .. Len(s) /\ n \in m .. Len(s)
  BY LenProperties
<1> QED
  BY Zenon, <1>1, ConcatAdjacentSubSeq

LEMMA SwarmPages ==
    ASSUME x6 \in Seq(Nat)
    PROVE  Network!PagesWhole
<1> SUFFICES ASSUME NEW limit \in 1 .. MaxHistory
             PROVE  LET from[offset \in Nat] ==
                          IF offset >= Len(x6) THEN <<>>
                          ELSE from[offset + limit] \o Network!Page(limit, offset)
                    IN  from[0] = x6
  BY Zenon DEF Network!PagesWhole
<1> DEFINE IsFrom(g) == g = [offset \in Nat |->
                               IF offset >= Len(x6) THEN <<>>
                               ELSE g[offset + limit] \o Network!Page(limit, offset)]
           from == CHOOSE g : IsFrom(g)
           before == [offset \in Nat |-> SubSeq(x6, 1, Network!Minus(Len(x6), offset))]
<1>1. limit \in Nat \ {0} /\ Len(x6) \in Nat
  BY SwarmConstants, LenProperties
<1>2. ASSUME NEW o \in Nat
      PROVE  before[o] = IF o >= Len(x6) THEN <<>>
                         ELSE before[o + limit] \o Network!Page(limit, o)
  <2>1. CASE o >= Len(x6)
    <3>1. Network!Minus(Len(x6), o) = 0
      BY <1>1, <2>1 DEF Network!Minus
    <3>2. SubSeq(x6, 1, 0) = <<>>
      <4>1. SubSeq(x6, 1, 0) \in Seq(Nat) /\ Len(SubSeq(x6, 1, 0)) = 0
        OBVIOUS
      <4> QED
        BY <4>1, EmptySeq
    <3> QED
      BY <2>1, <3>1, <3>2
  <2>2. CASE ~(o >= Len(x6))
    <3>1. PICK m, n : /\ m = Network!Minus(Len(x6), o + limit)
                      /\ n = Network!Minus(Len(x6), o)
                      /\ m \in Nat /\ n \in Nat /\ m <= n /\ n <= Len(x6)
      <4>1. PICK l \in Nat : l = Len(x6)
        BY <1>1
      <4>2. /\ Network!Minus(l, o + limit) \in Nat /\ Network!Minus(l, o) \in Nat
            /\ Network!Minus(l, o + limit) <= Network!Minus(l, o) /\ Network!Minus(l, o) <= l
        BY <1>1 DEF Network!Minus
      <4> QED
        BY <4>1, <4>2
    <3>2. Network!Page(limit, o) = SubSeq(x6, m + 1, n)
      BY Zenon, <2>2, <3>1 DEF Network!Page
    <3>3. SubSeq(x6, 1, m) \o SubSeq(x6, m + 1, n) = SubSeq(x6, 1, n)
      BY Zenon, <3>1, PagesJoin
    <3>4. before[o] = SubSeq(x6, 1, n) /\ before[o + limit] = SubSeq(x6, 1, m)
      BY <1>1, <3>1
    <3> QED
      BY Zenon, <2>2, <3>2, <3>3, <3>4
  <2> QED
    BY Zenon, <2>1, <2>2
<1>3. before = [offset \in Nat |-> before[offset]]
  BY Zenon
<1>4. before[0] = x6
  <2>1. Network!Minus(Len(x6), 0) = Len(x6)
    BY <1>1 DEF Network!Minus
  <2>2. SubSeq(x6, 1, Len(x6)) = x6
    OBVIOUS
  <2> QED
    BY <2>1, <2>2
<1> HIDE DEF before
<1>5. IsFrom(before)
  BY Zenon, <1>2, <1>3
<1>6. IsFrom(from)
  <2> HIDE DEF IsFrom
  <2> QED
    BY <1>5
<1>7. \A o \in Nat : from[o] = IF o >= Len(x6) THEN <<>>
                               ELSE from[o + limit] \o Network!Page(limit, o)
  <2> HIDE DEF from
  <2> QED
    BY Zenon, <1>6
<1> HIDE DEF from
<1> DEFINE T == {k \in Nat : \A o \in Nat : o + k >= Len(x6) => from[o] = before[o]}
<1>8. 0 \in T
  BY <1>1, <1>2, <1>7
<1>9. ASSUME NEW k \in Nat, k \in T PROVE k + 1 \in T
  <2> SUFFICES ASSUME NEW o \in Nat, o + (k + 1) >= Len(x6) PROVE from[o] = before[o]
    OBVIOUS
  <2>1. CASE o >= Len(x6)
    BY <1>2, <1>7, <2>1
  <2>2. CASE ~(o >= Len(x6))
    <3>1. o + limit \in Nat /\ (o + limit) + k >= Len(x6)
      BY <1>1
    <3>2. from[o + limit] = before[o + limit]
      BY <1>9, <3>1
    <3> QED
      BY <1>2, <1>7, <2>2, <3>2
  <2> QED
    BY <2>1, <2>2
<1>10. Len(x6) \in T
  <2> HIDE DEF T
  <2> QED
    BY Zenon, <1>1, <1>8, <1>9, SetInduction
<1>11. from[0] = x6
  BY <1>1, <1>4, <1>10
<1> QED
  BY <1>11 DEF from

LEMMA SwarmTrue ==
    ASSUME SwarmInv
    PROVE  Network!CountsAgree /\ Network!PagesWhole /\ Network!OneAgentEach
<1>1. /\ Network!Sum(AgentActions) = x5.actions + Network!Count("total")
      /\ Network!Sum(AgentEnded) + Network!Count("job") = x5.jobs
      /\ Len(x6) = Shortened(x5.actions - Network!Count("push"))
  BY StepsCounted DEF SwarmInv, AgentsCounted, HistoryCounted
<1>2. Network!CountsAgree
  BY <1>1 DEF SwarmInv, SwarmRecords, Distinct, Shortened, AgentActions, AgentEnded,
              Network!CountsAgree
<1>3. Network!PagesWhole
  BY SwarmPages DEF SwarmInv, SwarmTyped
<1>4. Network!OneAgentEach
  BY DEF SwarmInv, SwarmIndex, Network!OneAgentEach
<1> QED
  BY <1>2, <1>3, <1>4
-------------------------------------------------------------------------------
(* The library of workflows                                                *)

\* x1: list, x2: file, x3: request, x4: page, x8: apart.
Shelves == [list : Library!Lists, late : BOOLEAN]
OpenPages ==
    [socket : {"opening", "open"}, unread : Seq({"library", "other"}), asked : 0 .. MaxLoads,
     answers : Seq(Shelves), shown : Library!Lists, missed : BOOLEAN, late : BOOLEAN]
Savings == [at : {"save", "write"}, copy : Library!Lists, client : BOOLEAN]

\* The page g has nothing left to hear of, and will not ask again.
Heard(g) == g.asked = 0 /\ ~ g.missed /\ "library" \notin Elements(g.unread)

\* What it shows, or will show last, is l, or comes late.
ShowsLast(g, l) ==
    IF g.answers = <<>> THEN g.late \/ g.shown = l
    ELSE g.answers[Len(g.answers)].late \/ g.answers[Len(g.answers)].list = l

LibraryPage(g, quiet, l) ==
    /\ g \in OpenPages /\ Len(g.unread) <= PageRoom
    /\ quiet /\ Heard(g) => ShowsLast(g, l)

\* As long as list and file are not apart, one request at most is at work.
LibrarySaved ==
    ~ x8 => /\ Library!Quiet => x2 = x1
            /\ \A r \in Editors : Library!Working(r) =>
                 /\ x3[r].copy = x1
                 /\ \A q \in Editors : Library!Working(q) => q = r

LibraryInv ==
    /\ x1 \in Library!Lists /\ x2 \in Library!Lists \cup {Library!Torn} /\ x8 \in BOOLEAN
    /\ x3 \in [Editors -> Savings \cup {Library!Idle}]
    /\ DOMAIN x4 = Pages
    /\ \A p \in Pages : Library!IsOpen(p) => LibraryPage(x4[p], Library!Quiet, x1)
    /\ LibrarySaved

LEMMA LibraryConstants == PageRoom \in Nat \ {0} /\ MaxLoads \in Nat \ {0} /\ None \notin Specs
BY AgentsAssumption DEF Library!LibraryAssumption

LEMMA AnyRequest == ASSUME NEW g \in Savings PROVE g.at \in {"save", "write"} /\ g # Library!Idle
BY DEF Savings, Library!Idle

\* A request is at work, or is not.
LEMMA RequestIs ==
    ASSUME LibraryInv, NEW r \in Editors
    PROVE  /\ Library!Working(r) <=> x3[r] # Library!Idle
           /\ Library!Working(r) => x3[r] \in Savings
<1>1. x3[r] \in Savings \cup {Library!Idle}
  BY DEF LibraryInv
<1>2. CASE x3[r] \in Savings
  <2>1. x3[r].at \in {"save", "write"} /\ x3[r] # Library!Idle
    BY <1>2, AnyRequest
  <2> QED
    BY <1>2, <2>1 DEF Library!Working
<1>3. CASE x3[r] = Library!Idle
  BY <1>3 DEF Library!Working, Library!Idle
<1> QED
  BY <1>1, <1>2, <1>3

LEMMA LibraryEmpty == Library!Empty \in Library!Lists
BY DEF Library!Empty, Library!Lists

LEMMA LibraryInit == Library!Init => LibraryInv
<1> SUFFICES ASSUME Library!Init PROVE LibraryInv
  OBVIOUS
<1>1. /\ x1 = Library!Empty /\ x2 = Library!Empty /\ x8 = FALSE
      /\ x3 = [r \in Editors |-> Library!Idle] /\ x4 = [p \in Pages |-> Library!Closed]
  BY DEF Library!Init
<1>2. \A r \in Editors : ~ Library!Working(r)
  BY <1>1 DEF Library!Working, Library!Idle
<1>3. \A p \in Pages : ~ Library!IsOpen(p)
  BY <1>1 DEF Library!IsOpen
<1> QED
  BY Zenon, <1>1, <1>2, <1>3, LibraryEmpty DEF LibraryInv, LibrarySaved

-------------------------------------------------------------------------------
(* Notices on open pages                                                   *)

\* What one change of a field leaves of the others.
LEMMA PageFields ==
    ASSUME NEW g \in OpenPages
    PROVE  /\ g.socket \in {"opening", "open"} /\ g.unread \in Seq({"library", "other"})
           /\ g.asked \in 0 .. MaxLoads /\ g.answers \in Seq(Shelves)
           /\ g.shown \in Library!Lists /\ g.missed \in BOOLEAN /\ g.late \in BOOLEAN
           /\ g # Library!Closed
BY DEF OpenPages, Library!Closed

LEMMA PageMissed ==
    ASSUME NEW g \in OpenPages, NEW b \in BOOLEAN
    PROVE  LET new == [g EXCEPT !.missed = b]
           IN  /\ new \in OpenPages /\ new.missed = b
               /\ new.socket = g.socket /\ new.unread = g.unread /\ new.asked = g.asked
               /\ new.answers = g.answers /\ new.shown = g.shown /\ new.late = g.late
BY Zenon DEF OpenPages

Noticed(g, u, b) == [g EXCEPT !.unread = u, !.missed = b]

LEMMA PageNoticed ==
    ASSUME NEW g \in OpenPages, NEW u \in Seq({"library", "other"}), NEW b \in BOOLEAN
    PROVE  /\ Noticed(g, u, b) \in OpenPages
           /\ Noticed(g, u, b).missed = b /\ Noticed(g, u, b).unread = u
           /\ Noticed(g, u, b).socket = g.socket /\ Noticed(g, u, b).asked = g.asked
           /\ Noticed(g, u, b).answers = g.answers
           /\ Noticed(g, u, b).shown = g.shown /\ Noticed(g, u, b).late = g.late
BY Zenon DEF OpenPages, Noticed

\* The newest notices are kept: the latest is one of them, and of the others
\* only the first may be gone.
LEMMA NewestKept ==
    ASSUME NEW u \in Seq({"library", "other"}), Len(u) <= PageRoom, NEW notice \in {"library", "other"}
    PROVE  /\ Library!Appended(u, notice) \in Seq({"library", "other"})
           /\ Len(Library!Appended(u, notice)) <= PageRoom
           /\ notice \in Elements(Library!Appended(u, notice))
           /\ "library" \in Elements(u) =>
                \/ "library" \in Elements(Library!Appended(u, notice))
                \/ Len(u) = PageRoom /\ Head(u) = "library"
<1> DEFINE all == Append(u, notice)
<1>1. /\ all \in Seq({"library", "other"}) /\ Len(all) = Len(u) + 1 /\ Len(u) \in Nat
      /\ Elements(all) = Elements(u) \cup {notice}
  BY AppendElements, LenProperties
<1>2. all[Len(u) + 1] = notice /\ (u # <<>> => all[1] = u[1] /\ Head(u) = u[1])
  BY <1>1
<1> HIDE DEF all
<1>3. CASE Len(all) > PageRoom
  <2>1. /\ Tail(all) \in Seq({"library", "other"}) /\ Len(Tail(all)) = Len(u)
        /\ Elements(all) = Elements(Tail(all)) \cup {Head(all)} /\ Head(all) = all[1]
    BY <1>1, <1>3, TailElements, LibraryConstants
  <2>2. Len(u) = PageRoom /\ u # <<>>
    BY <1>1, <1>3, LibraryConstants
  <2>3. notice \in Elements(Tail(all))
    <3>1. /\ Len(u) \in DOMAIN Tail(all) /\ Tail(all)[Len(u)] = all[Len(u) + 1]
      BY <1>1, <2>1, <2>2, LibraryConstants
    <3> QED
      BY Zenon, <1>2, <3>1 DEF Elements
  <2>4. Library!Appended(u, notice) = Tail(all)
    BY <1>3 DEF Library!Appended, all
  <2> QED
    BY <1>1, <1>2, <2>1, <2>2, <2>3, <2>4
<1>4. CASE ~ (Len(all) > PageRoom)
  <2>1. Library!Appended(u, notice) = all
    BY <1>4 DEF Library!Appended, all
  <2>2. Len(all) <= PageRoom
    BY <1>1, <1>4, LibraryConstants
  <2> QED
    BY <1>1, <2>1, <2>2
<1> QED
  BY <1>3, <1>4

\* A page that hears of something else goes on; one that is told of a change
\* has heard, or missed it.
LEMMA PageTold ==
    ASSUME LibraryInv, NEW p \in Pages, NEW notice \in {"library", "other"},
           x4' = Library!Told(notice), NEW quiet \in BOOLEAN, NEW l,
           notice = "other" => quiet = Library!Quiet /\ l = x1
    PROVE  /\ Library!IsOpen(p)' <=> Library!IsOpen(p)
           /\ Library!IsOpen(p) => LibraryPage(x4'[p], quiet, l)
<1> DEFINE g == x4[p]
<1>1. CASE ~ Library!IsOpen(p)
  <2>1. x4'[p] = x4[p]
    BY Zenon, <1>1 DEF Library!Told
  <2> QED
    BY <1>1, <2>1 DEF Library!IsOpen
<1>2. ASSUME Library!IsOpen(p)
      PROVE  x4'[p] # Library!Closed /\ LibraryPage(x4'[p], quiet, l)
  <2>1. g \in OpenPages /\ Len(g.unread) <= PageRoom /\ (Library!Quiet /\ Heard(g) => ShowsLast(g, x1))
    BY <1>2 DEF LibraryInv, LibraryPage
  <2>2. CASE g.socket = "opening"
    <3> DEFINE b == g.missed \/ notice = "library"
    <3>1. x4'[p] = [g EXCEPT !.missed = b] /\ b \in BOOLEAN
      BY Zenon, <1>2, <2>2 DEF Library!Told
    <3> DEFINE new == x4'[p]
    <3> HIDE DEF b
    <3>2. /\ new \in OpenPages /\ new.missed = b
          /\ new.socket = g.socket /\ new.unread = g.unread /\ new.asked = g.asked
          /\ new.answers = g.answers /\ new.shown = g.shown /\ new.late = g.late
      BY <2>1, <3>1, PageMissed
    <3>3. new # Library!Closed
      BY <3>2, PageFields
    <3>4. Heard(new) => notice = "other" /\ Heard(g)
      BY Zenon, <3>2 DEF Heard, b
    <3>5. ShowsLast(g, x1) => ShowsLast(new, x1)
      BY <3>2 DEF ShowsLast
    <3> QED
      BY <2>1, <3>2, <3>3, <3>4, <3>5 DEF LibraryPage
  <2>3. CASE g.socket # "opening"
    <3> DEFINE b == g.missed \/ (Library!Lagging(p) /\ Head(g.unread) = "library")
               u == Library!Appended(g.unread, notice)
    <3>1. x4'[p] = [g EXCEPT !.unread = u, !.missed = b] /\ b \in BOOLEAN
      BY Zenon, <1>2, <2>3 DEF Library!Told
    <3>2. /\ u \in Seq({"library", "other"}) /\ Len(u) <= PageRoom /\ notice \in Elements(u)
          /\ "library" \in Elements(g.unread) =>
               \/ "library" \in Elements(u)
               \/ Len(g.unread) = PageRoom /\ Head(g.unread) = "library"
      BY Zenon, <2>1, PageFields, NewestKept
    <3>a. Len(g.unread) = PageRoom => Library!Lagging(p)
      BY DEF Library!Lagging
    <3> DEFINE new == x4'[p]
    <3> HIDE DEF b, u
    <3>3. /\ new \in OpenPages /\ new.missed = b /\ new.unread = u
          /\ new.socket = g.socket /\ new.asked = g.asked
          /\ new.answers = g.answers /\ new.shown = g.shown /\ new.late = g.late
      <4>1. PICK u2 \in Seq({"library", "other"}), b2 \in BOOLEAN : u2 = u /\ b2 = b
        BY <3>1, <3>2
      <4>2. x4'[p] = Noticed(g, u2, b2)
        BY <3>1, <4>1 DEF Noticed
      <4> QED
        BY <2>1, <4>1, <4>2, PageNoticed
    <3>4. new # Library!Closed
      BY <3>3, PageFields
    <3>5. Heard(new) => notice = "other" /\ Heard(g)
      <4>1. ~ b => ~ g.missed /\ ~ (Len(g.unread) = PageRoom /\ Head(g.unread) = "library")
        BY <3>a, Zenon DEF b
      <4>2. Heard(new) <=> g.asked = 0 /\ ~ b /\ "library" \notin Elements(u)
        BY <3>3, Zenon DEF Heard
      <4>3. notice = "library" \/ notice = "other"
        OBVIOUS
      <4> QED
        BY <3>2, <4>1, <4>2, <4>3, Zenon DEF Heard
    <3>6. ShowsLast(g, x1) => ShowsLast(new, x1)
      BY <3>3 DEF ShowsLast
    <3> QED
      BY <2>1, <3>2, <3>3, <3>4, <3>5, <3>6 DEF LibraryPage
  <2> QED
    BY <2>2, <2>3
<1> QED
  BY <1>1, <1>2 DEF Library!IsOpen

LEMMA PageUntold ==
    ASSUME LibraryInv, NEW p \in Pages, x4' = Library!Untold, NEW quiet \in BOOLEAN, NEW l
    PROVE  /\ Library!IsOpen(p)' <=> Library!IsOpen(p)
           /\ Library!IsOpen(p) => LibraryPage(x4'[p], quiet, l)
<1> DEFINE g == x4[p]
<1>1. CASE ~ Library!IsOpen(p)
  <2>1. x4'[p] = x4[p]
    BY <1>1 DEF Library!Untold
  <2> QED
    BY <1>1, <2>1 DEF Library!IsOpen
<1>2. ASSUME Library!IsOpen(p)
      PROVE  x4'[p] # Library!Closed /\ LibraryPage(x4'[p], quiet, l)
  <2>1. g \in OpenPages /\ Len(g.unread) <= PageRoom
    BY <1>2 DEF LibraryInv, LibraryPage
  <2>2. \E b \in BOOLEAN : b = TRUE /\ x4'[p] = [g EXCEPT !.missed = b]
    BY <1>2, Zenon DEF Library!Untold
  <2>3. PICK b \in BOOLEAN : b = TRUE /\ x4'[p] = [g EXCEPT !.missed = b]
    BY Zenon, <2>2
  <2>4. x4'[p] \in OpenPages /\ x4'[p].missed = b /\ x4'[p].unread = g.unread
    BY Zenon, <2>1, <2>3, PageMissed
  <2>5. x4'[p] # Library!Closed
    BY <2>4, PageFields
  <2> QED
    BY Zenon, <2>1, <2>3, <2>4, <2>5 DEF LibraryPage, Heard
<1> QED
  BY <1>1, <1>2 DEF Library!IsOpen

-------------------------------------------------------------------------------
(* The steps of the library                                                *)

\* A step that no page hears of, of requests that are at work as before.
LEMMA PagesStay ==
    ASSUME LibraryInv, x4' = x4, x1' = x1 \/ ~ Library!Quiet', Library!Quiet' => Library!Quiet
    PROVE  /\ DOMAIN x4' = Pages
           /\ \A p \in Pages : Library!IsOpen(p)' => LibraryPage(x4'[p], Library!Quiet', x1')
BY DEF LibraryInv, LibraryPage, Library!IsOpen

LEMMA LibraryOther ==
    ASSUME LibraryInv, Library!Other
    PROVE  LibraryInv'
<1>1. x4' = Library!Told("other") /\ x1' = x1 /\ x2' = x2 /\ x3' = x3 /\ x8' = x8
  BY DEF Library!Other
<1>2. Library!Quiet' = Library!Quiet /\ LibrarySaved'
  BY <1>1 DEF LibraryInv, LibrarySaved, Library!Quiet, Library!Working
<1>3. ASSUME NEW p \in Pages, Library!IsOpen(p)'
      PROVE  LibraryPage(x4[p], Library!Quiet, x1)'
  <2>1. Library!Quiet \in BOOLEAN
    BY DEF Library!Quiet
  <2>2. Library!IsOpen(p) => LibraryPage(x4'[p], Library!Quiet, x1)
    BY <1>1, <2>1, PageTold
  <2>3. Library!IsOpen(p)
    BY <1>1, <1>3, <2>1, PageTold
  <2>4. LibraryPage(x4'[p], Library!Quiet', x1')
    BY <1>1, <1>2, <2>2, <2>3
  <2> QED
    BY <2>4, Zenon DEF LibraryPage, Heard, ShowsLast
<1>4. DOMAIN x4' = Pages
  BY Zenon, <1>1 DEF Library!Told
<1> QED
  BY <1>1, <1>2, <1>3, <1>4 DEF LibraryInv

LEMMA LibraryChanged ==
    ASSUME LibraryInv, NEW r \in Editors, NEW new \in Library!Lists, Library!Changed(r, new)
    PROVE  LibraryInv'
<1> DEFINE s == [at |-> "save", copy |-> new, client |-> TRUE]
<1>1. /\ x3[r] = Library!Idle /\ x1' = new /\ x3' = [x3 EXCEPT ![r] = s]
      /\ x8' = (~ Library!Quiet) /\ x2' = x2 /\ x4' = x4
  BY DEF Library!Changed
<1>2. s \in Savings /\ s.copy = new
  BY DEF Savings
<1> HIDE DEF s
<1>3. /\ x3' \in [Editors -> Savings \cup {Library!Idle}] /\ x3'[r] = s
      /\ \A q \in Editors \ {r} : x3'[q] = x3[q]
  BY <1>1, <1>2 DEF LibraryInv
<1>4. Library!Working(r)' /\ \A q \in Editors \ {r} : Library!Working(q)' <=> Library!Working(q)
  BY <1>2, <1>3, AnyRequest DEF Library!Working
<1>5. ~ Library!Quiet'
  BY <1>4 DEF Library!Quiet
<1>6. LibrarySaved'
  BY Zenon, <1>1, <1>2, <1>3, <1>4, <1>5 DEF LibrarySaved, Library!Quiet
<1>7. x8' \in BOOLEAN
  BY <1>1
<1>8. \A p \in Pages : Library!IsOpen(p)' => LibraryPage(x4'[p], Library!Quiet', x1')
  BY <1>1, <1>5, PagesStay
<1>9. ASSUME NEW p \in Pages, Library!IsOpen(p)' PROVE LibraryPage(x4[p], Library!Quiet, x1)'
  <2>1. LibraryPage(x4'[p], Library!Quiet', x1')
    BY <1>8, <1>9
  <2> QED
    BY <2>1, Zenon DEF LibraryPage, Heard, ShowsLast
<1> QED
  BY <1>1, <1>3, <1>6, <1>7, <1>9 DEF LibraryInv

\* A request that goes on as another.
LEMMA RequestField ==
    ASSUME NEW g \in Savings, NEW b \in BOOLEAN
    PROVE  /\ [g EXCEPT !.at = "write"] \in Savings /\ [g EXCEPT !.at = "write"].copy = g.copy
           /\ [g EXCEPT !.client = b] \in Savings /\ [g EXCEPT !.client = b].copy = g.copy
BY DEF Savings

LEMMA LibraryGoesOn ==
    ASSUME LibraryInv, NEW r \in Editors, Library!Working(r), NEW s \in Savings, s.copy = x3[r].copy,
           x3' = [x3 EXCEPT ![r] = s], x2' \in Library!Lists \cup {Library!Torn},
           x1' = x1, x4' = x4, x8' = x8
    PROVE  LibraryInv'
<1>1. /\ x3' \in [Editors -> Savings \cup {Library!Idle}] /\ x3'[r] = s
      /\ \A q \in Editors \ {r} : x3'[q] = x3[q]
  BY DEF LibraryInv
<1>2. \A q \in Editors : Library!Working(q)' <=> Library!Working(q)
  BY <1>1, AnyRequest DEF Library!Working
<1>3. ~ Library!Quiet' /\ ~ Library!Quiet
  BY <1>2 DEF Library!Quiet
<1>4. LibrarySaved'
  <2> SUFFICES ASSUME ~ x8', NEW q \in Editors, Library!Working(q)'
               PROVE  /\ x3'[q].copy = x1'
                      /\ \A o \in Editors : Library!Working(o)' => o = q
    BY <1>3, Zenon DEF LibrarySaved
  <2> QED
    BY <1>1, <1>2 DEF LibraryInv, LibrarySaved
<1>5. \A p \in Pages : Library!IsOpen(p)' => LibraryPage(x4'[p], Library!Quiet', x1')
  BY <1>3, PagesStay
<1>6. ASSUME NEW p \in Pages, Library!IsOpen(p)' PROVE LibraryPage(x4[p], Library!Quiet, x1)'
  <2>1. LibraryPage(x4'[p], Library!Quiet', x1')
    BY <1>5, <1>6
  <2> QED
    BY <2>1, Zenon DEF LibraryPage, Heard, ShowsLast
<1> QED
  BY <1>1, <1>4, <1>6 DEF LibraryInv

\* The end of a request: the pages are told, or miss it.
LEMMA LibraryEnds ==
    ASSUME LibraryInv, NEW r \in Editors, Library!Working(r),
           x3' = [x3 EXCEPT ![r] = Library!Idle], x1' = x1,
           x2' \in Library!Lists \cup {Library!Torn}, x8' \in BOOLEAN,
           x4' \in {Library!Told("library"), Library!Untold},
           x8' \/ (~ x8 /\ x2' = x3[r].copy) \/ (x8 /\ x8')
    PROVE  LibraryInv'
<1>1. /\ x3' \in [Editors -> Savings \cup {Library!Idle}] /\ x3'[r] = Library!Idle
      /\ \A q \in Editors \ {r} : x3'[q] = x3[q]
  BY DEF LibraryInv
<1>2. ~ Library!Working(r)' /\ \A q \in Editors \ {r} : Library!Working(q)' <=> Library!Working(q)
  BY <1>1 DEF Library!Working, Library!Idle
<1>3. LibrarySaved'
  <2>1. CASE x8'
    BY <2>1 DEF LibrarySaved
  <2>2. ASSUME ~ x8', ~ x8, x2' = x3[r].copy PROVE LibrarySaved'
    <3>1. x3[r].copy = x1 /\ \A q \in Editors : Library!Working(q) => q = r
      BY <2>2 DEF LibraryInv, LibrarySaved
    <3>2. \A q \in Editors : ~ Library!Working(q)'
      BY <1>2, <3>1
    <3> QED
      BY <2>2, <3>1, <3>2 DEF LibrarySaved
  <2> QED
    BY <2>1, <2>2
<1>4. ASSUME NEW p \in Pages, Library!IsOpen(p)' PROVE LibraryPage(x4[p], Library!Quiet, x1)'
  <2>1. Library!Quiet' \in BOOLEAN
    BY DEF Library!Quiet
  <2>2. LibraryPage(x4'[p], Library!Quiet', x1')
    <3> DEFINE quiet == Library!Quiet'
               l == x1'
    <3>1. quiet \in BOOLEAN
      BY <2>1
    <3> HIDE DEF quiet, l
    <3>2. LibraryPage(x4'[p], quiet, l)
      BY <1>4, <3>1, PageTold, PageUntold
    <3> QED
      BY <3>2 DEF quiet, l
  <2> QED
    BY <2>2, Zenon DEF LibraryPage, Heard, ShowsLast
<1>5. DOMAIN x4' = Pages
  BY Zenon DEF Library!Told, Library!Untold
<1> QED
  BY <1>1, <1>3, <1>4, <1>5 DEF LibraryInv

LEMMA LibraryRequests ==
    ASSUME LibraryInv, NEW r \in Editors,
           \/ \E i \in Ids : Library!Delete(r, i) \/ \E spec \in Specs : Library!Post(r, i, spec)
           \/ Library!Truncate(r) \/ Library!Write(r) \/ Library!SaveFails(r)
           \/ Library!ClientLeaves(r)
    PROVE  LibraryInv'
<1>1. ASSUME NEW i \in Ids, NEW spec \in Specs \cup {None},
             Library!Changed(r, [x1 EXCEPT ![i] = spec])
      PROVE  LibraryInv'
  <2>1. [x1 EXCEPT ![i] = spec] \in Library!Lists
    BY DEF LibraryInv, Library!Lists
  <2> QED
    BY <1>1, <2>1, LibraryChanged
<1>2. ASSUME NEW i \in Ids, Library!Delete(r, i) \/ \E spec \in Specs : Library!Post(r, i, spec)
      PROVE  LibraryInv'
  BY Zenon, <1>1, <1>2 DEF Library!Delete, Library!Post
<1>3. Library!Working(r) => x3[r] \in Savings
  BY RequestIs
<1>4. Library!Torn \in Library!Lists \cup {Library!Torn}
  OBVIOUS
<1>5. CASE Library!Truncate(r)
  <2>1. Library!Working(r)
    BY <1>5 DEF Library!Truncate, Library!Working
  <2> DEFINE s == [x3[r] EXCEPT !.at = "write"]
  <2>2. s \in Savings /\ s.copy = x3[r].copy
    BY Zenon, <1>3, <2>1, RequestField
  <2>3. x3' = [x3 EXCEPT ![r] = s]
    BY <1>5 DEF Library!Truncate
  <2> HIDE DEF s
  <2> QED
    BY Zenon, <1>4, <1>5, <2>1, <2>2, <2>3, LibraryGoesOn DEF Library!Truncate
<1>6. CASE Library!Write(r)
  <2>1. Library!Working(r) /\ x3[r].copy \in Library!Lists
    <3>1. Library!Working(r)
      BY <1>6 DEF Library!Write, Library!Working
    <3> QED
      BY <1>3, <3>1 DEF Savings
  <2>2. x2' \in Library!Lists \cup {Library!Torn}
    BY <1>6, <2>1 DEF Library!Write
  <2>3. ~ x8 => x2' = x3[r].copy
    <3> SUFFICES ASSUME ~ x8 PROVE ~ \E q \in Editors \ {r} : x3[q].at = "write"
      BY <1>6 DEF Library!Write
    <3>1. \A q \in Editors : Library!Working(q) => q = r
      BY <2>1 DEF LibraryInv, LibrarySaved
    <3> QED
      BY <3>1 DEF Library!Working
  <2>4. /\ x3' = [x3 EXCEPT ![r] = Library!Idle] /\ x1' = x1 /\ x8' = x8 /\ x8 \in BOOLEAN
        /\ x4' \in {Library!Told("library"), Library!Untold}
    BY <1>6 DEF Library!Write, LibraryInv
  <2> QED
    BY Zenon, <2>1, <2>2, <2>3, <2>4, LibraryEnds
<1>7. ASSUME Library!Working(r), x3' = [x3 EXCEPT ![r] = Library!Idle], x4' = Library!Untold,
             x8' = TRUE, x1' = x1, x2' = x2
      PROVE  LibraryInv'
  <2>1. x8' \in BOOLEAN /\ x8' /\ x2' \in Library!Lists \cup {Library!Torn}
    BY <1>7 DEF LibraryInv
  <2> QED
    BY Zenon, <1>7, <2>1, LibraryEnds
<1>8. CASE Library!SaveFails(r)
  BY <1>7, <1>8 DEF Library!SaveFails
<1>9. CASE Library!ClientLeaves(r)
  <2>1. CASE x3[r].at # "write"
    BY <1>7, <1>9, <2>1 DEF Library!ClientLeaves
  <2>2. CASE x3[r].at = "write"
    <3>1. Library!Working(r) /\ x1' = x1 /\ x2' = x2 /\ x4' = x4 /\ x8' = x8
          /\ x2' \in Library!Lists \cup {Library!Torn}
      BY <1>9, <2>2 DEF Library!ClientLeaves, LibraryInv
    <3>2. \E b \in BOOLEAN : x3' = [x3 EXCEPT ![r] = [x3[r] EXCEPT !.client = b]]
      <4>1. x3' = [x3 EXCEPT ![r].client = FALSE]
        BY <1>9, <2>2 DEF Library!ClientLeaves
      <4> QED
        BY <4>1, Zenon
    <3>3. PICK b \in BOOLEAN : x3' = [x3 EXCEPT ![r] = [x3[r] EXCEPT !.client = b]]
      BY Zenon, <3>2
    <3> DEFINE s == [x3[r] EXCEPT !.client = b]
    <3>4. s \in Savings /\ s.copy = x3[r].copy
      BY Zenon, <1>3, <3>1, RequestField
    <3>5. x3' = [x3 EXCEPT ![r] = s]
      BY <3>3
    <3> HIDE DEF s
    <3> QED
      BY Zenon, <3>1, <3>4, <3>5, LibraryGoesOn
  <2> QED
    BY <2>1, <2>2
<1> QED
  BY <1>2, <1>5, <1>6, <1>8, <1>9

LEMMA LibraryRestart ==
    ASSUME LibraryInv, Library!Restart
    PROVE  LibraryInv'
<1>1. /\ x1' = (IF x2 = Library!Torn THEN Library!Empty ELSE x2) /\ x2' = x2
      /\ x3' = [r \in Editors |-> Library!Idle] /\ x4' = [p \in Pages |-> Library!Closed]
      /\ x8' = (x2 = Library!Torn)
  BY DEF Library!Restart
<1>2. \A r \in Editors : ~ Library!Working(r)'
  BY <1>1 DEF Library!Working, Library!Idle
<1>3. \A p \in Pages : ~ Library!IsOpen(p)'
  BY <1>1 DEF Library!IsOpen
<1> QED
  BY Zenon, <1>1, <1>2, <1>3, LibraryEmpty DEF LibraryInv, LibrarySaved

LEMMA LibraryPageStep ==
    ASSUME LibraryInv, NEW p \in Pages, NEW new, x4' = [x4 EXCEPT ![p] = new],
           x1' = x1, x2' = x2, x3' = x3, x8' = x8,
           new = Library!Closed \/ LibraryPage(new, Library!Quiet, x1)
    PROVE  LibraryInv'
<1>1. DOMAIN x4' = Pages /\ x4'[p] = new /\ \A q \in Pages \ {p} : x4'[q] = x4[q]
  BY DEF LibraryInv
<1>2. Library!Quiet' = Library!Quiet /\ LibrarySaved'
  BY DEF LibraryInv, LibrarySaved, Library!Quiet, Library!Working
<1>3. ASSUME NEW q \in Pages, Library!IsOpen(q)' PROVE LibraryPage(x4[q], Library!Quiet, x1)'
  <2>1. LibraryPage(x4'[q], Library!Quiet', x1')
    <3>1. CASE q = p
      BY <1>1, <1>2, <1>3, <3>1 DEF Library!IsOpen
    <3>2. CASE q # p
      BY <1>1, <1>2, <1>3, <3>2 DEF Library!IsOpen, LibraryInv
    <3> QED
      BY <3>1, <3>2
  <2> QED
    BY <2>1, Zenon DEF LibraryPage, Heard, ShowsLast
<1> QED
  BY <1>1, <1>2, <1>3 DEF LibraryInv

\* Any page, by its fields.
PageOf(s, u, a, w, l, m, late) ==
    [socket |-> s, unread |-> u, asked |-> a, answers |-> w, shown |-> l, missed |-> m, late |-> late]

LEMMA PageOfType ==
    ASSUME NEW s \in {"opening", "open"}, NEW u \in Seq({"library", "other"}),
           NEW a \in 0 .. MaxLoads, NEW w \in Seq(Shelves), NEW l \in Library!Lists,
           NEW m \in BOOLEAN, NEW late \in BOOLEAN
    PROVE  PageOf(s, u, a, w, l, m, late) \in OpenPages
BY DEF OpenPages, PageOf

LEMMA PageOfFields ==
    ASSUME NEW s, NEW u, NEW a, NEW w, NEW l, NEW m, NEW late
    PROVE  LET g == PageOf(s, u, a, w, l, m, late)
           IN  /\ g.socket = s /\ g.unread = u /\ g.asked = a /\ g.answers = w /\ g.shown = l
               /\ g.missed = m /\ g.late = late
BY DEF PageOf

\* The steps of a page, as changes of its fields.
PageOpened(g, s) == [g EXCEPT !.socket = s]
PageRead(g, u, a) == [g EXCEPT !.unread = u, !.asked = a]
PageLoaded(g, a, m, w) == [g EXCEPT !.asked = a, !.missed = m, !.answers = w]
PageShowing(g, l, late, w) == [g EXCEPT !.shown = l, !.late = late, !.answers = w]
PageFailed(g, a, l, m) == [g EXCEPT !.asked = a, !.shown = l, !.missed = m]

LEMMA SamePage ==
    ASSUME NEW x, DOMAIN x = {"socket", "unread", "asked", "answers", "shown", "missed", "late"},
           x = [i \in DOMAIN x |-> x[i]]
    PROVE  x = PageOf(x.socket, x.unread, x.asked, x.answers, x.shown, x.missed, x.late)
BY DEF PageOf

LEMMA PageExcepts ==
    ASSUME NEW g \in OpenPages, NEW s, NEW u, NEW a, NEW w, NEW l, NEW m, NEW late
    PROVE  /\ PageOpened(g, s) = PageOf(s, g.unread, g.asked, g.answers, g.shown, g.missed, g.late)
           /\ PageRead(g, u, a) = PageOf(g.socket, u, a, g.answers, g.shown, g.missed, g.late)
           /\ PageLoaded(g, a, m, w) = PageOf(g.socket, g.unread, a, w, g.shown, m, g.late)
           /\ PageShowing(g, l, late, w) = PageOf(g.socket, g.unread, g.asked, w, l, g.missed, late)
           /\ PageFailed(g, a, l, m) = PageOf(g.socket, g.unread, a, g.answers, l, m, g.late)
<1>1. PageOpened(g, s) = PageOf(s, g.unread, g.asked, g.answers, g.shown, g.missed, g.late)
  <2> DEFINE new == PageOpened(g, s)
  <2>1. /\ DOMAIN new = {"socket", "unread", "asked", "answers", "shown", "missed", "late"}
        /\ new = [i \in DOMAIN new |-> new[i]]
    BY DEF OpenPages, PageOpened
  <2>2. /\ new.socket = s
        /\ new.unread = g.unread
        /\ new.asked = g.asked
        /\ new.answers = g.answers
        /\ new.shown = g.shown
        /\ new.missed = g.missed
        /\ new.late = g.late
    BY DEF OpenPages, PageOpened
  <2> HIDE DEF new
  <2>3. new = PageOf(new.socket, new.unread, new.asked, new.answers, new.shown, new.missed, new.late)
    BY <2>1, SamePage
  <2> QED
    BY <2>2, <2>3 DEF new
<1>2. PageRead(g, u, a) = PageOf(g.socket, u, a, g.answers, g.shown, g.missed, g.late)
  <2> DEFINE new == PageRead(g, u, a)
  <2>1. /\ DOMAIN new = {"socket", "unread", "asked", "answers", "shown", "missed", "late"}
        /\ new = [i \in DOMAIN new |-> new[i]]
    BY Zenon DEF OpenPages, PageRead
  <2>2. /\ new.socket = g.socket
        /\ new.unread = u
        /\ new.asked = a
        /\ new.answers = g.answers
        /\ new.shown = g.shown
        /\ new.missed = g.missed
        /\ new.late = g.late
    BY DEF OpenPages, PageRead
  <2> HIDE DEF new
  <2>3. new = PageOf(new.socket, new.unread, new.asked, new.answers, new.shown, new.missed, new.late)
    BY <2>1, SamePage
  <2> QED
    BY <2>2, <2>3 DEF new
<1>3. PageLoaded(g, a, m, w) = PageOf(g.socket, g.unread, a, w, g.shown, m, g.late)
  <2> DEFINE new == PageLoaded(g, a, m, w)
  <2>1. /\ DOMAIN new = {"socket", "unread", "asked", "answers", "shown", "missed", "late"}
        /\ new = [i \in DOMAIN new |-> new[i]]
    BY Zenon DEF OpenPages, PageLoaded
  <2>2. /\ new.socket = g.socket
        /\ new.unread = g.unread
        /\ new.asked = a
        /\ new.answers = w
        /\ new.shown = g.shown
        /\ new.missed = m
        /\ new.late = g.late
    BY DEF OpenPages, PageLoaded
  <2> HIDE DEF new
  <2>3. new = PageOf(new.socket, new.unread, new.asked, new.answers, new.shown, new.missed, new.late)
    BY <2>1, SamePage
  <2> QED
    BY <2>2, <2>3 DEF new
<1>4. PageShowing(g, l, late, w) = PageOf(g.socket, g.unread, g.asked, w, l, g.missed, late)
  <2> DEFINE new == PageShowing(g, l, late, w)
  <2>1. /\ DOMAIN new = {"socket", "unread", "asked", "answers", "shown", "missed", "late"}
        /\ new = [i \in DOMAIN new |-> new[i]]
    BY Zenon DEF OpenPages, PageShowing
  <2>2. /\ new.socket = g.socket
        /\ new.unread = g.unread
        /\ new.asked = g.asked
        /\ new.answers = w
        /\ new.shown = l
        /\ new.missed = g.missed
        /\ new.late = late
    BY DEF OpenPages, PageShowing
  <2> HIDE DEF new
  <2>3. new = PageOf(new.socket, new.unread, new.asked, new.answers, new.shown, new.missed, new.late)
    BY <2>1, SamePage
  <2> QED
    BY <2>2, <2>3 DEF new
<1>5. PageFailed(g, a, l, m) = PageOf(g.socket, g.unread, a, g.answers, l, m, g.late)
  <2> DEFINE new == PageFailed(g, a, l, m)
  <2>1. /\ DOMAIN new = {"socket", "unread", "asked", "answers", "shown", "missed", "late"}
        /\ new = [i \in DOMAIN new |-> new[i]]
    BY Zenon DEF OpenPages, PageFailed
  <2>2. /\ new.socket = g.socket
        /\ new.unread = g.unread
        /\ new.asked = a
        /\ new.answers = g.answers
        /\ new.shown = l
        /\ new.missed = m
        /\ new.late = g.late
    BY DEF OpenPages, PageFailed
  <2> HIDE DEF new
  <2>3. new = PageOf(new.socket, new.unread, new.asked, new.answers, new.shown, new.missed, new.late)
    BY <2>1, SamePage
  <2> QED
    BY <2>2, <2>3 DEF new
<1> QED
  BY <1>1, <1>2, <1>3, <1>4, <1>5

LEMMA LibraryOpens ==
    ASSUME LibraryInv, NEW p \in Pages, Library!Open(p) \/ Library!Close(p)
    PROVE  LibraryInv'
<1>1. CASE Library!Close(p)
  BY Zenon, <1>1, LibraryPageStep DEF Library!Close
<1>2. CASE Library!Open(p)
  <2>1. x4' = [x4 EXCEPT ![p] = PageOf("opening", <<>>, 1, <<>>, Library!Empty, FALSE, FALSE)]
    BY <1>2 DEF Library!Open, PageOf
  <2>2. PICK b \in BOOLEAN : b = FALSE
    BY Zenon
  <2> DEFINE new == PageOf("opening", <<>>, 1, <<>>, Library!Empty, b, b)
  <2>3. x4' = [x4 EXCEPT ![p] = new]
    BY Zenon, <2>1, <2>2
  <2>4. new \in OpenPages /\ new.asked = 1 /\ new.unread = <<>>
    <3>1. <<>> \in Seq({"library", "other"}) /\ <<>> \in Seq(Shelves) /\ 1 \in 0 .. MaxLoads
      BY LibraryConstants
    <3>2. new \in OpenPages
      BY Zenon, <3>1, LibraryEmpty, PageOfType
    <3>3. new.asked = 1 /\ new.unread = <<>>
      BY PageOfFields
    <3> QED
      BY <3>2, <3>3
  <2>5. LibraryPage(new, Library!Quiet, x1)
    BY <2>4, LibraryConstants DEF LibraryPage, Heard
  <2> HIDE DEF new
  <2> QED
    BY Zenon, <1>2, <2>3, <2>5, LibraryPageStep DEF Library!Open
<1> QED
  BY <1>1, <1>2

LEMMA LibraryHears ==
    ASSUME LibraryInv, NEW p \in Pages, Library!IsOpen(p), Library!Subscribe(p) \/ Library!Hear(p)
    PROVE  LibraryInv'
<1>1. PICK g \in OpenPages : g = x4[p]
  BY DEF LibraryInv, LibraryPage
<1>2. Len(g.unread) <= PageRoom /\ (Library!Quiet /\ Heard(g) => ShowsLast(g, x1))
  BY <1>1 DEF LibraryInv, LibraryPage
<1>3. ASSUME NEW s \in {"opening", "open"}, NEW u \in Seq({"library", "other"}), NEW a \in 0 .. MaxLoads,
             Len(u) <= PageRoom, a = 0 /\ "library" \notin Elements(u) => g.asked = 0 /\ "library" \notin Elements(g.unread)
      PROVE  LibraryPage(PageOf(s, u, a, g.answers, g.shown, g.missed, g.late), Library!Quiet, x1)
  <2> DEFINE new == PageOf(s, u, a, g.answers, g.shown, g.missed, g.late)
  <2>1. /\ new \in OpenPages
        /\ new.unread = u /\ new.asked = a /\ new.answers = g.answers /\ new.shown = g.shown
        /\ new.missed = g.missed /\ new.late = g.late
    <3>1. new \in OpenPages
      BY PageFields, PageOfType
    <3> QED
      BY <3>1, PageOfFields
  <2> HIDE DEF new
  <2>2. Heard(new) => Heard(g)
    BY <1>3, <2>1 DEF Heard
  <2>3. ShowsLast(g, x1) => ShowsLast(new, x1)
    BY <2>1 DEF ShowsLast
  <2>4. LibraryPage(new, Library!Quiet, x1)
    BY <1>2, <1>3, <2>1, <2>2, <2>3 DEF LibraryPage
  <2> QED
    BY <2>4 DEF new
<1>4. CASE Library!Subscribe(p)
  <2> DEFINE new == PageOf("open", g.unread, g.asked, g.answers, g.shown, g.missed, g.late)
  <2>1. x4' = [x4 EXCEPT ![p] = new]
    <3>1. x4' = [x4 EXCEPT ![p] = PageOpened(g, "open")]
      BY <1>1, <1>4 DEF Library!Subscribe, Library!Step, PageOpened
    <3>3. PageOpened(g, "open") = new
      BY PageExcepts
    <3> QED
      BY Zenon, <3>1, <3>3
  <2>2. LibraryPage(new, Library!Quiet, x1)
    BY <1>2, <1>3, PageFields
  <2> HIDE DEF new
  <2> QED
    BY Zenon, <1>4, <2>1, <2>2, LibraryPageStep DEF Library!Subscribe, Library!Step
<1>5. CASE Library!Hear(p)
  <2> DEFINE u == Tail(g.unread)
             a == IF Head(g.unread) = "library" THEN g.asked + 1 ELSE g.asked
             new == PageOf(g.socket, u, a, g.answers, g.shown, g.missed, g.late)
  <2>1. /\ g.unread # <<>> /\ g.unread \in Seq({"library", "other"}) /\ g.asked \in 0 .. MaxLoads
        /\ Head(g.unread) = "library" => g.asked < MaxLoads
    BY <1>1, <1>5, PageFields DEF Library!Hear
  <2>2. /\ u \in Seq({"library", "other"}) /\ Len(u) = Len(g.unread) - 1
        /\ Elements(g.unread) = Elements(u) \cup {Head(g.unread)}
    BY <2>1, TailElements
  <2>3. Len(u) <= PageRoom
    <3>1. Len(g.unread) \in Nat
      BY <2>1, LenProperties
    <3> QED
      BY <1>2, <2>2, <3>1, LibraryConstants
  <2>4. a \in 0 .. MaxLoads /\ (a = 0 => g.asked = 0 /\ Head(g.unread) # "library")
    BY <2>1, LibraryConstants
  <2>5. x4' = [x4 EXCEPT ![p] = new]
    <3>1. x4' = [x4 EXCEPT ![p] = PageRead(g, u, a)]
      BY <1>1, <1>5 DEF Library!Hear, Library!Step, PageRead
    <3> HIDE DEF u, a
    <3>2. PageRead(g, u, a) = new
      BY PageExcepts
    <3> QED
      BY <3>1, <3>2
  <2> HIDE DEF u, a
  <2>6. LibraryPage(new, Library!Quiet, x1)
    BY Zenon, <1>3, <2>1, <2>2, <2>3, <2>4, PageFields
  <2> HIDE DEF new
  <2> QED
    BY Zenon, <1>5, <2>5, <2>6, LibraryPageStep DEF Library!Hear, Library!Step
<1> QED
  BY <1>4, <1>5

LEMMA ShelfType == ASSUME NEW l \in Library!Lists, NEW b \in BOOLEAN
    PROVE  [list |-> l, late |-> b] \in Shelves
           /\ [list |-> l, late |-> b].list = l /\ [list |-> l, late |-> b].late = b
BY DEF Shelves

LEMMA LibraryLoads ==
    ASSUME LibraryInv, NEW p \in Pages, Library!IsOpen(p), Library!List(p) \/ Library!LoadFails(p)
    PROVE  LibraryInv'
<1>1. PICK g \in OpenPages : g = x4[p]
  BY DEF LibraryInv, LibraryPage
<1>2. /\ Len(g.unread) <= PageRoom /\ g.asked \in 0 .. MaxLoads /\ g.asked > 0
      /\ g.asked - 1 \in 0 .. MaxLoads
  BY <1>1, PageFields, LibraryConstants DEF LibraryInv, LibraryPage, Library!List, Library!LoadFails
<1>3. x1 \in Library!Lists
  BY DEF LibraryInv
<1>4. PICK no \in BOOLEAN, yes \in BOOLEAN : no = FALSE /\ yes = TRUE
  BY Zenon
<1>5. CASE Library!List(p)
  <2> DEFINE e == [list |-> x1, late |-> no]
             w == Append(g.answers, e)
             new == PageOf(g.socket, g.unread, g.asked - 1, w, g.shown, no, g.late)
  <2>1. e \in Shelves /\ e.list = x1
    BY <1>3, ShelfType
  <2>2. g.answers \in Seq(Shelves)
    BY PageFields
  <2>3. x4' = [x4 EXCEPT ![p] = new]
    <3>1. x4' = [x4 EXCEPT ![p] = [g EXCEPT !.asked = g.asked - 1, !.missed = FALSE,
                                   !.answers = Append(g.answers, [list |-> x1, late |-> FALSE])]]
      BY <1>1, <1>5, Zenon DEF Library!List, Library!Step
    <3>2. x4' = [x4 EXCEPT ![p] = PageLoaded(g, g.asked - 1, no, w)]
      BY <1>4, <3>1, Zenon DEF PageLoaded
    <3> HIDE DEF w
    <3>3. PageLoaded(g, g.asked - 1, no, w) = new
      BY PageExcepts
    <3> QED
      BY Zenon, <3>2, <3>3
  <2> HIDE DEF e
  <2>4. w \in Seq(Shelves) /\ w # <<>> /\ w[Len(w)] = e
    BY <2>1, <2>2
  <2> HIDE DEF w
  <2>5. new \in OpenPages /\ new.unread = g.unread /\ new.answers = w
    <3>1. new \in OpenPages
      BY Zenon, <1>2, <2>4, PageFields, PageOfType
    <3> QED
      BY <3>1, PageOfFields
  <2> HIDE DEF new
  <2>6. LibraryPage(new, Library!Quiet, x1)
    BY <1>2, <2>1, <2>4, <2>5 DEF LibraryPage, ShowsLast
  <2> QED
    BY Zenon, <1>5, <2>3, <2>6, LibraryPageStep DEF Library!List, Library!Step
<1>6. CASE Library!LoadFails(p)
  <2> DEFINE new == PageOf(g.socket, g.unread, g.asked - 1, g.answers, Library!Empty, yes, g.late)
  <2>1. x4' = [x4 EXCEPT ![p] = new]
    <3>1. x4' = [x4 EXCEPT ![p] = [g EXCEPT !.asked = g.asked - 1, !.shown = Library!Empty, !.missed = TRUE]]
      BY <1>1, <1>6, Zenon DEF Library!LoadFails, Library!Step
    <3>2. x4' = [x4 EXCEPT ![p] = PageFailed(g, g.asked - 1, Library!Empty, yes)]
      BY <1>4, <3>1, Zenon DEF PageFailed
    <3>3. PageFailed(g, g.asked - 1, Library!Empty, yes) = new
      BY PageExcepts
    <3> QED
      BY Zenon, <3>2, <3>3
  <2>2. new \in OpenPages /\ new.unread = g.unread /\ new.missed = yes
    <3>1. new \in OpenPages
      BY Zenon, <1>2, LibraryEmpty, PageFields, PageOfType
    <3> QED
      BY <3>1, PageOfFields
  <2> HIDE DEF new
  <2>3. LibraryPage(new, Library!Quiet, x1)
    BY <1>2, <1>4, <2>2 DEF LibraryPage, Heard
  <2> QED
    BY Zenon, <1>6, <2>1, <2>3, LibraryPageStep DEF Library!LoadFails, Library!Step
<1> QED
  BY <1>5, <1>6

\* The answers before the n-th are late, those after it are not touched: the
\* last is as it was, or late.
LeftAnswers(before, w, n) ==
    LET left == before \o SubSeq(w, n + 1, Len(w))
    IN  /\ left \in Seq(Shelves)
        /\ left = <<>> => n = Len(w)
        /\ left # <<>> => left[Len(left)].late \/ left[Len(left)] = w[Len(w)]

LEMMA AnswersLeft ==
    ASSUME NEW w \in Seq(Shelves), NEW n \in DOMAIN w,
           NEW before, before = [m \in 1 .. n - 1 |-> [w[m] EXCEPT !.late = TRUE]]
    PROVE  LeftAnswers(before, w, n)
<1>1. n \in 1 .. Len(w) /\ Len(w) \in Nat /\ n \in Nat /\ DOMAIN w = 1 .. Len(w)
  OBVIOUS
<1>2. ASSUME NEW m \in 1 .. n - 1 PROVE before[m] \in Shelves /\ before[m].late
  <2>1. m \in 1 .. Len(w) /\ w[m] \in Shelves
    BY <1>1
  <2>2. before[m] = [w[m] EXCEPT !.late = TRUE]
    OBVIOUS
  <2>3. [w[m] EXCEPT !.late = TRUE] \in Shelves /\ [w[m] EXCEPT !.late = TRUE].late
    BY <2>1, Zenon DEF Shelves
  <2> QED
    BY <2>2, <2>3, Zenon
<1>3. before \in Seq(Shelves) /\ Len(before) = n - 1
  <2>1. before \in [1 .. n - 1 -> Shelves] /\ n - 1 \in Nat
    BY <1>1, <1>2
  <2> HIDE DEF Shelves
  <2> QED
    <3>1. before \in Seq(Shelves)
      BY <2>1, SeqDef
    <3> QED
      BY <2>1, <3>1, LenProperties
<1> DEFINE after == SubSeq(w, n + 1, Len(w))
           left == before \o after
<1>4. /\ after \in Seq(Shelves) /\ Len(after) = Len(w) - n
      /\ \A i \in 1 .. Len(w) - n : after[i] = w[n + i]
  BY <1>1
<1> HIDE DEF after
<1>5. /\ left \in Seq(Shelves) /\ Len(left) = Len(w) - 1
      /\ \A i \in 1 .. n - 1 : left[i] = before[i]
      /\ \A i \in n .. Len(w) - 1 : left[i] = after[i - (n - 1)]
  BY <1>1, <1>3, <1>4
<1> HIDE DEF left
<1>6. left = <<>> => n = Len(w)
  <2> SUFFICES ASSUME left = <<>> PROVE n = Len(w)
    OBVIOUS
  <2>1. Len(left) = 0
    OBVIOUS
  <2>2. Len(left) = Len(w) - 1
    BY <1>5
  <2>3. Len(w) \in Nat /\ n \in Nat /\ 1 <= n /\ n <= Len(w)
    BY <1>1
  <2>4. Len(w) - 1 = 0
    BY <2>1, <2>2
  <2> QED
    BY <2>3, <2>4
<1>7. left # <<>> => left[Len(left)].late \/ left[Len(left)] = w[Len(w)]
  <2> SUFFICES ASSUME left # <<>> PROVE left[Len(left)].late \/ left[Len(left)] = w[Len(w)]
    OBVIOUS
  <2>1. Len(w) - 1 \in 1 .. Len(w) - 1
    BY <1>1, <1>5
  <2>2. CASE n = Len(w)
    <3>1. left[Len(left)] = before[n - 1] /\ n - 1 \in 1 .. n - 1
      BY <1>1, <1>5, <2>1, <2>2
    <3> QED
      BY <1>2, <3>1
  <2>3. CASE n # Len(w)
    <3>1. Len(w) - 1 \in n .. Len(w) - 1 /\ (Len(w) - 1) - (n - 1) = Len(w) - n
          /\ Len(w) - n \in 1 .. Len(w) - n /\ n + (Len(w) - n) = Len(w)
      BY <1>1, <2>3
    <3> QED
      BY <1>4, <1>5, <3>1
  <2> QED
    BY <2>2, <2>3
<1> QED
  BY <1>5, <1>6, <1>7, Zenon DEF LeftAnswers, left, after

LEMMA LibraryShows ==
    ASSUME LibraryInv, NEW p \in Pages, Library!IsOpen(p),
           NEW n \in DOMAIN x4[p].answers, Library!Show(p, n)
    PROVE  LibraryInv'
<1>1. PICK g \in OpenPages : g = x4[p]
  BY DEF LibraryInv, LibraryPage
<1>2. Len(g.unread) <= PageRoom /\ (Library!Quiet /\ Heard(g) => ShowsLast(g, x1))
  BY <1>1 DEF LibraryInv, LibraryPage
<1>3. g.answers \in Seq(Shelves)
  BY PageFields
<1> DEFINE answer == g.answers[n]
           before == [m \in 1 .. n - 1 |-> [g.answers[m] EXCEPT !.late = TRUE]]
           left == before \o SubSeq(g.answers, n + 1, Len(g.answers))
           new == PageOf(g.socket, g.unread, g.asked, left, answer.list, g.missed, answer.late)
<1>4. answer \in Shelves /\ answer.list \in Library!Lists /\ answer.late \in BOOLEAN
  <2>1. answer \in Shelves
    BY <1>1, <1>3
  <2> QED
    BY <2>1 DEF Shelves
<1>5. /\ left \in Seq(Shelves)
      /\ left = <<>> => n = Len(g.answers)
      /\ left # <<>> => left[Len(left)].late \/ left[Len(left)] = g.answers[Len(g.answers)]
  <2>1. LeftAnswers(before, g.answers, n)
    <3> DEFINE w == g.answers
    <3>1. w \in Seq(Shelves) /\ n \in DOMAIN w
      BY <1>1, <1>3
    <3>2. before = [m \in 1 .. n - 1 |-> [w[m] EXCEPT !.late = TRUE]]
      OBVIOUS
    <3> HIDE DEF w, before
    <3>3. LeftAnswers(before, w, n)
      BY <3>1, <3>2, AnswersLeft
    <3> QED
      BY <3>3 DEF w
  <2> QED
    BY <2>1, Zenon DEF LeftAnswers
<1>6. x4' = [x4 EXCEPT ![p] = new]
  <2>1. x4' = [x4 EXCEPT ![p] = PageShowing(g, answer.list, answer.late, left)]
    BY <1>1, Zenon DEF Library!Show, Library!Step, PageShowing
  <2> HIDE DEF answer, left
  <2>2. PageShowing(g, answer.list, answer.late, left) = new
    BY PageExcepts
  <2> QED
    BY <2>1, <2>2
<1> HIDE DEF answer, left
<1>7. /\ new \in OpenPages /\ new.unread = g.unread /\ new.asked = g.asked /\ new.answers = left
      /\ new.shown = answer.list /\ new.missed = g.missed /\ new.late = answer.late
  <2>1. new \in OpenPages
    BY Zenon, <1>4, <1>5, PageFields, PageOfType
  <2> QED
    BY <2>1, PageOfFields
<1> HIDE DEF new
<1>8. Heard(new) => Heard(g)
  BY <1>7 DEF Heard
<1>9. ShowsLast(g, x1) => ShowsLast(new, x1)
  <2>1. g.answers # <<>>
    BY <1>1, <1>3
  <2> SUFFICES ASSUME g.answers[Len(g.answers)].late \/ g.answers[Len(g.answers)].list = x1
               PROVE  ShowsLast(new, x1)
    BY <2>1 DEF ShowsLast
  <2> QED
    BY <1>5, <1>7, Zenon DEF ShowsLast, answer
<1>10. LibraryPage(new, Library!Quiet, x1)
  BY <1>2, <1>7, <1>8, <1>9 DEF LibraryPage
<1> QED
  BY Zenon, <1>6, <1>10, LibraryPageStep DEF Library!Show, Library!Step

LEMMA LibraryStep ==
    ASSUME LibraryInv, Library!Next \/ UNCHANGED own
    PROVE  LibraryInv'
<1>1. CASE Library!Next
  BY <1>1, LibraryOther, LibraryRestart, LibraryRequests, LibraryOpens, LibraryHears,
     LibraryLoads, LibraryShows DEF Library!Next
<1>2. CASE UNCHANGED own
  <2>1. x1' = x1 /\ x2' = x2 /\ x3' = x3 /\ x4' = x4 /\ x8' = x8
    BY <1>2 DEF own
  <2>2. Library!Quiet' = Library!Quiet /\ LibrarySaved'
    BY <2>1 DEF LibraryInv, LibrarySaved, Library!Quiet, Library!Working
  <2>3. ASSUME NEW p \in Pages, Library!IsOpen(p)' PROVE LibraryPage(x4[p], Library!Quiet, x1)'
    <3>1. LibraryPage(x4'[p], Library!Quiet', x1')
      BY <2>1, <2>2, <2>3 DEF LibraryInv, Library!IsOpen
    <3> QED
      BY <3>1, Zenon DEF LibraryPage, Heard, ShowsLast
  <2> QED
    BY <2>1, <2>2, <2>3 DEF LibraryInv
<1> QED
  BY <1>1, <1>2

LEMMA LibraryTrue ==
    ASSUME LibraryInv
    PROVE  Library!TypeOK /\ Library!FileHasList /\ Library!PageIsCurrent
<1>1. Library!FileHasList
  BY DEF LibraryInv, LibrarySaved, Library!FileHasList
<1>2. Library!PageIsCurrent
  <2> SUFFICES ASSUME NEW p \in Pages, Library!Quiet, Library!IsOpen(p),
                      x4[p].asked = 0, x4[p].answers = <<>>,
                      "library" \notin {x4[p].unread[n] : n \in DOMAIN x4[p].unread},
                      ~ x4[p].missed, ~ x4[p].late
               PROVE  x4[p].shown = x1
    BY Zenon DEF Library!PageIsCurrent
  <2>1. Heard(x4[p]) => ShowsLast(x4[p], x1)
    BY DEF LibraryInv, LibraryPage
  <2> QED
    BY <2>1, Zenon DEF Heard, ShowsLast, Elements
<1>3. Library!TypeOK
  <2>1. ASSUME NEW r \in Editors, Library!Working(r)
        PROVE  x3[r].at \in {"save", "write"} /\ x3[r].copy \in Library!Lists
    <3>1. x3[r] \in Savings
      BY <2>1, RequestIs
    <3> QED
      BY <3>1 DEF Savings
  <2>2. ASSUME NEW p \in Pages, Library!IsOpen(p)
        PROVE  /\ x4[p].socket \in {"opening", "open"} /\ x4[p].shown \in Library!Lists
               /\ x4[p].asked \in 0 .. MaxLoads /\ Len(x4[p].unread) <= PageRoom
    BY <2>2, PageFields DEF LibraryInv, LibraryPage
  <2> QED
    BY <2>1, <2>2 DEF LibraryInv, Library!TypeOK
<1> QED
  BY <1>1, <1>2, <1>3

-------------------------------------------------------------------------------
(* The loop with tools                                                       *)

\* x1: pass, x2: step, x3: todo, x4: asked, x5: ran, x6: nudges, x7: cancel,
\* x8: since, x9: tokens, x10: spent, x11: tasks.

\* What is still to run is there once each, and was asked for beyond what ran.
CallsFit(left, wanted, done) ==
    /\ left \in Seq(Signatures) /\ Distinct(left) /\ Len(left) <= MaxCalls
    /\ wanted \in [Signatures -> Nat] /\ done \in [Signatures -> Nat]
    /\ \A s \in Signatures :
         /\ wanted[s] <= MaxRepeats /\ done[s] <= wanted[s]
         /\ s \in Elements(left) => done[s] + 1 <= wanted[s]
LoopCalls == CallsFit(x3, x4, x5)

\* A pass begins only when the loop was not told to stop before.
LoopStops ==
    /\ x7 \in BOOLEAN /\ x8 \in [model : Nat, tools : Nat]
    /\ ~x7 \/ x2 = "infer" => x8.model = 0 /\ x8.tools = 0
    /\ x2 = "tools" => x8.tools + Len(x3) <= MaxCalls
    /\ x8.model <= 1 /\ x8.tools <= MaxCalls

\* A pass has one reply.
LoopPasses ==
    /\ x1 \in 0 .. MaxPasses /\ x2 \in Loop!Steps
    /\ x2 \in {"top", "infer", "tools"} => x1 >= 1
    /\ x9 \in Nat /\ x9 <= x1 /\ (x2 \in {"top", "infer"} => x9 <= x1 - 1)
    /\ x6 \in [url : 0 .. MaxNudges, intent : 0 .. MaxNudges]
    /\ x10 \in Nat /\ x11 \in 0 .. LoopTasks

LoopInv == LoopCalls /\ LoopStops /\ LoopPasses

LEMMA LoopConstants ==
    /\ MaxPasses \in Nat \ {0} /\ MaxCalls \in Nat \ {0} /\ MaxRepeats \in Nat \ {0}
    /\ MaxNudges \in Nat /\ MaxReply \in Nat /\ PerRequest \in Nat /\ LoopTasks \in Nat
BY AgentsAssumption DEF Loop!LoopAssumption

LEMMA NothingTodo ==
    <<>> \in Seq(Signatures) /\ Distinct(<<>>) /\ Len(<<>>) = 0 /\ Elements(<<>>) = {}
BY DEF Distinct, Elements

LEMMA LoopFreshNudges ==
    [url |-> 0, intent |-> 0] \in [url : 0 .. MaxNudges, intent : 0 .. MaxNudges]
BY LoopConstants

LEMMA NothingSince ==
    ASSUME NEW r, r = [model |-> 0, tools |-> 0]
    PROVE  r \in [model : Nat, tools : Nat] /\ r.model = 0 /\ r.tools = 0
OBVIOUS

LEMMA LoopFreshCalls == CallsFit(<<>>, Loop!Zero, Loop!Zero)
<1>1. PICK z : z = Loop!Zero
  OBVIOUS
<1>2. z = [s \in Signatures |-> 0]
  BY <1>1 DEF Loop!Zero
<1>3. z \in [Signatures -> Nat] /\ \A s \in Signatures : z[s] = 0
  BY <1>2
<1>4. PICK none : none = <<>>
  OBVIOUS
<1>5. none \in Seq(Signatures) /\ Distinct(none) /\ Len(none) = 0 /\ Elements(none) = {}
  BY <1>4, NothingTodo
<1>6. CallsFit(none, z, z)
  BY <1>3, <1>5, LoopConstants DEF CallsFit
<1> QED
  BY <1>1, <1>4, <1>6

LEMMA LoopInit == Loop!Init => LoopInv
<1> SUFFICES ASSUME Loop!Init PROVE LoopInv
  OBVIOUS
<1>1. /\ x4 = Loop!Zero /\ x5 = Loop!Zero /\ x6 = [url |-> 0, intent |-> 0]
      /\ x8 = [model |-> 0, tools |-> 0] /\ x3 = <<>> /\ x1 = 0 /\ x2 = "idle"
      /\ x7 = FALSE /\ x9 = 0 /\ x10 = 0 /\ x11 = 0
  BY DEF Loop!Init
<1>2. LoopCalls
  BY <1>1, LoopFreshCalls, Zenon DEF LoopCalls
<1>3. LoopStops
  <2>1. x8 \in [model : Nat, tools : Nat] /\ x8.model = 0 /\ x8.tools = 0
    BY <1>1, NothingSince
  <2>2. x7 \in BOOLEAN /\ ~x7
    BY <1>1, Zenon
  <2>3. x2 # "tools"
    BY <1>1, Zenon
  <2>4. 0 <= MaxCalls
    BY LoopConstants
  <2> QED
    BY <2>1, <2>2, <2>3, <2>4 DEF LoopStops
<1>4. LoopPasses
  BY <1>1, LoopFreshNudges, LoopConstants DEF LoopPasses, Loop!Steps
<1> QED
  BY <1>2, <1>3, <1>4 DEF LoopInv

LEMMA LoopBegin ==
    ASSUME LoopInv, Loop!Begin
    PROVE  LoopInv'
<1>1. /\ x4' = Loop!Zero /\ x5' = Loop!Zero /\ x6' = [url |-> 0, intent |-> 0]
      /\ x8' = [model |-> 0, tools |-> 0] /\ x3' = <<>> /\ x1' = 1 /\ x2' = "top"
      /\ x7' = FALSE /\ x9' = 0 /\ x10' = 0 /\ x11' = x11 + 1 /\ x11 < LoopTasks
  BY DEF Loop!Begin
<1>2. LoopCalls'
  BY <1>1, LoopFreshCalls, Zenon DEF LoopCalls
<1>3. LoopStops'
  <2>1. x8' \in [model : Nat, tools : Nat] /\ x8'.model = 0 /\ x8'.tools = 0
    BY <1>1, NothingSince
  <2>2. x7' \in BOOLEAN /\ ~x7'
    BY <1>1, Zenon
  <2>3. x2' # "tools"
    BY <1>1, Zenon
  <2>4. 0 <= MaxCalls
    BY LoopConstants
  <2> QED
    BY <2>1, <2>2, <2>3, <2>4 DEF LoopStops
<1>4. LoopPasses'
  BY <1>1, LoopFreshNudges, LoopConstants DEF LoopInv, LoopPasses, Loop!Steps
<1> QED
  BY <1>2, <1>3, <1>4 DEF LoopInv

\* What a model call or a tool run that begins adds to those begun since.
LEMMA LoopBegan ==
    ASSUME LoopStops, NEW what \in {"model", "tools"}, Loop!Began(what)
    PROVE  /\ x8' \in [model : Nat, tools : Nat]
           /\ ~x7 => x8'.model = x8.model /\ x8'.tools = x8.tools
           /\ x8'.model = x8.model \/ (what = "model" /\ x8'.model = x8.model + 1)
           /\ x8'.tools = x8.tools \/ (what = "tools" /\ x8'.tools = x8.tools + 1)
<1>1. PICK r \in [model : Nat, tools : Nat] : r = x8
  BY DEF LoopStops
<1>2. /\ [r EXCEPT !["model"] = @ + 1] \in [model : Nat, tools : Nat]
      /\ [r EXCEPT !["model"] = @ + 1].model = r.model + 1
      /\ [r EXCEPT !["model"] = @ + 1].tools = r.tools
  OBVIOUS
<1>3. /\ [r EXCEPT !["tools"] = @ + 1] \in [model : Nat, tools : Nat]
      /\ [r EXCEPT !["tools"] = @ + 1].tools = r.tools + 1
      /\ [r EXCEPT !["tools"] = @ + 1].model = r.model
  OBVIOUS
<1>4. x8' = IF x7 THEN [r EXCEPT ![what] = @ + 1] ELSE r
  BY <1>1 DEF Loop!Began
<1>5. CASE ~x7
  BY <1>1, <1>4, <1>5
<1>6. CASE x7 /\ what = "model"
  BY <1>1, <1>2, <1>4, <1>6
<1>7. CASE x7 /\ what = "tools"
  BY <1>1, <1>3, <1>4, <1>7
<1> QED
  BY <1>5, <1>6, <1>7

\* After a model call at most the tools of its pass begin.
LEMMA LoopInferred ==
    ASSUME LoopInv, Loop!Infer, x2' \in Loop!Steps \ {"infer"},
           x2' = "tools" => Len(x3') <= MaxCalls
    PROVE  LoopStops'
<1>1. x2 = "infer" /\ Loop!Began("model") /\ x7' = x7
  BY DEF Loop!Infer
<1>2. x8.model = 0 /\ x8.tools = 0
  BY <1>1 DEF LoopInv, LoopStops
<1>3. /\ x8' \in [model : Nat, tools : Nat]
      /\ ~x7 => x8'.model = 0 /\ x8'.tools = 0
      /\ x8'.model = 0 \/ x8'.model = 1
      /\ x8'.tools = 0
  BY <1>1, <1>2, LoopBegan DEF LoopInv
<1>4. x2' = "tools" => x8'.tools + Len(x3') <= MaxCalls
  <2> SUFFICES ASSUME x2' = "tools" PROVE 0 + Len(x3') <= MaxCalls
    BY <1>3
  <2>1. Len(x3') <= MaxCalls
    OBVIOUS
  <2> QED
    BY <2>1, LoopConstants
<1> QED
  BY <1>1, <1>3, <1>4, LoopConstants DEF LoopInv, LoopStops

LEMMA LoopOnward ==
    ASSUME LoopPasses, Loop!Onward, x2 \in {"infer", "tools"}, x9' = x9 + 1 \/ x9' = x9,
           x2 = "tools" => x9' = x9, x11' = x11, x10' = x10,
           x6' \in [url : 0 .. MaxNudges, intent : 0 .. MaxNudges]
    PROVE  LoopPasses' /\ x2' \in {"top", "passes"}
BY LoopConstants DEF LoopPasses, Loop!Onward, Loop!Steps, Loop!Ends

LEMMA LoopAnswers ==
    ASSUME LoopPasses, Loop!Answer, x2 = "infer", x9' = x9 + 1, x11' = x11,
           x6' \in [url : 0 .. MaxNudges, intent : 0 .. MaxNudges]
    PROVE  LoopPasses' /\ x2' = "answered"
BY LoopConstants DEF LoopPasses, Loop!Answer, Loop!Steps, Loop!Ends

LEMMA LoopQuiet ==
    ASSUME LoopInv, Loop!Top \/ Loop!Cancel \/ Loop!PassEnds \/ UNCHANGED own
    PROVE  LoopInv'
<1>1. LoopCalls'
  BY DEF LoopInv, LoopCalls, CallsFit, Loop!Top, Loop!Cancel, Loop!PassEnds, own, Loop!counters
<1>2. CASE Loop!Top
  BY <1>1, <1>2, LoopConstants
     DEF LoopInv, LoopStops, LoopPasses, Loop!Top, Loop!Steps, Loop!Ends, Loop!counters, Loop!stopping
<1>3. CASE Loop!Cancel
  BY <1>1, <1>3 DEF LoopInv, LoopStops, LoopPasses, Loop!Cancel, Loop!counters
<1>4. CASE Loop!PassEnds
  <2>1. /\ Loop!Onward /\ x2 = "tools" /\ x9' = x9 /\ x11' = x11 /\ x10' = x10 /\ x6' = x6
        /\ x7' = x7 /\ x8' = x8
    BY <1>4 DEF Loop!PassEnds, Loop!counters, Loop!stopping
  <2>2. LoopPasses' /\ x2' \in {"top", "passes"}
    BY <2>1, LoopOnward DEF LoopInv, LoopPasses
  <2> QED
    BY <1>1, <2>1, <2>2 DEF LoopInv, LoopStops
<1>5. CASE UNCHANGED own
  BY <1>1, <1>5 DEF LoopInv, LoopStops, LoopPasses, own
<1> QED
  BY <1>2, <1>3, <1>4, <1>5

LEMMA LoopNoCalls ==
    ASSUME LoopInv,
           \/ Loop!InferFails \/ Loop!ErrorText
           \/ \E page \in BOOLEAN, promise \in BOOLEAN : Loop!NoCalls(page, promise)
    PROVE  LoopInv'
<1>1. LoopCalls' /\ Loop!Infer /\ x2 = "infer" /\ x11' = x11
  BY DEF LoopInv, LoopCalls, CallsFit, Loop!InferFails, Loop!ErrorText, Loop!NoCalls, Loop!counters, Loop!Infer
<1>2. LoopPasses' /\ x2' \in Loop!Steps \ {"infer", "tools"}
  <2>1. CASE Loop!InferFails
    BY <2>1 DEF LoopInv, LoopPasses, Loop!InferFails, Loop!Infer, Loop!Steps, Loop!Ends, Loop!counters
  <2>2. CASE Loop!ErrorText
    <3>1. LoopPasses' /\ x2' \in {"top", "passes"}
      BY <1>1, <2>2, LoopOnward DEF LoopInv, LoopPasses, Loop!ErrorText, Loop!counters
    <3> QED
      BY <3>1 DEF Loop!Steps, Loop!Ends
  <2>3. ASSUME NEW page \in BOOLEAN, NEW promise \in BOOLEAN, Loop!NoCalls(page, promise)
        PROVE  LoopPasses' /\ x2' \in {"top", "passes", "answered"}
    <3>1. PICK n \in [url : 0 .. MaxNudges, intent : 0 .. MaxNudges] : n = x6
      BY DEF LoopInv, LoopPasses
    <3>2. CASE x6' = [x6 EXCEPT !["url"] = @ + 1] /\ x6.url < MaxNudges /\ Loop!Onward /\ x10' = x10
      <4>1. n.url < MaxNudges => [n EXCEPT !["url"] = @ + 1] \in [url : 0 .. MaxNudges, intent : 0 .. MaxNudges]
        BY LoopConstants
      <4>2. x6' \in [url : 0 .. MaxNudges, intent : 0 .. MaxNudges]
        BY <3>1, <3>2, <4>1
      <4> QED
        BY <1>1, <2>3, <3>2, <4>2, LoopOnward DEF LoopInv, Loop!NoCalls
    <3>3. CASE x6' = [x6 EXCEPT !["intent"] = @ + 1] /\ x6.intent < MaxNudges /\ Loop!Onward /\ x10' = x10
      <4>1. n.intent < MaxNudges => [n EXCEPT !["intent"] = @ + 1] \in [url : 0 .. MaxNudges, intent : 0 .. MaxNudges]
        BY LoopConstants
      <4>2. x6' \in [url : 0 .. MaxNudges, intent : 0 .. MaxNudges]
        BY <3>1, <3>3, <4>1
      <4> QED
        BY <1>1, <2>3, <3>3, <4>2, LoopOnward DEF LoopInv, Loop!NoCalls
    <3>4. CASE Loop!Answer /\ x6' = x6
      BY <1>1, <2>3, <3>4, LoopAnswers DEF LoopInv, LoopPasses, Loop!NoCalls
    <3> QED
      BY <2>3, <3>2, <3>3, <3>4 DEF Loop!NoCalls, Loop!counters
  <2> QED
    BY <2>1, <2>2, <2>3 DEF Loop!Steps, Loop!Ends
<1>3. LoopStops'
  BY <1>1, <1>2, LoopInferred
<1> QED
  BY <1>1, <1>2, <1>3 DEF LoopInv

LEMMA LoopRunTool ==
    ASSUME LoopInv, Loop!RunTool
    PROVE  LoopInv'
<1>1. /\ x2 = "tools" /\ x3 # <<>> /\ x3' = Tail(x3)
      /\ x5' = [x5 EXCEPT ![Head(x3)] = @ + 1] /\ Loop!Began("tools")
      /\ x1' = x1 /\ x2' = x2 /\ x4' = x4 /\ x6' = x6 /\ x7' = x7 /\ x9' = x9 /\ x10' = x10
      /\ x11' = x11
  BY DEF Loop!RunTool
<1>2. PICK h, t : h = Head(x3) /\ t = Tail(x3)
  BY Zenon
<1>3. /\ h \in Signatures /\ t \in Seq(Signatures) /\ Len(t) = Len(x3) - 1
      /\ Elements(x3) = Elements(t) \cup {h} /\ Distinct(t) /\ h \notin Elements(t)
  BY <1>1, <1>2, TailElements DEF LoopInv, LoopCalls, CallsFit
<1>4. Len(x3) \in Nat /\ Len(x3) <= MaxCalls
  BY LenProperties DEF LoopInv, LoopCalls, CallsFit
<1>5. /\ x5' \in [Signatures -> Nat] /\ x5'[h] = x5[h] + 1
      /\ \A s \in Signatures \ {h} : x5'[s] = x5[s]
  BY <1>1, <1>2, <1>3 DEF LoopInv, LoopCalls, CallsFit
<1>6. LoopCalls'
  <2>1. ASSUME NEW s \in Signatures
        PROVE  /\ x4[s] <= MaxRepeats /\ x5'[s] <= x4[s]
               /\ s \in Elements(t) => x5'[s] + 1 <= x4[s]
    <3>1. x5[s] \in Nat /\ x4[s] \in Nat
      BY DEF LoopInv, LoopCalls, CallsFit
    <3> QED
      BY Zenon, <1>3, <1>5, <3>1 DEF LoopInv, LoopCalls, CallsFit
  <2>2. Len(t) <= MaxCalls
    BY <1>3, <1>4, LoopConstants
  <2> QED
    BY <1>1, <1>2, <1>3, <1>5, <2>1, <2>2 DEF LoopInv, LoopCalls, CallsFit
<1>7. LoopStops'
  <2>1. x8.tools + Len(x3) <= MaxCalls /\ x8.tools \in Nat
    BY <1>1 DEF LoopInv, LoopStops
  <2>2. /\ x8' \in [model : Nat, tools : Nat]
        /\ ~x7 => x8'.model = x8.model /\ x8'.tools = x8.tools
        /\ x8'.model = x8.model
        /\ x8'.tools = x8.tools \/ x8'.tools = x8.tools + 1
    BY <1>1, LoopBegan DEF LoopInv
  <2>3. x8'.tools + Len(t) <= MaxCalls /\ x8'.tools <= MaxCalls
    <3>1. Len(t) \in Nat
      BY <1>3, LenProperties
    <3> QED
      BY <1>3, <1>4, <2>1, <2>2, <3>1, LoopConstants
  <2> QED
    BY <1>1, <1>2, <2>2, <2>3 DEF LoopInv, LoopStops
<1>8. LoopPasses'
  BY <1>1 DEF LoopInv, LoopPasses
<1> QED
  BY <1>6, <1>7, <1>8 DEF LoopInv

\* How often s is in a sequence.
Times(s, q) == Cardinality({i \in DOMAIN q : q[i] = s})

LEMMA SameCardinality == \A S : Loop!Cardinality(S) = Cardinality(S)
BY Zenon DEF Loop!Cardinality, Cardinality, Loop!IsFiniteSet, IsFiniteSet

LEMMA LoopCounts == \A s, q : Loop!Count(s, q) = Times(s, q)
BY SameCardinality DEF Loop!Count, Times

LEMMA TimesOfDistinct ==
    ASSUME NEW A, NEW q \in Seq(A), Distinct(q), NEW s
    PROVE  Times(s, q) = IF s \in Elements(q) THEN 1 ELSE 0
<1>1. CASE s \in Elements(q)
  <2>1. PICK i \in DOMAIN q : q[i] = s
    BY <1>1 DEF Elements
  <2>2. {j \in DOMAIN q : q[j] = s} = {i}
    BY <2>1 DEF Distinct
  <2> QED
    BY Zenon, <1>1, <2>2, FS_Singleton DEF Times
<1>2. CASE s \notin Elements(q)
  <2>1. {j \in DOMAIN q : q[j] = s} = {}
    BY <1>2 DEF Elements
  <2> QED
    BY Zenon, <1>2, <2>1, FS_EmptySet DEF Times
<1> QED
  BY <1>1, <1>2

\* Calls that are not blocked are no more than what may still run.
LEMMA KeptBounded ==
    ASSUME NEW calls \in Seq(Signatures), NEW s \in Signatures, LoopCalls
    PROVE  /\ Loop!Kept(calls, s) \in Nat /\ x4[s] + Loop!Kept(calls, s) <= MaxRepeats
           /\ (\E i \in Loop!Unblocked(calls) : calls[i] = s) => Loop!Kept(calls, s) >= 1
<1>1. PICK kept : kept = {i \in Loop!Unblocked(calls) : calls[i] = s}
  BY Zenon
<1>2. PICK n \in Nat : n = Len(calls) /\ DOMAIN calls = 1 .. n
  BY LenProperties
<1>3. kept \subseteq 1 .. n /\ kept \subseteq Nat /\ IsFiniteSet(kept)
  <2>1. kept \subseteq 1 .. n
    BY <1>1, <1>2 DEF Loop!Unblocked
  <2>2. IsFiniteSet(1 .. n)
    BY FS_Interval
  <2>3. IsFiniteSet(kept)
    BY Zenon, <2>1, <2>2, FS_Subset
  <2> QED
    BY <2>1, <2>3
<1>4. PICK k \in Nat : k = Cardinality(kept) /\ Loop!Kept(calls, s) = k
  <2>1. Cardinality(kept) \in Nat
    BY <1>3, FS_CardinalityType
  <2> QED
    BY Zenon, <1>1, <2>1, SameCardinality DEF Loop!Kept
<1>5. x4[s] \in Nat /\ x4[s] <= MaxRepeats /\ MaxRepeats \in Nat
  BY LoopConstants DEF LoopCalls, CallsFit
<1>6. ASSUME k >= 1 PROVE x4[s] + k <= MaxRepeats
  <2>1. PICK m \in kept : Cardinality({j \in kept : j < m}) = k - 1
    <3>1. k \in 1 .. Cardinality(kept)
      BY <1>4, <1>6
    <3> QED
      BY Zenon, <1>3, <3>1, PlacesRanked
  <2>2. PICK b : b = SubSeq(calls, 1, m - 1)
    BY Zenon
  <2>3. /\ b \in Seq(Signatures) /\ DOMAIN b = 1 .. m - 1 /\ m \in 1 .. n
        /\ \A j \in 1 .. m - 1 : b[j] = calls[j]
    <3>1. m \in 1 .. n
      BY <1>3
    <3>2. b \in Seq(Signatures) /\ Len(b) = m - 1 /\ \A j \in 1 .. m - 1 : b[j] = calls[j]
      BY <1>2, <2>2, <3>1
    <3> QED
      BY <3>1, <3>2
  <2>4. {j \in kept : j < m} \subseteq {j \in DOMAIN b : b[j] = s}
    <3>1. \A j \in kept : j < m => j \in 1 .. m - 1 /\ calls[j] = s
      BY <1>1, <1>3, <2>3
    <3> QED
      BY Zenon, <2>3, <3>1
  <2>5. k - 1 <= Times(s, b) /\ Times(s, b) \in Nat
    <3>1. IsFiniteSet({j \in DOMAIN b : b[j] = s})
      <4>1. IsFiniteSet(1 .. m - 1)
        BY <2>3, FS_Interval
      <4> QED
        BY <2>3, <4>1, FS_Subset
    <3> QED
      BY <2>1, <2>4, <3>1, FS_Subset, FS_CardinalityType DEF Times
  <2>6. x4[s] + Times(s, b) < MaxRepeats
    BY <1>1, <2>2, LoopCounts DEF Loop!Unblocked
  <2> QED
    BY <1>4, <1>5, <2>5, <2>6
<1>7. ASSUME NEW i \in Loop!Unblocked(calls), calls[i] = s PROVE k >= 1
  <2>1. kept # {}
    BY <1>1, <1>7
  <2>2. k # 0
    BY <1>3, <1>4, <2>1, FS_EmptySet
  <2> QED
    BY <1>4, <2>2
<1> QED
  BY <1>4, <1>5, <1>6, <1>7

CutFits(t, calls, places, n) ==
    /\ t \in Seq(Signatures) /\ Len(t) <= n /\ Distinct(t)
    /\ \A s \in Elements(t) : \E i \in places : calls[i] = s

\* What is cut from different places, whose calls differ.
LEMMA CutSound ==
    ASSUME NEW calls \in Seq(Signatures), NEW places \in SUBSET (DOMAIN calls),
           \A i, j \in places : calls[i] = calls[j] => i = j,
           NEW n \in Nat, NEW t, t = Loop!CutTo(n, calls, places)
    PROVE  CutFits(t, calls, places, n)
<1>1. PICK l \in Nat : l = Len(calls) /\ DOMAIN calls = 1 .. l
  BY LenProperties
<1>2. places \subseteq Nat /\ IsFiniteSet(places)
  <2>1. IsFiniteSet(1 .. l)
    BY FS_Interval
  <2> QED
    BY <1>1, <2>1, FS_Subset
<1>3. PICK c \in Nat : c = Cardinality(places)
  BY <1>2, FS_CardinalityType
<1>4. PICK m \in Nat : m = (IF c < n THEN c ELSE n) /\ m <= n /\ m <= c
  OBVIOUS
<1>5. \A k \in 1 .. m : /\ Loop!Nth(places, k) \in places
                        /\ Cardinality({j \in places : j < Loop!Nth(places, k)}) = k - 1
  <2> SUFFICES ASSUME NEW k \in 1 .. m
               PROVE  /\ Loop!Nth(places, k) \in places
                      /\ Cardinality({j \in places : j < Loop!Nth(places, k)}) = k - 1
    BY Zenon
  <2>1. k \in 1 .. Cardinality(places)
    BY <1>3, <1>4
  <2>2. \E i \in places : Cardinality({j \in places : j < i}) = k - 1
    BY Zenon, <1>2, <2>1, PlacesRanked
  <2>3. Loop!Nth(places, k) = CHOOSE i \in places : Cardinality({j \in places : j < i}) = k - 1
    BY Zenon, SameCardinality DEF Loop!Nth
  <2> QED
    BY Zenon, <2>2, <2>3
<1>6. t = [k \in 1 .. m |-> calls[Loop!Nth(places, k)]]
  <2>1. (IF Loop!Cardinality(places) < n THEN Loop!Cardinality(places) ELSE n) = m
    BY <1>3, <1>4, SameCardinality
  <2>2. Loop!CutTo(n, calls, places) =
          [k \in 1 .. (IF Loop!Cardinality(places) < n THEN Loop!Cardinality(places) ELSE n) |->
             calls[Loop!Nth(places, k)]]
    BY Zenon DEF Loop!CutTo
  <2> QED
    BY <2>1, <2>2, Zenon
<1>7. ASSUME NEW k \in 1 .. m
      PROVE  t[k] = calls[Loop!Nth(places, k)] /\ t[k] \in Signatures
  <2>1. t[k] = calls[Loop!Nth(places, k)]
    BY <1>6
  <2>2. PICK i \in 1 .. l : i = Loop!Nth(places, k)
    BY Zenon, <1>1, <1>5
  <2>3. calls[i] \in Signatures
    BY <1>1, <2>2
  <2> QED
    BY <2>1, <2>2, <2>3
<1>8. t \in Seq(Signatures) /\ Len(t) = m /\ DOMAIN t = 1 .. m
  <2>1. t \in [1 .. m -> Signatures]
    BY <1>6, <1>7
  <2>2. t \in Seq(Signatures)
    BY <2>1, SeqDef
  <2> QED
    BY <1>6, <2>1, <2>2, LenProperties
<1>9. ASSUME NEW j \in 1 .. m, NEW k \in 1 .. m, t[j] = t[k] PROVE j = k
  <2>1. Loop!Nth(places, j) = Loop!Nth(places, k)
    BY Zenon, <1>5, <1>7, <1>9
  <2>2. j - 1 = k - 1
    BY Zenon, <1>5, <2>1
  <2> QED
    BY <2>2
<1>10. Distinct(t)
  BY <1>8, <1>9 DEF Distinct
<1>11. ASSUME NEW s \in Elements(t) PROVE \E i \in places : calls[i] = s
  <2>1. PICK k \in 1 .. m : t[k] = s
    BY <1>8 DEF Elements
  <2>2. Loop!Nth(places, k) \in places /\ calls[Loop!Nth(places, k)] = s
    BY Zenon, <1>5, <1>7, <2>1
  <2> QED
    BY <2>2
<1> QED
  BY <1>4, <1>8, <1>10, <1>11 DEF CutFits

LEMMA LoopCallsTools ==
    ASSUME LoopInv, NEW calls \in Loop!Readings, Loop!Calls(calls)
    PROVE  LoopInv'
<1>1. calls \in Seq(Signatures)
  <2>1. PICK n \in Nat : calls \in [1 .. n -> Signatures]
    BY DEF Loop!Readings
  <2> QED
    BY <2>1, SeqDef
<1>2. PICK kept \in SUBSET (DOMAIN calls) : kept = Loop!Unblocked(calls)
  BY Zenon DEF Loop!Unblocked
<1>3. /\ Loop!Infer /\ x2 = "infer" /\ x9' = x9 + 1 /\ x5' = x5 /\ x6' = x6 /\ x11' = x11
      /\ x4' = [s \in Signatures |-> x4[s] + Loop!Kept(calls, s)]
      /\ \/ kept = {} /\ Loop!Answer /\ x3' = x3
         \/ /\ x3' = Loop!CutTo(MaxCalls, calls, Loop!Merged(calls, kept)) /\ x2' = "tools"
            /\ x1' = x1 /\ x10' = x10
  BY <1>2 DEF Loop!Calls, Loop!Infer
<1>4. ASSUME NEW s \in Signatures
      PROVE  /\ x4[s] \in Nat /\ x5[s] \in Nat /\ x4'[s] \in Nat
             /\ x4[s] <= x4'[s] /\ x4'[s] <= MaxRepeats
             /\ (\E i \in kept : calls[i] = s) => x4[s] + 1 <= x4'[s]
  <2>1. /\ Loop!Kept(calls, s) \in Nat /\ x4[s] + Loop!Kept(calls, s) <= MaxRepeats
        /\ (\E i \in kept : calls[i] = s) => Loop!Kept(calls, s) >= 1
    BY <1>1, <1>2, KeptBounded DEF LoopInv
  <2>2. x4[s] \in Nat /\ x5[s] \in Nat
    BY DEF LoopInv, LoopCalls, CallsFit
  <2>3. x4'[s] = x4[s] + Loop!Kept(calls, s)
    BY <1>3
  <2> QED
    BY <2>1, <2>2, <2>3
<1>5. x4' \in [Signatures -> Nat]
  <2>1. x4' = [s \in Signatures |-> x4'[s]]
    BY <1>3
  <2> QED
    BY <1>4, <2>1
<1>6. CASE kept = {} /\ Loop!Answer /\ x3' = x3
  <2>1. LoopCalls'
    <3>1. \A s \in Signatures : s \in Elements(x3) => x5[s] + 1 <= x4[s]
      BY DEF LoopInv, LoopCalls, CallsFit
    <3>2. \A s \in Signatures : x5[s] <= x4[s]
      BY DEF LoopInv, LoopCalls, CallsFit
    <3>3. \A s \in Signatures : /\ x4'[s] <= MaxRepeats /\ x5[s] <= x4'[s]
                                /\ s \in Elements(x3) => x5[s] + 1 <= x4'[s]
      BY <1>4, <3>1, <3>2
    <3> QED
      BY <1>3, <1>5, <1>6, <3>3 DEF LoopInv, LoopCalls, CallsFit
  <2>2. LoopPasses' /\ x2' = "answered"
    BY <1>3, <1>6, LoopAnswers DEF LoopInv, LoopPasses
  <2>3. LoopStops'
    BY <1>3, <2>2, LoopInferred DEF Loop!Steps, Loop!Ends
  <2> QED
    BY <2>1, <2>2, <2>3 DEF LoopInv
<1>7. CASE /\ x3' = Loop!CutTo(MaxCalls, calls, Loop!Merged(calls, kept)) /\ x2' = "tools"
           /\ x1' = x1 /\ x10' = x10
  <2>1. PICK places \in SUBSET (DOMAIN calls) :
          places = Loop!Merged(calls, kept) /\ places \subseteq kept
    BY Zenon DEF Loop!Merged
  <2>2. \A i, j \in places : calls[i] = calls[j] => i = j
    <3>1. DOMAIN calls \subseteq Nat
      BY <1>1, LenProperties
    <3>2. \A i, j \in places : ~(i < j /\ calls[i] = calls[j])
      BY <2>1 DEF Loop!Merged
    <3>3. \A i, j \in Nat : i < j \/ j < i \/ i = j
      OBVIOUS
    <3> QED
      BY <3>1, <3>2, <3>3
  <2>3. PICK t : t = x3'
    OBVIOUS
  <2>4. /\ t \in Seq(Signatures) /\ Len(t) <= MaxCalls /\ Distinct(t)
        /\ \A s \in Elements(t) : \E i \in places : calls[i] = s
    <3>1. t = Loop!CutTo(MaxCalls, calls, places) /\ MaxCalls \in Nat
      BY <1>7, <2>1, <2>3, LoopConstants
    <3>2. CutFits(t, calls, places, MaxCalls)
      BY <1>1, <2>2, <3>1, CutSound
    <3> QED
      BY <3>2 DEF CutFits
  <2>5. LoopCalls'
    <3>1. \A s \in Signatures : x5[s] <= x4[s]
      BY DEF LoopInv, LoopCalls, CallsFit
    <3>2. \A s \in Signatures : s \in Elements(t) => x4[s] + 1 <= x4'[s]
      BY <1>4, <2>1, <2>4
    <3>3. \A s \in Signatures : /\ x4'[s] <= MaxRepeats /\ x5[s] <= x4'[s]
                                /\ s \in Elements(t) => x5[s] + 1 <= x4'[s]
      BY <1>4, <3>1, <3>2
    <3>4. x5 \in [Signatures -> Nat]
      BY DEF LoopInv, LoopCalls, CallsFit
    <3> QED
      BY <1>3, <1>5, <2>3, <2>4, <3>3, <3>4 DEF LoopCalls, CallsFit
  <2>6. LoopStops'
    BY <1>3, <1>7, <2>3, <2>4, LoopInferred DEF Loop!Steps
  <2>7. LoopPasses'
    BY <1>3, <1>7 DEF LoopInv, LoopPasses, Loop!Steps
  <2> QED
    BY <2>5, <2>6, <2>7 DEF LoopInv
<1> QED
  BY <1>3, <1>6, <1>7

LEMMA LoopStep ==
    ASSUME LoopInv, Loop!Next \/ UNCHANGED own
    PROVE  LoopInv'
<1>1. CASE Loop!Next
  BY <1>1, LoopBegin, LoopQuiet, LoopNoCalls, LoopRunTool, LoopCallsTools
     DEF Loop!Next, Loop!Work
<1>2. CASE UNCHANGED own
  BY <1>2, LoopQuiet
<1> QED
  BY <1>1, <1>2

LEMMA LoopKept ==
    ASSUME LoopInv
    PROVE  Loop!TypeOK /\ Loop!RepeatsBounded /\ Loop!StopHonouredBetween
<1>1. Loop!TypeOK
  <2>1. x9 \in 0 .. MaxPasses
    BY LoopConstants DEF LoopInv, LoopPasses
  <2> QED
    BY <2>1 DEF LoopInv, LoopCalls, CallsFit, LoopStops, LoopPasses, Loop!TypeOK
<1>2. Loop!RepeatsBounded
  <2> SUFFICES ASSUME NEW s \in Signatures
               PROVE  x5[s] + Loop!Count(s, x3) <= x4[s] /\ x4[s] <= MaxRepeats
    BY DEF Loop!RepeatsBounded
  <2>1. Loop!Count(s, x3) = IF s \in Elements(x3) THEN 1 ELSE 0
    BY LoopCounts, TimesOfDistinct DEF LoopInv, LoopCalls, CallsFit
  <2>2. x5[s] \in Nat
    BY DEF LoopInv, LoopCalls, CallsFit
  <2> QED
    BY <2>1, <2>2 DEF LoopInv, LoopCalls, CallsFit
<1>3. Loop!StopHonouredBetween
  BY DEF LoopInv, LoopStops, Loop!StopHonouredBetween
<1> QED
  BY <1>1, <1>2, <1>3
-------------------------------------------------------------------------------
(* The tasks of an agent                                                     *)

\* x1: conv, x2: recent, x3: iterations, x4: calls, x5: spent, x6: outcome,
\* x7: tasks.

LEMMA AgentConstants ==
    /\ MaxIterations \in Nat /\ KeepRecent \in Nat \ {0} /\ Space \in Nat
    /\ SystemSize \in Nat \ {0} /\ Large \in Nat \ {0} /\ MaxCost \in Nat
    /\ Limits \in [Agent!Periods -> Nat] /\ Histories \subseteq Nat /\ AgentTasks \in Nat
BY AgentsAssumption DEF Agent!AgentAssumption

\* What is said after the system prompt.
Spoken == {m \in Agent!Messages : m.kind # "system"}

LEMMA SpokenSmall ==
    /\ Spoken \subseteq Agent!Messages
    /\ \A kind \in Agent!Kinds \ {"system"} : Agent!Message(kind, 1) \in Spoken
    /\ Agent!Message("result", Large) \in Spoken
    /\ Agent!Message("system", SystemSize) \in Agent!Messages
    /\ \A m \in Agent!Messages : [m EXCEPT !.size = 1] \in Agent!Messages
    /\ \A m \in Spoken : /\ [m EXCEPT !.size = 1] \in Spoken
                         /\ [m EXCEPT !.size = 1].kind = m.kind
<1>1. SystemSize \in Nat \ {0} /\ Large \in Nat \ {0}
  BY AgentConstants
<1>2. /\ 1 \in 1 .. SystemSize + Large /\ Large \in 1 .. SystemSize + Large
      /\ SystemSize \in 1 .. SystemSize + Large
  BY <1>1
<1>3. PICK sizes : sizes = 1 .. SystemSize + Large
  OBVIOUS
<1> QED
  BY <1>2, <1>3 DEF Spoken, Agent!Messages, Agent!Message, Agent!Kinds

\* The places of the messages that open a turn.
IsTurn(m) == m.kind \in {"user", "note"}
TurnsIn(s) == {i \in DOMAIN s : IsTurn(s[i])}
TurnCount(s) == Cardinality(TurnsIn(s))

LEMMA TurnsFinite ==
    ASSUME NEW A, NEW s \in Seq(A)
    PROVE  /\ TurnsIn(s) \subseteq 1 .. Len(s) /\ TurnsIn(s) \subseteq Nat
           /\ IsFiniteSet(TurnsIn(s)) /\ TurnCount(s) \in Nat
<1>1. Len(s) \in Nat /\ DOMAIN s = 1 .. Len(s)
  BY LenProperties
<1>2. TurnsIn(s) \subseteq 1 .. Len(s) /\ TurnsIn(s) \subseteq Nat
  BY <1>1 DEF TurnsIn
<1>3. IsFiniteSet(1 .. Len(s))
  BY <1>1, FS_Interval
<1>4. IsFiniteSet(TurnsIn(s))
  BY <1>2, <1>3, FS_Subset
<1> QED
  BY <1>2, <1>4, FS_CardinalityType DEF TurnCount

LEMMA TurnsOfAppend ==
    ASSUME NEW A, NEW s \in Seq(A), NEW e \in A
    PROVE  TurnCount(Append(s, e)) = IF IsTurn(e) THEN TurnCount(s) + 1 ELSE TurnCount(s)
<1>1. PICK t : t = Append(s, e)
  BY Zenon
<1>7. /\ t \in Seq(A) /\ Len(t) = Len(s) + 1 /\ t[Len(s) + 1] = e
      /\ \A i \in 1 .. Len(s) : t[i] = s[i]
  BY <1>1, AppendProperties
<1>2. PICK n \in Nat : n = Len(s) /\ DOMAIN s = 1 .. n /\ DOMAIN t = 1 .. n + 1
  BY <1>7, LenProperties
<1>3. TurnsIn(t) = IF IsTurn(e) THEN TurnsIn(s) \cup {n + 1} ELSE TurnsIn(s)
  <2>1. \A i \in 1 .. n + 1 : i \in 1 .. n \/ i = n + 1
    BY <1>2
  <2>2. 1 .. n \subseteq 1 .. n + 1 /\ n + 1 \in 1 .. n + 1
    BY <1>2
  <2>3. \A i \in DOMAIN t : (i \in DOMAIN s /\ t[i] = s[i]) \/ (i = n + 1 /\ t[i] = e)
    BY <1>7, <1>2, <2>1
  <2>4. \A i \in DOMAIN s : i \in DOMAIN t /\ t[i] = s[i]
    BY <1>7, <1>2, <2>2
  <2>5. n + 1 \in DOMAIN t /\ t[n + 1] = e
    BY <1>7, <1>2, <2>2
  <2> QED
    BY <2>3, <2>4, <2>5, Zenon DEF TurnsIn
<1>4. n + 1 \notin TurnsIn(s)
  BY <1>2 DEF TurnsIn
<1>5. Cardinality(TurnsIn(s) \cup {n + 1}) = Cardinality(TurnsIn(s)) + 1
  BY Zenon, <1>4, TurnsFinite, FS_AddElement
<1> QED
  BY <1>1, <1>3, <1>5 DEF TurnCount

LEMMA TurnsOfOnly ==
    ASSUME NEW A, NEW S
    PROVE  \A s \in Seq(A) : TurnCount(OnlyIn(s, S)) <= TurnCount(s)
<1> DEFINE T == {s \in Seq(A) : TurnCount(OnlyIn(s, S)) <= TurnCount(s)}
<1>1. <<>> \in T
  <2>1. <<>> \in Seq(A)
    OBVIOUS
  <2>2. TurnCount(<<>>) \in Nat /\ OnlyIn(<<>>, S) = <<>>
    BY Zenon, <2>1, TurnsFinite, OnlyOfNone
  <2> QED
    BY <2>1, <2>2
<1>2. ASSUME NEW s \in Seq(A), NEW e \in A, s \in T PROVE Append(s, e) \in T
  <2>1. PICK o \in Seq(A) : o = OnlyIn(s, S)
    <3>1. OnlyIn(s, S) \in Seq(A \cap S) /\ A \cap S \subseteq A
      BY OnlyIsSeq
    <3> QED
      BY <3>1, SeqMonotonic
  <2>2. TurnCount(o) \in Nat /\ TurnCount(s) \in Nat /\ TurnCount(o) <= TurnCount(s)
    BY <1>2, <2>1, TurnsFinite
  <2>3. OnlyIn(Append(s, e), S) = IF e \in S THEN Append(o, e) ELSE o
    BY <2>1, OnlyOfAppend
  <2>4. TurnCount(Append(s, e)) = IF IsTurn(e) THEN TurnCount(s) + 1 ELSE TurnCount(s)
    BY TurnsOfAppend
  <2>5. TurnCount(Append(o, e)) = IF IsTurn(e) THEN TurnCount(o) + 1 ELSE TurnCount(o)
    BY TurnsOfAppend
  <2>6. TurnCount(OnlyIn(Append(s, e), S)) <= TurnCount(Append(s, e))
    BY <2>2, <2>3, <2>4, <2>5
  <2>7. Append(s, e) \in Seq(A)
    OBVIOUS
  <2> QED
    BY <2>6, <2>7
<1> HIDE DEF T
<1>3. \A s \in Seq(A) : s \in T
  BY <1>1, <1>2, AnySeq
<1> QED
  BY <1>3 DEF T

\* Numbers that are moved up are as many.
Moved(M, S, n) == M = {n + j : j \in S}

LEMMA MovedUp ==
    ASSUME NEW S, IsFiniteSet(S), S \subseteq Nat, NEW n \in Nat, NEW M, Moved(M, S, n)
    PROVE  Cardinality(M) = Cardinality(S)
<1>1. PICK f : f = [j \in S |-> n + j]
  BY Zenon
<1>2. f \in [S -> M] /\ \A j \in S : f[j] = n + j
  BY <1>1 DEF Moved
<1>3. f \in Surjection(S, M)
  <2>1. \A m \in M : \E j \in S : f[j] = m
    BY <1>2 DEF Moved
  <2> QED
    BY <1>2, <2>1 DEF Surjection
<1>4. f \in Injection(S, M)
  <2>1. \A j, k \in S : n + j = n + k => j = k
    OBVIOUS
  <2>2. \A j, k \in S : f[j] = f[k] => j = k
    BY <1>2, <2>1
  <2> QED
    BY Zenon, <1>2, <2>2 DEF Injection, IsInjective
<1> QED
  BY <1>3, <1>4, FS_Surjection

\* The turns after the beginning of a sequence.
TurnsAfter(s, n) == {j \in TurnsIn(s) : j >= n + 1}
CountsAfter(s, n, r) ==
    /\ Cardinality(TurnsAfter(s, n)) = TurnCount(r)
    /\ TurnsAfter(s, n) = {n + j : j \in TurnsIn(r)}

LEMMA CountAfter ==
    ASSUME NEW A, NEW p \in Seq(A), NEW r \in Seq(A), NEW s, s = p \o r, NEW n, n = Len(p)
    PROVE  CountsAfter(s, n, r)
<1>1. /\ s \in Seq(A) /\ Len(s) = Len(p) + Len(r)
      /\ \A i \in 1 .. Len(p) + Len(r) : s[i] = IF i <= Len(p) THEN p[i] ELSE r[i - Len(p)]
  BY ConcatProperties
<1>2. PICK l \in Nat : l = Len(r) /\ n \in Nat /\ DOMAIN r = 1 .. l /\ DOMAIN s = 1 .. n + l
  BY <1>1, LenProperties
<1>3. \A i \in 1 .. n + l : i >= n + 1 => /\ i - n \in 1 .. l /\ n + (i - n) = i
                                          /\ s[i] = r[i - n]
  BY <1>1, <1>2
<1>4. \A j \in 1 .. l : n + j \in 1 .. n + l /\ n + j >= n + 1 /\ s[n + j] = r[j]
  BY <1>1, <1>2
<1>5. TurnsAfter(s, n) = {n + j : j \in TurnsIn(r)}
  <2>1. ASSUME NEW i \in TurnsAfter(s, n) PROVE \E j \in TurnsIn(r) : i = n + j
    <3>1. i \in 1 .. n + l /\ i >= n + 1 /\ IsTurn(s[i])
      BY <1>2, <2>1 DEF TurnsAfter, TurnsIn
    <3>2. i - n \in TurnsIn(r) /\ i = n + (i - n)
      BY <1>2, <1>3, <3>1 DEF TurnsIn
    <3> QED
      BY <3>2, Zenon
  <2>2. ASSUME NEW j \in TurnsIn(r) PROVE n + j \in TurnsAfter(s, n)
    BY <1>2, <1>4, <2>2 DEF TurnsAfter, TurnsIn
  <2> QED
    BY <2>1, <2>2
<1>6. IsFiniteSet(TurnsIn(r)) /\ TurnsIn(r) \subseteq Nat
  BY TurnsFinite
<1>7. Cardinality(TurnsAfter(s, n)) = Cardinality(TurnsIn(r))
  <2>1. PICK T : T = TurnsIn(r)
    OBVIOUS
  <2>2. PICK M : M = TurnsAfter(s, n)
    OBVIOUS
  <2>3. IsFiniteSet(T) /\ T \subseteq Nat /\ n \in Nat /\ Moved(M, T, n)
    BY <1>2, <1>5, <1>6, <2>1, <2>2 DEF Moved
  <2> QED
    BY <2>1, <2>2, <2>3, MovedUp
<1> QED
  BY <1>5, <1>7 DEF TurnCount, CountsAfter

LEMMA AgentCardinality == \A S : Agent!Cardinality(S) = Cardinality(S)
BY Zenon DEF Agent!Cardinality, Cardinality, Agent!IsFiniteSet, IsFiniteSet

LEMMA UsersAre ==
    ASSUME NEW A, NEW c \in Seq(A)
    PROVE  Agent!Users(c) = TurnsAfter(c, 1)
<1>1. PICK n \in Nat : n = Len(c) /\ DOMAIN c = 1 .. n
  BY LenProperties
<1>2. \A i : i \in 2 .. n <=> i \in 1 .. n /\ i >= 1 + 1
  BY <1>1
<1> QED
  BY <1>1, <1>2 DEF Agent!Users, TurnsAfter, TurnsIn, IsTurn

\* The recent part begins where it and what follows have KeepRecent turns.
LEMMA BoundaryWhere ==
    ASSUME NEW A, NEW c \in Seq(A), NEW b \in Agent!Users(c),
           Cardinality({j \in Agent!Users(c) : j >= b}) = KeepRecent
    PROVE  Agent!Boundary(c) = b
<1>1. PICK U : U = Agent!Users(c)
  OBVIOUS
<1>2. U \subseteq Nat /\ (\A i \in U : i >= 2) /\ IsFiniteSet(U)
  <2>1. TurnsIn(c) \subseteq Nat /\ IsFiniteSet(TurnsIn(c))
    BY TurnsFinite
  <2>2. U = TurnsAfter(c, 1)
    BY <1>1, UsersAre
  <2>3. U \subseteq TurnsIn(c) /\ \A i \in U : i >= 2
    BY <2>2 DEF TurnsAfter
  <2> QED
    BY <2>1, <2>3, FS_Subset
<1>3. PICK E : E = {i \in U : Cardinality({j \in U : j >= i}) = KeepRecent}
  BY Zenon
<1>4. ASSUME NEW i \in E, NEW k \in E, i <= k PROVE i = k
  <2>1. PICK S, T : S = {j \in U : j >= i} /\ T = {j \in U : j >= k}
    BY Zenon
  <2>5. i \in U /\ k \in U /\ i \in Nat /\ k \in Nat
    BY <1>2, <1>3
  <2>6. \A j \in U : j \in Nat /\ (j >= k => j >= i)
    BY <1>2, <1>4, <2>5
  <2>2. i \in Nat /\ k \in Nat /\ i \in S /\ k \in T /\ T \subseteq S /\ S \subseteq U
    <3>1. i >= i /\ k >= k
      BY <2>5
    <3>2. \A j : /\ j \in S <=> j \in U /\ j >= i
                 /\ j \in T <=> j \in U /\ j >= k
      BY <2>1
    <3> QED
      BY Zenon, <2>5, <2>6, <3>1, <3>2
  <2>3. Cardinality(S) = Cardinality(T)
    BY <1>3, <2>1
  <2>4. S = T
    BY Zenon, <1>2, <2>2, <2>3, FS_Subset
  <2> QED
    BY <1>4, <2>1, <2>2, <2>4
<1>5. E = {b}
  <2>1. b \in E
    BY <1>1, <1>3
  <2>2. \A i \in E : i \in Nat /\ b \in Nat /\ (i <= b \/ b <= i)
    BY <1>2, <1>3, <2>1
  <2> QED
    BY <1>4, <2>1, <2>2
<1>6. {i \in Agent!Users(c) :
         Agent!Cardinality({j \in Agent!Users(c) : j >= i}) = KeepRecent} = {b}
  BY <1>1, <1>3, <1>5, AgentCardinality
<1>7. b \in Nat /\ b >= 2
  BY <1>1, <1>2
<1> QED
  BY <1>6, <1>7 DEF Agent!Boundary

\* Without enough turns it is the last message.
LEMMA BoundaryLast ==
    ASSUME NEW A, NEW c \in Seq(A), Len(c) >= 2,
           Cardinality(Agent!Users(c)) < KeepRecent
    PROVE  Agent!Boundary(c) = Len(c)
<1>1. Len(c) \in Nat
  BY LenProperties
<1>2. PICK U : U = Agent!Users(c)
  OBVIOUS
<1>3. IsFiniteSet(U) /\ Cardinality(U) \in Nat
  <2>1. IsFiniteSet(TurnsIn(c))
    BY TurnsFinite
  <2>2. U \subseteq TurnsIn(c)
    BY <1>2, UsersAre DEF TurnsAfter
  <2> QED
    BY <2>1, <2>2, FS_Subset, FS_CardinalityType
<1>4. ASSUME NEW i PROVE Cardinality({j \in U : j >= i}) # KeepRecent
  <2>1. Cardinality({j \in U : j >= i}) <= Cardinality(U)
    BY <1>3, FS_Subset
  <2>2. Cardinality({j \in U : j >= i}) \in Nat
    BY <1>3, FS_Subset, FS_CardinalityType
  <2> QED
    BY <1>2, <1>3, <2>1, <2>2, AgentConstants
<1>5. {i \in Agent!Users(c) :
         Agent!Cardinality({j \in Agent!Users(c) : j >= i}) = KeepRecent} = {}
  BY <1>2, <1>4, AgentCardinality
<1> QED
  BY <1>1, <1>5 DEF Agent!Boundary

\* A conversation: the system prompt, the old part and the recent part, which
\* has KeepRecent turns, or is the last message when there are not so many.
Whole(r) ==
    r \in Seq(Spoken) /\ Len(r) >= 1 /\ 1 \in TurnsIn(r) /\ TurnCount(r) = KeepRecent
Lone(old, r) == Len(r) = 1 /\ TurnCount(old \o r) < KeepRecent
Parts(c, h, old, r) ==
    /\ h \in Agent!Messages /\ old \in Seq(Spoken) /\ r \in Seq(Spoken)
    /\ c = (<<h>> \o old) \o r
    /\ Whole(r) \/ Lone(old, r)

LEMMA Joining ==
    ASSUME NEW h, h \in Agent!Messages, NEW o, o \in Seq(Spoken), NEW r, r \in Seq(Spoken)
    PROVE  /\ o \in Seq(Agent!Messages) /\ r \in Seq(Agent!Messages)
           /\ <<h>> \in Seq(Agent!Messages) /\ Len(<<h>>) = 1
           /\ <<h>> \o o \in Seq(Agent!Messages) /\ Len(<<h>> \o o) = Len(o) + 1
           /\ (<<h>> \o o) \o r \in Seq(Agent!Messages)
           /\ Len((<<h>> \o o) \o r) = Len(o) + 1 + Len(r)
           /\ (<<h>> \o o) \o r = <<h>> \o (o \o r)
           /\ o \o r \in Seq(Spoken) /\ Len(o \o r) = Len(o) + Len(r)
<1>1. o \in Seq(Agent!Messages) /\ r \in Seq(Agent!Messages)
  BY SpokenSmall, SeqMonotonic
<1>2. <<h>> \in Seq(Agent!Messages) /\ Len(<<h>>) = 1
  OBVIOUS
<1>3. /\ <<h>> \o o \in Seq(Agent!Messages) /\ Len(<<h>> \o o) = 1 + Len(o)
      /\ o \o r \in Seq(Spoken) /\ Len(o \o r) = Len(o) + Len(r)
  BY <1>1, <1>2, ConcatProperties
<1>4. /\ (<<h>> \o o) \o r \in Seq(Agent!Messages)
      /\ Len((<<h>> \o o) \o r) = 1 + Len(o) + Len(r)
  BY <1>1, <1>3, ConcatProperties
<1>5. (<<h>> \o o) \o r = <<h>> \o (o \o r)
  BY <1>1, <1>2, ConcatAssociative
<1>6. Len(o) \in Nat /\ Len(r) \in Nat
  BY LenProperties
<1> QED
  BY <1>1, <1>2, <1>3, <1>4, <1>5, <1>6

Found(c, h, old, r) ==
    /\ c \in Seq(Agent!Messages) /\ c[1] = h
    /\ Len(r) >= 1 /\ Agent!Boundary(c) = Len(old) + 2
    /\ Agent!Old(c) = old /\ Agent!Recent(c) = r

LEMMA PartsFound ==
    ASSUME NEW c, NEW h, NEW old, NEW r, Parts(c, h, old, r)
    PROVE  Found(c, h, old, r)
<1> DEFINE M == Agent!Messages
<1>1. h \in M /\ old \in Seq(Spoken) /\ r \in Seq(Spoken) /\ c = (<<h>> \o old) \o r
  BY DEF Parts
<1>2. PICK p : p = <<h>> \o old
  BY Zenon
<1>3. /\ p \in Seq(M) /\ old \in Seq(M) /\ r \in Seq(M) /\ <<h>> \in Seq(M) /\ Len(<<h>>) = 1
      /\ Len(p) = Len(old) + 1 /\ c = p \o r /\ c \in Seq(M)
      /\ Len(c) = Len(old) + 1 + Len(r) /\ c = <<h>> \o (old \o r)
      /\ old \o r \in Seq(Spoken) /\ old \o r \in Seq(M)
  <2>1. old \o r \in Seq(Spoken)
    BY <1>1, Joining
  <2>2. old \o r \in Seq(M)
    BY <2>1, SpokenSmall, SeqMonotonic
  <2> QED
    BY <1>1, <1>2, <2>1, <2>2, Joining
<1>4. PICK k, l \in Nat : k = Len(old) /\ l = Len(r)
  BY <1>3, LenProperties
<1>5. l >= 1
  BY <1>4 DEF Parts, Whole, Lone
<1>6. c[1] = h
  BY <1>3, ConcatProperties
<1>7. Agent!Boundary(c) = k + 2
  <2>1. CASE Whole(r)
    <3>1. TurnsAfter(c, k + 1) = {k + 1 + j : j \in TurnsIn(r)} /\ Cardinality(TurnsAfter(c, k + 1)) = KeepRecent
      <4>1. CountsAfter(c, k + 1, r)
        BY Zenon, <1>3, <1>4, CountAfter
      <4> QED
        BY <2>1, <4>1 DEF CountsAfter, Whole
    <3>2. Agent!Users(c) = TurnsAfter(c, 1)
      BY Zenon, <1>3, UsersAre
    <3>3. TurnsIn(c) \subseteq Nat
      BY Zenon, <1>3, TurnsFinite
    <3>4. k + 2 \in TurnsAfter(c, k + 1)
      BY <2>1, <3>1 DEF Whole
    <3>5. {j \in Agent!Users(c) : j >= k + 2} = TurnsAfter(c, k + 1) /\ k + 2 \in Agent!Users(c)
      BY <3>2, <3>3, <3>4 DEF TurnsAfter
    <3> QED
      BY Zenon, <1>3, <3>1, <3>5, BoundaryWhere
  <2>2. CASE Lone(old, r)
    <3>1. Cardinality(TurnsAfter(c, 1)) = TurnCount(old \o r)
      <4>1. CountsAfter(c, 1, old \o r)
        BY Zenon, <1>3, CountAfter
      <4> QED
        BY <4>1 DEF CountsAfter
    <3>2. Cardinality(Agent!Users(c)) < KeepRecent
      BY Zenon, <1>3, <2>2, <3>1, UsersAre DEF Lone
    <3>3. Len(c) = k + 2 /\ Len(c) >= 2
      BY <1>3, <1>4, <2>2 DEF Lone
    <3> QED
      BY Zenon, <1>3, <3>2, <3>3, BoundaryLast
  <2> QED
    BY <2>1, <2>2 DEF Parts
<1>8. Agent!Recent(c) = r
  <2>1. SubSeq(c, k + 2, Len(c)) = SubSeq(r, k + 2 - (k + 1), Len(c) - (k + 1))
    <3>1. k + 2 \in Len(p) + 1 .. Len(p) + Len(r) /\ Len(c) \in Len(p) + 1 .. Len(p) + Len(r)
      BY <1>3, <1>4, <1>5
    <3> QED
      BY <1>3, <1>4, <3>1, SubSeqOfConcat2
  <2>2. k + 2 - (k + 1) = 1 /\ Len(c) - (k + 1) = Len(r)
    BY <1>3, <1>4
  <2>3. SubSeq(r, 1, Len(r)) = r
    BY <1>3, SubSeqFull
  <2> QED
    BY Zenon, <1>7, <2>1, <2>2, <2>3 DEF Agent!Recent
<1>9. Agent!Old(c) = old
  <2>0. Agent!Old(c) = SubSeq(c, 2, k + 1)
    BY <1>4, <1>7 DEF Agent!Old
  <2>1. CASE k = 0
    <3>1. old = <<>> /\ SubSeq(c, 2, k + 1) = <<>>
      BY <1>3, <1>4, <2>1, EmptySeq, SubSeqEmpty
    <3> QED
      BY <2>0, <3>1
  <2>2. CASE k >= 1
    <3>1. SubSeq(c, 2, k + 1) = SubSeq(p, 2, k + 1)
      <4>1. 2 \in 1 .. Len(p) /\ k + 1 \in 1 .. Len(p)
        BY <1>3, <1>4, <2>2
      <4>2. SubSeq(p \o r, 2, k + 1) = SubSeq(p, 2, k + 1)
        BY Zenon, <1>3, <4>1, SubSeqOfConcat1
      <4> QED
        BY Zenon, <1>3, <4>2
    <3>2. SubSeq(p, 2, k + 1) = SubSeq(old, 2 - 1, k + 1 - 1)
      <4>1. 2 \in Len(<<h>>) + 1 .. Len(<<h>>) + Len(old) /\ k + 1 \in Len(<<h>>) + 1 .. Len(<<h>>) + Len(old)
        BY <1>3, <1>4, <2>2
      <4> QED
        BY <1>2, <1>3, <1>4, <4>1, SubSeqOfConcat2
    <3>3. SubSeq(old, 1, k) = old /\ 2 - 1 = 1 /\ k + 1 - 1 = k
      BY <1>3, <1>4, SubSeqFull
    <3> QED
      BY <2>0, <3>1, <3>2, <3>3
  <2> QED
    BY <2>1, <2>2
<1> QED
  BY <1>3, <1>4, <1>5, <1>6, <1>7, <1>8, <1>9 DEF Found

SplitAt(old, r, rest, i, h) ==
    /\ old \in Seq(Spoken) /\ r \in Seq(Spoken) /\ Len(old) = i - 1
    /\ Len(r) = Len(rest) - i + 1 /\ rest = old \o r /\ r[1] = rest[i]
    /\ <<h>> \o rest = (<<h>> \o old) \o r

LEMMA Splitting ==
    ASSUME NEW h, h \in Agent!Messages, NEW rest, rest \in Seq(Spoken), NEW i \in 1 .. Len(rest)
    PROVE  SplitAt(SubSeq(rest, 1, i - 1), SubSeq(rest, i, Len(rest)), rest, i, h)
<1>1. PICK n \in Nat : n = Len(rest) /\ i \in 1 .. n
  BY LenProperties
<1>2. PICK old, r : old = SubSeq(rest, 1, i - 1) /\ r = SubSeq(rest, i, n)
  BY Zenon
<1>3. /\ old \in Seq(Spoken) /\ r \in Seq(Spoken) /\ Len(old) = i - 1
      /\ Len(r) = n - i + 1 /\ r[1] = rest[i]
  BY <1>1, <1>2
<1>4. SubSeq(rest, 1, i - 1) \o SubSeq(rest, (i - 1) + 1, n) = SubSeq(rest, 1, n)
  <2>1. 1 \in 1 .. Len(rest) + 1 /\ i - 1 \in 1 - 1 .. Len(rest) /\ n \in i - 1 .. Len(rest)
    BY <1>1
  <2> QED
    BY <2>1, ConcatAdjacentSubSeq
<1>5. (i - 1) + 1 = i /\ SubSeq(rest, 1, n) = rest
  BY <1>1, SubSeqFull
<1>6. rest = old \o r
  BY <1>2, <1>4, <1>5
<1>7. (<<h>> \o old) \o r = <<h>> \o (old \o r)
  BY <1>3, Joining
<1> QED
  BY Zenon, <1>1, <1>2, <1>3, <1>6, <1>7 DEF SplitAt

LEMMA OneMessage ==
    ASSUME NEW A, NEW r \in Seq(A), Len(r) = 1
    PROVE  r[1] \in A /\ r = <<r[1]>>
<1>1. r[1] \in A
  BY ElementOfSeq
<1>2. PICK t \in Seq(A) : t = <<r[1]>>
  BY <1>1
<1>3. Len(t) = 1 /\ t[1] = r[1]
  BY <1>2
<1>4. \A i \in 1 .. Len(r) : r[i] = t[i]
  BY <1>3
<1>5. r = t
  BY <1>3, <1>4, SeqEqual
<1> QED
  BY <1>1, <1>2, <1>5

Replacing(e, s, A, g) ==
    /\ e \in Seq(A) /\ Len(e) = Len(s)
    /\ \A i \in 1 .. Len(s) : e[i] = IF i = 1 THEN g ELSE s[i]

LEMMA Replaced ==
    ASSUME NEW A, NEW s \in Seq(A), 1 \in 1 .. Len(s), NEW g \in A
    PROVE  Replacing([s EXCEPT ![1] = g], s, A, g)
BY ExceptSeq DEF Replacing

FirstIs(g, q, s) == [s EXCEPT ![1] = g] = <<g>> \o q

LEMMA FirstReplaced ==
    ASSUME NEW A, NEW h \in A, NEW g \in A, NEW q \in Seq(A), NEW s, s = <<h>> \o q
    PROVE  FirstIs(g, q, s)
<1>1. PICK t : t = <<g>> \o q
  BY Zenon
<1>2. <<h>> \in Seq(A) /\ <<g>> \in Seq(A) /\ Len(<<h>>) = 1 /\ Len(<<g>>) = 1
  OBVIOUS
<1>3. /\ s \in Seq(A) /\ Len(s) = 1 + Len(q) /\ t \in Seq(A) /\ Len(t) = 1 + Len(q)
      /\ \A i \in 1 .. 1 + Len(q) : s[i] = IF i <= 1 THEN <<h>>[i] ELSE q[i - 1]
      /\ \A i \in 1 .. 1 + Len(q) : t[i] = IF i <= 1 THEN <<g>>[i] ELSE q[i - 1]
  BY <1>1, <1>2, ConcatProperties
<1>4. PICK e : e = [s EXCEPT ![1] = g]
  BY Zenon
<1>5. PICK n \in Nat : n = Len(q)
  BY LenProperties
<1>6. e \in Seq(A) /\ Len(e) = 1 + n /\ \A i \in 1 .. 1 + n : e[i] = IF i = 1 THEN g ELSE s[i]
  <2>1. s \in Seq(A) /\ Len(s) = 1 + n /\ 1 \in 1 .. Len(s)
    BY <1>3, <1>5
  <2>2. /\ e \in Seq(A) /\ Len(e) = Len(s)
        /\ \A i \in 1 .. Len(s) : e[i] = IF i = 1 THEN g ELSE s[i]
    <3>1. Replacing([s EXCEPT ![1] = g], s, A, g)
      BY Zenon, <2>1, Replaced
    <3> QED
      BY <1>4, <3>1 DEF Replacing
  <2> QED
    BY <2>1, <2>2
<1>7. \A i \in 1 .. 1 + n : e[i] = t[i]
  <2>1. ASSUME NEW i \in 1 .. 1 + n, i # 1 PROVE ~(i <= 1)
    BY <1>5, <2>1
  <2>2. t[1] = g
    BY <1>3, <1>5
  <2> QED
    BY <1>3, <1>5, <1>6, <2>1, <2>2
<1>8. e = t
  BY <1>3, <1>5, <1>6, <1>7, SeqEqual
<1> QED
  BY Zenon, <1>1, <1>4, <1>8 DEF FirstIs

LEMMA PlaceOfRank ==
    ASSUME NEW T, IsFiniteSet(T), T \subseteq Nat, NEW k \in 1 .. Cardinality(T)
    PROVE  \E i \in T : Cardinality({j \in T : j < i}) = k - 1
BY Zenon, PlacesRanked

\* Every conversation has such parts.
HasParts(h, rest) ==
    \E old, r : /\ Parts(<<h>> \o rest, h, old, r) /\ rest = old \o r
                /\ TurnCount(rest) >= KeepRecent => Whole(r)

LEMMA PartsExist ==
    ASSUME NEW h, h \in Agent!Messages, NEW rest, rest \in Seq(Spoken), Len(rest) >= 1
    PROVE  HasParts(h, rest)
<1>1. PICK n \in Nat : n = Len(rest) /\ DOMAIN rest = 1 .. n /\ n >= 1
  BY LenProperties
<1>2. PICK T : T = TurnsIn(rest) /\ IsFiniteSet(T) /\ T \subseteq Nat /\ T \subseteq 1 .. n
  BY <1>1, TurnsFinite
<1>3. PICK t \in Nat : t = TurnCount(rest) /\ t = Cardinality(T)
  BY <1>2, TurnsFinite DEF TurnCount
<1>4. KeepRecent \in Nat \ {0}
  BY AgentConstants
<1>6. CASE t >= KeepRecent
  <2>1. PICK i \in T : Cardinality({j \in T : j < i}) = t - KeepRecent
    <3>1. PICK k \in 1 .. Cardinality(T) : k - 1 = t - KeepRecent
      <4>1. t - KeepRecent + 1 \in 1 .. Cardinality(T) /\ (t - KeepRecent + 1) - 1 = t - KeepRecent
        BY <1>3, <1>4, <1>6
      <4> QED
        BY Zenon, <4>1
    <3>2. \E i \in T : Cardinality({j \in T : j < i}) = k - 1
      BY Zenon, <1>2, PlaceOfRank
    <3> QED
      BY Zenon, <3>1, <3>2
  <2>2. PICK old, r : old = SubSeq(rest, 1, i - 1) /\ r = SubSeq(rest, i, n)
    BY Zenon
  <2>9. i \in 1 .. n /\ i - 1 \in Nat /\ (i - 1) + 1 = i /\ n - i + 1 >= 1
    BY <1>2
  <2>10. SplitAt(old, r, rest, i, h)
    BY <1>1, <2>2, <2>9, Splitting
  <2>3. /\ old \in Seq(Spoken) /\ r \in Seq(Spoken) /\ Len(old) = i - 1
        /\ Len(r) = n - i + 1 /\ rest = old \o r /\ r[1] = rest[i]
        /\ <<h>> \o rest = (<<h>> \o old) \o r
    BY Zenon, <1>1, <2>10 DEF SplitAt
  <2>4. Cardinality(TurnsAfter(rest, i - 1)) = TurnCount(r)
    <3>1. CountsAfter(rest, i - 1, r)
      BY Zenon, <2>3, <2>9, CountAfter
    <3> QED
      BY <3>1 DEF CountsAfter
  <2>5. Cardinality(TurnsAfter(rest, i - 1)) = KeepRecent
    <3>1. PICK L : L = {j \in T : j < i}
      BY Zenon
    <3>2. TurnsAfter(rest, i - 1) = T \ L /\ T \cap L = L
      <4>1. \A j \in T : j >= (i - 1) + 1 <=> ~(j < i)
        BY <1>2, <2>9
      <4> QED
        BY <1>2, <3>1, <4>1 DEF TurnsAfter
    <3>3. Cardinality(T \ L) = Cardinality(T) - Cardinality(T \cap L)
      BY Zenon, <1>2, FS_Difference
    <3>4. Cardinality(L) = t - KeepRecent
      BY <2>1, <3>1
    <3>5. Cardinality(T \ L) = t - (t - KeepRecent)
      BY Zenon, <1>3, <3>2, <3>3, <3>4
    <3>6. t - (t - KeepRecent) = KeepRecent
      BY <1>4
    <3> QED
      BY Zenon, <3>2, <3>5, <3>6
  <2>6. 1 \in TurnsIn(r) /\ Len(r) >= 1
    <3>1. DOMAIN r = 1 .. Len(r) /\ Len(r) >= 1
      BY <2>3, <2>9, LenProperties
    <3>2. IsTurn(rest[i])
      BY <1>2, <2>1 DEF TurnsIn
    <3>3. 1 \in DOMAIN r
      BY <3>1
    <3>4. IsTurn(r[1])
      BY <2>3, <3>2
    <3> QED
      BY <3>1, <3>3, <3>4, Zenon DEF TurnsIn
  <2>7. Whole(r)
    BY <2>3, <2>4, <2>5, <2>6 DEF Whole
  <2>8. Parts(<<h>> \o rest, h, old, r)
    BY Zenon, <2>3, <2>7 DEF Parts
  <2> QED
    BY Zenon, <2>3, <2>7, <2>8 DEF HasParts
<1>7. CASE ~(t >= KeepRecent)
  <2>1. PICK old, r : old = SubSeq(rest, 1, n - 1) /\ r = SubSeq(rest, n, n)
    BY Zenon
  <2>2. /\ old \in Seq(Spoken) /\ r \in Seq(Spoken) /\ Len(r) = 1 /\ rest = old \o r
        /\ <<h>> \o rest = (<<h>> \o old) \o r
    <3>1. n \in 1 .. n /\ n - n + 1 = 1
      BY <1>1
    <3>2. SplitAt(old, r, rest, n, h)
      BY <1>1, <2>1, <3>1, Splitting
    <3> QED
      BY <1>1, <3>1, <3>2 DEF SplitAt
  <2>5. TurnCount(rest) < KeepRecent
    BY <1>3, <1>4, <1>7
  <2>6. TurnCount(old \o r) = TurnCount(rest)
    BY <2>2, Zenon
  <2>3. Lone(old, r)
    BY <2>2, <2>5, <2>6 DEF Lone
  <2>4. Parts(<<h>> \o rest, h, old, r)
    BY Zenon, <2>2, <2>3 DEF Parts
  <2> QED
    BY Zenon, <1>3, <1>7, <2>2, <2>4 DEF HasParts
<1> QED
  BY <1>6, <1>7

\* An old part with no more turns leaves the recent part where it is.
LEMMA OtherOld ==
    ASSUME NEW c, NEW h, NEW old, NEW r, Parts(c, h, old, r),
           NEW o, o \in Seq(Spoken), TurnCount(o) <= TurnCount(old)
    PROVE  Parts(Agent!WithOld(c, o), h, o, r)
<1>1. Found(c, h, old, r)
  BY PartsFound
<1>2. Agent!WithOld(c, o) = (<<h>> \o o) \o r
  BY <1>1 DEF Found, Agent!WithOld
<1>3. h \in Agent!Messages /\ old \in Seq(Spoken) /\ r \in Seq(Spoken)
  BY DEF Parts
<1>4. ASSUME Lone(old, r) PROVE Lone(o, r)
  <2>1. PICK e \in Spoken : r = <<e>>
    <3>1. r[1] \in Spoken /\ r = <<r[1]>>
      BY <1>3, <1>4, OneMessage DEF Lone
    <3> QED
      BY <3>1
  <2>2. old \o r = Append(old, e) /\ o \o r = Append(o, e)
    BY <1>3, <2>1, AppendIsConcat
  <2>3. /\ TurnCount(Append(old, e)) = IF IsTurn(e) THEN TurnCount(old) + 1 ELSE TurnCount(old)
        /\ TurnCount(Append(o, e)) = IF IsTurn(e) THEN TurnCount(o) + 1 ELSE TurnCount(o)
    BY <1>3, TurnsOfAppend
  <2>4. TurnCount(old) \in Nat /\ TurnCount(o) \in Nat
    BY <1>3, TurnsFinite
  <2> QED
    BY <1>4, <2>2, <2>3, <2>4, AgentConstants DEF Lone
<1> QED
  BY Zenon, <1>2, <1>3, <1>4 DEF Parts

LEMMA TruncatedParts ==
    ASSUME NEW c, NEW h, NEW old, NEW r, Parts(c, h, old, r)
    PROVE  \E o : Parts(Agent!Truncated(c), h, o, r)
<1>1. Agent!Old(c) = old /\ old \in Seq(Spoken)
  BY Zenon, PartsFound DEF Found, Parts
<1>2. PICK o : o = [i \in DOMAIN old |-> IF old[i].kind = "result"
                                         THEN [old[i] EXCEPT !.size = 1] ELSE old[i]]
  BY Zenon
<1>3. Agent!Truncated(c) = Agent!WithOld(c, o)
  BY <1>1, <1>2 DEF Agent!Truncated
<1>4. PICK n \in Nat : DOMAIN old = 1 .. n /\ \A i \in 1 .. n : old[i] \in Spoken
  BY <1>1, LenProperties
<1>5. \A i \in 1 .. n : o[i] \in Spoken /\ o[i].kind = old[i].kind
  BY <1>2, <1>4, SpokenSmall
<1>6. o \in Seq(Spoken) /\ DOMAIN o = 1 .. n
  <2>1. o \in [1 .. n -> Spoken]
    BY <1>2, <1>4, <1>5
  <2> QED
    BY <2>1, SeqDef
<1>7. TurnCount(o) <= TurnCount(old)
  <2>1. TurnsIn(o) = TurnsIn(old)
    BY <1>4, <1>5, <1>6 DEF TurnsIn, IsTurn
  <2> QED
    BY <1>6, <2>1, TurnsFinite DEF TurnCount
<1> QED
  BY <1>3, <1>6, <1>7, OtherOld

\* A conversation that fits, or whose old part has only what is in A.
Reduced(c, h, A, r) ==
    \E o : Parts(c, h, o, r) /\ (Agent!Size(c) <= Space \/ o \in Seq(A))

LEMMA PassReduces ==
    ASSUME NEW c, NEW h, NEW r, NEW A, A \subseteq Spoken, Reduced(c, h, A, r), NEW kinds
    PROVE  Reduced(Agent!Pass(c, kinds), h, {m \in A : m.kind \notin kinds}, r)
<1>1. PICK old : Parts(c, h, old, r) /\ (Agent!Size(c) <= Space \/ old \in Seq(A))
  BY DEF Reduced
<1>2. CASE Agent!Size(c) <= Space
  <2>1. Agent!Pass(c, kinds) = c
    BY <1>2 DEF Agent!Pass
  <2> QED
    BY <1>1, <1>2, <2>1 DEF Reduced
<1>3. CASE ~(Agent!Size(c) <= Space)
  <2>1. PICK S : S = {m \in Agent!Messages : m.kind \notin kinds}
    BY Zenon
  <2>2. PICK o : o = OnlyIn(old, S)
    OBVIOUS
  <2>3. Agent!Old(c) = old
    BY <1>1, PartsFound DEF Found
  <2>4. Agent!OnlyIn(old, S) = OnlyIn(old, S)
    BY Zenon DEF Agent!OnlyIn, OnlyIn
  <2>5. Agent!Pass(c, kinds) = Agent!WithOld(c, o)
    <3>1. Agent!Without(c, kinds) = Agent!WithOld(c, Agent!OnlyIn(Agent!Old(c), {m \in Agent!Messages : m.kind \notin kinds}))
      BY Zenon DEF Agent!Without
    <3> QED
      BY <1>3, <2>1, <2>2, <2>3, <2>4, <3>1 DEF Agent!Pass
  <2>6. o \in Seq(A \cap S) /\ TurnCount(o) <= TurnCount(old)
    BY <1>1, <1>3, <2>2, OnlyIsSeq, TurnsOfOnly
  <2>7. A \cap S = {m \in A : m.kind \notin kinds}
    BY <2>1, SpokenSmall
  <2>8. o \in Seq(Spoken)
    BY <2>6, SeqMonotonic
  <2>9. Parts(Agent!WithOld(c, o), h, o, r)
    BY <1>1, <2>6, <2>8, OtherOld
  <2> QED
    BY <2>5, <2>6, <2>7, <2>9 DEF Reduced
<1> QED
  BY <1>2, <1>3

\* Pruning keeps the recent part; what is pruned fits, or nothing old is left.
PrunedTo(c, h, o, r) == Parts(c, h, o, r) /\ (Agent!Size(c) <= Space \/ o = <<>>)

LEMMA PruningKeeps ==
    ASSUME NEW c, NEW h, NEW old, NEW r, Parts(c, h, old, r)
    PROVE  \E g, o : PrunedTo(Agent!Pruned(c), g, o, r)
<1>1. PICK c1 : c1 = IF Agent!Size(c) <= Space THEN c ELSE Agent!Truncated(c)
  OBVIOUS
<1>2. Reduced(c1, h, Spoken, r)
  <2>1. PICK o : Parts(c1, h, o, r)
    BY <1>1, TruncatedParts
  <2> QED
    BY Zenon, <2>1 DEF Reduced, Parts
<1>3. PICK c2 : c2 = Agent!Pass(Agent!Pass(Agent!Pass(c1, {"result"}), {"assistant"}), {"user", "note"})
  OBVIOUS
<1>4. Reduced(c2, h, {}, r)
  <2>1. PICK A1, A2, A3 :
          /\ A1 = {m \in Spoken : m.kind \notin {"result"}}
          /\ A2 = {m \in A1 : m.kind \notin {"assistant"}}
          /\ A3 = {m \in A2 : m.kind \notin {"user", "note"}}
    BY Zenon
  <2>2. A1 \subseteq Spoken /\ A2 \subseteq Spoken
    BY <2>1
  <2>3. A3 = {}
    BY <2>1 DEF Spoken, Agent!Messages, Agent!Kinds
  <2>4. Reduced(Agent!Pass(c1, {"result"}), h, A1, r)
    BY <1>2, <2>1, PassReduces
  <2>5. Reduced(Agent!Pass(Agent!Pass(c1, {"result"}), {"assistant"}), h, A2, r)
    BY <2>1, <2>2, <2>4, PassReduces
  <2>6. Reduced(c2, h, A3, r)
    BY <1>3, <2>1, <2>2, <2>5, PassReduces
  <2> QED
    BY <2>3, <2>6
<1>5. PICK o : Parts(c2, h, o, r) /\ (Agent!Size(c2) <= Space \/ o = <<>>)
  <2>1. \A o \in Seq({}) : o = <<>>
    OBVIOUS
  <2> QED
    BY <1>4, <2>1 DEF Reduced
<1>6. Agent!Pruned(c) = IF Agent!Size(c2) <= Space THEN c2 ELSE [c2 EXCEPT ![1].size = 1]
  BY <1>1, <1>3 DEF Agent!Pruned
<1>7. CASE Agent!Size(c2) <= Space
  BY <1>5, <1>6, <1>7 DEF PrunedTo
<1>8. CASE ~(Agent!Size(c2) <= Space)
  <2>1. PICK g \in Agent!Messages : g = [h EXCEPT !.size = 1]
    BY Zenon, <1>5, SpokenSmall DEF Parts
  <2>2. c2 \in Seq(Agent!Messages) /\ c2[1] = h /\ c2 = (<<h>> \o o) \o r /\ Len(c2) >= 1
    <3>1. Len(o) \in Nat /\ Len(r) \in Nat
      BY <1>5, LenProperties DEF Parts
    <3> QED
      BY <1>5, <3>1, PartsFound, Joining DEF Found, Parts
  <2>3. [c2 EXCEPT ![1].size = 1] = [c2 EXCEPT ![1] = g]
    BY <2>1, <2>2
  <2>4. [c2 EXCEPT ![1] = g] = (<<g>> \o o) \o r
    <3>3. /\ o \in Seq(Spoken) /\ r \in Seq(Spoken) /\ h \in Agent!Messages
      BY <1>5 DEF Parts
    <3>4. PICK q \in Seq(Agent!Messages) : q = o \o r
      BY Zenon, <3>3, Joining, SpokenSmall, SeqMonotonic
    <3>5. c2 = <<h>> \o q /\ (<<g>> \o o) \o r = <<g>> \o q
      BY <2>2, <3>3, <3>4, Joining
    <3>6. FirstIs(g, q, c2)
      BY Zenon, <3>3, <3>5, FirstReplaced
    <3> QED
      BY Zenon, <3>5, <3>6 DEF FirstIs
  <2>5. Parts(Agent!Pruned(c), g, o, r)
    BY Zenon, <1>5, <1>6, <1>8, <2>3, <2>4 DEF Parts
  <2>6. o = <<>>
    BY <1>5, <1>8
  <2> QED
    BY <2>5, <2>6 DEF PrunedTo
<1> QED
  BY <1>7, <1>8

\* The recent part, or None, is that of the conversation.
Talks(c, r) == \E h, old, w : Parts(c, h, old, w) /\ (r # None => r = w /\ Whole(w))

JoinedTo(h, o, r) ==
    /\ <<h>> \in Seq(Agent!Messages) /\ Len(<<h>>) = 1
    /\ (<<h>> \o o) \o r = <<h>> \o (o \o r)
    /\ o \o r \in Seq(Spoken) /\ Len(o \o r) = Len(o) + Len(r)

LEMMA JoiningTo ==
    ASSUME NEW h, h \in Agent!Messages, NEW o, o \in Seq(Spoken), NEW r, r \in Seq(Spoken)
    PROVE  JoinedTo(h, o, r)
BY Joining DEF JoinedTo

Associates(s, t, u) == (s \o t) \o u = s \o (t \o u)

LEMMA Associating ==
    ASSUME NEW A, NEW s \in Seq(A), NEW t \in Seq(A), NEW u \in Seq(A)
    PROVE  Associates(s, t, u)
BY ConcatAssociative DEF Associates

LEMMA SaidMoves ==
    ASSUME NEW h, h \in Agent!Messages, NEW r, Whole(r), NEW m, m \in Seq(Spoken),
           NEW d, NEW g, NEW o, Parts(d, g, o, r)
    PROVE  Talks(d \o m, Agent!Recent((<<h>> \o r) \o m))
<1>1. /\ r \in Seq(Spoken) /\ o \in Seq(Spoken) /\ g \in Agent!Messages
      /\ d = (<<g>> \o o) \o r /\ Len(r) >= 1
  BY DEF Parts, Whole
<1>2. PICK q : q = r \o m
  BY Zenon
<1>3. q \in Seq(Spoken) /\ Len(q) = Len(r) + Len(m) /\ (<<h>> \o r) \o m = <<h>> \o q
  BY <1>1, <1>2, Joining
<1>4. Len(q) >= 1
  <2>1. Len(r) \in Nat /\ Len(m) \in Nat
    BY <1>1, LenProperties
  <2> QED
    BY <1>1, <1>3, <2>1
<1>5. TurnCount(q) >= KeepRecent
  <2>1. TurnsIn(r) \subseteq TurnsIn(q)
    <3>1. /\ Len(r) \in Nat /\ Len(m) \in Nat /\ DOMAIN r = 1 .. Len(r)
          /\ DOMAIN q = 1 .. Len(r) + Len(m)
          /\ \A i \in 1 .. Len(r) + Len(m) : q[i] = IF i <= Len(r) THEN r[i] ELSE m[i - Len(r)]
      BY <1>1, <1>2, <1>3, ConcatProperties, LenProperties
    <3>2. \A i \in 1 .. Len(r) : i \in 1 .. Len(r) + Len(m) /\ q[i] = r[i]
      BY <3>1
    <3> QED
      BY <3>1, <3>2 DEF TurnsIn
  <2>2. IsFiniteSet(TurnsIn(q)) /\ TurnCount(q) \in Nat /\ TurnCount(r) \in Nat
    BY <1>1, <1>3, TurnsFinite
  <2>3. TurnCount(r) <= TurnCount(q)
    BY <2>1, <2>2, FS_Subset DEF TurnCount
  <2> QED
    BY <2>3 DEF Whole
<1>6. PICK old, w : Parts(<<h>> \o q, h, old, w) /\ q = old \o w /\ Whole(w)
  <2>1. HasParts(h, q)
    BY <1>3, <1>4, PartsExist
  <2> QED
    BY Zenon, <1>5, <2>1 DEF HasParts
<1>7. Agent!Recent((<<h>> \o r) \o m) = w
  BY Zenon, <1>3, <1>6, PartsFound DEF Found
<1>8. old \in Seq(Spoken) /\ w \in Seq(Spoken)
  BY <1>6 DEF Parts
<1>9. d \o m = (<<g>> \o (o \o old)) \o w /\ o \o old \in Seq(Spoken)
  <2>1. PICK p : p = <<g>> \o o
    BY Zenon
  <2>2. /\ p \in Seq(Agent!Messages) /\ r \in Seq(Agent!Messages) /\ m \in Seq(Agent!Messages)
        /\ old \in Seq(Agent!Messages) /\ w \in Seq(Agent!Messages)
    BY <1>1, <1>8, <2>1, Joining
  <2>3. Associates(p, r, m) /\ Associates(p, old, w)
    BY <2>2, Associating
  <2>5. JoinedTo(g, o, old)
    BY <1>1, <1>8, JoiningTo
  <2> QED
    BY Zenon, <1>1, <1>2, <1>6, <2>1, <2>3, <2>5 DEF Associates, JoinedTo
<1>10. Parts(d \o m, g, o \o old, w)
  BY Zenon, <1>1, <1>6, <1>8, <1>9 DEF Parts
<1> QED
  BY <1>6, <1>7, <1>10 DEF Talks

LEMMA TalkGoesOn ==
    ASSUME NEW c, NEW h, NEW old, NEW w, Parts(c, h, old, w),
           NEW r, r # None => r = w /\ Whole(w), NEW m, m \in Seq(Spoken),
           NEW d, NEW g, NEW o, Parts(d, g, o, w)
    PROVE  Talks(d \o m, IF r = None THEN None ELSE Agent!Recent((<<c[1]>> \o r) \o m))
<1>1. CASE r # None
  <2>1. c[1] = h /\ h \in Agent!Messages /\ r = w /\ Whole(w)
    BY <1>1, PartsFound DEF Found, Parts
  <2> QED
    BY <1>1, <2>1, SaidMoves
<1>2. CASE r = None
  <2>1. PICK q : q = o \o w
    BY Zenon
  <2>2. /\ g \in Agent!Messages /\ o \in Seq(Spoken) /\ w \in Seq(Spoken)
        /\ d = (<<g>> \o o) \o w /\ Len(w) >= 1
    BY Zenon, PartsFound DEF Parts, Found
  <2>3. q \in Seq(Spoken) /\ d = <<g>> \o q /\ Len(q) = Len(o) + Len(w)
    <3>1. JoinedTo(g, o, w)
      BY <2>2, JoiningTo
    <3> QED
      BY <2>1, <2>2, <3>1 DEF JoinedTo
  <2>4. q \o m \in Seq(Spoken) /\ d \o m = <<g>> \o (q \o m) /\ Len(q \o m) = Len(q) + Len(m)
    <3>1. JoinedTo(g, q, m)
      BY <2>2, <2>3, JoiningTo
    <3> QED
      BY <2>3, <3>1 DEF JoinedTo
  <2>5. Len(q \o m) >= 1
    <3>1. Len(o) \in Nat /\ Len(w) \in Nat /\ Len(m) \in Nat
      BY <2>2, LenProperties
    <3> QED
      BY <2>2, <2>3, <2>4, <3>1
  <2>6. PICK p, v : Parts(<<g>> \o (q \o m), g, p, v)
    BY Zenon, <2>2, <2>4, <2>5, PartsExist DEF HasParts
  <2> QED
    BY <1>2, <2>4, <2>6 DEF Talks
<1> QED
  BY <1>1, <1>2

\* What a conversation begins with.
LEMMA TalkBegins ==
    ASSUME NEW n \in Nat, NEW first1,
           first1 = (<<Agent!Message("system", SystemSize)>> \o [i \in 1 .. n |-> Agent!Turn(i)])
                      \o <<Agent!Message("user", 1)>>
    PROVE  /\ Talks(first1, IF Agent!Cardinality(Agent!Users(first1)) >= KeepRecent
                            THEN Agent!Recent(first1) ELSE None)
<1>1. PICK h, e, u : /\ h = Agent!Message("system", SystemSize) /\ u = Agent!Message("user", 1)
                     /\ e = [i \in 1 .. n |-> Agent!Turn(i)]
  BY Zenon
<1>2. h \in Agent!Messages /\ u \in Spoken /\ <<u>> \in Seq(Spoken) /\ Len(<<u>>) = 1
  BY <1>1, SpokenSmall DEF Agent!Kinds
<1>3. e \in Seq(Spoken)
  <2>1. \A i \in 1 .. n : Agent!Turn(i) \in Spoken
    BY SpokenSmall DEF Agent!Turn, Agent!Kinds
  <2>2. e \in [1 .. n -> Spoken]
    BY <1>1, <2>1
  <2> QED
    BY <2>2, SeqDef
<1>4. PICK rest : rest = e \o <<u>>
  BY Zenon
<1>5. /\ rest \in Seq(Spoken) /\ Len(rest) = Len(e) + 1 /\ first1 = <<h>> \o rest
      /\ <<h>> \in Seq(Agent!Messages) /\ Len(<<h>>) = 1 /\ rest \in Seq(Agent!Messages)
      /\ first1 \in Seq(Agent!Messages)
  <2>1. rest \in Seq(Spoken) /\ Len(rest) = Len(e) + 1 /\ first1 = <<h>> \o rest
    <3>1. JoinedTo(h, e, <<u>>)
      BY Zenon, <1>2, <1>3, JoiningTo
    <3> QED
      BY <1>1, <1>2, <1>4, <3>1 DEF JoinedTo
  <2>2. rest \in Seq(Agent!Messages)
    BY <2>1, SpokenSmall, SeqMonotonic
  <2>3. <<h>> \in Seq(Agent!Messages) /\ Len(<<h>>) = 1
    BY <1>2
  <2>4. <<h>> \o rest \in Seq(Agent!Messages)
    BY <2>2, <2>3, ConcatProperties
  <2> QED
    BY Zenon, <2>1, <2>2, <2>3, <2>4
<1>6. Len(rest) >= 1
  BY <1>3, <1>5, LenProperties
<1>7. PICK old, r : /\ Parts(first1, h, old, r)
                    /\ TurnCount(rest) >= KeepRecent => Whole(r)
  <2>1. HasParts(h, rest)
    BY <1>2, <1>5, <1>6, PartsExist
  <2> QED
    BY Zenon, <1>5, <2>1 DEF HasParts
<1>8. Agent!Cardinality(Agent!Users(first1)) = TurnCount(rest)
  <2>1. CountsAfter(first1, 1, rest)
    BY Zenon, <1>5, CountAfter
  <2> QED
    BY Zenon, <1>5, <2>1, UsersAre, AgentCardinality DEF CountsAfter
<1>9. Agent!Recent(first1) = r
  BY <1>7, PartsFound DEF Found
<1> QED
  BY Zenon, <1>7, <1>8, <1>9 DEF Talks

LEMMA SuffixOfJoin ==
    ASSUME NEW A, NEW p \in Seq(A), NEW r \in Seq(A), NEW c, c = p \o r
    PROVE  Agent!EndsWith(c, r)
<1>1. PICK k, l \in Nat : k = Len(p) /\ l = Len(r)
  BY LenProperties
<1>2. /\ c \in Seq(A) /\ Len(c) = k + l
      /\ \A i \in 1 .. k + l : c[i] = IF i <= k THEN p[i] ELSE r[i - k]
  BY <1>1, ConcatProperties
<1>3. PICK s : s = SubSeq(c, k + 1, Len(c))
  OBVIOUS
<1>4. s \in Seq(A) /\ Len(s) = l /\ \A i \in 1 .. l : s[i] = c[k + i]
  BY <1>2, <1>3
<1>5. \A i \in 1 .. l : k + i \in 1 .. k + l /\ ~(k + i <= k) /\ (k + i) - k = i
  OBVIOUS
<1>6. \A i \in 1 .. l : s[i] = r[i]
  BY Zenon, <1>2, <1>4, <1>5
<1>7. s = r
  BY <1>1, <1>4, <1>6, SeqEqual
<1>8. k + 1 \in 1 .. Len(c) + 1
  BY <1>2
<1> QED
  BY Zenon, <1>3, <1>7, <1>8 DEF Agent!EndsWith

AgentTalk ==
    \/ x1 = <<>> /\ x2 = None /\ x6 = "none"
    \/ Talks(x1, x2)
AgentSpent ==
    /\ x5 \in [Agent!Periods -> Nat]
    /\ \A p \in Agent!Periods : x5[p] <= Limits[p]
AgentSteps ==
    /\ x3 \in 0 .. MaxIterations + 1 /\ x4 \in 0 .. 2 /\ x6 \in Agent!Outcomes
    /\ x7 \in 0 .. AgentTasks
    /\ x6 = "running" => x3 <= MaxIterations
AgentInv == AgentTalk /\ AgentSpent /\ AgentSteps

LEMMA AgentInit == Agent!Init => AgentInv
<1> SUFFICES ASSUME Agent!Init PROVE AgentInv
  OBVIOUS
<1>1. AgentTalk
  BY DEF Agent!Init, AgentTalk
<1>2. AgentSpent
  <2>1. x5 = [p \in Agent!Periods |-> 0]
    BY DEF Agent!Init
  <2>2. \A p \in Agent!Periods : Limits[p] \in Nat
    BY AgentConstants
  <2> QED
    BY <2>1, <2>2 DEF AgentSpent
<1>3. AgentSteps
  BY AgentConstants DEF Agent!Init, AgentSteps, Agent!Outcomes
<1> QED
  BY <1>1, <1>2, <1>3 DEF AgentInv

LEMMA AgentBegins ==
    ASSUME AgentInv, NEW history \in Histories, Agent!Begin(history)
    PROVE  AgentInv'
<1>1. PICK c : c = (<<Agent!Message("system", SystemSize)>> \o [i \in 1 .. history |-> Agent!Turn(i)])
                      \o <<Agent!Message("user", 1)>>
  BY Zenon
<1>2. /\ x6 # "running" /\ x7 < AgentTasks /\ x7' = x7 + 1 /\ x6' = "running"
      /\ x1' = c /\ x3' = 0 /\ x4' = 0 /\ x5' = [x5 EXCEPT !["request"] = 0]
      /\ x2' = IF Agent!Cardinality(Agent!Users(c)) >= KeepRecent THEN Agent!Recent(c) ELSE None
  BY <1>1 DEF Agent!Begin
<1>3. AgentTalk'
  <2>1. PICK k \in Nat : k = history
    BY AgentConstants
  <2>2. Talks(c, IF Agent!Cardinality(Agent!Users(c)) >= KeepRecent THEN Agent!Recent(c) ELSE None)
    BY Zenon, <1>1, <2>1, TalkBegins
  <2>3. Talks(x1', x2')
    BY <1>2, <2>2, Zenon
  <2> QED
    BY <2>3, Zenon DEF AgentTalk
<1>4. AgentSpent'
  <2>1. \A p \in Agent!Periods : Limits[p] \in Nat /\ x5[p] \in Nat /\ x5[p] <= Limits[p]
    BY AgentConstants DEF AgentInv, AgentSpent
  <2>2. x5' = [x5 EXCEPT !["request"] = 0] /\ "request" \in Agent!Periods
    BY <1>2 DEF Agent!Periods
  <2>3. PICK s \in [Agent!Periods -> Nat] : s = x5
    BY DEF AgentInv, AgentSpent
  <2>5. PICK t : t = x5'
    OBVIOUS
  <2>4. t \in [Agent!Periods -> Nat] /\ \A p \in Agent!Periods : t[p] = s[p] \/ t[p] = 0
    BY <2>2, <2>3, <2>5
  <2> QED
    BY <2>1, <2>3, <2>5, <2>4 DEF AgentSpent
<1>5. AgentSteps'
  BY <1>2, AgentConstants DEF AgentInv, AgentSteps, Agent!Outcomes
<1> QED
  BY <1>3, <1>4, <1>5 DEF AgentInv

LEMMA AgentTalking ==
    ASSUME AgentInv, x6 = "running"
    PROVE  \E h, old, w, g, o :
             /\ Parts(x1, h, old, w) /\ (x2 # None => x2 = w /\ Whole(w))
             /\ Parts(Agent!Pruned(x1), g, o, w)
<1>1. PICK h, old, w : Parts(x1, h, old, w) /\ (x2 # None => x2 = w /\ Whole(w))
  BY DEF AgentInv, AgentTalk, Talks
<1>2. PICK g, o : Parts(Agent!Pruned(x1), g, o, w)
  BY <1>1, PruningKeeps DEF PrunedTo
<1> QED
  BY <1>1, <1>2

LEMMA AgentSaid ==
    ASSUME AgentInv, x6 = "running", NEW m, m \in Seq(Spoken), Agent!Said(m),
           x1' = x1 \o m \/ x1' = Agent!Pruned(x1) \o m
    PROVE  AgentTalk'
<1>1. PICK h, old, w, g, o :
          /\ Parts(x1, h, old, w) /\ (x2 # None => x2 = w /\ Whole(w))
          /\ Parts(Agent!Pruned(x1), g, o, w)
  BY AgentTalking
<1>2. PICK c, r, d : /\ c = x1 /\ r = x2 /\ x1' = d \o m
                     /\ d = x1 \/ d = Agent!Pruned(x1)
  OBVIOUS
<1>3. Parts(c, h, old, w) /\ (r # None => r = w /\ Whole(w)) /\ (\E a, b : Parts(d, a, b, w))
  BY <1>1, <1>2
<1>4. Talks(d \o m, IF r = None THEN None ELSE Agent!Recent((<<c[1]>> \o r) \o m))
  BY Zenon, <1>3, TalkGoesOn
<1>5. x2' = IF r = None THEN None ELSE Agent!Recent((<<c[1]>> \o r) \o m)
  BY <1>2 DEF Agent!Said
<1>6. Talks(x1', x2')
  BY <1>2, <1>4, <1>5, Zenon
<1> QED
  BY <1>6, Zenon DEF AgentTalk

LEMMA AgentCalls ==
    ASSUME AgentInv, NEW cost \in 0 .. MaxCost, NEW n \in 0 .. 2, NEW merged \in BOOLEAN,
           Agent!CallModel(cost, n, merged)
    PROVE  AgentInv'
<1>1. PICK m : m = <<Agent!Message("assistant", 1)>>
                      \o IF n > 0 /\ merged THEN <<Agent!Message("note", 1)>> ELSE <<>>
  BY Zenon
<1>2. /\ Agent!Ready /\ Agent!MayCall /\ x3' = x3 + 1 /\ Agent!Spend(cost)
      /\ x1' = Agent!Pruned(x1) \o m /\ Agent!Said(m) /\ x4' = n /\ x7' = x7
      /\ x6' = IF n = 0 THEN "answered" ELSE "running"
  BY <1>1 DEF Agent!CallModel
<1>3. x6 = "running"
  BY <1>2 DEF Agent!Ready
<1>4. m \in Seq(Spoken)
  <2>1. PICK a, b \in Spoken : a = Agent!Message("assistant", 1) /\ b = Agent!Message("note", 1)
    BY SpokenSmall DEF Agent!Kinds
  <2>2. <<a>> \in Seq(Spoken) /\ <<b>> \in Seq(Spoken) /\ <<>> \in Seq(Spoken)
    OBVIOUS
  <2>3. PICK t \in Seq(Spoken) : t = IF n > 0 /\ merged THEN <<b>> ELSE <<>>
    BY Zenon, <2>2
  <2>4. <<a>> \o t \in Seq(Spoken)
    BY <2>2, ConcatProperties
  <2> QED
    BY <1>1, <2>1, <2>3, <2>4
<1>5. AgentTalk'
  BY Zenon, <1>2, <1>3, <1>4, AgentSaid
<1>6. AgentSpent'
  <2>1. \A p \in Agent!Periods : Limits[p] \in Nat /\ x5[p] \in Nat /\ x5[p] + MaxCost <= Limits[p]
    BY <1>2, AgentConstants DEF AgentInv, AgentSpent, Agent!MayCall, Agent!CanSpend
  <2>2. x5' = [p \in Agent!Periods |-> x5[p] + cost]
    BY <1>2 DEF Agent!Spend
  <2> QED
    BY <2>1, <2>2, AgentConstants DEF AgentSpent
<1>7. AgentSteps'
  BY <1>2, <1>3, AgentConstants DEF AgentInv, AgentSteps, Agent!MayCall, Agent!Outcomes
<1> QED
  BY <1>5, <1>6, <1>7 DEF AgentInv

LEMMA AgentRunsTool ==
    ASSUME AgentInv, NEW size \in {1, Large}, Agent!RunTool(size)
    PROVE  AgentInv'
<1>1. PICK e \in Spoken : e = Agent!Message("result", size)
  BY SpokenSmall DEF Agent!Kinds
<1>2. /\ x6 = "running" /\ x4 > 0 /\ x4' = x4 - 1 /\ x1' = Append(x1, e) /\ Agent!Said(<<e>>)
      /\ x3' = x3 /\ x5' = x5 /\ x6' = x6 /\ x7' = x7
  BY <1>1 DEF Agent!RunTool
<1>3. Append(x1, e) = x1 \o <<e>>
  <2>1. PICK c, h, old, w : c = x1 /\ Parts(c, h, old, w)
    BY <1>2 DEF AgentInv, AgentTalk, Talks
  <2>2. c \in Seq(Agent!Messages) /\ e \in Agent!Messages
    BY <2>1, PartsFound, SpokenSmall DEF Found
  <2>3. Append(c, e) = c \o <<e>>
    BY <2>2, AppendIsConcat
  <2> QED
    BY <2>1, <2>3
<1>4. <<e>> \in Seq(Spoken)
  OBVIOUS
<1>5. AgentTalk'
  BY Zenon, <1>2, <1>3, <1>4, AgentSaid
<1>6. AgentSpent' /\ AgentSteps'
  BY <1>2 DEF AgentInv, AgentSpent, AgentSteps
<1> QED
  BY <1>5, <1>6 DEF AgentInv

LEMMA AgentQuiet ==
    ASSUME AgentInv,
           \/ Agent!Stopped \/ Agent!GiveUp \/ Agent!CallFails
           \/ \E p \in Agent!Periods : Agent!PeriodEnds(p)
           \/ UNCHANGED own
    PROVE  AgentInv'
<1>1. CASE Agent!Stopped
  <2>1. /\ x6 = "running" /\ x6' = "stopped" /\ x1' = x1 /\ x2' = x2 /\ x5' = x5 /\ x4' = x4
        /\ x7' = x7 /\ (x3' = x3 + 1 \/ x3' = x3)
    BY <1>1 DEF Agent!Stopped, Agent!talk
  <2> QED
    BY <2>1, AgentConstants DEF AgentInv, AgentTalk, AgentSpent, AgentSteps, Agent!Outcomes
<1>2. CASE Agent!GiveUp
  <2>1. /\ x6 = "running" /\ x6' \in {"iterations", "exhausted"} /\ x1' = x1 /\ x2' = x2
        /\ x5' = x5 /\ x4' = x4 /\ x7' = x7 /\ x3' = x3 + 1
    BY <1>2 DEF Agent!GiveUp, Agent!talk, Agent!Ready
  <2> QED
    BY <2>1, AgentConstants DEF AgentInv, AgentTalk, AgentSpent, AgentSteps, Agent!Outcomes
<1>3. CASE Agent!CallFails
  <2>1. /\ x6 = "running" /\ x6' = "failed" /\ x1' = Agent!Pruned(x1) /\ x2' = x2
        /\ x5' = x5 /\ x4' = x4 /\ x7' = x7 /\ x3' = x3 + 1
    BY <1>3 DEF Agent!CallFails, Agent!Ready
  <2>2. Talks(x1', x2')
    BY <2>1, AgentTalking DEF Talks
  <2>3. AgentTalk'
    BY <2>2, Zenon DEF AgentTalk
  <2> QED
    BY <2>1, <2>3, AgentConstants DEF AgentInv, AgentSpent, AgentSteps, Agent!Outcomes
<1>4. ASSUME NEW p \in Agent!Periods, Agent!PeriodEnds(p) PROVE AgentInv'
  <2>1. /\ x1' = x1 /\ x2' = x2 /\ x3' = x3 /\ x4' = x4 /\ x6' = x6 /\ x7' = x7
        /\ x5' = [x5 EXCEPT ![p] = 0]
    BY <1>4 DEF Agent!PeriodEnds, Agent!talk
  <2>2. \A q \in Agent!Periods : Limits[q] \in Nat /\ x5[q] \in Nat /\ x5[q] <= Limits[q]
    BY AgentConstants DEF AgentInv, AgentSpent
  <2>3. AgentSpent'
    BY <2>1, <2>2 DEF AgentInv, AgentSpent
  <2> QED
    BY <2>1, <2>3 DEF AgentInv, AgentTalk, AgentSteps
<1>5. CASE UNCHANGED own
  BY <1>5 DEF own, AgentInv, AgentTalk, AgentSpent, AgentSteps
<1> QED
  BY <1>1, <1>2, <1>3, <1>4, <1>5

LEMMA AgentStep ==
    ASSUME AgentInv, Agent!Next \/ UNCHANGED own
    PROVE  AgentInv'
<1>1. CASE Agent!Next
  BY <1>1, AgentBegins, AgentCalls, AgentRunsTool, AgentQuiet DEF Agent!Next, Agent!Work
<1>2. CASE UNCHANGED own
  BY <1>2, AgentQuiet
<1> QED
  BY <1>1, <1>2

LEMMA AgentKeeps ==
    ASSUME AgentInv
    PROVE  Agent!TypeOK /\ Agent!BudgetKept /\ Agent!RecentKept /\ Agent!PrunedFits
<1>1. ASSUME NEW h, NEW old, NEW w, Parts(x1, h, old, w), x2 # None => x2 = w /\ Whole(w)
      PROVE  /\ x1 \in Seq(Agent!Messages) /\ (x2 # None => x2 \in Seq(Agent!Messages))
             /\ x2 # None => Agent!EndsWith(x1, x2)
             /\ Agent!Size(Agent!Pruned(x1)) <= Space \/ Agent!Old(Agent!Pruned(x1)) = <<>>
  <2>1. x1 \in Seq(Agent!Messages) /\ w \in Seq(Agent!Messages)
    BY <1>1, PartsFound, SpokenSmall, SeqMonotonic DEF Found, Parts
  <2>2. Agent!EndsWith(x1, w)
    <3>1. PICK p : p = <<h>> \o old
      BY Zenon
    <3>2. p \in Seq(Agent!Messages) /\ x1 = p \o w
      BY <1>1, <3>1, Joining DEF Parts
    <3> QED
      BY Zenon, <2>1, <3>2, SuffixOfJoin
  <2>3. Agent!Size(Agent!Pruned(x1)) <= Space \/ Agent!Old(Agent!Pruned(x1)) = <<>>
    <3>1. PICK g, o : PrunedTo(Agent!Pruned(x1), g, o, w)
      BY <1>1, PruningKeeps
    <3>2. Agent!Old(Agent!Pruned(x1)) = o
      BY <3>1, PartsFound DEF Found, PrunedTo
    <3> QED
      BY <3>1, <3>2 DEF PrunedTo
  <2> QED
    BY <1>1, <2>1, <2>2, <2>3
<1>2. CASE Talks(x1, x2)
  <2>1. /\ x1 \in Seq(Agent!Messages) /\ (x2 # None => x2 \in Seq(Agent!Messages))
        /\ x2 # None => Agent!EndsWith(x1, x2)
        /\ Agent!Size(Agent!Pruned(x1)) <= Space \/ Agent!Old(Agent!Pruned(x1)) = <<>>
    BY <1>1, <1>2 DEF Talks
  <2>2. Agent!TypeOK
    BY <2>1 DEF AgentInv, AgentSpent, AgentSteps, Agent!TypeOK
  <2> QED
    BY <2>1, <2>2 DEF AgentInv, AgentSpent, Agent!BudgetKept, Agent!RecentKept, Agent!PrunedFits
<1>3. CASE x1 = <<>> /\ x2 = None /\ x6 = "none"
  <2>1. <<>> \in Seq(Agent!Messages)
    OBVIOUS
  <2>2. Agent!TypeOK
    BY <1>3, <2>1 DEF AgentInv, AgentSpent, AgentSteps, Agent!TypeOK
  <2> QED
    BY <1>3, <2>2 DEF AgentInv, AgentSpent, Agent!BudgetKept, Agent!RecentKept, Agent!PrunedFits,
                      Agent!Ready
<1> QED
  BY <1>2, <1>3 DEF AgentInv, AgentTalk
-------------------------------------------------------------------------------
(* The sessions of the chat page                                             *)

\* x1: cache, x2: disk, x3: kind, x4: at, x5: history, x6: saving, x7: order,
\* x8: broken, x9: restarts.

LEMMA ChatConstants ==
    /\ MaxMessages \in Nat /\ MaxMessages % 2 = 0 /\ MaxTurns \in Nat /\ Restarts \in Nat
    /\ None \notin Requests
BY AgentsAssumption DEF Chat!SessionAssumption

\* a was saved before b; the turns of s are in the order q of saving, and of
\* requests in it.
Before(a, b, q) == \E m, n \in DOMAIN q : m < n /\ q[m] = a /\ q[n] = b
Ordered(s, q) ==
    \A i, j \in DOMAIN s : i < j =>
      \/ s[i][1] = s[j][1] /\ s[i][2] = "user" /\ s[j][2] = "assistant"
      \/ Before(s[i][1], s[j][1], q)
Known(s, q) == \A i \in DOMAIN s : s[i][1] \in Elements(q)
SoundTurns(s, q) == s \in Seq(Chat!Turns) /\ Ordered(s, q) /\ Known(s, q)
HasTurn(s, r) == \E i \in DOMAIN s : s[i][1] = r

LEMMA NoTurns ==
    ASSUME NEW q
    PROVE  SoundTurns(<<>>, q) /\ Chat!InPairs(<<>>) /\ \A r : ~HasTurn(<<>>, r)
<1>1. <<>> \in Seq(Chat!Turns) /\ Len(<<>>) = 0 /\ DOMAIN <<>> = {}
  OBVIOUS
<1>2. 0 % 2 = 0
  OBVIOUS
<1> QED
  BY <1>1, <1>2 DEF SoundTurns, Ordered, Known, Chat!InPairs, HasTurn

LEMMA TurnTypes ==
    ASSUME NEW r \in Requests
    PROVE  <<r, "user">> \in Chat!Turns /\ <<r, "assistant">> \in Chat!Turns
BY DEF Chat!Turns

\* An exchange more.
BothTurns(s, r) == Append(Append(s, <<r, "user">>), <<r, "assistant">>)

LEMMA BothTurnsAre ==
    ASSUME NEW s, s \in Seq(Chat!Turns), NEW r \in Requests
    PROVE  /\ s \o Chat!Pair(r) = BothTurns(s, r)
           /\ BothTurns(s, r) \in Seq(Chat!Turns) /\ Len(BothTurns(s, r)) = Len(s) + 2
           /\ \A i \in 1 .. Len(s) : BothTurns(s, r)[i] = s[i]
           /\ BothTurns(s, r)[Len(s) + 1] = <<r, "user">>
           /\ BothTurns(s, r)[Len(s) + 2] = <<r, "assistant">>
<1>1. PICK u, a \in Chat!Turns : u = <<r, "user">> /\ a = <<r, "assistant">>
  BY Zenon, TurnTypes
<1>2. s \o <<u, a>> = Append(Append(s, u), a)
  OBVIOUS
<1>3. /\ Append(Append(s, u), a) \in Seq(Chat!Turns) /\ Len(Append(Append(s, u), a)) = Len(s) + 2
      /\ \A i \in 1 .. Len(s) : Append(Append(s, u), a)[i] = s[i]
      /\ Append(Append(s, u), a)[Len(s) + 1] = u
      /\ Append(Append(s, u), a)[Len(s) + 2] = a
  OBVIOUS
<1>4. Chat!Pair(r) = <<u, a>> /\ BothTurns(s, r) = Append(Append(s, u), a)
  BY <1>1, Zenon DEF Chat!Pair, BothTurns
<1> QED
  BY Zenon, <1>1, <1>2, <1>3, <1>4

LEMMA PairsOfTwo ==
    ASSUME NEW s, s \in Seq(Chat!Turns), Chat!InPairs(s), NEW r \in Requests
    PROVE  Chat!InPairs(BothTurns(s, r))
<1>1. PICK t : t = BothTurns(s, r)
  OBVIOUS
<1>2. PICK n \in Nat : n = Len(s) /\ DOMAIN s = 1 .. n /\ n % 2 = 0
  BY LenProperties DEF Chat!InPairs
<1>3. /\ t \in Seq(Chat!Turns) /\ Len(t) = n + 2 /\ \A i \in 1 .. n : t[i] = s[i]
      /\ t[n + 1] = <<r, "user">> /\ t[n + 2] = <<r, "assistant">>
  BY Zenon, <1>1, <1>2, BothTurnsAre
<1>4. DOMAIN t = 1 .. n + 2
  BY <1>3, LenProperties
<1>5. (n + 2) % 2 = 0
  BY <1>2
<1>6. ASSUME NEW i \in 1 .. n + 2, i % 2 = 1
      PROVE  t[i][2] = "user" /\ t[i + 1] = <<t[i][1], "assistant">>
  <2>1. i = n + 1 \/ (i \in 1 .. n /\ i + 1 \in 1 .. n)
    BY <1>2, <1>6
  <2>2. CASE i = n + 1
    <3>1. t[i] = <<r, "user">> /\ i + 1 = n + 2
      BY <1>3, <2>2
    <3> QED
      BY <1>3, <3>1
  <2>3. CASE i \in 1 .. n /\ i + 1 \in 1 .. n
    <3>1. s[i][2] = "user" /\ s[i + 1] = <<s[i][1], "assistant">>
      BY <1>2, <1>6, <2>3 DEF Chat!InPairs
    <3>2. t[i] = s[i] /\ t[i + 1] = s[i + 1]
      BY <1>3, <2>3
    <3> QED
      BY <3>1, <3>2
  <2> QED
    BY <2>1, <2>2, <2>3
<1> QED
  BY <1>1, <1>3, <1>4, <1>5, <1>6 DEF Chat!InPairs

\* The turns of s from one on.
FromOn(s, m) == SubSeq(s, m, Len(s))

LEMMA FromOnAre ==
    ASSUME NEW s, s \in Seq(Chat!Turns), NEW m \in 1 .. Len(s) + 1
    PROVE  /\ FromOn(s, m) \in Seq(Chat!Turns) /\ Len(FromOn(s, m)) = Len(s) + 1 - m
           /\ \A i \in 1 .. Len(s) + 1 - m : FromOn(s, m)[i] = s[m - 1 + i]
<1>1. PICK n \in Nat : n = Len(s)
  BY LenProperties
<1>2. /\ SubSeq(s, m, n) \in Seq(Chat!Turns) /\ Len(SubSeq(s, m, n)) = n + 1 - m
      /\ \A i \in 1 .. n + 1 - m : SubSeq(s, m, n)[i] = s[m - 1 + i]
  BY <1>1
<1> QED
  BY Zenon, <1>1, <1>2 DEF FromOn

LEMMA PairsFromOn ==
    ASSUME NEW s, s \in Seq(Chat!Turns), Chat!InPairs(s), NEW m \in 1 .. Len(s) + 1, m % 2 = 1
    PROVE  Chat!InPairs(FromOn(s, m))
<1>1. PICK n \in Nat : n = Len(s) /\ DOMAIN s = 1 .. n /\ n % 2 = 0
  BY LenProperties DEF Chat!InPairs
<1>2. PICK t : t = FromOn(s, m)
  OBVIOUS
<1>3. PICK k \in Nat : k = n + 1 - m
  BY <1>1
<1>4. /\ t \in Seq(Chat!Turns) /\ Len(t) = k /\ \A i \in 1 .. k : t[i] = s[m - 1 + i]
  BY Zenon, <1>1, <1>2, <1>3, FromOnAre
<1>5. DOMAIN t = 1 .. k
  BY <1>4, LenProperties
<1>6. k % 2 = 0
  BY <1>1, <1>3
<1>7. ASSUME NEW i \in 1 .. k, i % 2 = 1
      PROVE  t[i][2] = "user" /\ t[i + 1] = <<t[i][1], "assistant">>
  <2>1. PICK j \in 1 .. n : j = m - 1 + i /\ j % 2 = 1
    BY <1>1, <1>3, <1>7
  <2>2. i + 1 \in 1 .. k /\ m - 1 + (i + 1) = j + 1
    BY <1>3, <1>6, <1>7, <2>1
  <2>3. s[j][2] = "user" /\ s[j + 1] = <<s[j][1], "assistant">>
    BY Zenon, <1>1, <2>1 DEF Chat!InPairs
  <2>4. t[i] = s[j] /\ t[i + 1] = s[j + 1]
    BY Zenon, <1>4, <2>1, <2>2
  <2> QED
    BY <2>3, <2>4
<1> QED
  BY Zenon, <1>2, <1>4, <1>5, <1>6, <1>7 DEF Chat!InPairs

\* A later request changes nothing in the order of earlier ones.
LEMMA LaterOrder ==
    ASSUME NEW q, q \in Seq(Requests), NEW r \in Requests, NEW s, Ordered(s, q)
    PROVE  Ordered(s, Append(q, r))
<1>1. PICK p : p = Append(q, r)
  BY Zenon
<1>2. DOMAIN q \subseteq DOMAIN p /\ (\A i \in DOMAIN q : p[i] = q[i]) /\ DOMAIN q \subseteq Nat
  <2>1. /\ Len(q) \in Nat /\ DOMAIN q = 1 .. Len(q) /\ DOMAIN p = 1 .. Len(q) + 1
        /\ \A i \in 1 .. Len(q) : p[i] = q[i]
    BY <1>1
  <2> QED
    BY <2>1
<1>3. ASSUME NEW a, NEW b, Before(a, b, q) PROVE Before(a, b, p)
  BY <1>2, <1>3 DEF Before
<1> QED
  BY <1>1, <1>3 DEF Ordered

LEMMA LaterRequest ==
    ASSUME NEW q, q \in Seq(Requests), NEW r \in Requests, NEW s, SoundTurns(s, q)
    PROVE  SoundTurns(s, Append(q, r))
<1>1. Elements(q) \subseteq Elements(Append(q, r))
  BY AppendElements
<1> QED
  BY <1>1, LaterOrder DEF SoundTurns, Known

LEMMA SoundFromOn ==
    ASSUME NEW q, NEW s, SoundTurns(s, q), NEW m \in 1 .. Len(s) + 1
    PROVE  SoundTurns(FromOn(s, m), q) /\ \A r : HasTurn(FromOn(s, m), r) => HasTurn(s, r)
<1>1. PICK n \in Nat : n = Len(s) /\ DOMAIN s = 1 .. n
  BY LenProperties DEF SoundTurns
<1>2. PICK t : t = FromOn(s, m)
  OBVIOUS
<1>3. PICK k \in Nat : k = n + 1 - m
  BY <1>1
<1>4. /\ t \in Seq(Chat!Turns) /\ Len(t) = k /\ \A i \in 1 .. k : t[i] = s[m - 1 + i]
  BY Zenon, <1>1, <1>2, <1>3, FromOnAre DEF SoundTurns
<1>5. DOMAIN t = 1 .. k
  BY <1>4, LenProperties
<1>6. \A i \in 1 .. k : m - 1 + i \in 1 .. n
  BY <1>1, <1>3
<1>7. \A i, j \in 1 .. k : i < j => m - 1 + i < m - 1 + j
  OBVIOUS
<1>8. Ordered(t, q)
  <2> SUFFICES ASSUME NEW i \in 1 .. k, NEW j \in 1 .. k, i < j
               PROVE  \/ t[i][1] = t[j][1] /\ t[i][2] = "user" /\ t[j][2] = "assistant"
                      \/ Before(t[i][1], t[j][1], q)
    BY <1>5 DEF Ordered
  <2>1. PICK a, b \in 1 .. n : a < b /\ t[i] = s[a] /\ t[j] = s[b]
    BY Zenon, <1>4, <1>6, <1>7
  <2> QED
    BY <1>1, <2>1 DEF SoundTurns, Ordered
<1>9. Known(t, q)
  BY <1>1, <1>4, <1>5, <1>6 DEF SoundTurns, Known
<1>10. \A r : HasTurn(t, r) => HasTurn(s, r)
  BY Zenon, <1>1, <1>4, <1>5, <1>6 DEF HasTurn
<1> QED
  BY <1>2, <1>4, <1>8, <1>9, <1>10 DEF SoundTurns

\* A turn of the last request after turns of others, or its answer after its
\* message.
LEMMA NextTurn ==
    ASSUME NEW q, q \in Seq(Requests), Distinct(q), q # <<>>, NEW s, SoundTurns(s, q),
           NEW r \in Requests, q[Len(q)] = r, NEW role \in {"user", "assistant"},
           \A i \in DOMAIN s : s[i][1] = r => s[i][2] = "user" /\ role = "assistant"
    PROVE  SoundTurns(Append(s, <<r, role>>), q)
<1>1. PICK e \in Chat!Turns : e = <<r, role>> /\ e[1] = r /\ e[2] = role
  <2>1. <<r, role>> \in Chat!Turns
    BY DEF Chat!Turns
  <2>2. <<r, role>>[1] = r /\ <<r, role>>[2] = role
    OBVIOUS
  <2> QED
    BY <2>1, <2>2, Zenon
<1>2. PICK n \in Nat : n = Len(s) /\ DOMAIN s = 1 .. n
  BY LenProperties DEF SoundTurns
<1>3. PICK t : t = Append(s, e)
  BY Zenon
<1>4. /\ t \in Seq(Chat!Turns) /\ DOMAIN t = 1 .. n + 1 /\ t[n + 1] = e
      /\ \A i \in 1 .. n : t[i] = s[i]
  <2>1. s \in Seq(Chat!Turns)
    BY Zenon DEF SoundTurns
  <2>2. Append(s, e) \in Seq(Chat!Turns)
    BY <2>1, AppendProperties
  <2>3. /\ Len(Append(s, e)) = n + 1 /\ Append(s, e)[n + 1] = e
        /\ \A i \in 1 .. n : Append(s, e)[i] = s[i]
    BY <1>2, <2>1
  <2>4. t \in Seq(Chat!Turns) /\ Len(t) = n + 1
    BY Zenon, <1>3, <2>2, <2>3
  <2>5. DOMAIN t = 1 .. n + 1
    BY <2>4, LenProperties
  <2> QED
    BY Zenon, <1>3, <2>3, <2>4, <2>5
<1>5. PICK l \in Nat : l = Len(q) /\ DOMAIN q = 1 .. l /\ l \in 1 .. l
  <2>1. Len(q) \in Nat /\ DOMAIN q = 1 .. Len(q) /\ Len(q) # 0
    BY LenProperties, EmptySeq
  <2>2. Len(q) \in 1 .. Len(q)
    BY <2>1
  <2> QED
    BY Zenon, <2>1, <2>2
<1>6. ASSUME NEW a \in Elements(q), a # r PROVE Before(a, r, q)
  <2>1. PICK m \in 1 .. l : q[m] = a
    BY <1>5 DEF Elements
  <2>2. m < l
    BY <1>5, <1>6, <2>1
  <2> QED
    BY <1>5, <2>1, <2>2 DEF Before
<1>7. ASSUME NEW i \in 1 .. n + 1, NEW j \in 1 .. n + 1, i < j
      PROVE  \/ t[i][1] = t[j][1] /\ t[i][2] = "user" /\ t[j][2] = "assistant"
             \/ Before(t[i][1], t[j][1], q)
  <2>1. i \in 1 .. n /\ t[i] = s[i]
    BY <1>4, <1>7
  <2>2. CASE j \in 1 .. n
    BY Zenon, <1>2, <1>4, <1>7, <2>1, <2>2 DEF SoundTurns, Ordered
  <2>3. CASE j = n + 1
    <3>1. t[j][1] = r /\ t[j][2] = role
      BY <1>1, <1>4, <2>3
    <3>2. CASE s[i][1] = r
      BY <1>2, <2>1, <3>1, <3>2
    <3>3. CASE s[i][1] # r
      BY <1>2, <1>6, <2>1, <3>1, <3>3 DEF SoundTurns, Known
    <3> QED
      BY <3>2, <3>3
  <2> QED
    BY <2>2, <2>3
<1>8. Known(t, q)
  <2>1. r \in Elements(q)
    BY <1>5 DEF Elements
  <2>2. \A i \in 1 .. n + 1 : i \in 1 .. n \/ i = n + 1
    OBVIOUS
  <2> QED
    BY <1>1, <1>2, <1>4, <2>1, <2>2 DEF SoundTurns, Known
<1> QED
  BY <1>1, <1>3, <1>4, <1>7, <1>8 DEF SoundTurns, Ordered

LEMMA LatestTurns ==
    ASSUME NEW q, NEW s, SoundTurns(s, q), NEW n \in Nat, NEW t, t = Chat!Latest(n, s)
    PROVE  /\ SoundTurns(t, q) /\ Len(t) <= n
           /\ \A r : HasTurn(t, r) => HasTurn(s, r)
           /\ Chat!InPairs(s) /\ n % 2 = 0 => Chat!InPairs(t)
<1>1. PICK l \in Nat : l = Len(s) /\ s \in Seq(Chat!Turns)
  BY LenProperties DEF SoundTurns
<1>2. CASE l <= n
  <2>1. t = s
    BY <1>1, <1>2 DEF Chat!Latest
  <2> QED
    BY <1>1, <1>2, <2>1
<1>3. CASE ~(l <= n)
  <2>1. PICK m \in 1 .. l + 1 : m = l - n + 1
    BY <1>3
  <2>2. t = FromOn(s, m)
    BY <1>1, <1>3, <2>1 DEF Chat!Latest, FromOn
  <2>3. SoundTurns(t, q) /\ \A r : HasTurn(t, r) => HasTurn(s, r)
    BY <1>1, <2>1, <2>2, SoundFromOn
  <2>4. Len(t) = l + 1 - m
    BY Zenon, <1>1, <2>1, <2>2, FromOnAre
  <2>5. Chat!InPairs(s) /\ n % 2 = 0 => Chat!InPairs(t)
    <3> SUFFICES ASSUME Chat!InPairs(s), n % 2 = 0 PROVE Chat!InPairs(t)
      OBVIOUS
    <3>1. l % 2 = 0
      BY <1>1 DEF Chat!InPairs
    <3>2. m % 2 = 1
      BY <1>3, <2>1, <3>1
    <3> QED
      BY <1>1, <2>1, <2>2, <3>2, PairsFromOn
  <2> QED
    BY <2>1, <2>3, <2>4, <2>5
<1> QED
  BY <1>2, <1>3

\* Requests are saved once, one at a time.
ChatOrder ==
    /\ x7 \in Seq(Requests) /\ Distinct(x7)
    /\ x3 \in [Requests -> Chat!Kinds \cup {None}] /\ x4 \in [Requests -> Chat!Stages]
    /\ x6 \in Requests \cup {None} /\ x9 \in 0 .. Restarts /\ x8 \in BOOLEAN
    /\ \A r \in Requests :
         /\ x4[r] \in {"new", "load", "model"} => r \notin Elements(x7)
         /\ x4[r] \in {"user", "assistant"} <=> x6 = r
    /\ x6 # None => x7 # <<>> /\ x7[Len(x7)] = x6

\* What the cache and the database hold.
ChatCache == SoundTurns(x1, x7) /\ Chat!InPairs(x1) /\ Len(x1) <= MaxMessages
HalfSaved(s, r) == \E d \in Seq(Chat!Turns) : Chat!InPairs(d) /\ s = Append(d, <<r, "user">>)
ChatDisk ==
    /\ SoundTurns(x2, x7)
    /\ \A r \in Requests :
         /\ x4[r] = "user" => ~HasTurn(x2, r)
         /\ x4[r] = "assistant" => \A i \in DOMAIN x2 : x2[i][1] = r => x2[i][2] = "user"
    /\ ~x8 => /\ (\A r \in Requests : x4[r] # "assistant") => Chat!InPairs(x2)
              /\ \A r \in Requests : x4[r] = "assistant" => HalfSaved(x2, r)

ChatPast ==
    /\ x5 \in [Requests -> Seq(Chat!Turns)]
    /\ \A r \in Requests : Ordered(x5[r], x7) /\ ~HasTurn(x5[r], r)

ChatInv == ChatOrder /\ ChatCache /\ ChatDisk /\ ChatPast

LEMMA ChatInit == Chat!Init => ChatInv
<1> SUFFICES ASSUME Chat!Init PROVE ChatInv
  OBVIOUS
<1>0. PICK e : e = <<>>
  OBVIOUS
<1>1. /\ x1 = e /\ x2 = e /\ x6 = None /\ x7 = e /\ x8 = FALSE /\ x9 = 0
      /\ x3 = [r \in Requests |-> None] /\ x4 = [r \in Requests |-> "new"]
      /\ x5 = [r \in Requests |-> e]
  BY <1>0 DEF Chat!Init
<1>2. SoundTurns(e, e) /\ Chat!InPairs(e) /\ \A r : ~HasTurn(e, r)
  BY <1>0, NoTurns
<1>3. e \in Seq(Requests) /\ Distinct(e) /\ Elements(e) = {} /\ Len(e) = 0
  BY <1>0 DEF Distinct, Elements
<1>4. ChatOrder
  <2>1. x8 \in BOOLEAN
    BY <1>1, Zenon
  <2> QED
    BY <1>1, <1>3, <2>1, ChatConstants DEF ChatOrder, Chat!Stages, Chat!Kinds
<1>5. ChatCache
  BY <1>1, <1>2, <1>3, ChatConstants DEF ChatCache
<1>6. ChatDisk
  BY <1>1, <1>2 DEF ChatDisk
<1>7. ChatPast
  BY <1>1, <1>2 DEF ChatPast, SoundTurns
<1> QED
  BY <1>4, <1>5, <1>6, <1>7 DEF ChatInv

LEMMA ChatSame ==
    ASSUME ChatInv, UNCHANGED own
    PROVE  ChatInv'
BY DEF ChatInv, ChatOrder, ChatCache, ChatDisk, ChatPast, own

\* A request whose turns are not saved yet goes on or ends.
LEMMA ChatUnsaved ==
    ASSUME ChatInv, NEW r \in Requests,
           \/ Chat!Refuse(r) \/ Chat!Fail(r) \/ Chat!Load(r)
           \/ \E k \in Chat!Kinds : Chat!Ask(r, k)
    PROVE  ChatInv'
<1>1. /\ x4[r] \in {"new", "load", "model"} /\ x6' = x6 /\ x7' = x7 /\ x1' = x1 /\ x2' = x2
      /\ x8' = x8 /\ x9' = x9
      /\ \E s \in {"load", "model", "gone"} : x4' = [x4 EXCEPT ![r] = s] /\ (s # "gone" => x4[r] # "model")
      /\ \E k \in Chat!Kinds : x3' = [x3 EXCEPT ![r] = k] \/ x3' = x3
      /\ \/ x5' = x5
         \/ x5' = [x5 EXCEPT ![r] = x1]
         \/ x5' = [x5 EXCEPT ![r] = Chat!Latest(MaxTurns, x2)]
  <2>1. CASE Chat!Refuse(r) \/ Chat!Fail(r)
    BY <2>1 DEF Chat!Refuse, Chat!Fail, Chat!Kinds
  <2>2. CASE Chat!Load(r)
    BY <2>2 DEF Chat!Load, Chat!Kinds
  <2>3. ASSUME NEW k \in Chat!Kinds, Chat!Ask(r, k)
        PROVE  /\ x4[r] = "new" /\ x6' = x6 /\ x7' = x7 /\ x1' = x1 /\ x2' = x2
               /\ x8' = x8 /\ x9' = x9 /\ x3' = [x3 EXCEPT ![r] = k] /\ x5' = [x5 EXCEPT ![r] = x1]
               /\ \E s \in {"load", "model"} : x4' = [x4 EXCEPT ![r] = s]
    BY Zenon, <2>3 DEF Chat!Ask
  <2> QED
    BY <2>1, <2>2, <2>3
<1>2. PICK s \in {"load", "model", "gone"} : x4' = [x4 EXCEPT ![r] = s]
  BY Zenon, <1>1
<1>3. /\ x4' \in [Requests -> Chat!Stages] /\ x4'[r] = s
      /\ \A p \in Requests \ {r} : x4'[p] = x4[p]
  BY <1>2 DEF ChatInv, ChatOrder, Chat!Stages
<1>4. r \notin Elements(x7) /\ x6 # r
  BY <1>1 DEF ChatInv, ChatOrder
<1>5. ChatOrder'
  <2>1. x3' \in [Requests -> Chat!Kinds \cup {None}]
    BY <1>1 DEF ChatInv, ChatOrder
  <2> QED
    BY <1>1, <1>3, <1>4, <2>1 DEF ChatInv, ChatOrder
<1>6. ChatCache'
  BY <1>1 DEF ChatInv, ChatCache
<1>7. ChatDisk'
  <2>1. x4[r] # "assistant" /\ x4'[r] \notin {"user", "assistant"}
    BY <1>1, <1>3
  <2>2. \A p \in Requests : /\ x4'[p] = "user" => x4[p] = "user"
                            /\ x4'[p] = "assistant" <=> x4[p] = "assistant"
    BY <1>3, <2>1
  <2> QED
    BY <1>1, <2>2 DEF ChatInv, ChatDisk
<1>8. ChatPast'
  <2>1. ASSUME NEW t, SoundTurns(t, x7), ~HasTurn(t, r), x5' = [x5 EXCEPT ![r] = t]
        PROVE  ChatPast'
    <3>1. /\ x5' \in [Requests -> Seq(Chat!Turns)] /\ x5'[r] = t
          /\ \A p \in Requests \ {r} : x5'[p] = x5[p]
      BY <2>1 DEF ChatInv, ChatPast, SoundTurns
    <3> QED
      BY <1>1, <2>1, <3>1 DEF ChatInv, ChatPast, SoundTurns
  <2>2. ~HasTurn(x1, r) /\ ~HasTurn(x2, r) /\ SoundTurns(x1, x7) /\ SoundTurns(x2, x7)
    BY <1>4 DEF ChatInv, ChatCache, ChatDisk, SoundTurns, Known, HasTurn
  <2>3. PICK t : t = Chat!Latest(MaxTurns, x2)
    OBVIOUS
  <2>4. SoundTurns(t, x7) /\ ~HasTurn(t, r)
    <3>1. PICK d, q : d = x2 /\ q = x7
      OBVIOUS
    <3>2. SoundTurns(t, q) /\ (HasTurn(t, r) => HasTurn(d, r))
      BY <2>2, <2>3, <3>1, LatestTurns, ChatConstants
    <3> QED
      BY <2>2, <3>1, <3>2
  <2>5. CASE x5' = x5
    BY <1>1, <2>5 DEF ChatInv, ChatPast
  <2> QED
    BY <1>1, <2>1, <2>2, <2>3, <2>4, <2>5
<1> QED
  BY <1>5, <1>6, <1>7, <1>8 DEF ChatInv

LEMMA NextExchange ==
    ASSUME NEW q, q \in Seq(Requests), Distinct(q), q # <<>>, NEW s, SoundTurns(s, q),
           NEW r \in Requests, q[Len(q)] = r, ~HasTurn(s, r)
    PROVE  SoundTurns(BothTurns(s, r), q)
<1>1. PICK t : t = Append(s, <<r, "user">>)
  BY Zenon
<1>2. SoundTurns(t, q)
  <2>1. \A i \in DOMAIN s : s[i][1] = r => s[i][2] = "user" /\ "user" = "assistant"
    BY DEF HasTurn
  <2> QED
    BY Zenon, <1>1, <2>1, NextTurn
<1>3. \A i \in DOMAIN t : t[i][1] = r => t[i][2] = "user" /\ "assistant" = "assistant"
  <2>1. PICK e \in Chat!Turns : e = <<r, "user">>
    BY Zenon, TurnTypes
  <2>2. /\ t = Append(s, e) /\ Len(s) \in Nat /\ DOMAIN s = 1 .. Len(s) /\ DOMAIN t = 1 .. Len(s) + 1
        /\ t[Len(s) + 1] = e /\ \A i \in 1 .. Len(s) : t[i] = s[i]
    BY <1>1, <2>1 DEF SoundTurns
  <2>3. \A i \in DOMAIN t : i = Len(s) + 1 \/ i \in DOMAIN s
    BY <2>2
  <2>4. e[2] = "user"
    BY <2>1
  <2> QED
    BY <2>2, <2>3, <2>4 DEF HasTurn
<1>4. SoundTurns(Append(t, <<r, "assistant">>), q)
  BY Zenon, <1>2, <1>3, NextTurn
<1> QED
  BY <1>1, <1>4, Zenon DEF BothTurns

LEMMA ChatSaves ==
    ASSUME ChatInv, NEW r \in Requests, Chat!SaveCache(r)
    PROVE  ChatInv'
<1>1. /\ x4[r] = "model" /\ x6 = None /\ x1' = Chat!Latest(MaxMessages, x1 \o Chat!Pair(r))
      /\ x7' = Append(x7, r) /\ x2' = x2 /\ x3' = x3 /\ x5' = x5 /\ x8' = x8 /\ x9' = x9
      /\ \/ x6' = r /\ x4' = [x4 EXCEPT ![r] = "user"]
         \/ x6' = x6 /\ x4' = [x4 EXCEPT ![r] = "done"]
  BY DEF Chat!SaveCache, Chat!Capped
<1>2. PICK s, d, o, q : s = x1 /\ d = x2 /\ o = x7 /\ q = x7' /\ q = Append(o, r)
  BY <1>1
<1>3. /\ o \in Seq(Requests) /\ Distinct(o) /\ r \notin Elements(o)
      /\ SoundTurns(s, o) /\ SoundTurns(d, o) /\ Chat!InPairs(s)
  BY <1>1, <1>2 DEF ChatInv, ChatOrder, ChatCache, ChatDisk
<1>4. /\ q \in Seq(Requests) /\ Distinct(q) /\ Elements(q) = Elements(o) \cup {r}
  BY <1>2, <1>3, AppendElements
<1>5. q # <<>> /\ q[Len(q)] = r
  BY <1>2, <1>3
<1>6. SoundTurns(s, q) /\ SoundTurns(d, q) /\ ~HasTurn(s, r) /\ ~HasTurn(d, r)
  BY <1>2, <1>3, LaterRequest DEF SoundTurns, Known, HasTurn
<1>7. \A p \in Requests : x4[p] \notin {"user", "assistant"}
  BY <1>1, ChatConstants DEF ChatInv, ChatOrder
<1>8. /\ x4' \in [Requests -> Chat!Stages] /\ x4'[r] \in {"user", "done"}
      /\ x4'[r] = "user" <=> x6' = r
      /\ \A p \in Requests \ {r} : x4'[p] = x4[p]
  BY Zenon, <1>1, ChatConstants DEF ChatInv, ChatOrder, Chat!Stages
<1>9. ChatOrder'
  <2>1. x6' \in Requests \cup {None} /\ (x6' = r \/ x6' = None)
    BY <1>1
  <2> QED
    BY <1>1, <1>2, <1>4, <1>5, <1>7, <1>8, <2>1, ChatConstants DEF ChatInv, ChatOrder
<1>10. ChatCache'
  <2>1. PICK t, b : b = BothTurns(s, r) /\ t = Chat!Latest(MaxMessages, b)
    OBVIOUS
  <2>2. SoundTurns(b, q) /\ Chat!InPairs(b)
    BY <1>3, <1>4, <1>5, <1>6, <2>1, NextExchange, PairsOfTwo DEF SoundTurns
  <2>3. SoundTurns(t, q) /\ Len(t) <= MaxMessages /\ Chat!InPairs(t)
    BY <2>1, <2>2, LatestTurns, ChatConstants
  <2>4. s \o Chat!Pair(r) = b
    BY Zenon, <1>3, <2>1, BothTurnsAre DEF SoundTurns
  <2>5. x1' = t
    BY <1>1, <1>2, <2>1, <2>4
  <2> QED
    BY <1>2, <2>3, <2>5 DEF ChatCache
<1>11. ChatDisk'
  <2>1. \A p \in Requests : x4'[p] # "assistant" /\ (x4'[p] = "user" => p = r)
    BY <1>7, <1>8
  <2> QED
    BY <1>1, <1>2, <1>6, <1>7, <2>1 DEF ChatInv, ChatDisk
<1>12. ChatPast'
  <2>1. ASSUME NEW p \in Requests PROVE Ordered(x5[p], q) /\ ~HasTurn(x5[p], p)
    <3>1. PICK h : h = x5[p]
      OBVIOUS
    <3>2. Ordered(h, o)
      BY <1>2, <3>1 DEF ChatInv, ChatPast
    <3>3. Ordered(h, q)
      BY <1>2, <1>3, <3>2, LaterOrder
    <3> QED
      BY <3>1, <3>3 DEF ChatInv, ChatPast
  <2> QED
    BY <1>1, <1>2, <2>1 DEF ChatInv, ChatPast
<1> QED
  BY <1>9, <1>10, <1>11, <1>12 DEF ChatInv

LEMMA ChatSavesTurn ==
    ASSUME ChatInv, NEW r \in Requests, NEW role \in {"user", "assistant"}, NEW fails \in BOOLEAN,
           Chat!SaveTurn(r, role, fails)
    PROVE  ChatInv'
<1>1. /\ x4[r] = role /\ x2' = (IF fails THEN x2 ELSE Append(x2, <<r, role>>))
      /\ x8' = (x8 \/ fails) /\ x4' = [x4 EXCEPT ![r] = IF role = "user" THEN "assistant" ELSE "done"]
      /\ x6' = (IF role = "user" THEN x6 ELSE None)
      /\ x1' = x1 /\ x3' = x3 /\ x5' = x5 /\ x7' = x7 /\ x9' = x9
  BY DEF Chat!SaveTurn
<1>2. x6 = r /\ x6 # None /\ x7 # <<>> /\ x7[Len(x7)] = r
  BY <1>1, ChatConstants DEF ChatInv, ChatOrder
<1>3. \A p \in Requests \ {r} : x4[p] \notin {"user", "assistant"}
  BY <1>2 DEF ChatInv, ChatOrder
<1>4. /\ x4' \in [Requests -> Chat!Stages]
      /\ x4'[r] = IF role = "user" THEN "assistant" ELSE "done"
      /\ \A p \in Requests \ {r} : x4'[p] = x4[p]
  BY <1>1 DEF ChatInv, ChatOrder, Chat!Stages
<1>5. ChatOrder'
  <2>1. x8' \in BOOLEAN
    BY <1>1, Zenon DEF ChatInv, ChatOrder
  <2> QED
    BY <1>1, <1>2, <1>3, <1>4, <2>1, ChatConstants DEF ChatInv, ChatOrder
<1>6. PICK d, q, e : d = x2 /\ q = x7 /\ e = Append(d, <<r, role>>)
  BY Zenon
<1>7. /\ q \in Seq(Requests) /\ Distinct(q) /\ q # <<>> /\ q[Len(q)] = r /\ SoundTurns(d, q)
      /\ \A i \in DOMAIN d : d[i][1] = r => d[i][2] = "user" /\ role = "assistant"
  BY <1>1, <1>2, <1>6 DEF ChatInv, ChatOrder, ChatDisk, HasTurn
<1>8. SoundTurns(e, q)
  BY Zenon, <1>6, <1>7, NextTurn
<1>9. x2' = d \/ x2' = e
  BY <1>1, <1>6
<1>10. role = "user" => \A i \in DOMAIN x2' : x2'[i][1] = r => x2'[i][2] = "user"
  <2> SUFFICES ASSUME role = "user" PROVE \A i \in DOMAIN e : e[i][1] = r => e[i][2] = "user"
    BY <1>7, <1>9
  <2>1. PICK u \in Chat!Turns : u = <<r, "user">> /\ u[2] = "user"
    BY Zenon, TurnTypes
  <2>2. /\ e = Append(d, u) /\ Len(d) \in Nat /\ DOMAIN d = 1 .. Len(d) /\ DOMAIN e = 1 .. Len(d) + 1
        /\ e[Len(d) + 1] = u /\ \A i \in 1 .. Len(d) : e[i] = d[i]
    BY <1>6, <1>7, <2>1 DEF SoundTurns
  <2>3. \A i \in DOMAIN e : i = Len(d) + 1 \/ i \in DOMAIN d
    BY <2>2
  <2> QED
    BY <1>7, <2>1, <2>2, <2>3
<1>11. ASSUME ~x8' PROVE /\ (\A p \in Requests : x4'[p] # "assistant") => Chat!InPairs(x2')
                         /\ \A p \in Requests : x4'[p] = "assistant" => HalfSaved(x2', p)
  <2>1. ~x8 /\ ~fails /\ x2' = e
    BY Zenon, <1>1, <1>6, <1>11
  <2>2. CASE role = "user"
    <3>1. \A p \in Requests : x4[p] # "assistant"
      BY <1>1, <1>3, <2>2
    <3>2. Chat!InPairs(d) /\ d \in Seq(Chat!Turns)
      BY <1>6, <1>7, <2>1, <3>1 DEF ChatInv, ChatDisk, SoundTurns
    <3>3. HalfSaved(e, r)
      BY <1>6, <2>2, <3>2 DEF HalfSaved
    <3>4. x4'[r] = "assistant" /\ \A p \in Requests \ {r} : x4'[p] # "assistant"
      BY <1>3, <1>4, <2>2
    <3> QED
      BY <2>1, <3>3, <3>4
  <2>3. CASE role = "assistant"
    <3>1. HalfSaved(d, r)
      BY <1>1, <1>6, <2>1, <2>3 DEF ChatInv, ChatDisk
    <3>2. PICK b \in Seq(Chat!Turns) : Chat!InPairs(b) /\ d = Append(b, <<r, "user">>)
      BY <3>1 DEF HalfSaved
    <3>3. e = BothTurns(b, r)
      BY <1>6, <2>3, <3>2, Zenon DEF BothTurns
    <3>4. Chat!InPairs(e)
      BY <3>2, <3>3, PairsOfTwo
    <3>5. \A p \in Requests : x4'[p] # "assistant"
      BY <1>3, <1>4, <2>3
    <3> QED
      BY <2>1, <3>4, <3>5
  <2> QED
    BY <2>2, <2>3
<1>12. ChatDisk'
  <2>1. SoundTurns(x2', x7')
    BY <1>1, <1>6, <1>7, <1>8, <1>9
  <2>2. \A p \in Requests : x4'[p] # "user" /\ (x4'[p] = "assistant" => p = r /\ role = "user")
    BY <1>3, <1>4
  <2> QED
    BY <1>10, <1>11, <2>1, <2>2 DEF ChatDisk
<1>13. ChatCache' /\ ChatPast'
  BY <1>1 DEF ChatInv, ChatCache, ChatPast
<1> QED
  BY <1>5, <1>12, <1>13 DEF ChatInv

LEMMA ChatRestarts ==
    ASSUME ChatInv, Chat!Restart
    PROVE  ChatInv'
<1>0. PICK e : e = <<>>
  OBVIOUS
<1>1. /\ x9 < Restarts /\ x9' = x9 + 1 /\ x1' = e /\ x6' = None /\ x8' = (x8 \/ x6 # None)
      /\ x4' = [r \in Requests |-> IF x4[r] \in {"new", "done"} THEN x4[r] ELSE "gone"]
      /\ x2' = x2 /\ x3' = x3 /\ x5' = x5 /\ x7' = x7
  BY <1>0 DEF Chat!Restart
<1>2. /\ x4' \in [Requests -> Chat!Stages]
      /\ \A r \in Requests : x4'[r] = "gone" \/ (x4[r] \in {"new", "done"} /\ x4'[r] = x4[r])
  BY <1>1 DEF ChatInv, ChatOrder, Chat!Stages
<1>3. ChatOrder'
  <2>1. x8' \in BOOLEAN
    BY <1>1, Zenon DEF ChatInv, ChatOrder
  <2> QED
    BY <1>1, <1>2, <2>1, ChatConstants DEF ChatInv, ChatOrder
<1>4. ChatCache'
  <2>1. SoundTurns(e, x7) /\ Chat!InPairs(e) /\ Len(e) = 0
    BY <1>0, NoTurns
  <2> QED
    BY <1>1, <2>1, ChatConstants DEF ChatCache
<1>5. ChatDisk'
  <2>1. ~x8' => ~x8 /\ x6 = None
    BY Zenon, <1>1
  <2>2. x6 = None => \A r \in Requests : x4[r] # "assistant"
    BY ChatConstants DEF ChatInv, ChatOrder
  <2> QED
    BY <1>1, <1>2, <2>1, <2>2 DEF ChatInv, ChatDisk
<1>6. ChatPast'
  BY <1>1 DEF ChatInv, ChatPast
<1> QED
  BY <1>3, <1>4, <1>5, <1>6 DEF ChatInv

LEMMA ChatStep ==
    ASSUME ChatInv, Chat!Next \/ UNCHANGED own
    PROVE  ChatInv'
<1>1. CASE Chat!Next
  BY <1>1, ChatUnsaved, ChatSaves, ChatSavesTurn, ChatRestarts
     DEF Chat!Next, Chat!Chat, Chat!Stream, Chat!Task, Chat!Kinds, Chat!ChatAnswered, Chat!StreamEnded,
         Chat!TaskAnswered
<1>2. CASE UNCHANGED own
  BY <1>2, ChatSame
<1> QED
  BY <1>1, <1>2

LEMMA ChatTrue ==
    ASSUME ChatInv
    PROVE  Chat!TypeOK /\ Chat!CacheInPairs /\ Chat!DiskInPairs /\ Chat!HistoryIsPast
<1>1. Chat!TypeOK
  BY DEF ChatInv, ChatOrder, ChatCache, ChatDisk, ChatPast, SoundTurns, Chat!TypeOK
<1>2. \A s : Chat!InOrder(s) <=> Ordered(s, x7)
  BY DEF Chat!InOrder, Ordered, Before
<1>3. Chat!CacheInPairs
  BY <1>2 DEF ChatInv, ChatCache, SoundTurns, Chat!CacheInPairs
<1>4. Chat!DiskInPairs
  <2>1. x6 = None => \A r \in Requests : x4[r] # "assistant"
    BY ChatConstants DEF ChatInv, ChatOrder
  <2> QED
    BY <1>2, <2>1 DEF ChatInv, ChatDisk, SoundTurns, Chat!DiskInPairs
<1>5. Chat!HistoryIsPast
  BY <1>2 DEF ChatInv, ChatPast, HasTurn, Chat!HistoryIsPast
<1> QED
  BY <1>1, <1>3, <1>4, <1>5

-------------------------------------------------------------------------------
(* What agents remember                                                      *)

LEMMA MemorySizes == ASSUME NEW S PROVE Memory!Cardinality(S) = Cardinality(S)
BY Zenon DEF Memory!Cardinality, Cardinality, Memory!IsFiniteSet, IsFiniteSet

\* Ranks that tell the members of S apart.
Apart(S, f) ==
    /\ IsFiniteSet(S)
    /\ \A m \in S : f[m] \in Nat
    /\ \A m, n \in S : m # n => f[m] # f[n]

Place(S, f, m) == Memory!Cardinality(Memory!Above(S, f, m))
PlacesOf(S, f) ==
    /\ \A m \in S : Place(S, f, m) \in Nat /\ Place(S, f, m) < Cardinality(S)
    /\ \A m, n \in S : Place(S, f, m) = Place(S, f, n) => m = n
    /\ \A m, n \in S : f[m] > f[n] => Place(S, f, m) < Place(S, f, n)
    /\ \A i \in 1 .. Cardinality(S) : \E m \in S : Place(S, f, m) = i - 1

LEMMA PlacesAreOnce ==
    ASSUME NEW S, NEW f, Apart(S, f)
    PROVE  PlacesOf(S, f)
<1>1. PICK above : above = [m \in S |-> Memory!Above(S, f, m)]
  BY Zenon
<1>2. Ordering(S, above)
  BY <1>1 DEF Ordering, Apart, Memory!Above
<1>3. \A m \in S : Rank(above, m) = Place(S, f, m)
  BY <1>1, MemorySizes DEF Rank, Place
<1>4. RankedBy(S, above) /\ IsFiniteSet(S)
  BY <1>2, RankedOnce DEF Apart
<1>5. ASSUME NEW m \in S
      PROVE  /\ Place(S, f, m) \in Nat /\ Place(S, f, m) < Cardinality(S)
             /\ \A n \in above[m] : Place(S, f, n) < Place(S, f, m)
  <2>1. /\ Rank(above, m) \in Nat /\ Rank(above, m) < Cardinality(S)
        /\ \A n \in above[m] : Rank(above, n) < Rank(above, m)
    BY <1>2, <1>4, RankRises
  <2>2. above[m] \subseteq S
    BY <1>2 DEF Ordering
  <2> QED
    BY <1>3, <2>1, <2>2
<1>6. ASSUME NEW m \in S, NEW n \in S, f[m] > f[n] PROVE Place(S, f, m) < Place(S, f, n)
  <2>1. m \in above[n]
    BY <1>1, <1>6 DEF Memory!Above
  <2> QED
    BY <1>5, <2>1
<1>7. ASSUME NEW m \in S, NEW n \in S, Place(S, f, m) = Place(S, f, n) PROVE m = n
  BY <1>3, <1>4, <1>7 DEF RankedBy
<1>8. ASSUME NEW i \in 1 .. Cardinality(S) PROVE \E m \in S : Place(S, f, m) = i - 1
  <2>1. PICK m \in S : Rank(above, m) = i - 1
    BY <1>4 DEF RankedBy
  <2> QED
    BY <1>3, <2>1
<1> QED
  BY <1>5, <1>6, <1>7, <1>8 DEF PlacesOf

\* s: the members of S, each at its place.
InPlace(S, f, s) ==
    /\ s \in Seq(S) /\ Len(s) = Cardinality(S) /\ Cardinality(S) \in Nat
    /\ \A i \in 1 .. Len(s) : s[i] \in S /\ Place(S, f, s[i]) = i - 1
    /\ \A i, j \in 1 .. Len(s) : i < j => f[s[i]] > f[s[j]]
    /\ \A m \in S : \E i \in 1 .. Len(s) : s[i] = m /\ i = Place(S, f, m) + 1

LEMMA InOrderInPlace ==
    ASSUME NEW S, NEW f, Apart(S, f)
    PROVE  InPlace(S, f, Memory!InOrder(S, f))
<1>1. PlacesOf(S, f)
  BY PlacesAreOnce
<1>2. PICK c \in Nat : c = Cardinality(S)
  BY FS_CardinalityType DEF Apart
<1>3. PICK s : s = [i \in 1 .. c |-> CHOOSE m \in S : Place(S, f, m) = i - 1]
  BY Zenon
<1>4. Memory!InOrder(S, f) = s
  <2>1. Memory!Cardinality(S) = c
    BY <1>2, MemorySizes
  <2> QED
    BY Zenon, <1>3, <2>1 DEF Memory!InOrder, Place
<1>5. ASSUME NEW i \in 1 .. c PROVE s[i] \in S /\ Place(S, f, s[i]) = i - 1
  <2>1. \E m \in S : Place(S, f, m) = i - 1
    BY <1>1, <1>2 DEF PlacesOf
  <2>2. s[i] = CHOOSE m \in S : Place(S, f, m) = i - 1
    BY <1>3
  <2> QED
    BY Zenon, <2>1, <2>2
<1>6. s \in Seq(S) /\ Len(s) = c
  BY <1>3, <1>5
<1>7. ASSUME NEW i \in 1 .. c, NEW j \in 1 .. c, i < j PROVE f[s[i]] > f[s[j]]
  <2>1. PICK m \in S : m = s[i] /\ Place(S, f, m) = i - 1
    BY <1>5
  <2>2. PICK n \in S : n = s[j] /\ Place(S, f, n) = j - 1
    BY <1>5
  <2>3. m # n /\ ~(f[n] > f[m])
    <3>1. ~(j - 1 < i - 1) /\ i - 1 # j - 1
      BY <1>7
    <3> QED
      BY <1>1, <2>1, <2>2, <3>1 DEF PlacesOf
  <2>4. f[m] \in Nat /\ f[n] \in Nat /\ f[m] # f[n]
    BY <2>3 DEF Apart
  <2> QED
    BY <2>1, <2>2, <2>3, <2>4
<1>8. ASSUME NEW m \in S PROVE \E i \in 1 .. c : s[i] = m /\ i = Place(S, f, m) + 1
  <2>1. PICK k : k = Place(S, f, m)
    OBVIOUS
  <2>2. k \in Nat /\ k < c
    BY <1>1, <1>2, <2>1 DEF PlacesOf
  <2>3. k + 1 \in 1 .. c /\ (k + 1) - 1 = k
    BY <2>2
  <2>4. s[k + 1] \in S /\ Place(S, f, s[k + 1]) = k
    BY <1>5, <2>3
  <2>5. s[k + 1] = m
    BY <1>1, <2>1, <2>4 DEF PlacesOf
  <2> QED
    BY <2>1, <2>3, <2>5
<1> QED
  BY <1>2, <1>4, <1>5, <1>6, <1>7, <1>8 DEF InPlace

LEMMA ApartBelow ==
    ASSUME NEW S, NEW f, Apart(S, f), NEW T, T \subseteq S
    PROVE  /\ Apart(T, f)
           /\ Cardinality(T) \in Nat /\ Cardinality(T) <= Cardinality(S)
<1>1. IsFiniteSet(T) /\ Cardinality(T) <= Cardinality(S)
  BY FS_Subset DEF Apart
<1> QED
  BY <1>1, FS_CardinalityType DEF Apart

\* The best of S are apart, no more than asked for, and at the places they have
\* in S.
BestOf(S, f, n, B) ==
    /\ Apart(B, f) /\ B \subseteq S
    /\ Cardinality(B) \in Nat /\ Cardinality(B) <= n
    /\ \A m \in S : m \in B <=> Place(S, f, m) < n
    /\ \A m \in B : Place(B, f, m) = Place(S, f, m)

LEMMA BestAreFirst ==
    ASSUME NEW S, NEW f, Apart(S, f), NEW n \in Nat
    PROVE  BestOf(S, f, n, Memory!Best(S, f, n))
<1>1. PICK B : B = Memory!Best(S, f, n)
  OBVIOUS
<1>2. B = {m \in S : Place(S, f, m) < n}
  BY Zenon, <1>1 DEF Memory!Best, Place
<1>3. PlacesOf(S, f)
  BY PlacesAreOnce
<1>4. Apart(B, f) /\ B \subseteq S /\ Cardinality(B) \in Nat
  BY <1>2, ApartBelow
<1>5. ASSUME NEW m \in B PROVE Place(B, f, m) = Place(S, f, m)
  <2>1. ASSUME NEW o \in Memory!Above(S, f, m) PROVE o \in Memory!Above(B, f, m)
    <3>1. o \in S /\ m \in S /\ f[o] > f[m]
      BY <1>4, <2>1 DEF Memory!Above
    <3>2. /\ Place(S, f, o) < Place(S, f, m) /\ Place(S, f, m) < n
          /\ Place(S, f, o) \in Nat /\ Place(S, f, m) \in Nat
      BY <1>2, <1>3, <3>1 DEF PlacesOf
    <3>3. o \in B
      BY <1>2, <3>1, <3>2
    <3> QED
      BY <3>1, <3>3 DEF Memory!Above
  <2>2. Memory!Above(B, f, m) \subseteq Memory!Above(S, f, m)
    BY <1>4 DEF Memory!Above
  <2>3. Memory!Above(B, f, m) = Memory!Above(S, f, m)
    BY <2>1, <2>2
  <2> QED
    BY Zenon, <2>3 DEF Place
<1>6. Cardinality(B) <= n
  <2> SUFFICES ASSUME Cardinality(B) > n PROVE FALSE
    BY <1>4
  <2>1. n + 1 \in 1 .. Cardinality(B) /\ (n + 1) - 1 = n
    BY <1>4
  <2>2. PlacesOf(B, f)
    BY <1>4, PlacesAreOnce
  <2>3. PICK m \in B : Place(B, f, m) = n
    BY <2>1, <2>2 DEF PlacesOf
  <2> QED
    BY <1>2, <1>5, <2>3
<1> QED
  BY <1>1, <1>2, <1>4, <1>5, <1>6 DEF BestOf

\* Nothing is above what is highest.
LEMMA HighestIsFirst ==
    ASSUME NEW S, NEW f, NEW m \in S, \A o \in S : ~(f[o] > f[m])
    PROVE  Place(S, f, m) = 0
<1>1. Memory!Above(S, f, m) = {}
  BY DEF Memory!Above
<1> QED
  BY <1>1, MemorySizes, FS_EmptySet DEF Place

\* Who asks for more is given the same first.
LEMMA MoreBegins ==
    ASSUME NEW S, NEW f, Apart(S, f), NEW m \in Nat, NEW n \in Nat, m <= n,
           NEW a, a = Memory!InOrder(Memory!Best(S, f, m), f),
           NEW b, b = Memory!InOrder(Memory!Best(S, f, n), f)
    PROVE  SubSeq(b, 1, Len(a)) = a
<1>1. PICK A : A = Memory!Best(S, f, m)
  OBVIOUS
<1>2. PICK B : B = Memory!Best(S, f, n)
  OBVIOUS
<1>3. BestOf(S, f, m, A) /\ BestOf(S, f, n, B)
  BY <1>1, <1>2, BestAreFirst
<1>4. InPlace(A, f, a) /\ InPlace(B, f, b)
  BY <1>1, <1>2, <1>3, InOrderInPlace DEF BestOf
<1>5. PlacesOf(S, f)
  BY PlacesAreOnce
<1>6. A \subseteq B
  BY <1>3, <1>5 DEF BestOf, PlacesOf
<1>7. Cardinality(A) <= Cardinality(B)
  BY <1>3, <1>6, ApartBelow DEF BestOf
<1>8. /\ Len(a) \in Nat /\ Len(b) \in Nat /\ Len(a) <= Len(b)
      /\ a \in Seq(S) /\ b \in Seq(S)
  <2>1. Len(a) = Cardinality(A) /\ Len(b) = Cardinality(B)
    BY <1>4 DEF InPlace
  <2>2. a \in Seq(A) /\ b \in Seq(B) /\ A \subseteq S /\ B \subseteq S
    BY <1>3, <1>4 DEF InPlace, BestOf
  <2> QED
    BY <1>3, <1>7, <2>1, <2>2 DEF BestOf
<1>9. ASSUME NEW i \in 1 .. Len(a) PROVE b[i] = a[i]
  <2>1. i \in 1 .. Len(b)
    BY <1>8
  <2>2. a[i] \in A /\ Place(A, f, a[i]) = i - 1
    BY <1>4 DEF InPlace
  <2>3. b[i] \in B /\ Place(B, f, b[i]) = i - 1
    BY <1>4, <2>1 DEF InPlace
  <2>4. /\ a[i] \in S /\ b[i] \in S
        /\ Place(S, f, a[i]) = i - 1 /\ Place(S, f, b[i]) = i - 1
    BY <1>3, <2>2, <2>3 DEF BestOf
  <2> QED
    BY <1>5, <2>4 DEF PlacesOf
<1>10. PICK l \in Nat : l = Len(a)
  BY <1>8
<1>11. SubSeq(b, 1, l) \in Seq(S) /\ Len(SubSeq(b, 1, l)) = l /\ \A i \in 1 .. l : SubSeq(b, 1, l)[i] = b[i]
  BY <1>8, <1>10
<1> QED
  BY <1>8, <1>9, <1>10, <1>11

\* A weight that is a part of the score of its memory.
PartOf(s, m, w) == w \in {7 * s[m].vector, 3 * s[m].text, 7 * s[m].vector + 3 * s[m].text}

LEMMA ScoresApart ==
    ASSUME NEW s \in Scores, NEW S, S \subseteq Notes, IsFiniteSet(S),
           NEW f, f = [m \in Notes |-> s[m].vector],
           NEW t, t = [m \in Notes |-> s[m].text]
    PROVE  /\ Apart(S, f) /\ Apart({m \in S : t[m] > 0}, t)
           /\ \A m \in S : f[m] \in Nat /\ t[m] \in Nat
<1>1. \A m \in Notes : s[m] \in [vector : Nat, text : Nat]
  BY AgentsAssumption DEF Memory!MemoriesAssumption
<1>2. \A m \in Notes : s[m].vector \in Nat /\ s[m].text \in Nat
  BY <1>1
<1>3. \A m, n \in Notes : m # n =>
         s[m].vector # s[n].vector /\ (s[m].text # s[n].text \/ s[m].text = 0)
  BY AgentsAssumption DEF Memory!MemoriesAssumption
<1>4. \A m \in S : f[m] = s[m].vector /\ t[m] = s[m].text /\ m \in Notes
  OBVIOUS
<1>5. Apart(S, f)
  BY <1>2, <1>3, <1>4 DEF Apart
<1>6. PICK T : T = {m \in S : t[m] > 0}
  BY Zenon
<1>7. IsFiniteSet(T) /\ \A m \in T : m \in S /\ t[m] > 0
  BY <1>6, FS_Subset
<1>8. Apart(T, t)
  <2>1. \A m \in T : t[m] \in Nat
    BY <1>2, <1>4, <1>7
  <2>2. ASSUME NEW m \in T, NEW n \in T, m # n PROVE t[m] # t[n]
    <3>1. s[m].text > 0 /\ s[m].text \in Nat
      BY Zenon, <1>2, <1>4, <1>7
    <3>2. s[m].text # s[n].text
      BY <1>3, <1>4, <1>7, <2>2, <3>1
    <3> QED
      BY <1>4, <1>7, <3>2
  <2> QED
    BY Zenon, <1>7, <2>1, <2>2 DEF Apart
<1> QED
  BY <1>2, <1>4, <1>5, <1>6, <1>8

\* What is in both lists has its whole score, the rest no more.
Weighed(S, A, B, f, t, W) ==
    /\ Apart(A \cup B, W)
    /\ \A m \in S : W[m] \in Nat /\ W[m] <= 7 * f[m] + 3 * t[m]
    /\ \A m \in S : m \in A /\ (t[m] > 0 => m \in B) => W[m] = 7 * f[m] + 3 * t[m]

LEMMA WeightsApart ==
    ASSUME NEW s \in Scores, NEW S, S \subseteq Notes, IsFiniteSet(S),
           NEW f, f = [m \in Notes |-> s[m].vector],
           NEW t, t = [m \in Notes |-> s[m].text],
           NEW A, A \subseteq S, NEW B, B \subseteq S, \A m \in B : t[m] > 0,
           NEW W, W = [m \in Notes |-> (IF m \in A THEN 7 * f[m] ELSE 0)
                                     + (IF m \in B THEN 3 * t[m] ELSE 0)]
    PROVE  Weighed(S, A, B, f, t, W)
<1>1. \A m \in S : f[m] \in Nat /\ t[m] \in Nat
  BY Zenon, ScoresApart
<1>2. \A m \in S : f[m] = s[m].vector /\ t[m] = s[m].text /\ m \in Notes
  OBVIOUS
<1>3. ASSUME NEW m \in S
      PROVE  /\ W[m] \in Nat /\ W[m] <= 7 * f[m] + 3 * t[m]
             /\ m \in A /\ m \in B => W[m] = 7 * f[m] + 3 * t[m]
             /\ m \in A /\ m \notin B => W[m] = 7 * f[m]
             /\ m \notin A /\ m \in B => W[m] = 3 * t[m]
  <2>1. W[m] = (IF m \in A THEN 7 * f[m] ELSE 0) + (IF m \in B THEN 3 * t[m] ELSE 0)
    BY <1>2
  <2>2. f[m] \in Nat /\ t[m] \in Nat
    BY Zenon, <1>1
  <2> QED
    BY <2>1, <2>2
<1>4. ASSUME NEW m \in S, m \in A, t[m] > 0 => m \in B PROVE W[m] = 7 * f[m] + 3 * t[m]
  <2>1. CASE m \in B
    BY <1>3, <1>4, <2>1
  <2>2. CASE m \notin B
    <3>1. t[m] = 0 /\ f[m] \in Nat
      <4>1. PICK y \in Nat : y = t[m]
        BY Zenon, <1>1
      <4>2. ~(y > 0)
        BY Zenon, <1>4, <2>2, <4>1
      <4>3. y = 0
        BY <4>2
      <4> QED
        BY Zenon, <1>1, <4>1, <4>3
    <3>2. W[m] = 7 * f[m]
      BY Zenon, <1>3, <1>4, <2>2
    <3> QED
      BY <3>1, <3>2
  <2> QED
    BY <2>1, <2>2
<1>0. \A x, y \in Nat : (7 * x + 3 * y = 0 => x = 0) /\ (7 * x = 0 => x = 0)
  OBVIOUS
<1>5. ASSUME NEW m \in A \cup B
      PROVE  /\ m \in S /\ PartOf(s, m, W[m])
             /\ W[m] = 0 => s[m].vector = 0
  <2>1. m \in S /\ f[m] = s[m].vector /\ t[m] = s[m].text /\ f[m] \in Nat /\ t[m] \in Nat
    BY Zenon, <1>1, <1>2
  <2>2. CASE m \in A /\ m \in B
    <3>1. W[m] = 7 * f[m] + 3 * t[m]
      BY <1>3, <2>1, <2>2
    <3>2. W[m] = 0 => f[m] = 0
      BY Zenon, <1>0, <2>1, <3>1
    <3> QED
      BY <2>1, <3>1, <3>2 DEF PartOf
  <2>3. CASE m \in A /\ m \notin B
    <3>1. W[m] = 7 * f[m]
      BY <1>3, <2>1, <2>3
    <3>2. W[m] = 0 => f[m] = 0
      BY Zenon, <1>0, <2>1, <3>1
    <3> QED
      BY <2>1, <3>1, <3>2 DEF PartOf
  <2>4. CASE m \notin A
    <3>1. W[m] = 3 * t[m] /\ t[m] > 0
      BY <1>3, <2>1, <2>4
    <3>2. W[m] # 0
      BY <2>1, <3>1
    <3> QED
      BY <2>1, <3>1, <3>2 DEF PartOf
  <2> QED
    BY <2>2, <2>3, <2>4
<1>6. ASSUME NEW m \in A \cup B, NEW n \in A \cup B, m # n PROVE W[m] # W[n]
  <2> SUFFICES ASSUME W[m] = W[n] PROVE FALSE
    OBVIOUS
  <2>1. m \in Notes /\ n \in Notes /\ PartOf(s, m, W[m]) /\ PartOf(s, n, W[m])
    BY Zenon, <1>2, <1>5
  <2>2. s[m].vector # s[n].vector /\ Memory!Parts(s, m) \cap Memory!Parts(s, n) \subseteq {0}
    BY <1>6, <2>1, AgentsAssumption DEF Memory!MemoriesAssumption
  <2>3. W[m] \in Memory!Parts(s, m) /\ W[m] \in Memory!Parts(s, n)
    BY Zenon, <2>1 DEF PartOf, Memory!Parts
  <2>4. W[m] = 0 /\ W[n] = 0
    BY <2>2, <2>3
  <2>5. s[m].vector = 0 /\ s[n].vector = 0
    BY Zenon, <1>5, <2>4
  <2> QED
    BY <2>2, <2>5
<1>7. IsFiniteSet(A \cup B)
  BY FS_Subset
<1>8. \A m \in A \cup B : W[m] \in Nat
  BY Zenon, <1>3
<1>9. Apart(A \cup B, W)
  <2> QED
    BY Zenon, <1>6, <1>7, <1>8 DEF Apart
<1> QED
  BY Zenon, <1>3, <1>4, <1>9 DEF Weighed

\* What a search of S should give; W: the weights, f and t: the ranks.
GivesBest(S, f, t, W, found) ==
    /\ Len(found) <= Limit
    /\ \A i, j \in DOMAIN found : i < j => W[found[i]] > W[found[j]]
    /\ \A m \in S :
         /\ 7 * f[m] + 3 * t[m] >= MinScore
         /\ \A n \in S : f[n] <= f[m] /\ t[n] <= t[m]
         => found # <<>> /\ found[1] = m

LEMMA SearchGivesBest ==
    ASSUME x1 \in Scores, NEW S, S \subseteq Notes, IsFiniteSet(S)
    PROVE  GivesBest(S, Memory!near, Memory!text, Memory!Shown(S), Memory!Found(S))
<1>0. Limit \in Nat \ {0} /\ 2 * Limit \in Nat /\ 2 * (2 * Limit) \in Nat \ {0} /\ 2 * Limit > 0
  BY AgentsAssumption DEF Memory!MemoriesAssumption
<1>1. PICK s \in Scores : s = x1
  OBVIOUS
<1>2. PICK f : f = Memory!near
  OBVIOUS
<1>3. PICK t : t = Memory!text
  OBVIOUS
<1>4. f = [m \in Notes |-> s[m].vector] /\ t = [m \in Notes |-> s[m].text]
  BY <1>1, <1>2, <1>3 DEF Memory!near, Memory!text
<1>5. PICK T : T = {m \in S : t[m] > 0}
  BY Zenon
<1>6. Apart(S, f) /\ Apart(T, t) /\ \A m \in S : f[m] \in Nat /\ t[m] \in Nat
  BY Zenon, <1>4, <1>5, ScoresApart
<1>7. PICK A : A = Memory!Nearest(S, 2 * Limit)
  OBVIOUS
<1>8. PICK B : B = Memory!Matching(S, 2 * Limit)
  OBVIOUS
<1>9. BestOf(S, f, 2 * (2 * Limit), A)
  <2>1. A = Memory!Best(S, f, 2 * (2 * Limit))
    BY Zenon, <1>2, <1>7 DEF Memory!Nearest
  <2> QED
    BY <1>0, <1>6, <2>1, BestAreFirst
<1>10. BestOf(T, t, 2 * (2 * Limit), B)
  <2>1. B = Memory!Best(T, t, 2 * (2 * Limit))
    BY Zenon, <1>3, <1>5, <1>8 DEF Memory!Matching
  <2> QED
    BY <1>0, <1>6, <2>1, BestAreFirst
<1>11. PICK W : W = Memory!Shown(S)
  OBVIOUS
<1>12. W = [m \in Notes |-> (IF m \in A THEN 7 * f[m] ELSE 0)
                          + (IF m \in B THEN 3 * t[m] ELSE 0)]
  BY Zenon, <1>2, <1>3, <1>7, <1>8, <1>11 DEF Memory!Shown, Memory!Weight
<1>13. A \subseteq S /\ B \subseteq S /\ \A m \in B : t[m] > 0
  BY <1>5, <1>9, <1>10 DEF BestOf
<1>a. Weighed(S, A, B, f, t, W)
  BY Zenon, <1>4, <1>12, <1>13, WeightsApart
<1>14. /\ Apart(A \cup B, W)
       /\ \A m \in S : W[m] \in Nat /\ W[m] <= 7 * f[m] + 3 * t[m]
       /\ \A m \in S : m \in A /\ (t[m] > 0 => m \in B) => W[m] = 7 * f[m] + 3 * t[m]
  BY Zenon, <1>a DEF Weighed
<1>15. PICK H : H = Memory!Best(A \cup B, W, 2 * Limit)
  OBVIOUS
<1>16. BestOf(A \cup B, W, 2 * Limit, H)
  BY <1>0, <1>14, <1>15, BestAreFirst
<1>17. H = Memory!Hybrid(S, 2 * Limit)
  BY Zenon, <1>7, <1>8, <1>11, <1>15 DEF Memory!Hybrid, Memory!Shown
<1>18. PICK D : D = {m \in H : W[m] >= MinScore}
  BY Zenon
<1>19. Apart(D, W) /\ D \subseteq H
  BY <1>16, <1>18, ApartBelow DEF BestOf
<1>20. PICK C : C = Memory!Best(D, W, Limit)
  OBVIOUS
<1>21. BestOf(D, W, Limit, C)
  BY <1>0, <1>19, <1>20, BestAreFirst
<1>22. PICK found : found = Memory!InOrder(C, W)
  OBVIOUS
<1>23. found = Memory!Found(S)
  BY Zenon, <1>11, <1>17, <1>18, <1>20, <1>22 DEF Memory!Found
<1>24. InPlace(C, W, found)
  BY <1>21, <1>22, InOrderInPlace DEF BestOf
<1>25. /\ Len(found) \in Nat /\ Len(found) <= Limit /\ DOMAIN found = 1 .. Len(found)
  BY <1>21, <1>24 DEF InPlace, BestOf
<1>26. \A i, j \in DOMAIN found : i < j => W[found[i]] > W[found[j]]
  BY <1>24, <1>25 DEF InPlace
<1>27. ASSUME NEW m \in S, 7 * f[m] + 3 * t[m] >= MinScore,
              \A n \in S : f[n] <= f[m] /\ t[n] <= t[m]
       PROVE  found # <<>> /\ found[1] = m
  <2>1. f[m] \in Nat /\ t[m] \in Nat
    BY <1>6
  <2>2. m \in A
    <3>1. \A o \in S : ~(f[o] > f[m])
      BY <1>6, <1>27
    <3>2. Place(S, f, m) = 0
      BY <3>1, HighestIsFirst
    <3> QED
      BY <1>0, <1>9, <3>2 DEF BestOf
  <2>3. ASSUME t[m] > 0 PROVE m \in B
    <3>1. m \in T /\ \A o \in T : ~(t[o] > t[m])
      BY <1>5, <1>6, <1>27, <2>3
    <3>2. Place(T, t, m) = 0
      BY <3>1, HighestIsFirst
    <3> QED
      BY <1>0, <1>10, <3>1, <3>2 DEF BestOf
  <2>4. W[m] = 7 * f[m] + 3 * t[m]
    BY <1>14, <2>2, <2>3
  <2>5. ASSUME NEW o \in A \cup B PROVE ~(W[o] > W[m])
    <3>1. PICK x \in Nat : x = f[m]
      BY <2>1
    <3>2. PICK y \in Nat : y = t[m]
      BY <2>1
    <3>3. o \in S
      BY <1>13
    <3>4. PICK u \in Nat : u = f[o]
      BY <1>6, <3>3
    <3>5. PICK v \in Nat : v = t[o]
      BY <1>6, <3>3
    <3>6. PICK w \in Nat : w = W[o]
      BY <1>14, <3>3
    <3>7. u <= x /\ v <= y
      BY <1>27, <3>1, <3>2, <3>3, <3>4, <3>5
    <3>8. w <= 7 * u + 3 * v
      BY Zenon, <1>14, <3>3, <3>4, <3>5, <3>6
    <3>9. ~(w > 7 * x + 3 * y)
      BY <3>7, <3>8
    <3> QED
      BY Zenon, <2>4, <3>1, <3>2, <3>6, <3>9
  <2>6. m \in H
    <3>1. Place(A \cup B, W, m) = 0
      BY <2>2, <2>5, HighestIsFirst
    <3> QED
      BY <1>0, <1>16, <2>2, <3>1 DEF BestOf
  <2>7. m \in D /\ D \subseteq A \cup B
    BY <1>16, <1>18, <1>27, <2>4, <2>6 DEF BestOf
  <2>8. m \in C /\ Place(C, W, m) = 0
    <3>1. Place(D, W, m) = 0
      BY <2>5, <2>7, HighestIsFirst
    <3> QED
      BY <1>0, <1>21, <2>7, <3>1 DEF BestOf
  <2>9. PICK i \in 1 .. Len(found) : found[i] = m /\ i = Place(C, W, m) + 1
    BY <1>24, <2>8 DEF InPlace
  <2> QED
    BY <1>25, <2>8, <2>9
<1>28. GivesBest(S, f, t, W, found)
  BY <1>25, <1>26, <1>27 DEF GivesBest
<1> QED
  BY Zenon, <1>2, <1>3, <1>11, <1>23, <1>28

\* What a prompt is given of a store S, a memory having a text or not.
RecalledOf(S, with, f, given) ==
    /\ Len(given) <= MaxMemories
    /\ \A m \in with : 10 * f[m] >= MinScore =>
         \/ \E i \in DOMAIN given : given[i] = m
         \/ Place(S, f, m) >= MaxMemories

LEMMA RecallIsNearest ==
    ASSUME x1 \in Scores, x5 \subseteq Notes, IsFiniteSet(x5), x6 \subseteq x5
    PROVE  RecalledOf(x5, x6, Memory!near, Memory!Recalled)
<1>0. MaxMemories \in Nat \ {0} /\ 2 * MaxMemories \in Nat /\ MaxMemories <= 2 * MaxMemories
  BY AgentsAssumption DEF Memory!MemoriesAssumption
<1>1. PICK f : f = Memory!near
  OBVIOUS
<1>2. Apart(x5, f) /\ f = [m \in Notes |-> x1[m].vector]
  BY Zenon, <1>1, ScoresApart DEF Memory!near
<1>3. PICK N : N = Memory!Best(x5, f, 2 * MaxMemories)
  OBVIOUS
<1>4. BestOf(x5, f, 2 * MaxMemories, N)
  BY <1>0, <1>2, <1>3, BestAreFirst
<1>5. PICK D : D = {m \in N : 10 * f[m] >= MinScore}
  BY Zenon
<1>6. Apart(D, f) /\ D \subseteq N
  BY <1>4, <1>5, ApartBelow DEF BestOf
<1>7. PICK C : C = Memory!Best(D, f, MaxMemories)
  OBVIOUS
<1>8. BestOf(D, f, MaxMemories, C)
  BY <1>0, <1>6, <1>7, BestAreFirst
<1>9. /\ Apart(C \cap x6, f) /\ Cardinality(C \cap x6) \in Nat
      /\ Cardinality(C \cap x6) <= MaxMemories
  <2>1. Apart(C, f) /\ Cardinality(C) \in Nat /\ Cardinality(C) <= MaxMemories
    BY <1>8 DEF BestOf
  <2>2. /\ Apart(C \cap x6, f) /\ Cardinality(C \cap x6) \in Nat
        /\ Cardinality(C \cap x6) <= Cardinality(C)
    BY <2>1, ApartBelow
  <2> QED
    BY <1>0, <2>1, <2>2
<1>10. PICK given : given = Memory!InOrder(C \cap x6, f)
  OBVIOUS
<1>11. given = Memory!Recalled
  BY Zenon, <1>1, <1>3, <1>5, <1>7, <1>10 DEF Memory!Recalled
<1>12. InPlace(C \cap x6, f, given)
  BY <1>9, <1>10, InOrderInPlace
<1>13. ASSUME NEW m \in x6, 10 * f[m] >= MinScore, ~(Place(x5, f, m) >= MaxMemories)
       PROVE  \E i \in DOMAIN given : given[i] = m
  <2>1. PlacesOf(x5, f)
    BY <1>2, PlacesAreOnce
  <2>2. m \in x5 /\ Place(x5, f, m) \in Nat /\ Place(x5, f, m) < MaxMemories
    BY <1>0, <1>13, <2>1 DEF PlacesOf
  <2>3. Place(x5, f, m) < 2 * MaxMemories
    BY <1>0, <2>2
  <2>4. m \in D
    BY <1>4, <1>5, <1>13, <2>2, <2>3 DEF BestOf
  <2>5. Place(D, f, m) < MaxMemories
    <3>1. PICK few : few = Memory!Above(D, f, m)
      OBVIOUS
    <3>2. PICK all : all = Memory!Above(x5, f, m)
      OBVIOUS
    <3>3. few \subseteq all /\ all \subseteq x5
      BY <1>4, <1>6, <3>1, <3>2 DEF Memory!Above, BestOf
    <3>4. IsFiniteSet(all) /\ Cardinality(few) <= Cardinality(all) /\ IsFiniteSet(few)
      BY <3>3, FS_Subset
    <3>5. Cardinality(few) \in Nat /\ Cardinality(all) \in Nat
      BY <3>4, FS_CardinalityType
    <3>6. Place(D, f, m) = Cardinality(few) /\ Place(x5, f, m) = Cardinality(all)
      BY <3>1, <3>2, MemorySizes DEF Place
    <3> QED
      BY <1>0, <2>2, <3>4, <3>5, <3>6
  <2>6. m \in C \cap x6
    BY <1>8, <2>4, <2>5 DEF BestOf
  <2>7. PICK i \in 1 .. Len(given) : given[i] = m
    BY Zenon, <1>12, <2>6 DEF InPlace
  <2>8. DOMAIN given = 1 .. Len(given)
    BY <1>12 DEF InPlace
  <2> QED
    BY <2>7, <2>8
<1>14. Len(given) <= MaxMemories
  BY <1>9, <1>12 DEF InPlace
<1>15. RecalledOf(x5, x6, f, given)
  BY <1>13, <1>14 DEF RecalledOf
<1> QED
  BY Zenon, <1>1, <1>11, <1>15

LEMMA MoreOfNode ==
    ASSUME x1 \in Scores, x5 \subseteq Notes, IsFiniteSet(x5), NEW k \in 1 .. MaxTop
    PROVE  SubSeq(Memory!ApiFound(k + 1), 1, Len(Memory!ApiFound(k))) = Memory!ApiFound(k)
<1>0. MaxTop \in Nat
  BY AgentsAssumption DEF Memory!MemoriesAssumption
<1>1. PICK f : f = Memory!near
  OBVIOUS
<1>2. Apart(x5, f)
  BY Zenon, <1>1, ScoresApart DEF Memory!near
<1>3. PICK a : a = Memory!InOrder(Memory!Best(x5, f, k), f)
  OBVIOUS
<1>4. PICK n : n = IF k + 1 > MaxTop THEN MaxTop ELSE k + 1
  OBVIOUS
<1>5. k \in Nat /\ n \in Nat /\ k <= n /\ ~(k > MaxTop)
  BY <1>0, <1>4
<1>6. PICK b : b = Memory!InOrder(Memory!Best(x5, f, n), f)
  OBVIOUS
<1>7. SubSeq(b, 1, Len(a)) = a
  BY <1>2, <1>3, <1>5, <1>6, MoreBegins
<1>8. Memory!ApiFound(k) = a
  <2>1. (IF k > MaxTop THEN MaxTop ELSE k) = k
    BY <1>5
  <2> QED
    BY Zenon, <1>1, <1>3, <2>1 DEF Memory!ApiFound
<1>9. Memory!ApiFound(k + 1) = b
  BY Zenon, <1>1, <1>4, <1>6 DEF Memory!ApiFound
<1> QED
  BY Zenon, <1>7, <1>8, <1>9

\* x1: score, x2: store, x3: caller, x4: written, x5: node, x6: texts.
MemoryInv ==
    /\ x1 \in Scores
    /\ x2 # None => x2 \subseteq Notes /\ IsFiniteSet(x2)
    /\ DOMAIN x3 = Callers
    /\ \A c \in Callers : x3[c] = "ready" => x2 # None
    /\ x4 # {} => x2 # None /\ x4 \subseteq x2
    /\ x5 \subseteq Notes /\ IsFiniteSet(x5)
    /\ x6 \subseteq x5

LEMMA MemoryInit == ASSUME Memory!Init PROVE MemoryInv
BY FS_EmptySet DEF Memory!Init, MemoryInv

LEMMA SetsAreNotNone == \A S \in SUBSET Notes : S # None
BY AgentsAssumption DEF Memory!MemoriesAssumption

LEMMA MemoryCalls ==
    ASSUME MemoryInv, NEW c \in Callers,
           Memory!Lookup(c) \/ Memory!CreateStore(c) \/ Memory!OtherCall(c)
    PROVE  MemoryInv'
<1>1. CASE Memory!Lookup(c)
  BY <1>1 DEF Memory!Lookup, Memory!At, Memory!Go, MemoryInv
<1>2. CASE Memory!CreateStore(c)
  <2>1. {} # None
    BY SetsAreNotNone
  <2>2. CASE x2 = None
    <3>1. x2' = {} /\ x4 = {} /\ IsFiniteSet(x2')
      BY <1>2, <2>2, FS_EmptySet DEF Memory!CreateStore, MemoryInv
    <3> QED
      BY <1>2, <2>1, <3>1 DEF Memory!CreateStore, Memory!At, Memory!Go, MemoryInv
  <2>3. CASE x2 # None
    BY <1>2, <2>3 DEF Memory!CreateStore, Memory!At, Memory!Go, MemoryInv
  <2> QED
    BY <2>2, <2>3
<1>3. CASE Memory!OtherCall(c)
  BY <1>3 DEF Memory!OtherCall, Memory!At, Memory!Go, MemoryInv
<1> QED
  BY <1>1, <1>2, <1>3

LEMMA MemoryWrite ==
    ASSUME MemoryInv, NEW c \in Callers, NEW m \in Notes, Memory!Write(c, m)
    PROVE  MemoryInv'
<1>1. x2 # None /\ x2 \subseteq Notes /\ IsFiniteSet(x2)
  BY DEF Memory!Write, Memory!At, MemoryInv
<1>2. x2 \cup {m} # None /\ IsFiniteSet(x2 \cup {m})
  BY <1>1, SetsAreNotNone, FS_AddElement
<1> QED
  BY <1>1, <1>2 DEF Memory!Write, Memory!Go, MemoryInv

LEMMA MemoryInsert ==
    ASSUME MemoryInv, NEW m \in SavedTasks, NEW textual \in BOOLEAN, Memory!Insert(m, textual)
    PROVE  MemoryInv'
<1>1. m \in Notes
  BY AgentsAssumption DEF Memory!MemoriesAssumption
<1>2. IsFiniteSet(x5 \cup {m})
  BY FS_AddElement DEF MemoryInv
<1>3. x6' \subseteq x6 \cup {m}
  BY DEF Memory!Insert
<1> QED
  BY <1>1, <1>2, <1>3 DEF Memory!Insert, MemoryInv

LEMMA MemoryStep ==
    ASSUME MemoryInv, Memory!Next \/ UNCHANGED own
    PROVE  MemoryInv'
<1>1. CASE UNCHANGED own
  BY <1>1 DEF own, MemoryInv
<1>2. CASE Memory!Restart
  BY <1>2, FS_EmptySet DEF Memory!Restart, MemoryInv
<1>3. ASSUME NEW c \in Callers,
             Memory!Lookup(c) \/ Memory!CreateStore(c) \/ Memory!OtherCall(c)
      PROVE  MemoryInv'
  BY <1>3, MemoryCalls
<1>4. ASSUME NEW c \in Callers, NEW m \in Notes, Memory!Write(c, m) PROVE MemoryInv'
  BY <1>4, MemoryWrite
<1>5. ASSUME NEW m \in SavedTasks, Memory!SaveTask(m) \/ Memory!ApiInsert(m) PROVE MemoryInv'
  <2>1. PICK textual \in BOOLEAN : Memory!Insert(m, textual)
    BY Zenon, <1>5 DEF Memory!SaveTask, Memory!ApiInsert
  <2> QED
    BY <2>1, MemoryInsert
<1> QED
  BY Zenon, <1>1, <1>2, <1>3, <1>4, <1>5 DEF Memory!Next

LEMMA MemoryKeeps ==
    ASSUME MemoryInv
    PROVE  /\ Memory!WrittenIsKept /\ Memory!BestIsFound
           /\ Memory!RecalledAreNearest /\ Memory!MoreIsLonger
<1>1. Memory!WrittenIsKept
  BY DEF MemoryInv, Memory!WrittenIsKept
<1>2. Memory!BestIsFound
  <2> SUFFICES ASSUME x2 # None
               PROVE  GivesBest(x2, Memory!near, Memory!text, Memory!Shown(x2), Memory!Found(x2))
    BY Zenon DEF Memory!BestIsFound, GivesBest
  <2> QED
    BY SearchGivesBest DEF MemoryInv
<1>3. Memory!RecalledAreNearest
  <2>1. RecalledOf(x5, x6, Memory!near, Memory!Recalled)
    BY RecallIsNearest DEF MemoryInv
  <2> QED
    BY Zenon, <2>1 DEF Memory!RecalledAreNearest, RecalledOf, Place
<1>4. Memory!MoreIsLonger
  <2>1. x1 \in Scores /\ x5 \subseteq Notes /\ IsFiniteSet(x5)
    BY DEF MemoryInv
  <2> QED
    BY <2>1, MoreOfNode DEF Memory!MoreIsLonger
<1> QED
  BY <1>1, <1>2, <1>3, <1>4


-------------------------------------------------------------------------------
(* All parts                                                                 *)

AgentsInv ==
    /\ part = "agent" => AgentInv
    /\ part = "loop" => LoopInv
    /\ part = "crew" => CrewInv
    /\ part = "chat" => ChatInv
    /\ part = "web" => WebInv
    /\ part = "answers" => AnswersInv
    /\ part = "swarm" => SwarmInv
    /\ part = "memory" => MemoryInv
    /\ part = "library" => LibraryInv

LEMMA AgentsInit == Init => AgentsInv
BY AgentInit, LoopInit, CrewInit, ChatInit, WebInit, AnswersInit, SwarmInit, MemoryInit,
   LibraryInit DEF Init, AgentsInv

\* A step of a behaviour is a step of its part.
LEMMA StepOfPart ==
    ASSUME Next \/ UNCHANGED vars
    PROVE  /\ part' = part
           /\ part = "agent" => Agent!Next \/ UNCHANGED own
           /\ part = "loop" => Loop!Next \/ UNCHANGED own
           /\ part = "crew" => Work!Next \/ UNCHANGED own
           /\ part = "chat" => Chat!Next \/ UNCHANGED own
           /\ part = "web" => Web!Next \/ UNCHANGED own
           /\ part = "answers" => Answers!Next \/ UNCHANGED own
           /\ part = "swarm" => Network!Next \/ UNCHANGED own
           /\ part = "memory" => Memory!Next \/ UNCHANGED own
           /\ part = "library" => Library!Next \/ UNCHANGED own
<1>0. part' = part
  BY DEF Next, In, vars
<1>1. part = "crew" => Work!Next \/ UNCHANGED own
  BY DEF Next, In, vars
<1>2. part = "web" => Web!Next \/ UNCHANGED own
  BY DEF Next, In, vars
<1>3. part = "answers" => Answers!Next \/ UNCHANGED own
  BY DEF Next, In, vars
<1>4. part = "swarm" => Network!Next \/ UNCHANGED own
  BY DEF Next, In, vars
<1>5. part = "library" => Library!Next \/ UNCHANGED own
  BY DEF Next, In, vars
<1>6. part = "agent" => Agent!Next \/ UNCHANGED own
  BY DEF Next, In, vars
<1>7. part = "loop" => Loop!Next \/ UNCHANGED own
  BY DEF Next, In, vars
<1>8. part = "chat" => Chat!Next \/ UNCHANGED own
  BY DEF Next, In, vars
<1>9. part = "memory" => Memory!Next \/ UNCHANGED own
  BY DEF Next, In, vars
<1> QED
  BY Zenon, <1>0, <1>1, <1>2, <1>3, <1>4, <1>5, <1>6, <1>7, <1>8, <1>9

LEMMA AgentsStep ==
    ASSUME AgentsInv, Next \/ UNCHANGED vars
    PROVE  AgentsInv'
BY StepOfPart, AgentStep, LoopStep, CrewStep, ChatStep, WebStep, AnswersStep, SwarmStep,
   MemoryStep, LibraryStep DEF AgentsInv

LEMMA AgentsInvHolds == Spec => []AgentsInv
BY AgentsInit, AgentsStep, PTL DEF Spec

\* An agent keeps within what it is allowed, for any limits and prices: no limit
\* of its budget is passed, although periods end between the check of a call and
\* its charge (budget.rs); it repeats no call of a tool too often, and begins at
\* most one pass after a stop (unified_loop.rs).
THEOREM AgentsKeepLimits == Spec => []LimitsKept
<1>1. AgentsInv => LimitsKept
  <2> SUFFICES ASSUME AgentsInv PROVE LimitsKept
    OBVIOUS
  <2>1. part = "agent" => Agent!TypeOK /\ Agent!BudgetKept
    BY AgentKeeps DEF AgentsInv
  <2>2. part = "loop" => Loop!TypeOK /\ Loop!RepeatsBounded /\ Loop!StopHonouredBetween
    BY LoopKept DEF AgentsInv
  <2>3. part = "crew" => Work!TypeOK
    BY CrewTrue DEF AgentsInv
  <2>4. part = "chat" => Chat!TypeOK
    BY ChatTrue DEF AgentsInv
  <2>5. part = "web" => Web!TypeOK
    BY WebShown DEF AgentsInv
  <2>6. part = "library" => Library!TypeOK
    BY LibraryTrue DEF AgentsInv
  <2> QED
    BY Zenon, <2>1, <2>2, <2>3, <2>4, <2>5, <2>6 DEF LimitsKept, Typed
<1> QED
  BY <1>1, AgentsInvHolds, PTL

\* What a model is shown of the past is whole, for any sizes of what is said and
\* any scores: the recent exchanges of a task survive pruning, and what is sent
\* fits (compaction.rs); the turns of a session had ended and keep their order,
\* also over crashes (mod.rs, session.rs); what was written into memory is there
\* and the best of it is found, whatever the two lists cut off (memory.rs,
\* vector/mod.rs).
THEOREM ContextIsWhole == Spec => []ContextKept
<1>1. AgentsInv => ContextKept
  <2> SUFFICES ASSUME AgentsInv PROVE ContextKept
    OBVIOUS
  <2>1. part = "agent" => Agent!RecentKept /\ Agent!PrunedFits
    BY AgentKeeps DEF AgentsInv
  <2>2. part = "chat" => Chat!CacheInPairs /\ Chat!DiskInPairs /\ Chat!HistoryIsPast
    BY ChatTrue DEF AgentsInv
  <2>3. part = "memory" => /\ Memory!WrittenIsKept /\ Memory!BestIsFound
                           /\ Memory!RecalledAreNearest /\ Memory!MoreIsLonger
    BY MemoryKeeps DEF AgentsInv
  <2> QED
    BY Zenon, <2>1, <2>2, <2>3 DEF ContextKept
<1> QED
  BY <1>1, AgentsInvHolds, PTL

\* What is recorded or told of a run is what happened: a crew that began was
\* valid, its record is that of the run, its output that of each task it did,
\* and only offers of its tasks are worked on (store.rs, orchestrator.rs,
\* runtime.rs); a background task shows the status and the result it ended with
\* (web/mod.rs); a client reads the chunks of its answer in their order and
\* its end after all of them, when it is saved (openai.rs, mod.rs); the counts,
\* the timeline and the agents of the swarm agree (manager.rs); the library of
\* workflows is in its file, and pages that are quiet show it (agent_library.rs).
THEOREM RecordsAreTrue == Spec => []RecordsTrue
<1>1. AgentsInv => RecordsTrue
  BY CrewTrue, WebShown, AnswersTrue, SwarmTrue, LibraryTrue DEF AgentsInv, RecordsTrue
<1> QED
  BY <1>1, AgentsInvHolds, PTL

\* No late answer, chunk or stop changes the status of a background task that
\* has ended, whichever of them come and in which order (web/mod.rs).
THEOREM StatusStays == Spec => StatusIsFinal
<1>1. AgentsInv /\ [Next]_vars => [part = "web" => Web!Settled]_vars
  BY StepOfPart, WebStep DEF AgentsInv
<1> QED
  BY <1>1, AgentsInvHolds, PTL DEF Spec, StatusIsFinal
===============================================================================
