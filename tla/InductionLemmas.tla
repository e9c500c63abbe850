-------------------------- MODULE InductionLemmas --------------------------
(***************************************************************************)
(* What the proofs share: induction and recursion over the natural         *)
(* numbers, and a few facts about sequences.                               *)
(***************************************************************************)
EXTENDS SequenceTheorems, WellFoundedInduction, TLAPS

-----------------------------------------------------------------------------
(* Induction over the natural numbers *)

(***************************************************************************)
(* The library has that < is well founded, and that a well-founded         *)
(* relation has minimal elements.                                          *)
(***************************************************************************)
Below == {p \in Nat \X Nat : p[1] < p[2]}

LEMMA BelowWellFounded == IsWellFoundedOn(Below, Nat)
<1>1. Below = OpToRel(<, Nat)
  BY DEF OpToRel, Below
<1> QED BY <1>1, NatLessThanWellFounded

LEMMA LeastElement ==
  ASSUME NEW S \in SUBSET Nat, S # {}
  PROVE  \E n \in S : \A m \in S : n <= m
<1>1. PICK n \in S : \A m \in S : ~ (<<m, n>> \in Below)
  BY BelowWellFounded, WFMin, Zenon
<1>2. ASSUME NEW m \in S PROVE n <= m
  <2>1. ~ (<<m, n>> \in Below) /\ n \in Nat /\ m \in Nat
    BY <1>1
  <2>2. <<m, n>> \in Below <=> m < n
    BY <2>1 DEF Below
  <2> QED BY <2>1, <2>2
<1> QED BY <1>2

LEMMA InductiveSet ==
  ASSUME NEW S \in SUBSET Nat, 0 \in S, \A n \in S : n + 1 \in S
  PROVE  S = Nat
<1> SUFFICES ASSUME S # Nat PROVE FALSE
  OBVIOUS
<1>1. PICK n \in Nat \ S : \A m \in Nat \ S : n <= m
  BY LeastElement
<1>2. n - 1 \in Nat /\ ~ (n <= n - 1)
  BY <1>1
<1> QED BY <1>1, <1>2

\* A function is defined by its first value and the step to the next one.
LEMMA RecursionExists ==
  ASSUME NEW T, NEW a \in T, NEW g \in [T -> T]
  PROVE  \E f \in [Nat -> T] :
           f[0] = a /\ \A n \in Nat : f[n + 1] = g[f[n]]
<1> DEFINE Table(f, m) == /\ f \in [Nat -> T] /\ f[0] = a
                          /\ \A n \in Nat : n < m => f[n + 1] = g[f[n]]
           S == {m \in Nat : \E f : Table(f, m)}
<1>1. 0 \in S
  <2> DEFINE f == [n \in Nat |-> a]
  <2>1. Table(f, 0)
    OBVIOUS
  <2> QED BY <2>1
<1>2. ASSUME NEW m \in S PROVE m + 1 \in S
  <2>1. PICK f : Table(f, m)
    OBVIOUS
  <2> DEFINE h == [n \in Nat |-> IF n = m + 1 THEN g[f[m]] ELSE f[n]]
  <2>2. h \in [Nat -> T] /\ h[0] = a
    BY <2>1
  <2>3. ASSUME NEW n \in Nat, n < m + 1 PROVE h[n + 1] = g[h[n]]
    <3>1. CASE n = m
      BY <3>1
    <3>2. CASE n < m
      <4>1. n # m + 1 /\ n + 1 # m + 1
        BY <3>2
      <4> QED BY <2>1, <3>2, <4>1
    <3> QED BY <2>3, <3>1, <3>2
  <2> HIDE DEF h
  <2> QED BY <2>2, <2>3
<1>3. S = Nat
  <2>1. S \subseteq Nat
    OBVIOUS
  <2> HIDE DEF S
  <2> QED BY <1>1, <1>2, <2>1, InductiveSet
<1>4. \A m \in Nat : \E f : Table(f, m)
  BY <1>3
<1> DEFINE G == [m \in Nat |-> CHOOSE f : Table(f, m)]
           F == [n \in Nat |-> G[n][n]]
<1>5. \A m \in Nat : Table(G[m], m)
  BY <1>4
<1> HIDE DEF G
<1>6. ASSUME NEW m \in Nat PROVE G[m + 1][m] = G[m][m]
  <2> DEFINE s == {n \in Nat : n <= m => G[m + 1][n] = G[m][n]}
  <2>0. Table(G[m], m) /\ Table(G[m + 1], m + 1)
    BY <1>5
  <2>1. 0 \in s
    BY <2>0
  <2>2. ASSUME NEW n \in s PROVE n + 1 \in s
    BY <2>0
  <2>3. s = Nat
    <3>1. s \subseteq Nat
      OBVIOUS
    <3> HIDE DEF s
    <3> QED BY <2>1, <2>2, <3>1, InductiveSet
  <2> QED BY <2>3
<1>7. F \in [Nat -> T] /\ F[0] = a
  BY <1>5
<1>8. ASSUME NEW n \in Nat PROVE F[n + 1] = g[F[n]]
  <2>1. G[n + 1][n + 1] = g[G[n + 1][n]]
    BY <1>5
  <2> QED BY <1>6, <2>1
<1> HIDE DEF F
<1> QED BY <1>7, <1>8

\* The same, with what the function is as one predicate.
Iterates(f, T, a, g) == f \in [Nat -> T] /\ f[0] = a /\ \A n \in Nat : f[n + 1] = g[f[n]]

LEMMA IterationExists ==
  ASSUME NEW T, NEW a \in T, NEW g \in [T -> T]
  PROVE  \E f : Iterates(f, T, a, g)
<1>1. PICK f \in [Nat -> T] : f[0] = a /\ \A n \in Nat : f[n + 1] = g[f[n]]
  BY RecursionExists
<1> QED BY <1>1 DEF Iterates

\* The step may depend on how many steps have been made.
IndexedStep(T, g) == g \in [Nat -> [T -> T]]

LEMMA IndexedRecursionExists ==
  ASSUME NEW T, NEW a \in T, NEW g, IndexedStep(T, g)
  PROVE  \E f \in [Nat -> T] :
           f[0] = a /\ \A n \in Nat : f[n + 1] = g[n][f[n]]
<1> DEFINE P == Nat \X T
           b == <<0, a>>
           h == [x \in P |-> <<x[1] + 1, g[x[1]][x[2]]>>]
<1>1. b \in P /\ h \in [P -> P]
  BY DEF IndexedStep
<1>2. PICK r \in [Nat -> P] : r[0] = b /\ \A n \in Nat : r[n + 1] = h[r[n]]
  <2> HIDE DEF P, b, h
  <2> QED BY <1>1, RecursionExists
<1>3. ASSUME NEW n \in Nat
      PROVE  r[n + 1] = <<r[n][1] + 1, g[r[n][1]][r[n][2]]>>
  <2>1. r[n] \in P /\ r[n + 1] = h[r[n]]
    BY <1>2
  <2> HIDE DEF P
  <2> QED BY <2>1
<1> DEFINE S == {n \in Nat : r[n][1] = n}
<1>4. S = Nat
  <2>1. 0 \in S
    BY <1>2
  <2>2. ASSUME NEW n \in S PROVE n + 1 \in S
    <3>1. n \in Nat /\ r[n][1] = n
      OBVIOUS
    <3>2. r[n + 1] = <<n + 1, g[r[n][1]][r[n][2]]>>
      BY <1>3, <3>1
    <3> QED BY <3>1, <3>2
  <2>3. S \subseteq Nat
    OBVIOUS
  <2> HIDE DEF S
  <2> QED BY <2>1, <2>2, <2>3, InductiveSet
<1>5. ASSUME NEW n \in Nat PROVE r[n][1] = n /\ r[n][2] \in T
  <2>1. r[n][1] = n
    BY <1>4
  <2>2. r[n] \in Nat \X T
    BY <1>2
  <2> QED BY <2>1, <2>2
<1> DEFINE f == [n \in Nat |-> r[n][2]]
<1>6. f \in [Nat -> T] /\ f[0] = a
  BY <1>2, <1>5
<1>7. ASSUME NEW n \in Nat PROVE f[n + 1] = g[n][f[n]]
  <2>1. r[n + 1] = <<r[n][1] + 1, g[r[n][1]][r[n][2]]>>
    BY <1>3
  <2> QED BY <1>5, <2>1
<1> HIDE DEF f
<1> QED BY <1>6, <1>7

-----------------------------------------------------------------------------
(* Sequences *)

\* The head of a sequence is its first element, its tail the others.
LEMMA HeadTail ==
  ASSUME NEW S, NEW q \in Seq(S), q # <<>>
  PROVE  /\ Head(q) \in S /\ Tail(q) \in Seq(S)
         /\ 1 \in DOMAIN q /\ Head(q) = q[1]
         /\ \A i \in DOMAIN Tail(q) :
              i \in Int /\ i >= 1 /\ i + 1 \in DOMAIN q /\ Tail(q)[i] = q[i + 1]
         /\ \A i \in DOMAIN q :
              i = 1 \/ (i - 1 \in DOMAIN Tail(q) /\ Tail(q)[i - 1] = q[i])
<1>1. /\ Len(q) \in Nat \ {0} /\ DOMAIN q = 1..Len(q)
  BY LenProperties, EmptySeq
<1>2. /\ Head(q) \in S /\ Tail(q) \in Seq(S) /\ Len(Tail(q)) = Len(q) - 1
      /\ \A i \in 1..Len(Tail(q)) : Tail(q)[i] = q[i + 1]
  BY HeadTailProperties
<1>3. DOMAIN Tail(q) = 1..Len(Tail(q))
  BY <1>2, LenProperties
<1>4. Head(q) = q[1]
  OBVIOUS
<1>5. ASSUME NEW i \in DOMAIN q, i # 1
      PROVE  i - 1 \in DOMAIN Tail(q) /\ Tail(q)[i - 1] = q[i]
  <2>1. i - 1 \in 1..Len(Tail(q)) /\ (i - 1) + 1 = i
    BY <1>1, <1>2, <1>5
  <2> QED BY <1>2, <1>3, <2>1
<1>6. ASSUME NEW i \in DOMAIN Tail(q)
      PROVE  i \in Int /\ i >= 1 /\ i + 1 \in DOMAIN q /\ Tail(q)[i] = q[i + 1]
  BY <1>1, <1>2, <1>3
<1>7. 1 \in DOMAIN q
  BY <1>1
<1> QED BY <1>2, <1>4, <1>5, <1>6, <1>7

\* What <<a, b>> \o t consists of.
LEMMA TwoBefore ==
  ASSUME NEW S, NEW a \in S, NEW b \in S, NEW t \in Seq(S)
  PROVE  /\ <<a, b>> \o t \in Seq(S)
         /\ <<a, b>> \o t # <<>>
         /\ 1 \in DOMAIN (<<a, b>> \o t) /\ (<<a, b>> \o t)[1] = a
         /\ 2 \in DOMAIN (<<a, b>> \o t) /\ (<<a, b>> \o t)[2] = b
         /\ \A i \in DOMAIN t : /\ i \in Int /\ i >= 1
                                /\ i + 2 \in DOMAIN (<<a, b>> \o t)
                                /\ (<<a, b>> \o t)[i + 2] = t[i]
         /\ \A i \in DOMAIN (<<a, b>> \o t) :
              \/ i = 1 \/ i = 2
              \/ i - 2 \in DOMAIN t /\ (<<a, b>> \o t)[i] = t[i - 2]
<1> DEFINE q == <<a, b>> \o t
           two == <<a, b>>
<1>1. two \in Seq(S) /\ Len(two) = 2 /\ two[1] = a /\ two[2] = b
  OBVIOUS
<1>2. Len(t) \in Nat /\ DOMAIN t = 1..Len(t)
  BY LenProperties
<1>a. q = two \o t
  OBVIOUS
<1> HIDE DEF two, q
<1>3. /\ q \in Seq(S) /\ Len(q) = 2 + Len(t)
      /\ \A i \in 1..2 + Len(t) : q[i] = IF i <= 2 THEN two[i] ELSE t[i - 2]
  <2>1. /\ two \o t \in Seq(S) /\ Len(two \o t) = Len(two) + Len(t)
        /\ \A i \in 1..Len(two) + Len(t) :
              (two \o t)[i] = IF i <= Len(two) THEN two[i] ELSE t[i - Len(two)]
    BY <1>1, ConcatProperties
  <2>2. Len(two) = 2 /\ q = two \o t
    BY <1>1, <1>a
  <2> QED BY <2>1, <2>2, Zenon
<1>4. DOMAIN q = 1..2 + Len(t)
  BY <1>3, LenProperties
<1>5. q # <<>>
  BY <1>2, <1>3, EmptySeq
<1>6. 1 \in DOMAIN q /\ q[1] = a /\ 2 \in DOMAIN q /\ q[2] = b
  BY <1>1, <1>2, <1>3, <1>4
<1>7. ASSUME NEW i \in DOMAIN t
      PROVE  i \in Int /\ i >= 1 /\ i + 2 \in DOMAIN q /\ q[i + 2] = t[i]
  <2>1. i + 2 \in 1..2 + Len(t) /\ ~ (i + 2 <= 2) /\ (i + 2) - 2 = i
    BY <1>2
  <2> QED BY <1>2, <1>3, <1>4, <2>1
<1>8. ASSUME NEW i \in DOMAIN q, i # 1, i # 2
      PROVE  i - 2 \in DOMAIN t /\ q[i] = t[i - 2]
  <2>1. i \in 1..2 + Len(t) /\ ~ (i <= 2) /\ i - 2 \in 1..Len(t)
    BY <1>2, <1>4, <1>8
  <2> QED BY <1>2, <1>3, <2>1
<1> QED BY <1>3, <1>5, <1>6, <1>7, <1>8 DEF q

\* The outputs of the ranges that are still to prove.
OutputsIn(q) == UNION {q[i].outputs : i \in DOMAIN q}

LEMMA PendingHead ==
  ASSUME NEW S, NEW q \in Seq(S), q # <<>>
  PROVE  OutputsIn(q) = Head(q).outputs \cup OutputsIn(Tail(q))
<1>1. /\ 1 \in DOMAIN q /\ Head(q) = q[1]
      /\ \A i \in DOMAIN Tail(q) : i + 1 \in DOMAIN q /\ Tail(q)[i] = q[i + 1]
      /\ \A i \in DOMAIN q : i = 1 \/ (i - 1 \in DOMAIN Tail(q) /\ Tail(q)[i - 1] = q[i])
  BY HeadTail
<1>2. ASSUME NEW o \in OutputsIn(q) PROVE o \in Head(q).outputs \cup OutputsIn(Tail(q))
  <2>1. PICK i \in DOMAIN q : o \in q[i].outputs
    BY <1>2 DEF OutputsIn
  <2>2. CASE i = 1
    BY <1>1, <2>1, <2>2
  <2>3. CASE i # 1
    <3>1. i - 1 \in DOMAIN Tail(q) /\ o \in Tail(q)[i - 1].outputs
      BY <1>1, <2>1, <2>3
    <3> QED BY <3>1 DEF OutputsIn
  <2> QED BY <2>2, <2>3
<1>3. ASSUME NEW o \in OutputsIn(Tail(q)) PROVE o \in OutputsIn(q)
  <2>1. PICK i \in DOMAIN Tail(q) : o \in Tail(q)[i].outputs
    BY <1>3 DEF OutputsIn
  <2>2. i + 1 \in DOMAIN q /\ o \in q[i + 1].outputs
    BY <1>1, <2>1
  <2> QED BY <2>2 DEF OutputsIn
<1>4. Head(q).outputs \subseteq OutputsIn(q)
  BY <1>1 DEF OutputsIn
<1> QED BY <1>2, <1>3, <1>4

LEMMA PendingTwo ==
  ASSUME NEW S, NEW a \in S, NEW b \in S, NEW t \in Seq(S)
  PROVE  OutputsIn(<<a, b>> \o t) = a.outputs \cup b.outputs \cup OutputsIn(t)
<1> DEFINE q == <<a, b>> \o t
<1>1. /\ 1 \in DOMAIN q /\ q[1] = a /\ 2 \in DOMAIN q /\ q[2] = b
      /\ \A i \in DOMAIN t : i + 2 \in DOMAIN q /\ q[i + 2] = t[i]
      /\ \A i \in DOMAIN q : i = 1 \/ i = 2 \/ (i - 2 \in DOMAIN t /\ q[i] = t[i - 2])
  BY TwoBefore
<1> HIDE DEF q
<1>2. OutputsIn(q) = a.outputs \cup b.outputs \cup OutputsIn(t)
  BY <1>1 DEF OutputsIn
<1> QED BY <1>2 DEF q

\* What is left when the element at k is taken out.
LEMMA OneLess ==
  ASSUME NEW S, NEW q \in Seq(S), NEW k \in 1..Len(q)
  PROVE  LET r == SubSeq(q, 1, k - 1) \o SubSeq(q, k + 1, Len(q))
         IN  /\ r \in Seq(S) /\ Len(r) = Len(q) - 1
             /\ \A i \in 1..Len(q) - 1 : r[i] = IF i < k THEN q[i] ELSE q[i + 1]
<1> DEFINE a == SubSeq(q, 1, k - 1)
           b == SubSeq(q, k + 1, Len(q))
<1>0. Len(q) \in Nat /\ \A i \in 1..Len(q) : q[i] \in S
  BY LenProperties, ElementOfSeq
<1>1. /\ a \in Seq(S) /\ Len(a) = k - 1
      /\ \A i \in 1..k - 1 : a[i] = q[i]
  <2>1. 1 \in Int /\ k - 1 \in Int /\ \A i \in 1..k - 1 : q[i] \in S
    BY <1>0
  <2>2. /\ a \in Seq(S) /\ Len(a) = (IF 1 <= k - 1 THEN (k - 1) - 1 + 1 ELSE 0)
        /\ \A i \in 1..(k - 1) - 1 + 1 : a[i] = q[1 + i - 1]
    BY <2>1, SubSeqProperties
  <2>3. ASSUME NEW i \in 1..k - 1 PROVE a[i] = q[i]
    <3>1. i \in 1..(k - 1) - 1 + 1 /\ 1 + i - 1 = i
      OBVIOUS
    <3> QED BY <2>2, <3>1
  <2> QED BY <2>2, <2>3
<1>2. /\ b \in Seq(S) /\ Len(b) = Len(q) - k
      /\ \A i \in 1..Len(q) - k : b[i] = q[k + i]
  <2>1. k + 1 \in Int /\ Len(q) \in Int /\ \A i \in k + 1..Len(q) : q[i] \in S
    BY <1>0
  <2>2. /\ b \in Seq(S)
        /\ Len(b) = (IF k + 1 <= Len(q) THEN Len(q) - (k + 1) + 1 ELSE 0)
        /\ \A i \in 1..Len(q) - (k + 1) + 1 : b[i] = q[(k + 1) + i - 1]
    BY <2>1, SubSeqProperties
  <2>3. ASSUME NEW i \in 1..Len(q) - k PROVE b[i] = q[k + i]
    <3>1. i \in 1..Len(q) - (k + 1) + 1 /\ (k + 1) + i - 1 = k + i
      BY <1>0
    <3> QED BY <2>2, <3>1
  <2> QED BY <1>0, <2>2, <2>3
<1> HIDE DEF a, b
<1>3. /\ a \o b \in Seq(S) /\ Len(a \o b) = Len(a) + Len(b)
      /\ \A i \in 1..Len(a) + Len(b) :
           (a \o b)[i] = IF i <= Len(a) THEN a[i] ELSE b[i - Len(a)]
  BY <1>1, <1>2, ConcatProperties
<1>4. ASSUME NEW i \in 1..Len(q) - 1
      PROVE  (a \o b)[i] = IF i < k THEN q[i] ELSE q[i + 1]
  <2>0. i \in 1..Len(a) + Len(b)
    BY <1>0, <1>1, <1>2
  <2>1. CASE i < k
    BY <1>0, <1>1, <1>3, <2>0, <2>1
  <2>2. CASE ~ (i < k)
    <3>1. i - (k - 1) \in 1..Len(q) - k /\ k + (i - (k - 1)) = i + 1 /\ ~ (i <= k - 1)
      BY <1>0, <2>2
    <3> QED BY <1>1, <1>2, <1>3, <2>0, <2>2, <3>1
  <2> QED BY <2>1, <2>2
<1>5. Len(a \o b) = Len(q) - 1
  BY <1>0, <1>1, <1>2, <1>3
<1> QED BY <1>3, <1>4, <1>5 DEF a, b
=============================================================================
