-------------------------- MODULE KInductionProofs --------------------------
(***************************************************************************)
(* Proofs about KInduction: a closed induction step is a proof relative to *)
(* the first difference of the hypothesis, and what the engine and the     *)
(* residual strategy make of such proofs (ranges, slices, deferred base    *)
(* checks, memo and fallback) is sound.                                    *)
(***************************************************************************)
EXTENDS KInduction, InductionLemmas, FiniteSetTheorems, SequenceTheorems

-----------------------------------------------------------------------------
(* Reachability *)

\* The transition system of a problem.
Machine(p) == p.init \subseteq State /\ p.next \in [Point -> State]

\* AfterSteps is the function its recursion describes.
LEMMA AfterStepsUnfolds ==
  ASSUME NEW p, Machine(p)
  PROVE  /\ AfterSteps(p) \in [Nat -> SUBSET State]
         /\ AfterSteps(p)[0] = p.init
         /\ \A n \in Nat : AfterSteps(p)[n + 1] = Successors(p, AfterSteps(p)[n])
<1> DEFINE T == SUBSET State
           g == [S \in T |-> Successors(p, S)]
           a == p.init
<1>1. a \in T /\ g \in [T -> T]
  <2>1. p.init \in T
    BY DEF Machine
  <2>2. ASSUME NEW S \in T PROVE Successors(p, S) \in T
    BY DEF Successors, Point, Machine
  <2> QED BY <2>1, <2>2
<1>2. PICK f \in [Nat -> T] : f[0] = p.init /\ \A n \in Nat : f[n + 1] = g[f[n]]
  <2> HIDE DEF T, g, a
  <2>1. \E f \in [Nat -> T] : f[0] = a /\ \A n \in Nat : f[n + 1] = g[f[n]]
    BY <1>1, RecursionExists
  <2> QED BY <2>1 DEF a
<1> DEFINE h == [n \in Nat |-> IF n = 0 THEN p.init ELSE Successors(p, f[n - 1])]
<1>3. ASSUME NEW n \in Nat PROVE h[n] = f[n]
  <2>1. CASE n = 0
    BY <1>2, <2>1
  <2>2. CASE n # 0
    <3>1. n - 1 \in Nat /\ (n - 1) + 1 = n
      BY <2>2
    <3>2. f[n] = g[f[n - 1]] /\ f[n - 1] \in T
      BY <1>2, <3>1
    <3> QED BY <2>2, <3>2
  <2> QED BY <2>1, <2>2
<1>4. f = h
  <2>1. f = [n \in Nat |-> f[n]] /\ h = [n \in Nat |-> h[n]]
    BY <1>2
  <2> HIDE DEF h
  <2> QED BY <1>3, <2>1
<1>5. \E A : A = [n \in Nat |-> IF n = 0 THEN p.init ELSE Successors(p, A[n - 1])]
  BY <1>4
<1>6. AfterSteps(p) = [n \in Nat |-> IF n = 0 THEN p.init ELSE Successors(p, AfterSteps(p)[n - 1])]
  BY <1>5, Zenon DEF AfterSteps
<1>7. /\ AfterSteps(p)[0] = p.init
      /\ \A n \in Nat : AfterSteps(p)[n + 1] = Successors(p, AfterSteps(p)[n])
  BY <1>6
<1>8. AfterSteps(p) \in [Nat -> T]
  <2> DEFINE A == AfterSteps(p)
             S == {n \in Nat : A[n] \in T}
  <2> HIDE DEF A
  <2>1. 0 \in S
    BY <1>1, <1>7 DEF A
  <2>2. ASSUME NEW n \in S PROVE n + 1 \in S
    <3>1. A[n + 1] = g[A[n]]
      BY <1>7 DEF A
    <3> QED BY <1>1, <3>1
  <2>3. S = Nat
    <3>1. S \subseteq Nat
      OBVIOUS
    <3> HIDE DEF S
    <3> QED BY <2>1, <2>2, <3>1, InductiveSet
  <2>4. \A n \in Nat : A[n] \in T
    BY <2>3
  <2>5. A = [n \in Nat |-> IF n = 0 THEN p.init ELSE Successors(p, A[n - 1])]
    BY <1>6 DEF A
  <2>6. A = [n \in Nat |-> A[n]]
    BY <2>5
  <2> HIDE DEF T
  <2>7. A \in [Nat -> T]
    BY <2>4, <2>6
  <2> QED BY <2>7 DEF A
<1> QED BY <1>7, <1>8

LEMMA ProblemFields ==
  ASSUME NEW p \in Problem
  PROVE  /\ Machine(p)
         /\ p.differ \in [Outputs -> SUBSET Point]
         /\ p.dualRail \in BOOLEAN
         /\ p.surface \in {"small", "medium", "large"}
         /\ p.simplePath \in BOOLEAN
BY DEF Problem, Machine

-----------------------------------------------------------------------------
(* Reachability *)

\* A path of the machine over the frames 0..d.
Path(p, d, q) ==
  /\ q \in [0..d -> Point]
  /\ \A j \in 0..d - 1 : q[j + 1][1] = p.next[q[j]]

\* The path starts at an initial state and ends in x.
PathFromInit(p, d, q, x) ==
  Path(p, d, q) /\ q[d] = x /\ \A j \in 0..d : q[j][1] \in AfterSteps(p)[j]

\* Every point of depth d ends a path that starts at an initial state.
LEMMA PathTo ==
  ASSUME NEW p, Machine(p), NEW d \in Nat, NEW s \in AfterSteps(p)[d], NEW i \in Inputs
  PROVE  \E q : PathFromInit(p, d, q, <<s, i>>)
<1> DEFINE A == AfterSteps(p)
           Good(n, q, t, x) == /\ Path(p, n, q) /\ q[n] = <<t, x>>
                               /\ \A j \in 0..n : q[j][1] \in A[j]
           All(n) == \A t \in A[n] : \A x \in Inputs : \E q : Good(n, q, t, x)
           S == {n \in Nat : All(n)}
<1>a. /\ A \in [Nat -> SUBSET State]
      /\ \A n \in Nat : A[n + 1] = Successors(p, A[n])
  BY AfterStepsUnfolds
<1> HIDE DEF A
<1>1. ASSUME NEW t \in A[0], NEW x \in Inputs PROVE \E q : Good(0, q, t, x)
  <2> DEFINE q == [j \in 0..0 |-> <<t, x>>]
  <2>1. <<t, x>> \in Point
    BY <1>a DEF Point
  <2>2. Path(p, 0, q)
    BY <2>1 DEF Path
  <2>3. Good(0, q, t, x)
    BY <2>2
  <2> QED BY <2>3
<1>2. ASSUME NEW n \in Nat, All(n), NEW t \in A[n + 1], NEW x \in Inputs
      PROVE  \E q : Good(n + 1, q, t, x)
  <2>0. A[n + 1] = Successors(p, A[n])
    BY <1>a
  <2>1. PICK v \in A[n] \X Inputs : t = p.next[v]
    BY <2>0 DEF Successors
  <2>2. v[1] \in A[n] /\ v[2] \in Inputs /\ v = <<v[1], v[2]>>
    BY <2>1
  <2>3. PICK q : Good(n, q, v[1], v[2])
    BY <1>2, <2>2
  <2>4. <<t, x>> \in Point
    <3>1. A[n + 1] \in SUBSET State
      BY <1>a
    <3> QED BY <3>1 DEF Point
  <2> DEFINE r == [j \in 0..n + 1 |-> IF j = n + 1 THEN <<t, x>> ELSE q[j]]
  <2>5. q \in [0..n -> Point] /\ q[n] = v /\ \A j \in 0..n - 1 : q[j + 1][1] = p.next[q[j]]
    BY <2>2, <2>3 DEF Path
  <2>6. r \in [0..n + 1 -> Point]
    BY <2>4, <2>5
  <2>7. ASSUME NEW j \in 0..n PROVE r[j + 1][1] = p.next[r[j]]
    <3>1. CASE j = n
      <4>1. /\ n + 1 \in 0..n + 1 /\ n \in 0..n + 1 /\ n # n + 1
            /\ r[n + 1] = <<t, x>> /\ r[n] = q[n]
        OBVIOUS
      <4>2. <<t, x>>[1] = p.next[v]
        BY <2>1
      <4> HIDE DEF r
      <4> QED BY <2>5, <3>1, <4>1, <4>2
    <3>2. CASE j # n
      <4>1. j \in 0..n - 1 /\ r[j] = q[j] /\ r[j + 1] = q[j + 1]
        BY <3>2
      <4> QED BY <2>5, <4>1
    <3> QED BY <3>1, <3>2
  <2>8. ASSUME NEW j \in 0..n + 1 PROVE r[j][1] \in A[j]
    <3>1. CASE j = n + 1
      BY <3>1
    <3>2. CASE j # n + 1
      <4>1. j \in 0..n /\ r[j] = q[j]
        BY <3>2
      <4> QED BY <2>3, <4>1
    <3> QED BY <3>1, <3>2
  <2>9. r[n + 1] = <<t, x>> /\ (n + 1) - 1 = n
    OBVIOUS
  <2> HIDE DEF r
  <2>10. Path(p, n + 1, r)
    BY <2>6, <2>7, <2>9 DEF Path
  <2> QED BY <2>8, <2>9, <2>10
<1>3. All(0) /\ \A n \in Nat : All(n) => All(n + 1)
  BY <1>1, <1>2
<1> HIDE DEF All
<1>4. S = Nat
  <2>1. S \subseteq Nat /\ 0 \in S /\ \A n \in S : n + 1 \in S
    BY <1>3
  <2> HIDE DEF S
  <2> QED BY <2>1, InductiveSet
<1>5. All(d)
  BY <1>4
<1> QED BY <1>5 DEF All, A, PathFromInit

\* A path that visits a state of depth e in frame m reaches its end d - m
\* steps later.
LEMMA Shortcut ==
  ASSUME NEW p, Machine(p), NEW d \in Nat, NEW q, Path(p, d, q),
         NEW m \in 0..d, NEW e \in Nat, q[m][1] \in AfterSteps(p)[e]
  PROVE  q[d][1] \in AfterSteps(p)[e + (d - m)]
<1> DEFINE A == AfterSteps(p)
           At(n) == m + n <= d => q[m + n][1] \in A[e + n]
           S == {n \in Nat : At(n)}
<1>a. \A n \in Nat : A[n + 1] = Successors(p, A[n])
  BY AfterStepsUnfolds
<1>b. q[m][1] \in A[e]
  OBVIOUS
<1> HIDE DEF A
<1>1. At(0)
  <2>1. m + 0 = m /\ e + 0 = e
    OBVIOUS
  <2> QED BY <1>b, <2>1
<1>2. ASSUME NEW n \in Nat, At(n), m + (n + 1) <= d
      PROVE  q[m + (n + 1)][1] \in A[e + (n + 1)]
  <2> DEFINE j == m + n
  <2>1. /\ j \in 0..d - 1 /\ j \in 0..d /\ m + (n + 1) = j + 1 /\ e + (n + 1) = (e + n) + 1
        /\ e + n \in Nat
    BY <1>2
  <2>2. q[j][1] \in A[e + n]
    BY <1>2, <2>1
  <2>3. q[j] \in Point /\ q[j + 1][1] = p.next[q[j]]
    BY <2>1 DEF Path
  <2>4. q[j] \in A[e + n] \X Inputs
    BY <2>2, <2>3 DEF Point
  <2>5. q[j + 1][1] \in Successors(p, A[e + n])
    BY <2>3, <2>4 DEF Successors
  <2>6. A[(e + n) + 1] = Successors(p, A[e + n])
    BY <1>a, <2>1
  <2> QED BY <2>1, <2>5, <2>6
<1>3. At(0) /\ \A n \in Nat : At(n) => At(n + 1)
  BY <1>1, <1>2
<1> HIDE DEF At
<1>4. S = Nat
  <2>1. S \subseteq Nat /\ 0 \in S /\ \A n \in S : n + 1 \in S
    BY <1>3
  <2> HIDE DEF S
  <2> QED BY <2>1, InductiveSet
<1>5. d - m \in Nat /\ m + (d - m) = d
  OBVIOUS
<1>6. At(d - m)
  BY <1>4, <1>5
<1> QED BY <1>5, <1>6 DEF At, A

-----------------------------------------------------------------------------
(* What a closed step proves *)

\* DiffersAt for the problem p: some output of S differs at depth d.
Differs(p, S, d) ==
  \E x \in AfterSteps(p)[d] \X Inputs : \E o \in S : x \in p.differ[o]

\* S differs at depth d, and at no smaller depth.
First(p, S, d) == Differs(p, S, d) /\ \A e \in Nat : e < d => ~ Differs(p, S, e)

\* No output of S differs where G first differs, when that is at depth n or
\* deeper.
NotFirst(p, G, S, n) ==
  \A d \in Nat : First(p, G, d) /\ n <= d => ~ Differs(p, S, d)

Never(p, S) == \A d \in Nat : ~ Differs(p, S, d)
Clean(p, S, n) == \A d \in Nat : d < n => ~ Differs(p, S, d)

LEMMA DiffersIs ==
  \A S, d : DiffersAt(S, d) <=> Differs(problem, S, d)
BY DEF DiffersAt, Differs, Differ, Frontier

LEMMA DiffersMonotone ==
  ASSUME NEW p, NEW S, NEW T, S \subseteq T, NEW d, Differs(p, S, d)
  PROVE  Differs(p, T, d)
BY DEF Differs

(***************************************************************************)
(* The step formula without a counterexample at k, for the outputs S under *)
(* the hypothesis H: S does not differ at a depth of at least k which no   *)
(* output of S or H precedes.  A path to such a depth has no repeated      *)
(* state in its last k frames, or S would differ earlier.                  *)
(***************************************************************************)
LEMMA StepSound ==
  ASSUME problem \in Problem, NEW S, NEW H, NEW k \in Nat, NEW d \in Nat, k <= d,
         ~ StepCounterexample(H, S, k),
         \A e \in Nat : e < d => ~ DiffersAt(S, e) /\ ~ DiffersAt(H, e)
  PROVE  ~ DiffersAt(S, d)
<1> SUFFICES ASSUME DiffersAt(S, d) PROVE FALSE
  OBVIOUS
<1> DEFINE A == AfterSteps(problem)
<1>m. Machine(problem)
  BY ProblemFields
<1>1. PICK s \in A[d] : \E i \in Inputs : <<s, i>> \in Differ(S)
  BY DEF DiffersAt, Frontier
<1>2. PICK i \in Inputs : <<s, i>> \in Differ(S)
  BY <1>1
<1>3. PICK q : PathFromInit(problem, d, q, <<s, i>>)
  BY <1>m, PathTo
<1>3a. /\ Path(problem, d, q) /\ q[d] = <<s, i>>
       /\ \A j \in 0..d : q[j][1] \in A[j]
  BY <1>3 DEF PathFromInit
<1> DEFINE r == [j \in 0..k |-> q[(d - k) + j]]
<1>4. ASSUME NEW j \in 0..k PROVE (d - k) + j \in 0..d /\ r[j] = q[(d - k) + j]
  OBVIOUS
<1>5. r \in [0..k -> Point] /\ r[k] \in Differ(S)
  <2>1. r \in [0..k -> Point]
    BY <1>3a, <1>4 DEF Path
  <2>2. k \in 0..k /\ (d - k) + k = d
    OBVIOUS
  <2> QED BY <1>2, <1>3a, <1>4, <2>1, <2>2
<1> HIDE DEF A, r
<1>6. ASSUME NEW j \in 0..k - 1
      PROVE  r[j] \notin Differ(H) /\ r[j + 1][1] = problem.next[r[j]]
  <2> DEFINE e == (d - k) + j
  <2>1. /\ e \in Nat /\ e < d /\ e \in 0..d /\ e \in 0..d - 1 /\ j \in 0..k /\ j + 1 \in 0..k
        /\ (d - k) + (j + 1) = e + 1
    OBVIOUS
  <2>2. r[j] = q[e] /\ r[j + 1] = q[e + 1]
    BY <1>4, <2>1
  <2>3. q[e] \in Point /\ q[e][1] \in A[e] /\ q[e + 1][1] = problem.next[q[e]]
    BY <1>3a, <2>1 DEF Path
  <2>4. q[e] \in Frontier(e)
    BY <2>3 DEF Frontier, Point, A
  <2>5. ~ DiffersAt(H, e)
    BY <2>1
  <2> HIDE DEF e
  <2> QED BY <2>2, <2>3, <2>4, <2>5 DEF DiffersAt
<1>7. ASSUME NEW g \in 0..k, NEW j \in 0..k, g < j, r[g][1] = r[j][1]
      PROVE  FALSE
  <2> DEFINE m == (d - k) + j
             e == (d - k) + g
  <2>1. /\ m \in 0..d /\ e \in Nat /\ e \in 0..d /\ r[g] = q[e] /\ r[j] = q[m]
        /\ e + (d - m) \in Nat /\ e + (d - m) < d
    BY <1>4, <1>7
  <2>2. q[m][1] \in A[e]
    BY <1>3a, <1>7, <2>1
  <2> HIDE DEF m, e
  <2>3. q[d][1] \in A[e + (d - m)]
    BY <1>m, <1>3a, <2>1, <2>2, Shortcut DEF A
  <2>4. <<s, i>> \in Frontier(e + (d - m))
    BY <1>3a, <2>3 DEF Frontier, A
  <2>5. DiffersAt(S, e + (d - m))
    BY <1>2, <2>4 DEF DiffersAt
  <2> QED BY <2>1, <2>5
<1>8. \A g, j \in 0..k : r[g][1] = r[j][1] => g = j
  <2> SUFFICES ASSUME NEW g \in 0..k, NEW j \in 0..k, r[g][1] = r[j][1], g # j
               PROVE  FALSE
    OBVIOUS
  <2>1. g < j \/ j < g
    OBVIOUS
  <2> QED BY <1>7, <2>1
<1> QED BY <1>5, <1>6, <1>8 DEF StepCounterexample

\* The same for a hypothesis and outputs among G: S does not differ where G
\* first differs.
LEMMA ClosedStepNotFirst ==
  ASSUME problem \in Problem, NEW G, NEW S, S \subseteq G, NEW H, H \subseteq G,
         NEW k \in Nat, ~ StepCounterexample(H, S, k)
  PROVE  NotFirst(problem, G, S, k)
<1> SUFFICES ASSUME NEW d \in Nat, First(problem, G, d), k <= d
             PROVE  ~ Differs(problem, S, d)
  BY DEF NotFirst
<1>1. ASSUME NEW e \in Nat, e < d PROVE ~ DiffersAt(S, e) /\ ~ DiffersAt(H, e)
  <2>1. ~ Differs(problem, G, e)
    BY <1>1 DEF First
  <2> QED BY <2>1, DiffersMonotone, DiffersIs
<1>2. ~ DiffersAt(S, d)
  BY <1>1, StepSound
<1> QED BY <1>2, DiffersIs

LEMMA DiffersUnion ==
  ASSUME NEW p, NEW S, NEW T, NEW U, U \subseteq S \cup T, NEW d, Differs(p, U, d)
  PROVE  Differs(p, S, d) \/ Differs(p, T, d)
BY DEF Differs

LEMMA NotFirstUnion ==
  ASSUME NEW p, NEW G, NEW S, NEW T, NEW U, U \subseteq S \cup T,
         NEW m \in Nat, NEW n \in Nat, NEW l \in Nat, m <= l, n <= l,
         NotFirst(p, G, S, m), NotFirst(p, G, T, n)
  PROVE  NotFirst(p, G, U, l)
BY DiffersUnion DEF NotFirst

LEMMA NeverUnion ==
  ASSUME NEW p, NEW S, NEW T, NEW U, U \subseteq S \cup T, Never(p, S), Never(p, T)
  PROVE  Never(p, U)
BY DiffersUnion DEF Never

LEMMA CleanUnion ==
  ASSUME NEW p, NEW S, NEW T, NEW U, U \subseteq S \cup T, NEW n,
         Clean(p, S, n), Clean(p, T, n)
  PROVE  Clean(p, U, n)
BY DiffersUnion DEF Clean

\* A base check of the depths a proof does not speak of completes it.
LEMMA BaseCompletes ==
  ASSUME NEW p, NEW G, NEW S, NEW n \in Nat, NotFirst(p, G, S, n), Clean(p, S, n)
  PROVE  NotFirst(p, G, S, 0)
BY DEF NotFirst, Clean

\* A set that differs at some depth has a first one.
LEMMA FirstExists ==
  ASSUME NEW p, NEW S, NEW d \in Nat, Differs(p, S, d)
  PROVE  \E e \in Nat : e <= d /\ First(p, S, e)
<1> DEFINE D == {e \in Nat : Differs(p, S, e)}
<1>1. PICK e \in D : \A f \in D : e <= f
  <2>1. D \subseteq Nat /\ D # {}
    OBVIOUS
  <2> HIDE DEF D
  <2> QED BY <2>1, LeastElement
<1> QED BY <1>1 DEF First

\* Nothing differs first, so nothing differs.
LEMMA NeverByFirst ==
  ASSUME NEW p, NEW S, NotFirst(p, S, S, 0)
  PROVE  Never(p, S)
<1> SUFFICES ASSUME NEW d \in Nat, Differs(p, S, d) PROVE FALSE
  BY DEF Never
<1>1. PICK e \in Nat : First(p, S, e)
  BY FirstExists
<1> QED BY <1>1 DEF NotFirst, First

\* Without state symbols there is one state, and depth 0 decides.
LEMMA StatelessDepth ==
  ASSUME NEW p, Machine(p), Symbols = {}, NEW S, NEW d \in Nat, Differs(p, S, d)
  PROVE  Differs(p, S, 0)
<1>1. PICK x \in AfterSteps(p)[d] \X Inputs : \E o \in S : x \in p.differ[o]
  BY DEF Differs
<1>2. x[1] \in AfterSteps(p)[d] /\ x[2] \in Inputs /\ x = <<x[1], x[2]>>
  BY <1>1
<1>3. PICK q : PathFromInit(p, d, q, <<x[1], x[2]>>)
  BY <1>2, PathTo
<1>4. q[0][1] \in AfterSteps(p)[0]
  BY <1>3 DEF PathFromInit
<1>5. AfterSteps(p)[0] \subseteq State /\ AfterSteps(p)[d] \subseteq State
  BY AfterStepsUnfolds
<1>6. \A s, t \in State : s = t
  BY DEF State
<1>7. x[1] = q[0][1]
  BY <1>2, <1>4, <1>5, <1>6
<1>8. x \in AfterSteps(p)[0] \X Inputs
  BY <1>2, <1>4, <1>7
<1> QED BY <1>1, <1>8 DEF Differs

LEMMA StatelessNever ==
  ASSUME NEW p, Machine(p), Symbols = {}, NEW S, ~ Differs(p, S, 0)
  PROVE  Never(p, S)
BY StatelessDepth DEF Never

LEMMA StatelessNotFirst ==
  ASSUME NEW p, Machine(p), Symbols = {}, NEW G, NEW S, S \subseteq G
  PROVE  NotFirst(p, G, S, 1)
<1> SUFFICES ASSUME NEW d \in Nat, First(p, G, d), 1 <= d, Differs(p, S, d)
             PROVE  FALSE
  BY DEF NotFirst
<1>1. Differs(p, G, 0)
  BY StatelessDepth, DiffersMonotone
<1> QED BY <1>1 DEF First

-----------------------------------------------------------------------------
(* The bounded queries *)

LEMMA MinIs ==
  ASSUME NEW S \in SUBSET Nat, S # {}
  PROVE  Min(S) \in S
<1>1. \E x \in S : \A y \in S : x <= y
  BY LeastElement
<1> QED BY <1>1 DEF Min

LEMMA MaxIs ==
  ASSUME NEW m \in Nat, NEW n \in Nat
  PROVE  Max({m, n}) \in {m, n} /\ m <= Max({m, n}) /\ n <= Max({m, n})
<1>1. \E x \in {m, n} : \A y \in {m, n} : x >= y
  BY SMT
<1>2. Max({m, n}) \in {m, n} /\ \A y \in {m, n} : Max({m, n}) >= y
  BY <1>1 DEF Max
<1> QED BY <1>2

LEMMA FirstBadFrameDiffers ==
  ASSUME NEW S, NEW k \in Nat, BaseCounterexample(S, k)
  PROVE  FirstBadFrame(S, k) \in 0..k /\ Differs(problem, S, FirstBadFrame(S, k))
<1> DEFINE D == {d \in 0..k : DiffersAt(S, d)}
<1>1. D \subseteq Nat /\ D # {}
  BY DEF BaseCounterexample
<1>2. FirstBadFrame(S, k) = Min(D)
  BY DEF FirstBadFrame
<1> HIDE DEF D
<1>3. Min(D) \in D
  BY <1>1, MinIs
<1> QED BY <1>2, <1>3, DiffersIs DEF D

LEMMA BaseClean ==
  ASSUME NEW S, NEW k \in Nat, ~ BaseCounterexample(S, k)
  PROVE  Clean(problem, S, k + 1)
BY DiffersIs DEF BaseCounterexample, Clean

-----------------------------------------------------------------------------
(* The inductive invariant *)

\* The outputs of the slices that are still to prove.
Open(q) == UNION {q[i] : i \in DOMAIN q}

Disjoint(q) == \A i, j \in DOMAIN q : i # j => q[i] \cap q[j] = {}

Large == problem.surface = "large"
InRun == stage \in {"range", "step", "failed"}

\* The outputs a hypothesis of the current run may speak of.
Scope == IF Large THEN run.slice ELSE Outputs

\* What the control state says about the other variables.
ControlOK ==
  /\ stage \in {"step", "failed"} => ranges # <<>>
  /\ stage \in {"precheck", "sweep"} =>
       problem.dualRail /\ fallback = {} /\ covered = {} /\ skipped = {}
  /\ ~ problem.dualRail => stored = {} /\ (stage = "slice" => slices = <<Outputs>>)
  /\ stage # "done" => result = Undecided
  /\ InRun => OutputsIn(ranges) \subseteq run.slice

\* Dual rail: what the decided ranges of a run establish.  On a large surface
\* every hypothesis stays within the slice.
DualRunOK ==
  problem.dualRail /\ InRun =>
    /\ run.proved =>
         NotFirst(problem, Scope, run.slice \ OutputsIn(ranges), BaseHorizon + 1)
    /\ Large => /\ fallback = {}
                /\ \A i \in DOMAIN ranges : ranges[i].preferred \subseteq run.slice
                /\ stage = "step" => attempt.hypothesis \subseteq run.slice

\* Binary: outputs of decided ranges do not differ within max_k frames, and
\* never when all those ranges were proved; the frames below k of the current
\* range are checked.
BinaryRunOK ==
  ~ problem.dualRail /\ InRun =>
    /\ run.slice = Outputs /\ fallback = {}
    /\ Clean(problem, run.slice \ OutputsIn(ranges), MaxK + 1)
    /\ run.proved => Never(problem, run.slice \ OutputsIn(ranges))
    /\ stage = "step" => /\ attempt.hypothesis = Head(ranges).outputs
                         /\ Clean(problem, Head(ranges).outputs, attempt.k)
    /\ stage = "failed" => Cardinality(Head(ranges).outputs) > 1

\* Covered outputs are not the first to differ, and on a large surface they
\* do not differ at all.
CoveredOK ==
  problem.dualRail => /\ NotFirst(problem, Outputs, covered, 0)
                      /\ Large => Never(problem, covered)

\* Past the sweep no output differs within max_k frames.
SweptOK ==
  /\ problem.dualRail /\ ~ Large /\ stage \notin {"precheck", "sweep"}
  /\ result.status # "Different"
  => Clean(problem, Outputs, MaxK + 1)

ResultOK ==
  /\ result.status = "Equivalent" => Never(problem, Outputs)
  /\ result.status = "Different" => Differs(problem, Outputs, result.bound)
  /\ ~ problem.dualRail /\ stage = "done" /\ result.status # "Different" =>
       Clean(problem, Outputs, MaxK + 1)

\* EveryOutputAccountedFor, and no output is in two slices.
AccountOK ==
  problem.dualRail /\ stage \notin {"precheck", "sweep"} /\ result.status # "Different" =>
    /\ Disjoint(slices)
    /\ covered \cap skipped = {}
    /\ (covered \cup skipped) \cap Open(slices) = {}
    /\ InRun => /\ (covered \cup skipped \cup Open(slices)) \cap run.slice = {}
                /\ covered \cup skipped \cup Open(slices) \cup run.slice = Outputs
    /\ ~ InRun => covered \cup skipped \cup Open(slices) = Outputs

ProofInv ==
  TypeOK /\ ControlOK /\ DualRunOK /\ BinaryRunOK /\ CoveredOK /\ SweptOK /\ ResultOK
    /\ AccountOK

-----------------------------------------------------------------------------
(* Slices, halves and sequences *)

LEMMA OutputsFinite ==
  ASSUME NEW S \in SUBSET Outputs
  PROVE  IsFiniteSet(S) /\ Cardinality(S) \in Nat
<1>1. NumOutputs \in Nat
  BY KInductionConstants
<1>2. IsFiniteSet(1..NumOutputs)
  BY <1>1, FS_Interval
<1> QED BY <1>2, FS_Subset, FS_CardinalityType DEF Outputs

LEMMA SingletonOutput ==
  ASSUME NEW S \in SUBSET Outputs, Cardinality(S) = 1
  PROVE  S \in {{o} : o \in Outputs}
<1>1. PICK o : S = {o}
  BY OutputsFinite, FS_Singleton
<1> QED BY <1>1

\* A nonempty set of outputs has a largest one.
LEMMA LargestOutput ==
  ASSUME NEW S \in SUBSET Outputs, S # {}
  PROVE  \E m \in S : \A o \in S : o <= m
<1>1. NumOutputs \in Nat /\ S \subseteq 1..NumOutputs
  BY KInductionConstants DEF Outputs
<1> DEFINE D == {n \in Nat : NumOutputs - n \in S}
<1>2. D # {}
  <2>1. PICK o \in S : TRUE
    OBVIOUS
  <2>2. o \in Int /\ NumOutputs - o \in Nat /\ NumOutputs - (NumOutputs - o) = o
    BY <1>1, <2>1
  <2> QED BY <2>1, <2>2
<1>d. D \in SUBSET Nat
  OBVIOUS
<1>3. PICK n \in D : \A l \in D : n <= l
  <2> HIDE DEF D
  <2> QED BY <1>2, <1>d, LeastElement
<1>4. ASSUME NEW o \in S PROVE o <= NumOutputs - n
  <2>1. o \in Int /\ NumOutputs - o \in Nat /\ NumOutputs - (NumOutputs - o) = o
    BY <1>1
  <2>2. NumOutputs - o \in D
    BY <2>1
  <2>3. n <= NumOutputs - o /\ n \in Nat
    BY <1>3, <1>d, <2>2
  <2> HIDE DEF D
  <2> QED BY <1>1, <2>1, <2>3
<1>5. NumOutputs - n \in S
  BY <1>3
<1> QED BY <1>4, <1>5

\* Halving parts a set of several outputs into two nonempty sets.
LEMMA Halves ==
  ASSUME NEW S \in SUBSET Outputs, Cardinality(S) > 1
  PROVE  /\ LowerHalf(S) # {} /\ UpperHalf(S) # {}
         /\ LowerHalf(S) \cup UpperHalf(S) = S
         /\ LowerHalf(S) \cap UpperHalf(S) = {}
<1>1. IsFiniteSet(S) /\ Cardinality(S) \in Nat /\ S \subseteq Nat
  BY OutputsFinite, KInductionConstants DEF Outputs
<1>2. S # {}
  BY <1>1, FS_EmptySet
<1>3. PICK o \in S : \A p \in S : o <= p
  BY <1>1, <1>2, LeastElement
<1>4. {p \in S : p <= o} = {o}
  <2>1. ASSUME NEW p \in S, p <= o PROVE p = o
    <3>1. p \in Nat /\ o \in Nat /\ o <= p
      BY <1>1, <1>3
    <3> QED BY <2>1, <3>1
  <2>2. o <= o
    BY <1>1, <1>3
  <2> QED BY <2>1, <2>2
<1>5. o \in LowerHalf(S)
  <2>1. Cardinality({o}) = 1
    BY FS_Singleton
  <2>2. Cardinality({p \in S : p <= o}) = 1
    BY <1>4, <2>1
  <2>3. 2 * Cardinality({p \in S : p <= o}) <= Cardinality(S)
    BY <1>1, <2>2
  <2> QED BY <2>3 DEF LowerHalf
<1>6. PICK m \in S : \A p \in S : p <= m
  BY <1>2, LargestOutput
<1>7. {p \in S : p <= m} = S
  BY <1>6
<1>8. m \in UpperHalf(S)
  <2>1. ~ (2 * Cardinality({p \in S : p <= m}) <= Cardinality(S))
    BY <1>1, <1>7
  <2> QED BY <2>1 DEF LowerHalf, UpperHalf
<1> QED BY <1>5, <1>8 DEF LowerHalf, UpperHalf

LEMMA OpenHead ==
  ASSUME NEW S, NEW q \in Seq(S), q # <<>>
  PROVE  /\ Open(q) = Head(q) \cup Open(Tail(q))
         /\ Disjoint(q) => Disjoint(Tail(q)) /\ Head(q) \cap Open(Tail(q)) = {}
<1>1. Open(q) = Head(q) \cup Open(Tail(q))
  <2>1. /\ 1 \in DOMAIN q /\ Head(q) = q[1]
        /\ \A i \in DOMAIN Tail(q) : i + 1 \in DOMAIN q /\ Tail(q)[i] = q[i + 1]
        /\ \A i \in DOMAIN q : i = 1 \/ (i - 1 \in DOMAIN Tail(q) /\ Tail(q)[i - 1] = q[i])
    BY HeadTail
  <2>2. ASSUME NEW o \in Open(q) PROVE o \in Head(q) \cup Open(Tail(q))
    <3>1. PICK i \in DOMAIN q : o \in q[i]
      BY <2>2 DEF Open
    <3>2. CASE i = 1
      BY <2>1, <3>1, <3>2
    <3>3. CASE i # 1
      <4>1. i - 1 \in DOMAIN Tail(q) /\ o \in Tail(q)[i - 1]
        BY <2>1, <3>1, <3>3
      <4> QED BY <4>1 DEF Open
    <3> QED BY <3>2, <3>3
  <2>3. ASSUME NEW o \in Open(Tail(q)) PROVE o \in Open(q)
    <3>1. PICK i \in DOMAIN Tail(q) : o \in Tail(q)[i]
      BY <2>3 DEF Open
    <3>2. i + 1 \in DOMAIN q /\ o \in q[i + 1]
      BY <2>1, <3>1
    <3> QED BY <3>2 DEF Open
  <2>4. Head(q) \subseteq Open(q)
    BY <2>1 DEF Open
  <2> QED BY <2>2, <2>3, <2>4
<1>2. ASSUME Disjoint(q) PROVE Disjoint(Tail(q))
  <2> SUFFICES ASSUME NEW i \in DOMAIN Tail(q), NEW j \in DOMAIN Tail(q), i # j
               PROVE  Tail(q)[i] \cap Tail(q)[j] = {}
    BY DEF Disjoint
  <2>1. /\ i \in Int /\ i + 1 \in DOMAIN q /\ Tail(q)[i] = q[i + 1]
        /\ j \in Int /\ j + 1 \in DOMAIN q /\ Tail(q)[j] = q[j + 1]
    BY HeadTail
  <2>2. i + 1 # j + 1
    BY <2>1
  <2> QED BY <1>2, <2>1, <2>2 DEF Disjoint
<1>3. ASSUME Disjoint(q), NEW i \in DOMAIN Tail(q)
      PROVE  Head(q) \cap Tail(q)[i] = {}
  <2>1. /\ i \in Int /\ i >= 1 /\ i + 1 \in DOMAIN q /\ Tail(q)[i] = q[i + 1]
        /\ 1 \in DOMAIN q /\ Head(q) = q[1]
    BY HeadTail
  <2>2. i + 1 # 1
    BY <2>1
  <2> QED BY <1>3, <2>1, <2>2 DEF Disjoint
<1> QED BY <1>1, <1>2, <1>3 DEF Open

LEMMA OpenTwo ==
  ASSUME NEW S, NEW a \in S, NEW b \in S, NEW t \in Seq(S)
  PROVE  /\ Open(<<a, b>> \o t) = a \cup b \cup Open(t)
         /\ Disjoint(t) /\ a \cap b = {} /\ (a \cup b) \cap Open(t) = {}
              => Disjoint(<<a, b>> \o t)
<1> DEFINE q == <<a, b>> \o t
<1>1. /\ 1 \in DOMAIN q /\ q[1] = a /\ 2 \in DOMAIN q /\ q[2] = b
      /\ \A i \in DOMAIN t : i + 2 \in DOMAIN q /\ q[i + 2] = t[i]
      /\ \A i \in DOMAIN q : i = 1 \/ i = 2 \/ (i - 2 \in DOMAIN t /\ q[i] = t[i - 2])
  BY TwoBefore
<1>a. \A i \in DOMAIN t : i \in Int
  BY TwoBefore
<1>b. DOMAIN q \subseteq Int
  <2>1. q \in Seq(S)
    BY TwoBefore
  <2> HIDE DEF q
  <2> QED BY <2>1, LenProperties
<1> HIDE DEF q
<1>2. Open(q) = a \cup b \cup Open(t)
  BY <1>1 DEF Open
<1>3. ASSUME Disjoint(t), a \cap b = {}, (a \cup b) \cap Open(t) = {},
             NEW i \in DOMAIN q, NEW j \in DOMAIN q, i # j
      PROVE  q[i] \cap q[j] = {}
  <2>1. ASSUME NEW g \in DOMAIN t PROVE a \cap t[g] = {} /\ b \cap t[g] = {}
    BY <1>3 DEF Open
  <2>2. CASE i \in {1, 2} \/ j \in {1, 2}
    BY <1>1, <1>3, <2>1, <2>2
  <2>3. CASE i \notin {1, 2} /\ j \notin {1, 2}
    <3>1. /\ i - 2 \in DOMAIN t /\ q[i] = t[i - 2]
          /\ j - 2 \in DOMAIN t /\ q[j] = t[j - 2]
      BY <1>1, <2>3
    <3>2. i - 2 # j - 2
      BY <1>3, <1>b
    <3> QED BY <1>3, <3>1, <3>2 DEF Disjoint
  <2> QED BY <2>2, <2>3
<1> QED BY <1>2, <1>3 DEF q, Disjoint

\* The batches of the outputs are disjoint and together all outputs.
LEMMA BatchesPart ==
  ASSUME NEW b \in OutputBatches
  PROVE  /\ b \in Seq((SUBSET Outputs) \ {{}}) /\ Open(b) = Outputs /\ Disjoint(b)
<1>1. PICK n \in 1..NumOutputs : b \in [1..n -> (SUBSET Outputs) \ {{}}]
  BY DEF OutputBatches
<1>2. /\ UNION Range(b) = Outputs
      /\ \A i, j \in DOMAIN b : i < j => \A o \in b[i], p \in b[j] : o < p
  BY DEF OutputBatches
<1>3. n \in Nat /\ NumOutputs \in Nat
  BY KInductionConstants
<1>4. b \in Seq((SUBSET Outputs) \ {{}})
  BY <1>1, <1>3
<1>5. Open(b) = Outputs
  BY <1>2 DEF Open, Range
<1>6. ASSUME NEW i \in DOMAIN b, NEW j \in DOMAIN b, i # j
      PROVE  b[i] \cap b[j] = {}
  <2>1. i \in Int /\ j \in Int
    BY <1>1, <1>3
  <2>2. b[i] \subseteq Int /\ b[j] \subseteq Int
    BY <1>1, <1>3 DEF Outputs
  <2>3. i < j \/ j < i
    BY <1>6, <2>1
  <2>4. ASSUME NEW o \in b[i] \cap b[j] PROVE FALSE
    <3>1. o \in Int /\ o < o
      BY <1>2, <2>2, <2>3
    <3> QED BY <3>1
  <2> QED BY <2>4
<1> QED BY <1>4, <1>5, <1>6 DEF Disjoint

-----------------------------------------------------------------------------
(* Steps that end a run, a range or an attempt *)

LEMMA ConstantTypes ==
  /\ MaxK \in Nat /\ 0 \in 0..MaxK /\ UnknownStops \in Nat /\ UnknownStops >= 1
  /\ Outputs # {}
BY KInductionConstants DEF Outputs

\* Whatever is reported, the invariant asks of it only that the report is true.
LEMMA ReportKeeps ==
  ASSUME ProofInv, stage # "done", NEW status, NEW bound, Report(status, bound),
         UNCHANGED <<problem, slices, stored, skipped, memo, run, ranges, fallback>>,
         covered' = covered \/ (~ problem.dualRail /\ covered' = Outputs),
         attempt' = attempt \/
           attempt' \in [hypothesis : SUBSET Outputs, k : 1..MaxK + 1,
                         unknowns : 0..UnknownStops - 1, second : BOOLEAN],
         status \in {"Equivalent", "PartiallyProved", "Inconclusive", "Different"},
         bound \in 0..MaxK,
         status = "Equivalent" => Never(problem, Outputs),
         status = "Different" => Differs(problem, Outputs, bound),
         status # "Different" => IF problem.dualRail THEN stage = "slice"
                                 ELSE Clean(problem, Outputs, MaxK + 1)
  PROVE  ProofInv'
<1>1. /\ stage' = "done" /\ result' = [status |-> status, bound |-> bound]
      /\ result'.status = status /\ result'.bound = bound
  BY DEF Report
<1>2. TypeOK'
  BY <1>1 DEF ProofInv, TypeOK
<1>3. ControlOK'
  BY <1>1 DEF ProofInv, ControlOK, InRun
<1>4. DualRunOK' /\ BinaryRunOK'
  BY <1>1 DEF DualRunOK, BinaryRunOK, InRun
<1>5. CoveredOK'
  BY DEF ProofInv, CoveredOK, Large
<1>6. SweptOK'
  BY <1>1 DEF ProofInv, SweptOK, ControlOK, Undecided, Large
<1>7. ResultOK'
  BY <1>1 DEF ResultOK
<1>8. AccountOK'
  BY <1>1 DEF ProofInv, AccountOK, InRun, ControlOK, Undecided
<1> QED BY <1>2, <1>3, <1>4, <1>5, <1>6, <1>7, <1>8 DEF ProofInv

\* The same range is attempted, or attempted again.
LEMMA AttemptKeeps ==
  ASSUME ProofInv, InRun, ranges # <<>>,
         UNCHANGED <<strategyVars, run, ranges, fallback, result>>,
         memo' \subseteq {{o} : o \in Outputs} \X SUBSET Outputs,
         attempt' \in [hypothesis : SUBSET Outputs, k : 1..MaxK + 1,
                       unknowns : 0..UnknownStops - 1, second : BOOLEAN],
         stage' \in {"step", "failed"},
         problem.dualRail /\ Large /\ stage' = "step" =>
           attempt'.hypothesis \subseteq run.slice,
         ~ problem.dualRail /\ stage' = "step" =>
           /\ attempt'.hypothesis = Range1.outputs
           /\ Clean(problem, Range1.outputs, attempt'.k),
         ~ problem.dualRail /\ stage' = "failed" => Cardinality(Range1.outputs) > 1
  PROVE  ProofInv'
<1>1. InRun' /\ stage \notin {"precheck", "sweep", "done"}
  BY DEF InRun
<1>u. /\ problem' = problem /\ slices' = slices /\ stored' = stored
      /\ covered' = covered /\ skipped' = skipped
  BY DEF strategyVars
<1>2. TypeOK'
  BY <1>u DEF ProofInv, TypeOK
<1>3. ControlOK'
  BY <1>1, <1>u DEF ProofInv, ControlOK, InRun
<1>4. DualRunOK'
  BY <1>1, <1>u DEF ProofInv, DualRunOK, BaseHorizon, Scope, Large
<1>5. BinaryRunOK'
  BY <1>1, <1>u DEF ProofInv, BinaryRunOK, Range1
<1>6. CoveredOK' /\ SweptOK' /\ ResultOK'
  BY <1>1, <1>u DEF ProofInv, CoveredOK, SweptOK, ResultOK, Large
<1>7. AccountOK'
  BY <1>1, <1>u DEF ProofInv, AccountOK
<1> QED BY <1>2, <1>3, <1>4, <1>5, <1>6, <1>7 DEF ProofInv

LEMMA RangesTyped ==
  ASSUME TypeOK, ranges # <<>>
  PROVE  /\ Range1 \in [outputs : (SUBSET Outputs) \ {{}}, preferred : SUBSET Outputs]
         /\ Range1.outputs \in SUBSET Outputs /\ Range1.outputs # {}
         /\ Range1.preferred \in SUBSET Outputs
         /\ Tail(ranges) \in Seq([outputs : (SUBSET Outputs) \ {{}}, preferred : SUBSET Outputs])
         /\ OutputsIn(ranges) = Range1.outputs \cup OutputsIn(Tail(ranges))
<1> DEFINE R == [outputs : (SUBSET Outputs) \ {{}}, preferred : SUBSET Outputs]
<1>1. ranges \in Seq(R)
  BY DEF TypeOK
<1> HIDE DEF R
<1>2. /\ Head(ranges) \in R /\ Tail(ranges) \in Seq(R)
      /\ OutputsIn(ranges) = Head(ranges).outputs \cup OutputsIn(Tail(ranges))
  BY <1>1, HeadTail, PendingHead
<1> QED BY <1>2 DEF R, Range1

\* A range is decided: what it contributes to the run holds for its outputs.
LEMMA EndRangeKeeps ==
  ASSUME ProofInv, InRun, ranges # <<>>, NEW proved \in BOOLEAN, NEW bound \in 0..MaxK,
         EndRange(proved, bound), UNCHANGED <<strategyVars, fallback>>,
         memo' \subseteq {{o} : o \in Outputs} \X SUBSET Outputs,
         attempt' \in [hypothesis : SUBSET Outputs, k : 1..MaxK + 1,
                       unknowns : 0..UnknownStops - 1, second : BOOLEAN],
         NEW n \in Nat, n = bound \/ (n = 1 /\ bound = 0),
         problem.dualRail /\ proved => NotFirst(problem, Scope, Range1.outputs, n),
         ~ problem.dualRail => /\ Clean(problem, Range1.outputs, MaxK + 1)
                               /\ proved => Never(problem, Range1.outputs)
  PROVE  ProofInv'
<1> DEFINE R == [outputs : (SUBSET Outputs) \ {{}}, preferred : SUBSET Outputs]
           left == run.slice \ OutputsIn(ranges)
           left2 == run.slice \ OutputsIn(Tail(ranges))
<1>u. /\ problem' = problem /\ slices' = slices /\ stored' = stored /\ fallback' = fallback
      /\ covered' = covered /\ skipped' = skipped /\ result' = result
      /\ ranges' = Tail(ranges) /\ stage' = "range"
      /\ run' = [run EXCEPT !.proved = @ /\ proved, !.bound = Max({@, bound})]
  BY DEF strategyVars, EndRange
<1>t. /\ MaxK \in Nat /\ bound \in Nat
      /\ run \in [slice : SUBSET Outputs, proved : BOOLEAN, bound : 0..MaxK]
      /\ run.bound \in Nat /\ ranges \in Seq(R)
  BY ConstantTypes DEF ProofInv, TypeOK
<1>1. InRun' /\ stage \notin {"precheck", "sweep", "done"} /\ stage' = "range"
  BY <1>u DEF InRun
<1>2. /\ Tail(ranges) \in Seq(R) /\ OutputsIn(ranges) = Range1.outputs \cup OutputsIn(Tail(ranges))
  BY RangesTyped DEF ProofInv
<1>3. left2 \subseteq left \cup Range1.outputs
  BY <1>2
<1>4. /\ run'.slice = run.slice
      /\ run'.proved = (run.proved /\ proved)
      /\ run'.bound = Max({run.bound, bound})
  BY <1>u, <1>t
<1>5. /\ run'.bound \in 0..MaxK /\ run'.bound \in Nat
      /\ run.bound <= run'.bound /\ bound <= run'.bound
  BY <1>4, <1>t, MaxIs
<1>6. TypeOK'
  <2>1. run' \in [slice : SUBSET Outputs, proved : BOOLEAN, bound : 0..MaxK]
    <3>1. (run.proved /\ proved) \in BOOLEAN
      OBVIOUS
    <3> QED BY <1>u, <1>t, <1>4, <1>5
  <2>2. ranges' \in Seq(R)
    BY <1>u, <1>2
  <2> QED BY <1>u, <2>1, <2>2 DEF ProofInv, TypeOK
<1>7. ControlOK'
  BY <1>1, <1>2, <1>u, <1>4 DEF ProofInv, ControlOK
<1>8. ASSUME problem.dualRail, run'.proved
      PROVE  NotFirst(problem, Scope, left2, BaseHorizon' + 1)
  <2> DEFINE l == BaseHorizon + 1
  <2>1. NotFirst(problem, Scope, left, l) /\ NotFirst(problem, Scope, Range1.outputs, n)
    BY <1>4, <1>8 DEF ProofInv, DualRunOK, InRun
  <2>2. /\ l \in Nat /\ l = (IF run.bound = 0 THEN 1 ELSE run.bound)
        /\ BaseHorizon' + 1 \in Nat
        /\ BaseHorizon' + 1 = (IF run'.bound = 0 THEN 1 ELSE run'.bound)
    BY <1>t, <1>5 DEF BaseHorizon
  <2>3. l <= BaseHorizon' + 1 /\ n <= BaseHorizon' + 1
    BY <1>t, <1>5, <2>2
  <2> HIDE DEF l, left, left2
  <2> QED BY <1>3, <2>1, <2>2, <2>3, NotFirstUnion
<1>9. DualRunOK'
  <2>1. ASSUME problem.dualRail, Large
        PROVE  /\ fallback' = {}
               /\ \A i \in DOMAIN ranges' : ranges'[i].preferred \subseteq run'.slice
    <3>1. fallback = {} /\ \A i \in DOMAIN ranges : ranges[i].preferred \subseteq run.slice
      BY <2>1 DEF ProofInv, DualRunOK, InRun
    <3>2. \A i \in DOMAIN Tail(ranges) :
            i + 1 \in DOMAIN ranges /\ Tail(ranges)[i] = ranges[i + 1]
      BY <1>t, HeadTail
    <3> QED BY <1>u, <1>4, <3>1, <3>2
  <2>2. Scope' = Scope /\ run'.slice \ OutputsIn(ranges') = left2 /\ Large' = Large
    BY <1>u, <1>4 DEF Scope, Large
  <2> HIDE DEF left2
  <2>3. ASSUME problem.dualRail, run'.proved
        PROVE  NotFirst(problem', Scope', run'.slice \ OutputsIn(ranges'), BaseHorizon' + 1)
    BY <1>8, <1>u, <2>2, <2>3
  <2> QED BY <1>1, <1>u, <2>1, <2>2, <2>3 DEF DualRunOK
<1>10. BinaryRunOK'
  <2> SUFFICES ASSUME ~ problem.dualRail
               PROVE  /\ run'.slice = Outputs /\ fallback' = {}
                      /\ Clean(problem, left2, MaxK + 1)
                      /\ run'.proved => Never(problem, left2)
    BY <1>1, <1>u, <1>4 DEF BinaryRunOK
  <2>1. /\ run.slice = Outputs /\ fallback = {}
        /\ Clean(problem, left, MaxK + 1)
        /\ run.proved => Never(problem, left)
    BY DEF ProofInv, BinaryRunOK
  <2> HIDE DEF left, left2
  <2>2. Clean(problem, left2, MaxK + 1)
    BY <1>3, <2>1, CleanUnion
  <2>3. ASSUME run'.proved PROVE Never(problem, left2)
    <3>1. run.proved /\ proved
      BY <1>4, <2>3, Zenon
    <3>2. Never(problem, left) /\ Never(problem, Range1.outputs)
      BY <2>1, <3>1
    <3> QED BY <1>3, <3>2, NeverUnion
  <2> QED BY <1>u, <1>4, <2>1, <2>2, <2>3
<1>11. CoveredOK' /\ SweptOK' /\ ResultOK'
  BY <1>1, <1>u DEF ProofInv, CoveredOK, SweptOK, ResultOK, Large
<1>12. AccountOK'
  BY <1>1, <1>u, <1>4 DEF ProofInv, AccountOK
<1> QED BY <1>6, <1>7, <1>9, <1>10, <1>11, <1>12 DEF ProofInv

-----------------------------------------------------------------------------
(* The strategy's steps *)

\* Every output of S is an output.
LEMMA DiffersAmongAll ==
  ASSUME NEW S, S \subseteq Outputs, NEW d, Differs(problem, S, d)
  PROVE  Differs(problem, Outputs, d)
BY DiffersMonotone

LEMMA InitKeeps ==
  ASSUME Init
  PROVE  ProofInv
<1>1. problem \in Problem /\ problem.dualRail \in BOOLEAN
  BY KInductionConstants, ProblemFields DEF Init
<1>2. TypeOK
  <2>1. slices \in Seq((SUBSET Outputs) \ {{}})
    <3>1. Outputs \in (SUBSET Outputs) \ {{}}
      BY ConstantTypes
    <3>2. <<Outputs>> \in Seq((SUBSET Outputs) \ {{}})
      BY <3>1
    <3> QED BY <3>2, EmptySeq DEF Init
  <2>2. run \in [slice : SUBSET Outputs, proved : BOOLEAN, bound : 0..MaxK]
    BY ConstantTypes DEF Init
  <2>3. attempt \in [hypothesis : SUBSET Outputs, k : 1..MaxK + 1,
                      unknowns : 0..UnknownStops - 1, second : BOOLEAN]
    BY ConstantTypes DEF Init
  <2>4. result \in [status : {"none", "Equivalent", "PartiallyProved",
                              "Inconclusive", "Different"}, bound : 0..MaxK]
    BY ConstantTypes DEF Init, Undecided
  <2>5. ranges \in Seq([outputs : (SUBSET Outputs) \ {{}}, preferred : SUBSET Outputs])
    BY DEF Init
  <2> QED BY <1>1, <2>1, <2>2, <2>3, <2>4, <2>5 DEF TypeOK, Init
<1>3. ControlOK
  BY <1>1 DEF Init, ControlOK, InRun
<1>4. ~ InRun /\ stage # "done" /\ result.status = "none"
  BY DEF Init, InRun, Undecided
<1>5. DualRunOK /\ BinaryRunOK /\ ResultOK
  BY <1>4 DEF DualRunOK, BinaryRunOK, ResultOK
<1>6. CoveredOK
  BY DEF Init, CoveredOK, NotFirst, Never, Differs
<1>7. SweptOK /\ AccountOK
  BY DEF Init, SweptOK, AccountOK
<1> QED BY <1>2, <1>3, <1>5, <1>6, <1>7 DEF ProofInv

LEMMA PrecheckKeeps ==
  ASSUME ProofInv, Precheck
  PROVE  ProofInv'
<1>1. CASE PrecheckFails # {}
  <2> DEFINE o == Min(PrecheckFails)
             depth == PrecheckDepth(o)
  <2>1. Report("Different", FirstBadFrame({o}, depth))
    BY <1>1 DEF Precheck
  <2>2. o \in Outputs /\ BaseCounterexample({o}, depth)
    <3>1. PrecheckFails \in SUBSET Nat
      BY KInductionConstants DEF PrecheckFails, Outputs
    <3>2. o \in PrecheckFails
      BY <1>1, <3>1, MinIs
    <3> QED BY <3>2 DEF PrecheckFails
  <2>3. depth \in Nat /\ depth <= MaxK
    BY KInductionConstants DEF PrecheckDepth
  <2> HIDE DEF o, depth
  <2>4. FirstBadFrame({o}, depth) \in 0..depth /\ Differs(problem, {o}, FirstBadFrame({o}, depth))
    BY <2>2, <2>3, FirstBadFrameDiffers
  <2> DEFINE bound == FirstBadFrame({o}, depth)
  <2>5. bound \in 0..MaxK /\ Differs(problem, Outputs, bound)
    BY <2>2, <2>3, <2>4, ConstantTypes, DiffersAmongAll
  <2>6. stage # "done" /\ UNCHANGED <<problem, slices, stored, covered, skipped, memo, run,
                                      ranges, fallback, attempt>>
    BY DEF Precheck, strategyVars
  <2> HIDE DEF bound
  <2>7. Report("Different", bound)
    BY <2>1 DEF bound
  <2> QED BY <2>5, <2>6, <2>7, ReportKeeps
<1>2. CASE PrecheckFails = {}
  <2>1. /\ stage = "precheck" /\ stage' = "sweep"
        /\ problem' = problem /\ slices' = slices /\ stored' = stored /\ covered' = covered
        /\ skipped' = skipped /\ memo' = memo /\ run' = run /\ ranges' = ranges
        /\ fallback' = fallback /\ attempt' = attempt /\ result' = result
    BY <1>2 DEF Precheck, strategyVars
  <2>2. TypeOK' /\ ControlOK'
    BY <2>1 DEF ProofInv, TypeOK, ControlOK, InRun
  <2>3. DualRunOK' /\ BinaryRunOK' /\ SweptOK' /\ AccountOK'
    BY <2>1 DEF DualRunOK, BinaryRunOK, SweptOK, AccountOK, InRun
  <2>4. CoveredOK' /\ ResultOK'
    BY <2>1 DEF ProofInv, CoveredOK, ResultOK, Large
  <2> QED BY <2>2, <2>3, <2>4 DEF ProofInv
<1> QED BY <1>1, <1>2

LEMMA SweepFindsKeeps ==
  ASSUME ProofInv, SweepFinds
  PROVE  ProofInv'
<1> DEFINE bound == FirstBadFrame(Outputs, MaxK)
<1>1. bound \in 0..MaxK /\ Differs(problem, Outputs, bound)
  BY ConstantTypes, FirstBadFrameDiffers DEF SweepFinds
<1>2. stage # "done" /\ UNCHANGED <<problem, slices, stored, covered, skipped, memo, run,
                                    ranges, fallback, attempt>>
  BY DEF SweepFinds, strategyVars
<1>3. Report("Different", bound)
  BY DEF SweepFinds
<1> HIDE DEF bound
<1> QED BY <1>1, <1>2, <1>3, ReportKeeps

LEMMA StartSlicesKeeps ==
  ASSUME ProofInv, StartSlices
  PROVE  ProofInv'
<1>1. /\ stage = "sweep" /\ stage' = "slice" /\ slices' \in OutputBatches
      /\ stored' = (IF NumOutputs > 1 THEN Outputs ELSE {})
      /\ problem' = problem /\ covered' = covered
      /\ skipped' = skipped /\ memo' = memo /\ run' = run /\ ranges' = ranges
      /\ fallback' = fallback /\ attempt' = attempt /\ result' = result
  BY DEF StartSlices
<1>2. /\ problem.dualRail /\ fallback = {} /\ covered = {} /\ skipped = {}
      /\ result = Undecided
  BY <1>1 DEF ProofInv, ControlOK
<1>3. /\ slices' \in Seq((SUBSET Outputs) \ {{}}) /\ Open(slices') = Outputs
      /\ Disjoint(slices')
  BY <1>1, BatchesPart
<1>4. TypeOK'
  BY <1>1, <1>2, <1>3 DEF ProofInv, TypeOK
<1>5. ControlOK'
  BY <1>1, <1>2 DEF ProofInv, ControlOK, InRun
<1>6. DualRunOK' /\ BinaryRunOK'
  BY <1>1 DEF DualRunOK, BinaryRunOK, InRun
<1>7. CoveredOK' /\ ResultOK'
  BY <1>1 DEF ProofInv, CoveredOK, ResultOK, Large
<1>8. SweptOK'
  <2>1. ~ Large => Clean(problem, Outputs, MaxK + 1)
    BY ConstantTypes, BaseClean DEF StartSlices, Large
  <2> QED BY <1>1, <2>1 DEF SweptOK, Large
<1>9. AccountOK'
  BY <1>1, <1>2, <1>3 DEF AccountOK, InRun
<1> QED BY <1>4, <1>5, <1>6, <1>7, <1>8, <1>9 DEF ProofInv

LEMMA BeginRunKeeps ==
  ASSUME ProofInv, BeginRun
  PROVE  ProofInv'
<1> DEFINE S == Head(slices)
           R == [outputs : (SUBSET Outputs) \ {{}}, preferred : SUBSET Outputs]
           own == IF StoredFor(S) = {} THEN OwnFor(S) ELSE {}
<1>1. /\ stage = "slice" /\ stage' = "range" /\ slices # <<>> /\ slices' = Tail(slices)
      /\ run' = [slice |-> S, proved |-> TRUE, bound |-> 0]
      /\ fallback' = StoredFor(S)
      /\ problem' = problem /\ stored' = stored /\ covered' = covered /\ skipped' = skipped
      /\ memo' = memo /\ attempt' = attempt /\ result' = result
  BY DEF BeginRun
<1>2. PICK b \in IF problem.dualRail THEN {<<S>>} ELSE OutputBatches :
        ranges' = [i \in DOMAIN b |-> [outputs |-> b[i], preferred |-> own]]
  BY <1>1 DEF BeginRun
<1>3. /\ S \in (SUBSET Outputs) \ {{}} /\ Tail(slices) \in Seq((SUBSET Outputs) \ {{}})
      /\ Open(slices) = S \cup Open(Tail(slices))
      /\ Disjoint(slices) => Disjoint(Tail(slices)) /\ S \cap Open(Tail(slices)) = {}
  BY <1>1, HeadTail, OpenHead DEF ProofInv, TypeOK
<1>4. ~ problem.dualRail => S = Outputs /\ stored = {}
  BY <1>1 DEF ProofInv, ControlOK
<1> HIDE DEF S
<1>5. /\ b \in Seq((SUBSET Outputs) \ {{}}) /\ Open(b) = S
  <2>1. CASE problem.dualRail
    <3>1. b = <<S>>
      BY <1>2, <2>1
    <3>2. b \in Seq((SUBSET Outputs) \ {{}}) /\ DOMAIN b = {1} /\ b[1] = S
      BY <1>3, <3>1
    <3> QED BY <3>2 DEF Open
  <2>2. CASE ~ problem.dualRail
    <3>1. b \in OutputBatches
      BY <1>2, <2>2
    <3> QED BY <1>4, <2>2, <3>1, BatchesPart
  <2> QED BY <2>1, <2>2
<1>6. own \in SUBSET Outputs /\ own \subseteq S
  BY <1>3 DEF OwnFor
<1> HIDE DEF own
<1>7. ranges' \in Seq(R) /\ DOMAIN ranges' = DOMAIN b
      /\ \A i \in DOMAIN b : ranges'[i].outputs = b[i] /\ ranges'[i].preferred = own
  <2>1. /\ Len(b) \in Nat /\ DOMAIN b = 1..Len(b)
        /\ \A i \in DOMAIN b : b[i] \in (SUBSET Outputs) \ {{}}
    BY <1>5, LenProperties
  <2>2. ranges' \in [1..Len(b) -> R]
    BY <1>2, <1>6, <2>1
  <2>3. ranges' \in Seq(R)
    <3> HIDE DEF R
    <3> QED BY <2>1, <2>2
  <2> QED BY <1>2, <2>3
<1>8. OutputsIn(ranges') = S
  BY <1>5, <1>7 DEF OutputsIn, Open
<1>9. /\ run' \in [slice : SUBSET Outputs, proved : BOOLEAN, bound : 0..MaxK]
      /\ run'.slice = S
  BY <1>1, <1>3, ConstantTypes
<1>10. TypeOK'
  BY <1>1, <1>3, <1>7, <1>9 DEF ProofInv, TypeOK, StoredFor
<1>11. ControlOK'
  BY <1>1, <1>8, <1>9 DEF ProofInv, ControlOK
<1>12. \A G, n : NotFirst(problem, G, {}, n) /\ Never(problem, {}) /\ Clean(problem, {}, n)
  BY DEF NotFirst, Never, Clean, Differs
<1>e. run'.slice \ OutputsIn(ranges') = {}
  BY <1>8, <1>9
<1>13. DualRunOK'
  <2>1. Large => StoredFor(S) = {}
    BY DEF Large, StoredFor
  <2>2. NotFirst(problem', Scope', run'.slice \ OutputsIn(ranges'), BaseHorizon' + 1)
    BY <1>1, <1>12, <1>e
  <2> QED BY <1>1, <1>6, <1>7, <1>9, <2>1, <2>2 DEF DualRunOK, Large
<1>14. BinaryRunOK'
  <2>1. ~ problem.dualRail => StoredFor(S) = {}
    BY <1>4 DEF StoredFor
  <2>2. /\ Clean(problem', run'.slice \ OutputsIn(ranges'), MaxK + 1)
        /\ Never(problem', run'.slice \ OutputsIn(ranges'))
    BY <1>1, <1>12, <1>e
  <2> QED BY <1>1, <1>4, <1>9, <2>1, <2>2 DEF BinaryRunOK
<1>15. CoveredOK' /\ SweptOK' /\ ResultOK'
  BY <1>1 DEF ProofInv, CoveredOK, SweptOK, ResultOK, Large
<1>16. AccountOK'
  <2> SUFFICES ASSUME problem.dualRail, result.status # "Different"
               PROVE  AccountOK'
    BY <1>1 DEF AccountOK
  <2>1. /\ Disjoint(slices) /\ covered \cap skipped = {}
        /\ (covered \cup skipped) \cap Open(slices) = {}
        /\ covered \cup skipped \cup Open(slices) = Outputs
    BY <1>1 DEF ProofInv, AccountOK, InRun
  <2>2. /\ Disjoint(Tail(slices)) /\ (covered \cup skipped) \cap Open(Tail(slices)) = {}
        /\ (covered \cup skipped \cup Open(Tail(slices))) \cap S = {}
        /\ covered \cup skipped \cup Open(Tail(slices)) \cup S = Outputs
    BY <1>3, <2>1
  <2> QED BY <1>1, <1>9, <2>1, <2>2 DEF AccountOK, InRun
<1> QED BY <1>10, <1>11, <1>13, <1>14, <1>15, <1>16 DEF ProofInv

-----------------------------------------------------------------------------
(* The engine's steps *)

LEMMA StartAttemptIs ==
  ASSUME TypeOK, ranges # <<>>, NEW H \in SUBSET Outputs, NEW second \in BOOLEAN,
         StartAttempt(H, second)
  PROVE  /\ attempt' \in [hypothesis : SUBSET Outputs, k : 1..MaxK + 1,
                          unknowns : 0..UnknownStops - 1, second : BOOLEAN]
         /\ attempt'.hypothesis \in {H, Range1.outputs} /\ attempt'.k = 1
         /\ ~ problem.dualRail => attempt'.hypothesis = Range1.outputs
<1> DEFINE h == Applied(H, Range1.outputs)
<1>1. Range1.outputs \in SUBSET Outputs
  BY RangesTyped
<1>2. h \in {H, Range1.outputs} /\ (~ problem.dualRail => h = Range1.outputs)
  BY DEF Applied
<1>3. attempt' = [hypothesis |-> h, k |-> 1, unknowns |-> 0, second |-> second]
  BY DEF StartAttempt
<1> HIDE DEF h
<1>4. 1 \in 1..MaxK + 1 /\ 0 \in 0..UnknownStops - 1
  BY ConstantTypes
<1>5. h \in SUBSET Outputs
  BY <1>1, <1>2
<1> QED BY <1>2, <1>3, <1>4, <1>5

\* In a run the current range lies within the slice; on a large surface so
\* does its hypothesis.
LEMMA RangeInSlice ==
  ASSUME ProofInv, InRun, ranges # <<>>
  PROVE  /\ Range1.outputs \subseteq run.slice
         /\ problem.dualRail /\ Large => Range1.preferred \subseteq run.slice /\ fallback = {}
         /\ run.slice \subseteq Outputs /\ Range1.outputs \subseteq Scope
<1>1. TypeOK /\ OutputsIn(ranges) \subseteq run.slice
  BY DEF ProofInv, ControlOK
<1>2. Range1.outputs \subseteq run.slice
  BY <1>1, RangesTyped
<1>3. 1 \in DOMAIN ranges /\ Range1 = ranges[1]
  <2>1. ranges \in Seq([outputs : (SUBSET Outputs) \ {{}}, preferred : SUBSET Outputs])
    BY <1>1 DEF TypeOK
  <2> QED BY <2>1, HeadTail DEF Range1
<1>4. problem.dualRail /\ Large => Range1.preferred \subseteq run.slice /\ fallback = {}
  BY <1>3 DEF ProofInv, DualRunOK
<1>5. run.slice \subseteq Outputs
  BY <1>1 DEF TypeOK
<1> QED BY <1>2, <1>4, <1>5 DEF Scope

LEMMA ReplayMemoKeeps ==
  ASSUME ProofInv, ReplayMemo
  PROVE  ProofInv'
<1>1. /\ InRun /\ ranges # <<>> /\ TypeOK /\ stage = "range"
      /\ UNCHANGED <<strategyVars, fallback>> /\ memo' = memo
      /\ StartAttempt(Range1.preferred, FALSE)
      /\ problem.dualRail
  BY DEF ReplayMemo, InRun, ProofInv, Memoized
<1>2. /\ Range1.preferred \in SUBSET Outputs /\ Range1.outputs \in SUBSET Outputs
  BY <1>1, RangesTyped
<1>3. memo' \subseteq {{o} : o \in Outputs} \X SUBSET Outputs
  BY <1>1 DEF TypeOK
<1>4. attempt' \in [hypothesis : SUBSET Outputs, k : 1..MaxK + 1,
                    unknowns : 0..UnknownStops - 1, second : BOOLEAN]
  BY <1>1, <1>2, StartAttemptIs
<1>5. CASE Cardinality(run.slice) = 1
  <2>1. stage' = "failed" /\ UNCHANGED <<run, ranges, result>>
    BY <1>5 DEF ReplayMemo
  <2> QED BY <1>1, <1>3, <1>4, <2>1, AttemptKeeps
<1>6. CASE Cardinality(run.slice) # 1
  <2>1. EndRange(FALSE, 0)
    BY <1>6 DEF ReplayMemo
  <2> QED BY <1>1, <1>3, <1>4, <2>1, ConstantTypes, EndRangeKeeps
<1> QED BY <1>5, <1>6

LEMMA BeginAttemptKeeps ==
  ASSUME ProofInv, BeginAttempt
  PROVE  ProofInv'
<1> DEFINE S == Range1.outputs
<1>1. /\ InRun /\ ranges # <<>> /\ TypeOK /\ stage = "range" /\ stage # "done"
      /\ UNCHANGED <<strategyVars, fallback>> /\ memo' = memo
      /\ StartAttempt(Range1.preferred, FALSE)
      /\ problem \in Problem
  BY DEF BeginAttempt, InRun, ProofInv, TypeOK
<1>2. /\ Range1.preferred \in SUBSET Outputs /\ S \in SUBSET Outputs
  BY <1>1, RangesTyped
<1>3. memo' \subseteq {{o} : o \in Outputs} \X SUBSET Outputs
  BY <1>1 DEF TypeOK
<1>4. /\ attempt' \in [hypothesis : SUBSET Outputs, k : 1..MaxK + 1,
                       unknowns : 0..UnknownStops - 1, second : BOOLEAN]
      /\ attempt'.hypothesis \in {Range1.preferred, S} /\ attempt'.k = 1
      /\ ~ problem.dualRail => attempt'.hypothesis = S
  BY <1>1, <1>2, StartAttemptIs
<1>5. S \subseteq run.slice /\ S \subseteq Scope
      /\ (problem.dualRail /\ Large => Range1.preferred \subseteq run.slice)
  BY <1>1, RangeInSlice
<1> HIDE DEF S
<1>6. CASE ~ problem.dualRail /\ DiffersAt(S, 0)
  <2>1. Report("Different", 0) /\ UNCHANGED <<run, ranges>>
    BY <1>6 DEF BeginAttempt, S
  <2>2. Differs(problem, Outputs, 0)
    BY <1>2, <1>6, DiffersIs, DiffersAmongAll
  <2>3. UNCHANGED <<problem, slices, stored, covered, skipped, memo, run, ranges, fallback>>
    BY <1>1, <2>1 DEF strategyVars
  <2> QED BY <1>1, <1>4, <2>1, <2>2, <2>3, ConstantTypes, ReportKeeps
<1>7. CASE ~ (~ problem.dualRail /\ DiffersAt(S, 0)) /\ Symbols = {}
  <2>1. EndRange(TRUE, 0)
    BY <1>7 DEF BeginAttempt, S
  <2>2. Machine(problem)
    BY <1>1, ProblemFields
  <2>3. NotFirst(problem, Scope, S, 1)
    BY <1>5, <1>7, <2>2, StatelessNotFirst
  <2>4. ~ problem.dualRail => Clean(problem, S, MaxK + 1) /\ Never(problem, S)
    <3> SUFFICES ASSUME ~ problem.dualRail
                 PROVE  Clean(problem, S, MaxK + 1) /\ Never(problem, S)
      OBVIOUS
    <3>1. ~ Differs(problem, S, 0)
      BY <1>7, DiffersIs
    <3>2. Never(problem, S)
      BY <1>7, <2>2, <3>1, StatelessNever
    <3> QED BY <3>2 DEF Never, Clean
  <2> QED BY <1>1, <1>3, <1>4, <2>1, <2>3, <2>4, ConstantTypes, EndRangeKeeps DEF S
<1>8. CASE ~ (~ problem.dualRail /\ DiffersAt(S, 0)) /\ Symbols # {}
  <2>1. stage' = "step" /\ UNCHANGED <<run, ranges, result>>
    BY <1>8 DEF BeginAttempt, S
  <2>2. ~ problem.dualRail => Clean(problem, S, attempt'.k)
    BY <1>4, <1>8, DiffersIs DEF Clean
  <2> QED BY <1>1, <1>3, <1>4, <1>5, <2>1, <2>2, AttemptKeeps DEF S
<1> QED BY <1>6, <1>7, <1>8

LEMMA InLoopIs ==
  ASSUME ProofInv, stage = "step"
  PROVE  /\ InRun /\ ranges # <<>> /\ TypeOK /\ stage # "done" /\ problem \in Problem
         /\ attempt \in [hypothesis : SUBSET Outputs, k : 1..MaxK + 1,
                         unknowns : 0..UnknownStops - 1, second : BOOLEAN]
         /\ attempt.hypothesis \in SUBSET Outputs /\ attempt.k \in 1..MaxK + 1
         /\ attempt.hypothesis \subseteq Scope
         /\ ~ problem.dualRail => /\ attempt.hypothesis = Range1.outputs
                                  /\ Clean(problem, Range1.outputs, attempt.k)
         /\ memo \subseteq {{o} : o \in Outputs} \X SUBSET Outputs
<1>1. InRun /\ ranges # <<>> /\ TypeOK /\ stage # "done"
  BY DEF ProofInv, ControlOK, InRun
<1>2. /\ attempt \in [hypothesis : SUBSET Outputs, k : 1..MaxK + 1,
                      unknowns : 0..UnknownStops - 1, second : BOOLEAN]
      /\ attempt.hypothesis \in SUBSET Outputs /\ attempt.k \in 1..MaxK + 1
      /\ problem \in Problem
      /\ memo \subseteq {{o} : o \in Outputs} \X SUBSET Outputs
  BY <1>1 DEF TypeOK
<1>3. ~ problem.dualRail => /\ attempt.hypothesis = Range1.outputs
                            /\ Clean(problem, Range1.outputs, attempt.k)
  BY <1>1 DEF ProofInv, BinaryRunOK, Range1
<1>4. attempt.hypothesis \subseteq Scope
  <2>1. CASE problem.dualRail /\ Large
    BY <1>1, <2>1 DEF ProofInv, DualRunOK, Scope
  <2>2. CASE ~ problem.dualRail
    <3>1. Range1.outputs \subseteq Scope
      BY <1>1, RangeInSlice
    <3> QED BY <1>3, <2>2, <3>1
  <2>3. CASE ~ Large
    BY <1>2, <2>3 DEF Scope
  <2> QED BY <2>1, <2>2, <2>3
<1> QED BY <1>1, <1>2, <1>3, <1>4

LEMMA StepProvedKeeps ==
  ASSUME ProofInv, StepProved
  PROVE  ProofInv'
<1> DEFINE S == Range1.outputs
           k == attempt.k
           bound == FirstBadFrame(S, k)
<1>1. /\ stage = "step" /\ attempt.k <= MaxK
      /\ ~ StepCounterexample(attempt.hypothesis, S, k)
      /\ UNCHANGED <<strategyVars, memo, fallback, attempt>>
  BY DEF StepProved, InLoop, StepOpen
<1>2. /\ InRun /\ ranges # <<>> /\ TypeOK /\ stage # "done" /\ problem \in Problem
      /\ attempt \in [hypothesis : SUBSET Outputs, k : 1..MaxK + 1,
                      unknowns : 0..UnknownStops - 1, second : BOOLEAN]
      /\ k \in 1..MaxK + 1 /\ attempt.hypothesis \subseteq Scope
      /\ ~ problem.dualRail => attempt.hypothesis = S
      /\ memo \subseteq {{o} : o \in Outputs} \X SUBSET Outputs
  BY <1>1, InLoopIs
<1>3. k \in Nat /\ k \in 0..MaxK
  BY <1>1, <1>2, ConstantTypes
<1>4. S \subseteq Scope /\ S \in SUBSET Outputs
  BY <1>2, RangeInSlice, RangesTyped
<1>5. NotFirst(problem, Scope, S, k)
  <2> HIDE DEF S, k
  <2> QED BY <1>1, <1>2, <1>3, <1>4, ClosedStepNotFirst
<1>6. CASE ~ problem.dualRail /\ BaseCounterexample(S, k)
  <2>1. Report("Different", bound) /\ UNCHANGED <<run, ranges>>
    BY <1>6 DEF StepProved
  <2>2. bound \in 0..k /\ Differs(problem, S, bound)
    <3> HIDE DEF S, k
    <3>1. /\ FirstBadFrame(S, k) \in 0..k
          /\ Differs(problem, S, FirstBadFrame(S, k))
      BY <1>3, <1>6, FirstBadFrameDiffers
    <3> QED BY <3>1
  <2> HIDE DEF S, k, bound
  <2>3. bound \in 0..MaxK /\ Differs(problem, Outputs, bound)
    BY <1>3, <1>4, <2>2, ConstantTypes, DiffersAmongAll
  <2>4. UNCHANGED <<problem, slices, stored, covered, skipped, memo, run, ranges, fallback>>
    BY <1>1, <2>1 DEF strategyVars
  <2> QED BY <1>1, <1>2, <2>1, <2>3, <2>4, ReportKeeps
<1>7. CASE ~ (~ problem.dualRail /\ BaseCounterexample(S, k))
  <2>1. EndRange(TRUE, k)
    BY <1>7 DEF StepProved
  <2>2. ASSUME ~ problem.dualRail
        PROVE  Clean(problem, S, MaxK + 1) /\ Never(problem, S)
    <3>1. Clean(problem, S, k + 1)
      BY <1>3, <1>7, <2>2, BaseClean
    <3>2. NotFirst(problem, S, S, k)
      <4>1. attempt.hypothesis \subseteq S
        BY <1>2, <2>2
      <4> HIDE DEF S, k
      <4> QED BY <1>1, <1>2, <1>3, <4>1, ClosedStepNotFirst
    <3> HIDE DEF S, k
    <3>3. Clean(problem, S, k)
      BY <1>3, <3>1 DEF Clean
    <3>4. Never(problem, S)
      BY <1>3, <3>2, <3>3, BaseCompletes, NeverByFirst
    <3> QED BY <3>4 DEF Never, Clean
  <2>3. /\ memo' \subseteq {{o} : o \in Outputs} \X SUBSET Outputs
        /\ attempt' \in [hypothesis : SUBSET Outputs, k : 1..MaxK + 1,
                         unknowns : 0..UnknownStops - 1, second : BOOLEAN]
        /\ UNCHANGED <<strategyVars, fallback>>
    BY <1>1, <1>2
  <2> HIDE DEF k
  <2> QED BY <1>2, <1>3, <1>5, <2>1, <2>2, <2>3, EndRangeKeeps
<1> QED BY <1>6, <1>7

LEMMA StepRefutedKeeps ==
  ASSUME ProofInv, StepRefuted
  PROVE  ProofInv'
<1> DEFINE S == Range1.outputs
           k == attempt.k
<1>1. /\ stage = "step" /\ k <= MaxK
      /\ UNCHANGED <<strategyVars, memo, run, ranges, fallback>>
  BY DEF StepRefuted, InLoop
<1>2. /\ InRun /\ ranges # <<>> /\ TypeOK /\ stage # "done"
      /\ attempt \in [hypothesis : SUBSET Outputs, k : 1..MaxK + 1,
                      unknowns : 0..UnknownStops - 1, second : BOOLEAN]
      /\ k \in 1..MaxK + 1 /\ attempt.hypothesis \subseteq Scope
      /\ ~ problem.dualRail => attempt.hypothesis = S /\ Clean(problem, S, k)
      /\ memo \subseteq {{o} : o \in Outputs} \X SUBSET Outputs
  BY <1>1, InLoopIs
<1>3. k \in Nat /\ k \in 0..MaxK /\ MaxK \in Nat
  BY <1>1, <1>2, ConstantTypes
<1>4. S \in SUBSET Outputs
  BY <1>2, RangesTyped
<1>5. CASE ~ problem.dualRail /\ DiffersAt(S, k)
  <2>1. Report("Different", k) /\ UNCHANGED attempt
    BY <1>5 DEF StepRefuted
  <2>2. Differs(problem, Outputs, k)
    BY <1>4, <1>5, DiffersIs, DiffersAmongAll
  <2>3. UNCHANGED <<problem, slices, stored, covered, skipped, memo, run, ranges, fallback>>
    BY <1>1 DEF strategyVars
  <2> HIDE DEF k
  <2> QED BY <1>2, <1>3, <2>1, <2>2, <2>3, ReportKeeps
<1>6. CASE ~ (~ problem.dualRail /\ DiffersAt(S, k))
  <2>1. /\ attempt' = [attempt EXCEPT !.k = @ + 1, !.unknowns = 0]
        /\ UNCHANGED <<stage, result>>
    BY <1>6 DEF StepRefuted
  <2>2. /\ attempt' \in [hypothesis : SUBSET Outputs, k : 1..MaxK + 1,
                         unknowns : 0..UnknownStops - 1, second : BOOLEAN]
        /\ attempt'.hypothesis = attempt.hypothesis /\ attempt'.k = k + 1
    <3>1. k + 1 \in 1..MaxK + 1 /\ 0 \in 0..UnknownStops - 1
      BY <1>3, ConstantTypes
    <3> QED BY <1>2, <2>1, <3>1
  <2>3. ASSUME ~ problem.dualRail PROVE Clean(problem, S, k + 1)
    <3>1. Clean(problem, S, k) /\ ~ Differs(problem, S, k)
      BY <1>2, <1>6, <2>3, DiffersIs
    <3> HIDE DEF S, k
    <3> QED BY <1>3, <3>1 DEF Clean
  <2>4. problem.dualRail /\ Large => attempt'.hypothesis \subseteq run.slice
    BY <1>2, <2>2 DEF Scope
  <2>5. UNCHANGED <<strategyVars, run, ranges, fallback, result>> /\ stage' = "step"
        /\ memo' \subseteq {{o} : o \in Outputs} \X SUBSET Outputs
    BY <1>1, <1>2, <2>1
  <2> HIDE DEF k
  <2> QED BY <1>2, <2>2, <2>3, <2>4, <2>5, AttemptKeeps
<1> QED BY <1>5, <1>6

LEMMA StepUnknownKeeps ==
  ASSUME ProofInv, StepUnknown
  PROVE  ProofInv'
<1> DEFINE S == Range1.outputs
<1>1. /\ stage = "step" /\ attempt.k <= MaxK /\ Limited
      /\ UNCHANGED <<strategyVars, memo, run, ranges, fallback, result>>
  BY DEF StepUnknown, InLoop
<1>2. /\ InRun /\ ranges # <<>> /\ TypeOK /\ stage # "done"
      /\ attempt \in [hypothesis : SUBSET Outputs, k : 1..MaxK + 1,
                      unknowns : 0..UnknownStops - 1, second : BOOLEAN]
      /\ attempt.k \in 1..MaxK + 1 /\ attempt.hypothesis \subseteq Scope
      /\ memo \subseteq {{o} : o \in Outputs} \X SUBSET Outputs
  BY <1>1, InLoopIs
<1>3. memo' \subseteq {{o} : o \in Outputs} \X SUBSET Outputs
  BY <1>1, <1>2
<1>4. CASE Cardinality(S) > 1 \/ attempt.unknowns + 1 >= UnknownStops
  <2>1. stage' = "failed" /\ UNCHANGED attempt
    BY <1>4 DEF StepUnknown
  <2>2. ~ problem.dualRail => Cardinality(S) > 1
    BY <1>1 DEF Limited
  <2> QED BY <1>1, <1>2, <1>3, <2>1, <2>2, AttemptKeeps
<1>5. CASE ~ (Cardinality(S) > 1 \/ attempt.unknowns + 1 >= UnknownStops)
  <2>1. /\ attempt' = [attempt EXCEPT !.k = @ + 1, !.unknowns = @ + 1]
        /\ UNCHANGED stage
    BY <1>5 DEF StepUnknown
  <2>2. problem.dualRail
    BY <1>1, <1>5 DEF Limited
  <2>3. attempt.k + 1 \in 1..MaxK + 1 /\ attempt.unknowns + 1 \in 0..UnknownStops - 1
    BY <1>1, <1>2, <1>5, ConstantTypes
  <2>4. /\ attempt' \in [hypothesis : SUBSET Outputs, k : 1..MaxK + 1,
                         unknowns : 0..UnknownStops - 1, second : BOOLEAN]
        /\ attempt'.hypothesis = attempt.hypothesis
    BY <1>2, <2>1, <2>3
  <2>5. Large => attempt'.hypothesis \subseteq run.slice
    BY <1>2, <2>4 DEF Scope
  <2> QED BY <1>1, <1>2, <1>3, <2>1, <2>2, <2>4, <2>5, AttemptKeeps
<1> QED BY <1>4, <1>5

LEMMA RememberTyped ==
  ASSUME TypeOK, ranges # <<>>, Remember
  PROVE  memo' \subseteq {{o} : o \in Outputs} \X SUBSET Outputs
<1>1. memo \subseteq {{o} : o \in Outputs} \X SUBSET Outputs /\ attempt.hypothesis \in SUBSET Outputs
  BY DEF TypeOK
<1>2. CASE Cardinality(Range1.outputs) = 1
  <2>1. Range1.outputs \in {{o} : o \in Outputs}
    BY <1>2, RangesTyped, SingletonOutput
  <2> QED BY <1>1, <2>1 DEF Remember
<1>3. CASE Cardinality(Range1.outputs) # 1
  BY <1>1, <1>3 DEF Remember
<1> QED BY <1>2, <1>3

\* An attempt has failed in a run; in a binary run with one output it went
\* through all frames.
LEMMA FailedIs ==
  ASSUME ProofInv, Failed
  PROVE  /\ InRun /\ ranges # <<>> /\ TypeOK /\ stage \notin {"precheck", "sweep", "done"}
         /\ Range1.outputs \in SUBSET Outputs
         /\ ~ problem.dualRail => fallback = {}
         /\ ~ problem.dualRail /\ Cardinality(Range1.outputs) = 1 =>
              Clean(problem, Range1.outputs, MaxK + 1)
<1>1. InRun /\ ranges # <<>> /\ TypeOK /\ stage \notin {"precheck", "sweep", "done"}
  BY DEF ProofInv, ControlOK, Failed, InRun
<1>2. Range1.outputs \in SUBSET Outputs
  BY <1>1, RangesTyped
<1>3. ~ problem.dualRail => fallback = {}
  BY <1>1 DEF ProofInv, BinaryRunOK
<1>4. ASSUME ~ problem.dualRail, Cardinality(Range1.outputs) = 1
      PROVE  Clean(problem, Range1.outputs, MaxK + 1)
  <2>1. stage # "failed"
    BY <1>1, <1>4 DEF ProofInv, BinaryRunOK, Range1
  <2>2. stage = "step" /\ attempt.k > MaxK
    BY <2>1 DEF Failed
  <2>3. attempt.k \in 1..MaxK + 1 /\ Clean(problem, Range1.outputs, attempt.k)
    BY <1>4, <2>2, InLoopIs
  <2>4. attempt.k = MaxK + 1
    BY <2>2, <2>3, ConstantTypes
  <2> QED BY <2>3, <2>4
<1> QED BY <1>1, <1>2, <1>3, <1>4

LEMMA RetryFallbackKeeps ==
  ASSUME ProofInv, RetryFallback
  PROVE  ProofInv'
<1>1. /\ Failed /\ fallback # {} /\ Remember /\ StartAttempt(fallback, TRUE)
      /\ stage' = "step" /\ UNCHANGED <<strategyVars, run, ranges, fallback, result>>
  BY DEF RetryFallback, Retry, TryFallback
<1>2. /\ InRun /\ ranges # <<>> /\ TypeOK /\ problem.dualRail
  BY <1>1, FailedIs
<1>3. fallback \in SUBSET Outputs
  BY <1>2 DEF TypeOK
<1>4. attempt' \in [hypothesis : SUBSET Outputs, k : 1..MaxK + 1,
                    unknowns : 0..UnknownStops - 1, second : BOOLEAN]
  BY <1>1, <1>2, <1>3, StartAttemptIs
<1>5. ~ Large
  BY <1>1, <1>2, RangeInSlice
<1>6. memo' \subseteq {{o} : o \in Outputs} \X SUBSET Outputs
  BY <1>1, <1>2, RememberTyped
<1> QED BY <1>1, <1>2, <1>4, <1>5, <1>6, AttemptKeeps

LEMMA SplitRangeKeeps ==
  ASSUME ProofInv, SplitRange
  PROVE  ProofInv'
<1> DEFINE R == [outputs : (SUBSET Outputs) \ {{}}, preferred : SUBSET Outputs]
           S == Range1.outputs
           H == IF Range1.preferred # {} THEN Range1.preferred ELSE S
           lower == [outputs |-> LowerHalf(S), preferred |-> H]
           upper == [outputs |-> UpperHalf(S), preferred |-> H]
           rest == Tail(ranges)
<1>1. /\ Failed /\ Cardinality(S) > 1 /\ stage' = "range"
      /\ ranges' = <<lower, upper>> \o rest
      /\ UNCHANGED <<strategyVars, memo, run, fallback, attempt, result>>
  BY DEF SplitRange, GiveUp
<1>u. /\ problem' = problem /\ slices' = slices /\ stored' = stored /\ memo' = memo
      /\ covered' = covered /\ skipped' = skipped /\ run' = run /\ fallback' = fallback
      /\ attempt' = attempt /\ result' = result
  BY <1>1 DEF strategyVars
<1>2. /\ InRun /\ ranges # <<>> /\ TypeOK /\ stage \notin {"precheck", "sweep", "done"}
  BY <1>1, FailedIs
<1>3. /\ S \in SUBSET Outputs /\ Range1.preferred \in SUBSET Outputs /\ rest \in Seq(R)
      /\ OutputsIn(ranges) = S \cup OutputsIn(rest)
  BY <1>2, RangesTyped
<1>4. /\ S \subseteq run.slice
      /\ problem.dualRail /\ Large => Range1.preferred \subseteq run.slice /\ fallback = {}
  BY <1>2, RangeInSlice
<1>5. /\ LowerHalf(S) # {} /\ UpperHalf(S) # {}
      /\ LowerHalf(S) \cup UpperHalf(S) = S
  BY <1>1, <1>3, Halves
<1>6. lower \in R /\ upper \in R /\ lower.outputs \cup upper.outputs = S
      /\ lower.preferred = H /\ upper.preferred = H
  <2>1. H \in SUBSET Outputs
    BY <1>3
  <2> HIDE DEF H
  <2> QED BY <1>3, <1>5, <2>1
<1>7. problem.dualRail /\ Large => H \subseteq run.slice
  BY <1>4
<1> HIDE DEF lower, upper, R, H, S
<1>8. /\ ranges' \in Seq(R) /\ OutputsIn(ranges') = OutputsIn(ranges)
      /\ \A i \in DOMAIN ranges' :
           \/ ranges'[i].preferred = H
           \/ i - 2 \in DOMAIN rest /\ ranges'[i] = rest[i - 2]
  <2>1. /\ ranges' \in Seq(R)
        /\ 1 \in DOMAIN ranges' /\ ranges'[1] = lower
        /\ 2 \in DOMAIN ranges' /\ ranges'[2] = upper
        /\ \A i \in DOMAIN ranges' :
             i = 1 \/ i = 2 \/ (i - 2 \in DOMAIN rest /\ ranges'[i] = rest[i - 2])
    <3> HIDE DEF rest
    <3>1. lower \in R /\ upper \in R /\ rest \in Seq(R)
      BY <1>3, <1>6 DEF rest
    <3> QED BY <1>1, <3>1, TwoBefore DEF rest
  <2>2. OutputsIn(ranges') = lower.outputs \cup upper.outputs \cup OutputsIn(rest)
    <3> HIDE DEF rest
    <3>1. OutputsIn(<<lower, upper>> \o rest) = lower.outputs \cup upper.outputs \cup OutputsIn(rest)
      BY <1>3, <1>6, PendingTwo
    <3>2. ranges' = <<lower, upper>> \o rest
      BY <1>1 DEF rest
    <3> QED BY <3>1, <3>2
  <2>3. OutputsIn(ranges') = OutputsIn(ranges)
    BY <1>3, <1>6, <2>2
  <2>4. ASSUME NEW i \in DOMAIN ranges'
        PROVE  \/ ranges'[i].preferred = H
               \/ i - 2 \in DOMAIN rest /\ ranges'[i] = rest[i - 2]
    <3> HIDE DEF rest
    <3>1. i = 1 \/ i = 2 \/ (i - 2 \in DOMAIN rest /\ ranges'[i] = rest[i - 2])
      BY <2>1
    <3> QED BY <1>6, <2>1, <3>1
  <2> HIDE DEF rest
  <2> QED BY <2>1, <2>3, <2>4
<1>9. TypeOK'
  BY <1>2, <1>1, <1>u, <1>8 DEF TypeOK, R
<1>10. InRun'
  BY <1>1 DEF InRun
<1>11. ControlOK'
  BY <1>1, <1>2, <1>u, <1>8 DEF ProofInv, ControlOK
<1>12. DualRunOK'
  <2>1. ASSUME problem.dualRail, Large
        PROVE  \A i \in DOMAIN ranges' : ranges'[i].preferred \subseteq run.slice
    <3>1. \A i \in DOMAIN rest : i + 1 \in DOMAIN ranges /\ rest[i] = ranges[i + 1]
      <4>1. ranges \in Seq(R)
        BY <1>2 DEF TypeOK, R
      <4> QED BY <1>2, <4>1, HeadTail
    <3>2. \A i \in DOMAIN ranges : ranges[i].preferred \subseteq run.slice
      BY <1>2, <2>1 DEF ProofInv, DualRunOK
    <3>3. \A i \in DOMAIN rest : rest[i].preferred \subseteq run.slice
      BY <3>1, <3>2
    <3> HIDE DEF rest
    <3> QED BY <1>7, <1>8, <2>1, <3>3
  <2>2. Scope' = Scope /\ BaseHorizon' = BaseHorizon /\ Large' = Large
    BY <1>u DEF Scope, BaseHorizon, Large
  <2> QED BY <1>1, <1>2, <1>u, <1>4, <1>8, <2>1, <2>2 DEF ProofInv, DualRunOK
<1>13. BinaryRunOK'
  BY <1>1, <1>2, <1>u, <1>8 DEF ProofInv, BinaryRunOK
<1>14. CoveredOK' /\ SweptOK' /\ ResultOK'
  BY <1>1, <1>2, <1>u DEF ProofInv, CoveredOK, SweptOK, ResultOK, Large
<1>15. AccountOK'
  BY <1>1, <1>2, <1>10, <1>u DEF ProofInv, AccountOK
<1> QED BY <1>9, <1>11, <1>12, <1>13, <1>14, <1>15 DEF ProofInv

LEMMA FailLeafKeeps ==
  ASSUME ProofInv, FailLeaf
  PROVE  ProofInv'
<1>1. /\ Failed /\ Cardinality(Range1.outputs) = 1 /\ Remember /\ EndRange(FALSE, 0)
      /\ UNCHANGED <<strategyVars, fallback, attempt>>
  BY DEF FailLeaf, GiveUp
<1>2. /\ InRun /\ ranges # <<>> /\ TypeOK
      /\ ~ problem.dualRail => Clean(problem, Range1.outputs, MaxK + 1)
  BY <1>1, FailedIs
<1>3. memo' \subseteq {{o} : o \in Outputs} \X SUBSET Outputs
  BY <1>1, <1>2, RememberTyped
<1>4. attempt' \in [hypothesis : SUBSET Outputs, k : 1..MaxK + 1,
                    unknowns : 0..UnknownStops - 1, second : BOOLEAN]
  BY <1>1, <1>2 DEF TypeOK
<1> QED BY <1>1, <1>2, <1>3, <1>4, ConstantTypes, EndRangeKeeps

-----------------------------------------------------------------------------
(* What becomes of a run *)

LEMMA RunEndedIs ==
  ASSUME ProofInv, RunEnded
  PROVE  /\ InRun /\ TypeOK /\ stage = "range" /\ OutputsIn(ranges) = {}
         /\ run.slice \in SUBSET Outputs
         /\ ~ problem.dualRail => /\ run.slice = Outputs
                                  /\ Clean(problem, Outputs, MaxK + 1)
                                  /\ run.proved => Never(problem, Outputs)
         /\ problem.dualRail /\ run.proved => NotFirst(problem, Scope, run.slice, BaseHorizon + 1)
<1>1. InRun /\ TypeOK /\ stage = "range"
  BY DEF ProofInv, RunEnded, InRun
<1>2. OutputsIn(ranges) = {} /\ run.slice \ OutputsIn(ranges) = run.slice
  <2>1. ranges = <<>>
    BY DEF RunEnded
  <2>2. DOMAIN <<>> = {}
    OBVIOUS
  <2> QED BY <2>1, <2>2 DEF OutputsIn
<1>3. run.slice \in SUBSET Outputs
  BY <1>1 DEF TypeOK
<1>4. ~ problem.dualRail => /\ run.slice = Outputs
                            /\ Clean(problem, Outputs, MaxK + 1)
                            /\ run.proved => Never(problem, Outputs)
  BY <1>1, <1>2 DEF ProofInv, BinaryRunOK
<1>5. problem.dualRail /\ run.proved => NotFirst(problem, Scope, run.slice, BaseHorizon + 1)
  BY <1>1, <1>2 DEF ProofInv, DualRunOK
<1> QED BY <1>1, <1>2, <1>3, <1>4, <1>5

LEMMA ReportRunKeeps ==
  ASSUME ProofInv, ReportRun
  PROVE  ProofInv'
<1> DEFINE status == IF run.proved THEN "Equivalent" ELSE "Inconclusive"
<1>1. /\ RunEnded /\ ~ problem.dualRail /\ Report(status, 0) /\ covered' = Outputs
      /\ UNCHANGED <<problem, slices, stored, skipped, memo, run, ranges, fallback, attempt>>
  BY DEF ReportRun
<1>2. /\ stage # "done" /\ Clean(problem, Outputs, MaxK + 1)
      /\ run.proved => Never(problem, Outputs)
  BY <1>1, RunEndedIs
<1>3. /\ status \in {"Equivalent", "Inconclusive"}
      /\ status = "Equivalent" => Never(problem, Outputs)
  BY <1>2
<1> HIDE DEF status
<1> QED BY <1>1, <1>2, <1>3, ConstantTypes, ReportKeeps

LEMMA BaseFailsKeeps ==
  ASSUME ProofInv, BaseFails
  PROVE  ProofInv'
<1> DEFINE bound == FirstBadFrame(run.slice, BaseHorizon)
<1>1. /\ RunEnded /\ BaseCounterexample(run.slice, BaseHorizon) /\ Report("Different", bound)
      /\ UNCHANGED <<problem, slices, stored, covered, skipped, memo, run, ranges, fallback, attempt>>
  BY DEF BaseFails, DeferredBase, strategyVars
<1>2. stage # "done" /\ TypeOK /\ run.slice \in SUBSET Outputs
  BY <1>1, RunEndedIs
<1>3. BaseHorizon \in 0..MaxK /\ BaseHorizon \in Nat
  <2>1. run.bound \in 0..MaxK
    BY <1>2 DEF TypeOK
  <2> QED BY <2>1, ConstantTypes DEF BaseHorizon
<1>4. bound \in 0..BaseHorizon /\ Differs(problem, run.slice, bound)
  BY <1>1, <1>3, FirstBadFrameDiffers
<1> HIDE DEF bound
<1>5. bound \in 0..MaxK /\ Differs(problem, Outputs, bound)
  BY <1>2, <1>3, <1>4, ConstantTypes, DiffersAmongAll
<1> QED BY <1>1, <1>2, <1>5, ReportKeeps

LEMMA BaseHoldsKeeps ==
  ASSUME ProofInv, BaseHolds
  PROVE  ProofInv'
<1>1. /\ RunEnded /\ problem.dualRail /\ run.proved
      /\ ~ BaseCounterexample(run.slice, BaseHorizon)
      /\ covered' = covered \cup run.slice /\ stage' = "slice"
      /\ problem' = problem /\ slices' = slices /\ stored' = stored /\ memo' = memo
      /\ skipped' = skipped /\ run' = run /\ ranges' = ranges /\ fallback' = fallback
      /\ attempt' = attempt /\ result' = result
  BY DEF BaseHolds, DeferredBase
<1>2. /\ InRun /\ TypeOK /\ stage = "range" /\ run.slice \in SUBSET Outputs
      /\ NotFirst(problem, Scope, run.slice, BaseHorizon + 1)
  BY <1>1, RunEndedIs
<1>3. BaseHorizon \in Nat
  <2>1. run.bound \in 0..MaxK
    BY <1>2 DEF TypeOK
  <2> QED BY <2>1, ConstantTypes DEF BaseHorizon
<1>4. NotFirst(problem, Scope, run.slice, 0)
  <2>1. Clean(problem, run.slice, BaseHorizon + 1) /\ BaseHorizon + 1 \in Nat
    BY <1>1, <1>3, BaseClean
  <2> QED BY <1>2, <2>1, BaseCompletes
<1>5. CoveredOK'
  <2>1. NotFirst(problem, Outputs, covered, 0) /\ (Large => Never(problem, covered))
    BY <1>1 DEF ProofInv, CoveredOK
  <2>2. Large => Never(problem, run.slice)
    BY <1>4, NeverByFirst DEF Scope
  <2>3. NotFirst(problem, Outputs, run.slice, 0)
    <3>1. CASE Large
      BY <2>2, <3>1 DEF NotFirst, Never
    <3>2. CASE ~ Large
      BY <1>4, <3>2 DEF Scope
    <3> QED BY <3>1, <3>2
  <2>4. NotFirst(problem, Outputs, covered', 0)
    BY <1>1, <2>1, <2>3, NotFirstUnion
  <2>5. Large => Never(problem, covered')
    BY <1>1, <2>1, <2>2, NeverUnion
  <2> QED BY <1>1, <2>4, <2>5 DEF CoveredOK, Large
<1>6. TypeOK'
  BY <1>1, <1>2 DEF TypeOK
<1>7. ControlOK'
  BY <1>1, <1>2 DEF ProofInv, ControlOK, InRun
<1>8. DualRunOK' /\ BinaryRunOK'
  BY <1>1 DEF DualRunOK, BinaryRunOK, InRun
<1>9. SweptOK' /\ ResultOK'
  BY <1>1, <1>2 DEF ProofInv, SweptOK, ResultOK, Large
<1>10. AccountOK'
  BY <1>1, <1>2 DEF ProofInv, AccountOK, InRun
<1> QED BY <1>5, <1>6, <1>7, <1>8, <1>9, <1>10 DEF ProofInv

LEMMA SplitSliceKeeps ==
  ASSUME ProofInv, SplitSlice
  PROVE  ProofInv'
<1> DEFINE S == run.slice
           lower == LowerHalf(S)
           upper == UpperHalf(S)
           T == (SUBSET Outputs) \ {{}}
<1>1. /\ RunEnded /\ problem.dualRail /\ Cardinality(S) > 1
      /\ slices' = <<lower, upper>> \o slices /\ stage' = "slice"
      /\ problem' = problem /\ covered' = covered /\ stored' = stored /\ memo' = memo
      /\ skipped' = skipped /\ run' = run /\ ranges' = ranges /\ fallback' = fallback
      /\ attempt' = attempt /\ result' = result
  BY DEF SplitSlice
<1>2. /\ InRun /\ TypeOK /\ stage = "range" /\ S \in SUBSET Outputs
  BY <1>1, RunEndedIs
<1>3. /\ lower # {} /\ upper # {} /\ lower \cup upper = S /\ lower \cap upper = {}
  BY <1>1, <1>2, Halves
<1>4. slices \in Seq(T)
  BY <1>2 DEF TypeOK
<1>5. lower \in T /\ upper \in T
  BY <1>2, <1>3
<1> HIDE DEF lower, upper, T, S
<1>6. slices' \in Seq(T)
  BY <1>1, <1>4, <1>5, TwoBefore
<1>7. /\ Open(slices') = S \cup Open(slices)
      /\ Disjoint(slices) /\ S \cap Open(slices) = {} => Disjoint(slices')
  BY <1>1, <1>3, <1>4, <1>5, OpenTwo
<1>8. TypeOK'
  BY <1>1, <1>2, <1>6 DEF TypeOK, T
<1>9. ControlOK'
  BY <1>1, <1>2 DEF ProofInv, ControlOK, InRun
<1>10. DualRunOK' /\ BinaryRunOK'
  BY <1>1 DEF DualRunOK, BinaryRunOK, InRun
<1>11. CoveredOK' /\ SweptOK' /\ ResultOK'
  BY <1>1, <1>2 DEF ProofInv, CoveredOK, SweptOK, ResultOK, Large
<1>12. AccountOK'
  BY <1>1, <1>2, <1>7 DEF ProofInv, AccountOK, InRun, S
<1> QED BY <1>8, <1>9, <1>10, <1>11, <1>12 DEF ProofInv

LEMMA SkipOutputKeeps ==
  ASSUME ProofInv, SkipOutput
  PROVE  ProofInv'
<1>1. /\ RunEnded /\ problem.dualRail
      /\ skipped' = skipped \cup run.slice /\ stage' = "slice"
      /\ problem' = problem /\ covered' = covered /\ stored' = stored /\ memo' = memo
      /\ slices' = slices /\ run' = run /\ ranges' = ranges /\ fallback' = fallback
      /\ attempt' = attempt /\ result' = result
  BY DEF SkipOutput
<1>2. /\ InRun /\ TypeOK /\ stage = "range" /\ run.slice \in SUBSET Outputs
  BY <1>1, RunEndedIs
<1>3. TypeOK'
  BY <1>1, <1>2 DEF TypeOK
<1>4. ControlOK'
  BY <1>1, <1>2 DEF ProofInv, ControlOK, InRun
<1>5. DualRunOK' /\ BinaryRunOK'
  BY <1>1 DEF DualRunOK, BinaryRunOK, InRun
<1>6. CoveredOK' /\ SweptOK' /\ ResultOK'
  BY <1>1, <1>2 DEF ProofInv, CoveredOK, SweptOK, ResultOK, Large
<1>7. AccountOK'
  BY <1>1, <1>2 DEF ProofInv, AccountOK, InRun
<1> QED BY <1>3, <1>4, <1>5, <1>6, <1>7 DEF ProofInv

LEMMA ReportCoverageKeeps ==
  ASSUME ProofInv, ReportCoverage
  PROVE  ProofInv'
<1> DEFINE status == IF covered = {} THEN "Inconclusive"
                     ELSE IF covered = Outputs THEN "Equivalent" ELSE "PartiallyProved"
<1>1. /\ stage = "slice" /\ slices = <<>> /\ Report(status, 0)
      /\ UNCHANGED <<problem, slices, stored, covered, skipped, memo, run, ranges, fallback, attempt>>
  BY DEF ReportCoverage, strategyVars
<1>2. problem.dualRail
  BY <1>1 DEF ProofInv, ControlOK
<1>3. covered = Outputs => Never(problem, Outputs)
  BY <1>2, NeverByFirst DEF ProofInv, CoveredOK
<1>4. /\ status \in {"Inconclusive", "Equivalent", "PartiallyProved"}
      /\ status = "Equivalent" => Never(problem, Outputs)
  BY <1>3
<1> HIDE DEF status
<1> QED BY <1>1, <1>2, <1>4, ConstantTypes, ReportKeeps

-----------------------------------------------------------------------------
(* The theorems *)

LEMMA NextKeeps ==
  ASSUME ProofInv, [Next]_vars
  PROVE  ProofInv'
<1>1. CASE UNCHANGED vars
  <2>1. /\ problem' = problem /\ stage' = stage /\ slices' = slices /\ stored' = stored
        /\ memo' = memo /\ covered' = covered /\ skipped' = skipped /\ run' = run
        /\ ranges' = ranges /\ fallback' = fallback /\ attempt' = attempt /\ result' = result
    BY <1>1 DEF vars
  <2>2. TypeOK' /\ ControlOK' /\ CoveredOK' /\ SweptOK' /\ ResultOK'
    BY <2>1 DEF ProofInv, TypeOK, ControlOK, CoveredOK, SweptOK, ResultOK, InRun, Large
  <2>3. DualRunOK'
    BY <2>1 DEF ProofInv, DualRunOK, InRun, Large, Scope, BaseHorizon
  <2>4. BinaryRunOK' /\ AccountOK'
    BY <2>1 DEF ProofInv, BinaryRunOK, AccountOK, InRun
  <2> QED BY <2>2, <2>3, <2>4 DEF ProofInv
<1>2. CASE Precheck
  BY <1>2, PrecheckKeeps
<1>3. CASE SweepFinds
  BY <1>3, SweepFindsKeeps
<1>4. CASE StartSlices
  BY <1>4, StartSlicesKeeps
<1>5. CASE BeginRun
  BY <1>5, BeginRunKeeps
<1>6. CASE ReplayMemo
  BY <1>6, ReplayMemoKeeps
<1>7. CASE BeginAttempt
  BY <1>7, BeginAttemptKeeps
<1>8. CASE StepProved
  BY <1>8, StepProvedKeeps
<1>9. CASE StepRefuted
  BY <1>9, StepRefutedKeeps
<1>10. CASE StepUnknown
  BY <1>10, StepUnknownKeeps
<1>11. CASE RetryFallback
  BY <1>11, RetryFallbackKeeps
<1>12. CASE SplitRange
  BY <1>12, SplitRangeKeeps
<1>13. CASE FailLeaf
  BY <1>13, FailLeafKeeps
<1>14. CASE ReportRun
  BY <1>14, ReportRunKeeps
<1>15. CASE BaseFails
  BY <1>15, BaseFailsKeeps
<1>16. CASE BaseHolds
  BY <1>16, BaseHoldsKeeps
<1>17. CASE SplitSlice
  BY <1>17, SplitSliceKeeps
<1>18. CASE SkipOutput
  BY <1>18, SkipOutputKeeps
<1>19. CASE ReportCoverage
  BY <1>19, ReportCoverageKeeps
<1> QED BY <1>1, <1>2, <1>3, <1>4, <1>5, <1>6, <1>7, <1>8, <1>9, <1>10, <1>11, <1>12,
           <1>13, <1>14, <1>15, <1>16, <1>17, <1>18, <1>19 DEF Next

\* The inductive invariant, for every set of problems and every bound.
THEOREM InvariantHolds == Spec => []ProofInv
<1>1. Init => ProofInv
  BY InitKeeps
<1>2. ProofInv /\ [Next]_vars => ProofInv'
  BY NextKeeps
<1> QED BY <1>1, <1>2, PTL DEF Spec

\* The fields of the strategy and of the engine keep their types.
THEOREM TypeCorrect == Spec => []TypeOK
<1>1. ProofInv => TypeOK
  BY DEF ProofInv
<1> QED BY <1>1, InvariantHolds, PTL

\* There are finitely many states, so that Depths is a set of numbers.
LEMMA DepthsAreNumbers == Depths \subseteq Nat
<1> DEFINE f == [s \in State |-> {v \in Symbols : s[v]}]
<1>1. IsFiniteSet(SUBSET Symbols)
  BY SymbolsFinite, FS_SUBSET
<1>2. f \in Injection(State, SUBSET Symbols)
  <2>1. f \in [State -> SUBSET Symbols]
    OBVIOUS
  <2>2. ASSUME NEW s \in State, NEW t \in State, f[s] = f[t] PROVE s = t
    <3>1. ASSUME NEW v \in Symbols PROVE s[v] = t[v]
      <4>1. s[v] \in BOOLEAN /\ t[v] \in BOOLEAN
        BY DEF State
      <4>2. v \in f[s] <=> v \in f[t]
        BY <2>2
      <4>3. s[v] <=> t[v]
        BY <4>2
      <4>4. \A x, y \in BOOLEAN : (x <=> y) => x = y
        OBVIOUS
      <4> HIDE DEF f
      <4> QED BY <4>1, <4>3, <4>4
    <3>2. s = [v \in Symbols |-> s[v]] /\ t = [v \in Symbols |-> t[v]]
      BY DEF State
    <3> QED BY <3>1, <3>2
  <2> HIDE DEF f
  <2> QED BY <2>1, <2>2 DEF Injection, IsInjective
<1> HIDE DEF f
<1>3. IsFiniteSet(State)
  BY <1>1, <1>2, FS_Injection
<1>4. Cardinality(State) \in Nat
  BY <1>3, FS_CardinalityType
<1> QED BY <1>4 DEF Depths

\* An output that differs is preceded by one that is not covered.
LEMMA CoveredNotFirst ==
  ASSUME ProofInv
  PROVE  CoveredNotFirstToDiffer
<1> SUFFICES ASSUME problem.dualRail, NEW o \in covered, NEW d \in Depths,
                    DiffersAt({o}, d)
             PROVE  \E p \in Outputs \ covered, e \in 0..d : DiffersAt({p}, e)
  BY DEF CoveredNotFirstToDiffer
<1>1. d \in Nat /\ covered \subseteq Outputs
  BY DepthsAreNumbers DEF ProofInv, TypeOK
<1>2. Differs(problem, Outputs, d)
  BY <1>1, DiffersIs, DiffersMonotone
<1>3. PICK e \in Nat : e <= d /\ First(problem, Outputs, e)
  BY <1>1, <1>2, FirstExists
<1>4. ~ Differs(problem, covered, e)
  BY <1>3 DEF ProofInv, CoveredOK, NotFirst
<1>5. PICK p \in Outputs : Differs(problem, {p}, e)
  BY <1>3 DEF First, Differs
<1>6. p \notin covered
  BY <1>4, <1>5, DiffersMonotone
<1>7. e \in 0..d /\ DiffersAt({p}, e)
  BY <1>1, <1>3, <1>5, DiffersIs
<1> QED BY <1>6, <1>7

LEMMA NeverIsNever ==
  ASSUME NEW S, Never(problem, S), NEW o \in S
  PROVE  ~ EverDiffers(o)
BY DepthsAreNumbers, DiffersIs, DiffersMonotone DEF Never, EverDiffers

LEMMA Accounted ==
  ASSUME ProofInv
  PROVE  EveryOutputAccountedFor
<1>1. UNION Range(slices) = Open(slices)
  BY DEF Open, Range
<1>2. CASE InRun
  BY <1>1, <1>2 DEF ProofInv, AccountOK, EveryOutputAccountedFor, InRun
<1>3. CASE ~ InRun
  BY <1>1, <1>3 DEF ProofInv, AccountOK, EveryOutputAccountedFor, InRun
<1> QED BY <1>2, <1>3

(***************************************************************************)
(* What counts as covered is.  The verdict of proveDualRailResiduals... and*)
(* of the binary engine is sound for every number of outputs, every max_k  *)
(* and every way the solver's limits cut the search short.                 *)
(***************************************************************************)
THEOREM CoverageSound == Spec => []CoverageIsSound
<1>1. ASSUME ProofInv PROVE CoverageIsSound
  <2>1. EquivalentIsSound
    BY <1>1, NeverIsNever DEF ProofInv, ResultOK, EquivalentIsSound
  <2>2. CoveredAloneIsProved
    BY <1>1, NeverIsNever DEF ProofInv, CoveredOK, CoveredAloneIsProved, Large
  <2> QED BY <1>1, <2>1, <2>2, CoveredNotFirst, Accounted DEF CoverageIsSound
<1> QED BY <1>1, InvariantHolds, PTL

\* A reported difference exists at the reported frame, and no verdict but
\* Different hides a difference within max_k frames where those are searched.
THEOREM DifferencesRight == Spec => []DifferencesAreRight
<1>1. ASSUME ProofInv PROVE DifferencesAreRight
  <2>1. DifferentIsReal
    BY <1>1, DiffersIs DEF ProofInv, ResultOK, DifferentIsReal
  <2>2. ShallowDifferencesReported
    <3> SUFFICES ASSUME stage = "done", result.status # "Different",
                        problem.dualRail => ~ Large,
                        NEW d \in 0..MaxK, DiffersAt(Outputs, d)
                 PROVE  FALSE
      BY DEF ShallowDifferencesReported, BaseCounterexample, Large
    <3>1. Clean(problem, Outputs, MaxK + 1)
      BY <1>1 DEF ProofInv, SweptOK, ResultOK
    <3>2. d \in Nat /\ d < MaxK + 1
      BY ConstantTypes
    <3> QED BY <3>1, <3>2, DiffersIs DEF Clean
  <2> QED BY <2>1, <2>2 DEF DifferencesAreRight
<1> QED BY <1>1, InvariantHolds, PTL
=============================================================================
