--------------------------- MODULE CraigIMCProofs ---------------------------
(***************************************************************************)
(* Proofs about CraigIMC: every state the designs reach lies in every      *)
(* helper, satisfies every auxiliary fact and, when an interpolant lies    *)
(* inside Q, lies in Q, which bad does not meet.                           *)
(***************************************************************************)
EXTENDS CraigIMC, InductionLemmas, FiniteSetTheorems, SequenceTheorems

-----------------------------------------------------------------------------
(* Reachability *)

\* The transition system of a problem.
Machine(p) == p.init \subseteq State /\ p.next \in [Point -> State]

\* AfterSteps is the function its recursion describes.
LEMMA AfterStepsUnfolds ==
  ASSUME NEW p, Machine(p)
  PROVE  /\ AfterSteps(p) \in [Nat -> SUBSET State]
         /\ AfterSteps(p)[0] = p.init
         /\ \A n \in Nat : AfterSteps(p)[n + 1] = Successors(p, AfterSteps(p)[n])
<1> DEFINE T == SUBSET State
           g == [S \in T |-> Successors(p, S)]
           a == p.init
<1>1. a \in T /\ g \in [T -> T]
  <2>1. p.init \in T
    BY DEF Machine
  <2>2. ASSUME NEW S \in T PROVE Successors(p, S) \in T
    BY DEF Successors, Point, Machine
  <2> QED BY <2>1, <2>2
<1>2. PICK f \in [Nat -> T] : f[0] = p.init /\ \A n \in Nat : f[n + 1] = g[f[n]]
  <2> HIDE DEF T, g, a
  <2>1. \E f \in [Nat -> T] : f[0] = a /\ \A n \in Nat : f[n + 1] = g[f[n]]
    BY <1>1, RecursionExists
  <2> QED BY <2>1 DEF a
<1> DEFINE h == [n \in Nat |-> IF n = 0 THEN p.init ELSE Successors(p, f[n - 1])]
<1>3. ASSUME NEW n \in Nat PROVE h[n] = f[n]
  <2>1. CASE n = 0
    BY <1>2, <2>1
  <2>2. CASE n # 0
    <3>1. n - 1 \in Nat /\ (n - 1) + 1 = n
      BY <2>2
    <3>2. f[n] = g[f[n - 1]] /\ f[n - 1] \in T
      BY <1>2, <3>1
    <3> QED BY <2>2, <3>2
  <2> QED BY <2>1, <2>2
<1>4. f = h
  <2>1. f = [n \in Nat |-> f[n]] /\ h = [n \in Nat |-> h[n]]
    BY <1>2
  <2> HIDE DEF h
  <2> QED BY <1>3, <2>1
<1>5. \E A : A = [n \in Nat |-> IF n = 0 THEN p.init ELSE Successors(p, A[n - 1])]
  BY <1>4
<1>6. AfterSteps(p) = [n \in Nat |-> IF n = 0 THEN p.init ELSE Successors(p, AfterSteps(p)[n - 1])]
  BY <1>5, Zenon DEF AfterSteps
<1>7. /\ AfterSteps(p)[0] = p.init
      /\ \A n \in Nat : AfterSteps(p)[n + 1] = Successors(p, AfterSteps(p)[n])
  BY <1>6
<1>8. AfterSteps(p) \in [Nat -> T]
  <2> DEFINE A == AfterSteps(p)
             S == {n \in Nat : A[n] \in T}
  <2> HIDE DEF A
  <2>1. 0 \in S
    BY <1>1, <1>7 DEF A
  <2>2. ASSUME NEW n \in S PROVE n + 1 \in S
    <3>1. A[n + 1] = g[A[n]]
      BY <1>7 DEF A
    <3> QED BY <1>1, <3>1
  <2>3. S = Nat
    <3>1. S \subseteq Nat
      OBVIOUS
    <3> HIDE DEF S
    <3> QED BY <2>1, <2>2, <3>1, InductiveSet
  <2>4. \A n \in Nat : A[n] \in T
    BY <2>3
  <2>5. A = [n \in Nat |-> IF n = 0 THEN p.init ELSE Successors(p, A[n - 1])]
    BY <1>6 DEF A
  <2>6. A = [n \in Nat |-> A[n]]
    BY <2>5
  <2> HIDE DEF T
  <2>7. A \in [Nat -> T]
    BY <2>4, <2>6
  <2> QED BY <2>7 DEF A
<1> QED BY <1>7, <1>8

\* The states of depth d, and all reachable ones.
At(p, d) == AfterSteps([init |-> InitStates(p), next |-> p.next])[d]
Reach(p) == UNION {At(p, d) : d \in Nat}

Differs(p, o, d) == \E s \in At(p, d), i \in Inputs : <<s, i>> \in p.differ[o]
NeverDiffers(p, o) == \A s \in Reach(p), i \in Inputs : <<s, i>> \notin p.differ[o]

AuxOK(p, A) == \A f \in A, s \in Reach(p) : FactHolds(f, s)
HelperOK(p, h) == h # NoHelper => Reach(p) \subseteq UNION h.regions /\ AuxOK(p, h.aux)
CoveredOK(p, C) ==
  \A o \in C : (p.sees[o] = {} /\ o \in p.wide) \/ NeverDiffers(p, o)

-----------------------------------------------------------------------------
(* The inductive invariant *)

\* What has been proved holds in every reachable state.
SoundInv ==
  /\ CoveredOK(problem, covered)
  /\ HelperOK(problem, reusable) /\ HelperOK(problem, singleton)
  /\ HelperOK(problem, helper)
  /\ AuxOK(problem, aux)

\* The probe of frame 0 has passed, and the attempt tracks what bad reads.
PhaseInv ==
  /\ phase \notin {"probe", "done"} =>
       \A o \in Outputs \ problem.wide : ~ Differs(problem, o, 0)
  /\ phase \in {"project", "loop", "candidate"} =>
       BadSupport(problem, Current) \subseteq tracked

Union(rs) == UNION {rs[k] : k \in DOMAIN rs}
Safe(c, S) == S \cap Facts(c.problem, c.aux, c.tracked) \cap Bad(c) = {}
Settled(c, rs, d) ==
  \A k \in 1..Len(rs) - 1 : \A s \in rs[k] : \A t \in State :
    Step(c, s, t, d) => t \in Union(rs)

\* Q starts with the post-reset states and misses bad, every region but the
\* newest has its successors in Q, and the post-reset cube is the only region
\* before Q has grown.
QInv(c, rs, d) ==
  /\ rs # <<>>
  /\ InitStates(c.problem) \subseteq Union(rs)
  /\ Safe(c, Union(rs))
  /\ Settled(c, rs, d)
FirstInv(c, isCube, R) ==
  /\ InitStates(c.problem) \subseteq R
  /\ Safe(c, R)
  /\ isCube => R = Cube(c)
LoopInv ==
  phase = "loop" =>
    /\ QInv(Context, regions, look)
    /\ FirstInv(Context, concrete, first)
    /\ concrete /\ Len(regions) = 1 => regions[1] = Cube(Context)
    /\ pass = 1 => Len(regions) = 1
    /\ look >= 1
    /\ concrete => \A o \in Current : \A k \in 0..look - 1 : ~ Differs(problem, o, k)
    /\ concrete /\ pass > 1 => \A o \in Current : ~ Differs(problem, o, look)

CandidateInv ==
  phase = "candidate" =>
    /\ look <= MaxLookahead
    /\ ~ problem.focused => \E o \in Current : Differs(problem, o, look)

\* No output is lost, and a difference is one.
OutcomeInv ==
  /\ outcome = "Different" =>
       \E o \in Outputs : \E d \in 0..MaxLookahead : Differs(problem, o, d)
  /\ outcome = "Equivalent" =>
       covered \cup OutputsIn(todo) = Outputs
  /\ phase = "done" /\ outcome = "Equivalent" => todo = <<>>

IndInv == TypeOK /\ SoundInv /\ PhaseInv /\ LoopInv /\ CandidateInv /\ OutcomeInv

-----------------------------------------------------------------------------
(* Reachability *)

LEMMA ProblemFields ==
  ASSUME NEW p \in Problems
  PROVE  /\ p.known \in [Symbols -> BOOLEAN \cup {None}]
         /\ p.next \in [Point -> State]
         /\ p.support \in [Symbols -> SUBSET Symbols]
         /\ p.differ \in [Outputs -> SUBSET Point]
         /\ p.sees \in [Outputs -> SUBSET Symbols]
         /\ p.equal \in SUBSET (Symbols \X Symbols)
         /\ p.focused \in BOOLEAN
BY CraigConstants DEF Problem

LEMMA InitStatesTyped ==
  ASSUME NEW p
  PROVE  InitStates(p) \subseteq State
BY DEF InitStates

\* The states of depth d are what d steps lead to.
LEMMA AtSteps ==
  ASSUME NEW p \in Problems
  PROVE  /\ At(p, 0) = InitStates(p)
         /\ \A d \in Nat : At(p, d) \subseteq State
         /\ \A d \in Nat : \A s \in At(p, d) : \A i \in Inputs : p.next[<<s, i>>] \in At(p, d + 1)
         /\ \A d \in Nat : \A t \in At(p, d + 1) :
              \E s \in At(p, d) : \E i \in Inputs : t = p.next[<<s, i>>]
<1> DEFINE r == [init |-> InitStates(p), next |-> p.next]
           A == AfterSteps(r)
<1>0. \A d : At(p, d) = A[d]
  BY DEF At
<1>1. Machine(r)
  BY ProblemFields, InitStatesTyped DEF Machine
<1>2. /\ A \in [Nat -> SUBSET State]
      /\ A[0] = r.init
      /\ \A n \in Nat : A[n + 1] = Successors(r, A[n])
  <2> HIDE DEF r
  <2> QED BY <1>1, AfterStepsUnfolds
<1>3. ASSUME NEW d \in Nat
      PROVE  A[d + 1] = {p.next[x] : x \in A[d] \X Inputs}
  BY <1>2 DEF Successors
<1> HIDE DEF A
<1>4. ASSUME NEW d \in Nat, NEW t \in A[d + 1]
      PROVE  \E s \in A[d] : \E i \in Inputs : t = p.next[<<s, i>>]
  <2>1. PICK x \in A[d] \X Inputs : t = p.next[x]
    BY <1>3
  <2>2. x = <<x[1], x[2]>> /\ x[1] \in A[d] /\ x[2] \in Inputs
    BY <2>1
  <2> QED BY <2>1, <2>2
<1>5. ASSUME NEW d \in Nat, NEW s \in A[d], NEW i \in Inputs
      PROVE  p.next[<<s, i>>] \in A[d + 1]
  BY <1>3
<1>6. A[0] = InitStates(p)
  BY <1>2
<1>7. \A d \in Nat : A[d] \subseteq State
  BY <1>2
<1> QED BY <1>0, <1>4, <1>5, <1>6, <1>7

LEMMA ReachFacts ==
  ASSUME NEW p \in Problems
  PROVE  /\ Reach(p) \subseteq State
         /\ InitStates(p) \subseteq Reach(p)
         /\ \A d \in Nat : At(p, d) \subseteq Reach(p)
         /\ \A s \in Reach(p) : \A i \in Inputs : p.next[<<s, i>>] \in Reach(p)
<1>1. Reach(p) \subseteq State
  BY AtSteps DEF Reach
<1>2. InitStates(p) \subseteq Reach(p)
  BY AtSteps DEF Reach
<1>3. \A d \in Nat : At(p, d) \subseteq Reach(p)
  BY DEF Reach
<1>4. ASSUME NEW s \in Reach(p), NEW i \in Inputs
      PROVE  p.next[<<s, i>>] \in Reach(p)
  <2>1. PICK d \in Nat : s \in At(p, d)
    BY DEF Reach
  <2>2. p.next[<<s, i>>] \in At(p, d + 1) /\ d + 1 \in Nat
    BY <2>1, AtSteps
  <2> QED BY <2>2 DEF Reach
<1> QED BY <1>1, <1>2, <1>3, <1>4

\* A set that holds the post-reset states and keeps the successors of the
\* reachable states in it holds every reachable state.
LEMMA ReachInduction ==
  ASSUME NEW p \in Problems, NEW I, InitStates(p) \subseteq I,
         \A s \in Reach(p) \cap I : \A i \in Inputs : p.next[<<s, i>>] \in I
  PROVE  Reach(p) \subseteq I
<1> DEFINE S == {d \in Nat : At(p, d) \subseteq I}
<1>1. 0 \in S
  BY AtSteps
<1>2. ASSUME NEW d \in S PROVE d + 1 \in S
  <2>1. d \in Nat /\ At(p, d) \subseteq I /\ At(p, d) \subseteq Reach(p)
    BY ReachFacts
  <2>2. ASSUME NEW t \in At(p, d + 1) PROVE t \in I
    <3>1. PICK s \in At(p, d), i \in Inputs : t = p.next[<<s, i>>]
      BY <2>1, AtSteps
    <3> QED BY <2>1, <3>1
  <2> QED BY <2>1, <2>2
<1>3. S = Nat
  <2>1. S \subseteq Nat
    OBVIOUS
  <2> HIDE DEF S
  <2> QED BY <1>1, <1>2, <2>1, InductiveSet
<1> QED BY <1>3 DEF Reach

\* The equal symbols are equal in every reachable state.
LEMMA ReachRelated ==
  ASSUME NEW p \in Problems, NEW s \in Reach(p), NEW T
  PROVE  Related(p, s, T)
<1> DEFINE I == {t \in State : Related(p, t, Symbols)}
<1>1. InitStates(p) \subseteq I
  BY DEF InitStates
<1>2. ASSUME NEW t \in Reach(p) \cap I, NEW i \in Inputs
      PROVE  p.next[<<t, i>>] \in I
  <2>1. t \in State /\ p.next[<<t, i>>] \in State
    BY ReachFacts
  <2> QED BY <1>2, <2>1, CraigConstants
<1>3. Reach(p) \subseteq I
  <2> HIDE DEF I
  <2> QED BY <1>1, <1>2, ReachInduction
<1>4. Related(p, s, Symbols)
  BY <1>3
<1>5. \A e \in p.equal : {e[1], e[2]} \subseteq Symbols
  BY ProblemFields
<1> QED BY <1>4, <1>5 DEF Related

\* A query that states proved facts loses no reachable state.
LEMMA ReachSatisfiesFacts ==
  ASSUME NEW p \in Problems, NEW A, AuxOK(p, A), NEW T
  PROVE  Reach(p) \subseteq Facts(p, A, T)
BY ReachRelated, ReachFacts DEF AuxOK, Facts


-----------------------------------------------------------------------------
(* Mined facts *)

\* A set of candidates that preserves itself and holds after reset holds in
\* every reachable state.
LEMMA SettleSound ==
  ASSUME NEW p \in Problems, NEW A, AuxOK(p, A), NEW C,
         \A f \in C : \A s \in InitStates(p) : FactHolds(f, s)
  PROVE  AuxOK(p, Settle(p, C, A))
<1> DEFINE L == Settle(p, C, A)
           I == {s \in State : \A f \in L : FactHolds(f, s)}
<1>1. \A f \in L : \E left \in SUBSET C :
        f \in left /\ left \subseteq L /\ \A g \in left : Preserved(p, g, A \cup left)
  BY DEF Settle
<1>2. L \subseteq C
  BY DEF Settle
<1> HIDE DEF L
<1>3. InitStates(p) \subseteq I
  BY <1>2, InitStatesTyped
<1>4. ASSUME NEW s \in Reach(p) \cap I, NEW i \in Inputs
      PROVE  p.next[<<s, i>>] \in I
  <2>1. s \in Reach(p) /\ s \in State /\ p.next[<<s, i>>] \in State
    BY ReachFacts
  <2>2. ASSUME NEW f \in L PROVE FactHolds(f, p.next[<<s, i>>])
    <3>1. PICK left \in SUBSET C :
            f \in left /\ left \subseteq L /\ \A g \in left : Preserved(p, g, A \cup left)
      BY <1>1
    <3>2. \A g \in A \cup left : FactHolds(g, s)
      BY <3>1, <2>1 DEF AuxOK
    <3>3. \A T : s \in Facts(p, A \cup left, T)
      BY <3>2, <2>1, ReachRelated DEF Facts
    <3>4. Preserved(p, f, A \cup left)
      BY <3>1
    <3> QED BY <3>3, <3>4 DEF Preserved
  <2> QED BY <2>1, <2>2
<1>5. Reach(p) \subseteq I
  <2> HIDE DEF I
  <2> QED BY <1>3, <1>4, ReachInduction
<1> QED BY <1>5 DEF AuxOK, L

LEMMA SettleFrom ==
  ASSUME NEW p, NEW C, NEW A
  PROVE  Settle(p, C, A) \subseteq C
BY DEF Settle

LEMMA AuxOKUnion ==
  ASSUME NEW p, NEW A, NEW B
  PROVE  AuxOK(p, A \cup B) <=> AuxOK(p, A) /\ AuxOK(p, B)
BY DEF AuxOK

LEMMA CandidateTypes ==
  ASSUME NEW p \in Problems, NEW U \in SUBSET Symbols, NEW K
  PROVE  /\ ConstantCandidates(p, U) \subseteq Symbols \X (BOOLEAN \cup Symbols)
         /\ EqualityCandidates(p, U, K) \subseteq Symbols \X (BOOLEAN \cup Symbols)
<1>1. ASSUME NEW v \in U, p.known[v] # None
      PROVE  <<v, p.known[v]>> \in Symbols \X (BOOLEAN \cup Symbols)
  BY <1>1, ProblemFields
<1>2. ConstantCandidates(p, U) \subseteq Symbols \X (BOOLEAN \cup Symbols)
  BY <1>1 DEF ConstantCandidates
<1>3. EqualityCandidates(p, U, K) \subseteq U \X U
  BY DEF EqualityCandidates
<1> QED BY <1>2, <1>3

LEMMA ConstantsHoldFirst ==
  ASSUME NEW p \in Problems, NEW U \in SUBSET Symbols,
         NEW f \in ConstantCandidates(p, U), NEW s \in InitStates(p)
  PROVE  FactHolds(f, s)
<1>1. PICK v \in U : p.known[v] # None /\ f = <<v, p.known[v]>>
  BY DEF ConstantCandidates
<1>2. p.known[v] \in BOOLEAN
  BY <1>1, ProblemFields
<1>3. IsConstant(f) /\ f[1] = v /\ f[2] = p.known[v]
  BY <1>1, <1>2 DEF IsConstant
<1>4. s[v] = p.known[v]
  BY <1>1 DEF InitStates
<1> QED BY <1>3, <1>4 DEF FactHolds

LEMMA EqualitiesHoldFirst ==
  ASSUME NEW p \in Problems, NEW U \in SUBSET Symbols, NEW K,
         NEW f \in EqualityCandidates(p, U, K), NEW s \in InitStates(p)
  PROVE  FactHolds(f, s)
<1>1. /\ f \in U \X U /\ p.known[f[1]] # None /\ p.known[f[1]] = p.known[f[2]]
  BY DEF EqualityCandidates
<1>2. f[1] \in Symbols /\ f[2] \in Symbols
  BY <1>1
<1>3. ~ IsConstant(f)
  BY <1>2, CraigConstants DEF IsConstant
<1>4. s[f[1]] = p.known[f[1]] /\ s[f[2]] = p.known[f[2]]
  BY <1>1, <1>2 DEF InitStates
<1> QED BY <1>1, <1>3, <1>4 DEF FactHolds

\* deriveAuxiliaryStateInvariants and its local form only return facts that
\* hold in every reachable state.
LEMMA MineSound ==
  ASSUME NEW p \in Problems, NEW U \in SUBSET Symbols, NEW A, AuxOK(p, A)
  PROVE  /\ AuxOK(p, Mine(p, U, A))
         /\ Mine(p, U, A) \subseteq Symbols \X (BOOLEAN \cup Symbols)
<1> DEFINE B == {f \in A : IsConstant(f)}
           constants == Settle(p, ConstantCandidates(p, U), B)
           E == EqualityCandidates(p, U, constants \cup A)
           equalities == Settle(p, E, A \cup constants)
<1>1. AuxOK(p, B)
  BY DEF AuxOK
<1>2. AuxOK(p, constants)
  <2> HIDE DEF B
  <2> QED BY <1>1, ConstantsHoldFirst, SettleSound
<1> HIDE DEF constants
<1>3. AuxOK(p, A \cup constants)
  BY <1>2, AuxOKUnion
<1>4. AuxOK(p, equalities)
  BY <1>3, EqualitiesHoldFirst, SettleSound
<1>5. /\ constants \subseteq Symbols \X (BOOLEAN \cup Symbols)
      /\ equalities \subseteq Symbols \X (BOOLEAN \cup Symbols)
  <2>1. constants \subseteq ConstantCandidates(p, U) /\ equalities \subseteq E
    BY SettleFrom DEF constants
  <2> QED BY <2>1, CandidateTypes
<1>6. Mine(p, U, A) = constants \cup equalities
  BY DEF Mine, constants
<1> HIDE DEF equalities
<1>7. AuxOK(p, constants \cup equalities)
  BY <1>2, <1>4, AuxOKUnion
<1> QED BY <1>5, <1>6, <1>7

-----------------------------------------------------------------------------
(* Queries *)

LEMMA CloseFacts ==
  ASSUME NEW p, NEW T
  PROVE  /\ Close(p, T) \subseteq Symbols
         /\ T \cap Symbols \subseteq Close(p, T)
BY DEF Close

LEMMA CylinderFacts ==
  ASSUME NEW S, NEW T
  PROVE  /\ Cylinder(S, T) \subseteq State
         /\ S \cap State \subseteq Cylinder(S, T)
BY DEF Cylinder, Agree

\* The queries of an attempt admit every reachable state.
ContextOK(c) ==
  /\ c.problem \in Problems
  /\ Reach(c.problem) \subseteq c.helper
  /\ AuxOK(c.problem, c.aux)

LEMMA ReachAdmitted ==
  ASSUME NEW c, ContextOK(c), NEW T
  PROVE  Reach(c.problem) \subseteq Admitted(c, T)
<1>1. Reach(c.problem) \subseteq Facts(c.problem, c.aux, T)
  <2> DEFINE p == c.problem
  <2>1. p \in Problems /\ AuxOK(p, c.aux)
    BY DEF ContextOK
  <2> HIDE DEF p
  <2>2. Reach(p) \subseteq Facts(p, c.aux, T)
    BY <2>1, ReachSatisfiesFacts
  <2> QED BY <2>2 DEF p
<1> QED BY <1>1 DEF ContextOK, Admitted

\* Every step of the designs is a projected transition.
LEMMA RealStep ==
  ASSUME NEW c, ContextOK(c), NEW s \in Reach(c.problem), NEW i \in Inputs, NEW d
  PROVE  Step(c, s, c.problem.next[<<s, i>>], d)
<1>1. c.problem \in Problems
  BY DEF ContextOK
<1>2. c.problem.next[<<s, i>>] \in Reach(c.problem)
  BY <1>1, ReachFacts
<1>3. s \in Admitted(c, Leaves(c, d)) /\ c.problem.next[<<s, i>>] \in Admitted(c, c.tracked)
  BY <1>2, ReachAdmitted
<1>4. Agree(c.problem.next[<<s, i>>], c.problem.next[<<s, i>>], Requests(c, d))
  BY DEF Agree
<1> QED BY <1>3, <1>4 DEF Step

LEMMA StepAdmits ==
  ASSUME NEW c, NEW s, NEW t, NEW d, Step(c, s, t, d)
  PROVE  t \in Admitted(c, c.tracked)
BY DEF Step

\* The post-reset states lie in the post-reset cube.
LEMMA InitInCube ==
  ASSUME NEW c
  PROVE  InitStates(c.problem) \subseteq Cube(c)
BY CylinderFacts, InitStatesTyped DEF Cube


-----------------------------------------------------------------------------
(* The suffix that bad is looked for on *)

\* The states with a projected transition, n steps to go, to a state that T
\* cannot tell from one of S; or bad.
OneNearer(c, S, n) ==
  Bad(c) \cup {s \in State : \E t \in Cylinder(S, c.tracked) : Step(c, s, t, n)}

\* Within is the function its recursion describes.
LEMMA WithinUnfolds ==
  ASSUME NEW c
  PROVE  /\ Within(c)[0] = {}
         /\ \A n \in Nat : Within(c)[n + 1] = OneNearer(c, Within(c)[n], n)
         /\ \A n \in Nat : Within(c)[n] \subseteq State
<1> DEFINE T == SUBSET State
           g == [n \in Nat |-> [S \in T |-> OneNearer(c, S, n)]]
           none == {}
<1>1. none \in T /\ IndexedStep(T, g)
  BY DEF IndexedStep, OneNearer, Bad, BadStates
<1>2. PICK f \in [Nat -> T] : f[0] = none /\ \A n \in Nat : f[n + 1] = g[n][f[n]]
  <2> HIDE DEF T, g, none
  <2> QED BY <1>1, IndexedRecursionExists
<1>3. ASSUME NEW n \in Nat PROVE f[n + 1] = OneNearer(c, f[n], n)
  <2>1. f[n] \in T /\ f[n + 1] = g[n][f[n]]
    BY <1>2
  <2> HIDE DEF T
  <2> QED BY <2>1
<1> DEFINE h == [n \in Nat |-> IF n = 0 THEN {} ELSE OneNearer(c, f[n - 1], n - 1)]
<1>4. ASSUME NEW n \in Nat PROVE h[n] = f[n]
  <2>1. CASE n = 0
    BY <1>2, <2>1
  <2>2. CASE n # 0
    <3>1. n - 1 \in Nat /\ (n - 1) + 1 = n
      BY <2>2
    <3>2. f[n] = OneNearer(c, f[n - 1], n - 1)
      BY <1>3, <3>1
    <3>3. h[n] = OneNearer(c, f[n - 1], n - 1)
      BY <2>2
    <3> QED BY <3>2, <3>3
  <2> QED BY <2>1, <2>2
<1>5. f = h
  <2>1. f = [n \in Nat |-> f[n]] /\ h = [n \in Nat |-> h[n]]
    BY <1>2
  <2> HIDE DEF h
  <2> QED BY <1>4, <2>1
<1> DEFINE W(A) == A = [n \in Nat |-> IF n = 0 THEN {} ELSE OneNearer(c, A[n - 1], n - 1)]
<1>6. \E A : W(A)
  BY <1>5
<1>7. Within(c) = CHOOSE A : W(A)
  BY DEF Within, OneNearer
<1>8. W(Within(c))
  <2> HIDE DEF W
  <2> QED BY <1>6, <1>7
<1>9. Within(c)[0] = {}
  BY <1>8
<1>10. ASSUME NEW n \in Nat PROVE Within(c)[n + 1] = OneNearer(c, Within(c)[n], n)
  <2>1. n + 1 \in Nat /\ n + 1 # 0 /\ (n + 1) - 1 = n
    OBVIOUS
  <2> QED BY <1>8, <2>1
<1>11. ASSUME NEW n \in Nat PROVE Within(c)[n] \subseteq State
  <2>1. CASE n = 0
    BY <1>9, <2>1
  <2>2. CASE n # 0
    <3>1. n - 1 \in Nat /\ (n - 1) + 1 = n
      BY <2>2
    <3>2. Within(c)[n] = OneNearer(c, Within(c)[n - 1], n - 1)
      BY <1>10, <3>1
    <3> QED BY <3>2 DEF OneNearer, Bad, BadStates
  <2> QED BY <2>1, <2>2
<1> QED BY <1>9, <1>10, <1>11


\* A difference at depth k >= 1 is bad at most k - 1 projected transitions
\* from a state of depth 1: the suffix over-approximates the designs.
LEMMA RealWithin ==
  ASSUME NEW c, ContextOK(c), NEW o \in c.outputs, c.outputs \subseteq Outputs,
         NEW k \in Nat, k >= 1, NEW m \in Nat, k <= m, Differs(c.problem, o, k)
  PROVE  \E r \in At(c.problem, 1) : r \in Within(c)[m]
<1> DEFINE p == c.problem
           B(j) == j < k => \A n \in Nat : j + 1 <= n => \E r \in At(p, k - j) : r \in Within(c)[n]
           S == {j \in Nat : B(j)}
<1>p. p \in Problems
  BY DEF ContextOK
<1>1. B(0)
  <2> SUFFICES ASSUME NEW n \in Nat, 1 <= n
               PROVE  \E r \in At(p, k) : r \in Within(c)[n]
    OBVIOUS
  <2>1. PICK s \in At(p, k), i \in Inputs : <<s, i>> \in p.differ[o]
    BY DEF Differs
  <2>2. s \in State
    BY <1>p, <2>1, AtSteps
  <2>3. s \in Bad(c)
    BY <2>1, <2>2 DEF Bad, BadStates
  <2>4. n - 1 \in Nat /\ (n - 1) + 1 = n
    OBVIOUS
  <2>5. Within(c)[n] = OneNearer(c, Within(c)[n - 1], n - 1)
    BY <2>4, WithinUnfolds
  <2> QED BY <2>3, <2>5 DEF OneNearer
<1>2. ASSUME NEW j \in Nat, B(j), j + 1 < k, NEW n \in Nat, (j + 1) + 1 <= n
      PROVE  \E r \in At(p, k - (j + 1)) : r \in Within(c)[n]
  <2>1. /\ n - 1 \in Nat /\ (n - 1) + 1 = n /\ j + 1 <= n - 1
        /\ k - (j + 1) \in Nat /\ (k - (j + 1)) + 1 = k - j
    BY <1>2
  <2>2. PICK r \in At(p, k - j) : r \in Within(c)[n - 1]
    BY <1>2, <2>1
  <2>3. PICK s \in At(p, k - (j + 1)) : \E i \in Inputs : r = p.next[<<s, i>>]
    <3>1. r \in At(p, (k - (j + 1)) + 1)
      BY <2>1, <2>2
    <3> QED BY <1>p, <2>1, <3>1, AtSteps
  <2>4. s \in Reach(p) /\ s \in State
    BY <1>p, <2>1, <2>3, ReachFacts
  <2>5. Step(c, s, r, n - 1)
    BY <2>3, <2>4, RealStep
  <2>6. r \in Cylinder(Within(c)[n - 1], c.tracked)
    <3>1. Within(c)[n - 1] \subseteq State
      BY <2>1, WithinUnfolds
    <3> QED BY <2>2, <3>1, CylinderFacts
  <2>7. Within(c)[n] = OneNearer(c, Within(c)[n - 1], n - 1)
    BY <2>1, WithinUnfolds
  <2>8. s \in Within(c)[n]
    BY <2>4, <2>5, <2>6, <2>7 DEF OneNearer
  <2> QED BY <2>3, <2>8
<1>3. \A j \in Nat : B(j) => B(j + 1)
  BY <1>2
<1> HIDE DEF B
<1>4. S = Nat
  <2>1. S \subseteq Nat /\ 0 \in S /\ \A j \in S : j + 1 \in S
    BY <1>1, <1>3
  <2> HIDE DEF S
  <2> QED BY <2>1, InductiveSet
<1>5. B(k - 1) /\ k - 1 < k /\ (k - 1) + 1 <= m /\ k - (k - 1) = 1
  <2>1. k - 1 \in Nat
    OBVIOUS
  <2> QED BY <1>4, <2>1
<1> QED BY <1>5 DEF B

\* An UNSAT image query from the post-reset states proves that the outputs do
\* not differ up to the lookahead.
LEMMA ImageSeesDifferences ==
  ASSUME NEW c, ContextOK(c), c.outputs \subseteq Outputs, NEW S, Cube(c) \subseteq S,
         NEW d \in Nat,
         Cylinder(Image(c, S, d), c.tracked) \cap BadWithin(c, d) = {},
         NEW o \in c.outputs, NEW k \in 1..d
  PROVE  ~ Differs(c.problem, o, k)
<1> SUFFICES ASSUME Differs(c.problem, o, k) PROVE FALSE
  OBVIOUS
<1> DEFINE p == c.problem
<1>p. p \in Problems
  BY DEF ContextOK
<1>1. PICK r \in At(p, 1) : r \in Within(c)[d]
  BY RealWithin
<1>2. PICK s \in At(p, 0), i \in Inputs : r = p.next[<<s, i>>]
  <2>1. r \in At(p, 0 + 1)
    BY <1>1
  <2> QED BY <1>p, <2>1, AtSteps
<1>3. s \in Reach(p) /\ s \in State /\ s \in Cube(c)
  BY <1>p, <1>2, AtSteps, ReachFacts, InitInCube
<1>4. Step(c, s, r, d)
  BY <1>2, <1>3, RealStep
<1>5. r \in State
  BY <1>p, <1>1, AtSteps
<1>6. r \in Image(c, S, d)
  BY <1>3, <1>4, <1>5 DEF Image
<1>7. r \in Cylinder(Image(c, S, d), c.tracked)
  BY <1>5, <1>6, CylinderFacts
<1>8. r \in BadWithin(c, d)
  BY <1>1, <1>5, CylinderFacts DEF BadWithin
<1> QED BY <1>7, <1>8


-----------------------------------------------------------------------------
(* Candidates: with the whole support tracked the projection is exact *)

LEMMA AgreeFacts ==
  ASSUME NEW T, NEW s, NEW t, NEW u
  PROVE  /\ Agree(s, s, T)
         /\ Agree(s, t, T) => Agree(t, s, T)
         /\ Agree(s, t, T) /\ Agree(t, u, T) => Agree(s, u, T)
BY DEF Agree

LEMMA NextAgrees ==
  ASSUME NEW p \in Problems, NEW T \in SUBSET Symbols, SupportOf(p, T) \subseteq T,
         NEW s \in State, NEW t \in State, Agree(s, t, T), NEW i \in Inputs
  PROVE  Agree(p.next[<<s, i>>], p.next[<<t, i>>], T)
<1>1. ASSUME NEW v \in T PROVE p.next[<<s, i>>][v] = p.next[<<t, i>>][v]
  <2>1. p.support[v] \subseteq T
    BY DEF SupportOf
  <2>2. Agree(s, t, p.support[v])
    BY <2>1 DEF Agree
  <2> QED BY <2>2, CraigConstants
<1> QED BY <1>1 DEF Agree

LEMMA DifferenceAgrees ==
  ASSUME NEW p \in Problems, NEW o \in Outputs, NEW T, p.sees[o] \subseteq T,
         NEW s \in State, NEW t \in State, Agree(s, t, T), NEW i \in Inputs,
         <<s, i>> \in p.differ[o]
  PROVE  <<t, i>> \in p.differ[o]
<1>1. Agree(s, t, p.sees[o])
  BY DEF Agree
<1> QED BY <1>1, CraigConstants

Exact(c) ==
  /\ c.problem \in Problems /\ ~ c.problem.focused
  /\ c.outputs \subseteq Outputs
  /\ c.tracked \subseteq Symbols
  /\ SupportOf(c.problem, c.tracked) \subseteq c.tracked
  /\ BadSupport(c.problem, c.outputs) \subseteq c.tracked

\* A reachable state that the tracked symbols cannot tell from a state with
\* bad n - 1 projected transitions away has bad that near.
LEMMA WithinReal ==
  ASSUME NEW c, Exact(c), NEW n \in Nat, NEW e \in Nat, NEW r \in At(c.problem, e),
         NEW u \in Within(c)[n], Agree(r, u, c.tracked)
  PROVE  \E o \in c.outputs : \E k \in e..e + n - 1 : Differs(c.problem, o, k)
<1> DEFINE p == c.problem
           T == c.tracked
           Near(x, m) == \E o \in c.outputs : \E k \in x..x + m - 1 : Differs(p, o, k)
           B(m) == \A x \in Nat : \A q \in At(p, x) : \A v \in Within(c)[m] :
                     Agree(q, v, T) => Near(x, m)
           S == {m \in Nat : B(m)}
<1>p. p \in Problems /\ T \in SUBSET Symbols /\ SupportOf(p, T) \subseteq T
  BY DEF Exact
<1>1. B(0)
  BY WithinUnfolds
<1>2. ASSUME NEW m \in Nat, B(m), NEW x \in Nat, NEW q \in At(p, x),
             NEW v \in Within(c)[m + 1], Agree(q, v, T)
      PROVE  Near(x, m + 1)
  <2>1. v \in OneNearer(c, Within(c)[m], m)
    BY WithinUnfolds
  <2>2. q \in State
    BY <1>p, AtSteps
  <2>3. CASE v \in Bad(c)
    <3>1. PICK o \in c.outputs, i \in Inputs : <<v, i>> \in p.differ[o]
      BY <2>3 DEF Bad, BadStates
    <3>2. v \in State
      BY <2>3 DEF Bad, BadStates
    <3>3. o \in Outputs /\ p.sees[o] \subseteq T
      BY DEF Exact, BadSupport
    <3>4. Agree(v, q, T)
      BY <1>2, AgreeFacts
    <3>5. <<q, i>> \in p.differ[o]
      BY <1>p, <2>2, <3>1, <3>2, <3>3, <3>4, DifferenceAgrees
    <3>6. Differs(p, o, x) /\ x \in x..x + (m + 1) - 1
      BY <3>5 DEF Differs
    <3> QED BY <3>6
  <2>4. CASE v \in State /\ \E t \in Cylinder(Within(c)[m], T) : Step(c, v, t, m)
    <3>1. PICK t \in Cylinder(Within(c)[m], T) : Step(c, v, t, m)
      BY <2>4
    <3>2. PICK w \in Within(c)[m] : Agree(t, w, T)
      BY <3>1 DEF Cylinder
    <3>3. PICK i \in Inputs : Agree(t, p.next[<<v, i>>], Requests(c, m))
      BY <3>1 DEF Step
    <3>4. Requests(c, m) = T
      BY DEF Requests, Exact
    <3>5. Agree(p.next[<<q, i>>], p.next[<<v, i>>], T)
      BY <1>2, <1>p, <2>2, <2>4, NextAgrees
    <3>6. Agree(p.next[<<q, i>>], w, T)
      <4>1. Agree(p.next[<<v, i>>], t, T)
        BY <3>3, <3>4, AgreeFacts
      <4>2. Agree(p.next[<<q, i>>], t, T)
        BY <3>5, <4>1, AgreeFacts
      <4> QED BY <3>2, <4>2, AgreeFacts
    <3>7. p.next[<<q, i>>] \in At(p, x + 1) /\ x + 1 \in Nat
      BY <1>p, AtSteps
    <3>8. Near(x + 1, m)
      <4> HIDE DEF Near
      <4> QED BY <1>2, <3>2, <3>6, <3>7
    <3>9. PICK o \in c.outputs, k \in x + 1..x + 1 + m - 1 : Differs(p, o, k)
      BY <3>8
    <3>10. k \in x..x + (m + 1) - 1
      OBVIOUS
    <3> QED BY <3>9, <3>10
  <2> QED BY <2>1, <2>3, <2>4 DEF OneNearer
<1>3. \A m \in Nat : B(m) => B(m + 1)
  <2> HIDE DEF Near
  <2> QED BY <1>2
<1> HIDE DEF B
<1>4. S = Nat
  <2>1. S \subseteq Nat /\ 0 \in S /\ \A m \in S : m + 1 \in S
    BY <1>1, <1>3
  <2> HIDE DEF S
  <2> QED BY <2>1, InductiveSet
<1>5. B(n)
  BY <1>4
<1> QED BY <1>5 DEF B

\* A model of the image query from the post-reset cube, with nothing left to
\* track, is a difference within the lookahead.
LEMMA ModelIsDifference ==
  ASSUME NEW c, Exact(c), NEW d \in Nat, d >= 1,
         Cylinder(Image(c, Cube(c), d), c.tracked) \cap BadWithin(c, d) # {}
  PROVE  \E o \in c.outputs : \E k \in 1..d : Differs(c.problem, o, k)
<1> DEFINE p == c.problem
           T == c.tracked
<1>p. p \in Problems /\ T \in SUBSET Symbols /\ SupportOf(p, T) \subseteq T
  BY DEF Exact
<1>1. PICK t : t \in Cylinder(Image(c, Cube(c), d), T) /\ t \in BadWithin(c, d)
  OBVIOUS
<1>2. PICK x \in Image(c, Cube(c), d) : Agree(t, x, T)
  BY <1>1 DEF Cylinder
<1>3. PICK w \in Within(c)[d] : Agree(t, w, T)
  BY <1>1 DEF BadWithin, Cylinder
<1>4. PICK s \in Cube(c) : Step(c, s, x, d)
  BY <1>2 DEF Image
<1>5. PICK i \in Inputs : Agree(x, p.next[<<s, i>>], T)
  BY <1>4 DEF Step, Requests, Exact
<1>6. PICK z \in InitStates(p) : s \in State /\ Agree(s, z, T)
  BY <1>4 DEF Cube, Cylinder
<1>7. z \in State /\ z \in At(p, 0)
  BY <1>p, <1>6, AtSteps, InitStatesTyped
<1>8. Agree(p.next[<<s, i>>], p.next[<<z, i>>], T)
  BY <1>p, <1>6, <1>7, NextAgrees
<1>9. Agree(p.next[<<z, i>>], w, T)
  <2>1. Agree(x, p.next[<<z, i>>], T)
    BY <1>5, <1>8, AgreeFacts
  <2>2. Agree(x, w, T)
    BY <1>2, <1>3, AgreeFacts
  <2> QED BY <2>1, <2>2, AgreeFacts
<1>10. p.next[<<z, i>>] \in At(p, 1)
  <2>1. p.next[<<z, i>>] \in At(p, 0 + 1)
    BY <1>p, <1>7, AtSteps
  <2> QED BY <2>1
<1>11. \E o \in c.outputs : \E k \in 1..1 + d - 1 : Differs(p, o, k)
  BY <1>3, <1>9, <1>10, WithinReal
<1> QED BY <1>11


-----------------------------------------------------------------------------
(* The union of the regions *)

\* Facts only remove transitions and states, so that what has been
\* established of Q survives the mining of facts.
MoreFacts(c, e) ==
  /\ e.problem = c.problem /\ e.outputs = c.outputs /\ e.tracked = c.tracked
  /\ e.helper = c.helper /\ c.aux \subseteq e.aux

LEMMA MoreFactsAdmitLess ==
  ASSUME NEW c, NEW e, MoreFacts(c, e), NEW T
  PROVE  /\ Facts(e.problem, e.aux, T) \subseteq Facts(c.problem, c.aux, T)
         /\ Admitted(e, T) \subseteq Admitted(c, T)
BY DEF MoreFacts, Facts, Admitted

LEMMA MoreFactsRequests ==
  ASSUME NEW c, NEW e, MoreFacts(c, e), NEW d
  PROVE  Requests(e, d) = Requests(c, d) /\ Leaves(e, d) = Leaves(c, d)
<1>1. FocusedRequests(e, d) = FocusedRequests(c, d)
  BY DEF MoreFacts, FocusedRequests
<1>2. Requests(e, d) = Requests(c, d)
  BY <1>1 DEF MoreFacts, Requests
<1> QED BY <1>2 DEF MoreFacts, Leaves

LEMMA MoreFactsFewerSteps ==
  ASSUME NEW c, NEW e, MoreFacts(c, e), NEW s, NEW t, NEW d, Step(e, s, t, d)
  PROVE  Step(c, s, t, d)
<1>1. c.problem = e.problem /\ c.tracked = e.tracked
  BY DEF MoreFacts
<1> QED BY <1>1, MoreFactsAdmitLess, MoreFactsRequests DEF Step

LEMMA MoreFactsKeepQ ==
  ASSUME NEW c, NEW e, MoreFacts(c, e), NEW rs, NEW d, NEW S
  PROVE  /\ Safe(c, S) => Safe(e, S)
         /\ QInv(c, rs, d) => QInv(e, rs, d)
         /\ Cube(e) = Cube(c)
<1>0. /\ e.problem = c.problem /\ e.outputs = c.outputs /\ e.tracked = c.tracked
      /\ Bad(e) = Bad(c)
  BY DEF MoreFacts, Bad
<1>1. ASSUME NEW X, Safe(c, X) PROVE Safe(e, X)
  BY <1>0, <1>1, MoreFactsAdmitLess DEF Safe
<1>2. ASSUME Settled(c, rs, d) PROVE Settled(e, rs, d)
  BY <1>2, MoreFactsFewerSteps DEF Settled
<1>3. Cube(e) = Cube(c)
  BY <1>0 DEF Cube
<1> QED BY <1>0, <1>1, <1>2, <1>3 DEF QInv

\* A closed union that holds the post-reset states holds every reachable one.
LEMMA ClosedHoldsReach ==
  ASSUME NEW c, ContextOK(c), NEW S, InitStates(c.problem) \subseteq S, NEW d,
         \A s \in S : \A t \in State : Step(c, s, t, d) => t \in S
  PROVE  Reach(c.problem) \subseteq S
<1> DEFINE p == c.problem
<1>p. p \in Problems
  BY DEF ContextOK
<1>1. ASSUME NEW s \in Reach(p) \cap S, NEW i \in Inputs
      PROVE  p.next[<<s, i>>] \in S
  <2>1. Step(c, s, p.next[<<s, i>>], d)
    BY RealStep
  <2>2. p.next[<<s, i>>] \in State
    BY <1>p, ReachFacts
  <2> QED BY <2>1, <2>2
<1> QED BY <1>p, <1>1, ReachInduction

\* A safe union that holds every reachable state proves the outputs.
LEMMA SafeProves ==
  ASSUME NEW c, ContextOK(c), c.outputs \subseteq Outputs,
         NEW S, Reach(c.problem) \subseteq S, Safe(c, S), NEW o \in c.outputs
  PROVE  NeverDiffers(c.problem, o)
<1> DEFINE p == c.problem
<1>p. p \in Problems /\ AuxOK(p, c.aux)
  BY DEF ContextOK
<1>1. Reach(p) \subseteq Facts(p, c.aux, c.tracked)
  BY <1>p, ReachSatisfiesFacts
<1>2. ASSUME NEW s \in Reach(p), NEW i \in Inputs, <<s, i>> \in p.differ[o]
      PROVE  FALSE
  <2>1. s \in State
    BY <1>p, ReachFacts
  <2>2. s \in Bad(c)
    BY <1>2, <2>1 DEF Bad, BadStates
  <2> QED BY <1>1, <2>2 DEF Safe
<1> QED BY <1>2 DEF NeverDiffers

LEMMA UnionOfAppend ==
  ASSUME NEW rs \in Seq(SUBSET State), NEW R \in SUBSET State
  PROVE  /\ Append(rs, R) \in Seq(SUBSET State)
         /\ Len(Append(rs, R)) = Len(rs) + 1
         /\ Append(rs, R)[Len(rs) + 1] = R
         /\ \A i \in 1..Len(rs) : Append(rs, R)[i] = rs[i]
         /\ Union(Append(rs, R)) = Union(rs) \cup R
         /\ Others(Append(rs, R), Len(rs) + 1) = Union(rs)
<1> DEFINE q == Append(rs, R)
           n == Len(rs)
<1>1. /\ q \in Seq(SUBSET State) /\ Len(q) = n + 1 /\ q[n + 1] = R
      /\ \A i \in 1..n : q[i] = rs[i]
  BY AppendProperties
<1>2. n \in Nat /\ DOMAIN rs = 1..n /\ DOMAIN q = 1..n + 1
  BY <1>1, LenProperties
<1> HIDE DEF q, n
<1>3. Union(q) = Union(rs) \cup R
  <2>1. \A i \in 1..n + 1 : i \in 1..n \/ i = n + 1
    BY <1>2
  <2>2. 1..n \subseteq 1..n + 1 /\ n + 1 \in 1..n + 1
    BY <1>2
  <2> QED BY <1>1, <1>2, <2>1, <2>2 DEF Union
<1>4. Others(q, n + 1) = Union(rs)
  <2>1. (1..n + 1) \ {n + 1} = 1..n
    BY <1>2
  <2> QED BY <1>1, <1>2, <2>1 DEF Union, Others
<1> QED BY <1>1, <1>3, <1>4 DEF q, n


\* An interpolant that holds the successors of Q joins Q.
LEMMA GrownQ ==
  ASSUME NEW c, NEW rs \in Seq(SUBSET State), NEW R \in SUBSET State, NEW d,
         QInv(c, rs, d), Safe(c, R),
         \A s \in Union(rs) : \A t \in State : Step(c, s, t, d) => t \in Union(rs) \cup R
  PROVE  QInv(c, Append(rs, R), d)
<1> DEFINE q == Append(rs, R)
           n == Len(rs)
<1>1. /\ q \in Seq(SUBSET State) /\ Len(q) = n + 1
      /\ \A i \in 1..n : q[i] = rs[i]
      /\ Union(q) = Union(rs) \cup R
  BY UnionOfAppend
<1>2. n \in Nat /\ DOMAIN rs = 1..n
  BY LenProperties
<1>3. q # <<>>
  BY <1>1, <1>2, EmptySeq
<1> HIDE DEF q, n
<1>4. Settled(c, q, d)
  <2>1. Len(q) - 1 = n
    BY <1>1, <1>2
  <2>2. \A i \in 1..n : q[i] \subseteq Union(rs)
    BY <1>1, <1>2 DEF Union
  <2> QED BY <1>1, <2>1, <2>2 DEF Settled
<1>5. Safe(c, Union(q))
  BY <1>1 DEF Safe, QInv
<1> QED BY <1>1, <1>3, <1>4, <1>5 DEF QInv, q

\* A region that the others contain, and that is not the newest, may go.
LEMMA ShrunkQ ==
  ASSUME NEW c, ContextOK(c), NEW rs \in Seq(SUBSET State), NEW d, QInv(c, rs, d),
         NEW k \in 1..Len(rs) - 1, rs[k] \cap Admitted(c, c.tracked) \subseteq Others(rs, k)
  PROVE  /\ RemoveAt(rs, k) \in Seq(SUBSET State)
         /\ Len(RemoveAt(rs, k)) = Len(rs) - 1
         /\ QInv(c, RemoveAt(rs, k), d)
<1> DEFINE r == RemoveAt(rs, k)
           n == Len(rs)
<1>0. n \in Nat /\ DOMAIN rs = 1..n /\ k \in 1..n
  BY LenProperties
<1>1. /\ r \in Seq(SUBSET State) /\ Len(r) = n - 1
      /\ \A i \in 1..n - 1 : r[i] = IF i < k THEN rs[i] ELSE rs[i + 1]
  BY <1>0, OneLess DEF RemoveAt
<1>2. DOMAIN r = 1..n - 1
  BY <1>1, LenProperties
<1> HIDE DEF r, n
<1>3. Union(r) = Others(rs, k)
  <2>1. ASSUME NEW s \in Union(r) PROVE s \in Others(rs, k)
    <3>1. PICK i \in 1..n - 1 : s \in r[i]
      BY <1>2, <2>1 DEF Union
    <3>2. CASE i < k
      <4>1. i \in (1..n) \ {k} /\ r[i] = rs[i]
        BY <1>0, <1>1, <3>2
      <4> QED BY <1>0, <3>1, <4>1 DEF Others
    <3>3. CASE ~ (i < k)
      <4>1. i + 1 \in (1..n) \ {k} /\ r[i] = rs[i + 1]
        BY <1>0, <1>1, <3>3
      <4> QED BY <1>0, <3>1, <4>1 DEF Others
    <3> QED BY <3>2, <3>3
  <2>2. ASSUME NEW s \in Others(rs, k) PROVE s \in Union(r)
    <3>1. PICK i \in (1..n) \ {k} : s \in rs[i]
      BY <1>0, <2>2 DEF Others
    <3>2. CASE i < k
      <4>1. i \in 1..n - 1 /\ r[i] = rs[i]
        BY <1>0, <1>1, <3>2
      <4> QED BY <1>2, <3>1, <4>1 DEF Union
    <3>3. CASE ~ (i < k)
      <4>1. i - 1 \in 1..n - 1 /\ ~ (i - 1 < k) /\ (i - 1) + 1 = i
        BY <1>0, <3>3
      <4>2. r[i - 1] = rs[i]
        BY <1>1, <4>1
      <4> QED BY <1>2, <3>1, <4>1, <4>2 DEF Union
    <3> QED BY <3>2, <3>3
  <2> QED BY <2>1, <2>2
<1>4. ASSUME NEW s \in Union(rs), s \in Admitted(c, c.tracked)
      PROVE  s \in Union(r)
  <2>1. PICK i \in 1..n : s \in rs[i]
    BY <1>0 DEF Union
  <2>2. CASE i = k
    BY <1>3, <1>4, <2>1, <2>2
  <2>3. CASE i # k
    BY <1>0, <1>3, <2>1, <2>3 DEF Others
  <2> QED BY <2>2, <2>3
<1>5. Union(r) \subseteq Union(rs)
  BY <1>0, <1>3 DEF Others, Union
<1>6. InitStates(c.problem) \subseteq Union(r)
  <2>1. InitStates(c.problem) \subseteq Admitted(c, c.tracked)
    BY ReachAdmitted, ReachFacts DEF ContextOK
  <2> QED BY <1>4, <2>1 DEF QInv
<1>7. Safe(c, Union(r))
  BY <1>5 DEF Safe, QInv
<1>8. ASSUME NEW i \in 1..Len(r) - 1, NEW s \in r[i], NEW t \in State, Step(c, s, t, d)
      PROVE  t \in Union(r)
  <2>1. PICK j \in 1..n - 1 : s \in rs[j]
    <3>1. i \in 1..n - 1 /\ i + 1 \in 1..n - 1
      BY <1>0, <1>1
    <3> QED BY <1>1, <1>8, <3>1
  <2>2. t \in Union(rs)
    BY <1>8, <2>1 DEF QInv, Settled, n
  <2>3. t \in Admitted(c, c.tracked)
    BY <1>8, StepAdmits
  <2> QED BY <1>4, <2>2, <2>3
<1>9. r # <<>>
  BY <1>0, <1>1, EmptySeq
<1>10. QInv(c, r, d)
  BY <1>6, <1>7, <1>8, <1>9 DEF QInv, Settled
<1> QED BY <1>1, <1>10 DEF r, n

\* compactReachableRegionsImpl keeps what Q is needed for, and never removes
\* the interpolant that has just been added.
LEMMA CompactedQ ==
  ASSUME ContextOK(Context), NEW rs \in Seq(SUBSET State), NEW d,
         QInv(Context, rs, d), Len(rs) >= 2,
         ~ Contained(rs[Len(rs)], Others(rs, Len(rs)))
  PROVE  /\ Compact(rs) \in Seq(SUBSET State)
         /\ Len(Compact(rs)) >= 2
         /\ QInv(Context, Compact(rs), d)
<1>1. CASE Len(rs) < CompactionStart \/ Redundant(rs) = {}
  BY <1>1 DEF Compact
<1>2. CASE ~ (Len(rs) < CompactionStart \/ Redundant(rs) = {})
  <2> DEFINE k == Min(Redundant(rs))
  <2>0. Len(rs) \in Nat /\ DOMAIN rs = 1..Len(rs)
    BY LenProperties
  <2>1. Redundant(rs) \subseteq Nat /\ Redundant(rs) # {}
    BY <1>2, <2>0 DEF Redundant
  <2>2. k \in Redundant(rs)
    <3>1. \E x \in Redundant(rs) : \A y \in Redundant(rs) : x <= y
      BY <2>1, LeastElement
    <3> QED BY <3>1 DEF Min
  <2> HIDE DEF k
  <2>3. k \in DOMAIN rs /\ Contained(rs[k], Others(rs, k))
    BY <2>2 DEF Redundant
  <2>4. k # Len(rs)
    BY <2>3
  <2>5. k \in 1..Len(rs) - 1
    BY <2>0, <2>3, <2>4
  <2>6. rs[k] \cap Admitted(Context, Context.tracked) \subseteq Others(rs, k)
    BY <2>3 DEF Contained, Context
  <2>7. Compact(rs) = RemoveAt(rs, k)
    BY <1>2 DEF Compact, k
  <2>8. /\ RemoveAt(rs, k) \in Seq(SUBSET State)
        /\ Len(RemoveAt(rs, k)) = Len(rs) - 1
        /\ QInv(Context, RemoveAt(rs, k), d)
    BY <2>5, <2>6, ShrunkQ
  <2>9. Len(rs) >= 3
    BY <1>2, <2>0, CraigConstants
  <2>10. Len(RemoveAt(rs, k)) >= 2
    BY <2>0, <2>8, <2>9
  <2> QED BY <2>7, <2>8, <2>10
<1> QED BY <1>1, <1>2


-----------------------------------------------------------------------------
(* The state of a run *)

Ranges == [outputs : (SUBSET Outputs) \ {{}}, last : BOOLEAN]
Statuses == {"Equivalent", "Inconclusive", "Different"}

\* The range a run works on and what is left after it.
LEMMA CurrentFacts ==
  ASSUME TypeOK, phase # "done"
  PROVE  /\ Current \in (SUBSET Outputs) \ {{}}
         /\ Head(todo).last \in BOOLEAN
         /\ Tail(todo) \in Seq(Ranges)
         /\ OutputsIn(todo) = Current \cup OutputsIn(Tail(todo))
<1>1. todo \in Seq(Ranges) /\ todo # <<>>
  BY DEF TypeOK, Ranges
<1>2. Head(todo) \in Ranges /\ Tail(todo) \in Seq(Ranges)
  BY <1>1, HeadTail
<1>3. OutputsIn(todo) = Head(todo).outputs \cup OutputsIn(Tail(todo))
  BY <1>1, PendingHead
<1> QED BY <1>2, <1>3 DEF Current, Ranges

LEMMA ContextFields ==
  /\ Context.problem = problem /\ Context.outputs = Current
  /\ Context.tracked = tracked /\ Context.aux = aux /\ Context.helper = Helper
BY DEF Context

\* The queries of the current attempt lose no reachable state.
LEMMA ContextIsOK ==
  ASSUME TypeOK, SoundInv
  PROVE  ContextOK(Context)
<1>1. problem \in Problems
  BY DEF TypeOK
<1>2. Reach(problem) \subseteq Helper
  <2>1. CASE helper.regions = {}
    BY <1>1, <2>1, ReachFacts DEF Helper
  <2>2. CASE helper.regions # {}
    <3>1. helper # NoHelper
      BY <2>2 DEF NoHelper
    <3> QED BY <2>2, <3>1 DEF Helper, SoundInv, HelperOK
  <2> QED BY <2>1, <2>2
<1> QED BY <1>1, <1>2, ContextFields DEF ContextOK, SoundInv

LEMMA QIsUnion == Q = Union(regions)
BY DEF Q, Union

\* A state of Q that the image query leaves out has its successors in Q.
LEMMA SkippedIsSettled ==
  ASSUME LoopInv, phase = "loop", regions \in Seq(SUBSET State),
         NEW s \in Q, s \notin Source, NEW t \in State, Step(Context, s, t, look)
  PROVE  t \in Q
<1>0. Len(regions) \in Nat /\ DOMAIN regions = 1..Len(regions)
  BY LenProperties
<1>1. concrete
  BY DEF Source
<1>2. Source = Cube(Context) \cup UNION {regions[k] : k \in 2..Len(regions)}
  BY <1>1 DEF Source
<1>3. PICK k \in 1..Len(regions) : s \in regions[k]
  BY <1>0 DEF Q
<1>4. k = 1
  <2>1. k \notin 2..Len(regions)
    BY <1>2, <1>3
  <2> QED BY <1>0, <2>1
<1>5. Len(regions) # 1
  BY <1>1, <1>2, <1>3, <1>4 DEF LoopInv
<1>6. k \in 1..Len(regions) - 1
  BY <1>0, <1>3, <1>4, <1>5
<1>7. t \in Union(regions)
  BY <1>3, <1>6 DEF LoopInv, QInv, Settled
<1> QED BY <1>7, QIsUnion

LEMMA ImageFacts ==
  ASSUME NEW s \in Source, NEW t \in State, Step(Context, s, t, look)
  PROVE  t \in NextImage
<1>1. t \in Image(Context, Source, look)
  BY DEF Image
<1> QED BY <1>1, CylinderFacts DEF NextImage

\* An UNSAT query rules out differences up to the lookahead.
LEMMA UnsatMeansNoDifference ==
  ASSUME TypeOK, SoundInv, LoopInv, Unsat, concrete
  PROVE  \A o \in Current : \A k \in 0..look : ~ Differs(problem, o, k)
<1>1. /\ phase = "loop" /\ look \in Nat /\ look >= 1 /\ phase # "done"
      /\ NextImage \cap BadWithin(Context, look) = {}
  BY CraigConstants DEF Unsat, QuerySat, LoopInv, TypeOK
<1>2. ContextOK(Context)
  BY ContextIsOK
<1>3. Context.outputs = Current /\ Context.problem = problem /\ Context.tracked = tracked
  BY ContextFields
<1>4. Current \subseteq Outputs
  BY <1>1, CurrentFacts
<1>5. Cube(Context) \subseteq Source
  BY DEF Source
<1>6. Cylinder(Image(Context, Source, look), tracked) \cap BadWithin(Context, look) = {}
  BY <1>1 DEF NextImage
<1>7. ASSUME NEW o \in Current, NEW k \in 1..look PROVE ~ Differs(problem, o, k)
  <2> DEFINE c == Context
  <2>1. /\ ContextOK(c) /\ c.outputs \subseteq Outputs /\ Cube(c) \subseteq Source
        /\ Cylinder(Image(c, Source, look), c.tracked) \cap BadWithin(c, look) = {}
        /\ o \in c.outputs /\ c.problem = problem
    BY <1>2, <1>3, <1>4, <1>5, <1>6
  <2> HIDE DEF c
  <2>2. ~ Differs(c.problem, o, k)
    BY <1>1, <2>1, ImageSeesDifferences
  <2> QED BY <2>1, <2>2
<1>8. ASSUME NEW o \in Current PROVE ~ Differs(problem, o, 0)
  BY <1>1 DEF LoopInv
<1> QED BY <1>1, <1>7, <1>8

\* The fixed point test of runWithProjection: when an interpolant lies inside
\* Q, Q holds every reachable state.
LEMMA FixpointHoldsReach ==
  ASSUME TypeOK, SoundInv, LoopInv, phase = "loop",
         NEW R \in SUBSET State, NextImage \subseteq R, Contained(R, Q)
  PROVE  Reach(problem) \subseteq Q
<1>1. ContextOK(Context) /\ Context.problem = problem /\ Context.tracked = tracked
  BY ContextIsOK, ContextFields
<1>2. ASSUME NEW s \in Q, NEW t \in State, Step(Context, s, t, look)
      PROVE  t \in Q
  <2>1. CASE s \in Source
    <3>1. t \in R
      BY <1>2, <2>1, ImageFacts
    <3>2. t \in Admitted(Context, tracked)
      BY <1>1, <1>2, StepAdmits
    <3> QED BY <3>1, <3>2 DEF Contained
  <2>2. CASE s \notin Source
    BY <1>2, <2>2, SkippedIsSettled DEF TypeOK
  <2> QED BY <2>1, <2>2
<1>3. InitStates(Context.problem) \subseteq Q
  BY QIsUnion DEF LoopInv, QInv
<1>4. Reach(Context.problem) \subseteq Q
  <2> DEFINE c == Context
  <2>1. ContextOK(c) /\ InitStates(c.problem) \subseteq Q
        /\ \A s \in Q : \A t \in State : Step(c, s, t, look) => t \in Q
    BY <1>1, <1>2, <1>3
  <2> HIDE DEF c
  <2>2. Reach(c.problem) \subseteq Q
    BY <2>1, ClosedHoldsReach
  <2> QED BY <2>2 DEF c
<1> QED BY <1>1, <1>4


LEMMA WorseIs ==
  ASSUME NEW r \in Statuses, NEW q \in Statuses
  PROVE  /\ Worse(r, q) \in {r, q}
         /\ Worse(r, q) = "Equivalent" => r = "Equivalent" /\ q = "Equivalent"
<1> DEFINE W(x) == \A y \in {r, q} : \/ x = "Different"
                                     \/ x = "Inconclusive" /\ y # "Different"
                                     \/ y = "Equivalent"
<1>1. \E x \in {r, q} : W(x)
  <2>1. CASE r = "Different"
    BY <2>1
  <2>2. CASE r # "Different" /\ q = "Different"
    BY <2>2
  <2>3. CASE r = "Inconclusive" /\ q # "Different"
    BY <2>3
  <2>4. CASE r = "Equivalent" /\ q = "Inconclusive"
    BY <2>4
  <2>5. CASE r = "Equivalent" /\ q = "Equivalent"
    BY <2>5
  <2> QED BY <2>1, <2>2, <2>3, <2>4, <2>5 DEF Statuses
<1>2. Worse(r, q) = CHOOSE x \in {r, q} : W(x)
  BY DEF Worse
<1>3. Worse(r, q) \in {r, q} /\ W(Worse(r, q))
  <2> HIDE DEF W
  <2> QED BY <1>1, <1>2
<1> QED BY <1>3

\* A probe or a replay that finds a difference has one.
LEMMA DiffersAtIs ==
  ASSUME NEW o, NEW d
  PROVE  DiffersAt(o, d) <=> Differs(problem, o, d)
BY DEF DiffersAt, Differs, ReachIn, At

LEMMA ProbeIsReal ==
  ASSUME NEW O \in SUBSET Outputs, NEW d \in 0..MaxLookahead, Probe(O, d)
  PROVE  \E o \in Outputs : \E k \in 0..MaxLookahead : Differs(problem, o, k)
<1>1. PICK o \in O \ problem.wide : \E k \in 0..d : DiffersAt(o, k)
  BY DEF Probe
<1>2. PICK k \in 0..d : DiffersAt(o, k)
  BY <1>1
<1>3. k \in 0..MaxLookahead
  BY CraigConstants
<1> QED BY <1>1, <1>2, <1>3, DiffersAtIs

LEMMA NoHelperTyped == NoHelper \in Helpers
BY DEF NoHelper, Helpers

\* A range leaves the queue with a result that is right.
LEMMA RangeDoneInv ==
  ASSUME IndInv, phase \in {"range", "project", "loop", "candidate"},
         NEW result \in Statuses, RangeDone(result), problem' = problem,
         covered \subseteq covered', covered' \subseteq Outputs, CoveredOK(problem, covered'),
         reusable' \in Helpers, HelperOK(problem, reusable'),
         singleton' \in Helpers, HelperOK(problem, singleton'),
         result = "Equivalent" => Current \subseteq covered',
         result = "Different" =>
           \E o \in Outputs : \E d \in 0..MaxLookahead : Differs(problem, o, d)
  PROVE  IndInv'
<1>1. /\ phase # "done" /\ phase # "probe" /\ TypeOK /\ SoundInv /\ PhaseInv /\ OutcomeInv
      /\ outcome \in Statuses
  BY DEF IndInv, TypeOK, Statuses
<1>2. /\ outcome' = Worse(outcome, result) /\ todo' = Tail(todo)
      /\ phase' = IF todo' = <<>> \/ (Head(todo).last /\ outcome' # "Equivalent")
                  THEN "done" ELSE "range"
      /\ helper' = NoHelper /\ seeded' = FALSE /\ tracked' = {} /\ aux' = {}
      /\ concrete' = FALSE /\ first' = {} /\ regions' = <<>>
      /\ look' = 1 /\ pass' = 1 /\ retries' = 0
  BY DEF RangeDone, AttemptOver, QueryOver
<1>3. phase' \in {"done", "range"} /\ (phase' = "done" \/ todo' # <<>>)
  BY <1>2
<1>4. /\ Tail(todo) \in Seq(Ranges) /\ OutputsIn(todo) = Current \cup OutputsIn(Tail(todo))
  BY <1>1, CurrentFacts
<1>5. outcome' \in {outcome, result} /\ outcome' \in Statuses
      /\ (outcome' = "Equivalent" => outcome = "Equivalent" /\ result = "Equivalent")
  BY <1>1, <1>2, WorseIs
<1>6. TypeOK'
  <2>1. look' \in 0..MaxLookahead + 1 /\ pass' \in 1..MaxPass /\ retries' \in 0..MaxRetries
    BY <1>2, CraigConstants
  <2>2. regions' \in Seq(SUBSET State)
    BY <1>2
  <2>3. helper' \in Helpers
    BY <1>2, NoHelperTyped
  <2>4. problem' \in Problems
    BY <1>1 DEF TypeOK
  <2> QED BY <1>2, <1>3, <1>4, <1>5, <2>1, <2>2, <2>3, <2>4 DEF TypeOK, Ranges, Statuses
<1>7. SoundInv'
  BY <1>1, <1>2 DEF SoundInv, HelperOK, AuxOK
<1>8. PhaseInv'
  BY <1>1, <1>3 DEF PhaseInv
<1>9. LoopInv' /\ CandidateInv'
  BY <1>3 DEF LoopInv, CandidateInv
<1>10. OutcomeInv'
  <2>1. ASSUME outcome' = "Different"
        PROVE  \E o \in Outputs : \E d \in 0..MaxLookahead : Differs(problem, o, d)
    BY <1>1, <1>5, <2>1 DEF OutcomeInv
  <2>2. ASSUME outcome' = "Equivalent"
        PROVE  covered' \cup OutputsIn(todo') = Outputs
    <3>1. covered \cup (Current \cup OutputsIn(Tail(todo))) = Outputs /\ Current \subseteq covered'
      BY <1>1, <1>4, <1>5, <2>2 DEF OutcomeInv
    <3>2. todo' = Tail(todo)
      BY <1>2
    <3> QED BY <3>1, <3>2
  <2>3. ASSUME phase' = "done", outcome' = "Equivalent" PROVE todo' = <<>>
    BY <1>2, <2>3
  <2> QED BY <2>1, <2>2, <2>3 DEF OutcomeInv
<1> QED BY <1>6, <1>7, <1>8, <1>9, <1>10 DEF IndInv


LEMMA CurrentFinite ==
  ASSUME NEW S \in SUBSET Outputs
  PROVE  IsFiniteSet(S)
<1>1. IsFiniteSet(1..NumOutputs)
  BY CraigConstants, FS_Interval
<1> QED BY <1>1, FS_Subset DEF Outputs

\* Both halves of a range of several outputs hold outputs, and together they
\* hold all of them.
LEMMA HalvesSplit ==
  ASSUME TypeOK, phase # "done", Cardinality(Current) > 1
  PROVE  /\ Halves[1] \in Ranges /\ Halves[2] \in Ranges
         /\ Halves = <<Halves[1], Halves[2]>>
         /\ Halves[1].outputs \cup Halves[2].outputs = Current
<1>1. /\ Current \in SUBSET Outputs /\ Current # {} /\ IsFiniteSet(Current)
      /\ Head(todo).last \in BOOLEAN
  BY CurrentFacts, CurrentFinite
<1>2. Current \subseteq Nat /\ Cardinality(Current) \in Nat
  BY <1>1, FS_CardinalityType, CraigConstants DEF Outputs
<1> DEFINE least == Min(Current)
           half == Cardinality(Current) \div 2
           middle == least + half
           low == {o \in Current : o < middle}
           high == {o \in Current : o >= middle}
<1>3. least \in Current /\ \A o \in Current : least <= o
  <2>1. \E x \in Current : \A y \in Current : x <= y
    BY <1>1, <1>2, LeastElement
  <2> QED BY <2>1 DEF Min
<1>4. half \in Nat /\ half >= 1 /\ half < Cardinality(Current)
  BY <1>2
<1>5. Halves = <<[outputs |-> low, last |-> FALSE],
                 [outputs |-> high, last |-> Head(todo).last]>>
  BY DEF Halves
<1> HIDE DEF least, half
<1>6. least \in Nat /\ middle \in Nat
  BY <1>2, <1>3, <1>4
<1>7. least \in low
  BY <1>3, <1>4, <1>6
<1>8. high # {}
  <2> SUFFICES ASSUME high = {} PROVE FALSE
    OBVIOUS
  <2>1. Current \subseteq least..(middle - 1)
    BY <1>2, <1>3, <1>6
  <2>2. IsFiniteSet(least..(middle - 1)) /\ Cardinality(least..(middle - 1)) = half
    <3> DEFINE top == middle - 1
    <3>1. least \in Int /\ top \in Int /\ ~ (least > top) /\ top - least + 1 = half
      BY <1>4, <1>6
    <3> HIDE DEF top
    <3>2. IsFiniteSet(least..top) /\ Cardinality(least..top) = half
      BY <3>1, FS_Interval
    <3> QED BY <3>2 DEF top
  <2>3. Cardinality(Current) <= half
    <3> HIDE DEF middle
    <3> QED BY <2>1, <2>2, FS_Subset
  <2> QED BY <1>2, <1>4, <2>3
<1>9. low \cup high = Current
  <2>1. \A o \in Current : o < middle \/ o >= middle
    <3> HIDE DEF middle
    <3> QED BY <1>2, <1>6
  <2> QED BY <2>1
<1>10. low \in (SUBSET Outputs) \ {{}} /\ high \in (SUBSET Outputs) \ {{}}
  BY <1>1, <1>7, <1>8
<1> HIDE DEF low, high
<1> QED BY <1>1, <1>5, <1>9, <1>10 DEF Ranges

LEMMA GiveUpRangeInv ==
  ASSUME IndInv, phase \in {"project", "loop"}, NEW d \in 0..MaxLookahead, GiveUpRange(d)
  PROVE  IndInv'
<1>1. /\ TypeOK /\ SoundInv /\ PhaseInv /\ OutcomeInv /\ phase # "done" /\ phase # "probe"
      /\ problem' = problem /\ covered' = covered
      /\ reusable' = reusable /\ singleton' = singleton
  BY DEF IndInv, GiveUpRange
<1>2. CASE Cardinality(Current) > 1
  <2>1. /\ todo' = Halves \o Tail(todo) /\ phase' = "range" /\ outcome' = outcome
        /\ helper' = NoHelper /\ seeded' = FALSE /\ tracked' = {} /\ aux' = {}
        /\ concrete' = FALSE /\ first' = {} /\ regions' = <<>>
        /\ look' = 1 /\ pass' = 1 /\ retries' = 0
    BY <1>2 DEF GiveUpRange, AttemptOver, QueryOver
  <2> DEFINE a == Halves[1]
             b == Halves[2]
  <2>2. a \in Ranges /\ b \in Ranges /\ Halves = <<a, b>>
        /\ a.outputs \cup b.outputs = Current
    BY <1>1, <1>2, HalvesSplit
  <2>3. Tail(todo) \in Seq(Ranges) /\ OutputsIn(todo) = Current \cup OutputsIn(Tail(todo))
    BY <1>1, CurrentFacts
  <2> HIDE DEF a, b
  <2>4. /\ todo' \in Seq(Ranges) /\ todo' # <<>>
    BY <2>1, <2>2, <2>3, TwoBefore
  <2>5. OutputsIn(todo') = a.outputs \cup b.outputs \cup OutputsIn(Tail(todo))
    <3> DEFINE rest == Tail(todo)
    <3>1. OutputsIn(<<a, b>> \o rest) = a.outputs \cup b.outputs \cup OutputsIn(rest)
      <4>1. a \in Ranges /\ b \in Ranges /\ rest \in Seq(Ranges)
        BY <2>2, <2>3
      <4> HIDE DEF rest
      <4> QED BY <4>1, PendingTwo
    <3>2. todo' = <<a, b>> \o Tail(todo)
      BY <2>1, <2>2
    <3> QED BY <3>1, <3>2
  <2>6. OutputsIn(todo') = OutputsIn(todo)
    BY <2>2, <2>3, <2>5
  <2>7. TypeOK'
    <3>1. look' \in 0..MaxLookahead + 1 /\ pass' \in 1..MaxPass /\ retries' \in 0..MaxRetries
      BY <2>1, CraigConstants
    <3>2. regions' \in Seq(SUBSET State)
      BY <2>1
    <3>3. helper' \in Helpers
      BY <2>1, NoHelperTyped
    <3> QED BY <1>1, <2>1, <2>4, <3>1, <3>2, <3>3 DEF TypeOK, Ranges
  <2>8. SoundInv'
    BY <1>1, <2>1 DEF SoundInv, HelperOK, AuxOK
  <2>9. PhaseInv'
    BY <1>1, <2>1 DEF PhaseInv
  <2>10. LoopInv' /\ CandidateInv'
    BY <2>1 DEF LoopInv, CandidateInv
  <2>11. OutcomeInv'
    BY <1>1, <2>1, <2>6 DEF OutcomeInv
  <2> QED BY <2>7, <2>8, <2>9, <2>10, <2>11 DEF IndInv
<1>3. CASE ~ (Cardinality(Current) > 1)
  <2> DEFINE result == IF Probe(Current, d) THEN "Different" ELSE "Inconclusive"
  <2>1. RangeDone(result)
    BY <1>3 DEF GiveUpRange
  <2>2. result \in Statuses /\ result # "Equivalent"
    BY DEF Statuses
  <2>3. ASSUME result = "Different"
        PROVE  \E o \in Outputs : \E k \in 0..MaxLookahead : Differs(problem, o, k)
    BY <1>1, <2>3, CurrentFacts, ProbeIsReal
  <2>4. /\ covered \subseteq covered' /\ covered' \subseteq Outputs
        /\ CoveredOK(problem, covered')
        /\ reusable' \in Helpers /\ HelperOK(problem, reusable')
        /\ singleton' \in Helpers /\ HelperOK(problem, singleton')
    BY <1>1 DEF TypeOK, SoundInv
  <2> HIDE DEF result
  <2> QED BY <1>1, <2>1, <2>2, <2>3, <2>4, RangeDoneInv
<1> QED BY <1>2, <1>3


\* An output without state support that the probe of frame 0 found equal never
\* differs.
LEMMA NoSupportNoDifference ==
  ASSUME NEW p \in Problems, NEW o \in Outputs, p.sees[o] = {}, ~ Differs(p, o, 0)
  PROVE  NeverDiffers(p, o)
<1> SUFFICES ASSUME NEW s \in Reach(p), NEW i \in Inputs, <<s, i>> \in p.differ[o]
             PROVE  FALSE
  BY DEF NeverDiffers
<1>1. s \in State
  BY ReachFacts
<1>2. CASE InitStates(p) = {}
  <2> DEFINE none == {}
  <2>1. InitStates(p) \subseteq none
    BY <1>2
  <2>2. \A x \in Reach(p) \cap none : \A j \in Inputs : p.next[<<x, j>>] \in none
    OBVIOUS
  <2>3. Reach(p) \subseteq none
    <3> HIDE DEF none
    <3> QED BY <2>1, <2>2, ReachInduction
  <2> QED BY <2>3
<1>3. CASE InitStates(p) # {}
  <2>1. PICK t \in InitStates(p) : TRUE
    BY <1>3
  <2>2. t \in State /\ t \in At(p, 0)
    BY AtSteps, InitStatesTyped
  <2>3. Agree(s, t, {})
    BY DEF Agree
  <2>4. <<t, i>> \in p.differ[o]
    BY <1>1, <2>2, <2>3, DifferenceAgrees
  <2> QED BY <2>2, <2>4 DEF Differs
<1> QED BY <1>2, <1>3

LEMMA AttemptInv ==
  ASSUME IndInv, phase \in {"range", "project", "loop"},
         NEW h \in Helpers, HelperOK(problem, h), NEW seeds, Attempt(h, seeds)
  PROVE  IndInv'
<1>1. /\ TypeOK /\ SoundInv /\ PhaseInv /\ OutcomeInv /\ phase # "done" /\ phase # "probe"
      /\ problem \in Problems
  BY DEF IndInv, TypeOK
<1>2. Current \in (SUBSET Outputs) \ {{}}
  BY <1>1, CurrentFacts
<1>3. BadSupport(problem, Current) \cap Symbols \subseteq InitialTracked(h, seeds)
      /\ InitialTracked(h, seeds) \subseteq Symbols
  BY CloseFacts DEF InitialTracked
<1>4. BadSupport(problem, Current) \subseteq Symbols
  BY <1>1, <1>2, ProblemFields DEF BadSupport
<1>5. CASE InitialTracked(h, seeds) = {}
  <2>1. /\ covered' = covered \cup Current /\ RangeDone("Equivalent")
        /\ problem' = problem /\ reusable' = reusable /\ singleton' = singleton
    BY <1>5 DEF Attempt, RangeProved
  <2>2. ASSUME NEW o \in Current
        PROVE  (problem.sees[o] = {} /\ o \in problem.wide) \/ NeverDiffers(problem, o)
    <3>1. problem.sees[o] = {} /\ o \in Outputs
      BY <1>2, <1>3, <1>4, <1>5 DEF BadSupport
    <3>2. o \notin problem.wide => ~ Differs(problem, o, 0)
      BY <1>1, <3>1 DEF PhaseInv
    <3> QED BY <1>1, <3>1, <3>2, NoSupportNoDifference
  <2>3. CoveredOK(problem, covered')
    BY <1>1, <2>1, <2>2 DEF SoundInv, CoveredOK
  <2>4. /\ covered \subseteq covered' /\ covered' \subseteq Outputs
        /\ Current \subseteq covered'
        /\ reusable' \in Helpers /\ HelperOK(problem, reusable')
        /\ singleton' \in Helpers /\ HelperOK(problem, singleton')
    BY <1>1, <1>2, <2>1 DEF TypeOK, SoundInv
  <2> QED BY <2>1, <2>3, <2>4, RangeDoneInv DEF Statuses
<1>6. CASE InitialTracked(h, seeds) # {}
  <2>1. /\ helper' = h /\ seeded' = (seeds # {}) /\ tracked' = InitialTracked(h, seeds)
        /\ \E mined \in {{}, Mine(problem, Symbols, {})} : aux' = mined \cup h.aux
        /\ phase' = "project"
        /\ concrete' = FALSE /\ first' = {} /\ regions' = <<>>
        /\ look' = 1 /\ pass' = 1 /\ retries' = 0
        /\ problem' = problem /\ covered' = covered /\ reusable' = reusable
        /\ singleton' = singleton /\ todo' = todo /\ outcome' = outcome
    BY <1>6 DEF Attempt, QueryOver
  <2>2. PICK mined \in {{}, Mine(problem, Symbols, {})} : aux' = mined \cup h.aux
    BY <2>1
  <2>3. AuxOK(problem, mined) /\ mined \subseteq Symbols \X (BOOLEAN \cup Symbols)
    <3>1. AuxOK(problem, {})
      BY DEF AuxOK
    <3>2. /\ AuxOK(problem, Mine(problem, Symbols, {}))
          /\ Mine(problem, Symbols, {}) \subseteq Symbols \X (BOOLEAN \cup Symbols)
      BY <1>1, <3>1, MineSound
    <3>3. CASE mined = {}
      BY <3>1, <3>3
    <3>4. CASE mined = Mine(problem, Symbols, {})
      BY <3>2, <3>4
    <3> QED BY <3>3, <3>4
  <2>4. AuxOK(problem, h.aux) /\ h.aux \subseteq Symbols \X (BOOLEAN \cup Symbols)
    <3>1. CASE h = NoHelper
      BY <3>1 DEF NoHelper, AuxOK
    <3>2. CASE h # NoHelper
      BY <3>2 DEF HelperOK, Helpers
    <3> QED BY <3>1, <3>2
  <2>5. AuxOK(problem, aux') /\ aux' \subseteq Symbols \X (BOOLEAN \cup Symbols)
    BY <2>2, <2>3, <2>4, AuxOKUnion
  <2>6. TypeOK'
    <3>1. look' \in 0..MaxLookahead + 1 /\ pass' \in 1..MaxPass /\ retries' \in 0..MaxRetries
      BY <2>1, CraigConstants
    <3>2. regions' \in Seq(SUBSET State)
      BY <2>1
    <3>3. todo' # <<>>
      BY <1>1, <2>1 DEF TypeOK
    <3> QED BY <1>1, <1>3, <2>1, <2>5, <3>1, <3>2, <3>3 DEF TypeOK
  <2>7. SoundInv'
    BY <1>1, <2>1, <2>5 DEF SoundInv
  <2>8. PhaseInv'
    <3>1. Current' = Current
      BY <2>1 DEF Current
    <3> QED BY <1>1, <1>3, <1>4, <2>1, <3>1 DEF PhaseInv
  <2>9. LoopInv' /\ CandidateInv'
    BY <2>1 DEF LoopInv, CandidateInv
  <2>10. OutcomeInv'
    BY <1>1, <2>1 DEF OutcomeInv
  <2> QED BY <2>6, <2>7, <2>8, <2>9, <2>10 DEF IndInv
<1> QED BY <1>5, <1>6

LEMMA BudgetExceededInv ==
  ASSUME IndInv, phase \in {"project", "loop"}, NEW d \in 0..MaxLookahead, BudgetExceeded(d)
  PROVE  IndInv'
<1>1. CASE GiveUpRange(d)
  BY <1>1, GiveUpRangeInv
<1>2. CASE Attempt(helper, {})
  <2>1. helper \in Helpers /\ HelperOK(problem, helper)
    BY DEF IndInv, TypeOK, SoundInv
  <2> QED BY <1>2, <2>1, AttemptInv
<1> QED BY <1>1, <1>2 DEF BudgetExceeded

\* A larger projection starts again with the facts, but without Q.
LEMMA GrowInv ==
  ASSUME IndInv, phase \in {"project", "loop"}, NEW U \in SUBSET Symbols, Grow(U)
  PROVE  IndInv'
<1>1. /\ TypeOK /\ SoundInv /\ PhaseInv /\ OutcomeInv /\ phase # "done" /\ phase # "probe"
  BY DEF IndInv
<1>2. /\ tracked' = tracked \cup U /\ phase' = "project"
      /\ concrete' = FALSE /\ first' = {} /\ regions' = <<>>
      /\ look' = 1 /\ pass' = 1 /\ retries' = 0
      /\ problem' = problem /\ todo' = todo /\ covered' = covered /\ reusable' = reusable
      /\ singleton' = singleton /\ helper' = helper /\ seeded' = seeded
      /\ outcome' = outcome /\ aux' = aux
  BY DEF Grow, QueryOver, rangeVars
<1>3. TypeOK'
  <2>1. look' \in 0..MaxLookahead + 1 /\ pass' \in 1..MaxPass /\ retries' \in 0..MaxRetries
    BY <1>2, CraigConstants
  <2>2. regions' \in Seq(SUBSET State)
    BY <1>2
  <2> QED BY <1>1, <1>2, <2>1, <2>2 DEF TypeOK
<1>4. SoundInv'
  BY <1>1, <1>2 DEF SoundInv
<1>5. PhaseInv'
  <2>1. Current' = Current
    BY <1>2 DEF Current
  <2> QED BY <1>1, <1>2, <2>1 DEF PhaseInv
<1>6. LoopInv' /\ CandidateInv'
  BY <1>2 DEF LoopInv, CandidateInv
<1>7. OutcomeInv'
  BY <1>1, <1>2 DEF OutcomeInv
<1> QED BY <1>3, <1>4, <1>5, <1>6, <1>7 DEF IndInv


LEMMA SameContext ==
  ASSUME problem' = problem, todo' = todo, tracked' = tracked, aux' = aux, helper' = helper
  PROVE  Context' = Context /\ Current' = Current
BY DEF Context, Current, Helper

\* One region alone is a Q as long as it misses bad.
LEMMA SingleQ ==
  ASSUME NEW c, NEW R \in SUBSET State, InitStates(c.problem) \subseteq R, Safe(c, R), NEW d
  PROVE  <<R>> \in Seq(SUBSET State) /\ Len(<<R>>) = 1 /\ <<R>>[1] = R /\ QInv(c, <<R>>, d)
<1>1. <<R>> \in Seq(SUBSET State) /\ Len(<<R>>) = 1 /\ <<R>>[1] = R /\ DOMAIN <<R>> = {1}
  OBVIOUS
<1> DEFINE q == <<R>>
<1>2. q # <<>>
  OBVIOUS
<1> HIDE DEF q
<1>3. Union(q) = R
  BY <1>1 DEF Union, q
<1>4. Settled(c, q, d)
  <2>1. Len(q) - 1 = 0 /\ 1..0 = {}
    BY <1>1 DEF q
  <2> QED BY <2>1 DEF Settled
<1>5. QInv(c, q, d)
  BY <1>2, <1>3, <1>4 DEF QInv
<1> QED BY <1>1, <1>5 DEF q

\* The next lookahead starts from the first region, which misses bad.
LEMMA RestartInv ==
  ASSUME IndInv, phase = "loop", look <= MaxLookahead, Restart,
         concrete => \A o \in Current : ~ Differs(problem, o, look)
  PROVE  IndInv'
<1>1. /\ TypeOK /\ SoundInv /\ PhaseInv /\ LoopInv /\ OutcomeInv
  BY DEF IndInv
<1>2. /\ look' = look + 1 /\ pass' = 1 /\ retries' = 0 /\ regions' = <<first>>
      /\ phase' = phase /\ tracked' = tracked /\ aux' = aux
      /\ concrete' = concrete /\ first' = first
      /\ problem' = problem /\ todo' = todo /\ covered' = covered /\ reusable' = reusable
      /\ singleton' = singleton /\ helper' = helper /\ seeded' = seeded
      /\ outcome' = outcome
  BY DEF Restart, rangeVars
<1>3. Context' = Context /\ Current' = Current
  BY <1>2, SameContext
<1>4. /\ first \in SUBSET State /\ look \in Nat /\ look >= 1
      /\ FirstInv(Context, concrete, first)
  BY <1>1, CraigConstants DEF TypeOK, LoopInv
<1>5. /\ <<first>> \in Seq(SUBSET State) /\ Len(<<first>>) = 1 /\ <<first>>[1] = first
      /\ QInv(Context, <<first>>, look + 1)
  <2> DEFINE c == Context
  <2>1. InitStates(c.problem) \subseteq first /\ Safe(c, first)
    BY <1>4 DEF FirstInv
  <2> HIDE DEF c
  <2>2. QInv(c, <<first>>, look + 1)
    BY <1>4, <2>1, SingleQ
  <2> QED BY <1>4, <2>2 DEF c
<1>6. TypeOK'
  <2>1. look' \in 0..MaxLookahead + 1 /\ pass' \in 1..MaxPass /\ retries' \in 0..MaxRetries
    BY <1>2, <1>4, CraigConstants
  <2> QED BY <1>1, <1>2, <1>5, <2>1 DEF TypeOK
<1>7. SoundInv'
  BY <1>1, <1>2 DEF SoundInv
<1>8. PhaseInv'
  BY <1>1, <1>2, <1>3 DEF PhaseInv
<1>9. LoopInv'
  <2>1. QInv(Context', regions', look')
    BY <1>2, <1>3, <1>5
  <2>2. FirstInv(Context', concrete', first')
    BY <1>2, <1>3, <1>4
  <2>3. concrete' => regions'[1] = Cube(Context')
    BY <1>2, <1>3, <1>4, <1>5 DEF FirstInv
  <2>4. Len(regions') = 1 /\ pass' = 1
    BY <1>2, <1>5
  <2>5. look' >= 1
    BY <1>2, <1>4
  <2>6. ASSUME concrete', NEW o \in Current', NEW k \in 0..look' - 1
        PROVE  ~ Differs(problem', o, k)
    <3>1. k \in 0..look - 1 \/ k = look
      BY <1>2, <1>4
    <3>2. o \in Current /\ concrete /\ problem' = problem
      BY <1>2, <1>3, <2>6
    <3> QED BY <1>1, <3>1, <3>2 DEF LoopInv
  <2> QED BY <2>1, <2>2, <2>3, <2>4, <2>5, <2>6 DEF LoopInv
<1>10. CandidateInv'
  BY <1>2 DEF CandidateInv
<1>11. OutcomeInv'
  BY <1>1, <1>2 DEF OutcomeInv
<1> QED BY <1>6, <1>7, <1>8, <1>9, <1>10, <1>11 DEF IndInv

-----------------------------------------------------------------------------
(* One lemma per action *)

LEMMA ProbeFrameZeroInv ==
  ASSUME IndInv, ProbeFrameZero
  PROVE  IndInv'
<1>1. TypeOK /\ SoundInv /\ OutcomeInv /\ phase = "probe"
  BY DEF IndInv, ProbeFrameZero
<1>2. /\ problem' = problem /\ todo' = todo /\ covered' = covered /\ reusable' = reusable
      /\ singleton' = singleton /\ helper' = helper /\ seeded' = seeded
      /\ tracked' = tracked /\ aux' = aux /\ concrete' = concrete /\ first' = first
      /\ regions' = regions /\ look' = look /\ pass' = pass /\ retries' = retries
  BY DEF ProbeFrameZero, queryVars
<1>3. SoundInv'
  BY <1>1, <1>2 DEF SoundInv
<1>4. CASE Probe(Outputs, 0)
  <2>1. phase' = "done" /\ outcome' = "Different"
    BY <1>4 DEF ProbeFrameZero
  <2>2. \E o \in Outputs : \E k \in 0..MaxLookahead : Differs(problem, o, k)
    <3>1. 0 \in 0..MaxLookahead
      BY CraigConstants
    <3> QED BY <1>4, <3>1, ProbeIsReal
  <2>3. TypeOK'
    BY <1>1, <1>2, <2>1 DEF TypeOK
  <2>4. OutcomeInv'
    BY <1>2, <2>1, <2>2 DEF OutcomeInv
  <2>5. PhaseInv' /\ LoopInv' /\ CandidateInv'
    BY <2>1 DEF PhaseInv, LoopInv, CandidateInv
  <2> QED BY <1>3, <2>3, <2>4, <2>5 DEF IndInv
<1>5. CASE ~ Probe(Outputs, 0)
  <2>1. phase' = "range" /\ outcome' = outcome
    BY <1>5 DEF ProbeFrameZero
  <2>2. TypeOK'
    BY <1>1, <1>2, <2>1 DEF TypeOK
  <2>3. OutcomeInv'
    BY <1>1, <1>2, <2>1 DEF OutcomeInv
  <2>4. \A o \in Outputs \ problem.wide : ~ Differs(problem, o, 0)
    <3>1. 0 \in 0..0
      OBVIOUS
    <3> QED BY <1>5, <3>1, DiffersAtIs DEF Probe
  <2>5. PhaseInv'
    BY <1>2, <2>1, <2>4 DEF PhaseInv
  <2>6. LoopInv' /\ CandidateInv'
    BY <2>1 DEF LoopInv, CandidateInv
  <2> QED BY <1>3, <2>2, <2>3, <2>5, <2>6 DEF IndInv
<1> QED BY <1>4, <1>5

\* A helper that misses bad proves the range.
LEMMA HelperProves ==
  ASSUME TypeOK, phase # "done", NEW h \in Helpers, HelperOK(problem, h), HelperProvesRange(h),
         NEW o \in Current
  PROVE  NeverDiffers(problem, o)
<1> DEFINE c == [problem |-> problem, outputs |-> Current, tracked |-> h.tracked,
                 aux |-> h.aux, helper |-> State]
           S == UNION h.regions
<1>1. problem \in Problems /\ Current \in SUBSET Outputs
  BY CurrentFacts DEF TypeOK
<1>2. Reach(problem) \subseteq S /\ AuxOK(problem, h.aux)
  BY DEF HelperOK, HelperProvesRange
<1>3. S \cap Facts(problem, h.aux, h.tracked) \cap BadStates(problem, Current) = {}
  BY DEF HelperProvesRange, ExcludesBad
<1>4. /\ c.problem = problem /\ c.outputs = Current /\ c.tracked = h.tracked
      /\ c.aux = h.aux /\ c.helper = State
  OBVIOUS
<1> HIDE DEF c, S
<1>5. ContextOK(c)
  BY <1>1, <1>2, <1>4, ReachFacts DEF ContextOK
<1>6. Safe(c, S)
  BY <1>3, <1>4 DEF Safe, Bad
<1>7. NeverDiffers(c.problem, o)
  BY <1>1, <1>2, <1>4, <1>5, <1>6, SafeProves
<1> QED BY <1>4, <1>7

LEMMA HelperChoicesOK ==
  ASSUME TypeOK, SoundInv, NEW h \in HelperChoices
  PROVE  h \in Helpers /\ HelperOK(problem, h)
<1>1. /\ reusable \in Helpers /\ singleton \in Helpers
      /\ HelperOK(problem, reusable) /\ HelperOK(problem, singleton)
  BY DEF TypeOK, SoundInv
<1>2. CASE h = NoHelper
  BY <1>2, NoHelperTyped DEF HelperOK
<1>3. CASE h \in {reusable, singleton}
  BY <1>1, <1>3
<1>4. CASE h = Combined /\ reusable # NoHelper /\ singleton # NoHelper
  <2>1. /\ h.regions = singleton.regions \cup reusable.regions
        /\ h.tracked = singleton.tracked \cup reusable.tracked
        /\ h.aux = singleton.aux \cup reusable.aux
        /\ h = [regions |-> h.regions, tracked |-> h.tracked, aux |-> h.aux]
    BY <1>4 DEF Combined
  <2>2. h \in Helpers
    BY <1>1, <2>1 DEF Helpers
  <2>3. AuxOK(problem, h.aux) /\ Reach(problem) \subseteq UNION h.regions
    BY <1>1, <1>4, <2>1, AuxOKUnion DEF HelperOK
  <2> QED BY <2>2, <2>3 DEF HelperOK
<1> QED BY <1>2, <1>3, <1>4 DEF HelperChoices

LEMMA StartRangeInv ==
  ASSUME IndInv, StartRange
  PROVE  IndInv'
<1>1. /\ TypeOK /\ SoundInv /\ phase = "range"
  BY DEF IndInv, StartRange
<1>2. PICK h \in HelperChoices, seeds \in {{}, Surface(problem, Current), Surface(problem, Outputs)} :
        IF HelperProvesRange(h)
        THEN RangeProved /\ UNCHANGED <<problem, reusable, singleton>>
        ELSE Attempt(h, seeds)
  BY DEF StartRange
<1>3. h \in Helpers /\ HelperOK(problem, h)
  BY <1>1, HelperChoicesOK
<1>4. CASE HelperProvesRange(h)
  <2>1. /\ covered' = covered \cup Current /\ RangeDone("Equivalent")
        /\ problem' = problem /\ reusable' = reusable /\ singleton' = singleton
    BY <1>2, <1>4 DEF RangeProved
  <2>2. \A o \in Current : NeverDiffers(problem, o)
    BY <1>1, <1>3, <1>4, HelperProves
  <2>3. CoveredOK(problem, covered')
    BY <1>1, <2>1, <2>2 DEF SoundInv, CoveredOK
  <2>4. Current \in SUBSET Outputs
    BY <1>1, CurrentFacts
  <2>5. /\ covered \subseteq covered' /\ covered' \subseteq Outputs
        /\ Current \subseteq covered'
        /\ reusable' \in Helpers /\ HelperOK(problem, reusable')
        /\ singleton' \in Helpers /\ HelperOK(problem, singleton')
    BY <1>1, <2>1, <2>4 DEF TypeOK, SoundInv
  <2> QED BY <1>1, <2>1, <2>3, <2>5, RangeDoneInv DEF Statuses
<1>5. CASE ~ HelperProvesRange(h)
  BY <1>1, <1>2, <1>3, <1>5, AttemptInv
<1> QED BY <1>4, <1>5

\* The first region of an attempt holds the post-reset states; it misses bad
\* or the post-reset states themselves differ.
LEMMA InitialRegionHolds ==
  ASSUME TypeOK, SoundInv, NEW R \in InitialRegions
  PROVE  /\ R \in SUBSET State
         /\ InitStates(problem) \subseteq R
         /\ IsCube => R = Cube(Context)
         /\ ~ IsCube => R \cap Bad(Context) = {}
<1>1. problem \in Problems /\ AuxOK(problem, aux)
  BY DEF TypeOK, SoundInv
<1>2. InitStates(problem) \subseteq Cube(Context)
  <2> DEFINE c == Context
  <2>1. c.problem = problem
    BY ContextFields
  <2> HIDE DEF c
  <2> QED BY <2>1, InitInCube DEF c
<1>3. CASE IsCube
  <2>1. R = Cube(Context)
    BY <1>3 DEF InitialRegions
  <2>2. Cube(Context) \subseteq State
    BY CylinderFacts DEF Cube
  <2> QED BY <1>2, <1>3, <2>1, <2>2
<1>4. CASE ~ IsCube
  <2>1. /\ R \in SUBSET State /\ R \cap Bad(Context) = {}
        /\ Cube(Context) \cap Facts(problem, aux, tracked) \subseteq R
    BY <1>4 DEF InitialRegions
  <2>2. InitStates(problem) \subseteq Facts(problem, aux, tracked)
    BY <1>1, ReachFacts, ReachSatisfiesFacts
  <2> QED BY <1>2, <1>4, <2>1, <2>2
<1> QED BY <1>3, <1>4

LEMMA SafeIsExcludesBad ==
  ASSUME NEW R
  PROVE  ExcludesBad({R}, aux, tracked) <=> Safe(Context, R)
<1>1. UNION {R} = R
  OBVIOUS
<1> QED BY <1>1, ContextFields DEF ExcludesBad, Safe, Bad

LEMMA StartProjectionInv ==
  ASSUME IndInv, StartProjection
  PROVE  IndInv'
<1>1. /\ TypeOK /\ SoundInv /\ PhaseInv /\ OutcomeInv /\ phase = "project"
      /\ problem \in Problems /\ Current \in (SUBSET Outputs) \ {{}}
      /\ AuxOK(problem, aux)
  <2>1. TypeOK /\ SoundInv /\ PhaseInv /\ OutcomeInv /\ phase = "project"
    BY DEF IndInv, StartProjection
  <2> QED BY <2>1, CurrentFacts DEF TypeOK, SoundInv
<1>2. PICK R \in InitialRegions :
        /\ first' = R /\ regions' = <<R>>
        /\ IF ExcludesBad({R}, aux, tracked)
           THEN phase' = "loop" /\ look' = 1
           ELSE phase' = "candidate" /\ look' = 0
  BY DEF StartProjection
<1>3. /\ concrete' = IsCube /\ pass' = 1 /\ retries' = 0
      /\ tracked' = tracked /\ aux' = aux
      /\ problem' = problem /\ todo' = todo /\ covered' = covered /\ reusable' = reusable
      /\ singleton' = singleton /\ helper' = helper /\ seeded' = seeded
      /\ outcome' = outcome
  BY DEF StartProjection, rangeVars
<1>4. Context' = Context /\ Current' = Current
  BY <1>3, SameContext
<1>5. /\ R \in SUBSET State /\ InitStates(problem) \subseteq R
      /\ (IsCube => R = Cube(Context))
      /\ (~ IsCube => R \cap Bad(Context) = {})
  BY <1>1, InitialRegionHolds
<1>6. TypeOK'
  <2>1. look' \in 0..MaxLookahead + 1 /\ pass' \in 1..MaxPass /\ retries' \in 0..MaxRetries
    BY <1>2, <1>3, CraigConstants
  <2>2. regions' \in Seq(SUBSET State) /\ first' \subseteq State
    BY <1>2, <1>5
  <2>3. concrete' \in BOOLEAN
    BY <1>3 DEF IsCube
  <2>4. phase' \in {"loop", "candidate"}
    BY <1>2
  <2> QED BY <1>1, <1>3, <2>1, <2>2, <2>3, <2>4 DEF TypeOK
<1>7. SoundInv'
  BY <1>1, <1>3 DEF SoundInv
<1>8. PhaseInv'
  BY <1>1, <1>2, <1>3, <1>4 DEF PhaseInv
<1>9. OutcomeInv'
  BY <1>1, <1>2, <1>3 DEF OutcomeInv
<1>10. CASE ExcludesBad({R}, aux, tracked)
  <2>1. phase' = "loop" /\ look' = 1
    BY <1>2, <1>10
  <2>2. Safe(Context, R)
    BY <1>10, SafeIsExcludesBad
  <2>3. Context.problem = problem /\ Context.outputs = Current
        /\ Context.aux = aux /\ Context.tracked = tracked
    BY ContextFields
  <2>4. Len(<<R>>) = 1 /\ <<R>>[1] = R /\ QInv(Context, <<R>>, 1)
    <3> DEFINE c == Context
    <3>1. InitStates(c.problem) \subseteq R /\ Safe(c, R)
      BY <1>5, <2>2, <2>3
    <3> HIDE DEF c
    <3>2. QInv(c, <<R>>, 1)
      BY <1>5, <3>1, SingleQ
    <3> QED BY <3>2 DEF c
  <2>5. QInv(Context', regions', look')
    BY <1>2, <1>4, <2>1, <2>4
  <2>6. FirstInv(Context', concrete', first')
    BY <1>2, <1>3, <1>4, <1>5, <2>2, <2>3 DEF FirstInv
  <2>7. concrete' => regions'[1] = Cube(Context')
    BY <1>2, <1>3, <1>4, <1>5, <2>4
  <2>8. ASSUME NEW o \in Current, Differs(problem, o, 0) PROVE FALSE
    <3>1. PICK s \in At(problem, 0), i \in Inputs : <<s, i>> \in problem.differ[o]
      BY <2>8 DEF Differs
    <3>2. s \in InitStates(problem) /\ s \in State
      BY <1>1, <3>1, AtSteps
    <3>3. s \in Facts(problem, aux, tracked)
      BY <1>1, <3>2, ReachFacts, ReachSatisfiesFacts
    <3>4. s \in Bad(Context)
      BY <2>3, <3>1, <3>2 DEF Bad, BadStates
    <3> QED BY <1>5, <2>2, <2>3, <3>2, <3>3, <3>4 DEF Safe
  <2>9. \A o \in Current' : \A k \in 0..look' - 1 : ~ Differs(problem', o, k)
    <3>1. \A k \in 0..look' - 1 : k = 0
      BY <2>1
    <3> QED BY <1>3, <1>4, <2>8, <3>1
  <2>10. Len(regions') = 1 /\ pass' = 1 /\ look' >= 1
    BY <1>2, <1>3, <2>1, <2>4
  <2>11. LoopInv' /\ CandidateInv'
    BY <2>1, <2>5, <2>6, <2>7, <2>9, <2>10 DEF LoopInv, CandidateInv
  <2> QED BY <1>6, <1>7, <1>8, <1>9, <2>11 DEF IndInv
<1>11. CASE ~ ExcludesBad({R}, aux, tracked)
  <2>1. phase' = "candidate" /\ look' = 0
    BY <1>2, <1>11
  <2>2. PICK s \in R : s \in BadStates(problem, Current)
    BY <1>11 DEF ExcludesBad
  <2>3. IsCube
    BY <1>5, <2>2, ContextFields DEF Bad
  <2>4. PICK t \in InitStates(problem) : s \in State /\ Agree(s, t, tracked)
    BY <1>5, <2>2, <2>3, ContextFields DEF Cube, Cylinder
  <2>5. PICK o \in Current, i \in Inputs : <<s, i>> \in problem.differ[o]
    BY <2>2 DEF BadStates
  <2>6. o \in Outputs /\ problem.sees[o] \subseteq tracked
    BY <1>1 DEF PhaseInv, BadSupport
  <2>7. t \in State /\ t \in At(problem, 0)
    BY <1>1, AtSteps, InitStatesTyped
  <2>8. <<t, i>> \in problem.differ[o]
    BY <1>1, <2>4, <2>5, <2>6, <2>7, DifferenceAgrees
  <2>9. Differs(problem, o, 0)
    BY <2>7, <2>8 DEF Differs
  <2>10. \E q \in Current' : Differs(problem', q, look')
    BY <1>3, <1>4, <2>1, <2>9
  <2>11. LoopInv' /\ CandidateInv'
    BY <2>1, <2>10, CraigConstants DEF LoopInv, CandidateInv
  <2> QED BY <1>6, <1>7, <1>8, <1>9, <2>11 DEF IndInv
<1> QED BY <1>10, <1>11

LEMMA UntrackedTyped ==
  ASSUME TypeOK
  PROVE  Untracked \subseteq Symbols
BY CloseFacts DEF Untracked

LEMMA NoInitialRegionInv ==
  ASSUME IndInv, NoInitialRegion
  PROVE  IndInv'
<1>1. phase \in {"project", "loop"} /\ MaxLookahead \in 0..MaxLookahead
  BY CraigConstants DEF NoInitialRegion
<1>2. CASE Grow(Close(problem, tracked))
  <2>1. Close(problem, tracked) \in SUBSET Symbols
    BY CloseFacts
  <2> QED BY <1>1, <1>2, <2>1, GrowInv
<1>3. CASE GiveUpRange(MaxLookahead)
  BY <1>1, <1>3, GiveUpRangeInv
<1> QED BY <1>2, <1>3 DEF NoInitialRegion

LEMMA TooLargeInv ==
  ASSUME IndInv, ProjectionTooLarge \/ TransitionTooLarge
  PROVE  IndInv'
<1>1. CASE ProjectionTooLarge
  <2>1. phase \in {"project", "loop"} /\ 0 \in 0..MaxLookahead /\ BudgetExceeded(0)
    BY <1>1, CraigConstants DEF ProjectionTooLarge
  <2> QED BY <2>1, BudgetExceededInv
<1>2. CASE TransitionTooLarge
  <2>1. phase \in {"project", "loop"} /\ look \in 0..MaxLookahead /\ BudgetExceeded(look)
    BY <1>2, CraigConstants DEF TransitionTooLarge, IndInv, TypeOK
  <2> QED BY <2>1, BudgetExceededInv
<1> QED BY <1>1, <1>2

LEMMA RefineProjectionInv ==
  ASSUME IndInv, RefineProjection
  PROVE  IndInv'
<1>1. phase \in {"project", "loop"} /\ TypeOK
  BY DEF RefineProjection, Sat, IndInv
<1>2. PICK U \in SUBSET Untracked : Grow(U)
  BY DEF RefineProjection
<1> QED BY <1>1, <1>2, UntrackedTyped, GrowInv

LEMMA LookFurtherInv ==
  ASSUME IndInv, LookFurther
  PROVE  IndInv'
<1>1. /\ phase = "loop" /\ look <= MaxLookahead /\ ~ (concrete /\ pass = 1)
      /\ TypeOK /\ LoopInv
  BY DEF LookFurther, Sat, IndInv
<1>2. look \in 0..MaxLookahead
  BY <1>1, CraigConstants DEF TypeOK
<1>3. CASE Restart
  <2>1. concrete => pass > 1
    BY <1>1, CraigConstants DEF TypeOK
  <2>2. concrete => \A o \in Current : ~ Differs(problem, o, look)
    BY <1>1, <2>1 DEF LoopInv
  <2> QED BY <1>1, <1>3, <2>2, RestartInv
<1>4. CASE BudgetExceeded(look)
  BY <1>1, <1>2, <1>4, BudgetExceededInv
<1> QED BY <1>3, <1>4 DEF LookFurther

LEMMA OutOfLookaheadInv ==
  ASSUME IndInv, OutOfLookahead
  PROVE  IndInv'
<1>1. phase \in {"project", "loop"} /\ MaxLookahead \in 0..MaxLookahead
      /\ GiveUpRange(MaxLookahead)
  BY CraigConstants DEF OutOfLookahead
<1> QED BY <1>1, GiveUpRangeInv

LEMMA MineLocallyInv ==
  ASSUME IndInv, MineLocally
  PROVE  IndInv'
<1>1. /\ TypeOK /\ SoundInv /\ PhaseInv /\ LoopInv /\ OutcomeInv /\ phase = "loop"
      /\ problem \in Problems /\ retries < MaxRetries
  BY DEF IndInv, MineLocally, Sat, TypeOK
<1>2. /\ retries' = retries + 1 /\ phase' = phase /\ tracked' = tracked
      /\ concrete' = concrete /\ first' = first /\ regions' = regions
      /\ look' = look /\ pass' = pass
      /\ problem' = problem /\ todo' = todo /\ covered' = covered /\ reusable' = reusable
      /\ singleton' = singleton /\ helper' = helper /\ seeded' = seeded
      /\ outcome' = outcome
  BY DEF MineLocally, rangeVars
<1>3. PICK U \in SUBSET (tracked \cup Untracked) : aux' = aux \cup Mine(problem, U, aux)
  BY DEF MineLocally, Promote
<1>4. /\ AuxOK(problem, Mine(problem, U, aux))
      /\ Mine(problem, U, aux) \subseteq Symbols \X (BOOLEAN \cup Symbols)
  <2>1. U \in SUBSET Symbols /\ AuxOK(problem, aux)
    BY <1>1, UntrackedTyped DEF TypeOK, SoundInv
  <2> QED BY <1>1, <2>1, MineSound
<1>5. AuxOK(problem, aux') /\ aux' \subseteq Symbols \X (BOOLEAN \cup Symbols)
  BY <1>1, <1>3, <1>4, AuxOKUnion DEF TypeOK, SoundInv
<1>6. TypeOK'
  <2>1. retries' \in 0..MaxRetries
    BY <1>1, <1>2, CraigConstants DEF TypeOK
  <2> QED BY <1>1, <1>2, <1>5, <2>1 DEF TypeOK
<1>7. SoundInv'
  BY <1>1, <1>2, <1>5 DEF SoundInv
<1>8. Current' = Current /\ Helper' = Helper
  BY <1>2 DEF Current, Helper
<1>9. PhaseInv'
  BY <1>1, <1>2, <1>8 DEF PhaseInv
<1>10. LoopInv'
  <2> DEFINE c == Context
             e == Context'
  <2>1. MoreFacts(c, e)
    <3>1. e = [problem |-> problem', outputs |-> Current', tracked |-> tracked',
               aux |-> aux', helper |-> Helper']
      BY DEF Context
    <3>2. /\ e.problem = problem /\ e.outputs = Current /\ e.tracked = tracked
          /\ e.helper = Helper /\ e.aux = aux'
      BY <1>2, <1>8, <3>1
    <3>3. aux \subseteq aux'
      BY <1>3
    <3> QED BY <3>2, <3>3, ContextFields DEF MoreFacts
  <2>2. /\ QInv(c, regions, look) /\ FirstInv(c, concrete, first)
        /\ concrete /\ Len(regions) = 1 => regions[1] = Cube(c)
    BY <1>1 DEF LoopInv
  <2>3. c.problem = e.problem
    BY <2>1 DEF MoreFacts
  <2> HIDE DEF c, e
  <2>4. QInv(e, regions, look) /\ Cube(e) = Cube(c) /\ (Safe(c, first) => Safe(e, first))
    BY <2>1, <2>2, MoreFactsKeepQ
  <2>5. FirstInv(e, concrete, first)
    BY <2>2, <2>3, <2>4 DEF FirstInv
  <2> QED BY <1>1, <1>2, <1>8, <2>2, <2>4, <2>5 DEF LoopInv, e
<1>11. CandidateInv'
  BY <1>1, <1>2 DEF CandidateInv
<1>12. OutcomeInv'
  BY <1>1, <1>2 DEF OutcomeInv
<1> QED BY <1>6, <1>7, <1>9, <1>10, <1>11, <1>12 DEF IndInv

\* With nothing left to track the projection is exact.
LEMMA NothingUntrackedIsExact ==
  ASSUME TypeOK, PhaseInv, phase = "loop", look >= 1, Untracked = {}, ~ problem.focused
  PROVE  Exact(Context)
<1>1. /\ problem \in Problems /\ tracked \subseteq Symbols /\ look \in Nat
      /\ Current \subseteq Outputs /\ BadSupport(problem, Current) \subseteq tracked
  BY CurrentFacts, CraigConstants DEF TypeOK, PhaseInv
<1>2. Leaves(Context, 1) = tracked \cup SupportOf(problem, tracked)
  BY ContextFields DEF Leaves, Requests
<1>3. SupportOf(problem, tracked) \subseteq Symbols
  BY <1>1, ProblemFields DEF SupportOf
<1> DEFINE L == UNION {Leaves(Context, d) : d \in 1..look}
<1>4. Leaves(Context, 1) \subseteq L
  <2>1. 1 \in 1..look
    BY <1>1
  <2> QED BY <2>1
<1>5. Close(problem, L) \subseteq tracked
  BY DEF Untracked
<1> HIDE DEF L
<1>6. SupportOf(problem, tracked) \subseteq tracked
  BY <1>2, <1>3, <1>4, <1>5, CloseFacts
<1> QED BY <1>1, <1>6, ContextFields DEF Exact

LEMMA CandidateActionInv ==
  ASSUME IndInv, Candidate
  PROVE  IndInv'
<1>1. /\ TypeOK /\ SoundInv /\ PhaseInv /\ LoopInv /\ OutcomeInv
      /\ phase = "loop" /\ look <= MaxLookahead /\ QuerySat
      /\ Untracked = {} /\ concrete /\ pass = 1
  BY DEF IndInv, Candidate, Sat
<1>2. /\ phase' = "candidate" /\ tracked' = tracked /\ aux' = aux
      /\ concrete' = concrete /\ first' = first /\ regions' = regions
      /\ look' = look /\ pass' = pass /\ retries' = retries
      /\ problem' = problem /\ todo' = todo /\ covered' = covered /\ reusable' = reusable
      /\ singleton' = singleton /\ helper' = helper /\ seeded' = seeded
      /\ outcome' = outcome
  BY DEF Candidate, rangeVars, queryVars
<1>3. Context' = Context /\ Current' = Current
  BY <1>2, SameContext
<1>4. look \in Nat /\ look >= 1 /\ Len(regions) = 1
  BY <1>1, CraigConstants DEF TypeOK, LoopInv
<1>5. TypeOK' /\ SoundInv' /\ PhaseInv' /\ OutcomeInv' /\ LoopInv'
  <2>1. TypeOK'
    BY <1>1, <1>2 DEF TypeOK
  <2>2. SoundInv'
    BY <1>1, <1>2 DEF SoundInv
  <2>3. PhaseInv'
    BY <1>1, <1>2, <1>3 DEF PhaseInv
  <2>4. OutcomeInv' /\ LoopInv'
    BY <1>1, <1>2 DEF OutcomeInv, LoopInv
  <2> QED BY <2>1, <2>2, <2>3, <2>4
<1>6. ASSUME ~ problem.focused
      PROVE  \E o \in Current : Differs(problem, o, look)
  <2>1. Source = Cube(Context)
    <3>1. 2..Len(regions) = {}
      BY <1>4
    <3> QED BY <1>1, <3>1 DEF Source
  <2> DEFINE c == Context
  <2>2. /\ Exact(c) /\ c.outputs = Current /\ c.problem = problem
        /\ Cylinder(Image(c, Cube(c), look), c.tracked) \cap BadWithin(c, look) # {}
    <3>1. Exact(c)
      BY <1>1, <1>4, <1>6, NothingUntrackedIsExact
    <3>2. c.outputs = Current /\ c.problem = problem /\ c.tracked = tracked
      BY ContextFields
    <3> QED BY <1>1, <2>1, <3>1, <3>2 DEF QuerySat, NextImage
  <2> HIDE DEF c
  <2>3. PICK o \in c.outputs, k \in 1..look : Differs(c.problem, o, k)
    BY <1>4, <2>2, ModelIsDifference
  <2>4. k = look
    <3>1. \A j \in 0..look - 1 : ~ Differs(problem, o, j)
      BY <1>1, <2>2 DEF LoopInv
    <3>2. k \in 0..look - 1 \/ k = look
      BY <1>4
    <3> QED BY <2>2, <2>3, <3>1, <3>2
  <2> QED BY <2>2, <2>3, <2>4
<1>7. CandidateInv'
  BY <1>1, <1>2, <1>3, <1>6 DEF CandidateInv
<1> QED BY <1>5, <1>7 DEF IndInv

LEMMA FixpointInv ==
  ASSUME IndInv, Fixpoint
  PROVE  IndInv'
<1>1. /\ TypeOK /\ SoundInv /\ LoopInv /\ phase = "loop" /\ phase # "done"
  BY DEF IndInv, Fixpoint, Unsat
<1>2. /\ covered' = covered \cup Current /\ RangeDone("Equivalent") /\ problem' = problem
      /\ reusable' = Proof /\ singleton' \in {singleton, Proof}
  BY DEF Fixpoint, RangeProved
<1>3. PICK R \in Interpolants : Contained(R, Q)
  BY DEF Fixpoint
<1>4. Reach(problem) \subseteq Q
  BY <1>1, <1>3, FixpointHoldsReach DEF Interpolants
<1>5. Current \in SUBSET Outputs
  BY <1>1, CurrentFacts
<1>6. \A o \in Current : NeverDiffers(problem, o)
  <2> DEFINE c == Context
  <2>1. ContextOK(c) /\ c.outputs = Current /\ c.problem = problem
    BY <1>1, ContextIsOK, ContextFields
  <2>2. Safe(c, Q)
    BY <1>1, QIsUnion DEF LoopInv, QInv
  <2> HIDE DEF c
  <2> QED BY <1>4, <1>5, <2>1, <2>2, SafeProves
<1>7. CoveredOK(problem, covered')
  BY <1>1, <1>2, <1>6 DEF SoundInv, CoveredOK
<1>8. Proof \in Helpers /\ HelperOK(problem, Proof)
  <2>1. Proof = [regions |-> ToSet(regions), tracked |-> tracked, aux |-> aux]
    BY DEF Proof
  <2>2. ToSet(regions) \subseteq SUBSET State /\ UNION ToSet(regions) = Q
    <3>1. regions \in Seq(SUBSET State)
      BY <1>1 DEF TypeOK
    <3> QED BY <3>1, LenProperties DEF ToSet, Q
  <2>3. Proof \in Helpers
    BY <1>1, <2>1, <2>2 DEF Helpers, TypeOK
  <2>4. Reach(problem) \subseteq UNION Proof.regions /\ AuxOK(problem, Proof.aux)
    BY <1>1, <1>4, <2>1, <2>2 DEF SoundInv
  <2> QED BY <2>3, <2>4 DEF HelperOK
<1>9. /\ covered \subseteq covered' /\ covered' \subseteq Outputs
      /\ Current \subseteq covered'
      /\ reusable' \in Helpers /\ HelperOK(problem, reusable')
      /\ singleton' \in Helpers /\ HelperOK(problem, singleton')
  BY <1>1, <1>2, <1>5, <1>8 DEF TypeOK, SoundInv
<1> QED BY <1>1, <1>2, <1>7, <1>9, RangeDoneInv DEF Statuses

\* An interpolant of an UNSAT query joins Q, which then loses at most one
\* region that the others contain.
LEMMA GrowQInv ==
  ASSUME IndInv, GrowQ
  PROVE  IndInv'
<1>1. /\ TypeOK /\ SoundInv /\ PhaseInv /\ LoopInv /\ OutcomeInv
      /\ Unsat /\ phase = "loop" /\ look <= MaxLookahead /\ pass < MaxPass
  BY DEF IndInv, GrowQ, Unsat
<1>2. PICK R \in Interpolants :
        ~ Contained(R, Q) /\ regions' = Compact(Append(regions, R))
  BY DEF GrowQ
<1>3. /\ pass' = pass + 1 /\ retries' = 0 /\ phase' = phase /\ tracked' = tracked
      /\ aux' = aux /\ concrete' = concrete /\ first' = first /\ look' = look
      /\ problem' = problem /\ todo' = todo /\ covered' = covered /\ reusable' = reusable
      /\ singleton' = singleton /\ helper' = helper /\ seeded' = seeded
      /\ outcome' = outcome
  BY DEF GrowQ, rangeVars
<1>4. Context' = Context /\ Current' = Current
  BY <1>3, SameContext
<1>5. /\ R \in SUBSET State /\ NextImage \subseteq R
      /\ R \cap BadWithin(Context, look) = {}
      /\ regions \in Seq(SUBSET State) /\ look \in Nat /\ look >= 1 /\ pass \in Nat
      /\ pass >= 1 /\ QInv(Context, regions, look)
  BY <1>1, CraigConstants DEF Interpolants, TypeOK, LoopInv
<1>6. ContextOK(Context)
  BY <1>1, ContextIsOK
<1>7. ASSUME NEW s \in Union(regions), NEW t \in State, Step(Context, s, t, look)
      PROVE  t \in Union(regions) \cup R
  <2>1. CASE s \in Source
    BY <1>5, <1>7, <2>1, ImageFacts
  <2>2. CASE s \notin Source
    BY <1>1, <1>5, <1>7, <2>2, QIsUnion, SkippedIsSettled
  <2> QED BY <2>1, <2>2
<1> DEFINE q == Append(regions, R)
<1>8. /\ q \in Seq(SUBSET State) /\ Len(q) >= 2 /\ QInv(Context, q, look)
      /\ ~ Contained(q[Len(q)], Others(q, Len(q)))
  <2> DEFINE c == Context
  <2>1. /\ q \in Seq(SUBSET State) /\ Len(q) = Len(regions) + 1
        /\ q[Len(regions) + 1] = R /\ Others(q, Len(regions) + 1) = Union(regions)
    BY <1>5, UnionOfAppend
  <2>2. Len(regions) \in Nat /\ regions # <<>>
    BY <1>5, LenProperties DEF QInv
  <2>3. Len(regions) >= 1
    BY <1>5, <2>2, EmptySeq
  <2>4. R \cap Bad(c) = {}
    <3>1. /\ R \cap BadWithin(c, look) = {}
          /\ look - 1 \in Nat /\ (look - 1) + 1 = look
      BY <1>5
    <3> HIDE DEF c
    <3>2. Within(c)[look] = OneNearer(c, Within(c)[look - 1], look - 1)
          /\ Within(c)[look] \subseteq State
      BY <1>5, <3>1, WithinUnfolds
    <3>3. Bad(c) \subseteq Within(c)[look]
      BY <3>2 DEF OneNearer
    <3>4. Within(c)[look] \subseteq BadWithin(c, look)
      BY <3>2, CylinderFacts DEF BadWithin
    <3> QED BY <3>1, <3>3, <3>4
  <2>5. Safe(c, R) /\ QInv(c, regions, look)
        /\ \A s \in Union(regions) : \A t \in State :
             Step(c, s, t, look) => t \in Union(regions) \cup R
    BY <1>5, <1>7, <2>4 DEF Safe
  <2> HIDE DEF c
  <2>6. QInv(c, q, look)
    BY <1>5, <2>5, GrownQ
  <2> QED BY <1>2, <2>1, <2>2, <2>3, <2>6, QIsUnion DEF c
<1>9. regions' = Compact(q)
  BY <1>2
<1> HIDE DEF q
<1>10. /\ regions' \in Seq(SUBSET State) /\ Len(regions') >= 2
       /\ QInv(Context, regions', look)
  BY <1>6, <1>8, <1>9, CompactedQ
<1>11. TypeOK'
  <2>1. pass' \in 1..MaxPass /\ retries' \in 0..MaxRetries
    BY <1>1, <1>3, <1>5, CraigConstants
  <2> QED BY <1>1, <1>3, <1>10, <2>1 DEF TypeOK
<1>12. SoundInv'
  BY <1>1, <1>3 DEF SoundInv
<1>13. PhaseInv'
  BY <1>1, <1>3, <1>4 DEF PhaseInv
<1>14. LoopInv'
  <2>1. /\ FirstInv(Context, concrete, first)
        /\ concrete => \A o \in Current : \A k \in 0..look - 1 : ~ Differs(problem, o, k)
    BY <1>1 DEF LoopInv
  <2>2. concrete => \A o \in Current : ~ Differs(problem, o, look)
    <3>1. look \in 0..look
      BY <1>5
    <3> QED BY <1>1, <3>1, UnsatMeansNoDifference
  <2>3. Len(regions') # 1 /\ pass' # 1
    <3> DEFINE n == Len(regions')
    <3>1. n \in Nat /\ n >= 2
      BY <1>10, LenProperties
    <3>2. n # 1
      <4> HIDE DEF n
      <4> QED BY <3>1
    <3>3. pass' # 1
      BY <1>3, <1>5
    <3> QED BY <3>2, <3>3
  <2>4. QInv(Context', regions', look') /\ FirstInv(Context', concrete', first')
    BY <1>3, <1>4, <1>10, <2>1
  <2>5. concrete' => \A o \in Current' : \A k \in 0..look' - 1 : ~ Differs(problem', o, k)
    BY <1>3, <1>4, <2>1
  <2>6. concrete' => \A o \in Current' : ~ Differs(problem', o, look')
    BY <1>3, <1>4, <2>2
  <2>7. look' >= 1
    BY <1>3, <1>5
  <2> QED BY <2>3, <2>4, <2>5, <2>6, <2>7 DEF LoopInv
<1>15. CandidateInv'
  BY <1>1, <1>3 DEF CandidateInv
<1>16. OutcomeInv'
  BY <1>1, <1>3 DEF OutcomeInv
<1> QED BY <1>11, <1>12, <1>13, <1>14, <1>15, <1>16 DEF IndInv

LEMMA SpendBudgetInv ==
  ASSUME IndInv, SpendBudget
  PROVE  IndInv'
<1>1. /\ phase = "loop" /\ phase \in {"project", "loop"} /\ look <= MaxLookahead /\ Unsat
      /\ TypeOK /\ SoundInv /\ LoopInv
  BY DEF SpendBudget, Unsat, IndInv
<1>2. look \in 0..MaxLookahead /\ look \in 0..look
  BY <1>1, CraigConstants DEF TypeOK
<1>3. CASE \E U \in SUBSET Untracked : Grow(U)
  BY <1>1, <1>3, UntrackedTyped, GrowInv
<1>4. CASE Restart
  BY <1>1, <1>2, <1>4, UnsatMeansNoDifference, RestartInv
<1>5. CASE BudgetExceeded(look)
  BY <1>1, <1>2, <1>5, BudgetExceededInv
<1> QED BY <1>3, <1>4, <1>5 DEF SpendBudget

LEMMA ValidateInv ==
  ASSUME IndInv, Validate
  PROVE  IndInv'
<1> DEFINE result == IF \E o \in Current : DiffersAt(o, look) THEN "Different"
                                                              ELSE "Inconclusive"
<1>1. /\ TypeOK /\ SoundInv /\ CandidateInv /\ phase = "candidate" /\ phase # "done"
      /\ RangeDone(result) /\ problem' = problem /\ covered' = covered
      /\ reusable' = reusable /\ singleton' = singleton
  BY DEF Validate, IndInv
<1>2. result \in Statuses /\ result # "Equivalent"
  BY DEF Statuses
<1>3. ASSUME result = "Different"
      PROVE  \E o \in Outputs : \E k \in 0..MaxLookahead : Differs(problem, o, k)
  <2>1. PICK o \in Current : Differs(problem, o, look)
    BY <1>3, DiffersAtIs
  <2>2. look \in 0..MaxLookahead /\ o \in Outputs
    BY <1>1, CurrentFacts, CraigConstants DEF TypeOK, CandidateInv
  <2> QED BY <2>1, <2>2
<1>4. /\ covered \subseteq covered' /\ covered' \subseteq Outputs
      /\ CoveredOK(problem, covered')
      /\ reusable' \in Helpers /\ HelperOK(problem, reusable')
      /\ singleton' \in Helpers /\ HelperOK(problem, singleton')
  BY <1>1 DEF TypeOK, SoundInv
<1> HIDE DEF result
<1> QED BY <1>1, <1>2, <1>3, <1>4, RangeDoneInv

LEMMA StutterInv ==
  ASSUME IndInv, UNCHANGED vars
  PROVE  IndInv'
<1>1. /\ phase' = phase /\ tracked' = tracked /\ aux' = aux
      /\ concrete' = concrete /\ first' = first /\ regions' = regions
      /\ look' = look /\ pass' = pass /\ retries' = retries
      /\ problem' = problem /\ todo' = todo /\ covered' = covered /\ reusable' = reusable
      /\ singleton' = singleton /\ helper' = helper /\ seeded' = seeded
      /\ outcome' = outcome
  BY DEF vars, rangeVars, queryVars
<1>2. Context' = Context /\ Current' = Current
  BY <1>1, SameContext
<1>3. TypeOK'
  BY <1>1 DEF IndInv, TypeOK
<1>4. SoundInv'
  BY <1>1 DEF IndInv, SoundInv
<1>5. PhaseInv'
  BY <1>1, <1>2 DEF IndInv, PhaseInv
<1>6. LoopInv'
  BY <1>1, <1>2 DEF IndInv, LoopInv
<1>7. CandidateInv'
  BY <1>1, <1>2 DEF IndInv, CandidateInv
<1>8. OutcomeInv'
  BY <1>1 DEF IndInv, OutcomeInv
<1> QED BY <1>3, <1>4, <1>5, <1>6, <1>7, <1>8 DEF IndInv

LEMMA NextInv ==
  ASSUME IndInv, [Next]_vars
  PROVE  IndInv'
<1>1. CASE ProbeFrameZero BY <1>1, ProbeFrameZeroInv
<1>2. CASE StartRange BY <1>2, StartRangeInv
<1>3. CASE StartProjection BY <1>3, StartProjectionInv
<1>4. CASE NoInitialRegion BY <1>4, NoInitialRegionInv
<1>5. CASE ProjectionTooLarge BY <1>5, TooLargeInv
<1>6. CASE TransitionTooLarge BY <1>6, TooLargeInv
<1>7. CASE MineLocally BY <1>7, MineLocallyInv
<1>8. CASE RefineProjection BY <1>8, RefineProjectionInv
<1>9. CASE Candidate BY <1>9, CandidateActionInv
<1>10. CASE LookFurther BY <1>10, LookFurtherInv
<1>11. CASE OutOfLookahead BY <1>11, OutOfLookaheadInv
<1>12. CASE Fixpoint BY <1>12, FixpointInv
<1>13. CASE GrowQ BY <1>13, GrowQInv
<1>14. CASE SpendBudget BY <1>14, SpendBudgetInv
<1>15. CASE Validate BY <1>15, ValidateInv
<1>16. CASE UNCHANGED vars BY <1>16, StutterInv
<1> QED BY <1>1, <1>2, <1>3, <1>4, <1>5, <1>6, <1>7, <1>8, <1>9, <1>10, <1>11, <1>12,
           <1>13, <1>14, <1>15, <1>16 DEF Next, Check, Done

\* The batches are not empty and together hold every output.
LEMMA BatchesCover ==
  ASSUME NEW q \in OutputBatches
  PROVE  q \in Seq(Ranges) /\ q # <<>> /\ OutputsIn(q) = Outputs
<1>0. NumOutputs \in Nat /\ NumOutputs >= 1 /\ Outputs = 1..NumOutputs
  BY CraigConstants DEF Outputs
<1>1. PICK ends \in UNION {[1..n -> Outputs] : n \in Outputs} :
        /\ ends[Len(ends)] = NumOutputs
        /\ \A k \in 1..Len(ends) - 1 : ends[k] < ends[k + 1]
        /\ q = [k \in 1..Len(ends) |->
                  [outputs |-> (IF k = 1 THEN 1 ELSE ends[k - 1] + 1)..ends[k],
                   last |-> TRUE]]
  BY DEF OutputBatches
<1>2. PICK n \in Outputs : ends \in [1..n -> Outputs]
  BY <1>1
<1>3. n \in Nat /\ n >= 1 /\ Len(ends) = n
  BY <1>0, <1>2
<1> DEFINE low(k) == IF k = 1 THEN 1 ELSE ends[k - 1] + 1
           r(k) == [outputs |-> low(k)..ends[k], last |-> TRUE]
<1>4. q = [k \in 1..n |-> r(k)]
  BY <1>1, <1>3
<1>5. ASSUME NEW k \in 1..n
      PROVE  /\ ends[k] \in 1..NumOutputs /\ low(k) \in 1..NumOutputs
             /\ low(k) <= ends[k]
  <2>1. ends[k] \in 1..NumOutputs
    BY <1>0, <1>2
  <2>2. CASE k = 1
    BY <1>0, <2>1, <2>2
  <2>3. CASE k # 1
    <3>1. k - 1 \in 1..n - 1 /\ k - 1 \in 1..n /\ (k - 1) + 1 = k
      BY <1>3, <2>3
    <3>2. ends[k - 1] < ends[k] /\ ends[k - 1] \in 1..NumOutputs
      BY <1>0, <1>1, <1>2, <1>3, <3>1
    <3> QED BY <1>0, <2>1, <2>3, <3>2
  <2> QED BY <2>2, <2>3
<1>6. ASSUME NEW k \in 1..n PROVE r(k) \in Ranges
  <2> DEFINE a == low(k)
             b == ends[k]
  <2>1. a \in 1..NumOutputs /\ b \in 1..NumOutputs /\ a <= b
    BY <1>5
  <2> HIDE DEF a, b
  <2>2. a..b \subseteq Outputs /\ a \in a..b
    BY <1>0, <2>1
  <2>3. [outputs |-> a..b, last |-> TRUE] \in Ranges
    BY <2>2 DEF Ranges
  <2> QED BY <2>3 DEF a, b
<1>7. q \in Seq(Ranges) /\ q # <<>>
  <2> HIDE DEF r
  <2>1. q \in [1..n -> Ranges]
    BY <1>4, <1>6
  <2>2. q \in Seq(Ranges) /\ Len(q) = n
    BY <1>3, <2>1
  <2> QED BY <1>3, <2>2
<1>8. DOMAIN q = 1..n /\ \A k \in 1..n : q[k].outputs = low(k)..ends[k]
  <2> HIDE DEF low
  <2> QED BY <1>4
<1>9. ASSUME NEW o \in OutputsIn(q) PROVE o \in Outputs
  <2>1. PICK k \in 1..n : o \in q[k].outputs
    BY <1>8, <1>9 DEF OutputsIn
  <2>2. q[k] \in Ranges
    <3> HIDE DEF r
    <3> QED BY <1>4, <1>6
  <2> QED BY <2>1, <2>2 DEF Ranges
<1>10. ASSUME NEW o \in Outputs PROVE o \in OutputsIn(q)
  <2> DEFINE S == {k \in 1..n : o <= ends[k]}
  <2>1. n \in S
    BY <1>0, <1>1, <1>3
  <2>2. PICK k \in S : \A j \in S : k <= j
    <3>1. S \subseteq Nat /\ S # {}
      BY <1>3, <2>1
    <3> HIDE DEF S
    <3> QED BY <3>1, LeastElement
  <2>3. k \in 1..n /\ o <= ends[k] /\ o \in 1..NumOutputs /\ ends[k] \in 1..NumOutputs
    BY <1>0, <1>5, <2>2
  <2>4. low(k) <= o
    <3>1. CASE k = 1
      BY <2>3, <3>1
    <3>2. CASE k # 1
      <4>1. k - 1 \in 1..n /\ ~ (k <= k - 1)
        BY <1>3, <2>3, <3>2
      <4>2. k - 1 \notin S
        <5> HIDE DEF S
        <5> QED BY <2>2, <4>1
      <4>3. ~ (o <= ends[k - 1]) /\ ends[k - 1] \in 1..NumOutputs
        BY <1>5, <4>1, <4>2
      <4> QED BY <2>3, <3>2, <4>3
    <3> QED BY <3>1, <3>2
  <2>5. o \in low(k)..ends[k]
    <3>1. low(k) \in 1..NumOutputs
      BY <1>5, <2>3
    <3> HIDE DEF low
    <3> QED BY <2>3, <2>4, <3>1
  <2> HIDE DEF low
  <2> QED BY <1>8, <2>3, <2>5 DEF OutputsIn
<1> QED BY <1>7, <1>9, <1>10

LEMMA InitInv ==
  ASSUME Init
  PROVE  IndInv
<1>1. /\ problem \in Problems /\ phase = "probe" /\ todo \in OutputBatches
      /\ covered = {} /\ reusable = NoHelper /\ singleton = NoHelper
      /\ helper = NoHelper /\ seeded = FALSE
      /\ tracked = {} /\ aux = {} /\ outcome = "Equivalent"
      /\ concrete = FALSE /\ first = {} /\ regions = <<>>
      /\ look = 1 /\ pass = 1 /\ retries = 0
  BY DEF Init
<1>2. todo \in Seq(Ranges) /\ todo # <<>> /\ OutputsIn(todo) = Outputs
  BY <1>1, BatchesCover
<1>3. TypeOK
  <2>1. look \in 0..MaxLookahead + 1 /\ pass \in 1..MaxPass /\ retries \in 0..MaxRetries
    BY <1>1, CraigConstants
  <2>2. regions \in Seq(SUBSET State)
    BY <1>1
  <2> QED BY <1>1, <1>2, <2>1, <2>2, NoHelperTyped DEF TypeOK, Ranges
<1>4. SoundInv
  BY <1>1 DEF SoundInv, CoveredOK, HelperOK, AuxOK
<1>5. PhaseInv /\ LoopInv /\ CandidateInv
  BY <1>1 DEF PhaseInv, LoopInv, CandidateInv
<1>6. OutcomeInv
  BY <1>1, <1>2 DEF OutcomeInv
<1> QED BY <1>3, <1>4, <1>5, <1>6 DEF IndInv

-----------------------------------------------------------------------------
(* The theorems *)

LEMMA StateFinite == IsFiniteSet(State)
<1> DEFINE chosen(A) == [v \in Symbols |-> IF v \in A THEN TRUE ELSE FALSE]
           f == [A \in SUBSET Symbols |-> chosen(A)]
<1>1. IsFiniteSet(SUBSET Symbols)
  BY SymbolsFinite, FS_SUBSET
<1>2. f \in [SUBSET Symbols -> State]
  BY DEF State
<1>3. ASSUME NEW s \in State PROVE \E A \in SUBSET Symbols : f[A] = s
  <2> DEFINE A == {v \in Symbols : s[v] = TRUE}
  <2>1. A \in SUBSET Symbols /\ f[A] = chosen(A)
    OBVIOUS
  <2>2. s \in [Symbols -> BOOLEAN]
    BY DEF State
  <2>3. s = chosen(A)
    BY <2>2
  <2> QED BY <2>1, <2>3
<1>4. f \in Surjection(SUBSET Symbols, State)
  BY <1>2, <1>3 DEF Surjection
<1> QED BY <1>1, <1>4, FS_Surjection

\* The reachable states of the runs are those of the proofs.
LEMMA ReachableIsReach ==
  ASSUME TypeOK
  PROVE  Reachable \subseteq Reach(problem)
<1>1. Cardinality(State) \in Nat
  BY StateFinite, FS_CardinalityType
<1>2. 0..Cardinality(State) \subseteq Nat
  BY <1>1
<1>3. \A d : ReachIn(d) = At(problem, d)
  BY DEF ReachIn, At
<1> QED BY <1>2, <1>3 DEF Reachable, Reach

\* Every state of the checker satisfies the inductive invariant, whatever the
\* problem, the order of the ranges, the regions the solver returns and the
\* budgets that decide what is tried next.
THEOREM InvariantHolds == Spec => []IndInv
<1>1. Init => IndInv
  BY InitInv
<1>2. IndInv /\ [Next]_vars => IndInv'
  BY NextInv
<1> QED BY <1>1, <1>2, PTL DEF Spec

\* The variables of runCraigOutputRange and runWithProjection keep their types,
\* and an unfinished run has a range left to prove.
THEOREM TypeCorrect == Spec => []TypeOK
<1>1. IndInv => TypeOK
  BY DEF IndInv
<1> QED BY <1>1, InvariantHolds, PTL

\* The invariant says of a single state what the runs check of it.
LEMMA InvariantIsSound ==
  ASSUME IndInv
  PROVE  SearchIsSound
<1>1. TypeOK /\ SoundInv /\ LoopInv /\ CandidateInv /\ OutcomeInv /\ problem \in Problems
  BY DEF IndInv, TypeOK
<1>2. Reachable \subseteq Reach(problem)
  BY <1>1, ReachableIsReach
<1>3. CoveredIsSound
  BY <1>1, <1>2 DEF CoveredIsSound, Unprobed, SoundInv, CoveredOK, NeverDiffers
<1>4. HelpersContainReach
  BY <1>1, <1>2 DEF HelpersContainReach, SoundInv, HelperOK, AuxOK
<1>5. SkippedRegionsAreSettled
  BY <1>1, SkippedIsSettled DEF SkippedRegionsAreSettled, TypeOK
<1>6. QAvoidsBad
  BY <1>1, QIsUnion, ContextFields DEF QAvoidsBad, LoopInv, QInv, Safe
<1>7. CandidateIsReal
  BY <1>1, DiffersAtIs DEF CandidateIsReal, CandidateInv
<1>8. OutcomeIsExact
  <2>1. ASSUME phase = "done", outcome = "Equivalent" PROVE covered = Outputs
    <3>1. todo = <<>> /\ covered \cup OutputsIn(todo) = Outputs
      BY <1>1, <2>1 DEF OutcomeInv
    <3>2. OutputsIn(todo) = {}
      BY <3>1 DEF OutputsIn
    <3> QED BY <3>1, <3>2
  <2>2. ASSUME outcome = "Different"
        PROVE  \E o \in Outputs : \E d \in 0..MaxLookahead : DiffersAt(o, d)
    BY <1>1, <2>2, DiffersAtIs DEF OutcomeInv
  <2> QED BY <2>1, <2>2 DEF OutcomeIsExact
<1> QED BY <1>1, <1>3, <1>4, <1>5, <1>6, <1>7, <1>8 DEF SearchIsSound

\* No mix of projections, helpers, mined facts, compaction and restarts makes
\* the interpolation engine cover an output that differs, keep a helper a
\* reachable state leaves, or report equivalence with an output left out.
THEOREM SearchSound == Spec => []SearchIsSound
<1>1. IndInv => SearchIsSound
  BY InvariantIsSound
<1> QED BY <1>1, InvariantHolds, PTL
=============================================================================
