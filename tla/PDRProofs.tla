----------------------------- MODULE PDRProofs -----------------------------
(***************************************************************************)
(* Proofs about PDR: type correctness, the inductive invariant of the      *)
(* frames, soundness of the Equivalent verdict, that frames are only ever  *)
(* strengthened, and that the bounds of the other two verdicts are real.   *)
(* Then about ReusableInvariant, the clauses that cross runs: what crosses *)
(* is always certified, is the maximum, is never weakened, and is what PDR *)
(* assumes of imported clauses.                                            *)
(***************************************************************************)
EXTENDS PDR, ReusableInvariant, InductionLemmas

-----------------------------------------------------------------------------
(* Cubes and clause sets *)

\* A larger cube holds in fewer states.
LEMMA InAntitone ==
  ASSUME NEW s, NEW c, NEW d, d \subseteq c, In(s, c)
  PROVE  In(s, d)
BY DEF In

\* Dropping literals from a cube leaves a cube.
LEMMA SubCube ==
  ASSUME NEW c \in Cubes, NEW d \in SUBSET c
  PROVE  d \in Cubes
BY DEF Cubes

\* The literals of a state form a cube.
LEMMA StateLiterals ==
  ASSUME NEW s \in State
  PROVE  Literals(s) \in Cubes
BY DEF Literals, Cubes, State

\* A frame that subsumes a clause excludes every state the clause excludes.
LEMMA SubsumedExcludes ==
  ASSUME NEW frame, NEW s, NEW c, Subsumed(frame, c), Allows(frame, s)
  PROVE  ~ In(s, c)
BY InAntitone DEF Subsumed, Allows

\* FrameClauses::addClause conjoins exactly the new clause, although it may
\* skip the insertion or remove subsumed clauses.
LEMMA AddClauseConjoins ==
  ASSUME NEW frame, NEW c, NEW s
  PROVE  Allows(AddClause(frame, c), s) <=> Allows(frame, s) /\ ~ In(s, c)
<1>1. CASE Subsumed(frame, c)
  BY <1>1, SubsumedExcludes DEF AddClause
<1>2. CASE ~ Subsumed(frame, c)
  <2>1. AddClause(frame, c) = {d \in frame : ~ (c \subseteq d)} \cup {c}
    BY <1>2 DEF AddClause
  <2>2. ASSUME Allows(frame, s), ~ In(s, c)
        PROVE  Allows(AddClause(frame, c), s)
    BY <2>1, <2>2 DEF Allows
  <2>3. ASSUME Allows(AddClause(frame, c), s)
        PROVE  Allows(frame, s) /\ ~ In(s, c)
    <3>1. ~ In(s, c)
      BY <2>1, <2>3 DEF Allows
    <3>2. ASSUME NEW d \in frame
          PROVE  ~ In(s, d)
      <4>1. CASE c \subseteq d
        BY <3>1, <4>1, InAntitone
      <4>2. CASE ~ (c \subseteq d)
        BY <2>1, <2>3, <4>2 DEF Allows
      <4> QED BY <4>1, <4>2
    <3> QED BY <3>1, <3>2 DEF Allows
  <2> QED BY <2>2, <2>3
<1> QED BY <1>1, <1>2

\* addClause keeps a frame a set of cubes.
LEMMA AddClauseType ==
  ASSUME NEW frame \in SUBSET Cubes, NEW c \in Cubes
  PROVE  AddClause(frame, c) \in SUBSET Cubes
BY DEF AddClause

\* A state satisfies a union of clause sets when it satisfies both.
LEMMA AllowsUnion ==
  ASSUME NEW A, NEW B, NEW s
  PROVE  Allows(A \cup B, s) <=> Allows(A, s) /\ Allows(B, s)
BY DEF Allows

\* addClause loses no clause: each old one and the new one stay subsumed.
LEMMA AddClauseSubsumes ==
  ASSUME NEW frame, NEW c, NEW d \in frame \cup {c}
  PROVE  Subsumed(AddClause(frame, c), d)
<1>1. CASE Subsumed(frame, c)
  BY <1>1 DEF AddClause, Subsumed
<1>2. CASE ~ Subsumed(frame, c)
  <2>1. AddClause(frame, c) = {e \in frame : ~ (c \subseteq e)} \cup {c}
    BY <1>2 DEF AddClause
  <2> QED BY <2>1 DEF Subsumed
<1> QED BY <1>1, <1>2

-----------------------------------------------------------------------------
\* framesConverged compares clauses by subsumption; the two frames then admit
\* the same states.
LEMMA ConvergedFramesAgree ==
  ASSUME NEW lhs, NEW rhs, FramesConverged(lhs, rhs), NEW s
  PROVE  Allows(lhs, s) <=> Allows(rhs, s)
BY SubsumedExcludes DEF FramesConverged, Allows

-----------------------------------------------------------------------------
(* Types *)

LEMMA ProblemFields ==
  ASSUME NEW p \in Problem
  PROVE  /\ p.init \subseteq State
         /\ p.next \in [Point -> State]
         /\ p.bad \subseteq Point
         /\ p.lemma \subseteq Point
         /\ p.imported \subseteq Cubes
         /\ p.dualRail \in BOOLEAN /\ p.frontier \in BOOLEAN
         /\ p.maxFrames \in 0..MaxK /\ p.maxQueries \in Nat
BY DEF Problem

LEMMA InitTypeOK == Init => TypeOK
<1> SUFFICES ASSUME Init PROVE TypeOK
  OBVIOUS
<1>1. problem \in Problem
  BY ProblemsTyped DEF Init
<1>2. {} \in Cubes
  BY DEF Cubes
<1>3. 0 \in 0..MaxK /\ budget \in Nat /\ level <= problem.maxFrames
  BY <1>1, MaxKNat, ProblemFields DEF Init
<1>4. frames \in [Levels -> SUBSET Cubes]
  BY DEF Init
<1>5. obligation \in Obligations
  BY <1>2, <1>3 DEF Init, NoObligation, Obligations
<1>6. queue \in Seq(Obligations) /\ DOMAIN queue = {}
  BY DEF Init
<1>7. result \in [status : {"Running", "Equivalent", "Different", "Inconclusive"}, bound : Nat]
  BY DEF Init, NoResult
<1> QED
  BY <1>1, <1>2, <1>3, <1>4, <1>5, <1>6, <1>7 DEF Init, TypeOK, PCs

\* The queue operations keep the queue a sequence of obligations whose levels
\* are at most the frontier's.
LEMMA QueueOperations ==
  ASSUME NEW q \in Seq(Obligations), NEW o \in Obligations, NEW n \in Nat,
         \A i \in DOMAIN q : q[i].level <= n, o.level <= n
  PROVE  /\ Enqueue(q, o) \in Seq(Obligations)
         /\ \A i \in DOMAIN Enqueue(q, o) : Enqueue(q, o)[i].level <= n
<1>1. CASE \E i \in DOMAIN q : q[i] = o
  BY <1>1 DEF Enqueue
<1>2. CASE ~ \E i \in DOMAIN q : q[i] = o
  <2>1. Enqueue(q, o) = Append(q, o)
    BY <1>2 DEF Enqueue
  <2> QED BY <2>1
<1> QED BY <1>1, <1>2

LEMMA PopType ==
  ASSUME TypeOK, NEW i \in DOMAIN queue
  PROVE  /\ Without(i) \in Seq(Obligations)
         /\ \A j \in DOMAIN Without(i) : Without(i)[j].level <= level
         /\ queue[i] \in Obligations
         /\ queue[i].cube \in Cubes /\ queue[i].level \in 0..MaxK
         /\ queue[i].badFrame \in Nat /\ queue[i].level <= level
<1>1. queue \in Seq(Obligations) /\ Len(queue) \in Nat /\ i \in 1..Len(queue)
  BY DEF TypeOK
<1>2. Without(i) \in [1..(Len(queue) - 1) -> Obligations]
  BY <1>1 DEF Without
<1>3. Without(i) \in Seq(Obligations) /\ DOMAIN Without(i) = 1..(Len(queue) - 1)
  BY <1>1, <1>2, SMT
<1>4. ASSUME NEW j \in 1..(Len(queue) - 1)
      PROVE  Without(i)[j].level <= level
  BY <1>1, <1>4 DEF Without, TypeOK
<1>5. queue[i] \in Obligations /\ queue[i].level <= level
  BY <1>1 DEF TypeOK
<1> QED BY <1>3, <1>4, <1>5 DEF Obligations

\* A budget unit is spent only when one is left.
LEMMA SpendType ==
  ASSUME budget \in Nat, Spend
  PROVE  budget' \in Nat
BY DEF Spend

\* Every action preserves the types.
LEMMA NextTypeOK == TypeOK /\ [Next]_vars => TypeOK'
<1> SUFFICES ASSUME TypeOK, [Next]_vars
             PROVE  TypeOK'
  OBVIOUS
<1>p. /\ problem \in Problem /\ problem.maxFrames \in 0..MaxK
      /\ problem.imported \subseteq Cubes /\ problem.lemma \subseteq Point
      /\ MaxK \in Nat
  BY ProblemFields, MaxKNat DEF TypeOK
<1>k. /\ {} \in Cubes /\ NoObligation \in Obligations
      /\ \A c \in Cubes : \A r \in SUBSET c : r \in Cubes /\ r \subseteq Symbols \X BOOLEAN
  BY <1>p DEF Cubes, NoObligation, Obligations
<1>l. /\ level \in Levels /\ 0 \in Levels /\ 1 \in Levels /\ level + 1 \in Levels
      /\ pushLevel + 1 \in Levels
  BY <1>p DEF TypeOK, Levels
<1>n. level \in Nat
  BY DEF TypeOK
<1>q. \A i \in DOMAIN queue :
        /\ Without(i) \in Seq(Obligations)
        /\ \A j \in DOMAIN Without(i) : Without(i)[j].level <= level
        /\ queue[i] \in Obligations
        /\ queue[i].cube \in Cubes /\ queue[i].level \in 0..MaxK
        /\ queue[i].badFrame \in Nat /\ queue[i].level <= level
  BY PopType
<1>u. CASE UNCHANGED vars
  BY <1>u DEF TypeOK, vars, blockVars, pushVars
<1>1. CASE SelectFrameInvariant
  BY <1>1, <1>p
  DEF SelectFrameInvariant, TypeOK, PCs, blockVars, pushVars, Finish
<1>2. CASE InitIsBad
  BY <1>2, <1>p
  DEF InitIsBad, TypeOK, PCs, blockVars, pushVars, Finish
<1>3. CASE BadQueryExhausted
  BY <1>3, <1>p
  DEF BadQueryExhausted, TypeOK, PCs, blockVars, pushVars, Finish
<1>4. CASE InitDecides
  BY <1>4, <1>p
  DEF InitDecides, TypeOK, PCs, blockVars, pushVars, Finish
<1>5. CASE EnterFirstFrame
  <2>1. frames' \in [Levels -> SUBSET Cubes]
    BY <1>5, <1>p, <1>l DEF EnterFirstFrame, SeedFrame, TypeOK
  <2>2. level' = 1 /\ level' \in 0..MaxK /\ level' <= problem'.maxFrames
    BY <1>5, <1>p DEF EnterFirstFrame
  <2>3. level = 0
    BY <1>5 DEF EnterFirstFrame, TypeOK
  <2>4. \A i \in DOMAIN queue' : queue'[i].level <= level'
    BY <1>5, <1>q, <2>2, <2>3 DEF EnterFirstFrame
  <2> QED BY <1>5, <2>1, <2>2, <2>4
          DEF EnterFirstFrame, TypeOK, PCs, blockVars, pushVars
<1>6. CASE QueueEmpty
  BY <1>6, <1>p
  DEF QueueEmpty, TypeOK, PCs, blockVars, pushVars, Finish
<1>7. CASE FindBadCube
  <2>0. PICK x \in BadPoints(level) : \E c \in BadCubes(x) :
          queue' = <<[cube |-> c, level |-> level, badFrame |-> level]>>
    BY <1>7 DEF FindBadCube
  <2>1. PICK c \in BadCubes(x) :
          queue' = <<[cube |-> c, level |-> level, badFrame |-> level]>>
    BY <2>0
  <2>2. x[1] \in State
    BY <2>0, <1>p, ProblemFields DEF BadPoints, Point
  <2>3. c \in Cubes
    BY <2>1, <2>2, StateLiterals, SubCube DEF BadCubes
  <2>4. [cube |-> c, level |-> level, badFrame |-> level] \in Obligations
    BY <2>3 DEF Obligations, TypeOK
  <2>5. queue' \in Seq(Obligations) /\ \A i \in DOMAIN queue' : queue'[i].level <= level
    BY <2>1, <2>4 DEF TypeOK
  <2> QED BY <1>7, <2>5 DEF FindBadCube, TypeOK, PCs, blockVars, pushVars
<1>8. ASSUME NEW i \in DOMAIN queue, AlreadyBlocked(i)
      PROVE  TypeOK'
  BY <1>8, <1>q DEF AlreadyBlocked, TypeOK, PCs, blockVars, pushVars
<1>9. ASSUME NEW i \in DOMAIN queue, BlockAtInit(i)
      PROVE  TypeOK'
  <2>1. CASE IntersectsInit(queue[i].cube)
    BY <1>9, <2>1, <1>q DEF BlockAtInit, TypeOK, PCs, blockVars, pushVars, Finish
  <2>2. CASE ~ IntersectsInit(queue[i].cube)
    <3>1. PICK r \in SUBSET queue[i].cube :
                 frames' = [frames EXCEPT ![0] = AddClause(@, r)]
      BY <1>9, <2>2 DEF BlockAtInit
    <3>a. r \in Cubes /\ frames[0] \in SUBSET Cubes
      BY <1>k, <1>l, <1>q DEF TypeOK
    <3>2. AddClause(frames[0], r) \in SUBSET Cubes
      BY <3>a, AddClauseType
    <3>3. frames' \in [Levels -> SUBSET Cubes]
      BY <3>1, <3>2 DEF TypeOK
    <3> QED BY <1>9, <2>2, <3>3, <1>q
            DEF BlockAtInit, TypeOK, PCs, blockVars, pushVars
  <2> QED BY <2>1, <2>2
<1>10. ASSUME NEW i \in DOMAIN queue, CubeMeetsInit(i)
       PROVE  TypeOK'
  BY <1>10, <1>q DEF CubeMeetsInit, TypeOK, PCs, blockVars, pushVars, Finish
<1>11. ASSUME NEW i \in DOMAIN queue, FoundPredecessor(i)
       PROVE  TypeOK'
  <2> DEFINE o == queue[i]
  <2>1. PICK x \in Predecessors(o.level - 1, {o.cube}, o.cube) :
          \E c \in PredecessorCubes(x, o.cube) :
             queue' = Enqueue(Enqueue(Without(i), o),
                              [cube |-> c, level |-> o.level - 1, badFrame |-> o.badFrame])
    BY <1>11 DEF FoundPredecessor
  <2>2. PICK c \in PredecessorCubes(x, o.cube) :
             queue' = Enqueue(Enqueue(Without(i), o),
                              [cube |-> c, level |-> o.level - 1, badFrame |-> o.badFrame])
    BY <2>1
  <2>3. x[1] \in State
    BY <2>1, <1>p DEF Predecessors, F, InitPoints, Point, TypeOK
  <2>4. c \in Cubes
    BY <2>2, <2>3, StateLiterals, SubCube DEF PredecessorCubes
  <2>5. o.level > 0
    BY <1>11 DEF FoundPredecessor, Askable
  <2>6. /\ [cube |-> c, level |-> o.level - 1, badFrame |-> o.badFrame] \in Obligations
        /\ o.level - 1 <= level
    BY <2>4, <2>5, <1>p, <1>q DEF Obligations, TypeOK
  <2>7. /\ Enqueue(Without(i), o) \in Seq(Obligations)
        /\ \A j \in DOMAIN Enqueue(Without(i), o) : Enqueue(Without(i), o)[j].level <= level
    BY <1>q, <1>n, QueueOperations
  <2>8. queue' \in Seq(Obligations) /\ \A j \in DOMAIN queue' : queue'[j].level <= level
    <3> DEFINE n == [cube |-> c, level |-> o.level - 1, badFrame |-> o.badFrame]
               q == Enqueue(Without(i), o)
    <3>1. queue' = Enqueue(q, n) /\ n \in Obligations /\ n.level <= level
      BY <2>2, <2>6
    <3> HIDE DEF n, q, o
    <3> QED BY <3>1, <2>7, <1>n, QueueOperations DEF q
  <2> QED BY <1>11, <2>8, SpendType
          DEF FoundPredecessor, TypeOK, PCs, blockVars, pushVars
<1>12. ASSUME NEW i \in DOMAIN queue, BlockQueryExhausted(i)
       PROVE  TypeOK'
  BY <1>12, <1>q
  DEF BlockQueryExhausted, Exhaustions, TypeOK, PCs, blockVars, pushVars, Finish
<1>13. ASSUME NEW i \in DOMAIN queue, NoPredecessor(i)
       PROVE  TypeOK'
  <2>1. candidate' \in SUBSET queue[i].cube
    BY <1>13 DEF NoPredecessor, Cores
  <2>2. candidate' \in Cubes /\ candidate' \subseteq Symbols \X BOOLEAN
    BY <2>1, <1>k, <1>q
  <2>3. /\ obligation' \in Obligations /\ learnedLevel' \in 0..MaxK
        /\ queue' \in Seq(Obligations)
        /\ \A j \in DOMAIN queue' : queue'[j].level <= level'
    BY <1>13, <1>q DEF NoPredecessor
  <2>4. untried' \subseteq Symbols \X BOOLEAN /\ budget' \in Nat
    BY <1>13, <2>2, SpendType DEF NoPredecessor, TypeOK
  <2>5. level > 0
    BY <1>13 DEF NoPredecessor, Askable, Popped, Pops, TypeOK
  <2> QED BY <1>13, <2>2, <2>3, <2>4, <2>5
          DEF NoPredecessor, TypeOK, PCs, pushVars
<1>14. CASE DropLiteral
  <2>1. candidate' \in SUBSET candidate /\ untried' \subseteq untried
    BY <1>14 DEF DropLiteral, Cores
  <2>2. candidate' \in Cubes
    BY <2>1, <1>k DEF TypeOK
  <2> QED BY <1>14, <2>1, <2>2, SpendType DEF DropLiteral, TypeOK, PCs, pushVars
<1>15. CASE KeepLiteral
  BY <1>15, SpendType DEF KeepLiteral, TypeOK, PCs, pushVars
<1>16. CASE GeneralizeExhausted
  BY <1>16 DEF GeneralizeExhausted, Exhaustions, TypeOK, PCs, blockVars, pushVars
<1>17. CASE Generalized
  BY <1>17 DEF Generalized, TypeOK, PCs, blockVars, pushVars
<1>18. CASE LiftBlocker
  BY <1>18, <1>p, SpendType DEF LiftBlocker, TypeOK, PCs, pushVars
<1>19. CASE LiftExhausted
  BY <1>19 DEF LiftExhausted, Exhaustions, TypeOK, PCs, blockVars, pushVars
<1>20. ASSUME frames' = AddClauseToFrames(candidate, learnedLevel)
       PROVE  frames' \in [Levels -> SUBSET Cubes]
  BY <1>20, AddClauseType DEF AddClauseToFrames, TypeOK
<1>21. CASE LearnBlocker
  <2>1. queue' \in Seq(Obligations) /\ \A j \in DOMAIN queue' : queue'[j].level <= level
    <3> DEFINE o == [cube |-> obligation.cube, level |-> obligation.level + 1,
                     badFrame |-> obligation.badFrame + 1]
    <3>1. CASE obligation.level >= level
      BY <1>21, <3>1 DEF LearnBlocker, EnqueueNext, TypeOK
    <3>2. CASE ~ (obligation.level >= level)
      <4>1. queue' = Enqueue(queue, o)
        BY <1>21, <3>2 DEF LearnBlocker, EnqueueNext
      <4>2. o \in Obligations /\ o.level <= level
        BY <3>2, <1>p DEF Obligations, TypeOK
      <4>3. queue \in Seq(Obligations) /\ \A j \in DOMAIN queue : queue[j].level <= level
        BY DEF TypeOK
      <4> HIDE DEF o
      <4> QED BY <4>1, <4>2, <4>3, <1>n, QueueOperations
    <3> QED BY <3>1, <3>2
  <2> QED BY <1>21, <2>1, <1>20, <1>k, <1>p, SpendType
          DEF LearnBlocker, ForgetBlocker, TypeOK, PCs, pushVars
<1>22. CASE LearnAndGiveUp
  BY <1>22, <1>20, <1>k, <1>p
  DEF LearnAndGiveUp, ForgetBlocker, TypeOK, PCs, pushVars, Finish
<1>23. CASE OpenNextFrame
  BY <1>23, <1>l, <1>p
  DEF OpenNextFrame, SeedFrame, TypeOK, PCs, blockVars, Levels
<1>24. CASE PushClause
  <2>1. PICK c \in pending :
          /\ frames' = [frames EXCEPT ![pushLevel + 1] = AddClause(@, c)]
          /\ pending' = pending \ {c}
    BY <1>24 DEF PushClause
  <2>2. AddClause(frames[pushLevel + 1], c) \in SUBSET Cubes
    BY <1>l, AddClauseType DEF TypeOK
  <2>3. frames' \in [Levels -> SUBSET Cubes] /\ pending' \subseteq Cubes
    BY <2>1, <2>2 DEF TypeOK
  <2> QED BY <1>24, <2>3, SpendType DEF PushClause, TypeOK, PCs, blockVars
<1>25. CASE LeaveClause
  BY <1>25, SpendType DEF LeaveClause, TypeOK, PCs, blockVars
<1>26. CASE PushExhausted
  BY <1>26 DEF PushExhausted, TypeOK, PCs, blockVars, pushVars, Finish
<1>27. CASE PushNextFrame
  BY <1>27, <1>l, <1>p DEF PushNextFrame, TypeOK, PCs, blockVars
<1>28. CASE Converge
  BY <1>28, <1>p DEF Converge, Propagated, TypeOK, PCs, blockVars, pushVars, Finish
<1>29. CASE NextLevel
  BY <1>29, <1>p, <1>q DEF NextLevel, Propagated, TypeOK, PCs, blockVars
<1>30. CASE FramesExhausted
  BY <1>30, <1>p DEF FramesExhausted, TypeOK, PCs, blockVars, pushVars, Finish
<1> QED
  BY <1>u, <1>1, <1>2, <1>3, <1>4, <1>5, <1>6, <1>7, <1>8, <1>9, <1>10, <1>11,
     <1>12, <1>13, <1>14, <1>15, <1>16, <1>17, <1>18, <1>19, <1>21, <1>22,
     <1>23, <1>24, <1>25, <1>26, <1>27, <1>28, <1>29, <1>30
  DEF Next, Done

\* Type correctness of every run, for any symbols, inputs and frame bound.
THEOREM TypeCorrect == Spec => []TypeOK
BY InitTypeOK, NextTypeOK, PTL DEF Spec

-----------------------------------------------------------------------------
(* The frames as sets of points *)

\* What blocking and propagation must keep true of the frames alone.
FramesOK ==
  FramesContainInit /\ FramesMonotone /\ FramesStepwise /\ LemmaInductive

LEMMA FramesArePoints ==
  ASSUME TypeOK, NEW k
  PROVE  F(k) \subseteq Point /\ InitPoints(problem) \subseteq Point
BY DEF TypeOK, F, InitPoints

\* F[0] is exactly Init: clauses learned there exclude no initial point.
LEMMA FrameZeroIsInit ==
  ASSUME FramesContainInit, 0 \in Levels
  PROVE  F(0) = InitPoints(problem)
BY DEF FramesContainInit, F

\* A step leads to a point of every frame whose clauses it satisfies.
LEMMA StepsStayInLemma ==
  ASSUME TypeOK, FramesOK, NEW x, NEW k \in Levels, x \in F(k), NEW i \in Inputs
  PROVE  x \in Point /\ <<problem.next[x], i>> \in frameInvariant
<1>1. x \in frameInvariant
  BY DEF F, FramesOK, FramesContainInit
<1> QED BY <1>1, FramesArePoints DEF FramesOK, LemmaInductive

\* Steps that leave problem, lemma and frames alone.
LEMMA SameFrames ==
  ASSUME UNCHANGED <<problem, frameInvariant, frames>>
  PROVE  /\ \A k : F(k)' = F(k) /\ BadPoints(k)' = BadPoints(k)
         /\ \A k, e, t : Predecessors(k, e, t)' = Predecessors(k, e, t)
         /\ \A c : IntersectsInit(c)' = IntersectsInit(c)
         /\ FramesOK => FramesOK'
<1>1. \A k : F(k)' = F(k)
  BY DEF F
<1>2. FramesOK => FramesOK'
  BY <1>1 DEF FramesOK, FramesContainInit, FramesMonotone, FramesStepwise, LemmaInductive
<1>3. \A k : BadPoints(k)' = BadPoints(k)
  BY <1>1 DEF BadPoints
<1>4. \A k, e, t : Predecessors(k, e, t)' = Predecessors(k, e, t)
  BY <1>1 DEF Predecessors
<1>5. \A c : IntersectsInit(c)' = IntersectsInit(c)
  BY DEF IntersectsInit
<1> QED BY <1>1, <1>2, <1>3, <1>4, <1>5

(***************************************************************************)
(* The one way frames change once the first one is open: the clause that   *)
(* blocks c is added to the frames of a set K.  That is sound when c misses *)
(* Init, when every frame below one of K excludes c or is in K too, and    *)
(* when no step of an earlier frame enters c.                              *)
(***************************************************************************)
LEMMA Strengthening ==
  ASSUME TypeOK, FramesOK, UNCHANGED <<problem, frameInvariant>>,
         NEW c, NEW K \in SUBSET Levels,
         \A k \in Levels : \A s :
            Allows(frames'[k], s) <=> Allows(frames[k], s) /\ (k \in K => ~ In(s, c)),
         ~ IntersectsInit(c),
         \A j, k \in Levels : j <= k /\ k \in K /\ j \notin K
                                => \A x \in F(j) : ~ In(x[1], c),
         \A k \in 0..MaxK : k + 1 \in K =>
            \A x \in F(k) : /\ k > 0 => x \notin problem.bad
                            /\ ~ In(x[1], c)
                            => ~ In(problem.next[x], c)
  PROVE  /\ FramesOK'
         /\ \A k \in Levels : F(k)' = {x \in F(k) : k \in K => ~ In(x[1], c)}
<1>l. 0 \in Levels /\ \A k \in 0..MaxK : k \in Levels /\ k + 1 \in Levels
  BY MaxKNat DEF Levels
<1>1. InitPoints(problem)' = InitPoints(problem)
  BY DEF InitPoints
<1>2. \A x \in InitPoints(problem) : ~ In(x[1], c)
  BY DEF IntersectsInit
<1>3. FramesContainInit'
  BY <1>1, <1>2 DEF FramesContainInit, FramesOK
<1>4. ASSUME NEW k \in Levels
      PROVE  F(k)' = {x \in F(k) : k \in K => ~ In(x[1], c)}
  <2>1. CASE k = 0
    BY <1>1, <1>2, <2>1 DEF F
  <2>2. CASE k # 0
    BY <2>2 DEF F
  <2> QED BY <2>1, <2>2
<1>5. FramesMonotone'
  <2> SUFFICES ASSUME NEW j \in Levels, NEW k \in Levels, j <= k, NEW x \in F(j)'
               PROVE  x \in F(k)'
    BY DEF FramesMonotone
  <2>1. x \in F(j) /\ (j \in K => ~ In(x[1], c))
    BY <1>4
  <2>2. x \in F(k)
    BY <2>1 DEF FramesOK, FramesMonotone
  <2>3. k \in K => ~ In(x[1], c)
    BY <2>1
  <2> QED BY <2>2, <2>3, <1>4
<1>6. FramesStepwise'
  <2> SUFFICES ASSUME NEW k \in 0..MaxK, NEW i \in Inputs, NEW x \in F(k)',
                      k > 0 => x \notin problem.bad
               PROVE  <<problem.next[x], i>> \in F(k + 1)'
    BY DEF FramesStepwise
  <2>1. x \in F(k) /\ (k \in K => ~ In(x[1], c))
    BY <1>4, <1>l
  <2>2. <<problem.next[x], i>> \in F(k + 1)
    BY <2>1 DEF FramesOK, FramesStepwise
  <2>3. k + 1 \in K => ~ In(x[1], c)
    BY <2>1, <1>l DEF Levels
  <2>4. k + 1 \in K => ~ In(problem.next[x], c)
    BY <2>1, <2>3
  <2> QED BY <2>2, <2>4, <1>4, <1>l
<1>7. LemmaInductive'
  BY DEF FramesOK, LemmaInductive
<1> QED BY <1>3, <1>4, <1>5, <1>6, <1>7 DEF FramesOK

-----------------------------------------------------------------------------
(* Why blockers may be learned below the frame Q2 was asked of *)

\* A cube without predecessors in a frame below the frontier has none in any
\* earlier frame: those are smaller and free of bad points.
LEMMA EarlierFramesHaveNoPredecessor ==
  ASSUME TypeOK, FramesOK, SourceFramesSafe,
         NEW top \in 0..MaxK, top < level, NEW e, NEW t,
         Predecessors(top, e, t) = {}, NEW k \in 0..top
  PROVE  Predecessors(k, e, t) = {}
<1> SUFFICES ASSUME NEW x \in Predecessors(k, e, t)
             PROVE  FALSE
  OBVIOUS
<1>1. x \in F(k) /\ Allows(e, x[1]) /\ In(problem.next[x], t)
  BY DEF Predecessors
<1>2. x \in F(top)
  BY <1>1, MaxKNat DEF FramesOK, FramesMonotone, Levels
<1>3. x \notin problem.bad
  BY <1>1, MaxKNat DEF SourceFramesSafe, BadPoints, TypeOK
<1> QED BY <1>1, <1>2, <1>3 DEF Predecessors

\* A failed-assumption core of a blockable cube is itself blockable.
LEMMA CoreIsBlocker ==
  ASSUME NEW k, NEW c, NEW r \in Cores(k, c),
         Predecessors(k, {c}, c) = {}, ~ IntersectsInit(c)
  PROVE  Predecessors(k, {r}, r) = {} /\ ~ IntersectsInit(r)
<1>1. CASE r = c
  BY <1>1
<1>2. CASE r # c
  <2>1. r \subseteq c /\ Predecessors(k, {c}, r) = {} /\ ~ IntersectsInit(r)
    BY <1>2 DEF Cores
  <2>2. ASSUME NEW x \in Predecessors(k, {r}, r)
        PROVE  x \in Predecessors(k, {c}, r)
    <3>1. ~ In(x[1], r)
      BY DEF Predecessors, Allows
    <3>2. ~ In(x[1], c)
      BY <3>1, <2>1, InAntitone
    <3> QED BY <3>2 DEF Predecessors, Allows
  <2> QED BY <2>1, <2>2
<1> QED BY <1>1, <1>2

-----------------------------------------------------------------------------
(* The inductive invariant *)

IInv ==
  /\ problem \in Problems
  /\ TypeOK
  /\ PdrInvariant
  /\ EquivalentIsSound

\* Everything but the positions in the loops follows when no frame grows, no
\* unopened frame gets a clause and the propagation phase is not entered.
LEMMA FramesShrink ==
  ASSUME IInv, TypeOK', UNCHANGED <<problem, level>>, FramesOK',
         \A k \in Levels : F(k)' \subseteq F(k),
         \A k \in Levels : frames'[k] # {} =>
            \/ frames[k] # {} \/ k <= level \/ (pc' = "push" /\ k = level + 1),
         pc' = "push" => pc = "push",
         pc' \notin {"push", "done"} => pc \notin {"push", "done"},
         LoopLevels', BlockerIsRelativelyInductive', PushSnapshot',
         EquivalentIsSound'
  PROVE  IInv'
<1>l. level \in 0..MaxK /\ level + 1 \in Levels /\ \A k \in 0..level : k \in Levels
  BY MaxKNat DEF IInv, TypeOK, Levels
<1>1. SourceFramesSafe'
  <2>1. \A k \in Levels : BadPoints(k)' \subseteq BadPoints(k)
    BY DEF BadPoints
  <2>2. level > 0 => \A k \in 0..(level - 1) : BadPoints(k)' = {}
    BY <2>1, <1>l DEF IInv, PdrInvariant, SourceFramesSafe
  <2>3. pc' = "push" => BadPoints(level)' = {}
    BY <2>1, <1>l DEF IInv, PdrInvariant, SourceFramesSafe
  <2> QED BY <2>2, <2>3 DEF SourceFramesSafe
<1>2. OpenFrames'
  <2>1. \A k \in Levels : k > level' + 1 => frames'[k] = {}
    BY <1>l DEF IInv, PdrInvariant, OpenFrames, Levels
  <2>2. pc' \notin {"push", "done"} => frames'[level' + 1] = {}
    BY <1>l DEF IInv, PdrInvariant, OpenFrames
  <2>3. \A k \in Levels :
          k > 0 /\ (k <= level' \/ (pc' = "push" /\ k = level' + 1))
            => \A x \in F(k)' : Allows(problem'.imported, x[1])
    BY DEF IInv, PdrInvariant, OpenFrames
  <2> QED BY <2>1, <2>2, <2>3 DEF OpenFrames
<1> QED
  BY <1>1, <1>2 DEF IInv, PdrInvariant, FramesOK

\* Steps that touch neither frames nor the frontier.
LEMMA QuietStep ==
  ASSUME IInv, TypeOK', UNCHANGED <<problem, frameInvariant, frames, level>>,
         pc' = "push" => pc = "push",
         pc' \notin {"push", "done"} => pc \notin {"push", "done"},
         LoopLevels', BlockerIsRelativelyInductive', PushSnapshot',
         EquivalentIsSound'
  PROVE  IInv'
<1>1. FramesOK
  BY DEF IInv, PdrInvariant, FramesOK
<1>2. FramesOK' /\ \A k : F(k)' = F(k)
  BY <1>1, SameFrames
<1>3. \A k \in Levels : F(k)' \subseteq F(k)
  BY <1>2
<1>4. \A k \in Levels : frames'[k] # {} => frames[k] # {}
  OBVIOUS
<1> QED BY <1>2, <1>3, <1>4, FramesShrink

\* Learning the generalized, lifted cube in the frames 1..learnedLevel.
LEMMA LearnedFrames ==
  ASSUME IInv, Blocking, UNCHANGED <<problem, frameInvariant>>,
         frames' = AddClauseToFrames(candidate, learnedLevel)
  PROVE  FramesOK' /\ \A k \in Levels : F(k)' \subseteq F(k)
<1> DEFINE K == 1..learnedLevel
<1>1. TypeOK /\ FramesOK /\ learnedLevel \in 0..MaxK
  BY DEF IInv, PdrInvariant, FramesOK, TypeOK
<1>2. K \in SUBSET Levels /\ 0 \in Levels
  BY <1>1, MaxKNat DEF Levels
<1>3. \A k \in Levels : \A s :
        Allows(frames'[k], s)
          <=> Allows(frames[k], s) /\ (k \in K => ~ In(s, candidate))
  BY AddClauseConjoins DEF AddClauseToFrames
<1>4. /\ ~ IntersectsInit(candidate)
      /\ \A k \in 0..(learnedLevel - 1) : Predecessors(k, {candidate}, candidate) = {}
  BY DEF IInv, PdrInvariant, BlockerIsRelativelyInductive
<1>5. \A x \in F(0) : ~ In(x[1], candidate)
  BY <1>1, <1>2, <1>4, FrameZeroIsInit DEF FramesOK, IntersectsInit
<1>6. ASSUME NEW j \in Levels, NEW k \in Levels, j <= k, k \in K, j \notin K
      PROVE  \A x \in F(j) : ~ In(x[1], candidate)
  <2>1. j = 0
    BY <1>1, <1>6 DEF Levels
  <2> QED BY <2>1, <1>5
<1>7. ASSUME NEW k \in 0..MaxK, k + 1 \in K, NEW x \in F(k),
             k > 0 => x \notin problem.bad, ~ In(x[1], candidate)
      PROVE  ~ In(problem.next[x], candidate)
  <2>0. k \in 0..(learnedLevel - 1)
    BY <1>1, <1>7
  <2>1. Predecessors(k, {candidate}, candidate) = {}
    BY <2>0, <1>4
  <2> QED BY <2>1, <1>7 DEF Predecessors, Allows
<1> HIDE DEF K
<1>8. /\ FramesOK'
      /\ \A k \in Levels : F(k)' = {x \in F(k) : k \in K => ~ In(x[1], candidate)}
  BY <1>1, <1>2, <1>3, <1>4, <1>6, <1>7, Strengthening
<1> QED BY <1>8

\* Strengthening frame 0 by a cube outside Init.
LEMMA StrengthenedInit ==
  ASSUME IInv, UNCHANGED <<problem, frameInvariant>>, NEW r, ~ IntersectsInit(r),
         frames' = [frames EXCEPT ![0] = AddClause(@, r)]
  PROVE  FramesOK' /\ \A k \in Levels : F(k)' \subseteq F(k)
<1> DEFINE K == {0}
<1>1. K \in SUBSET Levels /\ TypeOK /\ FramesOK /\ 0 \in Levels
  BY MaxKNat DEF IInv, PdrInvariant, FramesOK, Levels
<1>2. \A k \in Levels : \A s :
        Allows(frames'[k], s) <=> Allows(frames[k], s) /\ (k \in K => ~ In(s, r))
  <2>1. frames \in [Levels -> SUBSET Cubes]
    BY <1>1 DEF TypeOK
  <2> QED BY <2>1, AddClauseConjoins
<1>3. \A j, k \in Levels : j <= k /\ k \in K /\ j \notin K
                             => \A x \in F(j) : ~ In(x[1], r)
  BY DEF Levels
<1>4. \A k \in 0..MaxK : k + 1 \notin K
  BY MaxKNat
<1> HIDE DEF K
<1>5. /\ FramesOK'
      /\ \A k \in Levels : F(k)' = {x \in F(k) : k \in K => ~ In(x[1], r)}
  BY <1>1, <1>2, <1>3, <1>4, Strengthening
<1> QED BY <1>5

\* Pushing a clause of frame pushLevel one frame forward.
LEMMA PushedFrames ==
  ASSUME IInv, pc = "push", UNCHANGED <<problem, frameInvariant>>,
         NEW c \in pending, Predecessors(pushLevel, {}, c) = {},
         frames' = [frames EXCEPT ![pushLevel + 1] = AddClause(@, c)]
  PROVE  FramesOK' /\ \A k \in Levels : F(k)' \subseteq F(k)
<1> DEFINE K == {pushLevel + 1}
<1>1. /\ TypeOK /\ FramesOK
      /\ pushLevel \in 1..MaxK /\ pushLevel \in Levels /\ pushLevel + 1 \in Levels
      /\ 0 \in Levels
  BY MaxKNat DEF IInv, PdrInvariant, FramesOK, TypeOK, LoopLevels, Levels
<1>2. \A k \in Levels : \A s :
        Allows(frames'[k], s) <=> Allows(frames[k], s) /\ (k \in K => ~ In(s, c))
  <2>1. frames \in [Levels -> SUBSET Cubes]
    BY <1>1 DEF TypeOK
  <2> QED BY <2>1, AddClauseConjoins
<1>3. \A x \in F(pushLevel) : ~ In(x[1], c)
  <2>1. c \in frames[pushLevel] /\ pushLevel # 0
    BY <1>1 DEF IInv, PdrInvariant, PushSnapshot
  <2> QED BY <2>1 DEF F, Allows
<1>4. \A j \in Levels : j <= pushLevel => \A x \in F(j) : ~ In(x[1], c)
  BY <1>1, <1>3 DEF FramesOK, FramesMonotone
<1>5. ~ IntersectsInit(c)
  BY <1>1, <1>4, FrameZeroIsInit DEF IntersectsInit, FramesOK
<1>6. \A j, k \in Levels : j <= k /\ k \in K /\ j \notin K
                             => \A x \in F(j) : ~ In(x[1], c)
  BY <1>1, <1>4 DEF Levels
<1>7. ASSUME NEW k \in 0..MaxK, k + 1 \in K, NEW x \in F(k),
             k > 0 => x \notin problem.bad
      PROVE  ~ In(problem.next[x], c)
  <2>1. k = pushLevel
    BY <1>1, <1>7
  <2> QED BY <2>1, <1>7 DEF Predecessors, Allows
<1> HIDE DEF K
<1>8. /\ FramesOK'
      /\ \A k \in Levels : F(k)' = {x \in F(k) : k \in K => ~ In(x[1], c)}
  <2>1. K \in SUBSET Levels
    BY <1>1 DEF K
  <2> QED BY <2>1, <1>1, <1>2, <1>5, <1>6, <1>7, Strengthening
<1> QED BY <1>8

-----------------------------------------------------------------------------
(* Verdicts *)

\* Two adjacent frames with the same clauses describe an inductive set that
\* contains every successor of Init and no bad point.
LEMMA ConvergedFramesProve ==
  ASSUME IInv, Propagated, NEW k \in 1..level, ConvergedAt(k)
  PROVE  Holds(problem)
<1> DEFINE I == {s \in State : \A i \in Inputs : <<s, i>> \in F(k)}
<1>1. /\ TypeOK /\ FramesOK /\ level \in 0..MaxK
      /\ k \in Levels /\ k + 1 \in Levels /\ 0 \in Levels /\ 1 \in Levels
      /\ k \in 0..MaxK /\ k > 0
  BY MaxKNat DEF IInv, PdrInvariant, FramesOK, TypeOK, Levels
<1>2. F(k + 1) = F(k)
  <2>1. \A s : Allows(frames[k], s) <=> Allows(frames[k + 1], s)
    BY ConvergedFramesAgree DEF ConvergedAt
  <2>2. k # 0 /\ k + 1 # 0
    BY <1>1
  <2> QED BY <2>1, <2>2 DEF F
<1>3. BadPoints(k) = {} /\ BadPoints(0) = {}
  BY <1>1 DEF IInv, PdrInvariant, SourceFramesSafe, Propagated
<1>4. F(0) = InitPoints(problem)
  BY <1>1, FrameZeroIsInit DEF FramesOK
<1>n. \A x \in Point : problem.next[x] \in State
  BY <1>1, ProblemFields DEF TypeOK
<1>5. ASSUME NEW x \in InitPoints(problem)
      PROVE  problem.next[x] \in I
  <2>1. x \in Point
    BY DEF InitPoints
  <2>2. \A i \in Inputs : <<problem.next[x], i>> \in F(1)
    <3>1. 0 \in 0..MaxK /\ 0 + 1 = 1 /\ x \in F(0)
      BY <1>4, MaxKNat
    <3> QED BY <3>1, <1>1 DEF FramesOK, FramesStepwise
  <2>3. F(1) \subseteq F(k)
    BY <1>1 DEF FramesOK, FramesMonotone
  <2> QED BY <2>1, <2>2, <2>3, <1>n
<1>6. ASSUME NEW s \in I, NEW i \in Inputs
      PROVE  problem.next[<<s, i>>] \in I /\ <<s, i>> \notin problem.bad
  <2>1. <<s, i>> \in F(k) /\ <<s, i>> \in Point
    BY DEF Point
  <2>2. <<s, i>> \notin problem.bad
    BY <2>1, <1>3 DEF BadPoints
  <2>3. \A j \in Inputs : <<problem.next[<<s, i>>], j>> \in F(k + 1)
    BY <2>1, <2>2, <1>1 DEF FramesOK, FramesStepwise
  <2> QED BY <2>1, <2>2, <2>3, <1>2, <1>n
<1>7. InitPoints(problem) \cap problem.bad = {}
  BY <1>3, <1>4 DEF BadPoints
<1>8. I \in SUBSET State /\ Closed(problem, I)
  BY <1>5, <1>6 DEF Closed
<1> QED BY <1>6, <1>7, <1>8 DEF Holds

\* Without state symbols there is one state, and frame 0 decides.
LEMMA CombinationalProves ==
  ASSUME IInv, Symbols = {}, BadPoints(0) = {}
  PROVE  Holds(problem)
<1>1. \A s, t \in State : s = t
  BY DEF State
<1>2. /\ problem \in Problem /\ ~ problem.frontier /\ FramesContainInit
      /\ 0 \in Levels
  BY ProblemsWellFormed, MaxKNat DEF WellFormed, IInv, TypeOK, PdrInvariant, Levels
<1>3. InitPoints(problem) = {x \in Point : x[1] \in problem.init}
  BY <1>2 DEF InitPoints
<1>4. InitPoints(problem) \cap problem.bad = {}
  BY <1>2, FrameZeroIsInit DEF BadPoints
<1>5. \A x \in Point : x[1] \in State /\ problem.next[x] = x[1]
  BY <1>1, <1>2, ProblemFields DEF Point
<1>6. problem.init \in SUBSET State
  BY <1>2, ProblemFields
<1>7. \A s \in problem.init, i \in Inputs :
        /\ <<s, i>> \in InitPoints(problem)
        /\ problem.next[<<s, i>>] \in problem.init
        /\ <<s, i>> \notin problem.bad
  BY <1>3, <1>4, <1>5, <1>6 DEF Point
<1>8. Closed(problem, problem.init)
  BY <1>3, <1>5, <1>7 DEF Closed
<1> QED BY <1>4, <1>6, <1>7, <1>8 DEF Holds

-----------------------------------------------------------------------------
(* Opening frames *)

\* A new frame may start with the imported clauses because they are certified
\* and the frame before it satisfies them.
LEMMA SeededFrames ==
  ASSUME IInv, UNCHANGED <<problem, frameInvariant>>,
         NEW n \in 1..(MaxK + 1), frames[n] = {},
         frames' = [frames EXCEPT ![n] = problem.imported],
         n > 1 => \A x \in F(n - 1) : Allows(problem.imported, x[1])
  PROVE  /\ FramesOK'
         /\ \A k \in Levels : F(k)' \subseteq F(k)
         /\ \A k \in Levels \ {n} : F(k)' = F(k)
         /\ \A x \in F(n)' : Allows(problem.imported, x[1])
<1>1. /\ TypeOK /\ FramesOK /\ 0 \in Levels /\ n \in Levels /\ n # 0
      /\ n - 1 \in Levels
  BY MaxKNat DEF IInv, PdrInvariant, FramesOK, Levels
<1>2. /\ Certified(problem, problem.imported) /\ frames \in [Levels -> SUBSET Cubes]
      /\ InitPoints(problem)' = InitPoints(problem)
  BY ProblemsWellFormed DEF WellFormed, IInv, TypeOK, InitPoints
<1>3. F(0) = InitPoints(problem)
  BY <1>1, FrameZeroIsInit DEF FramesOK
<1>4. \A x \in F(n - 1) : Allows(problem.imported, x[1])
  BY <1>2, <1>3 DEF Certified
<1>5. \A j \in Levels : j < n => \A x \in F(j) : Allows(problem.imported, x[1])
  <2>1. \A j \in Levels : j < n => F(j) \subseteq F(n - 1)
    BY <1>1 DEF FramesOK, FramesMonotone, Levels
  <2> QED BY <2>1, <1>4
<1>6. \A k \in Levels \ {n} : F(k)' = F(k)
  <2>1. \A k \in Levels \ {n} : frames'[k] = frames[k]
    BY <1>2
  <2> QED BY <2>1, <1>1, <1>2 DEF F
<1>7. F(n)' = {x \in F(n) : Allows(problem.imported, x[1])}
  BY <1>1, <1>2 DEF F, Allows
<1>8. FramesContainInit'
  <2>1. \A x \in InitPoints(problem), k \in Levels : Allows(frames'[k], x[1])
    BY <1>1, <1>2, <1>3, <1>5 DEF FramesOK, FramesContainInit
  <2> QED BY <2>1, <1>1, <1>2 DEF FramesOK, FramesContainInit
<1>9. FramesMonotone'
  <2> SUFFICES ASSUME NEW j \in Levels, NEW k \in Levels, j <= k, NEW x \in F(j)'
               PROVE  x \in F(k)'
    BY DEF FramesMonotone
  <2>1. x \in F(j) /\ (j = n => Allows(problem.imported, x[1]))
    BY <1>6, <1>7
  <2>2. x \in F(k)
    BY <2>1, <1>1 DEF FramesOK, FramesMonotone
  <2>3. k = n => Allows(problem.imported, x[1])
    BY <2>1, <1>5 DEF Levels
  <2> QED BY <2>2, <2>3, <1>6, <1>7
<1>10. FramesStepwise'
  <2> SUFFICES ASSUME NEW k \in 0..MaxK, NEW i \in Inputs, NEW x \in F(k)',
                      k > 0 => x \notin problem.bad
               PROVE  <<problem.next[x], i>> \in F(k + 1)'
    BY DEF FramesStepwise
  <2>1. k \in Levels /\ k + 1 \in Levels
    BY MaxKNat DEF Levels
  <2>2. x \in F(k)
    BY <2>1, <1>6, <1>7
  <2>3. <<problem.next[x], i>> \in F(k + 1)
    BY <2>2, <1>1 DEF FramesOK, FramesStepwise
  <2>4. CASE k + 1 # n
    BY <2>1, <2>3, <2>4, <1>6
  <2>5. CASE k + 1 = n
    <3>1. Allows(problem.imported, x[1]) /\ x \in Point
      BY <2>1, <2>2, <2>5, <1>1, <1>5, FramesArePoints
    <3>2. Allows(problem.imported, problem.next[x])
      BY <3>1, <1>2 DEF Certified
    <3> QED BY <2>3, <2>5, <3>2, <1>7
  <2> QED BY <2>4, <2>5
<1>11. LemmaInductive'
  BY <1>1 DEF FramesOK, LemmaInductive
<1> QED BY <1>6, <1>7, <1>8, <1>9, <1>10, <1>11 DEF FramesOK

\* Before the first frame is opened every frame is F[0] or the lemma.
LEMMA InitIInv == Init => IInv
<1> SUFFICES ASSUME Init PROVE IInv
  OBVIOUS
<1>1. TypeOK /\ problem \in Problems /\ problem.next \in [Point -> State]
  BY InitTypeOK, ProblemFields DEF Init, TypeOK
<1>2. \A k \in Levels : F(k) = IF k = 0 THEN InitPoints(problem) ELSE Point
  <2>1. \A k \in Levels : \A s : Allows(frames[k], s)
    BY DEF Init, Allows
  <2> QED BY <2>1 DEF Init, F
<1>3. FramesContainInit
  BY DEF Init, FramesContainInit, InitPoints, Allows
<1>4. FramesMonotone
  BY <1>2 DEF FramesMonotone, InitPoints, Levels
<1>5. FramesStepwise
  <2>1. ASSUME NEW k \in 0..MaxK, NEW x \in F(k), NEW i \in Inputs
        PROVE  <<problem.next[x], i>> \in F(k + 1)
    <3>1. k \in Levels /\ k + 1 \in Levels /\ k + 1 # 0
      BY MaxKNat DEF Levels
    <3>2. x \in Point /\ problem.next[x] \in State
      BY <1>1, <1>2, <2>1, <3>1 DEF InitPoints
    <3> QED BY <3>1, <3>2, <1>2 DEF Point
  <2> QED BY <2>1 DEF FramesStepwise
<1>6. LemmaInductive
  BY <1>1 DEF Init, LemmaInductive, Point
<1>7. OpenFrames
  <2>1. level = 0 /\ pc = "start" /\ level + 1 \in Levels
    BY MaxKNat DEF Init, Levels
  <2>2. \A k \in Levels : frames[k] = {}
    BY DEF Init
  <2>3. \A k \in Levels : ~ (k > 0 /\ k <= level)
    BY <2>1 DEF Levels
  <2> QED BY <2>1, <2>2, <2>3 DEF OpenFrames
<1>8. SourceFramesSafe /\ LoopLevels /\ BlockerIsRelativelyInductive /\ PushSnapshot
  BY DEF Init, SourceFramesSafe, LoopLevels, BlockerIsRelativelyInductive,
         PushSnapshot, Blocking
<1>9. EquivalentIsSound
  BY DEF Init, EquivalentIsSound, NoResult
<1> QED
  BY <1>1, <1>3, <1>4, <1>5, <1>6, <1>7, <1>8, <1>9 DEF IInv, PdrInvariant

-----------------------------------------------------------------------------
(* Every step *)

\* After the lemma has been chosen every step keeps the frames in order and
\* only removes points from them.
LEMMA FramesStep ==
  ASSUME IInv, [Next]_vars, pc # "start"
  PROVE  FramesOK' /\ \A k \in Levels : F(k)' \subseteq F(k)
<1>1. CASE UNCHANGED <<problem, frameInvariant, frames>>
  <2>1. FramesOK
    BY DEF IInv, PdrInvariant, FramesOK
  <2> QED BY <1>1, <2>1, SameFrames
<1>2. CASE EnterFirstFrame
  <2>1. frames[1] = {} /\ 1 \in 1..(MaxK + 1) /\ ~ (1 > 1)
    BY <1>2, MaxKNat DEF EnterFirstFrame, IInv, TypeOK, PdrInvariant, OpenFrames
  <2>2. frames' = [frames EXCEPT ![1] = problem.imported]
    BY <1>2 DEF EnterFirstFrame, SeedFrame
  <2>3. UNCHANGED <<problem, frameInvariant>>
    BY <1>2 DEF EnterFirstFrame
  <2> QED BY <2>1, <2>2, <2>3, SeededFrames
<1>3. ASSUME NEW i \in DOMAIN queue, BlockAtInit(i)
      PROVE  FramesOK' /\ \A k \in Levels : F(k)' \subseteq F(k)
  <2>1. CASE IntersectsInit(queue[i].cube)
    BY <1>1, <1>3, <2>1 DEF BlockAtInit
  <2>2. CASE ~ IntersectsInit(queue[i].cube)
    <3>1. PICK r \in SUBSET queue[i].cube :
                 /\ ~ IntersectsInit(r)
                 /\ frames' = [frames EXCEPT ![0] = AddClause(@, r)]
      BY <1>3, <2>2 DEF BlockAtInit
    <3>2. UNCHANGED <<problem, frameInvariant>>
      BY <1>3 DEF BlockAtInit
    <3> QED BY <3>1, <3>2, StrengthenedInit
  <2> QED BY <2>1, <2>2
<1>4. CASE LearnBlocker \/ LearnAndGiveUp
  BY <1>4, LearnedFrames DEF LearnBlocker, LearnAndGiveUp, Blocking
<1>5. CASE OpenNextFrame
  <2>1. /\ level \in 1..MaxK /\ level \in Levels /\ level + 1 \in 1..(MaxK + 1)
        /\ (level + 1) - 1 = level /\ frames[level + 1] = {}
    BY <1>5, MaxKNat DEF OpenNextFrame, IInv, TypeOK, PdrInvariant, OpenFrames, Levels
  <2>2. \A x \in F(level) : Allows(problem.imported, x[1])
    BY <2>1 DEF IInv, PdrInvariant, OpenFrames
  <2>3. /\ frames' = [frames EXCEPT ![level + 1] = problem.imported]
        /\ UNCHANGED <<problem, frameInvariant>>
    BY <1>5 DEF OpenNextFrame, SeedFrame
  <2> QED BY <2>1, <2>2, <2>3, SeededFrames
<1>6. CASE PushClause
  <2>1. PICK c \in pending :
          /\ Predecessors(pushLevel, {}, c) = {}
          /\ frames' = [frames EXCEPT ![pushLevel + 1] = AddClause(@, c)]
    BY <1>6 DEF PushClause
  <2>2. pc = "push" /\ UNCHANGED <<problem, frameInvariant>>
    BY <1>6 DEF PushClause
  <2> QED BY <2>1, <2>2, PushedFrames
<1>7. \/ UNCHANGED <<problem, frameInvariant, frames>>
      \/ EnterFirstFrame \/ (\E i \in DOMAIN queue : BlockAtInit(i))
      \/ LearnBlocker \/ LearnAndGiveUp \/ OpenNextFrame \/ PushClause
  BY DEF Next, vars, SelectFrameInvariant, InitIsBad, BadQueryExhausted,
         InitDecides, FindBadCube, QueueEmpty, AlreadyBlocked, CubeMeetsInit,
         FoundPredecessor, BlockQueryExhausted, NoPredecessor, DropLiteral,
         KeepLiteral, GeneralizeExhausted, Generalized, LiftBlocker,
         LiftExhausted, LeaveClause, PushExhausted, PushNextFrame, Converge,
         NextLevel, FramesExhausted, Done
<1> QED BY <1>1, <1>2, <1>3, <1>4, <1>5, <1>6, <1>7

\* Choosing the strengthening lemma, while no frame holds a clause.
LEMMA ChosenLemma ==
  ASSUME IInv, SelectFrameInvariant
  PROVE  FramesOK'
<1>1. /\ frameInvariant' \subseteq Point /\ InitPoints(problem) \subseteq frameInvariant'
      /\ \A x \in frameInvariant', i \in Inputs : <<problem.next[x], i>> \in frameInvariant'
      /\ UNCHANGED <<problem, frames>> /\ InitPoints(problem)' = InitPoints(problem)
  <2>1. problem.lemma \subseteq Point /\ problem.next \in [Point -> State]
    BY ProblemFields DEF IInv, TypeOK
  <2>2. \A x \in Point, i \in Inputs : <<problem.next[x], i>> \in Point
    BY <2>1 DEF Point
  <2>3. UNCHANGED <<problem, frames>> /\ InitPoints(problem)' = InitPoints(problem)
    BY DEF SelectFrameInvariant, InitPoints
  <2>4. CASE ValidLemma
    BY <2>1, <2>3, <2>4 DEF SelectFrameInvariant, ValidLemma
  <2>5. CASE ~ ValidLemma
    BY <2>2, <2>3, <2>5 DEF SelectFrameInvariant, InitPoints
  <2> QED BY <2>4, <2>5
<1>2. \A k \in Levels \ {0} : frames[k] = {}
  <2>1. level = 0 /\ frames[1] = {} /\ \A k \in Levels : k > 1 => frames[k] = {}
    BY DEF SelectFrameInvariant, IInv, TypeOK, PdrInvariant, OpenFrames
  <2> QED BY <2>1 DEF Levels
<1>3. FramesContainInit /\ 0 \in Levels
  BY MaxKNat DEF IInv, PdrInvariant, Levels
<1>4. \A k \in Levels : F(k)' = IF k = 0 THEN InitPoints(problem) ELSE frameInvariant'
  BY <1>1, <1>2, <1>3 DEF F, Allows, FramesContainInit
<1>5. FramesContainInit'
  BY <1>1, <1>3 DEF FramesContainInit
<1>6. FramesMonotone'
  BY <1>1, <1>4 DEF FramesMonotone, Levels
<1>7. FramesStepwise'
  <2>1. ASSUME NEW k \in 0..MaxK, NEW x \in F(k)', NEW i \in Inputs
        PROVE  <<problem.next[x], i>> \in F(k + 1)'
    <3>1. k \in Levels /\ k + 1 \in Levels /\ k + 1 # 0
      BY MaxKNat DEF Levels
    <3>2. x \in frameInvariant'
      BY <1>1, <1>4, <2>1, <3>1
    <3> QED BY <3>1, <3>2, <1>1, <1>4
  <2> QED BY <2>1, <1>1 DEF FramesStepwise
<1>8. LemmaInductive'
  BY <1>1 DEF LemmaInductive
<1> QED BY <1>5, <1>6, <1>7, <1>8 DEF FramesOK

\* A step that leaves frames, lemma and the blocker alone keeps the blocker
\* relatively inductive.
LEMMA SameBlocker ==
  ASSUME IInv, Blocking, UNCHANGED <<problem, frameInvariant, frames, candidate, learnedLevel>>
  PROVE  BlockerIsRelativelyInductive'
<1>1. /\ ~ IntersectsInit(candidate)
      /\ \A k \in 0..(learnedLevel - 1) : Predecessors(k, {candidate}, candidate) = {}
  BY DEF IInv, PdrInvariant, BlockerIsRelativelyInductive
<1>2. /\ ~ IntersectsInit(candidate)'
      /\ \A k \in 0..(learnedLevel - 1) : Predecessors(k, {candidate}, candidate)' = {}
  BY <1>1 DEF IntersectsInit, Predecessors, F
<1> QED BY <1>2 DEF BlockerIsRelativelyInductive

\* A new blocker: nothing reaches it from frame top - 1.
LEMMA NewBlocker ==
  ASSUME IInv, UNCHANGED <<problem, frameInvariant, frames>>,
         ~ IntersectsInit(candidate'),
         NEW top \in 1..level, learnedLevel' = top,
         Predecessors(top - 1, {candidate'}, candidate') = {}
  PROVE  BlockerIsRelativelyInductive'
<1>1. /\ TypeOK /\ FramesOK /\ SourceFramesSafe
      /\ top - 1 \in 0..MaxK /\ top - 1 < level
  BY MaxKNat DEF IInv, PdrInvariant, FramesOK, TypeOK
<1>2. \A k \in 0..(top - 1) : Predecessors(k, {candidate'}, candidate') = {}
  BY <1>1, EarlierFramesHaveNoPredecessor
<1>3. /\ ~ IntersectsInit(candidate)'
      /\ \A k \in 0..(top - 1) : Predecessors(k, {candidate}, candidate)' = {}
  BY <1>2 DEF IntersectsInit, Predecessors, F
<1> QED BY <1>3 DEF BlockerIsRelativelyInductive

\* IInv is preserved by every action.
LEMMA NextIInv == IInv /\ [Next]_vars => IInv'
<1> SUFFICES ASSUME IInv, [Next]_vars
             PROVE  IInv'
  OBVIOUS
<1>t. TypeOK /\ TypeOK' /\ level \in 0..MaxK /\ MaxK \in Nat
  BY NextTypeOK, MaxKNat DEF IInv, TypeOK
<1>e. \/ problem' = problem /\ result' = result
      \/ result'.status # "Equivalent"
      => EquivalentIsSound'
  BY DEF IInv, EquivalentIsSound
<1>b. pc' \notin {"generalize", "lift"} => BlockerIsRelativelyInductive'
  BY DEF BlockerIsRelativelyInductive, Blocking
<1>s. pc' # "push" => PushSnapshot'
  BY DEF PushSnapshot
<1>v. pc' \notin {"start", "generalize", "lift", "push"} => LoopLevels'
  BY DEF LoopLevels, Blocking
<1>i. LoopLevels /\ PushSnapshot
  BY DEF IInv, PdrInvariant
<1>f. pc # "start" => FramesOK' /\ \A k \in Levels : F(k)' \subseteq F(k)
  BY FramesStep
<1>u. CASE UNCHANGED vars
  <2>1. UNCHANGED <<problem, frameInvariant, frames, level, pc, obligation, candidate,
                    learnedLevel, pushLevel, pending, result>>
    BY <1>u DEF vars
  <2>2. LoopLevels' /\ PushSnapshot'
    BY <2>1, <1>i DEF LoopLevels, PushSnapshot, Blocking
  <2>3. BlockerIsRelativelyInductive'
    BY <2>1, <1>b, SameBlocker DEF Blocking
  <2> QED BY <2>1, <2>2, <2>3, <1>t, <1>e, QuietStep
<1>1. CASE SelectFrameInvariant
  <2>1. FramesOK'
    BY <1>1, ChosenLemma
  <2>2. /\ pc' = "badAtInit" /\ level = 0 /\ level' = 0 /\ frames' = frames
        /\ problem' = problem /\ result' = result /\ pc = "start"
    BY <1>1 DEF SelectFrameInvariant, IInv, TypeOK
  <2>3. SourceFramesSafe'
    BY <2>2 DEF SourceFramesSafe
  <2>4. OpenFrames'
    <3>1. \A k \in Levels : ~ (k > 0 /\ k <= 0)
      BY DEF Levels
    <3>2. /\ frames[1] = {} /\ 0 + 1 = 1
          /\ \A k \in Levels : k > 1 => frames[k] = {}
      BY <2>2 DEF OpenFrames, IInv, PdrInvariant
    <3> QED BY <2>2, <3>1, <3>2 DEF OpenFrames
  <2> QED BY <2>1, <2>2, <2>3, <2>4, <1>t, <1>e, <1>b, <1>s, <1>v
          DEF IInv, PdrInvariant, FramesOK
<1>2. CASE \/ InitIsBad \/ BadQueryExhausted \/ PushExhausted \/ FramesExhausted
  BY <1>2, <1>t, <1>e, <1>b, <1>s, <1>v, QuietStep
  DEF InitIsBad, BadQueryExhausted, PushExhausted, FramesExhausted, Finish
<1>3. CASE InitDecides
  <2>1. result'.status = "Equivalent" => Symbols = {} /\ BadPoints(0) = {}
    BY <1>3 DEF InitDecides, Finish
  <2>2. EquivalentIsSound'
    BY <1>3, <2>1, CombinationalProves DEF EquivalentIsSound, InitDecides
  <2> QED BY <1>3, <2>2, <1>t, <1>b, <1>s, <1>v, QuietStep DEF InitDecides, Finish
<1>4. CASE Converge
  <2>1. PICK k \in 1..level : ConvergedAt(k)
    BY <1>4 DEF Converge
  <2>2. Holds(problem) /\ problem' = problem
    BY <1>4, <2>1, ConvergedFramesProve DEF Converge
  <2>3. EquivalentIsSound'
    BY <2>2 DEF EquivalentIsSound
  <2> QED BY <1>4, <2>3, <1>t, <1>b, <1>s, <1>v, QuietStep DEF Converge, Finish
<1>5. CASE FindBadCube \/ QueueEmpty
  BY <1>5, <1>t, <1>e, <1>b, <1>s, <1>v, QuietStep DEF FindBadCube, QueueEmpty
<1>6. ASSUME NEW i \in DOMAIN queue,
             AlreadyBlocked(i) \/ CubeMeetsInit(i) \/ FoundPredecessor(i) \/ BlockQueryExhausted(i)
      PROVE  IInv'
  BY <1>6, <1>t, <1>e, <1>b, <1>s, <1>v, QuietStep
  DEF AlreadyBlocked, CubeMeetsInit, FoundPredecessor, BlockQueryExhausted,
      Finish, Askable, Popped, Pops
<1>7. ASSUME NEW i \in DOMAIN queue, NoPredecessor(i)
      PROVE  IInv'
  <2> DEFINE o == queue[i]
  <2>1. /\ pc = "block" /\ pc' = "generalize" /\ o.level > 0 /\ ~ IntersectsInit(o.cube)
        /\ Predecessors(o.level - 1, {o.cube}, o.cube) = {}
        /\ candidate' \in Cores(o.level - 1, o.cube)
        /\ obligation' = o /\ learnedLevel' = o.level
        /\ UNCHANGED <<problem, frameInvariant, frames, level, result>>
    BY <1>7 DEF NoPredecessor, Askable, Popped, Pops
  <2>2. o.level \in 1..level
    BY <2>1, <1>t, PopType
  <2>3. BlockerIsRelativelyInductive'
    BY <2>1, <2>2, CoreIsBlocker, NewBlocker
  <2>4. LoopLevels'
    BY <2>1, <2>2, <1>t DEF LoopLevels, Blocking
  <2> QED BY <2>1, <2>3, <2>4, <1>t, <1>e, <1>s, QuietStep
<1>8. CASE DropLiteral
  <2>1. /\ pc = "generalize" /\ pc' = "generalize"
        /\ UNCHANGED <<problem, frameInvariant, frames, level, obligation, learnedLevel, result>>
    BY <1>8 DEF DropLiteral
  <2>2. learnedLevel = obligation.level /\ learnedLevel \in 1..level
    BY <2>1, <1>i, <1>t DEF LoopLevels, Blocking, TypeOK
  <2>3. PICK reduced : /\ ~ IntersectsInit(reduced)
                       /\ Predecessors(obligation.level - 1, {reduced}, reduced) = {}
                       /\ candidate' \in Cores(obligation.level - 1, reduced)
    BY <1>8 DEF DropLiteral
  <2>4. BlockerIsRelativelyInductive'
    BY <2>1, <2>2, <2>3, CoreIsBlocker, NewBlocker
  <2>5. LoopLevels'
    BY <2>1, <1>i DEF LoopLevels, Blocking
  <2> QED BY <2>1, <2>4, <2>5, <1>t, <1>e, <1>s, QuietStep
<1>9. CASE KeepLiteral \/ GeneralizeExhausted \/ Generalized \/ LiftExhausted
  <2>1. /\ Blocking /\ pc' \in {"generalize", "lift"} /\ (pc = "lift" => pc' = "lift")
        /\ UNCHANGED <<problem, frameInvariant, frames, level, obligation, candidate,
                       learnedLevel, result>>
    BY <1>9 DEF KeepLiteral, GeneralizeExhausted, Generalized, LiftExhausted, Blocking, blockVars
  <2>2. BlockerIsRelativelyInductive'
    BY <2>1, SameBlocker
  <2>3. LoopLevels'
    BY <2>1, <1>i DEF LoopLevels, Blocking
  <2> QED BY <2>1, <2>2, <2>3, <1>t, <1>e, <1>s, QuietStep DEF Blocking
<1>10. CASE LiftBlocker
  <2>1. /\ pc = "lift" /\ pc' = "lift" /\ learnedLevel + 1 < level
        /\ Predecessors(learnedLevel, {candidate}, candidate) = {}
        /\ learnedLevel' = learnedLevel + 1 /\ candidate' = candidate
        /\ UNCHANGED <<problem, frameInvariant, frames, level, obligation, result>>
    BY <1>10 DEF LiftBlocker
  <2>2. learnedLevel + 1 \in 1..level /\ (learnedLevel + 1) - 1 = learnedLevel
    BY <2>1, <1>t DEF TypeOK
  <2>3. ~ IntersectsInit(candidate')
    BY <2>1 DEF IInv, PdrInvariant, BlockerIsRelativelyInductive, Blocking
  <2>4. BlockerIsRelativelyInductive'
    BY <2>1, <2>2, <2>3, NewBlocker
  <2>5. LoopLevels'
    BY <2>1, <1>i, <1>t DEF LoopLevels, Blocking, TypeOK, Obligations
  <2> QED BY <2>1, <2>4, <2>5, <1>t, <1>e, <1>s, QuietStep
<1>11. ASSUME NEW i \in DOMAIN queue, BlockAtInit(i)
       PROVE  IInv'
  <2>1. /\ pc = "block" /\ pc' \in {"block", "done"} /\ UNCHANGED <<problem, level>>
        /\ result' = result \/ result'.status = "Different"
        /\ \A k \in Levels : k # 0 => frames'[k] = frames[k]
    BY <1>11, <1>t DEF BlockAtInit, Popped, Pops, Finish, TypeOK
  <2>2. \A k \in Levels : frames'[k] # {} => frames[k] # {} \/ k <= level
    BY <2>1, <1>t
  <2> QED BY <2>1, <2>2, <1>t, <1>f, <1>e, <1>b, <1>s, <1>v, FramesShrink
<1>12. CASE LearnBlocker \/ LearnAndGiveUp
  <2>1. /\ pc = "lift" /\ pc' \in {"block", "done"} /\ UNCHANGED <<problem, level>>
        /\ result' = result \/ result'.status = "Inconclusive"
        /\ frames' = AddClauseToFrames(candidate, learnedLevel)
    BY <1>12 DEF LearnBlocker, LearnAndGiveUp, Finish
  <2>2. learnedLevel \in 0..MaxK /\ learnedLevel <= level
    BY <2>1, <1>i, <1>t DEF LoopLevels, Blocking, TypeOK
  <2>3. \A k \in Levels : frames'[k] # {} => frames[k] # {} \/ k <= level
    BY <2>1, <2>2, <1>t DEF AddClauseToFrames, Levels
  <2> QED BY <2>1, <2>3, <1>t, <1>f, <1>e, <1>b, <1>s, <1>v, FramesShrink
<1>13. CASE PushClause
  <2>1. PICK c \in pending :
          /\ frames' = [frames EXCEPT ![pushLevel + 1] = AddClause(@, c)]
          /\ pending' = pending \ {c}
    BY <1>13 DEF PushClause
  <2>2. /\ pc = "push" /\ pc' = "push"
        /\ UNCHANGED <<problem, level, pushLevel, result>>
    BY <1>13 DEF PushClause
  <2>3. /\ pushLevel \in 1..MaxK /\ pushLevel <= level
        /\ pushLevel \in Levels /\ pushLevel # pushLevel + 1
    BY <2>2, <1>i, <1>t DEF LoopLevels, TypeOK, Levels
  <2>4. frames'[pushLevel] = frames[pushLevel]
    BY <2>1, <2>3, <1>t DEF TypeOK
  <2>5. PushSnapshot'
    BY <2>1, <2>2, <2>4, <1>i DEF PushSnapshot
  <2>6. LoopLevels'
    BY <2>2, <1>i DEF LoopLevels, Blocking
  <2>7. \A k \in Levels : frames'[k] # {} =>
           \/ frames[k] # {} \/ k <= level \/ (pc' = "push" /\ k = level + 1)
    BY <2>1, <2>2, <2>3, <1>t DEF TypeOK, Levels
  <2> QED BY <2>2, <2>5, <2>6, <2>7, <1>t, <1>f, <1>e, <1>b, FramesShrink
<1>14. CASE LeaveClause \/ PushNextFrame
  <2>1. /\ pc = "push" /\ pc' = "push"
        /\ UNCHANGED <<problem, frameInvariant, frames, level, result>>
    BY <1>14 DEF LeaveClause, PushNextFrame
  <2>2. PushSnapshot'
    BY <1>14, <2>1, <1>i DEF LeaveClause, PushNextFrame, PushSnapshot
  <2>3. LoopLevels'
    BY <1>14, <2>1, <1>i, <1>t DEF LeaveClause, PushNextFrame, LoopLevels, Blocking, TypeOK
  <2> QED BY <2>1, <2>2, <2>3, <1>t, <1>e, <1>b, QuietStep
<1>15. CASE EnterFirstFrame
  <2>1. /\ pc = "badAtInit" /\ pc' = "findBad" /\ level = 0 /\ level' = 1
        /\ BadPoints(0) = {} /\ frames' = [frames EXCEPT ![1] = problem.imported]
        /\ UNCHANGED <<problem, frameInvariant, result>> /\ MaxK > 0
        /\ 0 \in Levels /\ 1 \in Levels /\ 2 \in Levels
    BY <1>15, <1>t DEF EnterFirstFrame, SeedFrame, TypeOK, Levels
  <2>2. frames[1] = {} /\ \A k \in Levels : k > 1 => frames[k] = {}
    BY <2>1 DEF IInv, PdrInvariant, OpenFrames
  <2>3. \A x \in F(1)' : Allows(problem.imported, x[1])
    <3>1. 1 \in 1..(MaxK + 1) /\ ~ (1 > 1)
      BY <1>t
    <3> QED BY <2>1, <2>2, <3>1, SeededFrames
  <2>4. SourceFramesSafe'
    <3>1. BadPoints(0)' = {}
      BY <2>1, <1>f DEF BadPoints
    <3> QED BY <2>1, <3>1 DEF SourceFramesSafe
  <2>5. OpenFrames'
    <3>1. \A k \in Levels : k > 1 + 1 => frames'[k] = {}
      BY <2>1, <2>2, <1>t DEF TypeOK, Levels
    <3>2. \A k \in Levels : k > 0 /\ k <= 1 => k = 1
      BY DEF Levels
    <3>3. frames'[1 + 1] = {}
      BY <2>1, <2>2, <1>t DEF TypeOK
    <3> QED BY <2>1, <2>3, <3>1, <3>2, <3>3 DEF OpenFrames
  <2> QED BY <2>1, <2>4, <2>5, <1>f, <1>t, <1>e, <1>b, <1>s, <1>v
          DEF IInv, PdrInvariant, FramesOK
<1>16. CASE OpenNextFrame
  <2>1. /\ pc = "findBad" /\ pc' = "push" /\ level \in 1..MaxK /\ level' = level
        /\ BadPoints(level) = {} /\ frames' = [frames EXCEPT ![level + 1] = problem.imported]
        /\ UNCHANGED <<problem, frameInvariant, result>>
        /\ pushLevel' = 1 /\ pending' = frames[1]
        /\ level \in Levels /\ level + 1 \in Levels /\ 1 \in Levels
    BY <1>16, <1>t DEF OpenNextFrame, SeedFrame, TypeOK, Levels
  <2>2. /\ frames[level + 1] = {} /\ \A k \in Levels : k > level + 1 => frames[k] = {}
        /\ \A k \in Levels : k > 0 /\ k <= level
                               => \A x \in F(k) : Allows(problem.imported, x[1])
    BY <2>1 DEF IInv, PdrInvariant, OpenFrames
  <2>3. \A x \in F(level + 1)' : Allows(problem.imported, x[1])
    <3>1. level + 1 \in 1..(MaxK + 1) /\ (level + 1) - 1 = level
      BY <2>1, <1>t
    <3>2. \A x \in F((level + 1) - 1) : Allows(problem.imported, x[1])
      BY <2>1, <2>2, <3>1
    <3> QED BY <2>1, <2>2, <3>1, <3>2, SeededFrames
  <2>4. SourceFramesSafe'
    <3>1. \A k \in 0..level : BadPoints(k) = {} /\ k \in Levels
      BY <2>1, <1>t DEF IInv, PdrInvariant, SourceFramesSafe, Levels
    <3>2. \A k \in 0..level : BadPoints(k)' = {}
      BY <2>1, <3>1, <1>f DEF BadPoints
    <3> QED BY <2>1, <3>2 DEF SourceFramesSafe
  <2>5. OpenFrames'
    <3>1. \A k \in Levels : k > level + 1 => frames'[k] = {}
      BY <2>1, <2>2, <1>t DEF TypeOK
    <3>2. \A k \in Levels : k > 0 /\ k <= level
            => \A x \in F(k)' : Allows(problem.imported, x[1])
      BY <2>1, <2>2, <1>f
    <3> QED BY <2>1, <2>3, <3>1, <3>2 DEF OpenFrames
  <2>6. PushSnapshot'
    <3>1. frames'[1] = frames[1]
      BY <2>1, <1>t DEF TypeOK
    <3> QED BY <2>1, <3>1 DEF PushSnapshot
  <2>7. LoopLevels'
    BY <2>1 DEF LoopLevels, Blocking
  <2> QED BY <2>1, <2>4, <2>5, <2>6, <2>7, <1>f, <1>t, <1>e, <1>b
          DEF IInv, PdrInvariant, FramesOK
<1>17. CASE NextLevel
  <2>1. /\ pc = "push" /\ pc' = "findBad" /\ level' = level + 1 /\ level + 1 <= MaxK
        /\ UNCHANGED <<problem, frameInvariant, frames, result>>
        /\ level \in 1..MaxK /\ level + 1 \in Levels /\ level + 2 \in Levels
    BY <1>17, <1>t, ProblemFields DEF NextLevel, Propagated, TypeOK, Levels
  <2>2. \A k : F(k)' = F(k) /\ BadPoints(k)' = BadPoints(k)
    BY <2>1, SameFrames
  <2>3. SourceFramesSafe'
    <3>1. \A k \in 0..level : BadPoints(k) = {}
      BY <2>1, <1>t DEF IInv, PdrInvariant, SourceFramesSafe
    <3> QED BY <2>1, <2>2, <3>1 DEF SourceFramesSafe
  <2>4. OpenFrames'
    BY <2>1, <2>2 DEF IInv, PdrInvariant, OpenFrames, Levels
  <2> QED BY <2>1, <2>3, <2>4, <1>f, <1>t, <1>e, <1>b, <1>s, <1>v
          DEF IInv, PdrInvariant, FramesOK
<1> QED
  BY <1>u, <1>1, <1>2, <1>3, <1>4, <1>5, <1>6, <1>7, <1>8, <1>9, <1>10, <1>11,
     <1>12, <1>13, <1>14, <1>15, <1>16, <1>17
  DEF Next, Done

-----------------------------------------------------------------------------
(* Theorems *)

\* The frames of a run always contain Init, grow with their index, are closed
\* under steps and safe below the frontier, and the cube being generalized may
\* be learned, in the middle of every phase of the main loop.
THEOREM FramesInductive == Spec => []PdrInvariant
<1>1. IInv => PdrInvariant
  BY DEF IInv
<1> QED BY <1>1, InitIInv, NextIInv, PTL DEF Spec

\* An Equivalent verdict of the engine is right for every product machine,
\* every lemma, every set of imported clauses and every answer of the solvers.
THEOREM EquivalentSound == Spec => []EquivalentIsSound
<1>1. IInv => EquivalentIsSound
  BY DEF IInv
<1> QED BY <1>1, InitIInv, NextIInv, PTL DEF Spec

\* Once the lemma is chosen no frame ever readmits a point, which the query
\* cache relies on when it keeps UNSAT answers across frame strengthenings.
THEOREM FramesOnlyShrink == Spec => FramesOnlyStrengthen
<1>1. IInv /\ [Next]_vars => [pc # "start" => \A k \in Levels : F(k)' \subseteq F(k)]_vars
  BY FramesStep
<1> QED BY <1>1, InitIInv, NextIInv, PTL DEF Spec, FramesOnlyStrengthen

-----------------------------------------------------------------------------
(* Distances to a bad point *)

\* BadAfter is the function its recursion describes.
LEMMA BadAfterUnfolds ==
  ASSUME NEW p
  PROVE  /\ BadAfter(p)[0] = BadNow(p)
         /\ \A n \in Nat : BadAfter(p)[n + 1] = Before(p, BadAfter(p)[n])
<1> DEFINE T == SUBSET State
           g == [S \in T |-> Before(p, S)]
<1>1. BadNow(p) \in T /\ g \in [T -> T]
  BY DEF BadNow, Before
<1>2. PICK f \in [Nat -> T] : f[0] = BadNow(p) /\ \A n \in Nat : f[n + 1] = g[f[n]]
  <2> HIDE DEF T, g
  <2> QED BY <1>1, RecursionExists
<1> DEFINE h == [n \in Nat |-> IF n = 0 THEN BadNow(p) ELSE Before(p, f[n - 1])]
<1>3. ASSUME NEW n \in Nat PROVE h[n] = f[n]
  <2>1. CASE n = 0
    BY <1>2, <2>1
  <2>2. CASE n # 0
    <3>1. n - 1 \in Nat /\ (n - 1) + 1 = n
      BY <2>2
    <3>2. f[n] = g[f[n - 1]] /\ f[n - 1] \in T
      BY <1>2, <3>1
    <3> QED BY <2>2, <3>2
  <2> QED BY <2>1, <2>2
<1>4. f = h
  <2>1. f = [n \in Nat |-> f[n]] /\ h = [n \in Nat |-> h[n]]
    BY <1>2
  <2> HIDE DEF h
  <2> QED BY <1>3, <2>1
<1>5. \E B : B = [n \in Nat |-> IF n = 0 THEN BadNow(p) ELSE Before(p, B[n - 1])]
  BY <1>4
<1>6. BadAfter(p) = [n \in Nat |-> IF n = 0 THEN BadNow(p) ELSE Before(p, BadAfter(p)[n - 1])]
  BY <1>5, Zenon DEF BadAfter
<1> QED BY <1>6

-----------------------------------------------------------------------------
(* What the frames say about distances *)

\* The states all of whose points frame k admits.
Full(k) ==
  {s \in State : Inputs # {} /\ \A i \in Inputs : <<s, i>> \in F(k)}

\* A step from a full state of frame k that is not bad leads to a full state
\* of frame k + 1.
LEMMA FullStep ==
  ASSUME TypeOK, FramesStepwise, NEW k \in 0..MaxK, NEW x \in F(k),
         k > 0 => x \notin problem.bad
  PROVE  problem.next[x] \in Full(k + 1)
<1>1. x \in Point /\ problem.next[x] \in State /\ Inputs # {}
  BY FramesArePoints, ProblemFields DEF TypeOK, Point
<1>2. \A i \in Inputs : <<problem.next[x], i>> \in F(k + 1)
  BY DEF FramesStepwise
<1> QED BY <1>1, <1>2 DEF Full

\* Frames 0..m without bad points leave no counterexample of m steps or fewer.
LEMMA NoShortWitness ==
  ASSUME TypeOK, FramesContainInit, FramesStepwise, NEW m \in 0..MaxK,
         \A k \in 0..m : BadPoints(k) = {}
  PROVE  \A n \in 0..m : ~ WitnessAt(problem, n)
<1> DEFINE B == BadAfter(problem)
           Clear(d) == \A k \in 1..(m - d) : Full(k) \cap B[d] = {}
           S == {d \in Nat : Clear(d)}
<1>b. B[0] = BadNow(problem) /\ \A n \in Nat : B[n + 1] = Before(problem, B[n])
  BY BadAfterUnfolds
<1>m. MaxK \in Nat /\ m \in Nat /\ m <= MaxK
  BY MaxKNat
<1> HIDE DEF B
<1>1. 0 \in S
  <2> SUFFICES ASSUME NEW k \in 1..(m - 0), NEW s \in Full(k), s \in B[0]
               PROVE  FALSE
    OBVIOUS
  <2>1. PICK i \in Inputs : <<s, i>> \in problem.bad
    BY <1>b DEF BadNow
  <2>2. <<s, i>> \in F(k) /\ k \in 0..m
    BY <1>m DEF Full
  <2> QED BY <2>1, <2>2 DEF BadPoints
<1>2. ASSUME NEW d \in S PROVE d + 1 \in S
  <2> SUFFICES ASSUME NEW k \in 1..(m - (d + 1)), NEW s \in Full(k), s \in B[d + 1]
               PROVE  FALSE
    OBVIOUS
  <2>1. PICK i \in Inputs : problem.next[<<s, i>>] \in B[d]
    BY <1>b DEF Before
  <2>2. <<s, i>> \in F(k)
    BY DEF Full
  <2>3. k \in 0..MaxK /\ k \in 0..m /\ k + 1 \in 1..(m - d)
    BY <1>m
  <2>4. problem.next[<<s, i>>] \in Full(k + 1)
    BY <2>2, <2>3, FullStep DEF BadPoints
  <2>5. Clear(d)
    OBVIOUS
  <2> QED BY <2>1, <2>3, <2>4, <2>5
<1>3. S = Nat
  <2>1. S \subseteq Nat
    OBVIOUS
  <2> HIDE DEF S
  <2> QED BY <1>1, <1>2, <2>1, InductiveSet
<1>4. ASSUME NEW n \in 0..m, NEW x \in InitPoints(problem),
             IF n = 0 THEN x \in problem.bad ELSE problem.next[x] \in B[n - 1]
      PROVE  FALSE
  <2>1. x \in F(0) /\ 0 \in 0..m /\ 0 \in 0..MaxK /\ ~ (0 > 0)
    BY <1>m, FrameZeroIsInit DEF Levels
  <2>2. CASE n = 0
    BY <1>4, <2>1, <2>2 DEF BadPoints
  <2>3. CASE n # 0
    <3>1. problem.next[x] \in Full(0 + 1)
      BY <2>1, FullStep
    <3>2. n - 1 \in S /\ 1 \in 1..(m - (n - 1))
      BY <1>3, <1>m, <2>3
    <3>3. Clear(n - 1)
      BY <3>2
    <3>4. problem.next[x] \in Full(1)
      BY <3>1
    <3>5. Full(1) \cap B[n - 1] = {}
      BY <3>2, <3>3
    <3> QED BY <1>4, <2>3, <3>4, <3>5
  <2> QED BY <2>2, <2>3
<1> QED BY <1>4 DEF WitnessAt, B
-----------------------------------------------------------------------------
(* What queued obligations mean *)

FullFrames == [k \in Levels |-> Full(k)]

\* Every state of the cube reaches bad in badFrame - level steps, and none is
\* left in the frame below, whose full states are full[level - 1].
Real(p, full, o) ==
  /\ o.level <= o.badFrame
  /\ \A s \in State : In(s, o.cube) => s \in BadAfter(p)[o.badFrame - o.level]
  /\ o.level > 0 => \A s \in full[o.level - 1] : ~ In(s, o.cube)

\* The obligations in the queue and the one being learned from are real; a
\* verdict is only there when the run is over.
CexInv ==
  /\ \A j \in DOMAIN queue : Real(problem, FullFrames, queue[j])
  /\ Blocking => /\ candidate \subseteq obligation.cube
                 /\ Real(problem, FullFrames, obligation)
  /\ pc # "done" => result = NoResult

LEMMA RealShrinks ==
  ASSUME NEW p, NEW L, NEW M, NEW o \in Obligations,
         \A k \in Levels : M[k] \subseteq L[k], Real(p, L, o)
  PROVE  Real(p, M, o)
<1>1. o.level > 0 => o.level - 1 \in Levels
  BY MaxKNat DEF Obligations, Levels
<1> QED BY <1>1 DEF Real

\* No frame gains a full state, and the problem is never replaced.
LEMMA FullShrinks ==
  ASSUME IInv, [Next]_vars
  PROVE  /\ problem' = problem
         /\ \A k \in Levels : FullFrames'[k] \subseteq FullFrames[k]
<1>1. problem' = problem
  BY DEF vars, Next, Done, SelectFrameInvariant, InitIsBad, BadQueryExhausted, InitDecides,
         EnterFirstFrame, FindBadCube, QueueEmpty, AlreadyBlocked, BlockAtInit,
         CubeMeetsInit, FoundPredecessor, BlockQueryExhausted, NoPredecessor,
         DropLiteral, KeepLiteral, GeneralizeExhausted, Generalized, LiftBlocker,
         LiftExhausted, LearnBlocker, LearnAndGiveUp, OpenNextFrame, PushClause,
         LeaveClause, PushExhausted, PushNextFrame, Converge, NextLevel, FramesExhausted
<1>2. ASSUME NEW k \in Levels PROVE F(k)' \subseteq F(k)
  <2>1. CASE pc # "start"
    BY <2>1, FramesStep
  <2>2. CASE pc = "start"
    <3>1. SelectFrameInvariant \/ UNCHANGED vars
      BY <2>2 DEF Next, Done, InitIsBad, BadQueryExhausted, InitDecides,
         EnterFirstFrame, FindBadCube, QueueEmpty, AlreadyBlocked, BlockAtInit,
         CubeMeetsInit, FoundPredecessor, BlockQueryExhausted, NoPredecessor,
         Askable, Popped, Pops, DropLiteral, KeepLiteral, GeneralizeExhausted,
         Generalized, LiftBlocker, LiftExhausted, LearnBlocker, LearnAndGiveUp,
         OpenNextFrame, PushClause, LeaveClause, PushExhausted, PushNextFrame,
         Converge, NextLevel, FramesExhausted, Propagated
    <3>2. frames' = frames /\ frameInvariant' \subseteq Point /\ frameInvariant = Point
      <4>1. frameInvariant = Point /\ problem.lemma \subseteq Point
        BY <2>2, ProblemFields DEF IInv, PdrInvariant, LoopLevels, TypeOK
      <4> QED BY <3>1, <4>1 DEF SelectFrameInvariant, vars
    <3> QED BY <1>1, <3>2 DEF F
  <2> QED BY <2>1, <2>2
<1>3. ASSUME NEW k \in Levels PROVE FullFrames'[k] \subseteq FullFrames[k]
  BY <1>2 DEF FullFrames, Full
<1> QED BY <1>1, <1>3

LEMMA WithoutElements ==
  ASSUME TypeOK, NEW i \in DOMAIN queue, NEW j \in DOMAIN Without(i)
  PROVE  \E k \in DOMAIN queue : Without(i)[j] = queue[k]
<1>1. queue \in Seq(Obligations) /\ Len(queue) \in Nat /\ DOMAIN queue = 1..Len(queue)
  BY DEF TypeOK
<1>2. j \in 1..(Len(queue) - 1)
  BY DEF Without
<1>3. j \in DOMAIN queue /\ j + 1 \in DOMAIN queue
  BY <1>1, <1>2
<1> QED BY <1>2, <1>3 DEF Without

LEMMA EnqueueElements ==
  ASSUME NEW q \in Seq(Obligations), NEW o \in Obligations, NEW j \in DOMAIN Enqueue(q, o)
  PROVE  \/ Enqueue(q, o)[j] = o
         \/ \E k \in DOMAIN q : Enqueue(q, o)[j] = q[k]
<1>1. CASE \E k \in DOMAIN q : q[k] = o
  BY <1>1 DEF Enqueue
<1>2. CASE ~ \E k \in DOMAIN q : q[k] = o
  <2>1. Enqueue(q, o) = Append(q, o)
    BY <1>2 DEF Enqueue
  <2>2. j \in 1..Len(q) + 1
    BY <2>1
  <2>3. CASE j = Len(q) + 1
    BY <2>1, <2>3
  <2>4. CASE j \in 1..Len(q)
    BY <2>1, <2>4
  <2> QED BY <2>2, <2>3, <2>4
<1> QED BY <1>1, <1>2
\* A bad cube of the frontier is at distance 0 from bad, and the frame below
\* has no bad point.
LEMMA BadCubeIsReal ==
  ASSUME IInv, pc = "findBad", NEW x \in BadPoints(level), NEW c \in BadCubes(x)
  PROVE  Real(problem, FullFrames, [cube |-> c, level |-> level, badFrame |-> level])
<1>1. /\ level \in Nat /\ level > 0 /\ level - level = 0 /\ level - 1 \in 0..(level - 1)
      /\ level - 1 \in Levels
  BY MaxKNat DEF IInv, TypeOK, Levels
<1>2. x[2] \in Inputs
  BY ProblemFields DEF BadPoints, IInv, TypeOK, Point
<1>3. ASSUME NEW s \in State, In(s, c) PROVE <<s, x[2]>> \in problem.bad
  BY <1>3 DEF BadCubes
<1>4. \A s \in State : In(s, c) => s \in BadAfter(problem)[0]
  BY <1>2, <1>3, BadAfterUnfolds DEF BadNow
<1>5. BadPoints(level - 1) = {}
  BY <1>1 DEF IInv, PdrInvariant, SourceFramesSafe
<1>6. ASSUME NEW s \in FullFrames[level - 1], In(s, c) PROVE FALSE
  <2>1. s \in State /\ <<s, x[2]>> \in F(level - 1)
    BY <1>1, <1>2 DEF FullFrames, Full
  <2> QED BY <2>1, <1>3, <1>5, <1>6 DEF BadPoints
<1> QED BY <1>1, <1>4, <1>6 DEF Real

\* A predecessor cube is one step further from bad, and empty in the frame
\* below: a state there would step into the frame the obligation missed.
LEMMA PredecessorIsReal ==
  ASSUME IInv, NEW o \in Obligations, 0 < o.level, o.level <= level,
         Real(problem, FullFrames, o),
         NEW x \in Predecessors(o.level - 1, {o.cube}, o.cube),
         NEW c \in PredecessorCubes(x, o.cube)
  PROVE  Real(problem, FullFrames,
              [cube |-> c, level |-> o.level - 1, badFrame |-> o.badFrame])
<1> DEFINE B == BadAfter(problem)
           n == o.badFrame - o.level
<1>1. /\ o.level \in Nat /\ o.badFrame \in Nat /\ o.level <= o.badFrame /\ n \in Nat
      /\ o.badFrame - (o.level - 1) = n + 1 /\ level \in 0..MaxK /\ MaxK \in Nat
  BY MaxKNat DEF Obligations, Real, IInv, TypeOK
<1>2. x[2] \in Inputs
  BY FramesArePoints DEF Predecessors, IInv, Point
<1>3. \A s \in State : In(s, c) => In(problem.next[<<s, x[2]>>], o.cube)
  BY DEF PredecessorCubes
<1>4. \A s \in State : problem.next[<<s, x[2]>>] \in State
  BY <1>2, ProblemFields DEF IInv, TypeOK, Point
<1>5. \A s \in State : In(s, o.cube) => s \in B[n]
  BY DEF Real
<1>6. B[n + 1] = Before(problem, B[n])
  BY <1>1, BadAfterUnfolds
<1> HIDE DEF B
<1>7. ASSUME NEW s \in State, In(s, c) PROVE s \in B[n + 1]
  BY <1>2, <1>3, <1>4, <1>5, <1>6, <1>7 DEF Before
<1>8. ASSUME o.level - 1 > 0, NEW s \in FullFrames[(o.level - 1) - 1], In(s, c)
      PROVE  FALSE
  <2> DEFINE k == o.level - 2
  <2>1. /\ k \in 0..MaxK /\ k \in Levels /\ k + 1 \in Levels /\ k \in 0..(level - 1)
        /\ (o.level - 1) - 1 = k /\ o.level - 1 = k + 1 /\ level > 0
    BY <1>1, <1>8 DEF Levels
  <2>2. s \in State /\ <<s, x[2]>> \in F(k)
    BY <1>2, <1>8, <2>1 DEF FullFrames, Full
  <2>3. <<s, x[2]>> \notin problem.bad
    BY <2>1, <2>2 DEF IInv, PdrInvariant, SourceFramesSafe, BadPoints
  <2>4. problem.next[<<s, x[2]>>] \in Full(k + 1)
    BY <2>1, <2>2, <2>3, FullStep DEF IInv, PdrInvariant
  <2>5. problem.next[<<s, x[2]>>] \in FullFrames[o.level - 1]
    BY <2>1, <2>4 DEF FullFrames
  <2> QED BY <1>3, <1>8, <2>2, <2>5 DEF Real
<1> QED BY <1>1, <1>7, <1>8 DEF Real, B

\* Off the observation frontier every input of an initial state is initial, so
\* a real obligation that meets Init has reached frame 0 and names a path.
LEMMA MeetingInitIsReal ==
  ASSUME IInv, ~ problem.frontier, NEW o \in Obligations,
         Real(problem, FullFrames, o), IntersectsInit(o.cube)
  PROVE  o.level = 0 /\ WitnessAt(problem, o.badFrame)
<1>1. PICK x \in InitPoints(problem) : In(x[1], o.cube)
  BY DEF IntersectsInit
<1>2. x[1] \in State /\ x[2] \in Inputs /\ \A i \in Inputs : <<x[1], i>> \in InitPoints(problem)
  BY <1>1 DEF InitPoints, Point
<1>3. o.level \in 0..MaxK /\ o.badFrame \in Nat /\ MaxK \in Nat
  BY MaxKNat DEF Obligations
<1>4. ASSUME o.level > 0 PROVE FALSE
  <2>1. 0 \in Levels /\ o.level - 1 \in Levels /\ 0 <= o.level - 1
    BY <1>3, <1>4 DEF Levels
  <2>2. \A i \in Inputs : <<x[1], i>> \in F(o.level - 1)
    BY <1>2, <2>1, FrameZeroIsInit DEF IInv, PdrInvariant, FramesMonotone
  <2>3. x[1] \in FullFrames[o.level - 1]
    BY <1>2, <2>1, <2>2 DEF FullFrames, Full
  <2> QED BY <1>1, <1>4, <2>3 DEF Real
<1>5. o.level = 0 /\ x[1] \in BadAfter(problem)[o.badFrame]
  <2>1. o.level = 0 /\ o.badFrame - o.level = o.badFrame
    BY <1>3, <1>4
  <2> QED BY <1>1, <1>2, <2>1 DEF Real
<1>6. CASE o.badFrame = 0
  <2>1. PICK i \in Inputs : <<x[1], i>> \in problem.bad
    BY <1>5, <1>6, BadAfterUnfolds DEF BadNow
  <2> QED BY <1>2, <1>5, <1>6, <2>1 DEF WitnessAt
<1>7. CASE o.badFrame # 0
  <2>1. o.badFrame - 1 \in Nat /\ (o.badFrame - 1) + 1 = o.badFrame
    BY <1>3, <1>7
  <2>2. BadAfter(problem)[o.badFrame] = Before(problem, BadAfter(problem)[o.badFrame - 1])
    BY <2>1, BadAfterUnfolds
  <2>3. PICK i \in Inputs : problem.next[<<x[1], i>>] \in BadAfter(problem)[o.badFrame - 1]
    BY <1>5, <2>2 DEF Before
  <2> QED BY <1>2, <1>5, <1>7, <2>3 DEF WitnessAt
<1> QED BY <1>6, <1>7
\* The blocker excludes the obligation's cube from its frame, so that the cube
\* may be queued for the next one.
LEMMA LearnedIsReal ==
  ASSUME IInv, CexInv, pc = "lift",
         UNCHANGED <<problem, frameInvariant>>,
         frames' = AddClauseToFrames(candidate, learnedLevel)
  PROVE  Real(problem, FullFrames',
              [cube |-> obligation.cube, level |-> obligation.level + 1,
               badFrame |-> obligation.badFrame + 1])
<1> DEFINE l == obligation.level
<1>1. /\ l \in Nat /\ obligation.badFrame \in Nat /\ 0 < l /\ l <= learnedLevel
      /\ learnedLevel \in 0..MaxK /\ MaxK \in Nat
      /\ candidate \subseteq obligation.cube /\ Real(problem, FullFrames, obligation)
  BY MaxKNat DEF IInv, TypeOK, Obligations, PdrInvariant, LoopLevels, Blocking, CexInv
<1>2. l \in Levels /\ l \in 1..learnedLevel /\ l # 0 /\ (l + 1) - 1 = l
  BY <1>1 DEF Levels
<1>3. ASSUME NEW k \in Levels, k \in 1..learnedLevel, NEW s \in FullFrames'[k]
      PROVE  ~ In(s, candidate)
  <2>1. PICK i \in Inputs : <<s, i>> \in F(k)'
    BY DEF FullFrames, Full
  <2>2. k # 0
    BY <1>3
  <2>3. Allows(frames'[k], s)
    BY <2>1, <2>2 DEF F
  <2>4. frames'[k] = AddClause(frames[k], candidate)
    BY <1>3 DEF AddClauseToFrames
  <2> QED BY <2>3, <2>4, AddClauseConjoins
<1>5. \A s \in FullFrames'[l] : ~ In(s, obligation.cube)
  BY <1>1, <1>2, <1>3, InAntitone
<1>4. (obligation.badFrame + 1) - (l + 1) = obligation.badFrame - l
  BY <1>1
<1> QED BY <1>1, <1>2, <1>4, <1>5 DEF Real

\* Every action keeps the queued obligations real.
LEMMA NextCexInv ==
  ASSUME IInv, IInv', CexInv, [Next]_vars
  PROVE  CexInv'
<1>t. TypeOK /\ TypeOK' /\ problem' = problem /\ level \in Nat
  BY FullShrinks DEF IInv, TypeOK
<1>k. \A o \in Obligations : Real(problem, FullFrames, o) => Real(problem, FullFrames', o)
  BY FullShrinks, RealShrinks
<1>q. \A j \in DOMAIN queue : /\ queue[j] \in Obligations
                              /\ Real(problem, FullFrames, queue[j])
                              /\ Real(problem, FullFrames', queue[j])
  BY <1>k, <1>t, PopType DEF CexInv
<1>w. \A i \in DOMAIN queue : \A j \in DOMAIN Without(i) :
         Real(problem, FullFrames', Without(i)[j])
  BY <1>q, <1>t, WithoutElements
<1>o. Blocking => /\ obligation \in Obligations /\ candidate \subseteq obligation.cube
                  /\ Real(problem, FullFrames, obligation)
                  /\ Real(problem, FullFrames', obligation)
  BY <1>k, <1>t DEF CexInv, TypeOK
<1>r. pc # "done" => result = NoResult
  BY DEF CexInv
<1>s. ASSUME queue' = queue, ~ Blocking' \/ (Blocking /\ UNCHANGED <<obligation, candidate>>),
             (result' = result /\ (pc' # "done" => pc # "done")) \/ pc' = "done"
      PROVE  CexInv'
  BY <1>s, <1>t, <1>q, <1>o, <1>r DEF CexInv
<1>u. CASE UNCHANGED vars
  BY <1>u, <1>s DEF vars, Blocking
<1>1. CASE \/ SelectFrameInvariant \/ InitIsBad \/ BadQueryExhausted \/ InitDecides
           \/ EnterFirstFrame \/ QueueEmpty \/ OpenNextFrame \/ PushClause
           \/ LeaveClause \/ PushExhausted \/ PushNextFrame \/ Converge
           \/ NextLevel \/ FramesExhausted
  BY <1>1, <1>s
  DEF SelectFrameInvariant, InitIsBad, BadQueryExhausted, InitDecides, EnterFirstFrame,
      QueueEmpty, OpenNextFrame, PushClause, LeaveClause, PushExhausted, PushNextFrame,
      Converge, NextLevel, FramesExhausted, Propagated, Finish, Blocking, NoResult
<1>2. CASE \/ KeepLiteral \/ GeneralizeExhausted \/ Generalized \/ LiftBlocker
           \/ LiftExhausted
  BY <1>2, <1>s
  DEF KeepLiteral, GeneralizeExhausted, Generalized, LiftBlocker, LiftExhausted,
      Blocking, blockVars
<1>3. CASE FindBadCube
  <2>1. PICK x \in BadPoints(level) : \E c \in BadCubes(x) :
          queue' = <<[cube |-> c, level |-> level, badFrame |-> level]>>
    BY <1>3 DEF FindBadCube
  <2>2. PICK c \in BadCubes(x) :
          queue' = <<[cube |-> c, level |-> level, badFrame |-> level]>>
    BY <2>1
  <2> DEFINE o == [cube |-> c, level |-> level, badFrame |-> level]
  <2>3. Real(problem, FullFrames, o) /\ pc = "findBad" /\ pc' = "block" /\ result' = result
    BY <1>3, BadCubeIsReal DEF FindBadCube
  <2>4. queue' = <<o>> /\ 1 \in DOMAIN queue' /\ queue'[1] = o
    BY <2>2
  <2>5. o \in Obligations
    <3>1. queue'[1] \in Obligations
      BY <1>t, <2>4 DEF TypeOK
    <3> QED BY <2>4, <3>1
  <2>6. \A j \in DOMAIN queue' : queue'[j] = o
    BY <2>2
  <2>7. Real(problem, FullFrames', o)
    <3> HIDE DEF o
    <3> QED BY <1>k, <2>3, <2>5
  <2>8. pc' \notin {"generalize", "lift", "done"}
    BY <2>3
  <2> HIDE DEF o
  <2> QED BY <1>r, <1>t, <2>3, <2>6, <2>7, <2>8 DEF CexInv, Blocking
<1>4. ASSUME NEW i \in DOMAIN queue, AlreadyBlocked(i)
      PROVE  CexInv'
  BY <1>4, <1>w, <1>t, <1>r DEF AlreadyBlocked, Pops, CexInv, Blocking
<1>5. ASSUME NEW i \in DOMAIN queue, BlockAtInit(i)
      PROVE  CexInv'
  <2>1. CASE IntersectsInit(queue[i].cube)
    BY <1>5, <1>s, <2>1 DEF BlockAtInit, Popped, Pops, Finish, Blocking
  <2>2. CASE ~ IntersectsInit(queue[i].cube)
    <3>1. queue' = Without(i) /\ pc' = pc /\ pc = "block" /\ result' = result
      BY <1>5, <2>2 DEF BlockAtInit, Popped, Pops
    <3> QED BY <3>1, <1>w, <1>t, <1>r DEF CexInv, Blocking
  <2> QED BY <2>1, <2>2
<1>6. ASSUME NEW i \in DOMAIN queue, CubeMeetsInit(i)
      PROVE  CexInv'
  BY <1>6, <1>s DEF CubeMeetsInit, Popped, Pops, Finish, Blocking
<1>7. ASSUME NEW i \in DOMAIN queue, BlockQueryExhausted(i)
      PROVE  CexInv'
  BY <1>7, <1>w, <1>t DEF BlockQueryExhausted, Finish, CexInv, Blocking
<1>8. ASSUME NEW i \in DOMAIN queue, NoPredecessor(i)
      PROVE  CexInv'
  <2>1. /\ queue' = Without(i) /\ pc' = "generalize" /\ pc = "block" /\ result' = result
        /\ obligation' = queue[i] /\ candidate' \subseteq obligation'.cube
    BY <1>8 DEF NoPredecessor, Askable, Popped, Pops, Cores
  <2> QED BY <2>1, <1>w, <1>q, <1>t, <1>r DEF CexInv, Blocking
<1>9. ASSUME NEW i \in DOMAIN queue, FoundPredecessor(i)
      PROVE  CexInv'
  <2> DEFINE o == queue[i]
             q == Enqueue(Without(i), o)
  <2>1. PICK x \in Predecessors(o.level - 1, {o.cube}, o.cube) :
          \E c \in PredecessorCubes(x, o.cube) :
             queue' = Enqueue(q, [cube |-> c, level |-> o.level - 1, badFrame |-> o.badFrame])
    BY <1>9 DEF FoundPredecessor
  <2>2. PICK c \in PredecessorCubes(x, o.cube) :
             queue' = Enqueue(q, [cube |-> c, level |-> o.level - 1, badFrame |-> o.badFrame])
    BY <2>1
  <2> DEFINE n == [cube |-> c, level |-> o.level - 1, badFrame |-> o.badFrame]
  <2>3. /\ o \in Obligations /\ o.level > 0 /\ o.level <= level
        /\ Real(problem, FullFrames, o) /\ Real(problem, FullFrames', o)
    BY <1>9, <1>q, <1>t, PopType DEF FoundPredecessor, Askable, Obligations
  <2>4. Real(problem, FullFrames, n)
    <3>1. 0 < o.level
      BY <2>3 DEF Obligations
    <3> HIDE DEF o
    <3> QED BY <2>3, <3>1, PredecessorIsReal
  <2>5. x[1] \in State /\ c \in Cubes
    <3>1. x[1] \in State
      BY <2>1, <1>t, FramesArePoints DEF Predecessors, Point
    <3> QED BY <2>2, <3>1, StateLiterals, SubCube DEF PredecessorCubes
  <2>6. n \in Obligations
    BY <2>3, <2>5, MaxKNat DEF Obligations
  <2>7. Real(problem, FullFrames', n)
    <3> HIDE DEF n, o
    <3> QED BY <2>4, <2>6, <1>k
  <2>8. q \in Seq(Obligations) /\ \A j \in DOMAIN q : Real(problem, FullFrames', q[j])
    <3>1. Without(i) \in Seq(Obligations) /\ \A j \in DOMAIN Without(i) : Without(i)[j].level <= level
      BY <1>t, PopType
    <3> HIDE DEF o
    <3>2. q \in Seq(Obligations)
      BY <3>1, <2>3, <1>t, QueueOperations
    <3>3. \A j \in DOMAIN q : q[j] = o \/ \E k \in DOMAIN Without(i) : q[j] = Without(i)[k]
      BY <3>1, <2>3, EnqueueElements
    <3> HIDE DEF q
    <3> QED BY <3>2, <3>3, <2>3, <1>w
  <2>9. \A j \in DOMAIN queue' : Real(problem, FullFrames', queue'[j])
    <3>1. queue' = Enqueue(q, n)
      BY <2>2
    <3> HIDE DEF q, n, o
    <3>2. \A j \in DOMAIN queue' : queue'[j] = n \/ \E k \in DOMAIN q : queue'[j] = q[k]
      BY <3>1, <2>6, <2>8, EnqueueElements
    <3> QED BY <3>2, <2>7, <2>8
  <2>10. pc = "block" /\ pc' = pc /\ result' = result
    BY <1>9 DEF FoundPredecessor, Askable, Popped, Pops
  <2> HIDE DEF q, n, o
  <2> QED BY <2>9, <2>10, <1>t, <1>r DEF CexInv, Blocking
<1>10. CASE DropLiteral
  <2>1. /\ pc = "generalize" /\ pc' = pc /\ candidate' \subseteq candidate
        /\ UNCHANGED <<queue, obligation, result>>
    BY <1>10 DEF DropLiteral, Cores
  <2> QED BY <2>1, <1>t, <1>q, <1>o, <1>r DEF CexInv, Blocking
<1>11. CASE LearnBlocker
  <2> DEFINE n == [cube |-> obligation.cube, level |-> obligation.level + 1,
                   badFrame |-> obligation.badFrame + 1]
  <2>1. /\ pc = "lift" /\ pc' = "block" /\ UNCHANGED <<problem, frameInvariant, result>>
        /\ frames' = AddClauseToFrames(candidate, learnedLevel)
        /\ queue' = EnqueueNext(queue, obligation)
    BY <1>11 DEF LearnBlocker
  <2>2. Real(problem, FullFrames', n)
    BY <2>1, LearnedIsReal
  <2>3. \A j \in DOMAIN queue' : Real(problem, FullFrames', queue'[j])
    <3>1. CASE obligation.level >= level
      BY <2>1, <3>1, <1>q DEF EnqueueNext
    <3>2. CASE ~ (obligation.level >= level)
      <4>1. queue' = Enqueue(queue, n) /\ n \in Obligations /\ queue \in Seq(Obligations)
        BY <2>1, <3>2, <1>t, MaxKNat DEF EnqueueNext, TypeOK, Obligations
      <4> HIDE DEF n
      <4>2. \A j \in DOMAIN queue' : queue'[j] = n \/ \E k \in DOMAIN queue : queue'[j] = queue[k]
        BY <4>1, EnqueueElements
      <4> QED BY <4>2, <2>2, <1>q
    <3> QED BY <3>1, <3>2
  <2> HIDE DEF n
  <2> QED BY <2>1, <2>3, <1>t, <1>r DEF CexInv, Blocking
<1>12. CASE LearnAndGiveUp
  BY <1>12, <1>s DEF LearnAndGiveUp, Finish, Blocking
<1> QED
  BY <1>u, <1>1, <1>2, <1>3, <1>4, <1>5, <1>6, <1>7, <1>8, <1>9, <1>10, <1>11, <1>12
  DEF Next, Done
-----------------------------------------------------------------------------
(* The bounds of the verdicts *)

\* Nothing below the frontier is bad, at any point of a run.
LEMMA NoWitnessBelow ==
  ASSUME IInv
  PROVE  /\ \A n \in 0..(level - 1) : ~ WitnessAt(problem, n)
         /\ pc = "push" => \A n \in 0..level : ~ WitnessAt(problem, n)
<1>1. TypeOK /\ FramesContainInit /\ FramesStepwise /\ level \in 0..MaxK /\ MaxK \in Nat
  BY MaxKNat DEF IInv, PdrInvariant, TypeOK
<1>2. CASE level = 0
  <2>1. pc # "push"
    BY <1>1, <1>2 DEF TypeOK
  <2> QED BY <1>2, <2>1
<1>3. CASE level > 0
  <2>1. level - 1 \in 0..MaxK /\ \A k \in 0..(level - 1) : BadPoints(k) = {}
    BY <1>1, <1>3 DEF IInv, PdrInvariant, SourceFramesSafe
  <2>2. \A n \in 0..(level - 1) : ~ WitnessAt(problem, n)
    BY <1>1, <2>1, NoShortWitness
  <2>3. ASSUME pc = "push" PROVE \A n \in 0..level : ~ WitnessAt(problem, n)
    <3>1. \A k \in 0..level : BadPoints(k) = {}
      BY <1>1, <2>1, <2>3 DEF IInv, PdrInvariant, SourceFramesSafe
    <3> QED BY <1>1, <3>1, NoShortWitness
  <2> QED BY <2>2, <2>3
<1> QED BY <1>1, <1>2, <1>3

\* Every verdict is given with a bound that is real.
LEMMA NextBounds ==
  ASSUME IInv, IInv', CexInv, BoundsAreReal, [Next]_vars
  PROVE  BoundsAreReal'
<1>t. TypeOK /\ problem' = problem /\ level \in Nat /\ level \in 0..MaxK /\ MaxK \in Nat
  BY FullShrinks, MaxKNat DEF IInv, TypeOK
<1>r. pc # "done" => result.status = "Running"
  BY DEF CexInv, NoResult
<1>b. /\ \A n \in 0..(level - 1) : ~ WitnessAt(problem, n)
      /\ pc = "push" => \A n \in 0..level : ~ WitnessAt(problem, n)
  BY NoWitnessBelow
<1>s. ASSUME result' = result, exhaustion' = exhaustion \/ result.status = "Running"
      PROVE  BoundsAreReal'
  BY <1>s, <1>t
  DEF BoundsAreReal, CounterexampleIsRealOffFrontier, CounterexampleIsReal,
      InconclusiveBoundIsSafe
<1>d. ASSUME NEW n \in Nat, result' = [status |-> "Different", bound |-> n],
             ~ problem.frontier => WitnessAt(problem, n)
      PROVE  BoundsAreReal'
  BY <1>d, <1>t
  DEF BoundsAreReal, CounterexampleIsRealOffFrontier, CounterexampleIsReal,
      InconclusiveBoundIsSafe
<1>e. ASSUME result' = [status |-> "Equivalent", bound |-> result'.bound]
      PROVE  BoundsAreReal'
  <2>1. result'.status = "Equivalent"
    BY <1>e
  <2> QED BY <2>1
  DEF BoundsAreReal, CounterexampleIsRealOffFrontier, CounterexampleIsReal,
      InconclusiveBoundIsSafe
<1>i. ASSUME NEW n \in Nat, result' = [status |-> "Inconclusive", bound |-> n],
             \A j \in 0..(n - 1) : ~ WitnessAt(problem, j),
             exhaustion' = "None" /\ n > 0 => ~ WitnessAt(problem, n)
      PROVE  BoundsAreReal'
  BY <1>i, <1>t
  DEF BoundsAreReal, CounterexampleIsRealOffFrontier, CounterexampleIsReal,
      InconclusiveBoundIsSafe
<1>1. CASE \/ UNCHANGED vars \/ SelectFrameInvariant \/ EnterFirstFrame \/ QueueEmpty
           \/ FindBadCube \/ OpenNextFrame \/ PushClause \/ LeaveClause \/ PushNextFrame
           \/ NextLevel \/ DropLiteral \/ KeepLiteral \/ Generalized \/ LiftBlocker
           \/ LearnBlocker
  BY <1>1, <1>s
  DEF vars, SelectFrameInvariant, EnterFirstFrame, QueueEmpty, FindBadCube, OpenNextFrame,
      PushClause, LeaveClause, PushNextFrame, NextLevel, DropLiteral, KeepLiteral,
      Generalized, LiftBlocker, LearnBlocker
<1>2. CASE GeneralizeExhausted \/ LiftExhausted
  BY <1>2, <1>s, <1>r DEF GeneralizeExhausted, LiftExhausted
<1>3. CASE InitIsBad
  <2>1. PICK x \in F(0) : x \in problem.bad
    BY <1>3 DEF InitIsBad, BadPoints
  <2>2. x \in InitPoints(problem)
    BY <2>1 DEF F
  <2>3. WitnessAt(problem, 0)
    BY <2>1, <2>2 DEF WitnessAt
  <2> QED BY <1>3, <1>d, <2>3 DEF InitIsBad, Finish
<1>4. CASE InitDecides
  <2>1. \A j \in 0..(0 - 1) : FALSE
    OBVIOUS
  <2>2. CASE Symbols = {}
    BY <1>4, <1>e, <2>2 DEF InitDecides, Finish
  <2>3. CASE Symbols # {}
    BY <1>4, <1>i, <2>1, <2>3 DEF InitDecides, Finish
  <2> QED BY <2>2, <2>3
<1>5. CASE Converge
  <2>1. PICK k \in 1..level : result' = [status |-> "Equivalent", bound |-> k]
    BY <1>5 DEF Converge, Finish
  <2> QED BY <1>e, <2>1
<1>6. CASE \/ BadQueryExhausted \/ PushExhausted \/ LearnAndGiveUp
           \/ \E i \in DOMAIN queue : BlockQueryExhausted(i)
  <2>1. result' = [status |-> "Inconclusive", bound |-> level] /\ exhaustion' # "None"
    BY <1>6
    DEF BadQueryExhausted, PushExhausted, LearnAndGiveUp, BlockQueryExhausted,
        Exhaustions, Finish
  <2> QED BY <1>b, <1>i, <1>t, <2>1
<1>7. CASE FramesExhausted
  <2>1. result' = [status |-> "Inconclusive", bound |-> level] /\ pc = "push"
    BY <1>7 DEF FramesExhausted, Propagated, Finish
  <2>2. level \in 0..level
    BY <1>t
  <2> QED BY <1>b, <1>i, <1>t, <2>1, <2>2
<1>8. ASSUME NEW i \in DOMAIN queue, AlreadyBlocked(i) \/ FoundPredecessor(i) \/ NoPredecessor(i)
      PROVE  BoundsAreReal'
  BY <1>8, <1>s DEF AlreadyBlocked, FoundPredecessor, NoPredecessor
<1>9. ASSUME NEW i \in DOMAIN queue, BlockAtInit(i) \/ CubeMeetsInit(i)
      PROVE  BoundsAreReal'
  <2>1. queue[i] \in Obligations /\ queue[i].badFrame \in Nat /\ Real(problem, FullFrames, queue[i])
    BY <1>t, PopType DEF CexInv
  <2>2. CASE IntersectsInit(queue[i].cube)
    <3>1. result' = [status |-> "Different", bound |-> queue[i].badFrame]
      BY <1>9, <2>2 DEF BlockAtInit, CubeMeetsInit, Finish
    <3>2. ~ problem.frontier => WitnessAt(problem, queue[i].badFrame)
      BY <2>1, <2>2, MeetingInitIsReal
    <3> QED BY <1>d, <2>1, <3>1, <3>2
  <2>3. CASE ~ IntersectsInit(queue[i].cube)
    BY <1>9, <1>s, <2>3 DEF BlockAtInit, CubeMeetsInit
  <2> QED BY <2>2, <2>3
<1> QED
  BY <1>1, <1>2, <1>3, <1>4, <1>5, <1>6, <1>7, <1>8, <1>9 DEF Next, Done

LEMMA InitBounds == Init => CexInv /\ BoundsAreReal
<1> SUFFICES ASSUME Init PROVE CexInv /\ BoundsAreReal
  OBVIOUS
<1>1. DOMAIN queue = {} /\ result = NoResult /\ pc = "start"
  BY DEF Init
<1>2. result.status = "Running"
  BY <1>1 DEF NoResult
<1> QED
  BY <1>1, <1>2 DEF CexInv, Blocking, BoundsAreReal, CounterexampleIsRealOffFrontier,
                    CounterexampleIsReal, InconclusiveBoundIsSafe

\* Off the observation frontier a Different verdict names the length of a real
\* path from an initial to a bad point, and the bound of an Inconclusive verdict
\* is a length that no such path undercuts, however cubes were shrunk, blockers
\* lifted, clauses pushed and obligations requeued.
THEOREM BoundsReal == Spec => []BoundsAreReal
<1> DEFINE J == IInv /\ CexInv /\ BoundsAreReal
<1>1. Init => J
  BY InitIInv, InitBounds
<1>2. J /\ [Next]_vars => J'
  BY NextIInv, NextCexInv, NextBounds
<1>3. J => BoundsAreReal
  OBVIOUS
<1> QED BY <1>1, <1>2, <1>3, PTL DEF Spec

\* Every state of a queued cube reaches a bad point in exactly the number of
\* steps the obligation's frame indices say.
THEOREM QueuedCubesReachBad == Spec => []ObligationsReachBad
<1> DEFINE J == IInv /\ CexInv
<1>1. Init => J
  BY InitIInv, InitBounds
<1>2. J /\ [Next]_vars => J'
  BY NextIInv, NextCexInv
<1>3. J => ObligationsReachBad
  BY DEF CexInv, Real, ObligationsReachBad
<1> QED BY <1>1, <1>2, <1>3, PTL DEF Spec

-----------------------------------------------------------------------------
(* The clauses that cross runs: types *)

LEMMA ModelFields ==
  ASSUME NEW m \in Models
  PROVE  /\ m.next \in [Point -> State]
         /\ m.budgeted \in BOOLEAN
         /\ m.tickLimit \in Nat
BY ModelsTyped DEF Model

LEMMA InitCacheTypeOK == CacheInit => CacheTypeOK
<1> SUFFICES ASSUME CacheInit PROVE CacheTypeOK
  OBVIOUS
<1>1. ticks \in Nat
  BY ModelFields DEF CacheInit
<1>2. revision \in 0..MaxRevision /\ certifiedRevision \in 0..revision
  BY CacheBounds DEF CacheInit
<1> QED BY <1>1, <1>2 DEF CacheInit, CacheTypeOK, NewCandidates

\* Accepting H, a subset of the candidates, keeps the types.
LEMMA AcceptTypeOK ==
  ASSUME CacheTypeOK, NEW H \in SUBSET candidates, Accept(H)
  PROVE  CacheTypeOK'
BY DEF CacheTypeOK, Accept, RetainOnlyCertified, EndRefresh, NewCandidates, Exhausted

LEMMA EndRunTypeOK ==
  ASSUME CacheTypeOK, NEW clauses \in Learnable, EndRun(clauses)
  PROVE  CacheTypeOK'
<1>1. clauses \subseteq Cubes
  BY LearnableTyped
<1>2. CASE UNCHANGED <<candidates, literalCount, revision>>
  BY <1>2 DEF CacheTypeOK, EndRun, NewCandidates
<1>3. CASE /\ revision < MaxRevision
           /\ candidates' = candidates \cup (clauses \ candidates)
           /\ revision' = revision + 1
  BY <1>1, <1>3, CacheBounds DEF CacheTypeOK, EndRun, NewCandidates
<1> QED BY <1>2, <1>3 DEF EndRun

LEMMA NextCacheTypeOK == CacheTypeOK /\ [CacheNext]_reuseVars => CacheTypeOK'
<1> SUFFICES ASSUME CacheTypeOK, [CacheNext]_reuseVars
             PROVE  CacheTypeOK'
  OBVIOUS
<1>0. Exhausted \in BOOLEAN /\ ticks \in Nat
  BY DEF CacheTypeOK, Exhausted
<1>1. CASE SkipRefresh
  BY <1>1 DEF CacheTypeOK, SkipRefresh, cacheVars, NewCandidates
<1>2. CASE BeginRefresh
  BY <1>2 DEF CacheTypeOK, BeginRefresh, cacheVars, NewCandidates
<1>3. CASE CheckInitial
  <2>1. ticks' \in Nat
    BY <1>0, <1>3 DEF CheckInitial, Answered
  <2> QED BY <1>3, <2>1 DEF CacheTypeOK, CheckInitial, cacheVars, NewCandidates
<1>4. CASE BeginInduction
  BY <1>4 DEF CacheTypeOK, BeginInduction, cacheVars, NewCandidates
<1>5. CASE QueryUnknown
  <2>1. ticks' \in Nat
    BY <1>0, <1>5 DEF QueryUnknown
  <2>2. /\ UNCHANGED <<model, revision, invariant>>
        /\ progress' = "run" /\ unchecked' = {} /\ active' = {} /\ found' = {}
    BY <1>5 DEF QueryUnknown, RetainOnlyCertified, EndRefresh
  <2>3. disabled' \in BOOLEAN
    BY <1>5 DEF QueryUnknown, CacheTypeOK
  <2>4. candidates' = invariant \/ candidates' = candidates
    BY <1>5 DEF QueryUnknown, RetainOnlyCertified
  <2>5. certifiedRevision' = revision \/ certifiedRevision' = certifiedRevision
    BY <1>5 DEF QueryUnknown, RetainOnlyCertified
  <2>6. certifiedRevision' \in 0..revision'
    BY <2>2, <2>5, CacheBounds DEF CacheTypeOK
  <2>7. invariant' \subseteq candidates' /\ candidates' \subseteq Cubes
    BY <2>2, <2>4 DEF CacheTypeOK
  <2> QED BY <2>1, <2>2, <2>3, <2>6, <2>7 DEF CacheTypeOK, NewCandidates
<1>6. CASE RemoveViolated
  <2>1. ticks' \in Nat
    BY <1>0, <1>6 DEF RemoveViolated, Answered
  <2>2. active' \subseteq active
    BY <1>6 DEF RemoveViolated
  <2> QED BY <1>6, <2>1, <2>2 DEF CacheTypeOK, RemoveViolated, cacheVars, NewCandidates
<1>7. CASE NothingInductive
  BY <1>7, AcceptTypeOK DEF NothingInductive, CacheTypeOK
<1>8. CASE BeginBuild
  <2>1. ticks' \in Nat
    BY <1>0, <1>8 DEF BeginBuild, Answered
  <2> QED BY <1>8, <2>1 DEF CacheTypeOK, BeginBuild, cacheVars, NewCandidates
<1>9. CASE AddSurvivor
  <2>1. PICK c \in active : found' = AddClause(found, c) /\ active' = active \ {c}
    BY <1>9 DEF AddSurvivor
  <2>2. found' \subseteq candidates
    BY <2>1 DEF CacheTypeOK, NewCandidates, AddClause
  <2> QED BY <1>9, <2>1, <2>2 DEF CacheTypeOK, AddSurvivor, cacheVars, NewCandidates
<1>10. CASE AcceptFound
  BY <1>10, AcceptTypeOK DEF AcceptFound, CacheTypeOK
<1>11. ASSUME NEW clauses \in Learnable, EndRun(clauses)
       PROVE  CacheTypeOK'
  BY <1>11, EndRunTypeOK
<1>12. CASE UNCHANGED reuseVars
  BY <1>12 DEF CacheTypeOK, reuseVars, NewCandidates
<1> QED
  BY <1>1, <1>2, <1>3, <1>4, <1>5, <1>6, <1>7, <1>8, <1>9, <1>10, <1>11, <1>12
     DEF CacheNext, Refresh

-----------------------------------------------------------------------------
\* The cache keeps its types through every refresh and every recorded run.
THEOREM CacheTypeCorrect == CacheSpec => []CacheTypeOK
<1>1. CacheInit => CacheTypeOK
  BY InitCacheTypeOK
<1>2. CacheTypeOK /\ [CacheNext]_reuseVars => CacheTypeOK'
  BY NextCacheTypeOK
<1> QED BY <1>1, <1>2, PTL DEF CacheSpec
-----------------------------------------------------------------------------
(* The certified invariant *)

\* An unsatisfiable induction query certifies H together with the survivors.
LEMMA UnsatCertifies ==
  ASSUME CacheTypeOK, Certified(model, invariant),
         \A c \in active : ~ ViolatedByInit(c),
         \A x \in InductionPoints : Violated(x) = {}
  PROVE  Certified(model, invariant \cup active)
<1>1. ASSUME NEW x \in InitPoints(model)
      PROVE  Allows(invariant \cup active, x[1])
  BY <1>1, AllowsUnion DEF Certified, ViolatedByInit, Allows
<1>2. ASSUME NEW x \in Point, Allows(invariant \cup active, x[1])
      PROVE  Allows(invariant \cup active, model.next[x])
  <2>1. Allows(invariant, model.next[x])
    BY <1>2, AllowsUnion DEF Certified
  <2>2. Allows(active, model.next[x])
    BY <1>2 DEF InductionPoints, Violated, Allows
  <2> QED BY <2>1, <2>2, AllowsUnion
<1> QED BY <1>1, <1>2 DEF Certified

\* Clause sets with the same states are certified together.
LEMMA CertifiedBySemantics ==
  ASSUME NEW m \in Models, NEW A, NEW B, Certified(m, A),
         \A s \in State : Allows(A, s) <=> Allows(B, s)
  PROVE  Certified(m, B)
<1>1. \A x \in Point : x[1] \in State /\ m.next[x] \in State
  BY ModelFields DEF Point
<1>2. InitPoints(m) \subseteq Point
  BY DEF InitPoints
<1> QED BY <1>1, <1>2 DEF Certified

\* Moving one survivor into the set under construction changes nothing in
\* what the two say together.
LEMMA SurvivorMoves ==
  ASSUME NEW B, NEW A, NEW c \in A, NEW s
  PROVE  Allows(B \cup A, s) <=> Allows(AddClause(B, c) \cup (A \ {c}), s)
<1>1. Allows(A, s) <=> ~ In(s, c) /\ Allows(A \ {c}, s)
  BY DEF Allows
<1> QED BY <1>1, AllowsUnion, AddClauseConjoins

\* addClause keeps a frame free of subsumed clauses.
LEMMA AddClauseIrredundant ==
  ASSUME NEW frame, NEW c, Irredundant(frame)
  PROVE  Irredundant(AddClause(frame, c))
<1>1. CASE Subsumed(frame, c)
  BY <1>1 DEF AddClause
<1>2. CASE ~ Subsumed(frame, c)
  <2>1. AddClause(frame, c) = {e \in frame : ~ (c \subseteq e)} \cup {c}
    BY <1>2 DEF AddClause
  <2>2. \A d \in frame : ~ (d \subseteq c)
    BY <1>2 DEF Subsumed
  <2> QED BY <2>1, <2>2 DEF Irredundant
<1> QED BY <1>1, <1>2

SafeCache == CacheTypeOK /\ InvariantCertified /\ FinderState

LEMMA InitSafeCache == CacheInit => SafeCache
<1> SUFFICES ASSUME CacheInit PROVE SafeCache
  OBVIOUS
<1>1. Certified(model, invariant)
  BY DEF CacheInit, Certified, Allows
<1> QED BY <1>1, InitCacheTypeOK
           DEF CacheInit, SafeCache, InvariantCertified, Irredundant, FinderState

\* Accepting a certified set.
LEMMA AcceptSafe ==
  ASSUME SafeCache, NEW H \in SUBSET candidates, Accept(H),
         Certified(model, H), Irredundant(H)
  PROVE  SafeCache'
<1>1. CacheTypeOK'
  BY AcceptTypeOK DEF SafeCache
<1>2. InvariantCertified'
  BY DEF InvariantCertified, Accept, RetainOnlyCertified
<1>3. FinderState'
  BY DEF FinderState, Accept, EndRefresh
<1> QED BY <1>1, <1>2, <1>3 DEF SafeCache

LEMMA NextSafeCache == SafeCache /\ [CacheNext]_reuseVars => SafeCache'
<1> SUFFICES ASSUME SafeCache, [CacheNext]_reuseVars
             PROVE  SafeCache'
  OBVIOUS
<1>0. CacheTypeOK /\ CacheTypeOK' /\ Certified(model, invariant) /\ Irredundant(invariant)
  BY NextCacheTypeOK DEF SafeCache, InvariantCertified
<1>F. FinderState
  BY DEF SafeCache
<1>U. ASSUME UNCHANGED <<model, invariant>>, FinderState'
      PROVE  SafeCache'
  BY <1>0, <1>U DEF SafeCache, InvariantCertified
<1>1. CASE SkipRefresh
  <2>1. UNCHANGED <<model, invariant>> /\ FinderState'
    BY <1>1, <1>F DEF SkipRefresh, cacheVars, FinderState, ViolatedByInit
  <2> QED BY <2>1, <1>U
<1>2. CASE BeginRefresh
  <2>1. UNCHANGED <<model, invariant>> /\ FinderState'
    BY <1>2, <1>F DEF BeginRefresh, cacheVars, FinderState, ViolatedByInit
  <2> QED BY <2>1, <1>U
<1>3. CASE CheckInitial
  <2>1. UNCHANGED <<model, invariant, progress>> /\ progress = "initial"
    BY <1>3 DEF CheckInitial, cacheVars
  <2>2. \A c \in active' : ~ ViolatedByInit(c)
    BY <1>3, <1>F DEF CheckInitial, FinderState
  <2>3. FinderState'
    BY <2>1, <2>2 DEF FinderState, ViolatedByInit
  <2> QED BY <2>1, <2>3, <1>U
<1>4. CASE BeginInduction
  <2>1. UNCHANGED <<model, invariant>> /\ FinderState'
    BY <1>4, <1>F DEF BeginInduction, cacheVars, FinderState, ViolatedByInit
  <2> QED BY <2>1, <1>U
<1>5. CASE QueryUnknown
  <2>1. UNCHANGED <<model, invariant>> /\ FinderState'
    BY <1>5 DEF QueryUnknown, RetainOnlyCertified, EndRefresh, FinderState
  <2> QED BY <2>1, <1>U
<1>6. CASE RemoveViolated
  <2>1. /\ UNCHANGED <<model, invariant, progress, unchecked>> /\ progress = "inductive"
        /\ active' \subseteq active
    BY <1>6 DEF RemoveViolated, cacheVars
  <2>2. FinderState'
    BY <2>1, <1>F DEF FinderState, ViolatedByInit
  <2> QED BY <2>1, <2>2, <1>U
<1>7. CASE NothingInductive
  BY <1>0, <1>7, AcceptSafe DEF NothingInductive, CacheTypeOK
<1>8. CASE BeginBuild
  <2>1. /\ UNCHANGED <<model, invariant, active, unchecked>>
        /\ progress = "inductive" /\ progress' = "build" /\ found' = invariant
        /\ \A x \in InductionPoints : Violated(x) = {}
    BY <1>8 DEF BeginBuild, cacheVars
  <2>2. unchecked = {} /\ \A c \in active : ~ ViolatedByInit(c)
    BY <1>F, <2>1 DEF FinderState
  <2>3. Certified(model, invariant \cup active)
    BY <1>0, <2>1, <2>2, UnsatCertifies
  <2>4. FinderState'
    BY <1>0, <2>1, <2>2, <2>3 DEF FinderState, ViolatedByInit
  <2> QED BY <2>1, <2>4, <1>U
<1>9. CASE AddSurvivor
  <2>1. PICK c \in active : found' = AddClause(found, c) /\ active' = active \ {c}
    BY <1>9 DEF AddSurvivor
  <2>2. UNCHANGED <<model, invariant, progress, unchecked>> /\ progress = "build"
    BY <1>9 DEF AddSurvivor, cacheVars
  <2>3. Certified(model, found' \cup active')
    <3>1. Certified(model, found \cup active) /\ model \in Models
      BY <1>0, <1>F, <2>2 DEF FinderState, CacheTypeOK
    <3>2. \A s \in State : Allows(found \cup active, s) <=> Allows(found' \cup active', s)
      BY <2>1, SurvivorMoves
    <3> QED BY <3>1, <3>2, CertifiedBySemantics
  <2>4. Irredundant(found')
    BY <1>F, <2>1, <2>2, AddClauseIrredundant DEF FinderState
  <2>5. \A s \in State : Allows(found', s) => Allows(invariant, s)
    BY <1>F, <2>1, <2>2, AddClauseConjoins DEF FinderState
  <2>6. unchecked = {} /\ \A d \in active' : ~ ViolatedByInit(d)
    BY <1>F, <2>1, <2>2 DEF FinderState
  <2>7. FinderState'
    BY <2>2, <2>3, <2>4, <2>5, <2>6 DEF FinderState, ViolatedByInit
  <2> QED BY <2>2, <2>7, <1>U
<1>10. CASE AcceptFound
  <2>1. progress = "build" /\ active = {} /\ Accept(found)
    BY <1>10 DEF AcceptFound
  <2>2. Certified(model, found) /\ Irredundant(found)
    <3>1. found \cup active = found
      BY <2>1
    <3> QED BY <1>F, <2>1, <3>1 DEF FinderState
  <2>3. found \in SUBSET candidates
    BY <1>0 DEF CacheTypeOK
  <2> QED BY <2>1, <2>2, <2>3, AcceptSafe
<1>11. ASSUME NEW clauses \in Learnable, EndRun(clauses)
       PROVE  SafeCache'
  <2>1. UNCHANGED <<model, invariant>> /\ FinderState'
    BY <1>11, <1>F DEF EndRun, FinderState, ViolatedByInit
  <2> QED BY <2>1, <1>U
<1>12. CASE UNCHANGED reuseVars
  <2>1. UNCHANGED <<model, invariant>> /\ FinderState'
    BY <1>12, <1>F DEF reuseVars, FinderState, ViolatedByInit
  <2> QED BY <2>1, <1>U
<1> QED
  BY <1>1, <1>2, <1>3, <1>4, <1>5, <1>6, <1>7, <1>8, <1>9, <1>10, <1>11, <1>12
     DEF CacheNext, Refresh

\* Whatever the runs learn and wherever certification is cut short, the
\* clauses handed to the next PDR run are initial, inductive and irredundant:
\* what PDR's soundness theorem assumes of imported clauses.
THEOREM OnlyCertifiedCrosses == CacheSpec => []InvariantCertified
<1>1. CacheInit => SafeCache
  BY InitSafeCache
<1>2. SafeCache /\ [CacheNext]_reuseVars => SafeCache'
  BY NextSafeCache
<1>3. SafeCache => InvariantCertified
  BY DEF SafeCache
<1> QED BY <1>1, <1>2, <1>3, PTL DEF CacheSpec
\* No refresh, complete, cut short or disabled, weakens the invariant.
THEOREM NeverWeakened == CacheSpec => InvariantOnlyStrengthens
<1> DEFINE Stronger == \A s \in State : Allows(invariant', s) => Allows(invariant, s)
<1>1. SafeCache /\ [CacheNext]_reuseVars => Stronger
  <2> SUFFICES ASSUME SafeCache, [CacheNext]_reuseVars
               PROVE  Stronger
    OBVIOUS
  <2>1. CASE AcceptFound
    <3>1. progress = "build" /\ invariant' = found
      BY <2>1 DEF AcceptFound, Accept, RetainOnlyCertified
    <3> QED BY <3>1 DEF SafeCache, FinderState
  <2>2. CASE ~ AcceptFound
    <3>1. invariant' = invariant
      BY <2>2 DEF CacheNext, Refresh, SkipRefresh, BeginRefresh, CheckInitial,
                  BeginInduction, QueryUnknown, RemoveViolated,
                  NothingInductive, BeginBuild, AddSurvivor, EndRun, Accept,
                  RetainOnlyCertified, cacheVars, reuseVars
    <3> QED BY <3>1
  <2> QED BY <2>1, <2>2
<1>2. SafeCache /\ [CacheNext]_reuseVars => [Stronger]_reuseVars
  BY <1>1
<1> QED BY <1>2, InitSafeCache, NextSafeCache, PTL
           DEF CacheSpec, InvariantOnlyStrengthens

-----------------------------------------------------------------------------
(* The maximum inductive subset *)

\* The part of MaximumKept about one set of candidates.
Keeps(G) ==
  /\ progress = "initial" => G \subseteq unchecked \cup active
  /\ progress = "inductive" => G \subseteq active
  /\ progress = "build" => \A c \in G : Subsumed(found \cup active, c)

\* A step that violates an active clause violates none of a relatively
\* inductive set of active clauses.
LEMMA InductiveSurvives ==
  ASSUME NEW G \in SUBSET active, RelativelyInductive(G),
         NEW x \in InductionPoints
  PROVE  G \cap Violated(x) = {}
<1>1. x \in Point /\ Allows(invariant \cup active, x[1])
  BY DEF InductionPoints
<1>2. Allows(invariant \cup G, x[1])
  BY <1>1 DEF Allows
<1>3. Allows(G, model.next[x])
  BY <1>1, <1>2 DEF RelativelyInductive
<1> QED BY <1>3 DEF Allows, Violated

LEMMA RefreshKeeps ==
  ASSUME SafeCache, NEW G \in SUBSET NewCandidates, RelativelyInductive(G),
         progress \in {"initial", "inductive", "build"} => Keeps(G),
         Refresh \/ UNCHANGED reuseVars
  PROVE  Keeps(G)'
<1>1. CASE SkipRefresh
  BY <1>1 DEF SkipRefresh, Keeps
<1>2. CASE BeginRefresh
  BY <1>2 DEF BeginRefresh, Keeps
<1>3. CASE CheckInitial
  <2>1. PICK c \in unchecked :
          /\ unchecked' = unchecked \ {c}
          /\ \/ ViolatedByInit(c) /\ active' = active
             \/ active' = active \cup {c}
    BY <1>3 DEF CheckInitial
  <2>2. progress = "initial" /\ progress' = progress /\ G \subseteq unchecked \cup active
    BY <1>3 DEF CheckInitial, Keeps
  <2>3. c \in G => ~ ViolatedByInit(c)
    BY DEF RelativelyInductive
  <2>4. G \subseteq unchecked' \cup active'
    BY <2>1, <2>2, <2>3
  <2> QED BY <2>2, <2>4 DEF Keeps
<1>4. CASE BeginInduction
  BY <1>4 DEF BeginInduction, Keeps
<1>5. CASE QueryUnknown
  BY <1>5 DEF QueryUnknown, EndRefresh, Keeps
<1>6. CASE RemoveViolated
  <2>1. PICK x \in InductionPoints :
          \E removed \in (SUBSET Violated(x)) \ {{}} : active' = active \ removed
    BY <1>6 DEF RemoveViolated
  <2>2. progress = "inductive" /\ progress' = progress /\ G \subseteq active
    BY <1>6 DEF RemoveViolated, Keeps
  <2>3. G \cap Violated(x) = {}
    BY <2>2, InductiveSurvives
  <2> QED BY <2>1, <2>2, <2>3 DEF Keeps
<1>7. CASE NothingInductive
  BY <1>7 DEF NothingInductive, Accept, EndRefresh, Keeps
<1>8. CASE BeginBuild
  <2>1. G \subseteq active /\ active' = active /\ progress' = "build"
    BY <1>8 DEF BeginBuild, Keeps
  <2> QED BY <2>1 DEF Keeps, Subsumed
<1>9. CASE AddSurvivor
  <2>1. PICK c \in active : found' = AddClause(found, c) /\ active' = active \ {c}
    BY <1>9 DEF AddSurvivor
  <2>2. progress = "build" /\ progress' = progress
    BY <1>9 DEF AddSurvivor
  <2>3. ASSUME NEW e \in G
        PROVE  Subsumed(found' \cup active', e)
    <3>1. PICK d \in found \cup active : d \subseteq e
      BY <2>2, <2>3 DEF Keeps, Subsumed
    <3>2. CASE d \in found \cup {c}
      <4>1. Subsumed(found', d)
        BY <2>1, <3>2, AddClauseSubsumes
      <4> QED BY <3>1, <4>1 DEF Subsumed
    <3>3. CASE d \in active \ {c}
      BY <2>1, <3>1, <3>3 DEF Subsumed
    <3> QED BY <3>2, <3>3
  <2> QED BY <2>2, <2>3 DEF Keeps
<1>10. CASE AcceptFound
  BY <1>10 DEF AcceptFound, Accept, EndRefresh, Keeps
<1>11. CASE UNCHANGED reuseVars
  BY <1>11 DEF reuseVars, Keeps
<1> QED
  BY <1>1, <1>2, <1>3, <1>4, <1>5, <1>6, <1>7, <1>8, <1>9, <1>10, <1>11
     DEF Refresh

\* A relatively inductive set after a step that stays inside the finder was
\* one before it.
LEMMA InsideRefresh ==
  ASSUME SafeCache, [CacheNext]_reuseVars, progress' \in {"initial", "inductive", "build"}
  PROVE  /\ UNCHANGED <<model, candidates, invariant>>
         /\ Refresh \/ UNCHANGED reuseVars
<1>1. ASSUME NEW clauses \in Learnable, EndRun(clauses)
      PROVE  FALSE
  BY <1>1 DEF EndRun
<1>2. Refresh \/ UNCHANGED reuseVars
  BY <1>1 DEF CacheNext
<1> QED
  BY <1>2 DEF Refresh, SkipRefresh, BeginRefresh, CheckInitial, BeginInduction,
              QueryUnknown, RemoveViolated, NothingInductive, BeginBuild,
              AddSurvivor, AcceptFound, Accept, EndRefresh, cacheVars, reuseVars

LEMMA NextMaximumKept == SafeCache /\ MaximumKept /\ [CacheNext]_reuseVars => MaximumKept'
<1> SUFFICES ASSUME SafeCache, MaximumKept, [CacheNext]_reuseVars,
                    progress' \in {"initial", "inductive", "build"},
                    NEW G \in SUBSET NewCandidates', RelativelyInductive(G)'
             PROVE  Keeps(G)'
  BY DEF MaximumKept, Keeps
<1>1. /\ UNCHANGED <<model, candidates, invariant>>
      /\ Refresh \/ UNCHANGED reuseVars
  BY InsideRefresh
<1>2. G \in SUBSET NewCandidates /\ RelativelyInductive(G)
  BY <1>1 DEF NewCandidates, RelativelyInductive, ViolatedByInit
<1>3. Keeps(G)
  BY <1>2 DEF MaximumKept, Keeps
<1> QED BY <1>1, <1>2, <1>3, RefreshKeeps

\* The finder ends with the maximum: whatever violated clauses the SAT models
\* name, no member of a relatively inductive set of candidates is lost.
THEOREM KeepsMaximum == CacheSpec => []MaximumKept
<1>1. CacheInit => MaximumKept
  BY DEF CacheInit, MaximumKept
<1> QED BY <1>1, InitSafeCache, NextSafeCache, NextMaximumKept, PTL DEF CacheSpec

-----------------------------------------------------------------------------
(* Revision numbers *)

LEMMA NextRevisions ==
  CacheTypeOK /\ RevisionsTrackCandidates /\ [CacheNext]_reuseVars => RevisionsTrackCandidates'
<1> SUFFICES ASSUME CacheTypeOK, RevisionsTrackCandidates, [CacheNext]_reuseVars
             PROVE  RevisionsTrackCandidates'
  OBVIOUS
<1>1. ASSUME NEW H, RetainOnlyCertified(H), revision' = revision
      PROVE  RevisionsTrackCandidates'
  BY <1>1 DEF RetainOnlyCertified, RevisionsTrackCandidates
<1>2. ASSUME UNCHANGED <<candidates, invariant, revision, certifiedRevision, disabled>>
      PROVE  RevisionsTrackCandidates'
  BY <1>2 DEF RevisionsTrackCandidates
<1>3. CASE SkipRefresh \/ BeginRefresh \/ CheckInitial \/ BeginInduction
  BY <1>2, <1>3 DEF SkipRefresh, BeginRefresh, CheckInitial, BeginInduction, cacheVars
<1>4. CASE RemoveViolated \/ BeginBuild \/ AddSurvivor
  BY <1>2, <1>4 DEF RemoveViolated, BeginBuild, AddSurvivor, cacheVars
<1>5. CASE QueryUnknown
  <2>1. revision' = revision
    BY <1>5 DEF QueryUnknown
  <2>2. CASE RetainOnlyCertified(invariant)
    BY <1>1, <2>1, <2>2
  <2>3. CASE UNCHANGED <<candidates, invariant, certifiedRevision, disabled>>
    BY <1>2, <2>1, <2>3
  <2> QED BY <1>5, <2>2, <2>3 DEF QueryUnknown
<1>6. CASE NothingInductive \/ AcceptFound
  BY <1>1, <1>6 DEF NothingInductive, AcceptFound, Accept
<1>7. ASSUME NEW clauses \in Learnable, EndRun(clauses)
      PROVE  RevisionsTrackCandidates'
  <2>1. CASE UNCHANGED <<candidates, revision>>
    BY <1>2, <1>7, <2>1 DEF EndRun
  <2>2. CASE ~ UNCHANGED <<candidates, revision>>
    <3>1. /\ ~ disabled /\ clauses \ candidates # {}
          /\ candidates' = candidates \cup (clauses \ candidates)
          /\ revision' = revision + 1
          /\ UNCHANGED <<invariant, certifiedRevision, disabled>>
      BY <1>7, <2>2 DEF EndRun
    <3>2. revision' # certifiedRevision'
      BY <3>1, CacheBounds DEF CacheTypeOK
    <3>3. candidates' # invariant'
      BY <3>1 DEF CacheTypeOK
    <3> QED BY <3>1, <3>2, <3>3 DEF RevisionsTrackCandidates
  <2> QED BY <2>1, <2>2
<1>8. CASE UNCHANGED reuseVars
  BY <1>2, <1>8 DEF reuseVars
<1> QED BY <1>3, <1>4, <1>5, <1>6, <1>7, <1>8 DEF CacheNext, Refresh

\* refreshReusableInvariant skips its work exactly when there is none, and a
\* disabled cache holds nothing uncertified.
THEOREM RevisionsExact == CacheSpec => []RevisionsTrackCandidates
<1>1. CacheInit => RevisionsTrackCandidates
  BY DEF CacheInit, RevisionsTrackCandidates
<1> QED BY <1>1, InitCacheTypeOK, NextCacheTypeOK, NextRevisions, PTL DEF CacheSpec

-----------------------------------------------------------------------------
(* From one run to the next *)

\* A run on the model of the cache that starts every frame with H.
Imports(p) ==
  /\ p.init = model.init /\ p.next = model.next /\ p.imported = invariant
  /\ p.dualRail /\ ~ p.frontier

\* What the cache hands to the next output batch is what PDR assumes of the
\* clauses it imports, whatever the property of that batch is.
THEOREM ImportsAreAdmissible == CacheSpec => [](\A p \in Problem : Imports(p) => WellFormed(p))
<1>1. ASSUME CacheTypeOK, InvariantCertified, NEW p \in Problem, Imports(p)
      PROVE  WellFormed(p)
  <2>1. InitPoints(p) = InitPoints(model)
    <3>1. ~ p.frontier /\ ~ model.frontier
      BY <1>1, ModelsTyped DEF Imports, CacheTypeOK, Model
    <3> QED BY <1>1, <3>1 DEF Imports, InitPoints
  <2>2. Certified(p, p.imported)
    BY <1>1, <2>1 DEF Imports, InvariantCertified, Certified
  <2> QED BY <1>1, <2>2 DEF Imports, WellFormed, InvariantCertified, Irredundant
<1>2. CacheTypeOK /\ InvariantCertified => \A p \in Problem : Imports(p) => WellFormed(p)
  BY <1>1
<1> QED BY <1>2, OnlyCertifiedCrosses, CacheTypeCorrect, PTL
=============================================================================
