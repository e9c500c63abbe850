-------------------------------- MODULE PDR --------------------------------
(***************************************************************************)
(* One run of the property-directed reachability engine                    *)
(* (PDREngine::runWithQueryLimits).  A run either proves that no           *)
(* reachable state of the product machine violates the output-equality     *)
(* property, finds a counterexample, or gives up.                          *)
(*                                                                         *)
(* Formulas are modelled by the sets they denote.  A SAT query is a set    *)
(* comprehension; a SAT answer picks any member of it (solvers promise no  *)
(* particular model), an UNSAT answer requires it to be empty, and UNKNOWN *)
(* may be returned wherever the code passes a resource limit.              *)
(***************************************************************************)
EXTENDS ProductMachine, Sequences

CONSTANTS
  Problems,  \* the proof obligations a run may be handed
  MaxK       \* largest frame bound of a problem

(***************************************************************************)
(* A proof obligation: the initial states, the transition functions, the   *)
(* bad points, the public strengthening lemma offered as frame invariant   *)
(* (every point when there is none), the clauses imported from earlier     *)
(* output batches, the encoding, whether the reset frontier also assumes   *)
(* the property, the frame bound and the predecessor query budget (0 means *)
(* no budget, as in the code).                                             *)
(***************************************************************************)
Problem ==
  [init : SUBSET State, next : [Point -> State], bad : SUBSET Point,
   lemma : SUBSET Point, imported : SUBSET Cubes, dualRail : BOOLEAN,
   frontier : BOOLEAN, maxFrames : 0..MaxK, maxQueries : Nat]

ASSUME MaxKNat == MaxK \in Nat
ASSUME ProblemsTyped == Problems \subseteq Problem
\* The shared cache exists for the dual-rail encoding only, the observation
\* frontier for the binary encoding only; imported clauses are certified by
\* ReusableInvariantFinder before a run sees them.
\* The clauses come from a FrameClauses object, where none subsumes another.
WellFormed(p) ==
  /\ p.frontier => ~ p.dualRail
  /\ p.frontier => Symbols # {}
  /\ p.imported # {} => p.dualRail
  /\ Certified(p, p.imported)
  /\ \A c, d \in p.imported : d \subseteq c => c = d

ASSUME ProblemsWellFormed == \A p \in Problems : WellFormed(p)
-----------------------------------------------------------------------------
VARIABLES
  problem,         \* the KInductionProblem of this run; never changes
  frameInvariant,  \* points allowed by the validated strengthening lemma
  frames,          \* frames[k]: the cubes blocked in frame k
  level,           \* the frontier frame of the main loop (rootLevel)
  pc,              \* where the run stands
  queue,           \* pending proof obligations, oldest first
  obligation,      \* the obligation being learned from
  candidate,       \* the cube generalizeBlockedCube has reached
  untried,         \* its literals not yet visited
  learnedLevel,    \* highest frame the blocker is known to hold in
  pushLevel,       \* propagateClauses: the frame being pushed forward
  pending,         \* propagateClauses: the rest of the frame's snapshot
  budget,          \* predecessor queries left
  exhaustion,      \* pdrBudgetExhaustion
  result           \* the PDRResult

vars == <<problem, frameInvariant, frames, level, pc, queue, obligation,
          candidate, untried, learnedLevel, pushLevel, pending, budget,
          exhaustion, result>>

blockVars == <<obligation, candidate, untried, learnedLevel>>
pushVars == <<pushLevel, pending>>

Levels == 0..(MaxK + 1)

\* badFrame - level is the number of steps from the cube to a bad state.
Obligations == [cube : Cubes, level : 0..MaxK, badFrame : Nat]

NoObligation == [cube |-> {}, level |-> 0, badFrame |-> 0]
NoResult == [status |-> "Running", bound |-> 0]

-----------------------------------------------------------------------------
(* SAT queries *)

\* The points the solver admits for frame k.
F(k) ==
  IF k = 0
  THEN {x \in InitPoints(problem) : Allows(frames[0], x[1])}
  ELSE {x \in frameInvariant : Allows(frames[k], x[1])}

\* Query F[k] /\ !P.
BadPoints(k) == F(k) \cap problem.bad

(***************************************************************************)
(* Query F[k] /\ P /\ !excluded /\ T /\ target'.  The property is added    *)
(* for every source frame above 0; !excluded is the relative-induction     *)
(* assumption of query Q2, and no clause is added for the empty set.       *)
(***************************************************************************)
Predecessors(k, excluded, target) ==
  {x \in F(k) : /\ k > 0 => x \notin problem.bad
                /\ Allows(excluded, x[1])
                /\ In(problem.next[x], target)}

\* The exact query Init /\ cube.
IntersectsInit(c) == \E x \in InitPoints(problem) : In(x[1], c)

\* Ternary simulation keeps enough literals of a SAT model for the target to
\* stay hit whatever the removed symbols are.
PredecessorCubes(x, target) ==
  {c \in SUBSET Literals(x[1]) :
     \A s \in State : In(s, c) => In(problem.next[<<s, x[2]>>], target)}

\* Faulty variant: literals dropped without the ternary check.
BadCubesUnchecked(x) == SUBSET Literals(x[1])

BadCubes(x) ==
  {c \in SUBSET Literals(x[1]) :
     \A s \in State : In(s, c) => <<s, x[2]>> \in problem.bad}

(***************************************************************************)
(* What may replace a cube that Q2 proved to have no predecessor in frame  *)
(* k: the cube itself, or a nonempty failed-assumption core, grown by      *)
(* growCoreOutsideInit until it is disjoint from Init.                     *)
(***************************************************************************)
Cores(k, c) ==
  {c} \cup {r \in SUBSET c : /\ r # {}
                             /\ Predecessors(k, {c}, r) = {}
                             /\ ~ IntersectsInit(r)}

\* A query that is answered uses up one unit of the budget unless its answer
\* comes from the query-result cache.
Spend ==
  \/ UNCHANGED budget
  \/ problem.maxQueries > 0 /\ budget > 0 /\ budget' = budget - 1

\* Why a predecessor query can end without an answer.
Exhaustions ==
  {r \in {"LocalQuery", "PredecessorQueryCount"} :
     \/ r = "LocalQuery" /\ problem.dualRail
     \/ r = "PredecessorQueryCount" /\ problem.maxQueries > 0 /\ budget = 0}

-----------------------------------------------------------------------------
(* Frames *)

\* Faulty variants: the clause stops one frame early, or is added to the last
\* frame only.
AddClauseBelow(c, top) ==
  [k \in Levels |-> IF k \in 1..(top - 1) THEN AddClause(frames[k], c)
                                          ELSE frames[k]]

AddClauseToFrames(c, top) ==
  [k \in Levels |-> IF k \in 1..top THEN AddClause(frames[k], c)
                                    ELSE frames[k]]

\* Faulty variant: frames compared by their number of clauses.
SameSize(lhs, rhs) == Cardinality(lhs) = Cardinality(rhs)

FramesConverged(lhs, rhs) ==
  /\ Cardinality(lhs) = Cardinality(rhs)
  /\ \A c \in lhs : Subsumed(rhs, c)
  /\ \A c \in rhs : Subsumed(lhs, c)

-----------------------------------------------------------------------------
(* The obligation queue: lowest level first, newest first within a level. *)

IsTop(i) ==
  \A j \in (DOMAIN queue) \ {i} :
    \/ queue[i].level < queue[j].level
    \/ queue[i].level = queue[j].level /\ j < i

\* The queue after pop() has taken entry i.
Without(i) ==
  [j \in 1..(Len(queue) - 1) |-> IF j < i THEN queue[j] ELSE queue[j + 1]]

\* enqueue drops an obligation that is already queued.
Enqueue(q, o) == IF \E i \in DOMAIN q : q[i] = o THEN q ELSE Append(q, o)

\* next(s): the same cube one frame later, at the same distance from bad.
EnqueueNext(q, o) ==
  IF o.level >= level
  THEN q
  ELSE Enqueue(q, [cube |-> o.cube, level |-> o.level + 1,
                   badFrame |-> o.badFrame + 1])

-----------------------------------------------------------------------------
(* Starting the run *)

Init ==
  /\ problem \in Problems
  /\ frameInvariant = Point
  /\ frames = [k \in Levels |-> {}]
  /\ level = 0
  /\ pc = "start"
  /\ queue = <<>>
  /\ obligation = NoObligation
  /\ candidate = {}
  /\ untried = {}
  /\ learnedLevel = 0
  /\ pushLevel = 0
  /\ pending = {}
  /\ budget = problem.maxQueries
  /\ exhaustion = "None"
  /\ result = NoResult

Finish(status, bound) ==
  /\ pc' = "done"
  /\ result' = [status |-> status, bound |-> bound]

\* initialFrontierImplies and isInductiveInvariant: the lemma holds on every
\* initial point and every step from it leads to it again.
ValidLemma ==
  /\ InitPoints(problem) \subseteq problem.lemma
  /\ \A x \in problem.lemma, i \in Inputs :
        <<problem.next[x], i>> \in problem.lemma

SelectFrameInvariant ==
  /\ pc = "start"
  /\ frameInvariant' = IF ValidLemma THEN problem.lemma ELSE Point
  /\ pc' = "badAtInit"
  /\ UNCHANGED <<problem, frames, level, queue, blockVars, pushVars, budget,
                 exhaustion, result>>

\* A new frame holds the imported clauses only: there are no seed clauses.
SeedFrame(k) == frames' = [frames EXCEPT ![k] = problem.imported]

InitIsBad ==
  /\ pc = "badAtInit"
  /\ BadPoints(0) # {}
  /\ Finish("Different", 0)
  /\ UNCHANGED <<problem, frameInvariant, frames, level, queue, blockVars,
                 pushVars, budget, exhaustion>>

\* The bad query of frame 0 or of the frontier hits its support or SAT limit.
BadQueryExhausted ==
  /\ pc \in {"badAtInit", "findBad"}
  /\ exhaustion' = "LocalQuery"
  /\ Finish("Inconclusive", level)
  /\ UNCHANGED <<problem, frameInvariant, frames, level, queue, blockVars,
                 pushVars, budget>>

\* Nothing to unroll: no state symbols, or no frame allowed.
InitDecides ==
  /\ pc = "badAtInit"
  /\ BadPoints(0) = {}
  /\ Symbols = {} \/ problem.maxFrames = 0
  /\ Finish(IF Symbols = {} THEN "Equivalent" ELSE "Inconclusive", 0)
  /\ UNCHANGED <<problem, frameInvariant, frames, level, queue, blockVars,
                 pushVars, budget, exhaustion>>

EnterFirstFrame ==
  /\ pc = "badAtInit"
  /\ BadPoints(0) = {}
  /\ Symbols # {} /\ problem.maxFrames > 0
  /\ SeedFrame(1)
  /\ level' = 1
  /\ pc' = "findBad"
  /\ UNCHANGED <<problem, frameInvariant, queue, blockVars, pushVars, budget,
                 exhaustion, result>>

-----------------------------------------------------------------------------
(* Phase 1: block every bad cube of the frontier (blockProofObligations) *)

FindBadCube ==
  /\ pc = "findBad"
  /\ \E x \in BadPoints(level) : \E c \in BadCubes(x) :
        queue' = <<[cube |-> c, level |-> level, badFrame |-> level]>>
  /\ pc' = "block"
  /\ UNCHANGED <<problem, frameInvariant, frames, level, blockVars, pushVars,
                 budget, exhaustion, result>>

QueueEmpty ==
  /\ pc = "block" /\ queue = <<>>
  /\ pc' = "findBad"
  /\ UNCHANGED <<problem, frameInvariant, frames, level, queue, blockVars,
                 pushVars, budget, exhaustion, result>>

\* The loop pops entry i.
Pops(i) == pc = "block" /\ IsTop(i)

AlreadyBlocked(i) ==
  /\ Pops(i)
  /\ Subsumed(frames[queue[i].level], queue[i].cube)
  /\ queue' = Without(i)
  /\ UNCHANGED <<problem, frameInvariant, frames, level, pc, blockVars,
                 pushVars, budget, exhaustion, result>>

\* The popped obligation is not blocked yet.
Popped(i) == Pops(i) /\ ~ Subsumed(frames[queue[i].level], queue[i].cube)

\* Above frame 0, Q2 may be asked of a cube outside Init only.
Askable(i) ==
  Popped(i) /\ queue[i].level > 0 /\ ~ IntersectsInit(queue[i].cube)

\* Frame 0: a cube outside Init only strengthens F[0], any other one is the
\* start of a counterexample.
BlockAtInit(i) ==
  /\ Popped(i) /\ queue[i].level = 0
  /\ IF IntersectsInit(queue[i].cube)
     THEN Finish("Different", queue[i].badFrame) /\ UNCHANGED <<frames, queue>>
     ELSE /\ \E r \in SUBSET queue[i].cube :
               /\ ~ IntersectsInit(r)
               /\ frames' = [frames EXCEPT ![0] = AddClause(@, r)]
          /\ queue' = Without(i)
          /\ UNCHANGED <<pc, result>>
  /\ UNCHANGED <<problem, frameInvariant, level, blockVars, pushVars, budget,
                 exhaustion>>

CubeMeetsInit(i) ==
  /\ Popped(i) /\ queue[i].level > 0
  /\ IntersectsInit(queue[i].cube)
  /\ Finish("Different", queue[i].badFrame)
  /\ UNCHANGED <<problem, frameInvariant, frames, level, queue, blockVars,
                 pushVars, budget, exhaustion>>

FoundPredecessor(i) ==
  /\ Askable(i)
  /\ \E x \in Predecessors(queue[i].level - 1, {queue[i].cube}, queue[i].cube) :
       \E c \in PredecessorCubes(x, queue[i].cube) :
          queue' = Enqueue(Enqueue(Without(i), queue[i]),
                           [cube |-> c, level |-> queue[i].level - 1,
                            badFrame |-> queue[i].badFrame])
  /\ Spend
  /\ UNCHANGED <<problem, frameInvariant, frames, level, pc, blockVars,
                 pushVars, exhaustion, result>>

BlockQueryExhausted(i) ==
  /\ Askable(i)
  /\ exhaustion' \in Exhaustions
  /\ Finish("Inconclusive", level)
  /\ queue' = Without(i)
  /\ UNCHANGED <<problem, frameInvariant, frames, level, blockVars, pushVars,
                 budget>>

NoPredecessor(i) ==
  /\ Askable(i)
  /\ Predecessors(queue[i].level - 1, {queue[i].cube}, queue[i].cube) = {}
  /\ obligation' = queue[i]
  /\ candidate' \in Cores(queue[i].level - 1, queue[i].cube)
  /\ untried' = candidate'
  /\ learnedLevel' = queue[i].level
  /\ queue' = Without(i)
  /\ pc' = "generalize"
  /\ Spend
  /\ UNCHANGED <<problem, frameInvariant, frames, level, pushVars, exhaustion,
                 result>>

-----------------------------------------------------------------------------
(* learnBlockedObligation: generalize the cube, lift it, learn it *)

\* generalizeBlockedCube visits each literal once; a core may remove others.
ToTry == IF Cardinality(candidate) <= 1 THEN {} ELSE untried \cap candidate

DropLiteral ==
  /\ pc = "generalize"
  /\ \E l \in ToTry :
       LET reduced == candidate \ {l}
       IN  /\ ~ IntersectsInit(reduced)
           /\ Predecessors(obligation.level - 1, {reduced}, reduced) = {}
           /\ candidate' \in Cores(obligation.level - 1, reduced)
           /\ untried' = untried \ {l}
  /\ Spend
  /\ UNCHANGED <<problem, frameInvariant, frames, level, pc, queue, obligation,
                 learnedLevel, pushVars, exhaustion, result>>

KeepLiteral ==
  /\ pc = "generalize"
  /\ \E l \in ToTry :
       LET reduced == candidate \ {l}
       IN  /\ \/ IntersectsInit(reduced) /\ UNCHANGED budget
              \/ /\ ~ IntersectsInit(reduced)
                 /\ Predecessors(obligation.level - 1, {reduced}, reduced) # {}
                 /\ Spend
           /\ untried' = untried \ {l}
  /\ UNCHANGED <<problem, frameInvariant, frames, level, pc, queue, obligation,
                 candidate, learnedLevel, pushVars, exhaustion, result>>

\* No answer for a removal: what was proved so far is learned all the same.
GeneralizeExhausted ==
  /\ pc = "generalize"
  /\ \E l \in ToTry : ~ IntersectsInit(candidate \ {l})
  /\ exhaustion' \in Exhaustions
  /\ pc' = "lift"
  /\ UNCHANGED <<problem, frameInvariant, frames, level, queue, blockVars,
                 pushVars, budget, result>>

Generalized ==
  /\ pc = "generalize"
  /\ ToTry = {}
  /\ pc' = "lift"
  /\ UNCHANGED <<problem, frameInvariant, frames, level, queue, blockVars,
                 pushVars, budget, exhaustion, result>>

\* Faulty variant: the blocker is lifted without asking Q2 again.
LiftUnasked ==
  /\ pc = "lift" /\ exhaustion = "None"
  /\ learnedLevel + 1 < level
  /\ learnedLevel' = learnedLevel + 1
  /\ Spend
  /\ UNCHANGED <<problem, frameInvariant, frames, level, pc, queue, obligation,
                 candidate, untried, pushVars, exhaustion, result>>

LiftBlocker ==
  /\ pc = "lift" /\ exhaustion = "None"
  /\ learnedLevel + 1 < level
  /\ Predecessors(learnedLevel, {candidate}, candidate) = {}
  /\ learnedLevel' = learnedLevel + 1
  /\ Spend
  /\ UNCHANGED <<problem, frameInvariant, frames, level, pc, queue, obligation,
                 candidate, untried, pushVars, exhaustion, result>>

LiftExhausted ==
  /\ pc = "lift" /\ exhaustion = "None"
  /\ learnedLevel + 1 < level
  /\ exhaustion' \in Exhaustions
  /\ UNCHANGED <<problem, frameInvariant, frames, level, pc, queue, blockVars,
                 pushVars, budget, result>>

ForgetBlocker ==
  /\ obligation' = NoObligation
  /\ candidate' = {}
  /\ untried' = {}
  /\ learnedLevel' = 0

LearnBlocker ==
  /\ pc = "lift" /\ exhaustion = "None"
  /\ \/ learnedLevel + 1 >= level /\ UNCHANGED budget
     \/ /\ learnedLevel + 1 < level
        /\ Predecessors(learnedLevel, {candidate}, candidate) # {}
        /\ Spend
  /\ frames' = AddClauseToFrames(candidate, learnedLevel)
  /\ queue' = EnqueueNext(queue, obligation)
  /\ pc' = "block"
  /\ ForgetBlocker
  /\ UNCHANGED <<problem, frameInvariant, level, pushVars, exhaustion, result>>

LearnAndGiveUp ==
  /\ pc = "lift" /\ exhaustion # "None"
  /\ frames' = AddClauseToFrames(candidate, learnedLevel)
  /\ ForgetBlocker
  /\ Finish("Inconclusive", level)
  /\ UNCHANGED <<problem, frameInvariant, level, queue, pushVars, budget,
                 exhaustion>>

-----------------------------------------------------------------------------
(* Phases 2 and 3: a new frame, propagateClauses, convergence *)

OpenNextFrame ==
  /\ pc = "findBad"
  /\ BadPoints(level) = {}
  /\ SeedFrame(level + 1)
  /\ pushLevel' = 1
  /\ pending' = frames[1]
  /\ pc' = "push"
  /\ UNCHANGED <<problem, frameInvariant, level, queue, blockVars, budget,
                 exhaustion, result>>

PushClause ==
  /\ pc = "push"
  /\ \E c \in pending :
       /\ ~ Subsumed(frames[pushLevel + 1], c)
       /\ Predecessors(pushLevel, {}, c) = {}
       /\ frames' = [frames EXCEPT ![pushLevel + 1] = AddClause(@, c)]
       /\ pending' = pending \ {c}
  /\ Spend
  /\ UNCHANGED <<problem, frameInvariant, level, pc, queue, blockVars,
                 pushLevel, exhaustion, result>>

\* UNKNOWN leaves the clause where it is; the exhaustion mark is reset.
LeaveClause ==
  /\ pc = "push"
  /\ \E c \in pending :
       /\ \/ Subsumed(frames[pushLevel + 1], c) /\ UNCHANGED budget
          \/ /\ ~ Subsumed(frames[pushLevel + 1], c)
             /\ Predecessors(pushLevel, {}, c) # {} \/ problem.dualRail
             /\ Spend
       /\ pending' = pending \ {c}
  /\ UNCHANGED <<problem, frameInvariant, frames, level, pc, queue, blockVars,
                 pushLevel, exhaustion, result>>

PushExhausted ==
  /\ pc = "push"
  /\ \E c \in pending : ~ Subsumed(frames[pushLevel + 1], c)
  /\ "PredecessorQueryCount" \in Exhaustions
  /\ exhaustion' = "PredecessorQueryCount"
  /\ Finish("Inconclusive", level)
  /\ UNCHANGED <<problem, frameInvariant, frames, level, queue, blockVars,
                 pushVars, budget>>

PushNextFrame ==
  /\ pc = "push" /\ pending = {}
  /\ pushLevel < level
  /\ pushLevel' = pushLevel + 1
  /\ pending' = frames[pushLevel + 1]
  /\ UNCHANGED <<problem, frameInvariant, frames, level, pc, queue, blockVars,
                 budget, exhaustion, result>>

ConvergedAt(k) == FramesConverged(frames[k], frames[k + 1])

Propagated == pc = "push" /\ pending = {} /\ pushLevel = level

Converge ==
  /\ Propagated
  /\ \E k \in 1..level :
       /\ ConvergedAt(k)
       /\ \A j \in 1..(k - 1) : ~ ConvergedAt(j)
       /\ Finish("Equivalent", k)
  /\ UNCHANGED <<problem, frameInvariant, frames, level, queue, blockVars,
                 pushVars, budget, exhaustion>>

NextLevel ==
  /\ Propagated
  /\ \A k \in 1..level : ~ ConvergedAt(k)
  /\ level < problem.maxFrames
  /\ level' = level + 1
  /\ pushLevel' = 0
  /\ pc' = "findBad"
  /\ UNCHANGED <<problem, frameInvariant, frames, queue, blockVars, pending,
                 budget, exhaustion, result>>

FramesExhausted ==
  /\ Propagated
  /\ \A k \in 1..level : ~ ConvergedAt(k)
  /\ level = problem.maxFrames
  /\ Finish("Inconclusive", problem.maxFrames)
  /\ UNCHANGED <<problem, frameInvariant, frames, level, queue, blockVars,
                 pushVars, budget, exhaustion>>

Done == pc = "done" /\ UNCHANGED vars

Next ==
  \/ SelectFrameInvariant \/ InitIsBad \/ BadQueryExhausted \/ InitDecides
  \/ EnterFirstFrame \/ FindBadCube \/ QueueEmpty
  \/ \E i \in DOMAIN queue :
        \/ AlreadyBlocked(i) \/ BlockAtInit(i) \/ CubeMeetsInit(i)
        \/ FoundPredecessor(i) \/ BlockQueryExhausted(i) \/ NoPredecessor(i)
  \/ DropLiteral \/ KeepLiteral \/ GeneralizeExhausted \/ Generalized
  \/ LiftBlocker \/ LiftExhausted \/ LearnBlocker \/ LearnAndGiveUp
  \/ OpenNextFrame \/ PushClause \/ LeaveClause \/ PushExhausted
  \/ PushNextFrame \/ Converge \/ NextLevel \/ FramesExhausted
  \/ Done

\* The run is one thread and every SAT call returns.
Spec == Init /\ [][Next]_vars /\ WF_vars(Next)
-----------------------------------------------------------------------------
(* Properties *)

PCs == {"start", "badAtInit", "findBad", "block", "generalize", "lift",
        "push", "done"}

\* Every variable keeps its type; levels stay inside the allocated frames.
TypeOK ==
  /\ problem \in Problem
  /\ frameInvariant \subseteq Point
  /\ frames \in [Levels -> SUBSET Cubes]
  /\ level \in 0..MaxK
  /\ level <= problem.maxFrames
  /\ pc \in PCs
  /\ pc \in {"start", "badAtInit"} => level = 0
  /\ pc \in {"findBad", "block", "generalize", "lift", "push"} => level > 0
  /\ queue \in Seq(Obligations)
  /\ \A i \in DOMAIN queue : queue[i].level <= level
  /\ obligation \in Obligations
  /\ candidate \in Cubes
  /\ untried \subseteq Symbols \X BOOLEAN
  /\ learnedLevel \in 0..MaxK
  /\ pushLevel \in 0..MaxK
  /\ pending \subseteq Cubes
  /\ budget \in Nat
  /\ exhaustion \in {"None", "LocalQuery", "PredecessorQueryCount"}
  /\ result \in [status : {"Running", "Equivalent", "Different",
                           "Inconclusive"},
                 bound : Nat]

\* No frame, clause or invariant ever excludes an initial point: a cube is
\* learned only after the exact Init query (or the lemma validation) allows it.
FramesContainInit ==
  /\ InitPoints(problem) \subseteq frameInvariant
  /\ \A x \in InitPoints(problem), k \in Levels : Allows(frames[k], x[1])

\* Later frames are weaker, although clauses are lifted, pushed, subsumed and
\* imported one frame at a time.
FramesMonotone == \A j, k \in Levels : j <= k => F(j) \subseteq F(k)

\* F[k] /\ P /\ T implies F[k+1] for every frame, in the middle of blocking
\* and propagation too: each clause is added to the frames Q2 allows, no more.
FramesStepwise ==
  \A k \in 0..MaxK, i \in Inputs :
    \A x \in F(k) :
      (k > 0 => x \notin problem.bad) => <<problem.next[x], i>> \in F(k + 1)

\* What addSafeFramePropertyConstraint relies on when it adds the property to
\* a predecessor query: every source frame of such a query is free of bad
\* points.
SourceFramesSafe ==
  /\ level > 0 => \A k \in 0..(level - 1) : BadPoints(k) = {}
  /\ pc = "push" => BadPoints(level) = {}

\* PDRStatus::Equivalent is only returned when the property holds on every
\* reachable point of the product machine.
EquivalentIsSound == result.status = "Equivalent" => Holds(problem)

-----------------------------------------------------------------------------
(* What makes the frame invariants inductive *)

Blocking == pc \in {"generalize", "lift"}

\* Where the loops stand.
LoopLevels ==
  /\ pc = "start" => frameInvariant = Point
  /\ Blocking => /\ 0 < obligation.level /\ obligation.level <= learnedLevel
                 /\ learnedLevel <= level
                 /\ pc = "generalize" => learnedLevel = obligation.level
  /\ pc = "push" => 0 < pushLevel /\ pushLevel <= level

\* Frames that have not been opened hold no clause; open ones above frame 0
\* satisfy the imported clauses, which no subsumption step may lose.
OpenFrames ==
  /\ \A k \in Levels : k > level + 1 => frames[k] = {}
  /\ pc \notin {"push", "done"} => frames[level + 1] = {}
  /\ \A k \in Levels :
       k > 0 /\ (k <= level \/ (pc = "push" /\ k = level + 1))
         => \A x \in F(k) : Allows(problem.imported, x[1])

\* The validated lemma is closed under steps.
LemmaInductive ==
  \A x \in frameInvariant, i \in Inputs :
     <<problem.next[x], i>> \in frameInvariant

\* The cube being generalized and lifted may be blocked in every frame up to
\* learnedLevel: it misses Init and is unreachable in one step from every
\* earlier frame, even where the engine only asked Q2 of the last one.
BlockerIsRelativelyInductive ==
  Blocking =>
    /\ ~ IntersectsInit(candidate)
    /\ \A k \in 0..(learnedLevel - 1) :
          Predecessors(k, {candidate}, candidate) = {}

\* Clauses still to be pushed are clauses of the frame they are pushed from.
PushSnapshot == pc = "push" => pending \subseteq frames[pushLevel]

\* The inductive invariant behind EquivalentIsSound.
PdrInvariant ==
  /\ FramesContainInit
  /\ FramesMonotone
  /\ FramesStepwise
  /\ SourceFramesSafe
  /\ LoopLevels
  /\ OpenFrames
  /\ LemmaInductive
  /\ BlockerIsRelativelyInductive
  /\ PushSnapshot

-----------------------------------------------------------------------------
(* Counterexamples, stated with exact distances *)

\* States with a bad point; states from which a step may lead into S.
BadNow(p) == {s \in State : \E i \in Inputs : <<s, i>> \in p.bad}
Before(p, S) == {s \in State : \E i \in Inputs : p.next[<<s, i>>] \in S}

\* States from which a bad point is reached in exactly n steps.
BadAfter(p) ==
  LET B[n \in Nat] == IF n = 0 THEN BadNow(p) ELSE Before(p, B[n - 1])
  IN  B

\* findBaseCounterexampleAtFrontier(bound): a path of exactly n steps from an
\* initial point to a bad point.
WitnessAt(p, n) ==
  LET B == BadAfter(p)
  IN  \E x \in InitPoints(p) :
        IF n = 0 THEN x \in p.bad ELSE p.next[x] \in B[n - 1]

\* Every state of a queued cube reaches bad in badFrame - level steps, through
\* predecessor extraction, ternary reduction and requeueing at later frames.
ObligationsReachBad ==
  \A j \in DOMAIN queue :
    LET o == queue[j]
        B == BadAfter(problem)
    IN  \A s \in State : In(s, o.cube) => s \in B[o.badFrame - o.level]

\* A Different verdict names a depth at which the base-case solver finds a
\* concrete witness.
CounterexampleIsReal ==
  result.status = "Different" => WitnessAt(problem, result.bound)

\* The same, for every problem without the binary observation frontier.
CounterexampleIsRealOffFrontier == ~ problem.frontier => CounterexampleIsReal

\* The bound of an Inconclusive verdict (reported as provedBound by the
\* strategy) is a depth below which no counterexample exists; when the frame
\* bound itself ended the run there is none at that depth either.
InconclusiveBoundIsSafe ==
  result.status = "Inconclusive" =>
    /\ \A n \in 0..(result.bound - 1) : ~ WitnessAt(problem, n)
    /\ exhaustion = "None" /\ result.bound > 0
         => ~ WitnessAt(problem, result.bound)

\* A frame never admits a point it excluded before.  The stable-UNSAT query
\* cache drops the frame fingerprint from its key because of this.
FramesOnlyStrengthen ==
  [][pc # "start" => \A k \in Levels : F(k)' \subseteq F(k)]_vars

\* The blocking queue, the literal loop, lifting and propagation all end: a
\* run returns a verdict.
Terminates == <>(pc = "done")

\* The bounds a run reports are real: a counterexample bound is met by a path
\* (off the observation frontier), an inconclusive one by no shorter path.
BoundsAreReal == CounterexampleIsRealOffFrontier /\ InconclusiveBoundIsSafe
=============================================================================
