------------------------------ MODULE CraigIMC ------------------------------
(***************************************************************************)
(* Interpolation on large dual-rail problems: runLargeDualRailCraigImc     *)
(* proves output ranges one after the other with the                       *)
(* CraigInterpolatingModelChecker and hands what one range proved to the   *)
(* next as a helper invariant.                                             *)
(*                                                                         *)
(* The checker sees only tracked state symbols.  A region is a set of      *)
(* states that the tracked symbols determine; Q, the union of the regions, *)
(* grows by interpolants until the next interpolant lies inside Q.         *)
(***************************************************************************)
EXTENDS ProductMachine, Sequences, SequencesExt, FiniteSetsExt

CONSTANTS
  Problems,            \* the SEC problems a run may be given
  NumOutputs,
  None,                \* a symbol without a post-reset value
  MaxLookahead,        \* max_k
  MaxPass,             \* bound of the growth budget on Q expansion passes
  MaxRetries,          \* kCraigLocalAuxiliaryRetryLimit
  CompactionStart,     \* kCraigRegionCompactionStart
  CompactionLimit      \* kCraigRegionCompactionCandidateLimit

Outputs == 1..NumOutputs

(***************************************************************************)
(* known: the post-reset assignments; support: the state symbols the next  *)
(* value of a symbol depends on; sees: the state symbols an output depends *)
(* on; equal: state pairs of one design that are equal by construction;    *)
(* focused: the projection is large enough for focused image requests, and *)
(* layers of them fit under the request limit; wide: outputs with too much *)
(* support for the bounded probes.                                         *)
(***************************************************************************)
Problem ==
  [known : [Symbols -> BOOLEAN \cup {None}], next : [Point -> State],
   support : [Symbols -> SUBSET Symbols], differ : [Outputs -> SUBSET Point],
   sees : [Outputs -> SUBSET Symbols], equal : SUBSET (Symbols \X Symbols),
   focused : BOOLEAN, layers : Nat, wide : SUBSET Outputs]

Agree(s, t, T) == \A v \in T : s[v] = t[v]

\* addStateSemantics: the equal symbols have equal values.
Related(p, s, T) ==
  \A e \in p.equal : {e[1], e[2]} \subseteq T => s[e[1]] = s[e[2]]

\* The dependencies are what they claim to be, and the equal symbols stay
\* equal (sameFrameStateEqualityPairs hold in every frame).

ASSUME CraigConstants ==
  /\ Problems \subseteq Problem
  /\ NumOutputs \in Nat \ {0} /\ MaxLookahead \in Nat \ {0} /\ MaxPass \in Nat \ {0}
  /\ MaxRetries \in Nat /\ CompactionLimit \in Nat
  /\ CompactionStart \in Nat /\ CompactionStart >= 3
  /\ None \notin BOOLEAN /\ Symbols \cap BOOLEAN = {}
  /\ \A p \in Problems : \A s, t \in State, i \in Inputs :
       /\ Related(p, s, Symbols) => Related(p, p.next[<<s, i>>], Symbols)
       /\ \A v \in Symbols : Agree(s, t, p.support[v]) =>
            p.next[<<s, i>>][v] = p.next[<<t, i>>][v]
       /\ \A o \in Outputs : Agree(s, t, p.sees[o]) =>
            (<<s, i>> \in p.differ[o] <=> <<t, i>> \in p.differ[o])

\* What an equivalence proof leaves behind: regions, symbols, auxiliary facts.
NoHelper == [regions |-> {}, tracked |-> {}, aux |-> {}]

VARIABLES
  problem,    \* the SEC problem; never changes
  phase,      \* probe, range, project, loop, candidate or done
  todo,       \* output ranges still to prove, in order; the first is current;
              \* last: the range is the last of its scheduled batch
  covered,    \* coveredOutputs
  reusable,   \* reusableInvariant
  singleton,  \* smallRawSingletonInvariant
  helper,     \* activeReusableInvariant of the range
  seeded,     \* the attempt started from the seeds of the range
  tracked,    \* trackedStates
  aux,        \* auxiliary state invariants
  concrete,   \* hasConcreteInitialCube
  first,      \* concreteInitialRegion
  regions,    \* reachableRegions
  look,       \* lookahead
  pass,       \* qExpansionPass
  retries,    \* localAuxiliaryRetryCount
  outcome     \* Equivalent, Inconclusive or Different

rangeVars == <<problem, todo, covered, reusable, singleton, helper, seeded, outcome>>
queryVars == <<concrete, first, regions, look, pass, retries>>
vars == <<phase, rangeVars, tracked, aux, queryVars>>

-----------------------------------------------------------------------------
(* States *)

\* The concrete post-reset states.
InitStates(p) ==
  {s \in State : /\ Related(p, s, Symbols)
                 /\ \A v \in Symbols : p.known[v] # None => s[v] = p.known[v]}

\* closeSameDesignStateSemantics: the least set with T that holds both or
\* neither symbol of every pair.
Close(p, T) ==
  {v \in Symbols : \A U \in SUBSET Symbols :
     (/\ T \cap Symbols \subseteq U
      /\ \A e \in p.equal : e[1] \in U <=> e[2] \in U) => v \in U}

SupportOf(p, T) == UNION {p.support[v] : v \in T}

\* computeCraigImcProjectionClosure: the least closed set that holds what the
\* outputs depend on and what its own symbols depend on.
Surface(p, O) ==
  {v \in Symbols : \A U \in SUBSET Symbols :
     (/\ \A o \in O : p.sees[o] \subseteq U
      /\ Close(p, U \cup SupportOf(p, U)) = U) => v \in U}

\* The states the symbols T cannot tell from the states of S.
Cylinder(S, T) == {s \in State : \E t \in S : Agree(s, t, T)}

BadStates(p, O) ==
  {s \in State : \E o \in O, i \in Inputs : <<s, i>> \in p.differ[o]}
BadSupport(p, O) == UNION {p.sees[o] : o \in O}

-----------------------------------------------------------------------------
(* Auxiliary facts: <<v, b>> says that v has the value b, <<v, w>> that v  *)
(* and w are equal.  A query states the facts about the symbols T it has   *)
(* literals for.                                                           *)

IsConstant(f) == f[2] \in BOOLEAN
FactHolds(f, s) == s[f[1]] = IF IsConstant(f) THEN f[2] ELSE s[f[2]]
FactOver(f, T) == f[1] \in T /\ (IsConstant(f) \/ f[2] \in T)
Facts(p, A, T) ==
  {s \in State : Related(p, s, T) /\ \A f \in A : FactOver(f, T) => FactHolds(f, s)}

\* transitionPreservesStateConstant, transitionPreservesStateEquality
Preserved(p, f, A) ==
  LET T == p.support[f[1]] \cup IF IsConstant(f) THEN {} ELSE p.support[f[2]]
  IN  \A s \in Facts(p, A, T), i \in Inputs : FactHolds(f, p.next[<<s, i>>])

\* The candidates that are left when no pass removes one: the largest set that
\* preserves itself.
Settle(p, C, A) ==
  UNION {left \in SUBSET C : \A f \in left : Preserved(p, f, A \cup left)}

ConstantCandidates(p, U) ==
  {<<v, p.known[v]>> : v \in {w \in U : p.known[w] # None}}

\* Two symbols with the same next-state expression and post-reset value.
EqualityCandidates(p, U, constants) ==
  {e \in U \X U :
     /\ e[1] # e[2] /\ p.known[e[1]] # None
     /\ p.known[e[1]] = p.known[e[2]]
     /\ \A x \in Point : p.next[x][e[1]] = p.next[x][e[2]]
     /\ ~ \A k \in 1..2 : <<e[k], p.known[e[k]]>> \in constants}

\* deriveAuxiliaryStateInvariants over all symbols, and its local form over
\* some symbols on top of the facts A: constants first, then equalities.
Mine(p, U, A) ==
  LET constants == Settle(p, ConstantCandidates(p, U), {f \in A : IsConstant(f)})
  IN  constants \cup
      Settle(p, EqualityCandidates(p, U, constants \cup A), A \cup constants)

-----------------------------------------------------------------------------
(* Queries.  Every query of an attempt is stated over the tracked symbols, *)
(* the auxiliary facts, the states the helper admits and the outputs of    *)
(* the range: its context c.                                               *)

Current == Head(todo).outputs
Helper == IF helper.regions = {} THEN State ELSE UNION helper.regions
Context == [problem |-> problem, outputs |-> Current, tracked |-> tracked,
            aux |-> aux, helper |-> Helper]

Bad(c) == BadStates(c.problem, c.outputs)
Admitted(c, T) == c.helper \cap Facts(c.problem, c.aux, T)
Q == UNION {regions[k] : k \in DOMAIN regions}

\* focusedImageTransitionRequests with d steps to go: the symbols of the bad
\* predicate and the tracked symbols they depend on, one layer per step as
\* long as the request limit admits the layer.
FocusedRequests(c, d) ==
  LET p == c.problem
      layer[n \in 0..d - 1] ==
        IF n = 0 THEN Close(p, BadSupport(p, c.outputs)) \cap c.tracked
        ELSE Close(p, layer[n - 1] \cup SupportOf(p, layer[n - 1])) \cap c.tracked
      wanted == layer[IF d - 1 < p.layers THEN d - 1 ELSE p.layers]
  IN  IF wanted = {} THEN c.tracked ELSE wanted

Requests(c, d) == IF c.problem.focused THEN FocusedRequests(c, d) ELSE c.tracked

\* One projected transition from s: the next values of the requested symbols
\* are right, those of the other tracked symbols are free.
Leaves(c, d) == c.tracked \cup SupportOf(c.problem, Requests(c, d))
Step(c, s, t, d) ==
  /\ s \in Admitted(c, Leaves(c, d)) /\ t \in Admitted(c, c.tracked)
  /\ \E i \in Inputs : Agree(t, c.problem.next[<<s, i>>], Requests(c, d))

Image(c, S, d) == {t \in State : \E s \in S : Step(c, s, t, d)}

\* The states from which bad is at most n - 1 projected transitions away.
Within(c) ==
  LET within[n \in Nat] ==
        IF n = 0 THEN {}
        ELSE LET nearer == Cylinder(within[n - 1], c.tracked)
             IN  Bad(c) \cup {s \in State : \E t \in nearer : Step(c, s, t, n - 1)}
  IN  within

\* addSuffixBadFormula, over the literals of the tracked symbols.
BadWithin(c, d) == Cylinder(Within(c)[d], c.tracked)

\* The source of the image query: the post-reset cube, encoded directly, and
\* the regions after the first one, or all regions.
Cube(c) == Cylinder(InitStates(c.problem), c.tracked)
Source ==
  IF concrete THEN Cube(Context) \cup UNION {regions[k] : k \in 2..Len(regions)} ELSE Q

NextImage == Cylinder(Image(Context, Source, look), tracked)
QuerySat == NextImage \cap BadWithin(Context, look) # {}

\* transitionStateSupport
Untracked == Close(problem, UNION {Leaves(Context, d) : d \in 1..look}) \ tracked

-----------------------------------------------------------------------------
(* Output ranges *)

\* buildLargeDualRailCraigImcOutputBatchPlans: consecutive outputs, none left
\* out; support sizes and limits decide where a batch closes.
OutputBatches ==
  {[k \in 1..Len(ends) |->
      [outputs |-> (IF k = 1 THEN 1 ELSE ends[k - 1] + 1)..ends[k], last |-> TRUE]] :
   ends \in {e \in UNION {[1..n -> Outputs] : n \in Outputs} :
              /\ e[Len(e)] = NumOutputs
              /\ \A k \in 1..Len(e) - 1 : e[k] < e[k + 1]}}

Init ==
  /\ problem \in Problems
  /\ phase = "probe"
  /\ todo \in OutputBatches
  /\ covered = {} /\ reusable = NoHelper /\ singleton = NoHelper
  /\ helper = NoHelper /\ seeded = FALSE
  /\ tracked = {} /\ aux = {} /\ outcome = "Equivalent"
  /\ concrete = FALSE /\ first = {} /\ regions = <<>>
  /\ look = 1 /\ pass = 1 /\ retries = 0

\* findLargeDualRailCounterexampleUpTo: exact, but wide outputs are left out.
ReachIn(d) == AfterSteps([init |-> InitStates(problem), next |-> problem.next])[d]
DiffersAt(o, d) == \E s \in ReachIn(d), i \in Inputs : <<s, i>> \in problem.differ[o]
Probe(O, d) == \E o \in O \ problem.wide : \E k \in 0..d : DiffersAt(o, k)

\* IMCEngine::run probes frame 0 of every output first.
ProbeFrameZero ==
  /\ phase = "probe"
  /\ IF Probe(Outputs, 0)
     THEN phase' = "done" /\ outcome' = "Different"
     ELSE phase' = "range" /\ UNCHANGED outcome
  /\ UNCHANGED <<problem, todo, covered, reusable, singleton, helper, seeded,
                 tracked, aux, queryVars>>

\* combineCraigHelperInvariants: the region lists are joined.
Combined ==
  [regions |-> singleton.regions \cup reusable.regions,
   tracked |-> singleton.tracked \cup reusable.tracked,
   aux |-> singleton.aux \cup reusable.aux]

\* Whether a stored invariant matches the range is decided by output names
\* and supports.
HelperChoices ==
  {NoHelper, reusable, IF reusable = NoHelper \/ singleton = NoHelper THEN singleton
                                                                      ELSE Combined}

\* Faulty variant: one region that misses bad is enough.
SomeRegionExcludesBad(rs, A, T) ==
  \E R \in rs : R \cap Facts(problem, A, T) \cap BadStates(problem, Current) = {}

\* craigInvariantExcludesBad
ExcludesBad(rs, A, T) ==
  (UNION rs) \cap Facts(problem, A, T) \cap BadStates(problem, Current) = {}
HelperProvesRange(h) == h # NoHelper /\ ExcludesBad(h.regions, h.aux, h.tracked)

Worse(r, q) ==
  CHOOSE x \in {r, q} : \A y \in {r, q} :
    \/ x = "Different"
    \/ x = "Inconclusive" /\ y # "Different"
    \/ y = "Equivalent"

\* The variables of a query, and of an attempt, go out of scope.
QueryOver ==
  /\ concrete' = FALSE /\ first' = {} /\ regions' = <<>>
  /\ look' = 1 /\ pass' = 1 /\ retries' = 0
AttemptOver ==
  /\ helper' = NoHelper /\ seeded' = FALSE /\ tracked' = {} /\ aux' = {}
  /\ QueryOver

\* Both halves of a split range are tried; the batches after one that was not
\* proved are not.
RangeDone(result) ==
  /\ outcome' = Worse(outcome, result)
  /\ todo' = Tail(todo)
  /\ phase' = IF todo' = <<>> \/ (Head(todo).last /\ outcome' # "Equivalent")
              THEN "done" ELSE "range"
  /\ AttemptOver

RangeProved ==
  covered' = covered \cup Current /\ RangeDone("Equivalent")

(***************************************************************************)
(* runCraigCheckerAttempt: the projection starts with the state support of *)
(* the outputs, the seeds and what the helper is stated over.  Without any *)
(* of them the range is equivalent and no query is made.                   *)
(***************************************************************************)
InitialTracked(h, seeds) ==
  Close(problem, BadSupport(problem, Current) \cup seeds \cup h.tracked)
Attempt(h, seeds) ==
  IF InitialTracked(h, seeds) = {}
  THEN RangeProved /\ UNCHANGED <<problem, reusable, singleton>>
  ELSE /\ helper' = h /\ seeded' = (seeds # {})
       /\ tracked' = InitialTracked(h, seeds)
       /\ \E mined \in {{}, Mine(problem, Symbols, {})} : aux' = mined \cup h.aux
       /\ phase' = "project" /\ QueryOver
       /\ UNCHANGED <<problem, covered, reusable, singleton, todo, outcome>>

\* runCraigOutputRange up to its first attempt.
StartRange ==
  /\ phase = "range"
  /\ \E h \in HelperChoices, seeds \in {{}, Surface(problem, Current), Surface(problem, Outputs)} :
       IF HelperProvesRange(h)
       THEN RangeProved /\ UNCHANGED <<problem, reusable, singleton>>
       ELSE Attempt(h, seeds)

Halves ==
  LET middle == Min(Current) + Cardinality(Current) \div 2
  IN  <<[outputs |-> {o \in Current : o < middle}, last |-> FALSE],
        [outputs |-> {o \in Current : o >= middle}, last |-> Head(todo).last]>>

\* A range that was not proved is halved; a single output is probed up to d.
GiveUpRange(d) ==
  /\ IF Cardinality(Current) > 1
     THEN /\ todo' = Halves \o Tail(todo) /\ phase' = "range"
          /\ AttemptOver /\ UNCHANGED outcome
     ELSE RangeDone(IF Probe(Current, d) THEN "Different" ELSE "Inconclusive")
  /\ UNCHANGED <<problem, covered, reusable, singleton>>

\* Faulty variant: the retry keeps the seeds.
RetryWithSeeds(d) ==
  \/ GiveUpRange(d)
  \/ Cardinality(Current) = 1 /\ seeded /\ Attempt(helper, Surface(problem, Outputs))

\* BudgetExceeded: a single output with many seeds is tried once without them.
BudgetExceeded(d) ==
  \/ GiveUpRange(d)
  \/ Cardinality(Current) = 1 /\ seeded /\ Attempt(helper, {})

-----------------------------------------------------------------------------
(* runWithProjection *)

Grow(U) ==
  /\ U # {} /\ tracked' = tracked \cup U /\ phase' = "project"
  /\ QueryOver
  /\ UNCHANGED <<rangeVars, aux>>

\* Q starts as the post-reset cube when every tracked symbol has a value, and
\* otherwise as an interpolant between the post-reset states and bad.
IsCube == \A v \in tracked : problem.known[v] # None
InitialRegions ==
  IF IsCube THEN {Cube(Context)}
  ELSE {R \in SUBSET State : /\ R = Cylinder(R, tracked) /\ R \cap Bad(Context) = {}
                             /\ Cube(Context) \cap Facts(problem, aux, tracked) \subseteq R}

StartProjection ==
  /\ phase = "project"
  /\ concrete' = IsCube
  /\ \E R \in InitialRegions :
       /\ first' = R /\ regions' = <<R>>
       /\ IF ExcludesBad({R}, aux, tracked)
          THEN phase' = "loop" /\ look' = 1
          ELSE phase' = "candidate" /\ look' = 0
  /\ pass' = 1 /\ retries' = 0
  /\ UNCHANGED <<rangeVars, tracked, aux>>

\* No interpolant separates the post-reset states from bad.
NoInitialRegion ==
  /\ phase = "project" /\ InitialRegions = {}
  /\ IF Close(problem, tracked) # tracked
     THEN Grow(Close(problem, tracked))
     ELSE GiveUpRange(MaxLookahead)

\* craigProjectionBudgetExceeded, craigTransitionBuildBudgetExceeded: the sizes
\* that decide are not part of the model.
ProjectionTooLarge == phase = "project" /\ BudgetExceeded(0)
TransitionTooLarge == phase = "loop" /\ look <= MaxLookahead /\ BudgetExceeded(look)

Sat == phase = "loop" /\ look <= MaxLookahead /\ QuerySat
Unsat == phase = "loop" /\ look <= MaxLookahead /\ ~QuerySat

\* promoteLocalAuxiliaryInvariants, for this and for later projections.
Promote(facts) == ~ (facts \subseteq aux) /\ aux' = aux \cup facts

\* Facts about the support of the query may remove the model; the query is
\* then repeated.
MineLocally ==
  /\ Sat /\ retries < MaxRetries
  /\ \E U \in SUBSET (tracked \cup Untracked) : Promote(Mine(problem, U, aux))
  /\ retries' = retries + 1
  /\ UNCHANGED <<rangeVars, phase, tracked, concrete, first, regions, look, pass>>

\* Symbols of the support are tracked from now on; the model, the scorer and
\* the limits decide which.  The facts are kept, Q is not.
RefineProjection ==
  /\ Sat
  /\ \E U \in SUBSET Untracked : Grow(U)

\* SAT from the post-reset cube and nothing left to track.
Candidate ==
  /\ Sat /\ Untracked = {} /\ concrete /\ pass = 1
  /\ phase' = "candidate"
  /\ UNCHANGED <<rangeVars, tracked, aux, queryVars>>

\* The next lookahead starts again from the first region.
Restart ==
  /\ look' = look + 1 /\ pass' = 1 /\ retries' = 0
  /\ regions' = <<first>>
  /\ UNCHANGED <<rangeVars, phase, tracked, aux, concrete, first>>

LookFurther ==
  /\ Sat /\ Untracked = {} /\ ~ (concrete /\ pass = 1)
  /\ Restart \/ BudgetExceeded(look)

OutOfLookahead ==
  /\ phase = "loop" /\ look > MaxLookahead
  /\ GiveUpRange(MaxLookahead)

\* convertInterpolant: any region the solver may return.
Interpolants ==
  {R \in SUBSET State : /\ R = Cylinder(R, tracked) /\ NextImage \subseteq R
                        /\ R \cap BadWithin(Context, look) = {}}

\* regionContainedInReachableUnionSkipping
Contained(R, S) == R \cap Admitted(Context, tracked) \subseteq S
Others(rs, k) == UNION {rs[j] : j \in (DOMAIN rs) \ {k}}
Redundant(rs) ==
  {k \in DOMAIN rs : k <= CompactionLimit /\ Contained(rs[k], Others(rs, k))}

\* compactReachableRegionsImpl: at most one region is removed.
Compact(rs) ==
  IF Len(rs) < CompactionStart \/ Redundant(rs) = {} THEN rs
  ELSE RemoveAt(rs, Min(Redundant(rs)))

Proof == [regions |-> ToSet(regions), tracked |-> tracked, aux |-> aux]

\* The interpolant lies inside Q: the outputs of the range agree in every
\* reachable state, and Q becomes a helper for the ranges to come.
Fixpoint ==
  /\ Unsat
  /\ \E R \in Interpolants : Contained(R, Q)
  /\ RangeProved
  /\ reusable' = Proof
  /\ singleton' \in {singleton} \cup IF Cardinality(Current) = 1 THEN {Proof} ELSE {}
  /\ UNCHANGED problem

\* Q := Q or R.
GrowQ ==
  /\ Unsat /\ pass < MaxPass
  /\ \E R \in Interpolants :
       ~Contained(R, Q) /\ regions' = Compact(Append(regions, R))
  /\ pass' = pass + 1 /\ retries' = 0
  /\ UNCHANGED <<rangeVars, phase, tracked, aux, concrete, first, look>>

\* The growth budget is spent: a focused projection is refined, and when there
\* is nothing left to track the next lookahead is tried.
SpendBudget ==
  /\ Unsat
  /\ \E R \in Interpolants : ~Contained(R, Q)
  /\ IF problem.focused /\ Untracked # {}
     THEN \E U \in SUBSET Untracked : Grow(U)
     ELSE \/ problem.focused /\ look < MaxLookahead /\ Restart
          \/ BudgetExceeded(look)

\* findImcCounterexample replays the candidate exactly at its depth.
Validate ==
  /\ phase = "candidate"
  /\ RangeDone(IF \E o \in Current : DiffersAt(o, look) THEN "Different"
                                                        ELSE "Inconclusive")
  /\ UNCHANGED <<problem, covered, reusable, singleton>>

Done == phase = "done" /\ UNCHANGED vars

Check ==
  \/ ProbeFrameZero \/ StartRange \/ StartProjection \/ NoInitialRegion
  \/ ProjectionTooLarge \/ TransitionTooLarge \/ MineLocally \/ RefineProjection
  \/ Candidate \/ LookFurther \/ OutOfLookahead \/ Fixpoint \/ GrowQ \/ SpendBudget
  \/ Validate

Next == Check \/ Done

\* A single thread runs the checker; every query returns.
Spec == Init /\ [][Next]_vars /\ WF_vars(Check)

-----------------------------------------------------------------------------
(* Properties *)

Helpers == [regions : SUBSET SUBSET State, tracked : SUBSET Symbols,
            aux : SUBSET (Symbols \X (BOOLEAN \cup Symbols))]

\* Every variable has its type, in particular todo keeps non-empty ranges.
TypeOK ==
  /\ problem \in Problems
  /\ phase \in {"probe", "range", "project", "loop", "candidate", "done"}
  /\ outcome \in {"Equivalent", "Inconclusive", "Different"}
  /\ todo \in Seq([outputs : (SUBSET Outputs) \ {{}}, last : BOOLEAN])
  /\ phase # "done" => todo # <<>>
  /\ covered \subseteq Outputs
  /\ {reusable, singleton, helper} \subseteq Helpers
  /\ {seeded, concrete} \subseteq BOOLEAN
  /\ tracked \subseteq Symbols /\ aux \subseteq Symbols \X (BOOLEAN \cup Symbols)
  /\ first \subseteq State /\ regions \in Seq(SUBSET State)
  /\ look \in 0..MaxLookahead + 1 /\ pass \in 1..MaxPass /\ retries \in 0..MaxRetries

Reachable == UNION {ReachIn(d) : d \in 0..Cardinality(State)}

\* An output without state support and too wide for the probes.
Unprobed(o) == problem.sees[o] = {} /\ o \in problem.wide

\* A covered output is never seen to differ from its counterpart: no mix of
\* projections, helpers, mined facts and compaction makes the fixed point test
\* of runWithProjection succeed too early.
CoveredIsSound ==
  \A o \in covered : Unprobed(o) \/
    \A s \in Reachable, i \in Inputs : <<s, i>> \notin problem.differ[o]

\* What saveReusableCraigInvariant keeps for later ranges, and every mined
\* fact, holds in every reachable state.
HelpersContainReach ==
  /\ \A h \in {reusable, singleton} : h # NoHelper =>
       /\ Reachable \subseteq UNION h.regions
       /\ \A f \in h.aux, s \in Reachable : FactHolds(f, s)
  /\ \A f \in aux, s \in Reachable : FactHolds(f, s)

\* What the image query leaves out it has covered before: the regions that
\* Source skips have no successor outside Q, also after compaction has moved
\* the post-reset cube from its place.
SkippedRegionsAreSettled ==
  phase = "loop" =>
    \A s \in Q \ Source : \A t \in State : Step(Context, s, t, look) => t \in Q

\* Q never meets bad: what addSuffixBadFormula gives every interpolant.
QAvoidsBad ==
  phase = "loop" => Q \cap Facts(problem, aux, tracked) \cap Bad(Context) = {}

\* A candidate handed to the exact replay is a difference at that depth,
\* unless the focused requests left next values free.
CandidateIsReal ==
  phase = "candidate" /\ ~problem.focused =>
    \E o \in Current : DiffersAt(o, look)

\* Equivalence is only reported with every output covered, and a difference
\* only when there is one.
OutcomeIsExact ==
  phase = "done" =>
    /\ outcome = "Equivalent" => covered = Outputs
    /\ outcome = "Different" =>
         \E o \in Outputs : \E d \in 0..MaxLookahead : DiffersAt(o, d)

\* The attempts, refinements, restarts and splits of runCraigOutputRange end.
Terminates == <>(phase = "done")

\* The regions of Q, the helpers and what is covered keep what each of the
\* later queries takes for granted (runCraigOutputRange, IMCEngine::run).
SearchIsSound ==
  /\ TypeOK /\ CoveredIsSound /\ HelpersContainReach /\ SkippedRegionsAreSettled
  /\ QAvoidsBad /\ CandidateIsReal /\ OutcomeIsExact
=============================================================================
