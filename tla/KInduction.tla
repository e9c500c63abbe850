----------------------------- MODULE KInduction -----------------------------
(***************************************************************************)
(* Strict k-induction.  Under the binary encoding KInductionEngine runs    *)
(* over all observed outputs; under the dual-rail encoding                 *)
(* proveDualRailResidualsWithSelectedEngine runs it on slices of the       *)
(* outputs with the base case deferred, and adds up what the slices prove. *)
(* Modelled from complete initial states, that is, without reset bootstrap *)
(* and without an observation frontier.                                    *)
(***************************************************************************)
EXTENDS ProductMachine, FiniteSetsExt, SequencesExt

CONSTANTS
  Problems,           \* the SEC problems a run may be given
  NumOutputs,         \* observed outputs, numbered in problem order
  MaxK,               \* max_k
  MaxPrecheck,        \* kMaxDualRailResidualConcretePrecheckOutputs
  MaxStored,          \* kMaxStoredPublicSplitHypothesisOutputs
  MaxSplitHypothesis, \* maxDualRailSplitHypothesisOutputs
  UnknownStops        \* the deferred leaf's resource limit stops

Outputs == 1..NumOutputs

(***************************************************************************)
(* The initial states, the transition function, the points at which each   *)
(* output differs, the encoding, and the size class of the rail state:     *)
(* small (below kMinDeferredRailStateSymbolsForEarlyStop), medium, or large*)
(* (above kMaxFullDualRailPublicHypothesisStateSymbols, which is also      *)
(* kMaxDualRailResidualProofStateSymbols and kMaxSimplePathStateSymbols).  *)
(***************************************************************************)
Problem ==
  [init : SUBSET State, next : [Point -> State],
   differ : [Outputs -> SUBSET Point], dualRail : BOOLEAN,
   surface : {"small", "medium", "large"}, simplePath : BOOLEAN]

ASSUME KInductionConstants ==
  /\ Problems \subseteq Problem
  /\ \A p \in Problems : p.surface # "large" => p.simplePath
  /\ NumOutputs \in Nat \ {0} /\ MaxK \in Nat
  /\ MaxPrecheck \in Nat /\ MaxStored \in Nat
  /\ MaxSplitHypothesis \in Nat /\ UnknownStops \in Nat \ {0}
-----------------------------------------------------------------------------
VARIABLES
  problem,   \* the SEC problem; never changes
  stage,     \* where the strategy and the engine stand
  slices,    \* dual rail: output slices still to prove, in order
  stored,    \* dualRailResidualPublicProperty, as a set of outputs
  memo,      \* inconclusiveDualRailResidualPublicKiAttempts
  covered,   \* coveredOutputs
  skipped,   \* outputs with a skip reason
  run,       \* the engine run: its outputs and its combined result
  ranges,    \* the output ranges of the run still to prove, in order
  fallback,  \* fallbackHypothesis of the run; {} when there is none
  attempt,   \* the runMonolithicKInduction call in progress
  result     \* what is reported in the end

vars == <<problem, stage, slices, stored, memo, covered, skipped, run, ranges,
          fallback, attempt, result>>

strategyVars == <<problem, slices, stored, covered, skipped>>

Undecided == [status |-> "none", bound |-> 0]

Init ==
  /\ problem \in Problems
  /\ stage = IF problem.dualRail THEN "precheck" ELSE "slice"
  /\ slices = IF problem.dualRail THEN <<>> ELSE <<Outputs>>
  /\ stored = {}
  /\ memo = {}
  /\ covered = {}
  /\ skipped = {}
  /\ run = [slice |-> {}, proved |-> TRUE, bound |-> 0]
  /\ ranges = <<>>
  /\ fallback = {}
  /\ attempt = [hypothesis |-> {}, k |-> 1, unknowns |-> 0, second |-> FALSE]
  /\ result = Undecided

-----------------------------------------------------------------------------
(* The queries *)

\* The points at which some output of S differs: bad of the slice S.
Differ(S) == UNION {problem.differ[o] : o \in S}

\* The points at depth d.
Frontier(d) == AfterSteps(problem)[d] \X Inputs

DiffersAt(S, d) == Frontier(d) \cap Differ(S) # {}
BaseCounterexample(S, k) == \E d \in 0..k : DiffersAt(S, d)

\* Faulty variant: the horizon of the query is reported, not the bad frame.
BadFrameIsHorizon(S, k) == k

FirstBadFrame(S, k) == Min({d \in 0..k : DiffersAt(S, d)})

(***************************************************************************)
(* The formula of proveByInductionStatus: a k-step path on which the       *)
(* hypothesis H holds up to the last frame but one and S differs at the    *)
(* last; when the cone is small enough no state occurs twice.              *)
(***************************************************************************)
StepCounterexample(H, S, k) ==
  \E p \in [0..k -> Point] :
    /\ p[k] \in Differ(S)
    /\ \A j \in 0..k - 1 : p[j] \notin Differ(H) /\ p[j + 1][1] = problem.next[p[j]]
    /\ problem.simplePath =>
         \A i, j \in 0..k : p[i][1] = p[j][1] => i = j

-----------------------------------------------------------------------------
(* Slices and hypotheses.  A public hypothesis is the set of outputs whose *)
(* equality is assumed; {} stands for none.                                *)

LowerHalf(S) ==
  {o \in S : 2 * Cardinality({p \in S : p <= o}) <= Cardinality(S)}
UpperHalf(S) == S \ LowerHalf(S)

\* What buildSupportBoundedOutputBatches may return: consecutive ranges that
\* together are all outputs; the supports of the outputs decide which.
OutputBatches ==
  {b \in UNION {[1..n -> (SUBSET Outputs) \ {{}}] : n \in 1..NumOutputs} :
     /\ UNION Range(b) = Outputs
     /\ \A i, j \in DOMAIN b : i < j => \A o \in b[i], p \in b[j] : o < p}

\* Faulty variant: the stored hypothesis is used on large surfaces too.
StoredForAnySurface(S) ==
  IF Cardinality(stored) > Cardinality(S) THEN stored ELSE {}

\* storedResidualPublicConjunctionHypothesis
StoredFor(S) ==
  IF problem.surface # "large" /\ Cardinality(stored) > Cardinality(S)
  THEN stored ELSE {}

\* initialPublicConjunctionHypothesis, when nothing is stored.
OwnFor(S) == IF problem.dualRail /\ problem.surface # "large" THEN S ELSE {}

\* applyDualRailSplitHypothesis: the hypothesis range S is attempted under.
Applied(H, S) ==
  IF /\ problem.dualRail /\ Cardinality(H) > Cardinality(S)
     /\ \/ H = stored /\ StoredFor(S) = stored
        \/ H = run.slice /\ problem.surface # "large"
        \/ Cardinality(H) <= MaxSplitHypothesis
  THEN H ELSE S

\* shouldTryFallbackHypothesisAtRange; standalone leaves obey the same limit.
TryFallback(r) ==
  /\ fallback # {} /\ fallback # r.preferred
  /\ Cardinality(fallback) <= MaxStored
  /\ ~ /\ Cardinality(r.outputs) = 1 /\ r.preferred # {}
       /\ Cardinality(fallback) > Cardinality(r.preferred)

Memoized(S, H) == problem.dualRail /\ <<S, H>> \in memo

\* The bound is the bad frame of a counterexample; with any other verdict it
\* is informational and left out.
Report(status, bound) ==
  /\ result' = [status |-> status, bound |-> bound]
  /\ stage' = "done"

-----------------------------------------------------------------------------
(* The dual-rail strategy before the first slice *)

\* isInputOnlyOutputMismatchCandidate
InputOnly(o) ==
  \A s, t \in State, i \in Inputs :
    <<s, i>> \in problem.differ[o] <=> <<t, i>> \in problem.differ[o]

\* The outputs findSmallDualRailResidualConcreteCounterexample reports on, and
\* the depth it searches each of them to.
PrecheckDepth(o) == IF NumOutputs <= MaxPrecheck THEN MaxK ELSE 0
PrecheckFails ==
  {o \in Outputs : /\ InputOnly(o) \/ NumOutputs <= MaxPrecheck
                   /\ BaseCounterexample({o}, PrecheckDepth(o))}

Precheck ==
  /\ stage = "precheck"
  /\ IF PrecheckFails # {}
     THEN LET o == Min(PrecheckFails)
          IN  Report("Different", FirstBadFrame({o}, PrecheckDepth(o)))
     ELSE stage' = "sweep" /\ UNCHANGED result
  /\ UNCHANGED <<strategyVars, memo, run, ranges, fallback, attempt>>

\* findAndRecordDualRailResidualCounterexample
SweepFinds ==
  /\ stage = "sweep"
  /\ problem.surface # "large"
  /\ BaseCounterexample(Outputs, MaxK)
  /\ Report("Different", FirstBadFrame(Outputs, MaxK))
  /\ UNCHANGED <<strategyVars, memo, run, ranges, fallback, attempt>>

\* Batching also remembers the conjunction of all residual outputs.
StartSlices ==
  /\ stage = "sweep"
  /\ problem.surface # "large" => ~ BaseCounterexample(Outputs, MaxK)
  /\ slices' \in OutputBatches
  /\ stored' = IF NumOutputs > 1 THEN Outputs ELSE {}
  /\ stage' = "slice"
  /\ UNCHANGED <<problem, covered, skipped, memo, run, ranges, fallback,
                 attempt, result>>

-----------------------------------------------------------------------------
(* KInductionEngine::run on one slice *)

(***************************************************************************)
(* A dual-rail slice is within the batching limits and is one range; the   *)
(* binary engine cuts the outputs into batches itself.  A stored hypothesis*)
(* is the fallback of the run, otherwise the slice is its own hypothesis.  *)
(***************************************************************************)
BeginRun ==
  /\ stage = "slice"
  /\ slices # <<>>
  /\ LET S == Head(slices) IN
       /\ run' = [slice |-> S, proved |-> TRUE, bound |-> 0]
       /\ fallback' = StoredFor(S)
       /\ \E b \in IF problem.dualRail THEN {<<S>>} ELSE OutputBatches :
            ranges' = [i \in DOMAIN b |->
                         [outputs |-> b[i],
                          preferred |-> IF fallback' = {} THEN OwnFor(S) ELSE {}]]
  /\ slices' = Tail(slices)
  /\ stage' = "range"
  /\ UNCHANGED <<problem, stored, covered, skipped, memo, attempt, result>>

Range1 == Head(ranges)

\* The range is decided; the depth of a proof counts towards the run's.
EndRange(proved, bound) ==
  /\ ranges' = Tail(ranges)
  /\ run' = [run EXCEPT !.proved = @ /\ proved, !.bound = Max({@, bound})]
  /\ stage' = "range"
  /\ UNCHANGED result

StartAttempt(H, second) ==
  attempt' = [hypothesis |-> Applied(H, Range1.outputs),
              k |-> 1, unknowns |-> 0, second |-> second]

(***************************************************************************)
(* An identical leaf was inconclusive before: UNKNOWN is replayed.  In a   *)
(* run over several outputs that ends the range, a standalone leaf may     *)
(* still try the fallback.                                                 *)
(***************************************************************************)
ReplayMemo ==
  /\ stage = "range" /\ ranges # <<>>
  /\ Memoized(Range1.outputs, Applied(Range1.preferred, Range1.outputs))
  /\ StartAttempt(Range1.preferred, FALSE)
  /\ IF Cardinality(run.slice) = 1
     THEN stage' = "failed" /\ UNCHANGED <<run, ranges, result>>
     ELSE EndRange(FALSE, 0)
  /\ UNCHANGED <<strategyVars, memo, fallback>>

\* runMonolithicKInduction, up to its loop: the base check of frame 0 unless
\* it is deferred; without state symbols that check decides.
BeginAttempt ==
  /\ stage = "range" /\ ranges # <<>>
  /\ ~ Memoized(Range1.outputs, Applied(Range1.preferred, Range1.outputs))
  /\ StartAttempt(Range1.preferred, FALSE)
  /\ IF ~ problem.dualRail /\ DiffersAt(Range1.outputs, 0)
     THEN Report("Different", 0) /\ UNCHANGED <<run, ranges>>
     ELSE IF Symbols = {}
     THEN EndRange(TRUE, 0)
     ELSE stage' = "step" /\ UNCHANGED <<run, ranges, result>>
  /\ UNCHANGED <<strategyVars, memo, fallback>>

InLoop == stage = "step" /\ attempt.k <= MaxK

StepOpen ==
  StepCounterexample(attempt.hypothesis, Range1.outputs, attempt.k)

(***************************************************************************)
(* The step closes.  With local base checks the concrete prefix up to k is *)
(* validated before the proof is accepted.                                 *)
(***************************************************************************)
StepProved ==
  /\ InLoop /\ ~ StepOpen
  /\ IF ~ problem.dualRail /\ BaseCounterexample(Range1.outputs, attempt.k)
     THEN /\ Report("Different", FirstBadFrame(Range1.outputs, attempt.k))
          /\ UNCHANGED <<run, ranges>>
     ELSE EndRange(TRUE, attempt.k)
  /\ UNCHANGED <<strategyVars, memo, fallback, attempt>>

\* The step does not close: with local base checks the new frontier comes
\* next, and then k + 1.
StepRefuted ==
  /\ InLoop /\ StepOpen
  /\ IF ~ problem.dualRail /\ DiffersAt(Range1.outputs, attempt.k)
     THEN Report("Different", attempt.k) /\ UNCHANGED attempt
     ELSE /\ attempt' = [attempt EXCEPT !.k = @ + 1, !.unknowns = 0]
          /\ UNCHANGED <<stage, result>>
  /\ UNCHANGED <<strategyVars, memo, run, ranges, fallback>>

\* batchedInductionDecisionLimit: several outputs, or a leaf of a wide rail
\* surface, are solved under a decision limit.
Limited ==
  \/ Cardinality(Range1.outputs) > 1
  \/ problem.dualRail /\ problem.surface # "small"

(***************************************************************************)
(* The decision limit was reached.  Several outputs: inconclusive at once. *)
(* A deferred leaf goes on to k + 1, whatever the answer would have been,  *)
(* until too many steps in a row were limited.                             *)
(***************************************************************************)
StepUnknown ==
  /\ InLoop /\ Limited
  /\ IF \/ Cardinality(Range1.outputs) > 1
        \/ attempt.unknowns + 1 >= UnknownStops
     THEN stage' = "failed" /\ UNCHANGED attempt
     ELSE /\ attempt' = [attempt EXCEPT !.k = @ + 1, !.unknowns = @ + 1]
          /\ UNCHANGED stage
  /\ UNCHANGED <<strategyVars, memo, run, ranges, fallback, result>>

-----------------------------------------------------------------------------
(* runOutputRangeKInduction after an inconclusive attempt.  Its cumulative *)
(* base query at the end of the loop repeats the frontier checks.          *)

Failed == stage = "failed" \/ (stage = "step" /\ attempt.k > MaxK)

\* rememberInconclusiveDualRailLeafAttempt
Remember ==
  memo' = IF problem.dualRail /\ Cardinality(Range1.outputs) = 1
          THEN memo \cup {<<Range1.outputs, attempt.hypothesis>>} ELSE memo

Retry == Failed /\ ~ attempt.second /\ TryFallback(Range1)

\* The stored hypothesis is tried on the same range.
RetryFallback ==
  /\ Retry
  /\ ~ Memoized(Range1.outputs, fallback)
  /\ Remember
  /\ StartAttempt(fallback, TRUE)
  /\ stage' = "step"
  /\ UNCHANGED <<strategyVars, run, ranges, fallback, result>>

GiveUp == Failed /\ (Retry => Memoized(Range1.outputs, fallback))

\* Children keep the hypothesis of the range, or take the range itself.
SplitRange ==
  /\ GiveUp
  /\ Cardinality(Range1.outputs) > 1
  /\ LET S == Range1.outputs
         H == IF Range1.preferred # {} THEN Range1.preferred ELSE S
     IN  ranges' = <<[outputs |-> LowerHalf(S), preferred |-> H],
                     [outputs |-> UpperHalf(S), preferred |-> H]>> \o Tail(ranges)
  /\ stage' = "range"
  /\ UNCHANGED <<strategyVars, memo, run, fallback, attempt, result>>

FailLeaf ==
  /\ GiveUp
  /\ Cardinality(Range1.outputs) = 1
  /\ Remember
  /\ EndRange(FALSE, 0)
  /\ UNCHANGED <<strategyVars, fallback, attempt>>

-----------------------------------------------------------------------------
(* What becomes of a run *)

RunEnded == stage = "range" /\ ranges = <<>>

\* Binary: the run decides.
ReportRun ==
  /\ RunEnded /\ ~ problem.dualRail
  /\ Report(IF run.proved THEN "Equivalent" ELSE "Inconclusive", 0)
  /\ covered' = Outputs
  /\ UNCHANGED <<problem, slices, stored, skipped, memo, run, ranges, fallback,
                 attempt>>

\* The frames the deferred induction proof still needs.
BaseHorizon == IF run.bound = 0 THEN 0 ELSE run.bound - 1

DeferredBase == RunEnded /\ problem.dualRail /\ run.proved

\* checkBaseCounterexampleWithFastValidation: SAT
BaseFails ==
  /\ DeferredBase
  /\ BaseCounterexample(run.slice, BaseHorizon)
  /\ Report("Different", FirstBadFrame(run.slice, BaseHorizon))
  /\ UNCHANGED <<strategyVars, memo, run, ranges, fallback, attempt>>

\* UNSAT: the slice is covered.
BaseHolds ==
  /\ DeferredBase
  /\ ~ BaseCounterexample(run.slice, BaseHorizon)
  /\ covered' = covered \cup run.slice
  /\ stage' = "slice"
  /\ UNCHANGED <<problem, slices, stored, skipped, memo, run, ranges, fallback,
                 attempt, result>>

\* Faulty variant: the slice itself is queued again.
SplitSliceAgain ==
  /\ RunEnded /\ problem.dualRail
  /\ Cardinality(run.slice) > 1
  /\ slices' = <<run.slice>> \o slices
  /\ stage' = "slice"
  /\ UNCHANGED <<problem, stored, covered, skipped, memo, run, ranges, fallback,
                 attempt, result>>

(***************************************************************************)
(* The run was inconclusive, or its base validation answered UNKNOWN:      *)
(* several outputs are halved, left half first; a single output is skipped.*)
(***************************************************************************)
SplitSlice ==
  /\ RunEnded /\ problem.dualRail
  /\ Cardinality(run.slice) > 1
  /\ slices' = <<LowerHalf(run.slice), UpperHalf(run.slice)>> \o slices
  /\ stage' = "slice"
  /\ UNCHANGED <<problem, stored, covered, skipped, memo, run, ranges, fallback,
                 attempt, result>>

SkipOutput ==
  /\ RunEnded /\ problem.dualRail
  /\ Cardinality(run.slice) = 1
  /\ skipped' = skipped \cup run.slice
  /\ stage' = "slice"
  /\ UNCHANGED <<problem, slices, stored, covered, memo, run, ranges, fallback,
                 attempt, result>>

\* The verdict of proveDualRailResidualsWithSelectedEngine.
ReportCoverage ==
  /\ stage = "slice" /\ slices = <<>>
  /\ Report(IF covered = {} THEN "Inconclusive"
            ELSE IF covered = Outputs THEN "Equivalent" ELSE "PartiallyProved",
            0)
  /\ UNCHANGED <<strategyVars, memo, run, ranges, fallback, attempt>>

Next ==
  \/ Precheck \/ SweepFinds \/ StartSlices
  \/ BeginRun \/ ReplayMemo \/ BeginAttempt
  \/ StepProved \/ StepRefuted \/ StepUnknown
  \/ RetryFallback \/ SplitRange \/ FailLeaf
  \/ ReportRun \/ BaseFails \/ BaseHolds \/ SplitSlice \/ SkipOutput
  \/ ReportCoverage

Spec == Init /\ [][Next]_vars /\ WF_vars(Next)

-----------------------------------------------------------------------------
(* Properties *)

\* The fields of the strategy and of the engine keep their types.
TypeOK ==
  /\ problem \in Problem
  /\ stage \in {"precheck", "sweep", "slice", "range", "step", "failed", "done"}
  /\ slices \in Seq((SUBSET Outputs) \ {{}})
  /\ stored \in {{}, Outputs}
  /\ memo \subseteq {{o} : o \in Outputs} \X SUBSET Outputs
  /\ covered \subseteq Outputs /\ skipped \subseteq Outputs
  /\ run \in [slice : SUBSET Outputs, proved : BOOLEAN, bound : 0..MaxK]
  /\ ranges \in Seq([outputs : (SUBSET Outputs) \ {{}}, preferred : SUBSET Outputs])
  /\ fallback \in {{}, stored}
  /\ attempt \in [hypothesis : SUBSET Outputs, k : 1..MaxK + 1,
                   unknowns : 0..UnknownStops - 1, second : BOOLEAN]
  /\ result \in [status : {"none", "Equivalent", "PartiallyProved",
                           "Inconclusive", "Different"}, bound : 0..MaxK]

\* The depths that matter: every reachable state occurs before this one.
Depths == 0..Cardinality(State)
EverDiffers(o) == \E d \in Depths : DiffersAt({o}, d)

\* A proof of equivalence put together from slices with different depths, with
\* hypotheses that cover more than the slice and with deferred base checks is
\* a proof: no output differs at any reachable point.
EquivalentIsSound ==
  result.status = "Equivalent" => \A o \in Outputs : ~ EverDiffers(o)

\* A reported difference is reachable, at the reported frame.
DifferentIsReal ==
  result.status = "Different" => DiffersAt(Outputs, result.bound)

(***************************************************************************)
(* What a covered slice really establishes while others are open: its      *)
(* outputs are not among the first to differ.  A hypothesis over all       *)
(* residual outputs is justified up to the first difference only.          *)
(***************************************************************************)
CoveredNotFirstToDiffer ==
  problem.dualRail =>
    \A o \in covered, d \in Depths :
      DiffersAt({o}, d) => \E p \in Outputs \ covered, e \in 0..d :
                             DiffersAt({p}, e)

\* On large rail surfaces no hypothesis outlives its engine run, and what is
\* covered is proved whatever becomes of the other outputs.
CoveredAloneIsProved ==
  problem.dualRail /\ problem.surface = "large" =>
    \A o \in covered : ~ EverDiffers(o)

(***************************************************************************)
(* "A real bounded counterexample" is not hidden: wherever the concrete    *)
(* search runs, a verdict other than Different means that no output differs*)
(* within max_k frames.  Decision limits and replayed UNKNOWN answers do   *)
(* not hide one.                                                           *)
(***************************************************************************)
ShallowDifferencesReported ==
  stage = "done" /\ result.status # "Different" /\ (problem.dualRail => problem.surface # "large")
    => ~ BaseCounterexample(Outputs, MaxK)

\* No output is lost or handled twice when slices are halved: each is pending,
\* being proved, covered or skipped.
EveryOutputAccountedFor ==
  problem.dualRail /\ stage \notin {"precheck", "sweep"} /\ result.status # "Different" =>
    LET open    == UNION Range(slices)
        current == IF stage \in {"range", "step", "failed"} THEN run.slice ELSE {}
    IN  /\ covered \cup skipped \cup open \cup current = Outputs
        /\ covered \cap skipped = {}
        /\ (covered \cup skipped) \cap (open \cup current) = {}
        /\ open \cap current = {}

\* Halving, retries and replays come to an end.
Terminates == <>(stage = "done")

(***************************************************************************)
(* What the comment on stored hypotheses promises: "acceptance still       *)
(* requires every slice proof plus concrete base validation by the         *)
(* caller", so that a covered output is a proved one.                      *)
(***************************************************************************)
PartialVerdictSound ==
  result.status = "PartiallyProved" => \A o \in covered : ~ EverDiffers(o)

\* What counts as covered is: a verdict of equivalence, an output proved alone
\* and an output that is skipped as the first to differ all hold what they
\* say, and no output gets lost between the slices.
CoverageIsSound ==
  EquivalentIsSound /\ CoveredNotFirstToDiffer /\ CoveredAloneIsProved /\ EveryOutputAccountedFor

\* A difference is reported at the frame where the outputs first differ, and
\* one within the depth of the base case is never missed.
DifferencesAreRight == DifferentIsReal /\ ShallowDifferencesReported
=============================================================================
