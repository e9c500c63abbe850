----------------------------- MODULE SecStrategy -----------------------------
(***************************************************************************)
(* SequentialEquivalenceStrategy: from two extracted designs to a verdict  *)
(* and an exit code.  Outputs drop out at extraction, at the reset filter  *)
(* and in the engines; the strategy keeps the books and must never count   *)
(* an output as proved that is not.  The engines are taken at their word:  *)
(* PDR and KInduction model how they come to it.                           *)
(***************************************************************************)
EXTENDS Integers, FiniteSets, Sequences, Functions

CONSTANTS
  Observed,        \* the observed outputs, numbered in problem order
  Tasks            \* the tasks the tool may be given

(***************************************************************************)
(* engine, dualRail, reset and export are options.  large says that the    *)
(* problem is cut into output batches where that depends on its size       *)
(* (kMinOutputsForBatchedPdrProof outputs, more than 12 rail states for    *)
(* IMC).  differ are the outputs that differ at some point of the problem. *)
(***************************************************************************)
Task ==
  [engine : {"pdr", "ki", "imc"}, dualRail : BOOLEAN, large : BOOLEAN,
   reset : {"none", "resolved", "unresolved"},
   export : {"none", "dump", "dumpOnly"}, differ : SUBSET Observed]

ASSUME StrategyConstants == Observed \subseteq Nat /\ Tasks \subseteq Task

VARIABLES
  task,      \* options and designs; never changes
  phase,     \* "extract", "reset", "export", "prove", "report" or "done"
  coverage,  \* outputCoverage: all, checked and skipped outputs
  ranges,    \* output ranges still to prove, in order
  covered,   \* coveredOutputs
  skipped,   \* outputs with a skip reason
  failed,    \* IMC: a range of the current batch was inconclusive
  mismatch,  \* a concrete difference was found
  result,    \* SequentialEquivalenceResult
  report     \* RunResult and the exit code

vars == <<task, phase, coverage, ranges, covered, skipped, failed, mismatch,
          result, report>>

engineVars == <<ranges, covered, skipped, failed, mismatch>>

NoCoverage == [all |-> {}, checked |-> {}, skipped |-> {}]
NoResult == [status |-> "none", coverage |-> NoCoverage, exact |-> FALSE,
             proven |-> {}]
NoReport == [status |-> "none", exit |-> 0, proven |-> {}]

Init ==
  /\ task \in Tasks
  /\ phase = "extract"
  /\ coverage = NoCoverage
  /\ ranges = <<>>
  /\ covered = {}
  /\ skipped = {}
  /\ failed = FALSE
  /\ mismatch = FALSE
  /\ result = NoResult
  /\ report = NoReport

-----------------------------------------------------------------------------
(* Results *)

\* Faulty variant: the verdict of the engine is passed on as it is.
MakeSecResultVerbatim(status, cov) ==
  [status |-> status, coverage |-> cov, exact |-> FALSE, proven |-> {}]

\* makeSecResult: what extraction left out is not proved.
MakeSecResult(status, cov) ==
  [status |-> IF /\ status = "Equivalent"
                 /\ cov.checked # {} /\ cov.checked # cov.all
              THEN "PartiallyProved" ELSE status,
   coverage |-> cov, exact |-> FALSE, proven |-> {}]

\* setExactSecEngineProofProgress, setSecEngineProofProgress
WithProgress(r, outputs) == [r EXCEPT !.exact = TRUE, !.proven = outputs]

\* buildCoverageWithDualRailOutputSkips
CoverageAfterProof ==
  [coverage EXCEPT !.checked = covered,
                   !.skipped = @ \cup (coverage.checked \ covered)]

Finish(r) == phase' = "report" /\ result' = r

\* The verdict of an engine that counted covered outputs.
CountedStatus ==
  IF covered = {} THEN "Inconclusive"
  ELSE IF covered = coverage.checked THEN "Equivalent" ELSE "PartiallyProved"

-----------------------------------------------------------------------------
(* From the designs to the problem *)

\* Extraction of either design found something it cannot model.
Unsupported ==
  /\ phase = "extract"
  /\ Finish(MakeSecResult("Unsupported", NoCoverage))
  /\ UNCHANGED <<task, coverage, engineVars, report>>

\* Boundary validation, alignment and export throw; the caller reports Error.
Throw ==
  /\ phase = "extract" \/ (phase = "export" /\ task.export # "none")
  /\ phase' = "done"
  /\ report' = [status |-> "Error", exit |-> 1, proven |-> {}]
  /\ UNCHANGED <<task, coverage, engineVars, result>>

\* selectCoveredObservedOutputs: outputs with a connectivity skip on either
\* side are left out.
Align ==
  /\ phase = "extract"
  /\ \E skips \in SUBSET Observed :
       coverage' = [all |-> Observed, checked |-> Observed \ skips,
                    skipped |-> skips]
  /\ IF coverage'.checked = {}
     THEN Finish(MakeSecResult("Unsupported", coverage'))
     ELSE phase' = "reset" /\ UNCHANGED result
  /\ UNCHANGED <<task, engineVars, report>>

\* applyResetBootstrapSpec: a reset port is unknown, or named twice.
ResetUnresolved ==
  /\ phase = "reset" /\ task.reset = "unresolved"
  /\ Finish(MakeSecResult("Unsupported", coverage))
  /\ UNCHANGED <<task, coverage, engineVars, report>>

(***************************************************************************)
(* filterOutputsRequiringUninitializedState: without a bootstrap, binary   *)
(* SEC leaves out the outputs that depend on state of unknown initial      *)
(* value; which ones these are is a matter of the designs.                 *)
(***************************************************************************)
ResolveReset ==
  /\ phase = "reset" /\ task.reset # "unresolved"
  /\ \E unanchored \in SUBSET coverage.checked :
       /\ unanchored # {} => ~ task.dualRail /\ task.reset = "none"
       /\ coverage' = [coverage EXCEPT !.checked = @ \ unanchored,
                                       !.skipped = @ \cup unanchored]
  /\ IF coverage'.checked = {}
     THEN Finish(MakeSecResult("Unsupported", coverage'))
     ELSE phase' = "export" /\ UNCHANGED result
  /\ UNCHANGED <<task, engineVars, report>>

DumpOnly ==
  /\ phase = "export" /\ task.export = "dumpOnly"
  /\ Finish(MakeSecResult("Exported", coverage))
  /\ UNCHANGED <<task, coverage, engineVars, report>>

-----------------------------------------------------------------------------
(* What the engines promise of a set of outputs *)

MayProve(S) == S \cap task.differ = {}

(***************************************************************************)
(* A binary PDR run with a reset bootstrap may also report a difference at *)
(* an observation frontier that no run reaches (module PDR).               *)
(***************************************************************************)
TrustedDifference ==
  ~ (task.engine = "pdr" /\ ~ task.dualRail /\ task.reset = "resolved")
MayRefute(S) == TrustedDifference => S \cap task.differ # {}

(***************************************************************************)
(* Dual-rail k-induction may count an output although it differs, as long  *)
(* as another one that differs is open (module KInduction).                *)
(***************************************************************************)
TrustedCount == ~ (task.engine = "ki" /\ task.dualRail)
MayCount(C, S) ==
  C \cap task.differ # {} => ~ TrustedCount /\ (S \ C) \cap task.differ # {}

\* Consecutive ranges that together are S.
Batches(S) ==
  {b \in UNION {[1..n -> (SUBSET S) \ {{}}] : n \in 1..Cardinality(S)} :
     /\ UNION Range(b) = S
     /\ \A i, j \in DOMAIN b : i < j => \A o \in b[i], p \in b[j] : o < p}

\* Batched engines: PDR always under dual rail, IMC only there.
Batched ==
  \/ task.engine = "pdr" /\ (task.dualRail \/ task.large)
  \/ task.engine = "imc" /\ task.dualRail /\ task.large

\* A range and whether it opens a batch of the plan.
StartEngine ==
  /\ phase = "export" /\ task.export # "dumpOnly"
  /\ phase' = "prove"
  /\ \E b \in IF Batched THEN Batches(coverage.checked) ELSE {<<coverage.checked>>} :
       ranges' = [i \in DOMAIN b |-> [outputs |-> b[i], opens |-> TRUE]]
  /\ UNCHANGED <<task, coverage, covered, skipped, failed, mismatch, result, report>>

\* IMC looks at frame 0 of all outputs before it cuts batches.
ImcFrameZero ==
  /\ phase = "export" /\ task.export # "dumpOnly"
  /\ task.engine = "imc" /\ Batched
  /\ MayRefute(coverage.checked)
  /\ mismatch' = TRUE
  /\ Finish(MakeSecResult("Different", coverage))
  /\ UNCHANGED <<task, coverage, ranges, covered, skipped, failed, report>>

-----------------------------------------------------------------------------
(* Ranges, for PDR and for IMC over a large dual-rail problem *)

Ranged == task.engine = "pdr" \/ (task.engine = "imc" /\ Batched)

\* IMC gives up on later batches once one was not proved.
Stopped ==
  task.engine = "imc" /\ (failed \/ mismatch) /\ ranges # <<>> /\ Head(ranges).opens

Proving == phase = "prove" /\ Ranged /\ ranges # <<>> /\ ~ Stopped

Current == Head(ranges).outputs

\* Faulty variant: the midpoint is the start of the range.
LowerHalfNone(S) == {}

LowerHalf(S) ==
  {o \in S : 2 * Cardinality({p \in S : p <= o}) <= Cardinality(S)}

RangeProved ==
  /\ Proving
  /\ MayProve(Current)
  /\ covered' = covered \cup Current
  /\ skipped' = skipped \ Current
  /\ ranges' = Tail(ranges)
  /\ UNCHANGED <<task, phase, coverage, failed, mismatch, result, report>>

\* PDR reports the difference at once; the coverage is that of extraction.
PdrRefuted ==
  /\ Proving /\ task.engine = "pdr"
  /\ MayRefute(Current)
  /\ mismatch' = TRUE
  /\ Finish(MakeSecResult("Different", coverage))
  /\ UNCHANGED <<task, coverage, ranges, covered, skipped, failed, report>>

\* IMC still tries the other halves of the batch.
ImcRefuted ==
  /\ Proving /\ task.engine = "imc"
  /\ MayRefute(Current)
  /\ mismatch' = TRUE
  /\ ranges' = Tail(ranges)
  /\ UNCHANGED <<task, phase, coverage, covered, skipped, failed, result, report>>

\* Dual rail: an inconclusive range of several outputs is halved.
SplitRange ==
  /\ Proving /\ task.dualRail
  /\ Cardinality(Current) > 1
  /\ ranges' = <<[outputs |-> LowerHalf(Current), opens |-> FALSE],
                 [outputs |-> Current \ LowerHalf(Current), opens |-> FALSE]>>
               \o Tail(ranges)
  /\ UNCHANGED <<task, phase, coverage, covered, skipped, failed, mismatch, result,
                 report>>

\* Faulty variant: the open output is counted as covered.
PdrLeafCovered ==
  /\ Proving /\ task.engine = "pdr" /\ task.dualRail
  /\ Cardinality(Current) = 1
  /\ covered' = covered \cup Current
  /\ ranges' = Tail(ranges)
  /\ UNCHANGED <<task, phase, coverage, skipped, failed, mismatch, result, report>>

\* Dual-rail PDR: a single output stays open.
PdrLeafOpen ==
  /\ Proving /\ task.engine = "pdr" /\ task.dualRail
  /\ Cardinality(Current) = 1
  /\ skipped' = skipped \cup Current
  /\ ranges' = Tail(ranges)
  /\ UNCHANGED <<task, phase, coverage, covered, failed, mismatch, result, report>>

\* Binary PDR: the first inconclusive batch ends the proof.
PdrStop ==
  /\ Proving /\ task.engine = "pdr" /\ ~ task.dualRail
  /\ skipped' = skipped \cup (coverage.checked \ covered)
  /\ ranges' = <<>>
  /\ UNCHANGED <<task, phase, coverage, covered, failed, mismatch, result, report>>

\* IMC: a single output, or a candidate that the witness search did not
\* confirm, stays open and is without skip reason so far.
ImcRangeOpen ==
  /\ Proving /\ task.engine = "imc"
  /\ failed' = TRUE
  /\ ranges' = Tail(ranges)
  /\ UNCHANGED <<task, phase, coverage, covered, skipped, mismatch, result, report>>

RangesEnded == phase = "prove" /\ Ranged /\ (ranges = <<>> \/ Stopped)

\* When nothing is proved, binary PDR reports the coverage of extraction.
PdrVerdict ==
  /\ RangesEnded /\ task.engine = "pdr"
  /\ Finish(MakeSecResult(CountedStatus,
                          IF covered = {} /\ ~ task.dualRail
                          THEN coverage ELSE CoverageAfterProof))
  /\ UNCHANGED <<task, coverage, engineVars, report>>

\* Faulty variant: an inconclusive half hides the difference in the other.
ImcVerdictOpenFirst ==
  /\ RangesEnded /\ task.engine = "imc"
  /\ Finish(IF mismatch /\ ~ failed THEN MakeSecResult("Different", coverage)
            ELSE WithProgress(MakeSecResult(CountedStatus, CoverageAfterProof),
                              covered))
  /\ skipped' = coverage.checked \ covered
  /\ UNCHANGED <<task, coverage, ranges, covered, failed, mismatch, report>>

\* runLargeDualRailCraigImc ends, finishDualRailImcProof
ImcVerdict ==
  /\ RangesEnded /\ task.engine = "imc"
  /\ Finish(IF mismatch THEN MakeSecResult("Different", coverage)
            ELSE WithProgress(MakeSecResult(CountedStatus, CoverageAfterProof),
                              covered))
  /\ skipped' = coverage.checked \ covered
  /\ UNCHANGED <<task, coverage, ranges, covered, failed, mismatch, report>>

-----------------------------------------------------------------------------
(* Whole-problem runs: IMC otherwise, and k-induction *)

Whole == phase = "prove" /\ ~ Ranged

\* Some engine found a difference and validated it.
WholeRefuted ==
  /\ Whole
  /\ MayRefute(coverage.checked)
  /\ mismatch' = TRUE
  /\ Finish(MakeSecResult("Different", coverage))
  /\ UNCHANGED <<task, coverage, ranges, covered, skipped, failed, report>>

\* runImcSecEngine without batches; under dual rail finishDualRailImcProof.
WholeImc ==
  /\ Whole /\ task.engine = "imc"
  /\ \E proved \in BOOLEAN :
       /\ proved => MayProve(coverage.checked)
       /\ covered' = IF proved THEN coverage.checked ELSE {}
       /\ Finish(IF proved
                 THEN WithProgress(MakeSecResult("Equivalent", coverage),
                                   coverage.checked)
                 ELSE IF task.dualRail
                 THEN WithProgress(
                        MakeSecResult("Inconclusive",
                          [coverage EXCEPT !.checked = {},
                                           !.skipped = @ \cup coverage.checked]),
                        {})
                 ELSE MakeSecResult("Inconclusive", coverage))
  /\ UNCHANGED <<task, coverage, ranges, skipped, failed, mismatch, report>>

\* runKInductionSecEngine, binary
WholeKInduction ==
  /\ Whole /\ task.engine = "ki" /\ ~ task.dualRail
  /\ \E proved \in BOOLEAN :
       /\ proved => MayProve(coverage.checked)
       /\ covered' = IF proved THEN coverage.checked ELSE {}
       /\ Finish(MakeSecResult(IF proved THEN "Equivalent" ELSE "Inconclusive",
                               coverage))
  /\ UNCHANGED <<task, coverage, ranges, skipped, failed, mismatch, report>>

\* proveDualRailResidualsWithSelectedEngine counted the outputs C.
CountKInduction ==
  /\ Whole /\ task.engine = "ki" /\ task.dualRail
  /\ ranges # <<>>
  /\ \E C \in SUBSET coverage.checked :
       /\ MayCount(C, coverage.checked)
       /\ covered' = C
       /\ skipped' = coverage.checked \ C
  /\ ranges' = <<>>
  /\ UNCHANGED <<task, phase, coverage, failed, mismatch, result, report>>

KInductionVerdict ==
  /\ Whole /\ task.engine = "ki" /\ task.dualRail
  /\ ranges = <<>>
  /\ Finish(MakeSecResult(CountedStatus, CoverageAfterProof))
  /\ UNCHANGED <<task, coverage, engineVars, report>>

-----------------------------------------------------------------------------
(* emitSecResult, assignSecResult *)

ExitCode(status) ==
  CASE status \in {"Equivalent", "Exported"} -> 0
    [] status = "PartiallyProved" -> 1
    [] status \in {"Inconclusive", "Unsupported"} -> 2
    [] status = "Different" -> 3

\* Without exact progress the covered outputs of a proof count as proved.
EmitSecResult ==
  /\ phase = "report"
  /\ phase' = "done"
  /\ report' = [status |-> result.status, exit |-> ExitCode(result.status),
                proven |-> IF result.exact THEN result.proven
                           ELSE IF result.status \in {"Equivalent", "PartiallyProved"}
                           THEN result.coverage.checked ELSE {}]
  /\ UNCHANGED <<task, coverage, engineVars, result>>

Next ==
  \/ Unsupported \/ Throw \/ Align \/ ResetUnresolved \/ ResolveReset
  \/ DumpOnly \/ StartEngine \/ ImcFrameZero
  \/ RangeProved \/ PdrRefuted \/ ImcRefuted \/ SplitRange
  \/ PdrLeafOpen \/ PdrStop \/ ImcRangeOpen \/ PdrVerdict \/ ImcVerdict
  \/ WholeRefuted \/ WholeImc \/ WholeKInduction
  \/ CountKInduction \/ KInductionVerdict
  \/ EmitSecResult

Spec == Init /\ [][Next]_vars /\ WF_vars(Next)

-----------------------------------------------------------------------------
(* Properties *)

Status == {"Equivalent", "PartiallyProved", "Inconclusive", "Different",
           "Unsupported", "Exported"}
Coverage == [all : SUBSET Observed, checked : SUBSET Observed,
             skipped : SUBSET Observed]

\* The books of the strategy keep their types.
TypeOK ==
  /\ task \in Tasks
  /\ phase \in {"extract", "reset", "export", "prove", "report", "done"}
  /\ coverage \in Coverage
  /\ ranges \in Seq([outputs : SUBSET Observed, opens : BOOLEAN])
  /\ covered \in SUBSET Observed /\ skipped \in SUBSET Observed
  /\ failed \in BOOLEAN /\ mismatch \in BOOLEAN
  /\ result \in [status : Status \cup {"none"}, coverage : Coverage,
                 exact : BOOLEAN, proven : SUBSET Observed]
  /\ report \in [status : Status \cup {"none", "Error"}, exit : 0..3,
                 proven : SUBSET Observed]

(***************************************************************************)
(* Exit code 0 of a finished proof: no observed output of the designs      *)
(* differs, not even one that extraction, the reset filter or an engine    *)
(* left out on the way.                                                    *)
(***************************************************************************)
ProvedIsSound ==
  phase = "done" /\ report.status = "Equivalent" => Observed \cap task.differ = {}

\* The outputs reported as proved are proved, whatever the verdict is, and
\* a partial proof has some.
ProvenIsSound ==
  /\ TrustedCount => report.proven \cap task.differ = {}
  /\ report.status = "PartiallyProved" => report.proven # {}

\* A difference that some range confirmed is reported as such, and one that
\* is reported is real: neither an inconclusive sibling nor a proof hides it.
DifferenceDecides ==
  /\ phase = "done" /\ mismatch => report.status = "Different"
  /\ report.status = "Different" /\ TrustedDifference =>
       coverage.checked \cap task.differ # {}

\* Every observed output is either checked or skipped in the result.
ResultIsPartition ==
  result.status # "none" /\ result.coverage.all # {} =>
    /\ result.coverage.checked \cup result.coverage.skipped = Observed
    /\ result.coverage.checked \cap result.coverage.skipped = {}

Pending == UNION {ranges[i].outputs : i \in DOMAIN ranges}

(***************************************************************************)
(* No output is lost while ranges are halved, dropped and proved: a checked*)
(* output is pending, covered, skipped or, in IMC, given up with its batch.*)
(***************************************************************************)
NothingLost ==
  phase = "prove" /\ Ranged =>
    /\ covered \cup skipped \cup Pending \subseteq coverage.checked
    /\ (covered \cup skipped) \cap Pending = {}
    /\ ~ failed /\ ~ mismatch =>
         coverage.checked \subseteq covered \cup skipped \cup Pending

(***************************************************************************)
(* The inductive invariant.  A coverage is empty or splits the observed    *)
(* outputs; before the engines run their books are empty; while they run   *)
(* the covered outputs are proved ones and no output is lost; a result     *)
(* keeps what its verdict claims, and a report what the result says.       *)
(***************************************************************************)
Splits(c) ==
  /\ c.all = Observed
  /\ c.checked \cup c.skipped = Observed
  /\ c.checked \cap c.skipped = {}

CoverageBooks ==
  /\ coverage = NoCoverage \/ Splits(coverage)
  /\ phase = "extract" => coverage = NoCoverage
  /\ phase \in {"reset", "export", "prove"} =>
       Splits(coverage) /\ coverage.checked # {}

EngineBooks ==
  /\ phase \in {"extract", "reset", "export"} =>
       covered = {} /\ skipped = {} /\ ranges = <<>> /\ ~ failed /\ ~ mismatch
  /\ covered \subseteq coverage.checked
  /\ MayCount(covered, coverage.checked)
  /\ mismatch => MayRefute(coverage.checked)
  /\ phase = "prove" /\ mismatch => Ranged /\ task.engine = "imc"
  /\ NothingLost
  /\ phase = "prove" => \A i \in DOMAIN ranges : \A j \in DOMAIN ranges :
       i # j => ranges[i].outputs \cap ranges[j].outputs = {}

ResultBooks ==
  /\ phase \notin {"report", "done"} => result = NoResult
  /\ phase = "report" => result.status # "none"
  /\ result.coverage = NoCoverage \/ Splits(result.coverage)
  /\ result.status = "Equivalent" => Observed \cap task.differ = {}
  /\ result.status \in {"Equivalent", "PartiallyProved"} =>
       /\ result.coverage.checked # {}
       /\ TrustedCount => result.coverage.checked \cap task.differ = {}
       /\ result.exact => result.proven = result.coverage.checked
  /\ result.exact /\ TrustedCount => result.proven \cap task.differ = {}
  /\ phase \in {"report", "done"} => (mismatch <=> result.status = "Different")

ReportBooks ==
  /\ phase # "done" => report = NoReport
  /\ phase = "done" =>
       \/ report.status = "Error" /\ report.proven = {} /\ ~ mismatch
       \/ /\ report.status = result.status
          /\ report.proven = (IF result.exact THEN result.proven
                              ELSE IF result.status \in {"Equivalent", "PartiallyProved"}
                              THEN result.coverage.checked ELSE {})

StrategyInvariant == CoverageBooks /\ EngineBooks /\ ResultBooks /\ ReportBooks

\* Halving comes to an end and a verdict is reported.
Terminates == <>(phase = "done")

=============================================================================
