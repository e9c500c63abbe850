-------------------------- MODULE SecStrategyProofs --------------------------
(***************************************************************************)
(* Proofs about SecStrategy: for any number of outputs, any tasks and any  *)
(* way of cutting the outputs into ranges, the verdict, the counts and the *)
(* coverage that the tool reports are right.                               *)
(*                                                                         *)
(* The last part is about InternalRelations, the learner that runs before  *)
(* every engine of the strategy: whatever the solver answers, and however  *)
(* the guesses are split into partitions, what it returns holds in every   *)
(* state the two designs reach, for any number of registers and any        *)
(* machine.                                                                *)
(***************************************************************************)
EXTENDS SecStrategy, InternalRelations, SequenceTheorems, WellFoundedInduction, TLAPS

-----------------------------------------------------------------------------
(* Types *)

OutputRange == [outputs : SUBSET Observed, opens : BOOLEAN]
Results == [status : Status \cup {"none"}, coverage : Coverage,
            exact : BOOLEAN, proven : SUBSET Observed]

LEMMA TaskFields ==
  ASSUME task \in Tasks
  PROVE  /\ task.engine \in {"pdr", "ki", "imc"}
         /\ task.dualRail \in BOOLEAN /\ task.large \in BOOLEAN
         /\ task.differ \subseteq Observed
BY StrategyConstants DEF Task

LEMMA ResultTyped ==
  ASSUME NEW status \in Status, NEW cov \in Coverage
  PROVE  /\ MakeSecResult(status, cov) \in Results
         /\ MakeSecResult(status, cov).status # "none"
         /\ \A S \in SUBSET Observed :
              /\ WithProgress(MakeSecResult(status, cov), S) \in Results
              /\ WithProgress(MakeSecResult(status, cov), S).status # "none"
<1>1. /\ MakeSecResult(status, cov) \in Results
      /\ MakeSecResult(status, cov).status # "none"
  BY DEF MakeSecResult, Results, Status
<1>2. \A r \in Results, S \in SUBSET Observed :
        /\ WithProgress(r, S) \in Results
        /\ WithProgress(r, S).status = r.status
  BY DEF WithProgress, Results
<1> QED BY <1>1, <1>2

LEMMA NoResultTyped == NoResult \in Results /\ NoCoverage \in Coverage
BY DEF NoResult, NoCoverage, Results, Coverage

\* The first range and the others.
LEMMA RangesTail ==
  ASSUME NEW s \in Seq(OutputRange), s # <<>>
  PROVE  /\ Tail(s) \in Seq(OutputRange)
         /\ Head(s) = s[1] /\ 1 \in DOMAIN s
         /\ Head(s) \in OutputRange
         /\ Head(s).outputs \subseteq Observed
         /\ \A i \in DOMAIN Tail(s) : i + 1 \in DOMAIN s /\ Tail(s)[i] = s[i + 1]
         /\ \A i \in DOMAIN s : i # 1 => i - 1 \in DOMAIN Tail(s)
<1>1. /\ Tail(s) \in Seq(OutputRange) /\ Head(s) = s[1]
      /\ Len(Tail(s)) = Len(s) - 1
      /\ Head(s) \in OutputRange
      /\ \A i \in 1..Len(Tail(s)) : Tail(s)[i] = s[i + 1]
  BY HeadTailProperties
<1>2. Len(s) \in Nat /\ Len(s) # 0 /\ DOMAIN s = 1..Len(s)
      /\ DOMAIN Tail(s) = 1..Len(Tail(s))
  BY <1>1, EmptySeq, LenProperties
<1>3. Head(s).outputs \subseteq Observed
  BY <1>1 DEF OutputRange
<1> QED BY <1>1, <1>2, <1>3

LEMMA Halves ==
  ASSUME NEW S \in SUBSET Observed
  PROVE  LowerHalf(S) \subseteq S
BY DEF LowerHalf

\* Halving the first range: its halves, then the other ranges.
LEMMA SplitRanges ==
  ASSUME NEW s \in Seq(OutputRange), s # <<>>,
         NEW h \in OutputRange, NEW k \in OutputRange
  PROVE  /\ <<h, k>> \o Tail(s) \in Seq(OutputRange)
         /\ DOMAIN (<<h, k>> \o Tail(s)) = 1..(Len(s) + 1)
         /\ DOMAIN s = 1..Len(s) /\ Len(s) \in Nat
         /\ (<<h, k>> \o Tail(s))[1] = h /\ (<<h, k>> \o Tail(s))[2] = k
         /\ \A i \in 3..(Len(s) + 1) : (<<h, k>> \o Tail(s))[i] = s[i - 1]
<1> DEFINE t == <<h, k>>
<1>1. t \in Seq(OutputRange) /\ Len(t) = 2 /\ t[1] = h /\ t[2] = k
  OBVIOUS
<1>2. /\ Tail(s) \in Seq(OutputRange) /\ Len(Tail(s)) = Len(s) - 1
      /\ \A i \in 1..Len(Tail(s)) : Tail(s)[i] = s[i + 1]
  BY HeadTailProperties
<1>3. Len(s) \in Nat /\ Len(s) # 0 /\ DOMAIN s = 1..Len(s)
  BY EmptySeq, LenProperties
<1> HIDE DEF t
<1>4. /\ t \o Tail(s) \in Seq(OutputRange)
      /\ Len(t \o Tail(s)) = Len(t) + Len(Tail(s))
      /\ \A i \in 1..(Len(t) + Len(Tail(s))) :
           (t \o Tail(s))[i] = IF i <= Len(t) THEN t[i] ELSE Tail(s)[i - Len(t)]
  BY <1>1, <1>2, ConcatProperties
<1>5. DOMAIN (t \o Tail(s)) = 1..(Len(s) + 1)
  BY <1>1, <1>2, <1>3, <1>4, LenProperties
<1>6. \A i \in 3..(Len(s) + 1) : (t \o Tail(s))[i] = s[i - 1]
  <2> TAKE i \in 3..(Len(s) + 1)
  <2>1. i \in 1..(Len(t) + Len(Tail(s))) /\ ~ (i <= Len(t))
    BY <1>1, <1>2, <1>3
  <2>2. (t \o Tail(s))[i] = Tail(s)[i - 2]
    BY <1>1, <1>4, <2>1
  <2>3. i - 2 \in 1..Len(Tail(s)) /\ i - 2 + 1 = i - 1
    BY <1>2, <1>3
  <2> QED BY <1>2, <2>2, <2>3
<1>7. (t \o Tail(s))[1] = h /\ (t \o Tail(s))[2] = k
  BY <1>1, <1>2, <1>3, <1>4
<1> QED BY <1>3, <1>4, <1>5, <1>6, <1>7 DEF t

\* The ranges of a plan are together the checked outputs, and disjoint.
LEMMA StartRanges ==
  ASSUME StartEngine, coverage.checked \in SUBSET Observed
  PROVE  /\ ranges' \in Seq(OutputRange)
         /\ UNION {ranges'[i].outputs : i \in DOMAIN ranges'} = coverage.checked
         /\ \A i \in DOMAIN ranges' : \A j \in DOMAIN ranges' :
              i # j => ranges'[i].outputs \cap ranges'[j].outputs = {}
<1> DEFINE S == coverage.checked
<1>1. PICK b \in IF Batched THEN Batches(S) ELSE {<<S>>} :
        ranges' = [i \in DOMAIN b |-> [outputs |-> b[i], opens |-> TRUE]]
  BY DEF StartEngine
<1>2. /\ \E n \in Nat : b \in [1..n -> SUBSET S]
      /\ UNION Range(b) = S
      /\ \A i, j \in DOMAIN b : i < j => \A o \in b[i], p \in b[j] : o < p
  <2>1. CASE Batched
    <3>1. \A n \in 1..Cardinality(S) : n \in Nat
      OBVIOUS
    <3>2. PICK n \in 1..Cardinality(S) : b \in [1..n -> (SUBSET S) \ {{}}]
      BY <1>1, <2>1 DEF Batches
    <3> QED BY <1>1, <2>1, <3>1, <3>2 DEF Batches
  <2>2. CASE ~ Batched
    <3>1. b = <<S>> /\ DOMAIN b = 1..1 /\ b[1] = S
      BY <1>1, <2>2
    <3>2. b \in [1..1 -> SUBSET S] /\ Range(b) = {S}
      BY <3>1 DEF Range
    <3> QED BY <3>1, <3>2
  <2> QED BY <2>1, <2>2
<1> HIDE DEF S
<1>3. PICK n \in Nat : b \in [1..n -> SUBSET S]
  BY <1>2
<1>4. /\ DOMAIN ranges' = 1..n /\ DOMAIN b = 1..n
      /\ \A i \in 1..n : /\ ranges'[i] = [outputs |-> b[i], opens |-> TRUE]
                          /\ ranges'[i].outputs = b[i]
                          /\ b[i] \subseteq S
  BY <1>1, <1>3
<1>5. ranges' \in [1..n -> OutputRange]
  BY <1>1, <1>3, <1>4 DEF OutputRange, S
<1>6. ranges' \in Seq(OutputRange)
  BY <1>5, SeqDef
<1>7. UNION {ranges'[i].outputs : i \in DOMAIN ranges'} = S
  <2>1. Range(b) = {ranges'[i].outputs : i \in DOMAIN ranges'}
    BY <1>4 DEF Range
  <2> QED BY <1>2, <2>1
<1>8. \A i \in DOMAIN ranges' : \A j \in DOMAIN ranges' :
        i # j => ranges'[i].outputs \cap ranges'[j].outputs = {}
  <2> SUFFICES ASSUME NEW i \in 1..n, NEW j \in 1..n, i # j,
                      NEW o \in b[i], o \in b[j]
               PROVE  FALSE
    BY <1>4
  <2>1. o \in Nat
    BY <1>4, StrategyConstants DEF S
  <2>2. i < j \/ j < i
    OBVIOUS
  <2>3. o < o
    BY <1>2, <1>4, <2>2
  <2> QED BY <2>1, <2>3
<1> QED BY <1>6, <1>7, <1>8 DEF S

LEMMA InitTypeOK == Init => TypeOK
<1> SUFFICES ASSUME Init PROVE TypeOK
  OBVIOUS
<1>1. coverage \in Coverage /\ result \in Results
  BY NoResultTyped DEF Init
<1>2. report \in [status : Status \cup {"none", "Error"}, exit : 0..3,
                 proven : SUBSET Observed]
  BY DEF Init, NoReport
<1>3. ranges \in Seq([outputs : SUBSET Observed, opens : BOOLEAN])
  BY DEF Init
<1> QED BY <1>1, <1>2, <1>3 DEF Init, TypeOK, Results

\* What a verdict leaves alone, and the result it records.
LEMMA FinishTypeOK ==
  ASSUME TypeOK, NEW r \in Results, Finish(r),
         UNCHANGED <<task, coverage, ranges, failed, report>>,
         covered' \in SUBSET Observed, skipped' \in SUBSET Observed,
         mismatch' \in BOOLEAN
  PROVE  TypeOK'
BY DEF TypeOK, Finish, Results

LEMMA CoverageAfterProofTyped ==
  ASSUME TypeOK
  PROVE  /\ CoverageAfterProof \in Coverage
         /\ CoverageAfterProof.all = coverage.all
         /\ CoverageAfterProof.checked = covered
         /\ CoverageAfterProof.skipped =
              coverage.skipped \cup (coverage.checked \ covered)
BY DEF TypeOK, CoverageAfterProof, Coverage

LEMMA CountedStatusTyped ==
  CountedStatus \in {"Inconclusive", "Equivalent", "PartiallyProved"}
BY DEF CountedStatus

LEMMA ExitCodeTyped == \A status \in Status : ExitCode(status) \in 0..3
BY DEF ExitCode, Status

\* Only a result with a status is reported, so the exit code is defined.
LEMMA NextTypeOK == TypeOK /\ ResultBooks /\ [Next]_vars => TypeOK'
<1> SUFFICES ASSUME TypeOK, ResultBooks, [Next]_vars
             PROVE  TypeOK'
  OBVIOUS
<1>0. /\ coverage \in Coverage /\ result \in Results
      /\ ranges \in Seq(OutputRange)
      /\ covered \subseteq Observed /\ skipped \subseteq Observed
      /\ coverage.checked \subseteq Observed
      /\ mismatch \in BOOLEAN
  BY DEF TypeOK, Results, Coverage, OutputRange
<1>1. CASE Unsupported
  BY <1>0, <1>1, ResultTyped, NoResultTyped, FinishTypeOK
     DEF Unsupported, Status, engineVars
<1>2. CASE Throw
  BY <1>2 DEF Throw, TypeOK, engineVars
<1>3. CASE Align
  <2>1. coverage' \in Coverage
    BY <1>3 DEF Align, Coverage
  <2>2. result' \in Results
    BY <1>0, <1>3, <2>1, ResultTyped DEF Align, Finish, Status
  <2> QED BY <1>3, <2>1, <2>2 DEF Align, Finish, TypeOK, Results, engineVars
<1>4. CASE ResetUnresolved
  BY <1>0, <1>4, ResultTyped, FinishTypeOK DEF ResetUnresolved, Status, engineVars
<1>5. CASE ResolveReset
  <2>1. coverage' \in Coverage
    BY <1>0, <1>5 DEF ResolveReset, Coverage
  <2>2. result' \in Results
    BY <1>0, <1>5, <2>1, ResultTyped DEF ResolveReset, Finish, Status
  <2> QED BY <1>5, <2>1, <2>2 DEF ResolveReset, Finish, TypeOK, Results, engineVars
<1>6. CASE DumpOnly
  BY <1>0, <1>6, ResultTyped, FinishTypeOK DEF DumpOnly, Status, engineVars
<1>7. CASE StartEngine
  <2>1. ranges' \in Seq(OutputRange)
    BY <1>0, <1>7, StartRanges
  <2> QED BY <1>7, <2>1 DEF StartEngine, TypeOK, OutputRange
<1>8. CASE ImcFrameZero
  BY <1>0, <1>8, ResultTyped, FinishTypeOK DEF ImcFrameZero, Status
<1>9. CASE RangeProved
  BY <1>0, <1>9, RangesTail DEF RangeProved, Proving, Current, TypeOK, OutputRange
<1>10. CASE PdrRefuted
  BY <1>0, <1>10, ResultTyped, FinishTypeOK DEF PdrRefuted, Status
<1>11. CASE ImcRefuted
  BY <1>0, <1>11, RangesTail DEF ImcRefuted, Proving, TypeOK, OutputRange
<1>12. CASE SplitRange
  <2>1. ranges' \in Seq(OutputRange)
    <3> DEFINE h == [outputs |-> LowerHalf(Current), opens |-> FALSE]
               k == [outputs |-> Current \ LowerHalf(Current), opens |-> FALSE]
    <3>1. ranges # <<>> /\ ranges' = <<h, k>> \o Tail(ranges)
      BY <1>12 DEF SplitRange, Proving
    <3>2. Current \subseteq Observed
      BY <1>0, <3>1, RangesTail DEF Current
    <3>3. h \in OutputRange /\ k \in OutputRange
      BY <3>2, Halves DEF OutputRange
    <3> HIDE DEF h, k
    <3> QED BY <1>0, <3>1, <3>3, SplitRanges
  <2> QED BY <1>12, <2>1 DEF SplitRange, TypeOK, OutputRange
<1>13. CASE PdrLeafOpen
  BY <1>0, <1>13, RangesTail DEF PdrLeafOpen, Proving, Current, TypeOK, OutputRange
<1>14. CASE PdrStop
  BY <1>0, <1>14 DEF PdrStop, TypeOK, OutputRange
<1>15. CASE ImcRangeOpen
  BY <1>0, <1>15, RangesTail DEF ImcRangeOpen, Proving, TypeOK, OutputRange
<1>16. CASE PdrVerdict
  BY <1>0, <1>16, ResultTyped, FinishTypeOK, CountedStatusTyped,
     CoverageAfterProofTyped DEF PdrVerdict, Status, engineVars
<1>17. CASE ImcVerdict
  BY <1>0, <1>17, ResultTyped, FinishTypeOK, CountedStatusTyped,
     CoverageAfterProofTyped DEF ImcVerdict, Status
<1>18. CASE WholeRefuted
  BY <1>0, <1>18, ResultTyped, FinishTypeOK DEF WholeRefuted, Status
<1>19. CASE WholeImc
  <2>1. [coverage EXCEPT !.checked = {}, !.skipped = @ \cup coverage.checked]
          \in Coverage
    BY <1>0 DEF Coverage
  <2>2. result' \in Results
    BY <1>0, <1>19, <2>1, ResultTyped DEF WholeImc, Finish, Status
  <2> QED BY <1>0, <1>19, <2>2 DEF WholeImc, Finish, TypeOK, Results
<1>20. CASE WholeKInduction
  <2>1. result' \in Results
    BY <1>0, <1>20, ResultTyped DEF WholeKInduction, Finish, Status
  <2> QED BY <1>0, <1>20, <2>1 DEF WholeKInduction, Finish, TypeOK, Results
<1>21. CASE CountKInduction
  BY <1>0, <1>21 DEF CountKInduction, TypeOK, OutputRange
<1>22. CASE KInductionVerdict
  BY <1>0, <1>22, ResultTyped, FinishTypeOK, CountedStatusTyped,
     CoverageAfterProofTyped DEF KInductionVerdict, Status, engineVars
<1>23. CASE EmitSecResult
  <2>1. report' \in [status : Status \cup {"none", "Error"}, exit : 0..3,
                     proven : SUBSET Observed]
    <3>1. result.status \in Status
      BY <1>0, <1>23 DEF EmitSecResult, ResultBooks, Results
    <3>2. ExitCode(result.status) \in 0..3
      BY <3>1, ExitCodeTyped
    <3>3. result.proven \subseteq Observed /\ result.coverage.checked \subseteq Observed
      BY <1>0 DEF Results, Coverage
    <3> QED BY <1>23, <3>1, <3>2, <3>3 DEF EmitSecResult
  <2> QED BY <1>23, <2>1 DEF EmitSecResult, TypeOK, engineVars
<1>24. CASE UNCHANGED vars
  BY <1>24 DEF vars, TypeOK
<1> QED
  BY <1>1, <1>2, <1>3, <1>4, <1>5, <1>6, <1>7, <1>8, <1>9, <1>10, <1>11, <1>12,
     <1>13, <1>14, <1>15, <1>16, <1>17, <1>18, <1>19, <1>20, <1>21, <1>22,
     <1>23, <1>24 DEF Next

-----------------------------------------------------------------------------
(* Coverage *)

\* Every other operation keeps the coverage and the order of the phases.
LEMMA PhaseStep ==
  ASSUME Next, ~ Align, ~ ResolveReset
  PROVE  /\ task' = task /\ coverage' = coverage
         /\ \/ phase' = phase
            \/ phase' \in {"report", "done"}
            \/ phase = "export" /\ phase' = "prove"
BY DEF Next, Unsupported, Throw, ResetUnresolved, DumpOnly, StartEngine,
   ImcFrameZero, RangeProved, PdrRefuted, ImcRefuted, SplitRange, PdrLeafOpen,
   PdrStop, ImcRangeOpen, PdrVerdict, ImcVerdict, WholeRefuted, WholeImc,
   WholeKInduction, CountKInduction, KInductionVerdict, EmitSecResult, Finish

LEMMA CoverageStep ==
  ASSUME TypeOK, CoverageBooks, Next
  PROVE  CoverageBooks'
<1>1. CASE Align
  <2>1. PICK skips \in SUBSET Observed :
          coverage' = [all |-> Observed, checked |-> Observed \ skips,
                       skipped |-> skips]
    BY <1>1 DEF Align
  <2>2. Splits(coverage')
    BY <2>1 DEF Splits
  <2>3. phase' = "report" \/ (phase' = "reset" /\ coverage'.checked # {})
    BY <1>1 DEF Align, Finish
  <2> QED BY <2>2, <2>3 DEF CoverageBooks, Splits
<1>2. CASE ResolveReset
  <2>1. Splits(coverage) /\ coverage \in Coverage
    BY <1>2 DEF CoverageBooks, TypeOK, ResolveReset
  <2>2. PICK unanchored \in SUBSET coverage.checked :
          coverage' = [coverage EXCEPT !.checked = @ \ unanchored,
                                       !.skipped = @ \cup unanchored]
    BY <1>2 DEF ResolveReset
  <2>3. /\ coverage'.all = coverage.all
        /\ coverage'.checked = coverage.checked \ unanchored
        /\ coverage'.skipped = coverage.skipped \cup unanchored
    BY <2>1, <2>2 DEF Coverage
  <2>4. Splits(coverage')
    BY <2>1, <2>3 DEF Splits
  <2>5. phase' = "report" \/ (phase' = "export" /\ coverage'.checked # {})
    BY <1>2 DEF ResolveReset, Finish
  <2> QED BY <2>4, <2>5 DEF CoverageBooks, Splits
<1>3. CASE ~ Align /\ ~ ResolveReset
  BY <1>3, PhaseStep DEF CoverageBooks, Splits
<1> QED BY <1>1, <1>2, <1>3

-----------------------------------------------------------------------------
(* The books of the engines *)

\* Ranged engines are trusted, so what they cover does not differ.
LEMMA RangedTrusted ==
  ASSUME Ranged PROVE TrustedCount
BY DEF Ranged, TrustedCount

\* An engine that ends leaves books that need no ranges.
LEMMA EngineEnds ==
  ASSUME EngineBooks, UNCHANGED <<task, coverage>>,
         phase' \in {"report", "done"},
         covered' \subseteq coverage.checked,
         MayCount(covered', coverage.checked),
         mismatch' => MayRefute(coverage.checked)
  PROVE  EngineBooks'
BY DEF EngineBooks, NothingLost, MayCount, MayRefute, TrustedCount,
   TrustedDifference

\* Dropping the first range: Current leaves the pending outputs.
LEMMA DropFirst ==
  ASSUME ranges \in Seq(OutputRange), ranges # <<>>, ranges' = Tail(ranges),
         \A i \in DOMAIN ranges : \A j \in DOMAIN ranges :
           i # j => ranges[i].outputs \cap ranges[j].outputs = {}
  PROVE  /\ Pending = Current \cup Pending'
         /\ Current \cap Pending' = {}
         /\ \A i \in DOMAIN ranges' : \A j \in DOMAIN ranges' :
              i # j => ranges'[i].outputs \cap ranges'[j].outputs = {}
<1> DEFINE t == Tail(ranges)
<1>1. /\ 1 \in DOMAIN ranges /\ Current = ranges[1].outputs
      /\ \A i \in DOMAIN t : i + 1 \in DOMAIN ranges /\ t[i] = ranges[i + 1]
      /\ \A i \in DOMAIN ranges : i # 1 => i - 1 \in DOMAIN t
  BY RangesTail DEF Current
<1>2. DOMAIN ranges \subseteq Nat /\ DOMAIN t \subseteq Nat /\ 0 \notin DOMAIN t
  <2>1. t \in Seq(OutputRange)
    BY RangesTail
  <2> HIDE DEF t
  <2> QED BY <2>1, LenProperties
<1>3. Pending' = UNION {t[i].outputs : i \in DOMAIN t}
  BY DEF Pending
<1> HIDE DEF t
<1>4. Pending' \subseteq Pending /\ Current \subseteq Pending
  BY <1>1, <1>3 DEF Pending
<1>5. Pending \subseteq Current \cup Pending'
  <2> SUFFICES ASSUME NEW i \in DOMAIN ranges, NEW o \in ranges[i].outputs, i # 1
               PROVE  o \in Pending'
    BY <1>1 DEF Pending
  <2>1. i - 1 \in DOMAIN t /\ t[i - 1] = ranges[(i - 1) + 1] /\ (i - 1) + 1 = i
    BY <1>1, <1>2
  <2> QED BY <1>3, <2>1
<1>6. Current \cap Pending' = {}
  <2> SUFFICES ASSUME NEW i \in DOMAIN t, NEW o \in t[i].outputs, o \in Current
               PROVE  FALSE
    BY <1>3
  <2>1. i + 1 \in DOMAIN ranges /\ t[i] = ranges[i + 1] /\ i + 1 # 1
    BY <1>1, <1>2
  <2> QED BY <1>1, <2>1
<1>7. \A i \in DOMAIN t : \A j \in DOMAIN t :
        i # j => t[i].outputs \cap t[j].outputs = {}
  <2> SUFFICES ASSUME NEW i \in DOMAIN t, NEW j \in DOMAIN t, i # j
               PROVE  t[i].outputs \cap t[j].outputs = {}
    OBVIOUS
  <2>1. /\ i + 1 \in DOMAIN ranges /\ t[i] = ranges[i + 1]
        /\ j + 1 \in DOMAIN ranges /\ t[j] = ranges[j + 1]
        /\ i + 1 # j + 1
    BY <1>1, <1>2
  <2> QED BY <2>1
<1> QED BY <1>4, <1>5, <1>6, <1>7 DEF t

\* Halving the first range keeps the pending outputs.
LEMMA SplitFirst ==
  ASSUME ranges \in Seq(OutputRange), ranges # <<>>, SplitRange,
         \A i \in DOMAIN ranges : \A j \in DOMAIN ranges :
           i # j => ranges[i].outputs \cap ranges[j].outputs = {}
  PROVE  /\ Pending' = Pending
         /\ \A i \in DOMAIN ranges' : \A j \in DOMAIN ranges' :
              i # j => ranges'[i].outputs \cap ranges'[j].outputs = {}
<1> DEFINE A == LowerHalf(Current)
           h == [outputs |-> A, opens |-> FALSE]
           k == [outputs |-> Current \ A, opens |-> FALSE]
           n == Len(ranges)
<1>1. Current = ranges[1].outputs /\ 1 \in DOMAIN ranges /\ Current \subseteq Observed
  BY RangesTail DEF Current
<1>2. A \subseteq Current
  BY <1>1, Halves
<1>3. h.outputs = A /\ k.outputs = Current \ A
  OBVIOUS
<1>4. h \in OutputRange /\ k \in OutputRange
  BY <1>1, <1>2 DEF OutputRange
<1>5. ranges' = <<h, k>> \o Tail(ranges)
  BY DEF SplitRange
<1> HIDE DEF A, h, k
<1>6. /\ DOMAIN ranges' = 1..(n + 1) /\ DOMAIN ranges = 1..n /\ n \in Nat
      /\ ranges'[1] = h /\ ranges'[2] = k
      /\ \A i \in 3..(n + 1) : ranges'[i] = ranges[i - 1]
  BY <1>4, <1>5, SplitRanges
<1> HIDE DEF n
<1>7. \A i \in 1..(n + 1) :
        \/ i = 1 /\ ranges'[i].outputs = A
        \/ i = 2 /\ ranges'[i].outputs = Current \ A
        \/ /\ i \in 3..(n + 1) /\ i - 1 \in 2..n
           /\ ranges'[i].outputs = ranges[i - 1].outputs
  BY <1>3, <1>6
<1>8. \A i \in 2..n : ranges[i].outputs \cap Current = {}
  <2> TAKE i \in 2..n
  <2>1. i \in DOMAIN ranges /\ i # 1
    BY <1>6
  <2> QED BY <1>1, <2>1
<1>9. Pending' \subseteq Pending
  <2> SUFFICES ASSUME NEW i \in 1..(n + 1), NEW o \in ranges'[i].outputs
               PROVE  \E j \in 1..n : o \in ranges[j].outputs
    BY <1>6 DEF Pending
  <2>1. CASE i = 1 \/ i = 2
    <3>1. o \in Current
      BY <1>2, <1>7, <2>1
    <3> QED BY <1>1, <1>6, <3>1
  <2>2. CASE i # 1 /\ i # 2
    <3>1. i - 1 \in 1..n /\ o \in ranges[i - 1].outputs
      BY <1>6, <1>7, <2>2
    <3> QED BY <3>1
  <2> QED BY <2>1, <2>2
<1>10. Pending \subseteq Pending'
  <2> SUFFICES ASSUME NEW i \in 1..n, NEW o \in ranges[i].outputs
               PROVE  \E j \in 1..(n + 1) : o \in ranges'[j].outputs
    BY <1>6 DEF Pending
  <2>1. CASE i = 1
    <3>1. 1 \in 1..(n + 1) /\ 2 \in 1..(n + 1)
      BY <1>1, <1>6
    <3>2. o \in ranges'[1].outputs \/ o \in ranges'[2].outputs
      BY <1>1, <1>3, <1>6, <2>1
    <3> QED BY <3>1, <3>2
  <2>2. CASE i # 1
    <3>1. i + 1 \in 3..(n + 1) /\ (i + 1) - 1 = i
      BY <1>6, <2>2
    <3>2. i + 1 \in 1..(n + 1) /\ ranges'[i + 1] = ranges[i]
      BY <1>6, <3>1
    <3> QED BY <3>2
  <2> QED BY <2>1, <2>2
<1>11. \A i \in 1..(n + 1) : \A j \in 1..(n + 1) :
         i # j => ranges'[i].outputs \cap ranges'[j].outputs = {}
  <2> TAKE i \in 1..(n + 1)
  <2> TAKE j \in 1..(n + 1)
  <2> HAVE i # j
  <2>1. CASE i \in {1, 2} /\ j \in {1, 2}
    BY <1>7, <2>1
  <2>2. CASE i \in {1, 2} /\ j \notin {1, 2}
    BY <1>2, <1>7, <1>8, <2>2
  <2>3. CASE i \notin {1, 2} /\ j \in {1, 2}
    BY <1>2, <1>7, <1>8, <2>3
  <2>4. CASE i \notin {1, 2} /\ j \notin {1, 2}
    <3>1. /\ i - 1 \in 1..n /\ j - 1 \in 1..n /\ i - 1 # j - 1
          /\ ranges'[i].outputs = ranges[i - 1].outputs
          /\ ranges'[j].outputs = ranges[j - 1].outputs
      BY <1>6, <1>7, <2>4
    <3> QED BY <1>6, <3>1
  <2> QED BY <2>1, <2>2, <2>3, <2>4
<1> QED BY <1>6, <1>9, <1>10, <1>11

LEMMA EngineStep ==
  ASSUME TypeOK, CoverageBooks, EngineBooks, Next
  PROVE  EngineBooks'
<1>0. /\ ranges \in Seq(OutputRange) /\ coverage.checked \in SUBSET Observed
      /\ covered \subseteq Observed /\ mismatch \in BOOLEAN
  BY DEF TypeOK, OutputRange, Coverage
<1>1. CASE \/ Unsupported \/ Throw \/ ResetUnresolved \/ DumpOnly
           \/ PdrVerdict \/ ImcVerdict \/ KInductionVerdict \/ EmitSecResult
  <2>1. /\ UNCHANGED <<task, coverage, covered, mismatch>>
        /\ phase' \in {"report", "done"}
    BY <1>1 DEF Unsupported, Throw, ResetUnresolved, DumpOnly, PdrVerdict,
       ImcVerdict, KInductionVerdict, EmitSecResult, Finish, engineVars
  <2>2. /\ covered' \subseteq coverage.checked
        /\ MayCount(covered', coverage.checked)
        /\ mismatch' => MayRefute(coverage.checked)
    BY <2>1 DEF EngineBooks
  <2> QED BY <2>1, <2>2, EngineEnds
<1>2. CASE Align \/ ResolveReset
  <2>1. /\ phase' \in {"reset", "export", "report"} /\ UNCHANGED engineVars
        /\ phase \in {"extract", "reset"}
    BY <1>2 DEF Align, ResolveReset, Finish
  <2>2. /\ covered' = {} /\ skipped' = {} /\ ranges' = <<>>
        /\ ~ failed' /\ ~ mismatch' /\ phase' # "prove"
    BY <2>1 DEF EngineBooks, engineVars
  <2> QED BY <2>2 DEF EngineBooks, NothingLost, MayCount, MayRefute
<1>3. CASE StartEngine
  <2>1. /\ covered' = {} /\ skipped' = {} /\ ~ failed' /\ ~ mismatch'
        /\ phase' = "prove" /\ UNCHANGED <<task, coverage>>
    BY <1>3 DEF StartEngine, EngineBooks
  <2>2. /\ Pending' = coverage.checked
        /\ \A i \in DOMAIN ranges' : \A j \in DOMAIN ranges' :
             i # j => ranges'[i].outputs \cap ranges'[j].outputs = {}
    BY <1>0, <1>3, StartRanges DEF Pending
  <2>3. NothingLost'
    BY <2>1, <2>2 DEF NothingLost
  <2> QED BY <2>1, <2>2, <2>3 DEF EngineBooks, MayCount, MayRefute
<1>4. CASE ImcFrameZero \/ PdrRefuted \/ WholeRefuted
  <2>1. MayRefute(coverage.checked)
    <3>1. CASE ImcFrameZero \/ WholeRefuted
      BY <3>1 DEF ImcFrameZero, WholeRefuted
    <3>2. CASE PdrRefuted
      <4>1. phase = "prove" /\ Ranged /\ ranges # <<>> /\ MayRefute(Current)
        BY <3>2 DEF PdrRefuted, Proving
      <4>2. Current \subseteq Pending
        BY <1>0, <4>1, RangesTail DEF Current, Pending
      <4>3. Pending \subseteq coverage.checked
        BY <4>1 DEF EngineBooks, NothingLost
      <4> QED BY <4>1, <4>2, <4>3 DEF MayRefute
    <3> QED BY <1>4, <3>1, <3>2
  <2>2. UNCHANGED <<task, coverage, covered>> /\ phase' = "report"
    BY <1>4 DEF ImcFrameZero, PdrRefuted, WholeRefuted, Finish
  <2>3. covered' \subseteq coverage.checked /\ MayCount(covered', coverage.checked)
    BY <2>2 DEF EngineBooks
  <2> QED BY <2>1, <2>2, <2>3, EngineEnds
<1>5. CASE RangeProved \/ ImcRefuted \/ PdrLeafOpen \/ ImcRangeOpen
  <2>1. /\ phase = "prove" /\ Ranged /\ ranges # <<>> /\ ranges' = Tail(ranges)
        /\ UNCHANGED <<task, phase, coverage>>
    BY <1>5 DEF RangeProved, ImcRefuted, PdrLeafOpen, ImcRangeOpen, Proving
  <2>2. /\ Pending = Current \cup Pending' /\ Current \cap Pending' = {}
        /\ \A i \in DOMAIN ranges' : \A j \in DOMAIN ranges' :
             i # j => ranges'[i].outputs \cap ranges'[j].outputs = {}
    BY <1>0, <2>1, DropFirst DEF EngineBooks
  <2>3. /\ covered \cup skipped \cup Pending \subseteq coverage.checked
        /\ (covered \cup skipped) \cap Pending = {}
        /\ ~ failed /\ ~ mismatch =>
             coverage.checked \subseteq covered \cup skipped \cup Pending
    BY <2>1 DEF EngineBooks, NothingLost
  <2>4. TrustedCount /\ covered \cap task.differ = {}
    BY <2>1, RangedTrusted DEF EngineBooks, MayCount
  <2>5. Ranged' /\ TrustedCount' /\ TrustedDifference' = TrustedDifference
    BY <2>1, <2>4 DEF Ranged, Batched, TrustedCount, TrustedDifference
  <2>6. CASE RangeProved
    <3>1. /\ covered' = covered \cup Current /\ skipped' = skipped \ Current
          /\ UNCHANGED <<failed, mismatch>> /\ Current \cap task.differ = {}
      BY <2>6 DEF RangeProved, MayProve
    <3>2. covered' \cap task'.differ = {}
      BY <2>1, <2>4, <3>1
    <3>3. NothingLost'
      BY <2>1, <2>2, <2>3, <3>1 DEF NothingLost
    <3>4. /\ mismatch' => MayRefute(coverage.checked)'
          /\ phase' = "prove" /\ mismatch' => Ranged' /\ task'.engine = "imc"
      BY <2>1, <2>5, <3>1 DEF EngineBooks, MayRefute
    <3>5. covered' \subseteq coverage'.checked
      BY <2>1, <2>2, <2>3, <3>1
    <3> QED BY <2>1, <2>2, <3>2, <3>3, <3>4, <3>5 DEF EngineBooks, MayCount
  <2>7. CASE ImcRefuted
    <3>1. /\ mismatch' = TRUE /\ UNCHANGED <<covered, skipped, failed>>
          /\ task.engine = "imc" /\ MayRefute(Current)
      BY <2>7 DEF ImcRefuted
    <3>2. MayRefute(coverage.checked)'
      BY <2>1, <2>2, <2>3, <2>5, <3>1 DEF MayRefute
    <3>3. NothingLost'
      BY <2>1, <2>2, <2>3, <3>1 DEF NothingLost
    <3>4. covered' \cap task'.differ = {} /\ covered' \subseteq coverage'.checked
      BY <2>1, <2>3, <2>4, <3>1
    <3> QED BY <2>1, <2>2, <2>5, <3>1, <3>2, <3>3, <3>4 DEF EngineBooks, MayCount
  <2>8. CASE PdrLeafOpen \/ ImcRangeOpen
    <3>1. /\ UNCHANGED <<covered, mismatch>>
          /\ \/ skipped' = skipped \cup Current /\ failed' = failed
             \/ skipped' = skipped /\ failed' = TRUE
      BY <2>8 DEF PdrLeafOpen, ImcRangeOpen
    <3>2. NothingLost'
      BY <2>1, <2>2, <2>3, <3>1 DEF NothingLost
    <3>3. /\ mismatch' => MayRefute(coverage.checked)'
          /\ phase' = "prove" /\ mismatch' => Ranged' /\ task'.engine = "imc"
      BY <2>1, <2>5, <3>1 DEF EngineBooks, MayRefute
    <3>4. covered' \cap task'.differ = {} /\ covered' \subseteq coverage'.checked
      BY <2>1, <2>3, <2>4, <3>1
    <3> QED BY <2>1, <2>2, <3>1, <3>2, <3>3, <3>4 DEF EngineBooks, MayCount
  <2> QED BY <1>5, <2>6, <2>7, <2>8
<1>6. CASE SplitRange
  <2>1. /\ phase = "prove" /\ Ranged /\ ranges # <<>>
        /\ UNCHANGED <<task, phase, coverage, covered, skipped, failed, mismatch>>
    BY <1>6 DEF SplitRange, Proving
  <2>2. /\ Pending' = Pending
        /\ \A i \in DOMAIN ranges' : \A j \in DOMAIN ranges' :
             i # j => ranges'[i].outputs \cap ranges'[j].outputs = {}
    BY <1>0, <1>6, <2>1, SplitFirst DEF EngineBooks
  <2>3. NothingLost'
    BY <2>1, <2>2 DEF EngineBooks, NothingLost
  <2> QED BY <2>1, <2>2, <2>3 DEF EngineBooks, MayCount, MayRefute, TrustedCount,
          TrustedDifference, Ranged, Batched
<1>7. CASE PdrStop
  <2>1. /\ phase = "prove" /\ Ranged /\ ranges' = <<>> /\ task.engine = "pdr"
        /\ skipped' = skipped \cup (coverage.checked \ covered)
        /\ UNCHANGED <<task, phase, coverage, covered, failed, mismatch>>
    BY <1>7 DEF PdrStop, Proving
  <2>2. Pending' = {}
    BY <2>1 DEF Pending
  <2>3. covered \cup skipped \subseteq coverage.checked
    BY <2>1 DEF EngineBooks, NothingLost
  <2>4. NothingLost'
    BY <2>1, <2>2, <2>3 DEF NothingLost
  <2> QED BY <2>1, <2>4 DEF EngineBooks, MayCount, MayRefute, TrustedCount,
          TrustedDifference, Ranged, Batched
<1>8. CASE WholeImc \/ WholeKInduction
  <2>1. /\ phase' = "report" /\ UNCHANGED <<task, coverage, mismatch>>
        /\ covered' = {} \/ (covered' = coverage.checked /\ MayProve(coverage.checked))
    BY <1>8 DEF WholeImc, WholeKInduction, Finish
  <2>2. /\ covered' \subseteq coverage.checked
        /\ MayCount(covered', coverage.checked)
        /\ mismatch' => MayRefute(coverage.checked)
    BY <2>1 DEF EngineBooks, MayCount, MayProve
  <2> QED BY <2>1, <2>2, EngineEnds
<1>9. CASE CountKInduction
  <2>1. /\ phase = "prove" /\ ~ Ranged /\ ranges' = <<>>
        /\ covered' \subseteq coverage.checked
        /\ MayCount(covered', coverage.checked)
        /\ UNCHANGED <<task, phase, coverage, failed, mismatch>>
    BY <1>9 DEF CountKInduction, Whole
  <2>2. ~ mismatch' /\ ~ Ranged'
    BY <2>1 DEF EngineBooks, Ranged, Batched
  <2> QED BY <2>1, <2>2 DEF EngineBooks, NothingLost, MayCount, MayRefute,
          TrustedCount
<1> QED BY <1>1, <1>2, <1>3, <1>4, <1>5, <1>6, <1>7, <1>8, <1>9 DEF Next

-----------------------------------------------------------------------------
(* Results *)

\* Verdicts that claim no proof.
LEMMA PlainResult ==
  ASSUME NEW status \in {"Unsupported", "Exported", "Different", "Inconclusive"},
         NEW cov
  PROVE  /\ MakeSecResult(status, cov).status = status
         /\ MakeSecResult(status, cov).coverage = cov
         /\ MakeSecResult(status, cov).exact = FALSE
BY DEF MakeSecResult

\* A verdict with no claim of a proof keeps the books of the result.
LEMMA PlainFinish ==
  ASSUME NEW status \in {"Unsupported", "Exported", "Different", "Inconclusive"},
         NEW cov, cov = NoCoverage \/ Splits(cov),
         Finish(MakeSecResult(status, cov)),
         mismatch' <=> status = "Different"
  PROVE  ResultBooks'
<1>1. /\ result'.status = status /\ result'.coverage = cov /\ result'.exact = FALSE
      /\ phase' = "report"
  BY DEF Finish, MakeSecResult
<1> QED BY <1>1 DEF ResultBooks, Splits, NoCoverage

\* What the covered outputs of the engines allow to claim.
LEMMA CountedResult ==
  ASSUME TypeOK, CoverageBooks, EngineBooks, phase = "prove", ~ mismatch,
         NEW r, r = MakeSecResult(CountedStatus, CoverageAfterProof)
  PROVE  /\ r.status \in {"Inconclusive", "Equivalent", "PartiallyProved"}
         /\ Splits(r.coverage) /\ r.coverage.checked = covered
         /\ r.exact = FALSE
         /\ r.status = "Equivalent" => Observed \cap task.differ = {}
         /\ r.status \in {"Equivalent", "PartiallyProved"} => covered # {}
         /\ TrustedCount => covered \cap task.differ = {}
<1> DEFINE c == CoverageAfterProof
<1>1. /\ c.all = coverage.all /\ c.checked = covered
      /\ c.skipped = coverage.skipped \cup (coverage.checked \ covered)
  BY CoverageAfterProofTyped
<1>2. /\ Splits(coverage) /\ covered \subseteq coverage.checked
      /\ MayCount(covered, coverage.checked)
  BY DEF CoverageBooks, EngineBooks
<1>3. Splits(c) /\ c.all = Observed
  BY <1>1, <1>2 DEF Splits
<1> HIDE DEF c
<1>4. /\ r.coverage = c /\ r.exact = FALSE
      /\ r.status = IF /\ CountedStatus = "Equivalent"
                       /\ c.checked # {} /\ c.checked # c.all
                    THEN "PartiallyProved" ELSE CountedStatus
  BY DEF MakeSecResult, c
<1>5. r.status \in {"Equivalent", "PartiallyProved"} => covered # {}
  BY <1>4 DEF CountedStatus
<1>6. r.status \in {"Inconclusive", "Equivalent", "PartiallyProved"}
  BY <1>4, CountedStatusTyped
<1>7. r.status = "Equivalent" => covered = coverage.checked /\ covered = Observed
  BY <1>1, <1>3, <1>4 DEF CountedStatus
<1>8. r.status = "Equivalent" => Observed \cap task.differ = {}
  BY <1>2, <1>7 DEF MayCount
<1> QED BY <1>1, <1>2, <1>3, <1>4, <1>5, <1>6, <1>8 DEF MayCount

\* The same for an engine that answers for all checked outputs at once.
LEMMA ProvedResult ==
  ASSUME Splits(coverage), coverage.checked # {}, MayProve(coverage.checked),
         NEW r, r = MakeSecResult("Equivalent", coverage)
  PROVE  /\ r.status \in {"Equivalent", "PartiallyProved"}
         /\ r.coverage = coverage /\ r.exact = FALSE
         /\ r.status = "Equivalent" => Observed \cap task.differ = {}
<1>1. /\ r.coverage = coverage /\ r.exact = FALSE
      /\ r.status = IF coverage.checked # {} /\ coverage.checked # coverage.all
                    THEN "PartiallyProved" ELSE "Equivalent"
  BY DEF MakeSecResult
<1>2. r.status = "Equivalent" => coverage.checked = Observed
  BY <1>1 DEF Splits
<1> QED BY <1>1, <1>2 DEF MayProve

\* A verdict that claims the outputs of its coverage keeps the books.
LEMMA ClaimFinish ==
  ASSUME NEW r, Finish(r), task' = task, ~ mismatch',
         r.status \in {"Inconclusive", "Equivalent", "PartiallyProved"},
         Splits(r.coverage),
         r.status = "Equivalent" => Observed \cap task.differ = {},
         r.status \in {"Equivalent", "PartiallyProved"} => r.coverage.checked # {},
         TrustedCount => r.coverage.checked \cap task.differ = {},
         r.exact => r.proven = r.coverage.checked
  PROVE  ResultBooks'
<1>1. result' = r /\ phase' = "report" /\ (TrustedCount' <=> TrustedCount)
  BY DEF Finish, TrustedCount
<1> QED BY <1>1 DEF ResultBooks, Splits

LEMMA Progress ==
  ASSUME NEW r \in Results, NEW S
  PROVE  /\ WithProgress(r, S).status = r.status
         /\ WithProgress(r, S).coverage = r.coverage
         /\ WithProgress(r, S).proven = S
BY DEF WithProgress, Results

LEMMA ResultStep ==
  ASSUME TypeOK, CoverageBooks, CoverageBooks', EngineBooks, EngineBooks',
         ResultBooks, Next
  PROVE  ResultBooks'
<1>0. /\ coverage \in Coverage /\ covered \in SUBSET Observed
      /\ coverage.checked \in SUBSET Observed /\ mismatch \in BOOLEAN
      /\ coverage = NoCoverage \/ Splits(coverage)
      /\ coverage' = NoCoverage \/ Splits(coverage')
  BY DEF TypeOK, Coverage, CoverageBooks, NoCoverage, Splits
<1>1. CASE Unsupported \/ ResetUnresolved \/ DumpOnly
  <2>1. ~ mismatch'
    BY <1>1 DEF EngineBooks, Unsupported, ResetUnresolved, DumpOnly, engineVars
  <2> QED BY <1>0, <1>1, <2>1, PlainFinish
          DEF Unsupported, ResetUnresolved, DumpOnly
<1>2. CASE Align \/ ResolveReset
  <2>1. ~ mismatch'
    BY <1>2 DEF EngineBooks, Align, ResolveReset, engineVars
  <2>2. CASE Finish(MakeSecResult("Unsupported", coverage'))
    BY <1>0, <2>1, <2>2, PlainFinish
  <2>3. CASE phase' \in {"reset", "export"} /\ UNCHANGED result
    <3>1. result = NoResult
      BY <1>2 DEF Align, ResolveReset, ResultBooks
    <3> QED BY <2>3, <3>1 DEF ResultBooks, NoResult, NoCoverage, Splits
  <2> QED BY <1>2, <2>2, <2>3 DEF Align, ResolveReset
<1>3. CASE ImcFrameZero \/ PdrRefuted \/ WholeRefuted
  <2>1. Finish(MakeSecResult("Different", coverage)) /\ mismatch' = TRUE
    BY <1>3 DEF ImcFrameZero, PdrRefuted, WholeRefuted
  <2> QED BY <1>0, <2>1, PlainFinish
<1>4. CASE \/ StartEngine \/ RangeProved \/ ImcRefuted \/ SplitRange
           \/ PdrLeafOpen \/ PdrStop \/ ImcRangeOpen \/ CountKInduction
  <2>1. phase' = "prove" /\ UNCHANGED result /\ phase \in {"export", "prove"}
    BY <1>4 DEF StartEngine, RangeProved, ImcRefuted, SplitRange, PdrLeafOpen,
       PdrStop, ImcRangeOpen, CountKInduction, Proving, Whole
  <2>2. result = NoResult
    BY <2>1 DEF ResultBooks
  <2> QED BY <2>1, <2>2 DEF ResultBooks, NoResult, NoCoverage, Splits
<1>5. CASE PdrVerdict \/ KInductionVerdict
  <2>1. /\ phase = "prove" /\ UNCHANGED <<task, mismatch>>
        /\ ~ mismatch
    BY <1>5 DEF PdrVerdict, KInductionVerdict, RangesEnded, Whole, engineVars,
       EngineBooks
  <2>2. CASE Finish(MakeSecResult(CountedStatus, CoverageAfterProof))
    BY <2>1, <2>2, CountedResult, ClaimFinish
  <2>3. CASE covered = {} /\ Finish(MakeSecResult(CountedStatus, coverage))
    <3>1. CountedStatus = "Inconclusive"
      BY <2>3 DEF CountedStatus
    <3> QED BY <1>0, <2>1, <2>3, <3>1, PlainFinish
  <2> QED BY <1>5, <2>2, <2>3 DEF PdrVerdict, KInductionVerdict
<1>6. CASE ImcVerdict
  <2>1. phase = "prove" /\ UNCHANGED <<task, mismatch>>
    BY <1>6 DEF ImcVerdict, RangesEnded
  <2>2. CASE mismatch
    BY <1>0, <1>6, <2>1, <2>2, PlainFinish DEF ImcVerdict
  <2>3. CASE ~ mismatch
    <3> DEFINE r == MakeSecResult(CountedStatus, CoverageAfterProof)
               p == WithProgress(r, covered)
    <3>1. Finish(p)
      BY <1>6, <2>3 DEF ImcVerdict
    <3>2. r \in Results
      BY ResultTyped, CountedStatusTyped, CoverageAfterProofTyped DEF Status
    <3>3. p.status = r.status /\ p.coverage = r.coverage /\ p.proven = covered
      BY <3>2, Progress
    <3>4. /\ r.status \in {"Inconclusive", "Equivalent", "PartiallyProved"}
          /\ Splits(r.coverage) /\ r.coverage.checked = covered
          /\ r.status = "Equivalent" => Observed \cap task.differ = {}
          /\ r.status \in {"Equivalent", "PartiallyProved"} => covered # {}
          /\ TrustedCount => covered \cap task.differ = {}
      BY <2>1, <2>3, CountedResult
    <3> HIDE DEF p, r
    <3> QED BY <2>1, <2>3, <3>1, <3>3, <3>4, ClaimFinish
  <2> QED BY <2>2, <2>3
<1>7. CASE WholeImc \/ WholeKInduction
  <2>1. /\ phase = "prove" /\ ~ Ranged /\ UNCHANGED <<task, mismatch>>
    BY <1>7 DEF WholeImc, WholeKInduction, Whole
  <2>2. /\ ~ mismatch /\ ~ mismatch'
        /\ Splits(coverage) /\ coverage.checked # {}
    BY <2>1 DEF EngineBooks, CoverageBooks
  <2> DEFINE e == MakeSecResult("Equivalent", coverage)
             none == [coverage EXCEPT !.checked = {},
                                      !.skipped = @ \cup coverage.checked]
             i == MakeSecResult("Inconclusive", none)
  <2>3. CASE /\ MayProve(coverage.checked)
             /\ \/ Finish(WithProgress(e, coverage.checked))
                \/ Finish(e)
    <3>1. e \in Results
      BY <1>0, ResultTyped DEF Status
    <3>2. /\ e.status \in {"Equivalent", "PartiallyProved"}
          /\ e.coverage = coverage /\ e.exact = FALSE
          /\ e.status = "Equivalent" => Observed \cap task.differ = {}
      BY <2>2, <2>3, ProvedResult
    <3>3. TrustedCount => coverage.checked \cap task.differ = {}
      BY <2>3 DEF MayProve
    <3> HIDE DEF e
    <3>4. CASE Finish(e)
      BY <2>1, <2>2, <3>2, <3>3, <3>4, ClaimFinish
    <3>5. CASE Finish(WithProgress(e, coverage.checked))
      <4> DEFINE p == WithProgress(e, coverage.checked)
      <4>1. /\ p.status = e.status /\ p.coverage = coverage
            /\ p.proven = coverage.checked
        BY <3>1, <3>2, Progress
      <4>2. Finish(p)
        BY <3>5
      <4> HIDE DEF p
      <4> QED BY <2>1, <2>2, <3>2, <3>3, <4>1, <4>2, ClaimFinish
    <3> QED BY <2>3, <3>4, <3>5
  <2>4. CASE Finish(MakeSecResult("Inconclusive", coverage))
    BY <2>2, <2>4, PlainFinish
  <2>5. CASE Finish(WithProgress(i, {}))
    <3>1. /\ none \in Coverage /\ none.all = coverage.all /\ none.checked = {}
          /\ none.skipped = coverage.skipped \cup coverage.checked
      BY <1>0 DEF Coverage
    <3>2. Splits(none)
      BY <2>2, <3>1 DEF Splits
    <3> HIDE DEF none
    <3>3. i \in Results /\ i.status = "Inconclusive" /\ i.coverage = none
      BY <3>1, ResultTyped, PlainResult DEF Status
    <3> HIDE DEF i
    <3> DEFINE p == WithProgress(i, {})
    <3>4. p.status = "Inconclusive" /\ p.coverage = none /\ p.proven = {}
      BY <3>3, Progress
    <3>5. Finish(p)
      BY <2>5
    <3> HIDE DEF p
    <3> QED BY <2>1, <2>2, <3>1, <3>2, <3>4, <3>5, ClaimFinish
  <2> QED BY <1>7, <2>3, <2>4, <2>5 DEF WholeImc, WholeKInduction
<1>8. CASE Throw \/ EmitSecResult
  <2>1. /\ phase' = "done" /\ UNCHANGED <<task, result, mismatch>>
        /\ phase \in {"extract", "export", "report"}
    BY <1>8 DEF Throw, EmitSecResult, engineVars
  <2>2. mismatch <=> result.status = "Different"
    BY <2>1 DEF EngineBooks, ResultBooks, NoResult
  <2> QED BY <2>1, <2>2 DEF ResultBooks, Splits, TrustedCount
<1> QED BY <1>1, <1>2, <1>3, <1>4, <1>5, <1>6, <1>7, <1>8 DEF Next

LEMMA ReportStep ==
  ASSUME TypeOK, EngineBooks, ReportBooks, Next
  PROVE  ReportBooks'
<1>1. CASE Throw
  <2>1. ~ mismatch'
    BY <1>1 DEF Throw, EngineBooks, engineVars
  <2> QED BY <1>1, <2>1 DEF Throw, ReportBooks
<1>2. CASE EmitSecResult
  BY <1>2 DEF EmitSecResult, ReportBooks
<1>3. CASE ~ Throw /\ ~ EmitSecResult
  <2>1. phase' # "done" /\ phase # "done" /\ UNCHANGED report
    BY <1>3 DEF Next, Unsupported, Align, ResetUnresolved, ResolveReset, DumpOnly,
       StartEngine, ImcFrameZero, RangeProved, PdrRefuted, ImcRefuted, SplitRange,
       PdrLeafOpen, PdrStop, ImcRangeOpen, PdrVerdict, ImcVerdict, WholeRefuted,
       WholeImc, WholeKInduction, CountKInduction, KInductionVerdict, Finish,
       Proving, RangesEnded, Whole
  <2> QED BY <2>1 DEF ReportBooks, NoReport
<1> QED BY <1>1, <1>2, <1>3

-----------------------------------------------------------------------------
(* Theorems *)

LEMMA InitInvariant == Init => StrategyInvariant
<1> SUFFICES ASSUME Init PROVE StrategyInvariant
  OBVIOUS
<1>1. CoverageBooks
  BY DEF Init, CoverageBooks
<1>2. EngineBooks
  BY DEF Init, EngineBooks, NothingLost, MayCount, MayRefute
<1>3. ResultBooks
  BY DEF Init, ResultBooks, NoResult
<1>4. ReportBooks
  BY DEF Init, ReportBooks
<1> QED BY <1>1, <1>2, <1>3, <1>4 DEF StrategyInvariant

\* The types and the books are inductive together.
LEMMA InvariantStep ==
  TypeOK /\ StrategyInvariant /\ [Next]_vars => TypeOK' /\ StrategyInvariant'
<1> SUFFICES ASSUME TypeOK, StrategyInvariant, [Next]_vars
             PROVE  TypeOK' /\ StrategyInvariant'
  OBVIOUS
<1>1. TypeOK'
  BY NextTypeOK DEF StrategyInvariant
<1>2. CASE Next
  <2>1. CoverageBooks'
    BY <1>2, CoverageStep DEF StrategyInvariant
  <2>2. EngineBooks'
    BY <1>2, EngineStep DEF StrategyInvariant
  <2>3. ResultBooks'
    BY <1>2, <2>1, <2>2, ResultStep DEF StrategyInvariant
  <2>4. ReportBooks'
    BY <1>2, ReportStep DEF StrategyInvariant
  <2> QED BY <1>1, <2>1, <2>2, <2>3, <2>4 DEF StrategyInvariant
<1>3. CASE UNCHANGED vars
  BY <1>1, <1>3 DEF vars, StrategyInvariant, CoverageBooks, EngineBooks,
     ResultBooks, ReportBooks, Splits, MayCount, MayRefute, TrustedCount,
     TrustedDifference, NothingLost, Ranged, Batched, Pending
<1> QED BY <1>2, <1>3

\* The books of SequentialEquivalenceStrategy keep their types, and its exit
\* code is one of the documented ones.
THEOREM TypeCorrect == Spec => []TypeOK
<1>1. Init => TypeOK /\ StrategyInvariant
  BY InitTypeOK, InitInvariant
<1> QED BY <1>1, InvariantStep, PTL DEF Spec

\* The invariant of the books holds for every number of outputs, every way of
\* cutting them into batches and every order of answers.
THEOREM BooksKept == Spec => []StrategyInvariant
<1>1. Init => TypeOK /\ StrategyInvariant
  BY InitTypeOK, InitInvariant
<1> QED BY <1>1, InvariantStep, PTL DEF Spec

\* Exit code 0 of a proof means that no observed output differs, whatever was
\* left out on the way, given engines that keep their promises.
THEOREM VerdictSound == Spec => []ProvedIsSound
<1>1. StrategyInvariant => ProvedIsSound
  BY DEF StrategyInvariant, ResultBooks, ReportBooks, ProvedIsSound
<1> QED BY <1>1, BooksKept, PTL

\* The outputs that RunResult counts as proved do not differ.
THEOREM ProvenSound == Spec => []ProvenIsSound
<1>1. StrategyInvariant => ProvenIsSound
  <2> SUFFICES ASSUME StrategyInvariant PROVE ProvenIsSound
    OBVIOUS
  <2>1. CASE phase # "done"
    BY <2>1 DEF StrategyInvariant, ReportBooks, NoReport, ProvenIsSound
  <2>2. CASE phase = "done"
    BY <2>2 DEF StrategyInvariant, ReportBooks, ResultBooks, ProvenIsSound
  <2> QED BY <2>1, <2>2
<1> QED BY <1>1, BooksKept, PTL

\* A confirmed difference is the verdict, and such a verdict is real.
THEOREM DifferenceReported == Spec => []DifferenceDecides
<1>1. StrategyInvariant => DifferenceDecides
  <2> SUFFICES ASSUME StrategyInvariant PROVE DifferenceDecides
    OBVIOUS
  <2>1. CASE phase # "done"
    BY <2>1 DEF StrategyInvariant, ReportBooks, NoReport, DifferenceDecides
  <2>2. CASE phase = "done"
    BY <2>2 DEF StrategyInvariant, ReportBooks, ResultBooks, EngineBooks,
       MayRefute, DifferenceDecides
  <2> QED BY <2>1, <2>2
<1> QED BY <1>1, BooksKept, PTL

\* The coverage of every result splits the observed outputs.
THEOREM ResultPartition == Spec => []ResultIsPartition
<1>1. StrategyInvariant => ResultIsPartition
  BY DEF StrategyInvariant, ResultBooks, Splits, NoCoverage, ResultIsPartition
<1> QED BY <1>1, BooksKept, PTL

\* Halving and dropping ranges loses no output.
THEOREM OutputsKept == Spec => []NothingLost
<1>1. StrategyInvariant => NothingLost
  BY DEF StrategyInvariant, EngineBooks
<1> QED BY <1>1, BooksKept, PTL


-----------------------------------------------------------------------------
(* The learner of internal relations *)

\* The stages while the learner runs, and the bounds of its loop index.
Books ==
  /\ stage = "collect" => pos \in 1..NumRegisters + 1
  /\ stage = "merge" => pos \in 1..Len(candidates) + 1
  /\ stage \in {"merge", "prove"} => round < MaxRounds
  /\ stage # "done" => proved = {} /\ state \in InitStates

\* The base case: what was filtered when the guesses were collected.
GuessesHold == \A i \in DOMAIN candidates : BaseHolds(candidates[i])

\* Before the first round nothing is assumed and nothing is merged.
Fresh ==
  stage = "collect" =>
    active = {} /\ refuted = {} /\ round = 0 /\ merged = [r \in Registers |-> r]

\* A register and the one whose literal stands for it agree in every state in
\* which the hypotheses hold, however the hypotheses chain.
MergedFollows ==
  \A s \in States : AllHold(active, s) => \A r \in Registers : s[merged[r]] = s[r]

\* The guess is preserved by every step from a state in which all hold.
Preserved(i) ==
  \A s \in States, x \in Inputs :
    AllHold(active, s) => Holds(candidates[i], machine.next[<<s, x>>])

\* Either the round has refuted a guess of the partitions it is through with,
\* or each of their guesses is preserved.
RoundIsSound ==
  stage = "prove" =>
    \/ \E i \in refuted : i <= pos
    \/ \A i \in active : i <= pos => Preserved(i)

\* What is returned is inductive and holds now.
Certificate ==
  /\ \A c \in proved : Holds(c, state)
  /\ \A s \in States : (\A c \in proved : Holds(c, s)) =>
       \A x \in Inputs : \A c \in proved : Holds(c, machine.next[<<s, x>>])

RelationsInv ==
  /\ LearnerTypeOK /\ Books /\ Fresh /\ GuessesHold /\ MergedFollows /\ RoundIsSound /\ Certificate

-----------------------------------------------------------------------------
(* Facts about the constants and the operators *)

\* The machine of a run keeps to its values.
LEMMA MachineFacts ==
  ASSUME RelationConstants, machine \in Machines
  PROVE  /\ machine \in Machine
         /\ States \subseteq State
         /\ \A s \in States, x \in Inputs : machine.next[<<s, x>>] \in States
<1>1. machine \in Machine
  BY DEF RelationConstants
<1>2. States \subseteq State
  BY <1>1 DEF States, State, Machine
<1> QED BY <1>1, <1>2 DEF RelationConstants, States

(***************************************************************************)
(* Every set of natural numbers has a least element, from the library's    *)
(* theorem that < is well founded.                                         *)
(***************************************************************************)
Below == {p \in Nat \X Nat : p[1] < p[2]}

LEMMA BelowWellFounded == IsWellFoundedOn(Below, Nat)
<1>1. Below = OpToRel(<, Nat)
  BY DEF OpToRel, Below
<1> QED BY <1>1, NatLessThanWellFounded

LEMMA LeastElement ==
  ASSUME NEW S \in SUBSET Nat, S # {}
  PROVE  \E n \in S : \A m \in S : n <= m
<1>1. PICK n \in S : \A m \in S : ~ (<<m, n>> \in Below)
  BY BelowWellFounded, WFMin, Zenon
<1>2. ASSUME NEW m \in S PROVE n <= m
  <2>1. ~ (<<m, n>> \in Below) /\ n \in Nat /\ m \in Nat
    BY <1>1
  <2>2. <<m, n>> \in Below <=> m < n
    BY <2>1 DEF Below
  <2> QED BY <2>1, <2>2
<1> QED BY <1>2

\* First picks an element of the set it is given.
LEMMA FirstIsIn ==
  ASSUME NEW S \in SUBSET Nat, S # {}
  PROVE  First(S) \in S
BY LeastElement DEF First

\* A guess that is appended relates two registers and has its base case.
LEMMA AppendGuess ==
  ASSUME NEW cs \in Seq(Registers \X Registers), NEW S \in SUBSET Registers,
         NEW r \in Registers, NumRegisters \in Nat,
         \A i \in DOMAIN cs : BaseHolds(cs[i])
  PROVE  /\ Append1(cs, S, r) \in Seq(Registers \X Registers)
         /\ Len(Append1(cs, S, r)) \in {Len(cs), Len(cs) + 1}
         /\ \A i \in DOMAIN Append1(cs, S, r) : BaseHolds(Append1(cs, S, r)[i])
<1> DEFINE c == <<First(S), r>>
<1>1. CASE S # {} /\ BaseHolds(c)
  <2>1. c \in Registers \X Registers
    <3>1. S \in SUBSET Nat
      BY DEF Registers
    <3> QED BY <1>1, <3>1, FirstIsIn
  <2>2. Append1(cs, S, r) = Append(cs, c)
    BY <1>1 DEF Append1
  <2>3. /\ Append(cs, c) \in Seq(Registers \X Registers)
        /\ Len(Append(cs, c)) = Len(cs) + 1
        /\ \A i \in 1..Len(cs) : Append(cs, c)[i] = cs[i]
        /\ Append(cs, c)[Len(cs) + 1] = c
    BY <2>1, AppendProperties
  <2>4. /\ Len(cs) \in Nat /\ DOMAIN cs = 1..Len(cs)
        /\ DOMAIN Append(cs, c) = 1..Len(cs) + 1
    BY <2>3, LenProperties
  <2>5. ASSUME NEW i \in 1..Len(cs) + 1
        PROVE  BaseHolds(Append(cs, c)[i])
    <3>1. CASE i \in 1..Len(cs)
      BY <3>1, <2>3, <2>4
    <3>2. CASE i = Len(cs) + 1
      BY <3>2, <1>1, <2>3
    <3> QED BY <3>1, <3>2, <2>4
  <2> QED BY <2>2, <2>3, <2>4, <2>5
<1>2. CASE ~ (S # {} /\ BaseHolds(c))
  <2>1. Append1(cs, S, r) = cs
    BY <1>2 DEF Append1
  <2> QED BY <2>1
<1> QED BY <1>1, <1>2

-----------------------------------------------------------------------------
(* The steps *)

LEMMA InitInv ==
  ASSUME RelationConstants, LearnerInit
  PROVE  RelationsInv
<1>1. /\ States \subseteq State /\ state \in States
  BY MachineFacts DEF LearnerInit, InitStates
<1>2. LearnerTypeOK
  <2>1. /\ candidates \in Seq(Registers \X Registers) /\ Len(candidates) = 0
        /\ merged \in [Registers -> Registers] /\ 0 \in 0..MaxRounds
    BY DEF LearnerInit, RelationConstants
  <2>2. pos \in 0..NumRegisters + Len(candidates) + 1
    BY <2>1 DEF LearnerInit, RelationConstants
  <2> QED BY <1>1, <2>1, <2>2 DEF LearnerInit, LearnerTypeOK
<1>3. Books /\ Fresh
  BY DEF LearnerInit, Books, Fresh, RelationConstants
<1>4. GuessesHold /\ RoundIsSound /\ Certificate
  BY DEF LearnerInit, GuessesHold, RoundIsSound, Certificate
<1>5. MergedFollows
  BY DEF LearnerInit, MergedFollows
<1> QED BY <1>2, <1>3, <1>4, <1>5 DEF RelationsInv

\* What a step that only moves the loop index, the rounds or the history needs.
LEMMA Frame ==
  ASSUME RelationsInv, UNCHANGED <<machine, candidates, active, merged, proved, state>>
  PROVE  GuessesHold' /\ MergedFollows' /\ Certificate'
BY DEF RelationsInv, GuessesHold, MergedFollows, Certificate, BaseHolds, AllHold, Holds,
       States

LEMMA CollectStep ==
  ASSUME RelationConstants, RelationsInv, CollectCandidates
  PROVE  RelationsInv'
<1> DEFINE cs == Append1(candidates, SameName(pos), pos)
<1> USE DEF RelationsInv
<1>1. /\ pos \in Registers /\ NumRegisters \in Nat
      /\ SameName(pos) \in SUBSET Registers /\ SameDriver(pos) \in SUBSET Registers
  <2>1. pos \in 1..NumRegisters /\ NumRegisters \in Nat
    BY DEF CollectCandidates, Books, RelationConstants
  <2> QED BY <2>1 DEF Registers, SameName, SameDriver
<1>2. /\ cs \in Seq(Registers \X Registers)
      /\ Len(cs) \in {Len(candidates), Len(candidates) + 1}
      /\ \A i \in DOMAIN cs : BaseHolds(cs[i])
  BY <1>1, AppendGuess DEF LearnerTypeOK, GuessesHold
<1>3. /\ candidates' \in Seq(Registers \X Registers)
      /\ Len(candidates') \in {Len(cs), Len(cs) + 1}
      /\ \A i \in DOMAIN candidates' : BaseHolds(candidates'[i])
  <2> HIDE DEF cs
  <2>1. candidates' = Append1(cs, SameDriver(pos), pos)
    BY DEF CollectCandidates, cs
  <2> QED BY <1>1, <1>2, <2>1, AppendGuess
<1>4. /\ stage' = "collect" /\ pos' = pos + 1 /\ pos \in 1..NumRegisters
      /\ UNCHANGED <<machine, active, merged, refuted, round, proved, gaveUp, split, state>>
  BY DEF CollectCandidates, Books
<1>5. active = {} /\ merged = [r \in Registers |-> r]
  BY DEF CollectCandidates, Fresh
<1>6. Len(candidates) \in Nat /\ Len(candidates') \in Nat
  BY <1>3, LenProperties DEF LearnerTypeOK
<1>7. LearnerTypeOK'
  BY <1>1, <1>2, <1>3, <1>4, <1>5, <1>6 DEF LearnerTypeOK, States
<1>8. Books' /\ Fresh'
  BY <1>1, <1>4 DEF Books, Fresh, CollectCandidates, InitStates, States
<1>9. GuessesHold' /\ RoundIsSound'
  BY <1>3, <1>4 DEF GuessesHold, RoundIsSound, BaseHolds
<1>10. MergedFollows' /\ Certificate'
  BY <1>4, <1>5 DEF MergedFollows, Certificate, Holds, States
<1> QED BY <1>7, <1>8, <1>9, <1>10

LEMMA StartProofStep ==
  ASSUME RelationConstants, RelationsInv, StartProof
  PROVE  RelationsInv'
<1> USE DEF RelationsInv
<1>1. /\ active = {} /\ merged = [r \in Registers |-> r] /\ refuted = {}
      /\ proved = {} /\ round = 0 /\ pos \in 1..NumRegisters + 1
      /\ UNCHANGED <<machine, candidates, merged, refuted, round, proved, gaveUp, split, state>>
      /\ MaxRounds \in Nat \ {0} /\ NumRegisters \in Nat
  BY DEF StartProof, Fresh, Books, RelationConstants
<1>2. Len(candidates) \in Nat /\ DOMAIN candidates = 1..Len(candidates)
  BY LenProperties DEF LearnerTypeOK
<1>3. \/ stage' = "done" /\ UNCHANGED <<active, pos>>
      \/ stage' = "merge" /\ active' = DOMAIN candidates /\ pos' = 1
  BY DEF StartProof
<1>4. LearnerTypeOK'
  BY <1>1, <1>2, <1>3 DEF LearnerTypeOK, States
<1>5. Books' /\ Fresh'
  BY <1>1, <1>2, <1>3 DEF Books, Fresh, InitStates, States, StartProof
<1>6. GuessesHold' /\ RoundIsSound' /\ Certificate'
  BY <1>1, <1>3 DEF GuessesHold, RoundIsSound, Certificate, BaseHolds, Holds, States
<1>7. MergedFollows'
  BY <1>1 DEF MergedFollows, States
<1> QED BY <1>4, <1>5, <1>6, <1>7

\* Merging one more hypothesis keeps the literals of equal registers together.
LEMMA MergeStep ==
  ASSUME RelationConstants, RelationsInv, MergeHypothesis
  PROVE  RelationsInv'
<1> USE DEF RelationsInv
<1>1. /\ stage = "merge" /\ stage' = "merge" /\ pos \in 1..Len(candidates) /\ pos' = pos + 1
      /\ UNCHANGED <<machine, candidates, active, refuted, round, proved, gaveUp, split, state>>
      /\ Len(candidates) \in Nat /\ DOMAIN candidates = 1..Len(candidates)
      /\ NumRegisters \in Nat
  BY LenProperties DEF MergeHypothesis, Books, LearnerTypeOK, RelationConstants
<1>2. candidates[pos] \in Registers \X Registers
  BY <1>1, ElementOfSeq DEF LearnerTypeOK
<1>3. PICK q \in Registers, r \in Registers : candidates[pos] = <<q, r>>
  BY <1>2
<1>4. merged' = IF pos \in active THEN [merged EXCEPT ![r] = merged[q]] ELSE merged
  BY <1>3 DEF MergeHypothesis
<1>5. merged' \in [Registers -> Registers]
  BY <1>3, <1>4 DEF LearnerTypeOK
<1>6. LearnerTypeOK'
  BY <1>1, <1>5 DEF LearnerTypeOK, States
<1>7. Books' /\ Fresh'
  BY <1>1 DEF Books, Fresh, InitStates, States
<1>8. GuessesHold' /\ RoundIsSound' /\ Certificate'
  BY <1>1 DEF GuessesHold, RoundIsSound, Certificate, BaseHolds, Holds, States
<1>9. MergedFollows'
  <2> SUFFICES ASSUME NEW s \in States, AllHold(active, s), NEW p \in Registers
               PROVE  s[merged'[p]] = s[p]
    BY <1>1 DEF MergedFollows, AllHold, Holds, States
  <2>1. s[merged[p]] = s[p] /\ s[merged[q]] = s[q]
    BY <1>3 DEF MergedFollows
  <2>2. CASE pos \in active /\ p = r
    <3>1. s[q] = s[r]
      BY <1>3, <2>2 DEF AllHold, Holds
    <3>2. merged'[p] = merged[q]
      BY <1>4, <2>2 DEF LearnerTypeOK
    <3> QED BY <2>1, <2>2, <3>1, <3>2
  <2>3. CASE ~ (pos \in active /\ p = r)
    <3>1. merged'[p] = merged[p]
      BY <1>4, <2>3 DEF LearnerTypeOK
    <3> QED BY <2>1, <3>1
  <2> QED BY <2>2, <2>3
<1> QED BY <1>6, <1>7, <1>8, <1>9

LEMMA StartPartitionsStep ==
  ASSUME RelationConstants, RelationsInv, StartPartitions
  PROVE  RelationsInv'
<1> USE DEF RelationsInv
<1>1. /\ stage = "merge" /\ stage' = "prove" /\ pos' = 0
      /\ UNCHANGED <<machine, candidates, active, merged, refuted, round, proved,
                     gaveUp, split, state>>
      /\ Len(candidates) \in Nat /\ DOMAIN candidates = 1..Len(candidates)
      /\ NumRegisters \in Nat
  BY LenProperties DEF StartPartitions, LearnerTypeOK, RelationConstants
<1>2. LearnerTypeOK'
  BY <1>1 DEF LearnerTypeOK, States
<1>3. Books' /\ Fresh'
  BY <1>1 DEF Books, Fresh, InitStates, States
<1>4. RoundIsSound'
  BY <1>1 DEF RoundIsSound, LearnerTypeOK
<1> QED BY <1>1, <1>2, <1>3, <1>4, Frame

(***************************************************************************)
(* What the three answers of a partition's query have in common: a guess   *)
(* of the partition that is not refuted is preserved, because the literals *)
(* the solver admits include every state in which the hypotheses hold.     *)
(***************************************************************************)
LEMMA AdmitsHypotheses ==
  ASSUME MergedFollows, NEW P \in SUBSET active, NEW s \in States, AllHold(active, s)
  PROVE  s \in Admitted(P)
<1>1. s = [r \in Registers |-> s[r]]
  BY DEF States
<1>2. [r \in Registers |-> s[merged[r]]] = [r \in Registers |-> s[r]]
  BY DEF MergedFollows
<1>3. s \in {[r \in Registers |-> l[merged[r]]] : l \in States}
  BY <1>1, <1>2
<1>4. AllHold(P, s)
  BY DEF AllHold
<1> QED BY <1>3, <1>4 DEF Admitted

LEMMA UnrefutableIsPreserved ==
  ASSUME MergedFollows, NEW P \in SUBSET active, NEW i \in P, i \notin Refutable(P)
  PROVE  Preserved(i)
<1> SUFFICES ASSUME NEW s \in States, NEW x \in Inputs, AllHold(active, s)
             PROVE  Holds(candidates[i], machine.next[<<s, x>>])
  BY DEF Preserved
<1>1. s \in Admitted(P)
  BY AdmitsHypotheses
<1> QED BY <1>1 DEF Refutable, Refutes

LEMMA PartitionStep ==
  ASSUME RelationConstants, RelationsInv, NEW P \in Partitions, NEW R \in SUBSET active,
         Proved(P, R), gaveUp' \in BOOLEAN,
         \/ \E i \in R : i <= pos
         \/ \E i \in R : i \in P
         \/ R \cap {i \in active : i <= pos} = refuted \cap {i \in active : i <= pos}
              /\ Refutable(P) = {}
  PROVE  RelationsInv'
<1> USE DEF RelationsInv
<1>1. /\ Len(candidates) \in Nat /\ DOMAIN candidates = 1..Len(candidates)
      /\ NumRegisters \in Nat /\ active \subseteq 1..Len(candidates)
      /\ pos \in Int
  BY LenProperties DEF LearnerTypeOK, RelationConstants
<1>2. PICK last \in {i \in active : i > pos} : P = {i \in active : i > pos /\ i <= last}
  BY DEF Partitions
<1>3. /\ stage = "prove" /\ stage' = "prove" /\ refuted' = R
      /\ UNCHANGED <<machine, candidates, active, merged, round, proved, state>>
      /\ split' \in BOOLEAN
  BY DEF Proved, LearnerTypeOK
<1>4. pos' = last
  <2>1. PICK end \in P : (\A i \in P : i <= end) /\ pos' = end
    BY DEF Proved
  <2>2. last \in P /\ end <= last /\ last \in Int /\ end \in Int
    BY <1>1, <1>2, <2>1
  <2> QED BY <2>1, <2>2
<1>5. LearnerTypeOK'
  BY <1>1, <1>2, <1>3, <1>4 DEF LearnerTypeOK, States
<1>6. Books' /\ Fresh'
  BY <1>3 DEF Books, Fresh, InitStates, States
<1>7. RoundIsSound'
  <2>1. CASE \E i \in R : i <= pos \/ i \in P
    <3>1. PICK i \in R : i <= pos \/ i \in P
      BY <2>1
    <3>2. i <= last
      BY <1>1, <1>2, <3>1
    <3> QED BY <1>3, <1>4, <3>2 DEF RoundIsSound
  <2>2. CASE ~ \E i \in R : i <= pos \/ i \in P
    <3>1. /\ R \cap {i \in active : i <= pos} = refuted \cap {i \in active : i <= pos}
          /\ Refutable(P) = {}
      BY <2>2
    <3>2. ~ \E i \in refuted : i <= pos
      BY <2>2, <3>1 DEF LearnerTypeOK
    <3>3. \A i \in active : i <= pos => Preserved(i)
      BY <1>3, <3>2 DEF RoundIsSound
    <3>4. \A i \in P : Preserved(i)
      BY <1>2, <3>1, UnrefutableIsPreserved
    <3>5. \A i \in active : i <= last => Preserved(i)
      BY <1>1, <1>2, <3>3, <3>4
    <3>6. \A i \in active : Preserved(i) => Preserved(i)'
      BY <1>3 DEF Preserved, AllHold, Holds, States
    <3> QED BY <1>3, <1>4, <3>5, <3>6 DEF RoundIsSound
  <2> QED BY <2>1, <2>2
<1> QED BY <1>3, <1>5, <1>6, <1>7, Frame

LEMMA RoundStep ==
  ASSUME RelationConstants, RelationsInv, PartitionUnsat \/ PartitionSat \/ PartitionUnknown
  PROVE  RelationsInv'
<1> USE DEF RelationsInv
<1>0. active \subseteq 1..Len(candidates) /\ Len(candidates) \in Nat /\ pos \in Int
  BY LenProperties DEF LearnerTypeOK, RelationConstants
<1>1. CASE PartitionUnsat
  <2>1. PICK P \in Partitions : Refutable(P) = {} /\ Proved(P, refuted) /\ UNCHANGED gaveUp
    BY <1>1 DEF PartitionUnsat
  <2> QED BY <2>1, PartitionStep DEF LearnerTypeOK
<1>2. CASE PartitionSat
  <2>0. PICK P \in Partitions : \E s \in Admitted(P), x \in Inputs :
          LET violated == {i \in P : Refutes(i, s, x)}
          IN  /\ violated # {}
              /\ \E seen \in SUBSET SeenDiffering :
                   Proved(P, refuted \cup seen \cup violated)
              /\ UNCHANGED gaveUp
    BY <1>2 DEF PartitionSat
  <2>1. PICK s \in Admitted(P), x \in Inputs, seen \in SUBSET SeenDiffering :
          LET violated == {i \in P : Refutes(i, s, x)}
          IN  /\ violated # {} /\ Proved(P, refuted \cup seen \cup violated)
              /\ UNCHANGED gaveUp
    BY <2>0
  <2> DEFINE violated == {i \in P : Refutes(i, s, x)}
             R == refuted \cup seen \cup violated
  <2>2. P \subseteq active /\ SeenDiffering \subseteq active
    BY DEF Partitions, SeenDiffering
  <2>3. R \in SUBSET active /\ (\E i \in R : i \in P) /\ Proved(P, R) /\ gaveUp' \in BOOLEAN
    BY <2>1, <2>2 DEF LearnerTypeOK
  <2> HIDE DEF R
  <2> QED BY <2>3, PartitionStep
<1>3. CASE PartitionUnknown
  <2>0. PICK P \in Partitions : \E T \in SUBSET P :
          /\ Refutable(P) \subseteq T
          /\ Proved(P, (refuted \ P) \cup T)
          /\ gaveUp' = (gaveUp \/ T # Refutable(P))
    BY <1>3 DEF PartitionUnknown
  <2>1. PICK T \in SUBSET P :
          /\ Refutable(P) \subseteq T
          /\ Proved(P, (refuted \ P) \cup T)
          /\ gaveUp' = (gaveUp \/ T # Refutable(P))
    BY <2>0
  <2> DEFINE R == (refuted \ P) \cup T
  <2>2. P \subseteq {i \in active : i > pos}
    BY DEF Partitions
  <2>3. R \in SUBSET active /\ Proved(P, R) /\ gaveUp' \in BOOLEAN
    BY <2>1, <2>2 DEF LearnerTypeOK
  <2>4. CASE T # {}
    <3>1. \E i \in R : i \in P
      BY <2>4
    <3> HIDE DEF R
    <3> QED BY <2>3, <3>1, PartitionStep
  <2>5. CASE T = {}
    <3>0. \A i \in active : i <= pos => i \notin P
      BY <1>0, <2>2
    <3>1. R \cap {i \in active : i <= pos} = refuted \cap {i \in active : i <= pos}
      BY <2>5, <3>0
    <3>2. Refutable(P) = {}
      BY <2>1, <2>5
    <3> HIDE DEF R
    <3> QED BY <2>3, <3>1, <3>2, PartitionStep
  <2> QED BY <2>4, <2>5
<1> QED BY <1>1, <1>2, <1>3

\* The end of a round: either the certificate, or fewer guesses.
LEMMA EndRoundStep ==
  ASSUME RelationConstants, RelationsInv, EndRound
  PROVE  RelationsInv'
<1> USE DEF RelationsInv
<1>1. /\ stage = "prove" /\ refuted' = {} /\ proved = {} /\ state \in InitStates
      /\ \A i \in active : i <= pos
      /\ UNCHANGED <<machine, candidates, gaveUp, split, state>>
      /\ NumRegisters \in Nat /\ MaxRounds \in Nat /\ round < MaxRounds
      /\ Len(candidates) \in Nat /\ DOMAIN candidates = 1..Len(candidates)
  BY LenProperties DEF EndRound, Books, LearnerTypeOK, RelationConstants
<1>2. GuessesHold'
  BY <1>1 DEF GuessesHold, BaseHolds
<1>3. CASE refuted = {}
  <2>1. /\ stage' = "done" /\ proved' = {candidates[i] : i \in active}
        /\ UNCHANGED <<active, round, pos, merged>>
    BY <1>3 DEF EndRound
  <2>2. \A i \in active : candidates[i] \in Registers \X Registers
    BY <1>1, ElementOfSeq DEF LearnerTypeOK
  <2>3. LearnerTypeOK'
    BY <1>1, <2>1, <2>2 DEF LearnerTypeOK, States
  <2>4. Books' /\ Fresh' /\ RoundIsSound'
    BY <2>1 DEF Books, Fresh, RoundIsSound
  <2>5. MergedFollows'
    BY <1>1, <2>1 DEF MergedFollows, AllHold, Holds, States
  <2>6. \A i \in active : Holds(candidates[i], state)
    <3> SUFFICES ASSUME NEW i \in active PROVE Holds(candidates[i], state)
      OBVIOUS
    <3>1. PICK q \in Registers, r \in Registers : candidates[i] = <<q, r>>
      BY <2>2
    <3>2. /\ machine.init[q] # Free /\ machine.init[r] # Free
          /\ machine.init[q] = machine.init[r]
          /\ machine.allowX \/ machine.init[q] # X
      BY <3>1 DEF GuessesHold, BaseHolds, LearnerTypeOK
    <3>3. state[q] = machine.init[q] /\ state[r] = machine.init[r]
      BY <1>1, <3>2 DEF InitStates
    <3> QED BY <3>1, <3>2, <3>3 DEF Holds
  <2>7. \A i \in active : Preserved(i)
    BY <1>1, <1>3 DEF RoundIsSound
  <2>8. Certificate'
    <3>1. \A c \in proved' : Holds(c, state)
      BY <2>1, <2>6
    <3>2. ASSUME NEW s \in States, \A c \in proved' : Holds(c, s), NEW x \in Inputs,
                 NEW c \in proved'
          PROVE  Holds(c, machine.next[<<s, x>>])
      <4>1. AllHold(active, s)
        BY <2>1, <3>2 DEF AllHold
      <4> QED BY <2>1, <2>7, <4>1 DEF Preserved
    <3> QED BY <1>1, <3>1, <3>2 DEF Certificate, Holds, States
  <2> QED BY <1>2, <2>3, <2>4, <2>5, <2>8
<1>4. CASE refuted # {}
  <2>1. /\ active' = active \ refuted /\ round' = round + 1 /\ pos' = 1 /\ proved' = {}
        /\ merged' = [r \in Registers |-> r]
        /\ stage' \in {"done", "merge"} /\ (round' = MaxRounds => stage' = "done")
    BY <1>1, <1>4 DEF EndRound
  <2>2. LearnerTypeOK'
    BY <1>1, <2>1 DEF LearnerTypeOK, States
  <2>3. Books' /\ Fresh' /\ RoundIsSound'
    BY <1>1, <2>1 DEF Books, Fresh, RoundIsSound, InitStates, States, LearnerTypeOK
  <2>4. MergedFollows' /\ Certificate'
    BY <2>1 DEF MergedFollows, Certificate
  <2> QED BY <1>2, <2>2, <2>3, <2>4
<1> QED BY <1>3, <1>4

\* The designs step while the relations are assumed.
LEMMA DesignsStep ==
  ASSUME RelationConstants, RelationsInv, MachineStep
  PROVE  RelationsInv'
<1> USE DEF RelationsInv
<1>1. /\ stage = "done"
      /\ UNCHANGED <<machine, stage, pos, candidates, active, merged, refuted, round,
                     proved, gaveUp, split>>
  BY DEF MachineStep
<1>2. PICK x \in Inputs : state' = machine.next[<<state, x>>]
  BY DEF MachineStep
<1>3. state \in States /\ machine \in Machines
  BY DEF LearnerTypeOK
<1>4. state' \in States
  BY <1>2, <1>3, MachineFacts
<1>5. LearnerTypeOK'
  BY <1>1, <1>4 DEF LearnerTypeOK, States
<1>6. Books' /\ Fresh' /\ RoundIsSound' /\ GuessesHold' /\ MergedFollows'
  BY <1>1 DEF Books, Fresh, RoundIsSound, GuessesHold, BaseHolds, MergedFollows, AllHold,
              Holds, States
<1>7. Certificate'
  <2>1. \A c \in proved : Holds(c, state')
    BY <1>2, <1>3 DEF Certificate
  <2> QED BY <1>1, <2>1 DEF Certificate, Holds, States
<1> QED BY <1>5, <1>6, <1>7

LEMMA StutterStep ==
  ASSUME RelationsInv, UNCHANGED learnerVars
  PROVE  RelationsInv'
BY DEF RelationsInv, learnerVars, LearnerTypeOK, Books, Fresh, GuessesHold, BaseHolds, MergedFollows,
       AllHold, Holds, RoundIsSound, Preserved, Certificate, States, InitStates

-----------------------------------------------------------------------------
(* The theorems *)

\* Types, merged literals, the rounds and the certificate hold throughout.
THEOREM RelationsCertified ==
  ASSUME RelationConstants
  PROVE  LearnerSpec => []RelationsInv
<1>1. LearnerInit => RelationsInv
  BY InitInv
<1>2. RelationsInv /\ [LearnerNext]_learnerVars => RelationsInv'
  BY CollectStep, StartProofStep, MergeStep, StartPartitionsStep, RoundStep, EndRoundStep,
     DesignsStep, StutterStep
  DEF LearnerNext, Learn
<1> QED BY <1>1, <1>2, PTL DEF LearnerSpec

(***************************************************************************)
(* Every relation that proveInternalRelations returns holds in every state *)
(* the two designs reach, for any number of registers, any next-state      *)
(* functions, any partitions and any unknown answers.                      *)
(***************************************************************************)
THEOREM RelationsHold ==
  ASSUME RelationConstants
  PROVE  LearnerSpec => []ProvedRelationsHold
<1>1. RelationsInv => ProvedRelationsHold
  BY DEF RelationsInv, Certificate, ProvedRelationsHold
<1> QED BY <1>1, RelationsCertified, PTL

-----------------------------------------------------------------------------
(* The greatest inductive set *)

(***************************************************************************)
(* Induction over the natural numbers, as a fact about sets.               *)
(***************************************************************************)
LEMMA InductiveSet ==
  ASSUME NEW S \in SUBSET Nat, 0 \in S, \A n \in S : n + 1 \in S
  PROVE  S = Nat
<1> SUFFICES ASSUME S # Nat PROVE FALSE
  OBVIOUS
<1>1. PICK n \in Nat \ S : \A m \in Nat \ S : n <= m
  BY LeastElement
<1>2. n - 1 \in Nat /\ ~ (n <= n - 1)
  BY <1>1
<1> QED BY <1>1, <1>2


\* The recursion of the simulation defines a function.
LEMMA SimulatedIsDefined ==
  ASSUME NEW N \in Nat
  PROVE  \E f : f = [n \in 0..N |-> IF n = 0 THEN Hypothetical ELSE Simulate(f[n - 1])]
<1> DEFINE S == {m \in Nat : \E f : f = [n \in 0..m |-> IF n = 0 THEN Hypothetical ELSE Simulate(f[n - 1])]}
<1>1. 0 \in S
  <2> DEFINE f == [n \in 0..0 |-> Hypothetical]
  <2>1. f = [n \in 0..0 |-> IF n = 0 THEN Hypothetical ELSE Simulate(f[n - 1])]
    OBVIOUS
  <2> HIDE DEF f
  <2> QED BY <2>1
<1>2. ASSUME NEW m \in S PROVE m + 1 \in S
  <2>1. PICK f : f = [n \in 0..m |-> IF n = 0 THEN Hypothetical ELSE Simulate(f[n - 1])]
    OBVIOUS
  <2> DEFINE g == [n \in 0..m + 1 |-> IF n = m + 1 THEN Simulate(f[m]) ELSE f[n]]
  <2>2. m \in Nat
    OBVIOUS
  <2>3. ASSUME NEW n \in 0..m + 1
        PROVE  g[n] = IF n = 0 THEN Hypothetical ELSE Simulate(g[n - 1])
    <3>1. CASE n = m + 1
      <4>1. g[n] = Simulate(f[m]) /\ g[n - 1] = f[m] /\ n # 0
        BY <2>2, <3>1
      <4> QED BY <4>1
    <3>2. CASE n \in 1..m
      <4>1. g[n] = f[n] /\ g[n - 1] = f[n - 1] /\ f[n] = Simulate(f[n - 1])
        BY <2>1, <2>2, <3>2
      <4> QED BY <3>2, <4>1
    <3>3. CASE n = 0
      <4>1. g[n] = f[n] /\ f[n] = Hypothetical
        BY <2>1, <2>2, <3>3
      <4> QED BY <3>3, <4>1
    <3> QED BY <2>2, <3>1, <3>2, <3>3
  <2>4. g = [n \in 0..m + 1 |-> IF n = 0 THEN Hypothetical ELSE Simulate(g[n - 1])]
    <3> DEFINE h == [n \in 0..m + 1 |-> IF n = 0 THEN Hypothetical ELSE Simulate(g[n - 1])]
    <3>1. \A n \in 0..m + 1 : h[n] = g[n]
      BY <2>3
    <3>2. g = [n \in 0..m + 1 |-> g[n]] /\ h = [n \in 0..m + 1 |-> h[n]]
      OBVIOUS
    <3> HIDE DEF g, h
    <3>3. g = h
      BY <3>1, <3>2
    <3> QED BY <3>3 DEF h
  <2> HIDE DEF g
  <2> QED BY <2>2, <2>4
<1>3. S = Nat
  <2> HIDE DEF S
  <2>1. S \subseteq Nat
    BY DEF S
  <2> QED BY <1>1, <1>2, <2>1, InductiveSet
<1> QED BY <1>3

LEMMA SimulatedUnfolds ==
  ASSUME MaxSimulation \in Nat
  PROVE  /\ Simulated[0] = Hypothetical
         /\ \A n \in 1..MaxSimulation : Simulated[n] = Simulate(Simulated[n - 1])
<1>1. \E f : f = [n \in 0..MaxSimulation |-> IF n = 0 THEN Hypothetical ELSE Simulate(f[n - 1])]
  BY SimulatedIsDefined
<1>2. Simulated = [n \in 0..MaxSimulation |-> IF n = 0 THEN Hypothetical
                                                  ELSE Simulate(Simulated[n - 1])]
  BY <1>1, Zenon DEF Simulated
<1> QED BY <1>2

\* A step of the simulation keeps an inductive set of guesses, although it
\* freezes the registers of no guess.
LEMMA SimulationKeeps ==
  ASSUME RelationConstants, LearnerTypeOK, NEW I \in SUBSET active, Inductive(I),
         NEW s \in States, AllHold(I, s), NEW x \in Inputs
  PROVE  SimulationStep(s, x) \in States /\ AllHold(I, SimulationStep(s, x))
<1> DEFINE t == SimulationStep(s, x)
           u == machine.next[<<s, x>>]
<1>1. u \in States /\ AllHold(I, u)
  BY MachineFacts DEF Inductive, LearnerTypeOK
<1>2. \A r \in Registers : t[r] = IF r \in Related THEN u[r] ELSE s[r]
  BY DEF SimulationStep
<1>3. t \in States
  BY <1>1 DEF SimulationStep, States
<1>4. ASSUME NEW i \in I PROVE Holds(candidates[i], t)
  <2>1. candidates[i] \in Registers \X Registers
    BY ElementOfSeq, LenProperties DEF LearnerTypeOK
  <2>2. PICK q \in Registers, r \in Registers : candidates[i] = <<q, r>>
    BY <2>1
  <2>3. q \in Related /\ r \in Related
    BY <2>2 DEF Related
  <2>4. t[q] = u[q] /\ t[r] = u[r]
    BY <1>2, <2>2, <2>3
  <2>5. Holds(candidates[i], u)
    BY <1>1 DEF AllHold
  <2> HIDE DEF t, u
  <2> QED BY <2>2, <2>4, <2>5 DEF Holds
<1> QED BY <1>3, <1>4 DEF AllHold

\* What the simulation sees differing belongs to no inductive set.
LEMMA SeenAreOutsiders ==
  ASSUME RelationConstants, LearnerTypeOK, NEW I \in SUBSET active, Inductive(I)
  PROVE  I \cap SeenDiffering = {}
<1> DEFINE Good == {s \in States : AllHold(I, s)}
           S == {n \in Nat : n <= MaxSimulation => Simulated[n] \subseteq Good}
<1>1. MaxSimulation \in Nat
  BY DEF RelationConstants
<1>2. 0 \in S
  BY <1>1, SimulatedUnfolds DEF Hypothetical, AllHold
<1>3. ASSUME NEW n \in S PROVE n + 1 \in S
  <2>1. SUFFICES ASSUME n + 1 <= MaxSimulation PROVE Simulated[n + 1] \subseteq Good
    OBVIOUS
  <2>2. /\ n \in Nat /\ n <= MaxSimulation /\ n + 1 \in 1..MaxSimulation
        /\ n + 1 - 1 = n
    BY <1>1, <2>1
  <2>3. Simulated[n + 1] = Simulate(Simulated[n]) /\ Simulated[n] \subseteq Good
    BY <1>1, <2>2, SimulatedUnfolds
  <2>4. \A s \in Good, x \in Inputs : SimulationStep(s, x) \in Good
    BY SimulationKeeps
  <2> HIDE DEF Good
  <2> QED BY <2>3, <2>4 DEF Simulate
<1>4. S = Nat
  <2>1. S \subseteq Nat
    OBVIOUS
  <2> HIDE DEF S
  <2> QED BY <1>2, <1>3, <2>1, InductiveSet
<1>5. Simulated[MaxSimulation] \subseteq Good
  BY <1>1, <1>4
<1> HIDE DEF S
<1> QED BY <1>5 DEF SeenDiffering, AllHold

\* Neither does a counterexample of a partition with all guesses.
LEMMA RefutedAreOutsiders ==
  ASSUME RelationConstants, LearnerTypeOK, NEW I \in SUBSET active, Inductive(I),
         NEW s \in Admitted(active), NEW x \in Inputs, NEW i \in I
  PROVE  ~ Refutes(i, s, x)
<1>1. s \in States
  BY DEF Admitted, States, LearnerTypeOK
<1>2. AllHold(I, s)
  BY DEF Admitted, AllHold
<1> QED BY <1>1, <1>2 DEF Inductive, Refutes, AllHold

\* Being inductive does not depend on how far the learner is.
LEMMA InductiveStays ==
  ASSUME UNCHANGED <<machine, candidates>>, NEW I
  PROVE  Inductive(I)' <=> Inductive(I)
<1>1. States' = States /\ \A s : AllHold(I, s)' <=> AllHold(I, s)
  BY DEF States, AllHold, Holds
<1>2. \A s : AllHold(I, s)' <=> \A i \in I : Holds(candidates[i], s)
  BY DEF AllHold, Holds
<1> QED BY <1>1, <1>2 DEF Inductive, AllHold, Holds

\* What a step that changes no guess and refutes none needs.
LEMMA OutsidersFrame ==
  ASSUME OnlyOutsidersRefuted, UNCHANGED <<machine, candidates, active, refuted>>,
         ~gaveUp' => ~gaveUp, ~split' => ~split,
         stage' \in {"merge", "prove"} => stage \in {"merge", "prove"},
         gaveUp' \in BOOLEAN, split' \in BOOLEAN
  PROVE  OnlyOutsidersRefuted'
BY InductiveStays DEF OnlyOutsidersRefuted

LEMMA OutsidersRound ==
  ASSUME RelationConstants, RelationsInv, OnlyOutsidersRefuted,
         PartitionUnsat \/ PartitionSat \/ PartitionUnknown, LearnerTypeOK'
  PROVE  OnlyOutsidersRefuted'
<1> USE DEF RelationsInv
<1>1. /\ stage = "prove" /\ stage' = "prove" /\ UNCHANGED <<machine, candidates, active>>
      /\ (~gaveUp' => ~gaveUp) /\ (~split' => ~split)
  BY DEF PartitionUnsat, PartitionSat, PartitionUnknown, Proved, LearnerTypeOK
<1> SUFFICES ASSUME ~gaveUp', ~split', NEW I \in SUBSET DOMAIN candidates, Inductive(I)
             PROVE  I \cap refuted' = {} /\ I \subseteq active
  BY <1>1, InductiveStays DEF OnlyOutsidersRefuted
<1>2. I \subseteq active /\ I \cap refuted = {}
  BY <1>1 DEF OnlyOutsidersRefuted
<1>3. CASE PartitionUnsat
  BY <1>2, <1>3 DEF PartitionUnsat, Proved
<1>4. CASE PartitionSat
  <2>1. PICK P \in Partitions : \E s \in Admitted(P), x \in Inputs :
          \E seen \in SUBSET SeenDiffering :
            Proved(P, refuted \cup seen \cup {i \in P : Refutes(i, s, x)})
    BY <1>4 DEF PartitionSat
  <2>2. P = active
    BY <2>1 DEF Proved
  <2>3. PICK s \in Admitted(active), x \in Inputs, seen \in SUBSET SeenDiffering :
          refuted' = refuted \cup seen \cup {i \in active : Refutes(i, s, x)}
    BY <2>1, <2>2 DEF Proved
  <2>4. I \cap seen = {}
    BY <1>2, SeenAreOutsiders
  <2>5. I \cap {i \in active : Refutes(i, s, x)} = {}
    BY <1>2, RefutedAreOutsiders
  <2> QED BY <1>2, <2>3, <2>4, <2>5
<1>5. CASE PartitionUnknown
  <2>1. PICK P \in Partitions : \E R \in SUBSET P :
          /\ Proved(P, (refuted \ P) \cup R)
          /\ gaveUp' = (gaveUp \/ R # Refutable(P))
    BY <1>5 DEF PartitionUnknown
  <2>2. P = active
    BY <2>1 DEF Proved
  <2>3. refuted' = (refuted \ active) \cup Refutable(active)
    BY <2>1, <2>2 DEF Proved, LearnerTypeOK
  <2>4. I \cap Refutable(active) = {}
    BY <1>2, RefutedAreOutsiders DEF Refutable
  <2> QED BY <1>2, <2>3, <2>4
<1> QED BY <1>3, <1>4, <1>5

LEMMA OutsidersStep ==
  ASSUME RelationConstants, RelationsInv, OnlyOutsidersRefuted, [LearnerNext]_learnerVars, LearnerTypeOK'
  PROVE  OnlyOutsidersRefuted'
<1> USE DEF RelationsInv
<1>0. gaveUp \in BOOLEAN /\ split \in BOOLEAN /\ gaveUp' \in BOOLEAN /\ split' \in BOOLEAN
  BY DEF LearnerTypeOK
<1>1. CASE CollectCandidates \/ MachineStep
  BY <1>1 DEF CollectCandidates, MachineStep, OnlyOutsidersRefuted
<1>2. CASE StartProof
  <2>1. CASE stage' = "done"
    BY <2>1 DEF OnlyOutsidersRefuted
  <2>2. CASE stage' # "done"
    <3>1. /\ active' = DOMAIN candidates /\ candidates' = candidates /\ refuted' = {}
      BY <1>2, <2>2 DEF StartProof, Fresh
    <3> QED BY <3>1 DEF OnlyOutsidersRefuted
  <2> QED BY <2>1, <2>2
<1>3. CASE MergeHypothesis \/ StartPartitions
  BY <1>0, <1>3, OutsidersFrame DEF MergeHypothesis, StartPartitions
<1>4. CASE PartitionUnsat \/ PartitionSat \/ PartitionUnknown
  BY <1>4, OutsidersRound
<1>5. CASE EndRound
  <2>1. /\ refuted' = {} /\ UNCHANGED <<machine, candidates, gaveUp, split>>
        /\ stage = "prove"
        /\ (stage' # "done" => active' = active \ refuted)
    BY <1>5 DEF EndRound
  <2>2. \A I \in SUBSET DOMAIN candidates : Inductive(I)' <=> Inductive(I)
    BY <2>1, InductiveStays
  <2>3. stage' # "done" /\ ~gaveUp /\ ~split =>
          \A I \in SUBSET DOMAIN candidates : Inductive(I) => I \subseteq active'
    BY <2>1 DEF OnlyOutsidersRefuted
  <2> QED BY <2>1, <2>2, <2>3 DEF OnlyOutsidersRefuted
<1>6. CASE UNCHANGED learnerVars
  BY <1>0, <1>6, OutsidersFrame DEF learnerVars
<1> QED BY <1>1, <1>2, <1>3, <1>4, <1>5, <1>6 DEF LearnerNext, Learn

(***************************************************************************)
(* With one partition to a round and nothing given up, a counterexample    *)
(* and its replay next to random patterns only drop guesses that are in no *)
(* jointly inductive set, although the replay freezes the registers that   *)
(* no guess is about: the greatest such set is what is left at the end.    *)
(***************************************************************************)
THEOREM GreatestSetKept ==
  ASSUME RelationConstants
  PROVE  LearnerSpec => []OnlyOutsidersRefuted
<1>1. LearnerInit => RelationsInv /\ OnlyOutsidersRefuted
  BY InitInv DEF LearnerInit, OnlyOutsidersRefuted
<1>2. RelationsInv /\ RelationsInv' /\ OnlyOutsidersRefuted /\ [LearnerNext]_learnerVars => OnlyOutsidersRefuted'
  BY OutsidersStep DEF RelationsInv
<1> QED BY <1>1, <1>2, RelationsCertified, PTL DEF LearnerSpec
=============================================================================
