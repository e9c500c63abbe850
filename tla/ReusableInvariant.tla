------------------------- MODULE ReusableInvariant -------------------------
(***************************************************************************)
(* The clauses that cross PDR runs (PDRExactInitCache).  Output batches    *)
(* run one after the other on the same model with different properties.    *)
(* When a run ends, the clauses of its frames become candidates; before    *)
(* the next run, ReusableInvariantFinder certifies the largest inductive   *)
(* subset of them relative to the invariant H certified so far, and every  *)
(* frame of that run starts with H.  All SAT work of the finder is         *)
(* optional: it may answer UNKNOWN and its total effort is capped.         *)
(***************************************************************************)
EXTENDS ProductMachine, FiniteSetsExt

CONSTANTS
  Models,       \* the transition models a cache may be built for
  Learnable,    \* the clause sets the frames of a run may hold at its end
  MaxLiterals,  \* kMaxReusableInvariantCandidateLiterals
  MaxRevision   \* cap of the revision counter (a bound of the model only)

(***************************************************************************)
(* A model: initial states and transition functions, whether the solver is *)
(* CaDiCaL (only then is there a cumulative budget) and the tick limit of  *)
(* that budget.  The cache is used by the dual-rail encoding only, which   *)
(* has no observation frontier; bad is the property-dependent part and is  *)
(* not used here.                                                          *)
(***************************************************************************)
Model ==
  [init : SUBSET State, next : [Point -> State], bad : SUBSET Point,
   frontier : {FALSE}, budgeted : BOOLEAN, tickLimit : Nat]

ASSUME ModelsTyped == Models \subseteq Model
ASSUME LearnableTyped == Learnable \subseteq SUBSET Cubes
ASSUME CacheBounds == MaxLiterals \in Nat /\ MaxRevision \in Nat
-----------------------------------------------------------------------------
VARIABLES
  model,              \* sourceProblem of the cache; never changes
  candidates,         \* reusableInvariantCandidates
  invariant,          \* reusableInvariant: the certified H
  literalCount,       \* reusableInvariantCandidateLiteralCount
  revision,           \* reusableInvariantCandidateRevision
  certifiedRevision,  \* reusableInvariantCertifiedRevision
  disabled,           \* reusableInvariantCertificationDisabled
  ticks,              \* ticks left in the certification budget
  progress,                 \* where the run and its refresh stand
  unchecked,          \* finder: candidates whose initial check is still to do
  active,             \* finder: candidates not rejected so far
  found               \* finder: result.invariant

reuseVars == <<model, candidates, invariant, literalCount, revision,
          certifiedRevision, disabled, ticks, progress, unchecked, active, found>>

cacheVars == <<candidates, invariant, literalCount, revision,
               certifiedRevision, disabled>>

CacheInit ==
  /\ model \in Models
  /\ candidates = {}
  /\ invariant = {}
  /\ literalCount = 0
  /\ revision = 0
  /\ certifiedRevision = 0
  /\ disabled = FALSE
  /\ ticks = model.tickLimit
  /\ progress = "idle"
  /\ unchecked = {}
  /\ active = {}
  /\ found = {}

LiteralsIn(clauses) == MapThenSumSet(Cardinality, clauses)

-----------------------------------------------------------------------------
(* Certification queries *)

\* candidates_: the candidates that are not clauses of H already.
NewCandidates == candidates \ invariant

\* A query is not even started on an exhausted budget, and uses up some of it.
Exhausted == model.budgeted /\ ticks = 0
Answered == ~ Exhausted /\ ticks' \in IF model.budgeted THEN 0..ticks ELSE {ticks}

ViolatedByInit(c) == \E x \in InitPoints(model) : In(x[1], c)

\* Steps from H and the active candidates; the next-state part is free.
InductionPoints == {x \in Point : Allows(invariant \cup active, x[1])}

Violated(x) == {c \in active : In(model.next[x], c)}

-----------------------------------------------------------------------------
(* retainOnlyCertifiedReusableInvariant and its callers *)

RetainOnlyCertified(H) ==
  /\ invariant' = H
  /\ candidates' = H
  /\ literalCount' = LiteralsIn(H)
  /\ certifiedRevision' = revision

EndRefresh ==
  /\ progress' = "run"
  /\ unchecked' = {}
  /\ active' = {}
  /\ found' = {}

\* The finder returned H; an exhausted budget disables certification for good.
Accept(H) ==
  /\ RetainOnlyCertified(H)
  /\ disabled' = Exhausted
  /\ EndRefresh
  /\ UNCHANGED <<model, revision, ticks>>

\* refreshReusableInvariant at the start of a run.
SkipRefresh ==
  /\ progress = "idle"
  /\ disabled \/ revision = certifiedRevision
  /\ progress' = "run"
  /\ UNCHANGED <<model, cacheVars, ticks, unchecked, active, found>>

BeginRefresh ==
  /\ progress = "idle"
  /\ ~ disabled /\ revision # certifiedRevision
  /\ progress' = "initial"
  /\ unchecked' = NewCandidates
  /\ UNCHANGED <<model, cacheVars, ticks, active, found>>

\* Init => clause is read off known facts about Init, or asked.
CheckInitial ==
  /\ progress = "initial"
  /\ \E c \in unchecked :
       /\ unchecked' = unchecked \ {c}
       /\ \/ ViolatedByInit(c) /\ Answered /\ active' = active
          \/ /\ ~ ViolatedByInit(c)
             /\ Answered \/ UNCHANGED ticks
             /\ active' = active \cup {c}
  /\ UNCHANGED <<model, cacheVars, progress, found>>

BeginInduction ==
  /\ progress = "initial" /\ unchecked = {}
  /\ progress' = "inductive"
  /\ UNCHANGED <<model, cacheVars, ticks, unchecked, active, found>>

\* Faulty variant: UNKNOWN starts the certification over.
QueryUnknownRestarts ==
  /\ \/ progress = "initial" /\ unchecked # {}
     \/ progress = "inductive" /\ active # {}
  /\ progress' = "initial"
  /\ unchecked' = NewCandidates
  /\ active' = {}
  /\ UNCHANGED <<model, cacheVars, ticks, found>>

(***************************************************************************)
(* UNKNOWN, or an exception.  H stays; candidates wait for the next run    *)
(* unless the cumulative budget is gone.                                   *)
(***************************************************************************)
QueryUnknown ==
  /\ \/ progress = "initial" /\ unchecked # {}
     \/ progress = "inductive" /\ active # {}
  /\ ticks' \in IF model.budgeted THEN 0..ticks ELSE {ticks}
  /\ IF model.budgeted /\ ticks' = 0
     THEN RetainOnlyCertified(invariant) /\ disabled' = TRUE
     ELSE UNCHANGED <<candidates, invariant, literalCount, certifiedRevision,
                      disabled>>
  /\ EndRefresh
  /\ UNCHANGED <<model, revision>>

\* Faulty variant: H missing from the query.
RemoveViolatedWithoutBase ==
  /\ progress = "inductive"
  /\ Answered
  /\ \E x \in Point :
       /\ Allows(active, x[1])
       /\ \E removed \in (SUBSET Violated(x)) \ {{}} : active' = active \ removed
  /\ UNCHANGED <<model, cacheVars, progress, unchecked, found>>

\* A model of the query names at least one clause its step violates; the
\* encoding lets it leave others unnamed.
RemoveViolated ==
  /\ progress = "inductive"
  /\ Answered
  /\ \E x \in InductionPoints :
       \E removed \in (SUBSET Violated(x)) \ {{}} : active' = active \ removed
  /\ UNCHANGED <<model, cacheVars, progress, unchecked, found>>

\* Nothing left: the loop ends with H as it was.
NothingInductive ==
  /\ progress = "inductive" /\ active = {}
  /\ Accept(invariant)

\* Faulty variants: UNKNOWN taken for UNSAT; H not carried over.
BuildOnUnknown ==
  /\ progress = "inductive" /\ active # {}
  /\ found' = invariant
  /\ progress' = "build"
  /\ UNCHANGED <<model, cacheVars, ticks, unchecked, active>>
BuildFromNothing ==
  /\ progress = "inductive" /\ active # {}
  /\ Answered
  /\ \A x \in InductionPoints : Violated(x) = {}
  /\ found' = {}
  /\ progress' = "build"
  /\ UNCHANGED <<model, cacheVars, unchecked, active>>

BeginBuild ==
  /\ progress = "inductive" /\ active # {}
  /\ Answered
  /\ \A x \in InductionPoints : Violated(x) = {}
  /\ found' = invariant
  /\ progress' = "build"
  /\ UNCHANGED <<model, cacheVars, unchecked, active>>

\* buildInvariant adds the survivors one at a time, dropping subsumed clauses.
AddSurvivor ==
  /\ progress = "build"
  /\ \E c \in active :
       /\ found' = AddClause(found, c)
       /\ active' = active \ {c}
  /\ UNCHANGED <<model, cacheVars, ticks, progress, unchecked>>

AcceptFound ==
  /\ progress = "build" /\ active = {}
  /\ Accept(found)

-----------------------------------------------------------------------------
(* The end of a run: storeReusableInvariantCandidates *)

EndRun(clauses) ==
  LET additions == clauses \ candidates
      literals == LiteralsIn(additions)
  IN  /\ progress = "run"
      /\ progress' = "idle"
      /\ IF disabled \/ additions = {} \/ literalCount + literals > MaxLiterals
         THEN UNCHANGED <<candidates, literalCount, revision>>
         ELSE /\ revision < MaxRevision
              /\ candidates' = candidates \cup additions
              /\ literalCount' = literalCount + literals
              /\ revision' = revision + 1
      /\ UNCHANGED <<model, invariant, certifiedRevision, disabled, ticks,
                     unchecked, active, found>>

Refresh ==
  \/ SkipRefresh \/ BeginRefresh \/ CheckInitial \/ BeginInduction
  \/ QueryUnknown \/ RemoveViolated \/ NothingInductive \/ BeginBuild
  \/ AddSurvivor \/ AcceptFound

CacheNext == Refresh \/ \E clauses \in Learnable : EndRun(clauses)

\* The finder is straight-line code whose SAT calls all return.
CacheSpec == CacheInit /\ [][CacheNext]_reuseVars /\ WF_reuseVars(Refresh)

-----------------------------------------------------------------------------
(* Properties *)

\* The cache fields keep their types (literalCount is a sum over candidates).
CacheTypeOK ==
  /\ model \in Models
  /\ candidates \subseteq Cubes
  /\ invariant \subseteq candidates
  /\ revision \in 0..MaxRevision
  /\ certifiedRevision \in 0..revision
  /\ disabled \in BOOLEAN
  /\ ticks \in Nat
  /\ progress \in {"idle", "initial", "inductive", "build", "run"}
  /\ unchecked \subseteq NewCandidates
  /\ active \subseteq NewCandidates
  /\ found \subseteq candidates

Irredundant(clauses) == \A c, d \in clauses : d \subseteq c => c = d

\* Only a certified invariant crosses runs: Init => H and H /\ T => H', with
\* no clause subsuming another.  PDR's assumption about imported clauses.
InvariantCertified == Certified(model, invariant) /\ Irredundant(invariant)

\* Clauses that hold initially and that H and themselves preserve.
RelativelyInductive(G) ==
  /\ \A c \in G : ~ ViolatedByInit(c)
  /\ \A x \in Point :
       Allows(invariant \cup G, x[1]) => Allows(G, model.next[x])

\* "Converts arbitrary saved IC3 clauses into the maximum subset": no
\* candidate of any relatively inductive set is lost, whichever violated
\* clauses the solver names first; in the end each is implied by a kept clause.
MaximumKept ==
  \A G \in SUBSET NewCandidates :
    RelativelyInductive(G) =>
      /\ progress = "initial" => G \subseteq unchecked \cup active
      /\ progress = "inductive" => G \subseteq active
      /\ progress = "build" => \A c \in G : Subsumed(found \cup active, c)

\* What makes the two inductive: survivors hold initially, and the set under
\* construction together with what is still to be added is certified and
\* implies H.
FinderState ==
  /\ progress # "initial" => unchecked = {}
  /\ progress \in {"idle", "run"} => active = {}
  /\ \A c \in active : ~ ViolatedByInit(c)
  /\ progress = "build" =>
       /\ Certified(model, found \cup active)
       /\ Irredundant(found)
       /\ \A s \in State : Allows(found, s) => Allows(invariant, s)

\* H never gets weaker, so a clause once imported stays implied.
InvariantOnlyStrengthens ==
  [][\A s \in State : Allows(invariant', s) => Allows(invariant, s)]_reuseVars

\* The revision numbers say exactly whether there is anything to certify, and
\* a disabled cache keeps no uncertified clause.
RevisionsTrackCandidates ==
  /\ revision = certifiedRevision <=> candidates = invariant
  /\ disabled => candidates = invariant

\* Every refresh ends: each answered query removes a candidate or is the last.
RefreshEnds == progress = "initial" ~> progress = "run"
=============================================================================
