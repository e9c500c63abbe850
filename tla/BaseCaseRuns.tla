---------------------------- MODULE BaseCaseRuns ----------------------------
(***************************************************************************)
(* The runs a bounded counterexample search looks at                       *)
(* (BaseCaseSolver.cpp, findBaseCounterexampleImpl): which frames of an    *)
(* unrolling are constrained by what, and from which frame on a mismatch   *)
(* counts.  Every symbol is taken to be in the cone of the property.       *)
(*                                                                         *)
(* A problem is a record: states (all state symbols), inputs, next (symbol *)
(* to tree, for symbols that have a transition), complements and rails     *)
(* (pairs of symbols), equalities (pairs), dual, cycles, resetInputs       *)
(* (symbol to asserted value), initial and bootstrap (symbol to value),    *)
(* initialized and total (numbers of states), condition and property       *)
(* (trees).  Initial values are the assignments in initial or, when there  *)
(* are none, condition.                                                    *)
(***************************************************************************)
EXTENDS ExprTrees, TLC

CONSTANTS
  Problems,
  MaxFrame      \* bound: frames of a run

VARIABLES
  problem,
  running,      \* the run has begun
  frame,
  state         \* values of the state symbols

runVars == <<problem, running, frame, state>>

-----------------------------------------------------------------------------
(* Startup (KInductionProblem.h, resetBootstrapFrames,                     *)
(* determineInitialConstraintMode).                                        *)

hasCompleteInitialState(p) ==
  p.initialized # 0 /\ p.initialized = p.total
hasResetBootstrap(p) == DOMAIN p.resetInputs # {}

usesResetBootstrapObservationFrontier(p) ==
  /\ ~p.dual /\ p.states # {}
  /\ hasResetBootstrap(p) /\ p.cycles # 0
  /\ ~(p.total # 0 /\ Cardinality(DOMAIN p.bootstrap) >= p.total)

resetBootstrapFrames(p) ==
  IF (~hasCompleteInitialState(p) \/ p.dual) /\ hasResetBootstrap(p) THEN p.cycles ELSE 0

InitialConstraintMode(p) ==
  CASE resetBootstrapFrames(p) # 0 \/ p.states = {} -> "None"
    [] hasCompleteInitialState(p) -> "CompleteInit"
    [] p.initialized # 0 -> "PartialInit"
    [] OTHER -> "ObservationOnly"

firstBadFrame(p) ==
  CASE resetBootstrapFrames(p) # 0 ->
         resetBootstrapFrames(p) + (IF usesResetBootstrapObservationFrontier(p) THEN 1 ELSE 0)
    [] InitialConstraintMode(p) \in {"ObservationOnly", "PartialInit"} -> 1
    [] OTHER -> 0

-----------------------------------------------------------------------------
(* What the clauses of one frame say.                                      *)

Matches(values, v) == \A x \in DOMAIN values : v[x] = values[x]

\* addResetBootstrapConstraints: asserted before the frontier, released after.
ResetHolds(p, f, ins) ==
  resetBootstrapFrames(p) # 0 =>
    \A x \in DOMAIN p.resetInputs : ins[x] = (p.resetInputs[x] = (f < resetBootstrapFrames(p)))

\* addInitialConstraints, and the initial rails of a reset prefix.
InitialHolds(p, v, ins) ==
  /\ InitialConstraintMode(p) \in {"CompleteInit", "PartialInit"} =>
       IF DOMAIN p.initial # {} THEN Matches(p.initial, v) ELSE Evaluate(p.condition, v @@ ins)
  /\ resetBootstrapFrames(p) # 0 /\ p.dual => Matches(p.initial, v)
  /\ InitialConstraintMode(p) \in {"ObservationOnly", "PartialInit"} =>
       Evaluate(p.property, v @@ ins)

\* The frontier: observed outputs agree, registers have their reset values.
FrontierHolds(p, v, ins) ==
  /\ usesResetBootstrapObservationFrontier(p) => Evaluate(p.property, v @@ ins)
  /\ ~p.dual => Matches(p.bootstrap, v)

RelationsHold(p, v) ==
  /\ \A c \in p.complements : v[c[2]] = ~v[c[1]]
  /\ \A q \in p.equalities : v[q[1]] = v[q[2]]
  /\ \A r \in p.rails : v[r[1]] \/ v[r[2]]

FrameHolds(p, f, v, ins) ==
  /\ ResetHolds(p, f, ins)
  /\ f = 0 => InitialHolds(p, v, ins)
  /\ resetBootstrapFrames(p) # 0 /\ f = resetBootstrapFrames(p) => FrontierHolds(p, v, ins)
  /\ RelationsHold(p, v)

Mismatch(p, f, v, ins) == f >= firstBadFrame(p) /\ ~Evaluate(p.property, v @@ ins)

InputValues(p) == [p.inputs -> BOOLEAN]

-----------------------------------------------------------------------------
RunInit == problem \in Problems /\ running = FALSE /\ frame = 0 /\ state = << >>

Start ==
  /\ ~running /\ running' = TRUE
  /\ state' \in [problem.states -> BOOLEAN]
  /\ UNCHANGED <<problem, frame>>

\* A state without a transition is left to the relations of the next frame.
Advance(ins) ==
  /\ running /\ frame < MaxFrame
  /\ FrameHolds(problem, frame, state, ins)
  /\ frame' = frame + 1
  /\ state' \in {v \in [problem.states -> BOOLEAN] :
                   \A x \in DOMAIN problem.next : v[x] = Evaluate(problem.next[x], state @@ ins)}
  /\ UNCHANGED <<problem, running>>

RunNext == Start \/ \E ins \in InputValues(problem) : Advance(ins)

Runs == RunInit /\ [][RunNext]_runVars
=============================================================================
