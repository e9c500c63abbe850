----------------------------- MODULE SatSolver -----------------------------
(***************************************************************************)
(* The wrapper around the three SAT solvers: numbering of variables and    *)
(* literals, solves with and without limits and assumptions, failed        *)
(* assumptions, and the work budget that several CaDiCaL solvers share.    *)
(*                                                                         *)
(* A literal of the callers is an integer of absolute value at least 2;    *)
(* inside a solver the variable n is n + 1.  The search of a solver is     *)
(* external: it takes some work, ends with the right answer, and may only  *)
(* end without one where a limit is reached.  One thread makes all calls.  *)
(***************************************************************************)
EXTENDS Integers, Sequences, FiniteSets, FiniteSetsExt, SequencesExt

CONSTANTS Backends,      \* the solver types that are created
          Solvers,       \* the solvers alive at one time
          Clauses,       \* the clauses that are added
          AssumptionSets,\* the assumptions of a solve
          Resources,     \* what is limited: conflicts, decisions, ticks
          QueryLimits,   \* limits of one solve, by resource
          Budgets, BudgetLimit,   \* the budgets and their limits, by resource
          Overshoot,     \* how far a search may run past a limit, by resource
          MaxWork,       \* the most work of one search
          MaxInt,        \* numeric_limits<int>::max
          Slack,         \* the least growth of a reservation
          MaxCalls       \* the calls of one behaviour

None == "none"
NoLimit == -1
Unlimited == [r \in Resources |-> NoLimit]
Zero == [r \in Resources |-> 0]
Abs(n) == IF n < 0 THEN -n ELSE n

\* What is asked of the constants; modules that instantiate this one assume it.
LiteralsAreValid == \A c \in Clauses \cup AssumptionSets : \A l \in c : Abs(l) >= 2
BudgetsArePositive == \A b \in Budgets, r \in Resources : BudgetLimit[b][r] >= 1

VARIABLES solver,        \* the state of every solver
          active,        \* activeCadicalWorkBudget_
          scopes,        \* the open budget scopes, the innermost last
          used,          \* the work a budget has been charged
          spent,         \* the work done by limited searches in the scope of a budget
          answer,        \* what the last call returned
          calls

vars == <<solver, active, scopes, used, spent, answer, calls>>

-----------------------------------------------------------------------------
(* Numbering *)

Var(l) == Abs(l) - 2

Internal(l) == IF l > 0 THEN Var(l) + 1 ELSE -(Var(l) + 1)
InternalClause(c) == {Internal(l) : l \in c}

NamedIn(c) == {Var(l) : l \in c}

(* A variable that was not created counts from its first use. *)
CountNamed(x, c) == [x EXCEPT !.numVars = Max({@} \cup {n + 1 : n \in NamedIn(c)})]

Reserve(x, n) ==
  IF x.kind = "glucose" \/ n <= x.reserved THEN x
  ELSE [x EXCEPT !.reserved =
          IF @ = 0 THEN n ELSE Max({n, @ + Max({@ \div 2, Slack})})]

(* Kissat grows by itself when a clause names a new variable. *)
CountAndReserve(x, c) ==
  LET y == CountNamed(x, c) IN IF x.kind = "cadical" THEN Reserve(y, y.numVars) ELSE y

-----------------------------------------------------------------------------
(* The search of a solver (external) *)

Inner == {Abs(Internal(l)) : l \in UNION (Clauses \cup AssumptionSets)}

Satisfies(v, clauses) == \A c \in clauses : \E l \in c : (Abs(l) \in v) = (l > 0)
ModelsOf(clauses, assumed) ==
  {v \in SUBSET Inner : Satisfies(v, clauses \cup {{a} : a \in assumed})}

Work(limit) ==
  {w \in [Resources -> 0..MaxWork] :
     \A r \in Resources : limit[r] >= 0 => w[r] <= limit[r] + Overshoot[r]}
Stopped(limit, w) == \E r \in Resources : limit[r] >= 0 /\ w[r] >= limit[r]

Outcomes(clauses, assumed, limit) ==
  UNION {LET Ends(status, model, core) ==
               [status |-> status, model |-> model, core |-> core, work |-> w]
             models == ModelsOf(clauses, assumed)
         IN {Ends("sat", v, {}) : v \in models}
              \cup {Ends("unsat", {}, c) :
                      c \in {c \in SUBSET assumed : models = {} /\ ModelsOf(clauses, c) = {}}}
              \cup (IF Stopped(limit, w) THEN {Ends("unknown", {}, {})} ELSE {}) :
         w \in Work(limit)}

(* The state of the solver afterwards: assumptions hold for one solve. *)
Searched(x, o) ==
  [x EXCEPT !.pending = {}, !.model = o.model, !.core = o.core, !.searched = TRUE,
            !.stats = [r \in Resources |-> @[r] + o.work[r]]]

-----------------------------------------------------------------------------
(* The work budget *)

Remaining(b, r) == IF used[b][r] >= BudgetLimit[b][r] THEN 0 ELSE BudgetLimit[b][r] - used[b][r]
Exhausted(b) == \E r \in Resources : Remaining(b, r) = 0

consume(b, work) == [used EXCEPT ![b] = [r \in Resources |-> @[r] + Min({work[r], Remaining(b, r)})]]

Charge(b, before, after) ==
  consume(b, [r \in Resources |-> IF after[r] > before[r] THEN after[r] - before[r] ELSE 0])

EffectiveLimit(queryLimit, remaining) ==
  LET bounded == Min({remaining, MaxInt})
  IN IF queryLimit < 0 THEN bounded ELSE Min({queryLimit, bounded})

ApiLimit(limit) == IF limit < 0 THEN NoLimit ELSE Min({limit, MaxInt})

SetLimits(x, limit) == [x EXCEPT !.limits = [r \in Resources |-> ApiLimit(limit[r])]]

EnterScope ==
  /\ calls < MaxCalls
  /\ \E b \in Budgets :
       /\ \A i \in DOMAIN scopes : scopes[i].budget # b
       /\ scopes' = Append(scopes, [budget |-> b, previous |-> active])
       /\ active' = b
  /\ calls' = calls + 1 /\ answer' = [op |-> None] /\ UNCHANGED <<solver, used, spent>>

LeaveScope ==
  /\ scopes # <<>>
  /\ scopes' = Front(scopes) /\ active' = Last(scopes).previous
  /\ UNCHANGED <<solver, used, spent, calls>> /\ answer' = [op |-> None]

-----------------------------------------------------------------------------
(* Solves.  x is the solver when the search begins; Done(_, _) is what the    *)
(* caller records of an outcome.                                              *)

Answered(s, assumed, exact, status) ==
  answer' = [op |-> "solve", solver |-> s, status |-> status, assumed |-> assumed, exact |-> exact]

(* solveCadicalWithResourceLimits *)
SolveCadical(s, x, assumed, limit, cumulative, Done(_, _)) ==
  LET budget == IF cumulative THEN active ELSE None
      bounded == IF budget = None THEN limit
                 ELSE [r \in Resources |-> EffectiveLimit(limit[r], Remaining(budget, r))]
      y == SetLimits(x, bounded)
  IN IF budget # None /\ Exhausted(budget)
     THEN /\ solver' = [solver EXCEPT ![s] = Done(x, "unknown")]
          /\ Answered(s, assumed, FALSE, "unknown") /\ UNCHANGED <<used, spent>>
     ELSE \E o \in Outcomes(y.clauses, y.pending, y.limits) :
            LET z == Searched(y, o)
            IN /\ solver' = [solver EXCEPT ![s] = Done(z, o.status)]
               /\ Answered(s, assumed, ~cumulative, o.status)
               /\ used' = IF budget = None THEN used ELSE Charge(budget, x.stats, z.stats)
               /\ spent' = IF ~cumulative \/ scopes = <<>> THEN spent
                           ELSE [spent EXCEPT ![Last(scopes).budget] =
                                   [r \in Resources |-> @[r] + o.work[r]]]

(* Glucose and Kissat: no budget; Glucose drops its limits after the solve. *)
SolveOther(s, assumed, limit) ==
  /\ solver[s].kind = "kissat" => ~solver[s].searched
  /\ \E o \in Outcomes(solver[s].clauses, {Internal(l) : l \in assumed}, limit) :
       /\ solver' = [solver EXCEPT ![s] = Searched(@, o)]
       /\ Answered(s, assumed, limit = Unlimited, o.status)
  /\ UNCHANGED <<used, spent>>

NoRecord(x, status) == x
Forgotten(x) == [x EXCEPT !.assumptions = {}, !.status = "unknown"]

(* The assumptions are kept for failedAssumptions after unsat only. *)
Recorded(x, status) ==
  [x EXCEPT !.status = status, !.assumptions = IF status = "unsat" THEN @ ELSE {}]

Call == calls < MaxCalls /\ calls' = calls + 1 /\ UNCHANGED <<active, scopes>>

(* Keeps what the last assumption solve recorded. *)
SolveStatusKeepingRecord ==
  /\ Call
  /\ \E s \in Solvers :
       IF solver[s].kind = "cadical"
       THEN SolveCadical(s, solver[s], {}, Unlimited, FALSE, NoRecord)
       ELSE SolveOther(s, {}, Unlimited)

SolveStatus ==
  /\ Call
  /\ \E s \in Solvers :
       IF solver[s].kind = "cadical"
       THEN SolveCadical(s, Forgotten(solver[s]), {}, Unlimited, FALSE, NoRecord)
       ELSE SolveOther(s, {}, Unlimited)

SolveWithResourceLimits ==
  /\ Call
  /\ \E s \in Solvers, limit \in QueryLimits :
       /\ "ticks" \in Resources => limit["ticks"] = NoLimit
       /\ IF solver[s].kind = "cadical"
          THEN SolveCadical(s, Forgotten(solver[s]), {}, limit, TRUE, NoRecord)
          ELSE SolveOther(s, {}, limit)

(* An exhausted budget answers before the assumptions are enqueued. *)
SolveWithAssumptions ==
  /\ Call
  /\ \E s \in Solvers, assumed \in AssumptionSets, limit \in QueryLimits :
     LET given == [solver[s] EXCEPT !.assumptions = assumed, !.status = "unknown"]
         cumulative == limit # Unlimited
     IN CASE solver[s].kind = "kissat" ->
               assumed = {} /\ SolveOther(s, assumed, Unlimited)
          [] solver[s].kind = "glucose" -> SolveOther(s, assumed, limit)
          [] cumulative /\ active # None /\ Exhausted(active) ->
               /\ solver' = [solver EXCEPT ![s] = Forgotten(given)]
               /\ Answered(s, assumed, FALSE, "unknown") /\ UNCHANGED <<used, spent>>
          [] OTHER ->
               SolveCadical(s, [CountAndReserve(given, assumed) EXCEPT
                                   !.pending = @ \cup InternalClause(assumed)],
                            assumed, limit, cumulative, Recorded)

(* What the solver has to say of the assumptions right after a solve; the    *)
(* question is undefined for a CaDiCaL solver that did not end in unsat.     *)
failedAssumptions ==
  /\ answer.op = "solve"
  /\ LET s == answer.solver
         x == solver[s]
         core == IF answer.status = "unsat" THEN {x.core} ELSE SUBSET InternalClause(x.assumptions)
     IN \E failed \in core :
        /\ x.kind # "kissat"
        /\ answer' = [op |-> "failed", solver |-> s, status |-> answer.status,
             failed |->
               IF x.kind = "glucose" THEN {l \in answer.assumed : Internal(l) \in x.core}
               ELSE IF x.status # "unsat" THEN {}
               ELSE {l \in x.assumptions : Internal(l) \in failed}]
  /\ UNCHANGED <<solver, active, scopes, used, spent, calls>>

(* The value of a literal in the model. *)
getLiteralValue(s, l) ==
  IF l \in {0, 1} THEN l = 1
  ELSE (Var(l) + 1 \in solver[s].model) = (l > 0)

-----------------------------------------------------------------------------
(* Building *)

NewSolver(kind) ==
  [kind |-> kind, numVars |-> 0, reserved |-> 0, clauses |-> {}, pending |-> {},
   limits |-> Unlimited, stats |-> Zero, assumptions |-> {}, status |-> "unknown",
   model |-> {}, core |-> {}, searched |-> FALSE, given |-> {}, named |-> {}]

(* A solver that is no longer needed is destroyed and another one created. *)
Recreate ==
  /\ Call
  /\ \E s \in Solvers, kind \in Backends : solver' = [solver EXCEPT ![s] = NewSolver(kind)]
  /\ answer' = [op |-> None] /\ UNCHANGED <<used, spent>>

newVar ==
  /\ Call
  /\ \E s \in Solvers :
     LET x == Reserve(solver[s], solver[s].numVars + 1)
     IN /\ solver' = [solver EXCEPT ![s] = [x EXCEPT !.numVars = @ + 1,
                                                      !.named = @ \cup {x.numVars}]]
        /\ answer' = [op |-> "newVar", variable |-> x.numVars, before |-> x.named]
  /\ UNCHANGED <<used, spent>>

reserveAdditionalVars ==
  /\ Call
  /\ \E s \in Solvers, n \in 1..2 :
       solver' = [solver EXCEPT ![s] = Reserve(@, @.numVars + n)]
  /\ answer' = [op |-> None] /\ UNCHANGED <<used, spent>>

addClause ==
  /\ Call
  /\ \E s \in Solvers, c \in Clauses :
       /\ solver[s].kind = "kissat" => ~solver[s].searched
       /\ solver' = [solver EXCEPT ![s] =
                       [CountAndReserve(@, c) EXCEPT !.clauses = @ \cup {InternalClause(c)},
                          !.given = @ \cup {c}, !.named = @ \cup NamedIn(c)]]
  /\ answer' = [op |-> None] /\ UNCHANGED <<used, spent>>

-----------------------------------------------------------------------------
Init ==
  /\ \E kind \in Backends : solver = [s \in Solvers |-> NewSolver(kind)]
  /\ active = None /\ scopes = <<>>
  /\ used = [b \in Budgets |-> Zero] /\ spent = used
  /\ answer = [op |-> None] /\ calls = 0

Next ==
  \/ EnterScope \/ LeaveScope
  \/ SolveStatus \/ SolveWithResourceLimits \/ SolveWithAssumptions \/ failedAssumptions
  \/ Recreate \/ newVar \/ reserveAdditionalVars \/ addClause

Spec == Init /\ [][Next]_vars

-----------------------------------------------------------------------------
(* Every component has its type, and a CaDiCaL solver has room for all       *)
(* variables it counts.                                                      *)
TypeOK ==
  /\ active \in Budgets \cup {None}
  /\ \A s \in Solvers : /\ solver[s].kind \in Backends
                        /\ solver[s].kind = "cadical" => solver[s].numVars <= solver[s].reserved
  /\ \A b \in Budgets, r \in Resources : used[b][r] \in 0..BudgetLimit[b][r]

(* An answer is about the clauses that were added and the assumptions of this *)
(* very call: the values read back satisfy them, or nothing does.  Renumbered *)
(* literals, or assumptions of a call that the budget cut short, would make   *)
(* the answer one to another question.                                        *)
AnswersMatchTheCall ==
  answer.op = "solve" =>
    LET s == answer.solver
        asked == solver[s].given \cup {{l} : l \in answer.assumed}
        Holds(v, c) == \E l \in c : (Var(l) + 1 \in v) = (l > 0)
    IN CASE answer.status = "sat" -> \A c \in asked : \E l \in c : getLiteralValue(s, l)
         [] answer.status = "unsat" -> ~\E v \in SUBSET Inner : \A c \in asked : Holds(v, c)
         [] OTHER -> TRUE

(* An exact solve is decided, whatever limits earlier solves of the same      *)
(* solver had and however little is left of the active budget.                *)
ExactSolvesDecide == answer.op = "solve" /\ answer.exact => answer.status # "unknown"

(* A budget has been charged exactly the work of the limited searches in its  *)
(* innermost scope, up to its limit: nested scopes, solvers that are shared   *)
(* by several budgets and solvers that are recreated do not blur it.          *)
BudgetsAreCharged ==
  \A b \in Budgets, r \in Resources : used[b][r] = Min({spent[b][r], BudgetLimit[b][r]})

(* "many individually bounded queries cannot make the output's total SAT work *)
(* unbounded": the work in the scope of a budget stays within its limit, but  *)
(* for how far one search runs past it.                                       *)
WorkIsBounded ==
  \A b \in Budgets, r \in Resources : spent[b][r] <= BudgetLimit[b][r] + Overshoot[r]

(* Failed assumptions are reported only of a solve that ended in unsat, and   *)
(* together with the clauses they have no model: PDR learns them as a core.   *)
FailedIsACore ==
  answer.op = "failed" /\ answer.failed # {} =>
    /\ answer.status = "unsat"
    /\ ModelsOf(solver[answer.solver].clauses, InternalClause(answer.failed)) = {}

(* newVar returns a variable that no clause of the solver names and no call   *)
(* has returned: the Tseitin variables of an encoder are its own.             *)
NewVariablesAreFresh == answer.op = "newVar" => answer.variable \notin answer.before

\* An answer is one to the question of its own call, whatever earlier calls,
\* budgets and limits left behind (SATSolverWrapper).
SolverIsRight ==
  /\ TypeOK /\ AnswersMatchTheCall /\ ExactSolvesDecide /\ FailedIsACore
  /\ NewVariablesAreFresh /\ BudgetsAreCharged /\ WorkIsBounded
=============================================================================
