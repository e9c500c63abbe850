--------------------------- MODULE ResetFrontier ---------------------------
(***************************************************************************)
(* Whether a state cube can be met some steps after the reset bootstrap,   *)
(* answered from remembered unreachable cores, from the relations known of *)
(* the frontier, from two prechecks and from cached solvers.  A question   *)
(* is a list of items, a step and a cube each, and every item goes through *)
(* the stages of its plan until it is decided.                             *)
(*                                                                         *)
(* A solver is the key it was built for and the models of its clauses; the *)
(* clauses never change, and a cube is given as assumptions.  A limited    *)
(* solve may end without an answer, which counts as reachable.             *)
(***************************************************************************)
EXTENDS UnrolledQueries

CONSTANTS Problems,      \* the proof problems a context may be made for
          Kissat,        \* Kissat is the selected solver
          Cubes,         \* the cubes of a problem that are asked about
          Batches,       \* the sets of cubes that are asked about together
          MaxSteps,      \* the deepest post-bootstrap step
          MaxQuestions,  \* the questions of one behaviour
          CoreLimit, SolverLimit, BlockerLimit, RefinementLimit,
          SparseLimit, LocalLimit

VARIABLES problem,       \* the problem of the context
          cores,         \* cores[f]: the remembered unreachable cores of frame f
          solvers,       \* the cached solvers of one target frame
          prefixes,      \* the cached solvers of a whole prefix
          query,         \* the question being answered
          answer,        \* the last answer
          asked          \* the questions so far

vars == <<problem, cores, solvers, prefixes, query, answer, asked>>

\* resetFrontierAssumptionSolvesDisabled reads the environment of the run.
Assumptions == problem.assumptions

boot == resetBootstrapFrames(problem)
Frames == 0..(resetBootstrapFrames(problem) + MaxSteps)

-----------------------------------------------------------------------------
(* Remembered cores *)

FindCachedCore(f, cube) == {i \in DOMAIN cores[f] : cores[f][i] \subseteq cube}

WithCore(list, core) ==
  IF core = {} \/ \E i \in DOMAIN list : list[i] \subseteq core THEN list
  ELSE LET kept == SelectSeq(list, LAMBDA c : ~(core \subseteq c))
       IN Append(IF Len(kept) >= CoreLimit THEN Tail(kept) ELSE kept, core)

Remember(f, core) == [cores EXCEPT ![f] = WithCore(@, core)]

(* The first remembered core of every earlier frame that the cube contains. *)
PreviousBlockers(coi, cube, last) ==
  {<<f, cores[f][Min(FindCachedCore(f, {l \in cube : l[1] \in coi.symbols}))]>> :
     f \in {f \in 0..(last - 1) :
              f \in Frames /\ FindCachedCore(f, {l \in cube : l[1] \in coi.symbols}) # {}}}

-----------------------------------------------------------------------------
(* Solvers *)

(* The one solver that is built. *)
BuildSolver(cube, last, targetFrames) ==
  UNION {{[frame |-> last, key |-> SymbolsOf(cube), symbols |-> coi.symbols,
           models |-> UNION {{<<f, v>> : v \in layers[f + 1]} : f \in targetFrames}] :
          layers \in Models(problem, coi, last, boot, PreviousBlockers(coi, cube, last))} :
         coi \in {StateCubeReachabilityCoi(problem, last, SymbolsOf(cube), targetFrames)}}

buildResetFrontierSolver(cube, last) == BuildSolver(cube, last, {last})
buildPrefixSolver(cube, last) == BuildSolver(cube, last, boot..last)

(* Another solver of the frame that has variables for the symbols of the cube. *)
Reusable(cache, cube, last) ==
  {s \in cache : s.frame = last /\ SymbolsOf(cube) \subseteq s.symbols}

(* The solver for a cube, and the cache afterwards. *)
Cached(cache, cube, last, Build(_, _)) ==
  LET exact == {s \in cache : s.frame = last /\ s.key = SymbolsOf(cube)}
      wider == Reusable(cache, cube, last)
      kept  == IF Cardinality(cache) >= SolverLimit THEN {} ELSE cache
  IN IF exact # {} THEN {<<s, cache>> : s \in exact}
     ELSE IF wider # {} THEN {<<s, cache>> : s \in wider}
     ELSE {<<s, kept \cup {s}>> : s \in Build(cube, last)}

Sat(s, f, cube) == \E m \in s.models : m[1] = f /\ Agrees(m[2], cube)

(* failedAssumptions: some subset of the cube that has no model. *)
FailedCores(s, f, cube) == {c \in SUBSET cube : ~Sat(s, f, c)}

(* The failed core without the literals that exact deletion can drop. *)
MinimizedCores(s, f, cube) ==
  UNION {{c \in SUBSET (IF failed = {} THEN cube ELSE failed) :
            /\ c # {} /\ ~Sat(s, f, c)
            /\ \A l \in c : c = {l} \/ Sat(s, f, c \ {l})} : failed \in FailedCores(s, f, cube)}

-----------------------------------------------------------------------------
(* A question *)

NoQuery == [kind |-> None]
Silent == [kind |-> None, by |-> None, unreachable |-> FALSE]

AtPlan(step, prechecks) ==
  <<"cached", "known">>
    \o (IF step # 0 /\ prechecks THEN <<"relaxed", "summary">> ELSE <<>>) \o <<"solve">>
OneShotPlan(step, prechecks) ==
  <<"known", "cached">>
    \o (IF step # 0 /\ prechecks THEN <<"relaxed", "summary">> ELSE <<>>) \o <<"solve">>

Plan(kind, step, prechecks) ==
  CASE kind \in {"at", "each"} -> AtPlan(step, prechecks)
    [] kind = "oneshot"        -> OneShotPlan(step, prechecks)
    [] kind = "collect"        -> <<"known", "cached", "keep">>
    [] kind = "sift"           -> IF step = 0 THEN <<"keep">> ELSE <<"summary", "keep">>
    [] kind = "rest"           -> <<"solve">>
    [] OTHER                   -> <<"known", "cached", "solve">>

NewQuery(kind, items, prechecks, limited, solver) ==
  [kind |-> kind, items |-> items, work |-> items,
   plan |-> Plan(kind, items[1].step, prechecks), prechecks |-> prechecks,
   limited |-> limited, kept |-> <<>>, solver |-> solver,
   blockers |-> {}, round |-> 0, frontier |-> {}]

Item(step, cube) == [step |-> step, cube |-> cube]
StepItems(cube, last) == [i \in 1..(last + 1) |-> Item(i - 1, cube)]

Stage == query.plan[1]
step == query.work[1].step
cube == query.work[1].cube
frame == boot + step

(* The kind of the plan for the next phase of the items that are kept. *)
NextPhase(q) ==
  CASE q.kind = "collect" -> "sift"
    [] q.kind = "sift" -> IF ~Assumptions \/ Len(q.kept) <= SparseLimit THEN "each" ELSE "rest"
    [] OTHER -> None

Finish(how) ==
  /\ answer' = [kind |-> query.kind, items |-> query.items, unreachable |-> how = "unreachable",
                by |-> how, step |-> step, cube |-> cube]
  /\ query' = NoQuery

Proceed == query' = [query EXCEPT !.plan = Tail(@)] /\ UNCHANGED answer

(* The head item is settled; q has it removed from work. *)
Advance(q) ==
  IF q.work # <<>>
  THEN /\ query' = [q EXCEPT !.plan = Plan(q.kind, q.work[1].step, q.prechecks)]
       /\ UNCHANGED answer
  ELSE IF q.kept = <<>> THEN Finish("unreachable")
  ELSE /\ query' = [q EXCEPT !.kind = NextPhase(q), !.work = q.kept, !.kept = <<>>,
                             !.prechecks = FALSE,
                             !.plan = Plan(NextPhase(q), q.kept[1].step, FALSE)]
       /\ UNCHANGED answer

Unreachable == Advance([query EXCEPT !.work = Tail(@)])

Ask ==
  /\ query = NoQuery /\ asked < MaxQuestions
  /\ asked' = asked + 1 /\ answer' = Silent /\ UNCHANGED <<problem, cores>>

AskAt ==
  /\ Ask /\ UNCHANGED <<solvers, prefixes>>
  /\ \E c \in Cubes[problem], s \in 0..MaxSteps, prechecks \in BOOLEAN, limited \in BOOLEAN :
       /\ s = 0 => ~prechecks
       /\ s > 0 => ~limited
       /\ query' = NewQuery("at", <<Item(s, c)>>, prechecks, limited, None)

AskOneShot ==
  /\ Ask /\ UNCHANGED <<solvers, prefixes>>
  /\ \E c \in Cubes[problem], s \in 0..MaxSteps, prechecks \in BOOLEAN :
       /\ s = 0 => ~prechecks
       /\ query' = NewQuery("oneshot", <<Item(s, c)>>, prechecks, FALSE, None)

AskCore ==
  /\ Ask /\ UNCHANGED <<solvers, prefixes>>
  /\ \E c \in Cubes[problem], s \in 0..MaxSteps :
       query' = NewQuery("core", <<Item(s, c)>>, FALSE, FALSE, None)

AskWithin ==
  /\ Ask /\ UNCHANGED <<solvers, prefixes>>
  /\ \E c \in Cubes[problem], last \in 0..MaxSteps :
       query' = NewQuery("collect", StepItems(c, last), FALSE, FALSE, None)

(* supportCubeForAssignmentCubes: only its symbols and one of its values count. *)
SupportCube(batch) ==
  {CHOOSE l \in UNION batch : l[1] = x : x \in SymbolsOf(UNION batch)}

BatchItems(batch, steps) ==
  FoldLeft(LAMBDA items, s : items \o [i \in 1..Cardinality(batch) |->
                                         Item(s, SetToSeq(batch)[i])],
           <<>>, steps)

AskAnyWithin ==
  /\ Ask /\ UNCHANGED solvers
  /\ \E batch \in Batches[problem], last \in 0..MaxSteps :
     \E hit \in Cached(prefixes, SupportCube(batch), boot + last, buildPrefixSolver) :
       /\ prefixes' = hit[2]
       /\ query' = NewQuery("anyWithin",
                            BatchItems(batch, [i \in 1..(last + 1) |-> i - 1]),
                            FALSE, FALSE, hit[1])

AskAnyAt ==
  /\ Ask /\ UNCHANGED prefixes
  /\ \E batch \in Batches[problem], s \in 0..MaxSteps :
     \E hit \in Cached(solvers, SupportCube(batch), boot + s, buildResetFrontierSolver) :
       /\ solvers' = hit[2]
       /\ query' = NewQuery("anyAt", BatchItems(batch, <<s>>), FALSE, TRUE, hit[1])

PrimeSolver ==
  /\ Ask /\ UNCHANGED <<query, prefixes>>
  /\ \E c \in Cubes[problem], s \in 0..MaxSteps :
     \E hit \in Cached(solvers, c, boot + s, buildResetFrontierSolver) : solvers' = hit[2]

(* The states met in reality, frame by frame: the runs of the design from any *)
(* physical start state.                                                      *)
MetAt(p) ==
  LET all == AllSymbols(p)
      physical == {v \in SUBSET all : /\ ComplementsHold(p, all, v)
                                      /\ EqualitiesHold(p, all, v)
                                      /\ RailsValid(p, all, v)}
      start == resetBootstrapFrames(p)
      Driven(f) == {v \in physical : start > 0 => ResetAt(p, start, f, v)}
      First(f) == {v \in Driven(f) : f > 0 \/ start > 0 \/ Assigned(p.initial, all, v)}
  IN Forward(p, [f \in 0..(start + MaxSteps) |-> DOMAIN p.next], First, start + MaxSteps)

Met == {[of |-> p, at |-> MetAt(p)] : p \in Problems}
Possible(f, c) == \E m \in Met : m.of = problem /\ \E v \in m.at[f + 1] : Agrees(v, c)

(* Records a cube that the caller has proved unreachable. *)
RememberProved ==
  /\ query = NoQuery /\ asked < MaxQuestions
  /\ \E c \in Cubes[problem], s \in 0..MaxSteps :
       /\ ~Possible(boot + s, c)
       /\ cores' = Remember(boot + s, c)
  /\ asked' = asked + 1 /\ answer' = Silent
  /\ UNCHANGED <<problem, solvers, prefixes, query>>

-----------------------------------------------------------------------------
(* The stages of an item *)

At(stage) == query # NoQuery /\ Stage = stage

(* Takes a core of any frame. *)
LookUpAnyFrame ==
  /\ At("cached")
  /\ IF \E f \in Frames : FindCachedCore(f, cube) # {} THEN Unreachable ELSE Proceed
  /\ UNCHANGED <<problem, cores, solvers, prefixes, asked>>

LookUpCore ==
  /\ At("cached")
  /\ IF FindCachedCore(frame, cube) # {} THEN Unreachable ELSE Proceed
  /\ UNCHANGED <<problem, cores, solvers, prefixes, asked>>

CompareWithKnown ==
  /\ At("known")
  /\ LET found == KnownConflictCores(problem, cube, step)
     IN \/ found = {} /\ Proceed /\ UNCHANGED cores
        \/ \E core \in found : cores' = Remember(frame, core) /\ Unreachable
  /\ UNCHANGED <<problem, solvers, prefixes, asked>>

(* A fresh query with the cube as unit clauses, given up when it is not local. *)
RelaxedPrecheck ==
  /\ At("relaxed")
  /\ \E s \in buildResetFrontierSolver(cube, frame) :
     LET local == Cardinality(s.symbols) <= LocalLimit
     IN \/ local /\ ~Sat(s, frame, cube) /\ cores' = Remember(frame, cube) /\ Unreachable
        \/ (~local \/ Kissat \/ Sat(s, frame, cube)) /\ Proceed /\ UNCHANGED cores
  /\ UNCHANGED <<problem, solvers, prefixes, asked>>

KeepItem ==
  /\ At("keep")
  /\ Advance([query EXCEPT !.work = Tail(@), !.kept = Append(@, query.work[1])])
  /\ UNCHANGED <<problem, cores, solvers, prefixes, asked>>

-----------------------------------------------------------------------------
(* The summary precheck: the frontier as the first frame, refined by cores. *)

AppendBlocker(blockers, core) ==
  IF Cardinality(blockers) >= BlockerLimit \/ \E b \in blockers : b \subseteq core
  THEN blockers ELSE blockers \cup {core}

AppendBlockers(blockers, new) ==
  FoldLeft(AppendBlocker, blockers, new)

SummaryCoi == ResetSummaryCoi(problem, step, SymbolsOf(cube))
SummaryModels ==
  UNION {Models(problem, coi, step, 0,
                {<<0, b>> : b \in query.blockers}
                  \cup {<<step, {<<l[1], ~l[2]>>}>> : l \in cube}) : coi \in {SummaryCoi}}

(* The frontier cores whose symbols the summary has. *)
StartSummary ==
  /\ At("summary")
  /\ IF ~Assumptions \/ boot = 0 \/ step = 0 \/ ~Kissat THEN Proceed
     ELSE /\ query' = [query EXCEPT !.plan = <<"summarize">> \o Tail(@), !.round = 0,
                         !.blockers = AppendBlockers({}, SelectSeq(cores[boot],
                             LAMBDA c : SymbolsOf(c) \subseteq SummaryCoi.symbols))]
          /\ UNCHANGED answer
  /\ UNCHANGED <<problem, cores, solvers, prefixes, asked>>

(* Unsat proves the cube unreachable, no answer gives up, a model names a *)
(* frontier cube over the states the summary needs in its first frame.    *)
SolveSummary ==
  /\ At("summarize")
  /\ \E models \in SummaryModels :
     LET GiveUp == Proceed /\ UNCHANGED cores
     IN \/ GiveUp
        \/ models[1] = {} /\ cores' = Remember(frame, cube) /\ Unreachable
        \/ \E v \in models[1] :
             IF query.round = RefinementLimit \/ Cardinality(query.blockers) >= BlockerLimit
             THEN GiveUp
             ELSE /\ query' = [query EXCEPT
                        !.plan = <<"refine">> \o Tail(@),
                        !.frontier = {<<x, x \in v>> : x \in SummaryCoi.start}]
                  /\ UNCHANGED <<cores, answer>>
  /\ UNCHANGED <<problem, solvers, prefixes, asked>>

(* The blocker is added; a single literal makes the others worth a try. *)
Refined(core) ==
  [query EXCEPT !.blockers = AppendBlocker(@, core), !.round = @ + 1,
     !.plan = (IF Cardinality(core) = 1 /\ Cardinality(AppendBlocker(query.blockers, core))
                                             < BlockerLimit
               THEN <<"singletons">> ELSE <<"summarize">>) \o Tail(@)]

(* proveResetSummaryFrontierCubeUnreachable *)
RefineSummary ==
  /\ At("refine")
  /\ LET target == query.frontier
         known == KnownConflictCores(problem, target, 0)
         cached == FindCachedCore(boot, target)
         GiveUp == Proceed /\ UNCHANGED cores
         Block(core) == query' = Refined(core) /\ UNCHANGED answer
     IN IF target = {} THEN GiveUp /\ UNCHANGED solvers
        ELSE IF known # {}
        THEN \E core \in known : cores' = Remember(boot, core) /\ Block(core)
                                 /\ UNCHANGED solvers
        ELSE IF cached # {}
        THEN Block(cores[boot][Min(cached)]) /\ UNCHANGED <<cores, solvers>>
        ELSE \E hit \in Cached(solvers, target, boot, buildResetFrontierSolver) :
               /\ solvers' = hit[2]
               /\ \/ GiveUp
                  \/ \E c \in FailedCores(hit[1], boot, target) :
                       LET core == IF c = {} THEN target ELSE c
                       IN cores' = Remember(boot, core) /\ Block(core)
  /\ UNCHANGED <<problem, prefixes, asked>>

(* collectResetSummarySingletonFrontierBlockers: the literals for which the *)
(* limited solve answers in time.                                           *)
BlockSingletons ==
  /\ At("singletons")
  /\ \E hit \in Cached(solvers, query.frontier, boot, buildResetFrontierSolver) :
     \E proved \in SUBSET {l \in query.frontier : ~Sat(hit[1], boot, {l})} :
       LET new == SetToSeq({{l} : l \in {l \in proved : {l} \notin query.blockers}})
       IN /\ Cardinality(query.blockers) + Len(new) <= BlockerLimit
          /\ solvers' = hit[2]
          /\ cores' = [cores EXCEPT ![boot] = FoldLeft(WithCore, @, new)]
          /\ query' = [query EXCEPT !.blockers = AppendBlockers(@, new),
                                    !.plan = <<"summarize">> \o Tail(@)]
  /\ UNCHANGED <<problem, prefixes, answer, asked>>

-----------------------------------------------------------------------------
(* The exact solve of an item *)

(* The outcome of a solve: the core that is remembered and what follows. *)
Settle(s, limited, full) ==
  \/ Sat(s, frame, cube) /\ Finish(IF SymbolsOf(cube) \subseteq s.key THEN "exact" ELSE "reused")
     /\ UNCHANGED cores
  \/ limited /\ Finish("unknown") /\ UNCHANGED cores
  \/ \E c \in FailedCores(s, frame, cube) :
       /\ cores' = Remember(frame, IF c = {} /\ full THEN cube ELSE c)
       /\ Unreachable

(* The cached solver of the target frame; a step after the frontier is limited. *)
SolveCached ==
  /\ At("solve") /\ query.kind \in {"at", "each"} /\ Assumptions
  /\ \E hit \in Cached(solvers, cube, frame, buildResetFrontierSolver) :
       solvers' = hit[2] /\ Settle(hit[1], query.limited \/ step # 0, step = 0)
  /\ UNCHANGED <<problem, prefixes, asked>>

(* Assumption solves disabled: the cube as unit clauses of a fresh solver. *)
SolveUnitClauses ==
  /\ At("solve") /\ query.kind \in {"at", "each", "oneshot"} /\ ~Assumptions
  /\ \E s \in buildResetFrontierSolver(cube, frame) :
     LET limited == Kissat /\ (step # 0 \/ query.kind # "oneshot")
     IN \/ Sat(s, frame, cube) /\ Finish("exact") /\ UNCHANGED cores
        \/ limited /\ Finish("unknown") /\ UNCHANGED cores
        \/ ~Sat(s, frame, cube) /\ cores' = Remember(frame, cube) /\ Unreachable
  /\ UNCHANGED <<problem, solvers, prefixes, asked>>

SolveOneShot ==
  /\ At("solve") /\ query.kind = "oneshot" /\ Assumptions
  /\ \E s \in buildResetFrontierSolver(cube, frame) : Settle(s, FALSE, TRUE)
  /\ UNCHANGED <<problem, solvers, prefixes, asked>>

(* The remaining steps of one cube, all in the solver of the longest prefix. *)
SolvePrefix ==
  /\ At("solve") /\ query.kind = "rest"
  /\ \E hit \in Cached(prefixes, cube, boot + Len(query.items) - 1, buildPrefixSolver) :
       prefixes' = hit[2] /\ Settle(hit[1], step # 0, TRUE)
  /\ UNCHANGED <<problem, solvers, asked>>

(* A batch is solved in the solver that was fetched for it. *)
SolveBatch ==
  /\ At("solve") /\ query.kind \in {"anyWithin", "anyAt"}
  /\ Settle(query.solver, query.limited \/ step # 0, TRUE)
  /\ UNCHANGED <<problem, solvers, prefixes, asked>>

ExtractCore ==
  /\ At("solve") /\ query.kind = "core"
  /\ IF ~Assumptions THEN Finish("disabled") /\ UNCHANGED <<cores, solvers>>
     ELSE \E hit \in Cached(solvers, cube, frame, buildResetFrontierSolver) :
            /\ solvers' = hit[2]
            /\ IF Sat(hit[1], frame, cube)
               THEN /\ Finish(IF SymbolsOf(cube) \subseteq hit[1].key
                              THEN "exact" ELSE "reused")
                    /\ UNCHANGED cores
               ELSE \E core \in MinimizedCores(hit[1], frame, cube) :
                      cores' = Remember(frame, core) /\ Unreachable
  /\ UNCHANGED <<problem, prefixes, asked>>

-----------------------------------------------------------------------------
Init ==
  /\ problem \in Problems
  /\ cores = [f \in Frames |-> <<>>]
  /\ solvers = {} /\ prefixes = {}
  /\ query = NoQuery /\ answer = Silent /\ asked = 0

Work ==
  \/ LookUpCore \/ CompareWithKnown \/ RelaxedPrecheck \/ KeepItem
  \/ StartSummary \/ SolveSummary \/ RefineSummary \/ BlockSingletons
  \/ SolveCached \/ SolveUnitClauses \/ SolveOneShot \/ SolvePrefix \/ SolveBatch
  \/ ExtractCore

Next ==
  \/ AskAt \/ AskOneShot \/ AskCore \/ AskWithin \/ AskAnyWithin \/ AskAnyAt
  \/ PrimeSolver \/ RememberProved \/ Work

Spec == Init /\ [][Next]_vars /\ WF_vars(Work)

-----------------------------------------------------------------------------
(* Every component has its type, and remembered cores are within their limit. *)
TypeOK ==
  /\ problem \in Problems
  /\ DOMAIN cores = Frames
  /\ \A f \in Frames : /\ Len(cores[f]) <= CoreLimit
                       /\ \A i \in DOMAIN cores[f] : cores[f][i] # {}
  /\ Cardinality(solvers) <= SolverLimit /\ Cardinality(prefixes) <= SolverLimit
  /\ asked \in 0..MaxQuestions
  /\ query = NoQuery \/ (query.work # <<>> /\ query.plan # <<>>
                         /\ query.round <= RefinementLimit)

(* A core that is remembered for a frame is in no run of the design at that  *)
(* frame, whichever stage found it: rememberResetFrontierUnreachableCore is  *)
(* the source of all later answers, blockers and refinements.                *)
CoresAreUnreachable ==
  \A f \in Frames : \A i \in DOMAIN cores[f] : ~Possible(f, cores[f][i])

(* The answer false is a proof: no item of the question occurs in any run,   *)
(* although cores are evicted, solvers reused for other cubes and solves     *)
(* given up.                                                                 *)
UnreachableIsSound ==
  answer.unreachable =>
    \A i \in DOMAIN answer.items :
      ~Possible(boot + answer.items[i].step, answer.items[i].cube)

(* No remembered core of a frame contains another: the lookup of             *)
(* findCachedResetFrontierUnreachableCore never meets a redundant one.       *)
CoresAreIrredundant ==
  \A f \in Frames : \A i, j \in DOMAIN cores[f] :
    cores[f][i] \subseteq cores[f][j] => i = j

(* A model found by a solver that was built for the symbols of the cube is   *)
(* real: the cone of influence leaves out nothing that matters.              *)
OwnSolversAreExact ==
  answer # Silent /\ answer.by = "exact" => Possible(boot + answer.step, answer.cube)

(* The parity union-find misses no conflict: a cube that reaches a solver at *)
(* the frontier is consistent with the known assignments and relations.      *)
KnownConflictsAreFound ==
  query # NoQuery /\ query.plan[1] = "solve" /\ step = 0 =>
    \E v \in SUBSET problem.state :
      /\ Agrees(v, cube) /\ Assigned(KnownAssignment(problem), problem.state, v)
      /\ ComplementsHold(problem, problem.state, v)
      /\ EqualitiesHold(problem, problem.state, v)

\* Remembered cores, cached solvers and answers are true of every run of the
\* design (ResetFrontierContext).
FrontierIsRight ==
  /\ TypeOK /\ CoresAreUnreachable /\ UnreachableIsSound /\ CoresAreIrredundant
  /\ OwnSolversAreExact /\ KnownConflictsAreFound
=============================================================================
