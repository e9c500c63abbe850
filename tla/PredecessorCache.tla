------------------------- MODULE PredecessorCache --------------------------
(***************************************************************************)
(* How the PDR engine answers its frame queries without solving each one   *)
(* from nothing.  Output batches are runs of the engine, one after the     *)
(* other, over one transition model.  They share a solver and a store of   *)
(* answers for F[0], and for every higher frame a pool of solvers in which *)
(* the facts of one run are guarded by an activation literal.  A run has   *)
(* its own store, its own solver for bad states and its own small solvers  *)
(* for generalization probes.                                              *)
(*                                                                         *)
(* A solver is the surface of symbols it has variables for and the facts   *)
(* that hold under the assumptions a query of the present run makes; the   *)
(* facts of a retired context are satisfied by the negated activation      *)
(* literal and are dropped.  A fact is the set of states it admits.  A     *)
(* cube or clause is a partial valuation; the relations between symbols    *)
(* that close every surface are part of the valuations in States.          *)
(***************************************************************************)
EXTENDS Integers, Sequences, FiniteSets, SequencesExt, Functions

CONSTANTS Symbols,        \* the state symbols
          StartStates,    \* the states of F[0]
          NextValue,      \* NextValue[x][s]: the next value of symbol x in state s
          Support,        \* Support[x]: the symbols the next value of x reads
          Top,            \* the frames are F[0] .. F[Top]
          Targets,        \* the cubes the engine asks about
          Asked,          \* the pairs of a level and a purpose of its queries
          Learnable,      \* the clauses it may learn, as the cubes they exclude
          Seeds,          \* the clauses every frame above F[0] starts with
          Runs,           \* the number of output batches
          Property,       \* Property[r]: the states in which the outputs of run r agree
          Family,         \* Family[r]: the symbols that property reads
          PathLocal,      \* PathLocal[r]: the property is the strict dual-rail equality
          QueryBudget,    \* the predecessor queries a run may solve
          ExactLimit, UnsatLimit, PoolLimit, ContextLimit

VARIABLES run,            \* the output batch being proved
          frames,         \* frames[l]: its clauses and the log of added clauses
          zero,           \* the shared solver of F[0]
          pools,          \* pools[l]: the shared solvers of F[l]
          probes,         \* probes[l]: the run's generalization solver of F[l]
          badSolver,      \* the run's bad-state solver
          stores,         \* the shared answers of F[0] and the run's own answers
          budget,         \* the predecessor queries the run has left
          answer          \* the answer to the last query

vars == <<run, frames, zero, pools, probes, badSolver, stores, budget, answer>>

States == [Symbols -> BOOLEAN]
Levels == 0..Top

(* The cubes and clauses: the partial valuations of the symbols. *)
Clauses == UNION {[d -> BOOLEAN] : d \in SUBSET Symbols}

(* The start states and the properties are sets of states, and every cache *)
(* of the engine has room for an entry.                                    *)
ASSUME CacheConstants ==
  /\ IsFiniteSet(Symbols) /\ StartStates \subseteq States
  /\ Targets \cup Learnable \cup Seeds \subseteq Clauses
  /\ Top \in Nat /\ Runs \in Nat \ {0} /\ QueryBudget \in Nat
  /\ {ExactLimit, UnsatLimit, PoolLimit, ContextLimit} \subseteq Nat \ {0}
  /\ Property \in [1..Runs -> SUBSET States]
  /\ Family \in [1..Runs -> SUBSET Symbols]
  /\ Support \in [Symbols -> SUBSET Symbols]

Absent == [none |-> TRUE]
Silent == [kind |-> "none"]

(* A cube or a clause is a function from some symbols to values. *)
Holds(c) == {s \in States : \A x \in DOMAIN c : s[x] = c[x]}
Admits(c) == States \ Holds(c)
SubCube(a, b) == DOMAIN a \subseteq DOMAIN b /\ \A x \in DOMAIN a : a[x] = b[x]

Successor(s) == [x \in Symbols |-> NextValue[x][s]]

-----------------------------------------------------------------------------
(* Frames *)

Fingerprint(l) == frames[l].clauses

SubsumedIn(f, c) == \E d \in f.clauses : SubCube(d, c)

AddClauseToFrame(f, c) ==
  IF SubsumedIn(f, c) THEN f
  ELSE [clauses |-> {d \in f.clauses : ~SubCube(c, d)} \cup {c}, log |-> Append(f.log, c)]

(* The facts of a query that do not come from learned clauses.  The bad-state *)
(* search leaves the property out, and so does every query in F[0].           *)
FrameFacts(l, safe) ==
  IF l = 0 THEN {StartStates} ELSE IF safe THEN {Property[run]} ELSE {}

Meet(facts) == {s \in States : \A f \in facts : s \in f}

Region(l) == Meet(FrameFacts(l, TRUE) \cup {Admits(c) : c \in frames[l].clauses})
BadRegion(l) ==
  Meet(FrameFacts(l, FALSE) \cup {Admits(c) : c \in frames[l].clauses}) \ Property[run]

NewFrames == [l \in Levels |-> [clauses |-> IF l = 0 THEN {} ELSE Seeds, log |-> <<>>]]

-----------------------------------------------------------------------------
(* The symbols of a query *)

StableSymbols(l) ==
  (IF l = 0 THEN Symbols ELSE {}) \cup UNION {DOMAIN c : c \in frames[l].clauses}

TargetSymbols(cube) == UNION {Support[x] : x \in DOMAIN cube}

QuerySymbols(l, cube, exclude) ==
  StableSymbols(l) \cup TargetSymbols(cube)
    \cup (IF l > 0 THEN Family[run] ELSE {}) \cup (IF exclude THEN DOMAIN cube ELSE {})

BadSymbols(l) == StableSymbols(l) \cup Family[run]

-----------------------------------------------------------------------------
(* Solvers *)

Emit(solver, new, l) ==
  [solver EXCEPT !.facts = @ \cup {Admits(c) : c \in new}, !.emitted = @ \cup new,
                 !.offset = Len(frames[l].log), !.fingerprint = Fingerprint(l)]

Covered(solver, clauses) == {c \in clauses : DOMAIN c \subseteq solver.symbols}

(* Clauses after the log offset, or the complete frame when the surface has *)
(* become wider or the log is shorter than the offset.                      *)
Pending(solver, l, complete) ==
  IF complete \/ solver.offset > Len(frames[l].log) THEN frames[l].clauses
  ELSE ToSet(SubSeq(frames[l].log, solver.offset + 1, Len(frames[l].log)))

Synchronize(solver, l, complete) ==
  IF ~complete /\ solver.fingerprint = Fingerprint(l) THEN solver
  ELSE Emit(solver, Covered(solver, Pending(solver, l, complete)) \ solver.emitted, l)

NewSolver(l, symbols, safe) ==
  LET bare == [symbols |-> symbols, facts |-> FrameFacts(l, safe), emitted |-> {},
               offset |-> 0, fingerprint |-> {}, run |-> 0, contexts |-> 0]
  IN Emit(bare, Covered(bare, frames[l].clauses), l)

(* The run's own solver of one frame: built once, then widened and brought *)
(* up to date.                                                             *)
LocalSolver(solver, l, symbols, safe) ==
  IF solver = Absent THEN NewSolver(l, symbols, safe)
  ELSE LET wide == [solver EXCEPT !.symbols = @ \cup symbols]
       IN Synchronize(wide, l, wide.symbols # solver.symbols)

(* A context that keeps the record of what the last run emitted. *)
NewContextSameRecord(solver) ==
  [solver EXCEPT !.run = run, !.facts = {Property[run]}, !.contexts = @ + 1]

(* A shared solver keeps one guarded context.  The first query of another *)
(* run retires it: the old facts no longer count and nothing is emitted.  *)
NewContext(solver) ==
  [solver EXCEPT !.run = run, !.facts = {Property[run]}, !.emitted = {}, !.offset = 0,
                 !.fingerprint = {}, !.contexts = @ + 1]

GuardedContext(solver, l, complete) ==
  IF solver.run = run THEN Synchronize(solver, l, complete)
  ELSE Synchronize(NewContext(solver), l, TRUE)

SharedSolver(solver, l, symbols) ==
  LET old == IF solver = Absent
             THEN [symbols |-> symbols, facts |-> {}, emitted |-> {}, offset |-> 0,
                   fingerprint |-> {}, run |-> 0, contexts |-> 0]
             ELSE solver
      wide == [old EXCEPT !.symbols = @ \cup symbols]
  IN GuardedContext(wide, l, solver = Absent \/ wide.symbols # old.symbols)

-----------------------------------------------------------------------------
(* The pool of shared solvers of one frame *)

FamilyOf(entry) == IF PathLocal[run] THEN entry.path ELSE entry.root

Fits(entry) ==
  IF PathLocal[run] THEN Family[run] \subseteq FamilyOf(entry)
  ELSE FamilyOf(entry) = Family[run]

Tighter(a, b) ==
  \/ Cardinality(FamilyOf(a)) < Cardinality(FamilyOf(b))
  \/ Cardinality(FamilyOf(a)) = Cardinality(FamilyOf(b)) /\ a.lastUse > b.lastUse

Fitting(entries) == {i \in DOMAIN entries : Fits(entries[i])}

(* The fitting entry with the smallest family, the latest used of those; a *)
(* new entry while there is room; then the entry unused for the longest.   *)
Chosen(entries) ==
  IF Fitting(entries) # {}
  THEN CHOOSE i \in Fitting(entries) :
         \A j \in Fitting(entries) \ {i} : ~Tighter(entries[j], entries[i])
  ELSE IF Len(entries) < PoolLimit THEN Len(entries) + 1
  ELSE CHOOSE i \in DOMAIN entries :
         \A j \in DOMAIN entries : entries[i].lastUse <= entries[j].lastUse

FreshEntry == [root |-> Family[run], path |-> Family[run], solver |-> Absent, lastUse |-> 0]

Prepared(entries, i, sequence) ==
  LET entry == IF i \in Fitting(entries) THEN entries[i] ELSE FreshEntry
      worn == /\ ~PathLocal[run]
              /\ entry.solver # Absent
              /\ entry.solver.contexts >= ContextLimit
  IN [entry EXCEPT !.path = IF PathLocal[run] THEN Family[run] ELSE @,
                   !.solver = IF worn THEN Absent ELSE @,
                   !.lastUse = sequence]

(* The first query of a run in a frame selects an entry, and the run keeps it. *)
Select(pool) ==
  IF pool.run = run THEN pool
  ELSE LET i == Chosen(pool.entries)
           entry == Prepared(pool.entries, i, pool.sequence + 1)
       IN [run |-> run, selected |-> i, sequence |-> pool.sequence + 1,
           entries |-> IF i > Len(pool.entries) THEN Append(pool.entries, entry)
                       ELSE [pool.entries EXCEPT ![i] = entry]]

PoolAfter(l, symbols) ==
  LET pool == Select(pools[l])
  IN [pool EXCEPT !.entries[pool.selected].solver = SharedSolver(@, l, symbols)]

-----------------------------------------------------------------------------
(* Stores of answers *)

StoreOf(l) == IF l = 0 THEN "zero" ELSE "run"
EmptyStore == [exact |-> <<>>, unsat |-> {}, cores |-> {}]

(* An exact key that forgets which frame the answer came from. *)
KeyWithoutFrame(l, cube, exclude) ==
  [level |-> l, cube |-> cube, exclude |-> exclude, fingerprint |-> {}]

ExactKey(l, cube, exclude) ==
  [level |-> l, cube |-> cube, exclude |-> exclude, fingerprint |-> Fingerprint(l)]

StableKey(l, cube, exclude) == [level |-> l, cube |-> cube, exclude |-> exclude]

Find(exact, key) == {i \in DOMAIN exact : exact[i].key = key}

Touch(exact, i) == Append(RemoveAt(exact, i), exact[i])

(* The bounded store drops its least recent answer for a new key and keeps *)
(* the answer it has for a known one.                                      *)
Insert(exact, key, entry) ==
  IF Find(exact, key) # {} THEN Touch(exact, CHOOSE i \in Find(exact, key) : TRUE)
  ELSE Append(IF Len(exact) >= ExactLimit THEN Tail(exact) ELSE exact,
              [key |-> key, entry |-> entry])

ShouldResetStable(store) == Cardinality(store.unsat) >= UnsatLimit

Trim(store) ==
  IF ShouldResetStable(store) THEN [store EXCEPT !.unsat = {}, !.cores = {}] ELSE store

CoreShareable(exclude) == ~exclude

WithCore(cores, l, core) ==
  IF \E c \in cores : c.level = l /\ SubCube(c.cube, core) THEN cores
  ELSE {c \in cores : ~(c.level = l /\ SubCube(core, c.cube))} \cup {[level |-> l, cube |-> core]}

CoresFor(store, l, cube, exclude) ==
  IF CoreShareable(exclude)
  THEN {c \in store.cores : c.level = l /\ SubCube(c.cube, cube)} ELSE {}

Remember(store, l, cube, exclude, entry) ==
  LET trimmed == Trim(store)
      unsat == entry.result = "unsat"
  IN [exact |-> Insert(trimmed.exact, ExactKey(l, cube, exclude), entry),
      unsat |-> trimmed.unsat \cup (IF unsat THEN {StableKey(l, cube, exclude)} ELSE {}),
      cores |-> IF unsat /\ entry.core # Absent /\ CoreShareable(exclude)
                THEN WithCore(trimmed.cores, l, entry.core) ELSE trimmed.cores]

-----------------------------------------------------------------------------
(* Queries *)

Query(l, cube, exclude) ==
  [kind |-> "pred", level |-> l, cube |-> cube, exclude |-> exclude]

Reply(query, result) == [query |-> query, result |-> result]
ReplyWith(query, s) == [query |-> query, result |-> "sat", model |-> s]

Within(states, cube, exclude) ==
  {s \in states : Successor(s) \in Holds(cube) /\ (exclude => s \notin Holds(cube))}

(* A failed-assumption core: target literals that already have no predecessor, *)
(* with the exclusion of the target still assumed.                             *)
Cores(states, cube, exclude) ==
  {core \in UNION {[d -> BOOLEAN] : d \in (SUBSET (DOMAIN cube)) \ {{}}} :
     /\ SubCube(core, cube)
     /\ {s \in states : Successor(s) \in Holds(core) /\ (exclude => s \notin Holds(cube))} = {}}

(* What a solver with these states may answer, and what is remembered of it. *)
Outcomes(states, cube, exclude, needsModel) ==
  LET preds == Within(states, cube, exclude)
  IN IF preds = {}
     THEN {[result |-> "unsat", core |-> core] : core \in Cores(states, cube, exclude) \cup {Absent}}
     ELSE IF needsModel THEN {[result |-> "sat", model |-> s] : s \in preds}
     ELSE {[result |-> "sat", model |-> Absent]}

Told(query, entry) ==
  IF entry.result = "sat" /\ entry.model # Absent THEN ReplyWith(query, entry.model)
  ELSE Reply(query, entry.result)

ExactHit(l, cube, exclude) == Find(stores[StoreOf(l)].exact, ExactKey(l, cube, exclude))

ExactEntry(l, cube, exclude) ==
  stores[StoreOf(l)].exact[CHOOSE i \in ExactHit(l, cube, exclude) : TRUE].entry

StableHit(l, cube, exclude) ==
  ExactHit(l, cube, exclude) = {} /\ StableKey(l, cube, exclude) \in stores[StoreOf(l)].unsat

(* A remembered answer is good enough unless a model is needed and was not kept. *)
Settled(l, cube, exclude, needsModel) ==
  \/ /\ ExactHit(l, cube, exclude) # {}
     /\ LET entry == ExactEntry(l, cube, exclude)
        IN entry.result = "sat" => (entry.model # Absent \/ ~needsModel)
  \/ StableHit(l, cube, exclude)

AnswerFromStore(l, cube, exclude, needsModel) ==
  /\ ExactHit(l, cube, exclude) # {} /\ Settled(l, cube, exclude, needsModel)
  /\ answer' = Told(Query(l, cube, exclude), ExactEntry(l, cube, exclude))
  /\ stores' = [stores EXCEPT ![StoreOf(l)].exact =
                  Touch(@, CHOOSE i \in ExactHit(l, cube, exclude) : TRUE)]
  /\ UNCHANGED <<run, frames, zero, pools, probes, badSolver, budget>>

AnswerFromStable(l, cube, exclude) ==
  /\ StableHit(l, cube, exclude)
  /\ answer' = Reply(Query(l, cube, exclude), "unsat")
  /\ UNCHANGED <<run, frames, zero, pools, probes, badSolver, stores, budget>>

AnswerFromCore(l, cube, exclude, needsModel) ==
  /\ ~Settled(l, cube, exclude, needsModel)
  /\ \E c \in CoresFor(stores[StoreOf(l)], l, cube, exclude) :
       stores' = [stores EXCEPT ![StoreOf(l)] =
                    Remember(@, l, cube, exclude, [result |-> "unsat", core |-> c.cube])]
  /\ answer' = Reply(Query(l, cube, exclude), "unsat")
  /\ UNCHANGED <<run, frames, zero, pools, probes, badSolver, budget>>

(* Nothing remembered settles the query. *)
Open(l, cube, exclude, needsModel) ==
  /\ ~Settled(l, cube, exclude, needsModel)
  /\ CoresFor(stores[StoreOf(l)], l, cube, exclude) = {}

(* The query budget or an encoding limit ends the query before any solver is used. *)
GiveUp(l, cube, exclude, needsModel) ==
  /\ Open(l, cube, exclude, needsModel)
  /\ budget' = IF budget = 0 THEN 0 ELSE budget - 1
  /\ answer' = Reply(Query(l, cube, exclude), "unknown")
  /\ UNCHANGED <<run, frames, zero, pools, probes, badSolver, stores>>

(* The query is charged to the run and a solver is asked. *)
Charged(l, cube, exclude, needsModel) ==
  /\ Open(l, cube, exclude, needsModel)
  /\ budget > 0
  /\ budget' = budget - 1

(* The solver's answer, or unknown when its limits are hit: then nothing is kept. *)
Conclude(solver, l, cube, exclude, needsModel) ==
  \/ \E entry \in Outcomes(Meet(solver.facts), cube, exclude, needsModel) :
       /\ answer' = Told(Query(l, cube, exclude), entry)
       /\ stores' = [stores EXCEPT ![StoreOf(l)] = Remember(@, l, cube, exclude, entry)]
  \/ /\ answer' = Reply(Query(l, cube, exclude), "unknown")
     /\ UNCHANGED stores

SolveFrameZero(cube, exclude, needsModel) ==
  /\ Charged(0, cube, exclude, needsModel)
  /\ zero' = LocalSolver(zero, 0, Symbols, TRUE)
  /\ Conclude(zero', 0, cube, exclude, needsModel)
  /\ UNCHANGED <<run, frames, pools, probes, badSolver>>

SolveShared(l, cube, exclude, needsModel) ==
  /\ Charged(l, cube, exclude, needsModel)
  /\ pools' = [pools EXCEPT ![l] = PoolAfter(l, QuerySymbols(l, cube, exclude))]
  /\ Conclude(pools'[l].entries[pools'[l].selected].solver, l, cube, exclude, needsModel)
  /\ UNCHANGED <<run, frames, zero, probes, badSolver>>

(* A generalization query first tries a small solver; when that gives up the *)
(* shared one is asked in the same call.                                     *)
SolveProbe(l, cube, exclude) ==
  /\ Charged(l, cube, exclude, FALSE)
  /\ probes' = [probes EXCEPT ![l] = LocalSolver(@, l, QuerySymbols(l, cube, exclude), TRUE)]
  /\ \/ /\ \E entry \in Outcomes(Meet(probes'[l].facts), cube, exclude, FALSE) :
             /\ answer' = Told(Query(l, cube, exclude), entry)
             /\ stores' = [stores EXCEPT ![StoreOf(l)] = Remember(@, l, cube, exclude, entry)]
        /\ UNCHANGED pools
     \/ /\ pools' = [pools EXCEPT ![l] = PoolAfter(l, QuerySymbols(l, cube, exclude))]
        /\ Conclude(pools'[l].entries[pools'[l].selected].solver, l, cube, exclude, FALSE)
  /\ UNCHANGED <<run, frames, zero, badSolver>>

(* Above the surface limit a solver is built for the query and thrown away; *)
(* it gives no core.                                                        *)
SolveUncached(l, cube, exclude, needsModel) ==
  /\ Charged(l, cube, exclude, needsModel)
  /\ LET solver == NewSolver(l, QuerySymbols(l, cube, exclude), TRUE)
     IN \E entry \in Outcomes(Meet(solver.facts), cube, exclude, needsModel) :
          /\ entry.result = "unsat" => entry.core = Absent
          /\ answer' = Told(Query(l, cube, exclude), entry)
          /\ stores' = [stores EXCEPT ![StoreOf(l)] = Remember(@, l, cube, exclude, entry)]
  /\ UNCHANGED <<run, frames, zero, pools, probes, badSolver>>

BadReply(l, facts) ==
  LET bad == Meet(facts) \ Property[run]
      query == [kind |-> "bad", level |-> l]
  IN \/ answer' = Reply(query, "unknown")
     \/ bad = {} /\ answer' = Reply(query, "unsat")
     \/ \E s \in bad : answer' = ReplyWith(query, s)

(* A bad state of F[0] is another assumption of the shared solver. *)
FindBadInFrameZero ==
  /\ zero' = LocalSolver(zero, 0, Symbols, TRUE)
  /\ BadReply(0, zero'.facts)
  /\ UNCHANGED <<run, frames, pools, probes, badSolver, stores, budget>>

(* One solver for one frame and one surface: any other key replaces it. *)
FindBad(l) ==
  /\ badSolver' = IF badSolver # Absent /\ badSolver.level = l
                       /\ badSolver.solver.symbols = BadSymbols(l)
                  THEN [badSolver EXCEPT !.solver = Synchronize(@, l, FALSE)]
                  ELSE [level |-> l, solver |-> NewSolver(l, BadSymbols(l), FALSE)]
  /\ BadReply(l, badSolver'.solver.facts)
  /\ UNCHANGED <<run, frames, zero, pools, probes, stores, budget>>

-----------------------------------------------------------------------------
(* The engine between two queries *)

(* What PDR may learn: a clause of F[0] holds in every start state, and a *)
(* clause of a higher frame also after every step of the frame below.     *)
MayLearn(l, c) ==
  /\ StartStates \subseteq Admits(c)
  /\ l > 0 => \A s \in Region(l - 1) \cap Admits(c) : Successor(s) \in Admits(c)

Learn(l, c) ==
  /\ MayLearn(l, c)
  /\ frames' = IF l = 0 THEN [frames EXCEPT ![0] = AddClauseToFrame(@, c)]
               ELSE [k \in Levels |-> IF k \in 1..l THEN AddClauseToFrame(frames[k], c)
                                      ELSE frames[k]]
  /\ frames' # frames
  /\ answer' = Silent
  /\ UNCHANGED <<run, zero, pools, probes, badSolver, stores, budget>>

(* The next batch: the engine's own caches are gone, the shared ones stay. *)
NextRun ==
  /\ run < Runs
  /\ run' = run + 1
  /\ frames' = NewFrames
  /\ probes' = [l \in 1..Top |-> Absent]
  /\ badSolver' = Absent
  /\ stores' = [stores EXCEPT !["run"] = EmptyStore]
  /\ budget' = QueryBudget
  /\ answer' = Silent
  /\ UNCHANGED <<zero, pools>>

Init ==
  /\ run = 1
  /\ frames = NewFrames
  /\ zero = Absent
  /\ pools = [l \in 1..Top |-> [run |-> 0, selected |-> 0, sequence |-> 0, entries |-> <<>>]]
  /\ probes = [l \in 1..Top |-> Absent]
  /\ badSolver = Absent
  /\ stores = [k \in {"zero", "run"} |-> EmptyStore]
  /\ budget = QueryBudget
  /\ answer = Silent

(* Blocking an obligation needs a model and is relative to the cube; so is *)
(* generalizing or lifting a blocker, which needs only the status;         *)
(* propagation starts above F[0] and is not relative.                      *)
ASSUME AskedAssumption ==
  Asked \subseteq (Levels \X {"block", "generalize", "bad"}) \cup ((1..Top) \X {"propagate"})

AskPredecessor(l, cube, purpose) ==
  LET exclude == purpose # "propagate"
      needsModel == purpose = "block"
  IN \/ AnswerFromStore(l, cube, exclude, needsModel)
     \/ AnswerFromStable(l, cube, exclude)
     \/ AnswerFromCore(l, cube, exclude, needsModel)
     \/ GiveUp(l, cube, exclude, needsModel)
     \/ l = 0 /\ SolveFrameZero(cube, exclude, needsModel)
     \/ l > 0 /\ SolveShared(l, cube, exclude, needsModel)
     \/ l > 0 /\ purpose = "generalize" /\ SolveProbe(l, cube, exclude)
     \/ l > 0 /\ SolveUncached(l, cube, exclude, needsModel)

(* An unknown answer makes the run inconclusive and ends it. *)
Exhausted == answer # Silent /\ answer.result = "unknown"

Next ==
  \/ /\ ~Exhausted
     /\ \E q \in Asked, cube \in Targets : q[2] # "bad" /\ AskPredecessor(q[1], cube, q[2])
  \/ ~Exhausted /\ <<0, "bad">> \in Asked /\ FindBadInFrameZero
  \/ ~Exhausted /\ \E l \in 1..Top : <<l, "bad">> \in Asked /\ FindBad(l)
  \/ ~Exhausted /\ \E l \in Levels, c \in Learnable : Learn(l, c)
  \/ NextRun

Spec == Init /\ [][Next]_vars

-----------------------------------------------------------------------------
(* Properties *)

(* Type correctness with the bounds the code puts on its caches: the exact *)
(* answers, the stable answers, the solvers of a pool and the retired      *)
(* contexts of a solver outside nested strict proofs                       *)
(* (trimPredecessorQueryResultCache, SharedPredecessorAssumptionSolverPool). *)
TypeOK ==
  /\ run \in 1..Runs /\ budget \in 0..QueryBudget
  /\ \A l \in Levels : frames[l].clauses \subseteq Learnable \cup Seeds
                       /\ ToSet(frames[l].log) \subseteq Learnable
  /\ \A k \in DOMAIN stores : /\ Len(stores[k].exact) <= ExactLimit
                              /\ Cardinality(stores[k].unsat) <= UnsatLimit
  /\ \A l \in 1..Top :
       /\ Len(pools[l].entries) <= PoolLimit
       /\ pools[l].selected \in 0..Len(pools[l].entries)
       /\ (\A r \in 1..Runs : ~PathLocal[r]) =>
            \A i \in DOMAIN pools[l].entries :
              pools[l].entries[i].solver = Absent
                \/ pools[l].entries[i].solver.contexts <= ContextLimit

(* A solver that believes to be up to date admits exactly the states of the *)
(* frame, also after widening, after a change of batch and after the frame  *)
(* dropped clauses that newer ones subsume.  The solver of F[0] admits the  *)
(* start states, though the offset into its log is one of an earlier run    *)
(* (addNewPredecessorFrameClauses, prepareGuardedPredecessorFrameContext).  *)
SolversMatchFrames ==
  /\ zero # Absent => Meet(zero.facts) = StartStates
  /\ \A l \in 1..Top :
       /\ LET pool == pools[l]
          IN pool.run = run =>
               LET solver == pool.entries[pool.selected].solver
               IN solver.run = run /\ solver.fingerprint = Fingerprint(l)
                    => Meet(solver.facts) = Region(l)
       /\ probes[l] # Absent /\ probes[l].fingerprint = Fingerprint(l)
            => Meet(probes[l].facts) = Region(l)
  /\ badSolver # Absent /\ badSolver.solver.fingerprint = Fingerprint(badSolver.level)
       => Meet(badSolver.solver.facts) \ Property[run] = BadRegion(badSolver.level)

(* Whatever a store still holds is true of the frames as they are now: a  *)
(* stable UNSAT answer and every cube above a remembered core have no     *)
(* predecessor although the frame has changed since, and an exact answer  *)
(* is right whenever its fingerprint comes back (cachedPredecessorQueryResult, *)
(* cachedPredecessorUnsatCoreForTarget).                                  *)
RememberedAnswersHold ==
  \A k \in DOMAIN stores :
    /\ \A u \in stores[k].unsat : Within(Region(u.level), u.cube, u.exclude) = {}
    /\ \A c \in stores[k].cores, cube \in Targets :
         SubCube(c.cube, cube) => Within(Region(c.level), cube, FALSE) = {}
    /\ \A i \in DOMAIN stores[k].exact :
         LET key == stores[k].exact[i].key
             entry == stores[k].exact[i].entry
             preds == Within(Region(key.level), key.cube, key.exclude)
         IN key.fingerprint = Fingerprint(key.level) =>
              /\ (entry.result = "sat") = (preds # {})
              /\ entry.result = "sat" /\ entry.model # Absent => entry.model \in preds

Queries == INSTANCE PredecessorQueries
  WITH States <- States, Levels <- Levels, Targets <- Targets,
       Cube <- [c \in Targets |-> Holds(c)], Image <- [s \in States |-> Successor(s)],
       region <- [l \in Levels |-> Region(l)], wrong <- [l \in Levels |-> BadRegion(l)],
       answer <- answer

(* The whole query layer implements the abstract specification, in which   *)
(* every answer is computed from the frames at the moment of the query     *)
(* (findPredecessorCube, findBadCubeForFormula).                           *)
AnswersAreExact == Queries!Spec

\* Everything kept between queries, solvers and answers alike, stays true for
\* the frames it is used on.
CacheIsRight == TypeOK /\ SolversMatchFrames /\ RememberedAnswersHold
=============================================================================
