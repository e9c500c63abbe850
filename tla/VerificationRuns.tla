-------------------------- MODULE VerificationRuns --------------------------
(***************************************************************************)
(* Verification calls one after the other in a host process, and the global *)
(* state they share: Config's generation and settings, the expression       *)
(* tables, the Naja universe, the miter strategy's statics, and caches that *)
(* outlive a call.                                                          *)
(*                                                                          *)
(* verifyBorrowedDesigns ("designs", src/python/KeplerBorrowedDesigns.cpp)  *)
(* works on designs of the host's universe, runKeplerFormal ("files",       *)
(* src/bin/KeplerFormal.cpp) on a universe of its own.  Each saves what it  *)
(* changes in guards whose destructors run in reverse order however the     *)
(* call ends.  During a call the threads of the pool read truth tables and  *)
(* terminal maps through caches keyed by addresses; the host may edit a     *)
(* design between two calls, or another design may get its address, so the  *)
(* generation must tell the calls apart.                                    *)
(*                                                                          *)
(* The two entry points have a mutex each.  Config.h asks that all calls be *)
(* serialised; between the two entry points that is left to the host, and   *)
(* assumed here.                                                            *)
(***************************************************************************)
EXTENDS Integers, Sequences, FiniteSets, SequencesExt

CONSTANTS
    Hosts,          \* host threads that make calls
    Pool,           \* worker threads; they and their local caches survive calls
    Designs,        \* what a design at the one address used may contain
    MaxLookups,     \* bound: lookups of one call
    MaxCalls,       \* bound: calls
    MaxEdits        \* bound: changes the host makes between calls

None == "none"
ASSUME DesignsAssumption == None \notin Designs
ASSUME HostsAssumption == None \notin Hosts

VARIABLES
    call,       \* host thread -> its call: the stage and the guards alive
    mutex,      \* entry point -> the thread holding its mutex, or None
    generation, nextGeneration,     \* Config's counters
    settings,   \* who set Config's solver and skip report and the loggers
    exprs,      \* whose nodes the expression table holds
    iso,        \* whose nodes Tree2BoolExpr::iso2boolExpr_ points to
    universe,   \* content of the design at the address, None without universe
    naja,       \* who chose the top design, the order IDs and the DNL
    miter,      \* designs MiterStrategy's statics point to
    task,       \* pool thread -> the lookup it is in
    lookups,    \* lookups the call in progress has started
    shared,     \* the process-wide caches: tables and terminal maps
    local,      \* pool thread -> its thread_local caches
    calls, edits

config == <<generation, nextGeneration, settings>>
heaps == <<exprs, iso>>
designState == <<universe, naja, miter>>
caches == <<shared, local>>
work == <<task, lookups>>
vars == <<call, mutex, config, heaps, designState, work, caches, calls, edits>>

Entries == {"files", "designs"}
NoCall == [stage |-> "none", entry |-> None, guards |-> <<>>]
NoTask == [at |-> "idle"]
EmptyCache == [generation |-> 0, of |-> None]

InCall == {h \in Hosts : call[h].stage \notin {"none", "locking"}}
Running == \E h \in Hosts : call[h].stage = "running"

-----------------------------------------------------------------------------
(* Guards: what is saved, and what the constructor and the destructor do.   *)

Entering(h, entry, stage, guards) ==
    call' = [call EXCEPT ![h] = [stage |-> stage, entry |-> entry, guards |-> guards]]

Push(h, next, guard) ==
    Entering(h, call[h].entry, next, <<guard>> \o call[h].guards)

\* A thread calls an entry point; both refuse a nested call of the same thread
\* before they lock.
Begin(h, entry) ==
    /\ call[h].stage = "none"
    /\ calls < MaxCalls
    /\ \A o \in Hosts : call[o].stage = "none" \/ call[o].entry = entry
    /\ calls' = calls + 1
    /\ Entering(h, entry, "locking", <<>>)
    /\ UNCHANGED <<mutex, config, heaps, designState, work, caches, edits>>

\* Borrowed designs must belong to a live universe.
Lock(h) ==
    /\ call[h].stage = "locking"
    /\ mutex[call[h].entry] = None
    /\ mutex' = [mutex EXCEPT ![call[h].entry] = h]
    /\ Entering(h, call[h].entry,
                IF call[h].entry = "files" THEN "generation"
                ELSE IF universe = None THEN "leaving" ELSE "naja", <<>>)
    /\ UNCHANGED <<config, heaps, designState, work, caches, calls, edits>>

\* BorrowedNajaState: tops, order IDs and the flattened view set aside.
GuardNaja(h) ==
    /\ call[h].stage = "naja"
    /\ Push(h, "generation", [kind |-> "naja", saved |-> naja])
    /\ naja' = "call"
    /\ UNCHANGED <<mutex, config, heaps, universe, miter, work, caches, calls, edits>>

\* Config::ScopedVerificationContext.
GuardGeneration(h) ==
    /\ call[h].stage = "generation"
    /\ Push(h, IF call[h].entry = "files" THEN "universe" ELSE "expressions",
            [kind |-> "generation", saved |-> generation])
    /\ generation' = nextGeneration
    /\ nextGeneration' = nextGeneration + 1
    /\ UNCHANGED <<mutex, settings, heaps, designState, work, caches, calls, edits>>

\* BorrowedExpressionState: an expression table and a map of its own.
GuardExpressions(h) ==
    /\ call[h].stage = "expressions"
    /\ Push(h, "settings", [kind |-> "expressions", saved |-> <<exprs, iso>>])
    /\ exprs' = {} /\ iso' = {}
    /\ UNCHANGED <<mutex, config, designState, work, caches, calls, edits>>

\* runKeplerFormal refuses to start beside a universe, with only the
\* generation to restore.
CheckUniverse(h) ==
    /\ call[h].stage = "universe"
    /\ Entering(h, call[h].entry, IF universe # None THEN "leaving" ELSE "settings",
                call[h].guards)
    /\ UNCHANGED <<mutex, config, heaps, designState, work, caches, calls, edits>>

\* BorrowedRunState, RunStateGuard: settings saved, then set for the call.
GuardSettings(h) ==
    /\ call[h].stage = "settings"
    /\ Push(h, "starting", [kind |-> "settings", saved |-> settings])
    /\ settings' = "call"
    /\ UNCHANGED <<mutex, generation, nextGeneration, heaps, designState, work, caches, calls, edits>>

\* The log file opens or not.
LoggerFails(h) ==
    /\ call[h].stage = "starting" /\ call[h].entry = "designs"
    /\ Entering(h, call[h].entry, "leaving", call[h].guards)
    /\ UNCHANGED <<mutex, config, heaps, designState, work, caches, calls, edits>>

\* The proof starts: expressions are built, the strategy records its designs;
\* a file run first loads its designs into a universe.
Start(h) ==
    /\ call[h].stage = "starting"
    /\ IF call[h].entry = "files"
       THEN /\ universe' \in Designs
            /\ naja' = "call"
            /\ Push(h, "running", [kind |-> "universe"])
       ELSE /\ UNCHANGED <<universe, naja>>
            /\ Entering(h, call[h].entry, "running", call[h].guards)
    /\ exprs' = exprs \cup {"call"}
    /\ iso' = iso \cup {"call"}
    /\ lookups' = 0
    /\ miter' = "call"
    /\ UNCHANGED <<mutex, config, task, caches, calls, edits>>

\* The proof ends, with a result or an exception.  Parallel loops have joined
\* their tasks either way.
Finish(h) ==
    /\ call[h].stage = "running"
    /\ \A t \in Pool : task[t] = NoTask
    /\ Entering(h, call[h].entry, "leaving", call[h].guards)
    /\ UNCHANGED <<mutex, config, heaps, designState, work, caches, calls, edits>>

\* Where iso2boolExpr_ points after a destructor.
IsoAfter(g, entry) ==
    CASE g.kind = "expressions" -> g.saved[2]
      [] g.kind = "settings" /\ entry = "files" -> {}
      [] OTHER -> iso

\* The expression table after a destructor.
ExprsAfter(g, entry) ==
    CASE g.kind = "expressions" -> g.saved[1]
      [] g.kind = "settings" /\ entry = "files" -> {}
      [] OTHER -> exprs

\* Variant: the strategy's statics cleared by file runs only.
MiterAfterFiles(g, entry) == IF g.kind = "settings" /\ entry = "files" THEN None ELSE miter

\* MiterStrategy::cleanupProcessState.
MiterAfter(g, entry) == IF g.kind = "settings" THEN None ELSE miter

\* One destructor, the last guard constructed first.
\*   universe:    the run's universe and flattened view are destroyed
\*   settings:    MiterStrategy::cleanupProcessState and the settings; a file
\*                run (cleanupKeplerFormalState) also clears the map and frees
\*                the expression table
\*   expressions: the call's nodes are freed, the former ones swapped back
\*   generation, naja: the values saved
Unwind(h) ==
    /\ call[h].stage = "leaving" /\ call[h].guards # <<>>
    /\ LET g == Head(call[h].guards)
           does(kind) == g.kind = kind
       IN  /\ Entering(h, call[h].entry, "leaving", Tail(call[h].guards))
           /\ naja' = IF does("naja") THEN g.saved ELSE IF does("universe") THEN "host" ELSE naja
           /\ universe' = IF does("universe") THEN None ELSE universe
           /\ generation' = IF does("generation") THEN g.saved ELSE generation
           /\ settings' = IF does("settings") THEN g.saved ELSE settings
           /\ miter' = MiterAfter(g, call[h].entry)
           /\ exprs' = ExprsAfter(g, call[h].entry)
           /\ iso' = IsoAfter(g, call[h].entry)
           /\ UNCHANGED <<mutex, nextGeneration, work, caches, calls, edits>>

Leave(h) ==
    /\ call[h].stage = "leaving" /\ call[h].guards = <<>>
    /\ call' = [call EXCEPT ![h] = NoCall]
    /\ mutex' = [mutex EXCEPT ![call[h].entry] = None]
    /\ UNCHANGED <<config, heaps, designState, work, caches, calls, edits>>

-----------------------------------------------------------------------------
(* What a pool thread does during a call.                                  *)

\* getSharedTruthTable and refreshPerDnlCaches: a thread_local cache of another
\* generation is emptied.  The caches are keyed by addresses, so any entry is
\* a hit.
Refreshed(t) ==
    IF local[t].generation # generation
    THEN [generation |-> generation, of |-> None] ELSE local[t]

FindLocal(t) ==
    /\ Running /\ task[t] = NoTask
    /\ lookups < MaxLookups /\ lookups' = lookups + 1
    /\ local' = [local EXCEPT ![t] = Refreshed(t)]
    /\ task' = [task EXCEPT ![t] =
                  IF Refreshed(t).of # None
                  THEN [at |-> "done", of |-> Refreshed(t).of]
                  ELSE [at |-> "shared", generation |-> generation]]
    /\ UNCHANGED <<call, mutex, config, heaps, designState, shared, calls, edits>>

\* Variant: a shared cache of another generation is used as it is.
FindSharedAny(t) ==
    /\ task[t].at = "shared"
    /\ LET found == shared.tables
       IN  /\ shared' = [shared EXCEPT !.tables = found]
           /\ IF found.of # None
              THEN /\ task' = [task EXCEPT ![t] = [at |-> "done", of |-> found.of]]
                   /\ local' = [local EXCEPT ![t].of = found.of]
              ELSE /\ task' = [task EXCEPT ![t].at = "build"]
                   /\ UNCHANGED local
    /\ UNCHANGED <<call, lookups, mutex, config, heaps, designState, calls, edits>>

\* Under the cache's lock, with the generation read before.
FindShared(t) ==
    /\ task[t].at = "shared"
    /\ LET found == IF shared.tables.generation # task[t].generation
                    THEN [generation |-> task[t].generation, of |-> None] ELSE shared.tables
       IN  /\ shared' = [shared EXCEPT !.tables = found]
           /\ IF found.of # None
              THEN /\ task' = [task EXCEPT ![t] = [at |-> "done", of |-> found.of]]
                   /\ local' = [local EXCEPT ![t].of = found.of]
              ELSE /\ task' = [task EXCEPT ![t].at = "build"]
                   /\ UNCHANGED local
    /\ UNCHANGED <<call, lookups, mutex, config, heaps, designState, calls, edits>>

\* The table is derived from the design outside the lock ...
Build(t) ==
    /\ task[t].at = "build"
    /\ task' = [task EXCEPT ![t] = [at |-> "publish", of |-> universe]]
    /\ UNCHANGED <<call, lookups, mutex, config, heaps, designState, caches, calls, edits>>

\* ... and put into the cache as it now is, unless another thread was first.
Publish(t) ==
    /\ task[t].at = "publish"
    /\ LET of == IF shared.tables.of # None THEN shared.tables.of ELSE task[t].of
       IN  /\ shared' = [shared EXCEPT !.tables.of = of]
           /\ local' = [local EXCEPT ![t].of = of]
           /\ task' = [task EXCEPT ![t] = [at |-> "done", of |-> of]]
    /\ UNCHANGED <<call, lookups, mutex, config, heaps, designState, calls, edits>>

\* getSharedTermIsoIDCache, all under one lock: equal signatures (addresses
\* and sizes) and generations are a hit.
FindTerms(t) ==
    /\ Running /\ task[t] = NoTask
    /\ lookups < MaxLookups /\ lookups' = lookups + 1
    /\ LET found == IF shared.terms.of # None /\ shared.terms.generation = generation
                    THEN shared.terms ELSE [generation |-> generation, of |-> universe]
       IN  /\ shared' = [shared EXCEPT !.terms = found]
           /\ task' = [task EXCEPT ![t] = [at |-> "done", of |-> found.of]]
    /\ UNCHANGED <<call, mutex, config, heaps, designState, local, calls, edits>>

\* The task is over and the thread back in the pool.
Use(t) ==
    /\ task[t].at = "done"
    /\ task' = [task EXCEPT ![t] = NoTask]
    /\ UNCHANGED <<call, lookups, mutex, config, heaps, designState, caches, calls, edits>>

-----------------------------------------------------------------------------
(* Between calls the host creates, edits or destroys its universe.         *)

HostEdit ==
    /\ InCall = {} /\ edits < MaxEdits
    /\ universe' \in (Designs \cup {None}) \ {universe}
    /\ edits' = edits + 1
    /\ UNCHANGED <<call, mutex, config, heaps, naja, miter, work, caches, calls>>

Init ==
    /\ call = [h \in Hosts |-> NoCall]
    /\ mutex = [e \in Entries |-> None]
    /\ generation = 0 /\ nextGeneration = 1
    /\ settings = "host"
    /\ exprs = {"host"} /\ iso = {"host"}
    /\ universe \in Designs \cup {None}
    /\ naja = "host" /\ miter = None
    /\ task = [t \in Pool |-> NoTask]
    /\ lookups = 0
    /\ shared = [tables |-> EmptyCache, terms |-> EmptyCache]
    /\ local = [t \in Pool |-> EmptyCache]
    /\ calls = 0 /\ edits = 0

CallStep(h) ==
    \/ \E entry \in Entries : Begin(h, entry)
    \/ Lock(h) \/ GuardNaja(h) \/ GuardGeneration(h) \/ GuardExpressions(h)
    \/ CheckUniverse(h) \/ GuardSettings(h) \/ LoggerFails(h) \/ Start(h)
    \/ Finish(h) \/ Unwind(h) \/ Leave(h)

TaskStep(t) ==
    FindLocal(t) \/ FindShared(t) \/ Build(t) \/ Publish(t) \/ FindTerms(t) \/ Use(t)

Next ==
    \/ \E h \in Hosts : CallStep(h)
    \/ \E t \in Pool : TaskStep(t)
    \/ HostEdit

\* A call goes on until it returns, and a pool thread finishes its task.  The
\* number of calls is bounded, so a waiting thread needs no stronger promise
\* of the mutex.
Fairness ==
    /\ \A h \in Hosts : WF_vars(CallStep(h) /\ call[h].stage # "none")
    /\ \A t \in Pool : WF_vars(TaskStep(t) /\ task[t] # NoTask)

Spec == Init /\ [][Next]_vars /\ Fairness

-----------------------------------------------------------------------------
(* Properties.                                                             *)

TypeOK ==
    /\ \A h \in Hosts : call[h].stage \in
        {"none", "locking", "naja", "generation", "expressions", "universe", "settings",
         "starting", "running", "leaving"}
    /\ mutex \in [Entries -> Hosts \cup {None}]
    /\ generation \in 0..(nextGeneration - 1)
    /\ universe \in Designs \cup {None}
    /\ \A t \in Pool : local[t].generation < nextGeneration

\* A table or terminal map handed to a worker describes the design of the call
\* it works for, though the caches are keyed by addresses that earlier designs
\* had, and though a table is published without looking at the generation again.
AnswersAreCurrent ==
    \A t \in Pool : task[t].at = "done" => task[t].of = universe

\* Two verifications are never between their first and their last change of the
\* global state at the same time.
OneCallAtATime == Cardinality(InCall) <= 1

\* The map from terminals to expressions never points to freed nodes: calls on
\* borrowed designs put both aside together, file runs clear both.
MapPointsToLiveNodes == iso \subseteq exprs

\* However a call ended (a result, a refused universe, a log file that did not
\* open), the process is as before it: generation zero, the host's settings and
\* top design, no design the strategy still points to, and no node of the call
\* in the expression table; calls never overlap, and meanwhile no map points
\* to nodes that a guard has freed.
HostStateRestored ==
    /\ OneCallAtATime /\ MapPointsToLiveNodes
    /\ InCall = {} =>
        /\ generation = 0 /\ settings = "host" /\ naja = "host" /\ miter = None
        /\ "call" \notin exprs

=============================================================================
