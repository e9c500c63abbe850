---------------------------- MODULE LogicClouds ----------------------------
(***************************************************************************)
(* How the outputs of a design become expressions:                         *)
(* BuildPrimaryOutputClauses::build                                        *)
(* (src/strategies/miter/BuildPrimaryOutputClauses.cpp) hands one output   *)
(* of every driven net to a pool of workers.  A worker grows the cone of   *)
(* its output level by level (SNLLogicCloud::compute) in a tree of truth   *)
(* tables (SNLTruthTableTree), then turns the tree into an expression      *)
(* (Tree2BoolExpr::convert).                                               *)
(*                                                                         *)
(* The workers share one map from nets to finished expressions: a cone     *)
(* stops at a net that is in the map, and every net converted on the way   *)
(* is published there.  What a worker builds thus depends on what the      *)
(* others have published so far.                                           *)
(*                                                                         *)
(* An expression is the set of assignments (sets of inputs that are 1) in  *)
(* which it holds.  A net stands for its driver; the kind of a net says    *)
(* what drives it.  Tree nodes are the nets whose driver they stand for.   *)
(***************************************************************************)
EXTENDS Integers, Sequences, FiniteSets, SequencesExt

CONSTANTS
    Nets,           \* the isos of a design: nets with all their aliases
    Netlists,       \* the designs considered
    Workers         \* threads of the pool

VARIABLES
    netlist,    \* the design
    chunk,      \* per worker, the outputs it still has to process
    job,        \* per worker, the cone it is building
    iso2expr,   \* Tree2BoolExpr::iso2boolExpr_
    POs,        \* per output, its expression, or Invalid
    skipped,    \* per output without an expression, why
    status      \* "running", "done", or "raised" after an exception

vars == <<netlist, chunk, job, iso2expr, POs, skipped, status>>

\* "pi": an input of the design, of a boundary or of a sequential cell; "tie0"
\* and "tie1": inputs that are constant cells; "assign": a cell that only
\* passes its input on; "mismatch": a cell with another number of inputs than
\* its truth table; "frontier": a driver that is no output pin; "none" and
\* "multi": no driver and several drivers.
Kinds == {"pi", "tie0", "tie1", "gate", "assign", "mismatch", "opaque", "frontier",
          "const0", "const1", "constX", "none", "multi"}

InputKinds == {"pi", "tie0", "tie1"}
ConstantKinds == {"const0", "const1", "constX"}
MappedKinds == InputKinds \union {"const0", "const1"}

ASSUME NetsAreFinite == IsFiniteSet(Nets)

ASSUME WorkersAreNumbered == Workers \subseteq Nat

ASSUME NetlistsAreWellFormed ==
    \A d \in Netlists :
        /\ d.kind \in [Nets -> Kinds]
        /\ d.reads \in [Nets -> Seq(Nets)]
        /\ d.stops \in BOOLEAN
        /\ \A n \in Nets : /\ d.kind[n] = "assign" => Len(d.reads[n]) = 1
                           /\ d.rows[n] \subseteq SUBSET DOMAIN d.reads[n]
                           /\ d.kind[n] = "opaque" => d.stops
        /\ d.outputs \in Seq(Nets)
        /\ \A i \in DOMAIN d.outputs : d.kind[d.outputs[i]] # "frontier"

\* The sequential flow's mode: cells without a usable model stop a cone.
StopAtOpaque == netlist.stops

Kind(n) == netlist.kind[n]
Reads(n) == netlist.reads[n]
isInput(n) == Kind(n) \in InputKinds
isConstant(n) == Kind(n) \in ConstantKinds

Assignments == SUBSET {n \in Nets : Kind(n) = "pi"}

\* initVarNames: a variable of its own, or a constant; nothing for other nets.
Mapped(n) == Kind(n) \in MappedKinds
VarValue(n) ==
    IF Kind(n) = "pi" THEN {a \in Assignments : n \in a}
    ELSE IF Kind(n) \in {"tie1", "const1"} THEN Assignments ELSE {}

\* The disjunction of the rows of a truth table, over the children's values.
TableExpr(n, values) ==
    {a \in Assignments : {k \in DOMAIN values : a \in values[k]} \in netlist.rows[n]}

-----------------------------------------------------------------------------
(* collectOutputs and the representatives of build                          *)

Outputs == netlist.outputs
Invalid == [is |-> "invalid", holds |-> {}]
NotBuilt == [is |-> "unbuilt", holds |-> {}]
Expression(expr) == [is |-> "expression", holds |-> expr]

\* describeUnmappedTerm
UnmappedReason(n) == IF Kind(n) = "constX" THEN "UnknownConstant" ELSE "NoDriver"

\* An output without a single driver is skipped before any cone is built.
CollectSkip(n) ==
    CASE Kind(n) \in {"none", "constX"} -> {UnmappedReason(n)}
      [] Kind(n) = "multi" -> {"MultiDriver"}
      [] OTHER -> {}

Collected == {i \in DOMAIN Outputs : CollectSkip(Outputs[i]) = {}}

\* The first output of each net stands for the others.
Representative(i) ==
    CHOOSE j \in DOMAIN Outputs :
        /\ Outputs[j] = Outputs[i]
        /\ \A k \in 1..(j - 1) : Outputs[k] # Outputs[i]

Representatives == {Representative(i) : i \in Collected}

-----------------------------------------------------------------------------
(* The cone of one output.  A frontier entry is an input pin on a net, or   *)
(* (driver) the pin that drives it, once the net is known to end the cone.  *)
(* A border leaf is an open position of the tree; a placed one already      *)
(* holds a P node, which only passes a value on.                            *)

Idle == [at |-> "idle"]
Pins(n) == [k \in DOMAIN Reads(n) |-> [net |-> Reads(n)[k], driver |-> FALSE]]
\* Variant: the leaves of a node are taken in the opposite order.
OpenLeavesReversed(n) ==
    [k \in DOMAIN Reads(n) |-> [parent |-> n, pos |-> Len(Reads(n)) + 1 - k, placed |-> FALSE]]
OpenLeaves(n) == [k \in DOMAIN Reads(n) |-> [parent |-> n, pos |-> k, placed |-> FALSE]]
OpenChild == [type |-> "Input", net |-> "none"]
NewTable(n) == [k \in DOMAIN Reads(n) |-> OpenChild]

\* canUseCachedIsoShortcut
canUseCachedIsoShortcut(leaf) == leaf.driver /\ leaf.net \in DOMAIN iso2expr

EndsCone(leaf) ==
    \/ leaf.driver /\ isInput(leaf.net)
    \/ canUseCachedIsoShortcut(leaf)
    \/ isConstant(leaf.net)

\* rejectOpaqueInternalOutput
Rejects(n) == StopAtOpaque /\ Kind(n) \in {"opaque", "mismatch"}

With(f, x, e) == [y \in DOMAIN f \union {x} |-> IF y = x THEN e ELSE f[y]]

Become(w, j) == job' = [job EXCEPT ![w] = j]

\* The output gets no expression.
Abandon(w, reason) ==
    /\ POs' = [POs EXCEPT ![job[w].output] = Invalid]
    /\ skipped' = [skipped EXCEPT ![job[w].output] = {reason}]
    /\ Become(w, Idle)
    /\ UNCHANGED <<iso2expr, status>>

\* An exception leaves the parallel loop and ends the build.
Raise ==
    /\ status' = "raised"
    /\ UNCHANGED <<job, iso2expr, POs, skipped>>

\* Nothing but the worker's own job changes.
Continue(w, j) ==
    /\ Become(w, j)
    /\ UNCHANGED <<iso2expr, POs, skipped, status>>

Convert(j, root) == [at |-> "convert", output |-> j.output, tree |-> j.tree,
                     stack |-> <<[net |-> root.net, type |-> root.type, visited |-> FALSE]>>]

-----------------------------------------------------------------------------
(* processOutput up to the seed of the cone                                 *)

Answer(w, i, expr) ==
    /\ POs' = [POs EXCEPT ![i] = Expression(expr)]
    /\ UNCHANGED <<job, iso2expr, skipped, status>>

Seed(w, i, n) ==
    LET j == [at |-> "begin", output |-> i, tree |-> [m \in {n} |-> NewTable(n)],
              border |-> OpenLeaves(n), next |-> Pins(n)]
    IN CASE Rejects(n) ->
                /\ POs' = [POs EXCEPT ![i] = Invalid]
                /\ skipped' = [skipped EXCEPT ![i] = {"OpaqueInternal"}]
                /\ UNCHANGED <<job, iso2expr, status>>
         [] isInput(n) ->
                Continue(w, Convert([j EXCEPT !.tree = <<>>], [type |-> "P", net |-> n]))
         [] Kind(n) = "mismatch" /\ ~StopAtOpaque -> Raise
         [] OTHER ->
                Continue(w, IF Reads(n) = <<>> THEN [j EXCEPT !.at = "inputs"] ELSE j)

ProcessOutput(w) ==
    /\ status = "running"
    /\ job[w].at = "idle" /\ chunk[w] # <<>>
    /\ chunk' = [chunk EXCEPT ![w] = Tail(@)]
    /\ LET i == Head(chunk[w])
           n == Outputs[i]
       IN IF Kind(n) \in {"const0", "const1"} THEN Answer(w, i, VarValue(n))
          ELSE IF n \in DOMAIN iso2expr THEN Answer(w, i, iso2expr[n])
          ELSE Seed(w, i, n)
    /\ UNCHANGED netlist

-----------------------------------------------------------------------------
(* One level of the cone: reachedPIs is settled first, then every frontier  *)
(* entry in order; the tree changes only once the whole level is known.     *)

reachedPIs(leaves) == \A i \in DOMAIN leaves : EndsCone(leaves[i])

BeginLevel(w) ==
    /\ status = "running"
    /\ job[w].at = "begin"
    /\ LET j == job[w]
       IN Continue(w, [at |-> "scan", output |-> j.output, tree |-> j.tree,
                       border |-> j.border, current |-> j.next, next |-> <<>>,
                       merges |-> <<>>, reached |-> reachedPIs(j.next)])
    /\ UNCHANGED <<netlist, chunk>>

Merge(type, n) == [type |-> type, net |-> n]

\* A driver is expanded unless the tree, or this level, has it already.
tableWillExpand(j, n) ==
    /\ n \notin DOMAIN j.tree
    /\ \A i \in DOMAIN j.merges : j.merges[i] # Merge("Table", n)

ScanLeaf(w) ==
    /\ status = "running"
    /\ job[w].at = "scan" /\ Len(job[w].merges) < Len(job[w].current)
    /\ LET j == job[w]
           leaf == j.current[Len(j.merges) + 1]
           n == leaf.net
           driver == [leaf EXCEPT !.driver = TRUE]
           Keep(kept) == Continue(w, [j EXCEPT !.next = Append(@, kept),
                                               !.merges = Append(@, Merge("P", n))])
       IN IF EndsCone(leaf) THEN Keep(leaf)
          ELSE CASE Kind(n) = "multi" -> Abandon(w, "MultiDriver")
                 [] Kind(n) \in {"none", "frontier"} -> Abandon(w, "NoDriver")
                 [] Rejects(n) -> Abandon(w, "OpaqueInternal")
                 [] isInput(n) \/ canUseCachedIsoShortcut(driver) -> Keep(driver)
                 [] Kind(n) = "mismatch" /\ ~Rejects(n) -> Raise
                 [] OTHER ->
                        Continue(w, [j EXCEPT
                            !.next = IF tableWillExpand(j, n) THEN @ \o Pins(n) ELSE @,
                            !.merges = Append(@, Merge("Table", n))])
    /\ UNCHANGED <<netlist, chunk>>

ParentsOf(tree, n) ==
    {m \in DOMAIN tree : \E k \in DOMAIN tree[m] : tree[m][k] = Merge("Table", n)}

\* findAncestorLoopForBorderLeaf: a node and those above it, by every parent.
AndAbove(tree, n) ==
    LET upward == {S \in SUBSET DOMAIN tree : \A c \in S : ParentsOf(tree, c) \subseteq S}
    IN {m \in DOMAIN tree : \A S \in upward : n \in S => m \in S}

\* resolveTransparentLoopTarget: the driver behind a chain of assigns, or the
\* first assign that is met again.
BehindAssign(b) ==
    IF Kind(b.net) = "assign" /\ b.net \notin b.seen
    THEN [net |-> Reads(b.net)[1], seen |-> b.seen \union {b.net}] ELSE b

ResolveTransparent(n) ==
    LET behind[k \in Nat] ==
            IF k = 0 THEN [net |-> n, seen |-> {}] ELSE BehindAssign(behind[k - 1])
    IN behind[Cardinality(Nets)].net

\* Variant: only a cell that reads itself is a loop.
LoopAtItself(j, i) == j.merges[i] = Merge("Table", j.border[i].parent)

\* A merge leads back to a node on the way from the root to its border leaf.
LoopAt(j, i) ==
    /\ j.merges[i].type = "Table"
    /\ LET n == j.merges[i].net
           target == IF n \in DOMAIN j.tree THEN n ELSE ResolveTransparent(n)
       IN target \in AndAbove(j.tree, j.border[i].parent)

\* concatFull: one merge at one border leaf.
concat(grown, leaf, merge) ==
    LET tree == [grown.tree EXCEPT ![leaf.parent][leaf.pos] = merge]
    IN IF leaf.placed
       THEN [grown EXCEPT !.border = Append(@, leaf)]
       ELSE IF merge.type = "P"
       THEN [tree |-> tree, border |-> Append(grown.border, [leaf EXCEPT !.placed = TRUE])]
       ELSE IF merge.net \in DOMAIN tree
       THEN [grown EXCEPT !.tree = tree]
       ELSE [tree |-> With(tree, merge.net, NewTable(merge.net)),
             border |-> grown.border \o OpenLeaves(merge.net)]

concatFull(j) ==
    LET grown[i \in 0..Len(j.merges)] ==
            IF i = 0 THEN [tree |-> j.tree, border |-> <<>>]
            ELSE concat(grown[i - 1], j.border[i], j.merges[i])
    IN grown[Len(j.merges)]

MergeLevel(w) ==
    /\ status = "running"
    /\ job[w].at = "scan" /\ Len(job[w].merges) = Len(job[w].current)
    /\ LET j == job[w]
           grown == concatFull(j)
       IN IF j.merges # <<>> /\ Len(j.merges) # Len(j.border) THEN Raise
          ELSE IF \E i \in DOMAIN j.merges : LoopAt(j, i) THEN Abandon(w, "LogicalLoop")
          ELSE IF Len(grown.border) # Len(j.next) THEN Raise
          ELSE Continue(w, [at |-> IF j.reached \/ j.merges = <<>> THEN "inputs" ELSE "begin",
                            output |-> j.output, tree |-> grown.tree,
                            border |-> grown.border, next |-> j.next])
    /\ UNCHANGED <<netlist, chunk>>

-----------------------------------------------------------------------------
(* From the finished tree to the expression                                 *)

\* An input of the cone that is no variable must be a finished expression.
ConvertibleInput(leaf) == Mapped(leaf.net) \/ leaf.net \in DOMAIN iso2expr

CheckInputs(w) ==
    /\ status = "running"
    /\ job[w].at = "inputs"
    /\ LET j == job[w]
           bad == {i \in DOMAIN j.next : ~ConvertibleInput(j.next[i])}
       IN IF bad = {}
          THEN Continue(w, Convert(j, Merge("Table", Outputs[j.output])))
          ELSE LET first == CHOOSE i \in bad : \A k \in bad : i <= k
               IN Abandon(w, UnmappedReason(j.next[first].net))
    /\ UNCHANGED <<netlist, chunk>>

\* The first of several workers to insert an expression wins.
Publish(n, expr) ==
    iso2expr' = IF n \in DOMAIN iso2expr THEN iso2expr ELSE With(iso2expr, n, expr)

\* What a node was converted to is what its net was published with, so no
\* memo table is kept next to iso2expr.
VisitNode(w) ==
    /\ status = "running"
    /\ job[w].at = "convert" /\ job[w].stack # <<>>
    /\ LET j == job[w]
           node == Last(j.stack)
           n == node.net
           rest == Front(j.stack)
           Unvisited(child) == [net |-> child.net, type |-> child.type, visited |-> FALSE]
       IN /\ ~node.visited
          /\ IF n \in DOMAIN iso2expr
             THEN Continue(w, [j EXCEPT !.stack = rest])
             ELSE IF node.type = "P"
             THEN /\ Publish(n, VarValue(n))
                  /\ Become(w, [j EXCEPT !.stack = rest])
                  /\ UNCHANGED <<POs, skipped, status>>
             ELSE Continue(w, [j EXCEPT
                      !.stack = Append(rest, [node EXCEPT !.visited = TRUE])
                                \o [k \in DOMAIN j.tree[n] |-> Unvisited(j.tree[n][k])]])
    /\ UNCHANGED <<netlist, chunk>>

FinishNode(w) ==
    /\ status = "running"
    /\ job[w].at = "convert" /\ job[w].stack # <<>>
    /\ Last(job[w].stack).visited
    /\ LET n == Last(job[w].stack).net
           children == job[w].tree[n]
       IN Publish(n, TableExpr(n, [k \in DOMAIN children |-> iso2expr[children[k].net]]))
    /\ Become(w, [job[w] EXCEPT !.stack = Front(@)])
    /\ UNCHANGED <<netlist, chunk, POs, skipped, status>>

TakeExpression(w) ==
    /\ status = "running"
    /\ job[w].at = "convert" /\ job[w].stack = <<>>
    /\ POs' = [POs EXCEPT ![job[w].output] = Expression(iso2expr[Outputs[job[w].output]])]
    /\ Become(w, Idle)
    /\ UNCHANGED <<netlist, chunk, iso2expr, skipped, status>>

-----------------------------------------------------------------------------
(* The end of build: the other outputs of a net share what its first one    *)
(* got, and the shared map is emptied.                                      *)

\* The reasons of an output, its representative's if it has any.
SharedReason(i) ==
    LET r == Representative(i) IN IF skipped[r] # {} THEN skipped[r] ELSE skipped[i]

FinishBuild ==
    /\ status = "running"
    /\ \A w \in Workers : job[w] = Idle /\ chunk[w] = <<>>
    /\ status' = "done"
    /\ POs' = [i \in DOMAIN Outputs |-> IF i \in Collected THEN POs[Representative(i)] ELSE POs[i]]
    /\ skipped' = [i \in DOMAIN Outputs |-> IF i \in Collected THEN SharedReason(i) ELSE skipped[i]]
    /\ iso2expr' = <<>>
    /\ UNCHANGED <<netlist, chunk, job>>

\* static_partitioner: every worker gets a contiguous range of the outputs.
Ranges(S) ==
    {r \in UNION {[1..n -> S] : n \in 0..Cardinality(S)} :
         \A a, b \in DOMAIN r : a < b => r[a] < r[b]}

Splits(S) ==
    {c \in [Workers -> Ranges(S)] :
        /\ \A i \in S : Cardinality({w \in Workers : i \in Range(c[w])}) = 1
        /\ \A v, w \in Workers : v < w => \A i \in Range(c[v]), k \in Range(c[w]) : i < k}

Init ==
    /\ netlist \in Netlists
    /\ chunk \in Splits(Representatives)
    /\ job = [w \in Workers |-> Idle]
    /\ iso2expr = <<>>
    /\ POs = [i \in DOMAIN Outputs |-> IF i \in Collected THEN NotBuilt ELSE Invalid]
    /\ skipped = [i \in DOMAIN Outputs |-> CollectSkip(Outputs[i])]
    /\ status = "running"

Step(w) ==
    \/ ProcessOutput(w)
    \/ BeginLevel(w)
    \/ ScanLeaf(w)
    \/ MergeLevel(w)
    \/ CheckInputs(w)
    \/ VisitNode(w)
    \/ FinishNode(w)
    \/ TakeExpression(w)

Next == FinishBuild \/ \E w \in Workers : Step(w)

\* Every thread of the pool runs, and the caller waits for all of them.
Spec == Init /\ [][Next]_vars /\ WF_vars(FinishBuild) /\ \A w \in Workers : WF_vars(Step(w))

-----------------------------------------------------------------------------
(* What a netlist d says, independently of trees and levels                 *)

\* A cone ends at inputs and constants.
ReadsOf(d, n) ==
    IF d.kind[n] \in InputKinds \union ConstantKinds THEN {} ELSE Range(d.reads[n])

\* The nets reached from a net by at least one step, and by at most as many
\* steps as there are nets.
WithReads(d, T) == T \union UNION {ReadsOf(d, m) : m \in T}

Reached(d, n) ==
    LET within[k \in Nat] == IF k = 0 THEN ReadsOf(d, n) ELSE WithReads(d, within[k - 1])
    IN within[Cardinality(Nets)]

Cone(d, n) == {n} \union Reached(d, n)

\* The reasons for which a cone has no expression.
FlawOf(d, n) ==
    CASE d.kind[n] \in {"none", "frontier"} -> {"NoDriver"}
      [] d.kind[n] = "multi" -> {"MultiDriver"}
      [] d.kind[n] = "constX" -> {"UnknownConstant"}
      [] d.stops /\ d.kind[n] \in {"opaque", "mismatch"} -> {"OpaqueInternal"}
      [] OTHER -> IF n \in Reached(d, n) THEN {"LogicalLoop"} ELSE {}

Flaws(d, n) == UNION {FlawOf(d, m) : m \in Cone(d, n)}

\* The value of a net when those in V are 1, with the inputs in a at 1.
DrivenTo1(d, n, V, a) ==
    CASE d.kind[n] = "pi" -> n \in a
      [] d.kind[n] \in {"tie1", "const1"} -> TRUE
      [] d.kind[n] \in {"tie0", "const0"} -> FALSE
      [] OTHER -> {k \in DOMAIN d.reads[n] : d.reads[n][k] \in V} \in d.rows[n]

\* The values of the nets of a cone, as the set of those that are 1, that
\* agree with every driver.
Valuations(d, n, a) ==
    {V \in SUBSET Cone(d, n) : \A m \in Cone(d, n) : m \in V <=> DrivenTo1(d, m, V, a)}

\* An expression has the value every valuation of the cone gives the net.
IsValueOf(d, expr, n) ==
    \A a \in SUBSET {m \in Nets : d.kind[m] = "pi"} :
        /\ Valuations(d, n, a) # {}
        /\ \A V \in Valuations(d, n, a) : n \in V <=> a \in expr

-----------------------------------------------------------------------------
(* Properties                                                               *)

Leaves == [net : Nets, driver : BOOLEAN]
BorderLeaves == [parent : Nets, pos : Nat, placed : BOOLEAN]

\* A worker is between outputs, in a level of a cone whose leaves are the open
\* positions of its tree, or converting; an output ends with an expression or
\* with a reason (POs_, skippedOutputs_, borderLeaves_).
TypeOK ==
    /\ status \in {"running", "done", "raised"}
    /\ DOMAIN iso2expr \subseteq Nets
    /\ \A n \in DOMAIN iso2expr : iso2expr[n] \subseteq Assignments
    /\ \A i \in DOMAIN Outputs :
           /\ POs[i] \in {NotBuilt, Invalid} \union {Expression(e) : e \in SUBSET Assignments}
           /\ POs[i] = Invalid <=> skipped[i] # {}
    /\ \A w \in Workers :
           /\ chunk[w] \in Seq(Representatives)
           /\ job[w] # Idle => job[w].output \in Representatives
           /\ job[w].at \in {"begin", "inputs"} =>
                  /\ job[w].border \in Seq(BorderLeaves) /\ job[w].next \in Seq(Leaves)
                  /\ Len(job[w].border) = Len(job[w].next)
                  /\ \A i \in DOMAIN job[w].border :
                         LET leaf == job[w].border[i] IN
                         job[w].tree[leaf.parent][leaf.pos] =
                             IF leaf.placed THEN Merge("P", job[w].next[i].net) ELSE OpenChild
           /\ job[w].at = "convert" => DOMAIN job[w].tree \subseteq Nets

\* Whatever the workers publish first and whichever cone another cone stops
\* at, an expression in the shared map and one given to an output is the
\* function the netlist defines for that net (convert, processOutput).
ExpressionsAreRight ==
    /\ \A n \in DOMAIN iso2expr : IsValueOf(netlist, iso2expr[n], n)
    /\ \A i \in DOMAIN Outputs :
           POs[i].is = "expression" => IsValueOf(netlist, POs[i].holds, Outputs[i])

\* An output is skipped only when its cone has a flaw, and for a flaw of that
\* cone; when build returns every output with a flawed cone is skipped, those
\* included that share their net with another one (skippedOutputs_).
SkippedForAFlaw ==
    /\ \A i \in DOMAIN Outputs : \A r \in skipped[i] : r \in Flaws(netlist, Outputs[i])
    /\ status = "done" =>
           \A i \in DOMAIN Outputs : skipped[i] = {} <=> Flaws(netlist, Outputs[i]) = {}

\* A worker never converts a tree whose cone has a combinational loop: loops
\* are found while the cone grows (findAncestorLoopForBorderLeaf), whatever
\* part of the cone is cut off at finished expressions.
LoopsAreReported ==
    \A w \in Workers : job[w].at = "convert" =>
        "LogicalLoop" \notin Flaws(netlist, Outputs[job[w].output])

\* The frontier and the open leaves of the tree stay in step: an exception
\* comes only from a cell that does not fit its truth table
\* (throwIfFrontierMismatch, throwIfNextFrontierMismatch).
RaisesOnlyOnMismatch ==
    status = "raised" =>
        /\ ~StopAtOpaque
        /\ \E i \in DOMAIN Outputs : \E m \in Cone(netlist, Outputs[i]) : Kind(m) = "mismatch"

\* What a build publishes: right expressions, and a skip or an exception only
\* for a flaw of the very cone (BuildPrimaryOutputClauses::build).
BuildIsRight ==
    /\ TypeOK /\ ExpressionsAreRight /\ SkippedForAFlaw /\ RaisesOnlyOnMismatch
=============================================================================
