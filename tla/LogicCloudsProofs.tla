------------------------- MODULE LogicCloudsProofs -------------------------
(***************************************************************************)
(* What BuildPrimaryOutputClauses::build publishes, for every set of       *)
(* netlists and workers: BuildIsRight in every reachable state.            *)
(*                                                                         *)
(* The predicates take the netlist d, and the set D of nets with a         *)
(* finished expression, as parameters: d never changes and D only grows    *)
(* while the workers run, so what holds of the job of one worker survives  *)
(* the steps of the others.                                                *)
(***************************************************************************)
EXTENDS LogicClouds, InductionLemmas, FiniteSetTheorems

-----------------------------------------------------------------------------
(* The inductive invariant                                                  *)

\* What a worker may put into its tree.
Clean(d, n) == n \in Nets /\ d.kind[n] \in {"gate", "assign"}

Convertible(d, D, n) == d.kind[n] \in MappedKinds \/ n \in D

Ends(d, D, leaf) ==
    \/ leaf.driver /\ (d.kind[leaf.net] \in InputKinds \/ leaf.net \in D)
    \/ d.kind[leaf.net] \in ConstantKinds

Children == {OpenChild} \union [type : {"P", "Table"}, net : Nets]

\* A tree stands for nets of the cone of net o; a table child that is placed
\* has its own table.
TreeFits(d, tree, o) ==
    /\ tree = [m \in DOMAIN tree |-> tree[m]]
    /\ o \in DOMAIN tree
    /\ \A m \in DOMAIN tree :
           /\ Clean(d, m) /\ m \in Cone(d, o)
           /\ tree[m] \in [DOMAIN d.reads[m] -> Children]
           /\ \A k \in DOMAIN d.reads[m] :
                  /\ tree[m][k] # OpenChild => tree[m][k].net = d.reads[m][k]
                  /\ tree[m][k].type = "Table" => d.reads[m][k] \in DOMAIN tree

\* A frontier entry e belongs to a border leaf.
LeafFits(d, D, tree, leaf, e) ==
    /\ leaf.parent \in DOMAIN tree
    /\ leaf.pos \in DOMAIN d.reads[leaf.parent]
    /\ e.net = d.reads[leaf.parent][leaf.pos]
    /\ tree[leaf.parent][leaf.pos] = IF leaf.placed THEN Merge("P", e.net) ELSE OpenChild
    /\ leaf.placed => Ends(d, D, e)

SamePlace(l, m) == l.parent = m.parent /\ l.pos = m.pos

FrontierFits(d, D, tree, border, next) ==
    /\ border \in Seq(BorderLeaves) /\ next \in Seq(Leaves)
    /\ Len(border) = Len(next)
    /\ \A i \in 1..Len(border) : LeafFits(d, D, tree, border[i], next[i])
    /\ \A i, k \in 1..Len(border) : SamePlace(border[i], border[k]) => i = k

IsAt(leaf, m, k) == leaf.parent = m /\ leaf.pos = k

\* Every position without a table is on the border.
BorderIsWhole(d, tree, border) ==
    \A m \in DOMAIN tree : \A k \in DOMAIN d.reads[m] :
        tree[m][k].type # "Table" => \E i \in 1..Len(border) : IsAt(border[i], m, k)

\* Between two levels.
Between(d, D, j) ==
    /\ j.at \in {"begin", "inputs"}
    /\ j = [at |-> j.at, output |-> j.output, tree |-> j.tree, border |-> j.border,
            next |-> j.next]
    /\ TreeFits(d, j.tree, d.outputs[j.output])
    /\ FrontierFits(d, D, j.tree, j.border, j.next)
    /\ BorderIsWhole(d, j.tree, j.border)
    /\ j.at = "inputs" => \A i \in 1..Len(j.border) : j.border[i].placed

\* concat and concatFull, of netlist d: grown[i] is the tree after i merges.
ConcatIn(d, grown, leaf, merge) ==
    LET tree == [grown.tree EXCEPT ![leaf.parent][leaf.pos] = merge]
        open == [k \in DOMAIN d.reads[merge.net] |->
                    [parent |-> merge.net, pos |-> k, placed |-> FALSE]]
    IN IF leaf.placed
       THEN [grown EXCEPT !.border = Append(@, leaf)]
       ELSE IF merge.type = "P"
       THEN [tree |-> tree, border |-> Append(grown.border, [leaf EXCEPT !.placed = TRUE])]
       ELSE IF merge.net \in DOMAIN tree
       THEN [grown EXCEPT !.tree = tree]
       ELSE [tree |-> With(tree, merge.net, [k \in DOMAIN d.reads[merge.net] |-> OpenChild]),
             border |-> grown.border \o open]

Growing(d, j, grown) ==
    grown = [i \in 0..Len(j.merges) |->
                IF i = 0 THEN [tree |-> j.tree, border |-> <<>>]
                ELSE ConcatIn(d, grown[i - 1], j.border[i], j.merges[i])]

\* The tree with the merges of the level so far, its border, and the leaves of
\* the level still to come.
LevelFits(d, D, j, tree, border) ==
    /\ TreeFits(d, tree, d.outputs[j.output])
    /\ FrontierFits(d, D, tree, border, j.next)
    /\ \A b \in Len(j.merges) + 1 .. Len(j.border) :
           /\ LeafFits(d, D, tree, j.border[b], j.current[b])
           /\ \A a \in 1..Len(border) : ~SamePlace(border[a], j.border[b])
    /\ \A m \in DOMAIN tree : \A k \in DOMAIN d.reads[m] :
           tree[m][k].type # "Table" =>
               \/ \E a \in 1..Len(border) : IsAt(border[a], m, k)
               \/ \E b \in Len(j.merges) + 1 .. Len(j.border) : IsAt(j.border[b], m, k)
    /\ DOMAIN tree = DOMAIN j.tree \union
           {j.merges[i].net : i \in {i \in 1..Len(j.merges) : j.merges[i].type = "Table"}}
    /\ (\A i \in 1..Len(j.merges) : j.merges[i].type = "P") =>
           \A a \in 1..Len(border) : border[a].placed

ScanJob(output, tree, border, current, next, merges, reached) ==
    [at |-> "scan", output |-> output, tree |-> tree, border |-> border, current |-> current,
     next |-> next, merges |-> merges, reached |-> reached]

IsScanJob(j) ==
    j = ScanJob(j.output, j.tree, j.border, j.current, j.next, j.merges, j.reached)

GrownFits(d, D, j, g) ==
    g = [tree |-> g.tree, border |-> g.border] /\ LevelFits(d, D, j, g.tree, g.border)

\* Within a level.
Scanning(d, D, j) ==
    /\ j.at = "scan"
    /\ IsScanJob(j)
    /\ TreeFits(d, j.tree, d.outputs[j.output])
    /\ FrontierFits(d, D, j.tree, j.border, j.current)
    /\ j.merges \in Seq([type : {"P", "Table"}, net : Nets])
    /\ Len(j.merges) <= Len(j.current)
    /\ \A i \in 1..Len(j.merges) :
           /\ j.merges[i].net = j.current[i].net
           /\ j.merges[i].type = "Table" => ~j.border[i].placed /\ ~j.reached
    /\ j.reached \in BOOLEAN
    /\ j.reached => \A i \in 1..Len(j.current) : Ends(d, D, j.current[i])
    /\ \E grown : Growing(d, j, grown) /\ GrownFits(d, D, j, grown[Len(j.merges)])

\* Converting: what a tree node still waits for is on the stack above it.
TreeIsDone(d, D, tree) ==
    \A m \in DOMAIN tree :
        /\ Clean(d, m)
        /\ tree[m] \in [DOMAIN d.reads[m] -> [type : {"P", "Table"}, net : Nets]]
        /\ \A k \in DOMAIN d.reads[m] :
               /\ tree[m][k].net = d.reads[m][k]
               /\ tree[m][k].type = "Table" => d.reads[m][k] \in DOMAIN tree
               /\ tree[m][k].type = "P" => Convertible(d, D, d.reads[m][k])

OnStack(stack, i, n) == \E q \in i..Len(stack) : stack[q].net = n

StackFits(d, D, tree, stack) ==
    /\ stack \in Seq([net : Nets, type : {"P", "Table"}, visited : BOOLEAN])
    /\ \A i \in 1..Len(stack) :
           /\ stack[i].type = "Table" => stack[i].net \in DOMAIN tree
           /\ stack[i].type = "P" => Convertible(d, D, stack[i].net) /\ ~stack[i].visited
           /\ stack[i].visited =>
                  \A k \in DOMAIN d.reads[stack[i].net] :
                      d.reads[stack[i].net][k] \in D \/ OnStack(stack, i + 1, d.reads[stack[i].net][k])

Converting(d, D, j) ==
    /\ j.at = "convert"
    /\ j = [at |-> "convert", output |-> j.output, tree |-> j.tree, stack |-> j.stack]
    /\ DOMAIN j.tree \subseteq Nets
    /\ TreeIsDone(d, D, j.tree)
    /\ StackFits(d, D, j.tree, j.stack)
    /\ d.outputs[j.output] \in D \/ OnStack(j.stack, 1, d.outputs[j.output])

JobFits(d, D, j) ==
    \/ j = Idle
    \/ Between(d, D, j)
    \/ Scanning(d, D, j)
    \/ Converting(d, D, j)

-----------------------------------------------------------------------------
(* The shared map: each expression is that of a variable, or what a gate
   makes of expressions that were there before.                             *)

Inputs(d) == {m \in Nets : d.kind[m] = "pi"}

ValueIn(d, n) ==
    IF d.kind[n] = "pi" THEN {a \in SUBSET Inputs(d) : n \in a}
    ELSE IF d.kind[n] \in {"tie1", "const1"} THEN SUBSET Inputs(d) ELSE {}

TableIn(d, n, f) ==
    {a \in SUBSET Inputs(d) : {k \in DOMAIN d.reads[n] : a \in f[d.reads[n][k]]} \in d.rows[n]}

MapFits(d, f) ==
    /\ f = [n \in DOMAIN f |-> f[n]]
    /\ DOMAIN f \subseteq Nets
    /\ \A n \in DOMAIN f :
           \/ d.kind[n] \in MappedKinds /\ f[n] = ValueIn(d, n)
           \/ /\ Clean(d, n) /\ Range(d.reads[n]) \subseteq DOMAIN f
              /\ f[n] = TableIn(d, n, f)
    /\ \A S \in SUBSET DOMAIN f : S # {} => \E n \in S : ReadsOf(d, n) \cap S = {}

-----------------------------------------------------------------------------
(* The outputs: each representative is awaited by one worker, or settled.   *)

Waits(c, j, i) == i \in Range(c) \/ (j # Idle /\ j.output = i)

Settled(d, po, why, n) ==
    \/ /\ \E e \in SUBSET SUBSET Inputs(d) : po = Expression(e) /\ IsValueOf(d, e, n)
       /\ why = {} /\ Flaws(d, n) = {}
    \/ po = Invalid /\ why # {} /\ why \subseteq Flaws(d, n)

RangeFits(c, S) ==
    /\ c \in Seq(S)
    /\ \A a, b \in 1..Len(c) : c[a] = c[b] => a = b

\* Collected and Representatives, of netlist d.
CollectedIn(d) == {i \in DOMAIN d.outputs : d.kind[d.outputs[i]] \notin {"none", "constX", "multi"}}
RepIn(d, i) ==
    CHOOSE j \in DOMAIN d.outputs :
        /\ d.outputs[j] = d.outputs[i]
        /\ \A k \in 1..(j - 1) : d.outputs[k] # d.outputs[i]
RepsIn(d) == {RepIn(d, i) : i \in CollectedIn(d)}

OutputsFit ==
    /\ DOMAIN POs = DOMAIN netlist.outputs /\ DOMAIN skipped = DOMAIN netlist.outputs
    /\ \A i \in DOMAIN netlist.outputs :
           \/ Settled(netlist, POs[i], skipped[i], netlist.outputs[i])
           \/ /\ status # "done" /\ i \in CollectedIn(netlist)
              /\ POs[i] = NotBuilt /\ skipped[i] = {}
    /\ \A w \in Workers : \A i \in RepsIn(netlist) :
           Waits(chunk[w], job[w], i) => POs[i] = NotBuilt /\ skipped[i] = {}
    /\ status = "running" =>
           \A i \in RepsIn(netlist) :
               POs[i] = NotBuilt => \E w \in Workers : Waits(chunk[w], job[w], i)

WorkersFit ==
    /\ DOMAIN chunk = Workers /\ DOMAIN job = Workers
    /\ \A w \in Workers :
           /\ RangeFits(chunk[w], RepsIn(netlist))
           /\ JobFits(netlist, DOMAIN iso2expr, job[w])
           /\ job[w] # Idle => job[w].output \in RepsIn(netlist)
           /\ job[w] # Idle => job[w].output \notin Range(chunk[w])
    /\ \A v, w \in Workers : \A i \in RepsIn(netlist) :
           Waits(chunk[v], job[v], i) /\ Waits(chunk[w], job[w], i) => v = w

IInv ==
    /\ netlist \in Netlists
    /\ status \in {"running", "done", "raised"}
    /\ MapFits(netlist, iso2expr)
    /\ chunk = [w \in DOMAIN chunk |-> chunk[w]] /\ job = [w \in DOMAIN job |-> job[w]]
    /\ POs = [i \in DOMAIN POs |-> POs[i]] /\ skipped = [i \in DOMAIN skipped |-> skipped[i]]
    /\ WorkersFit
    /\ OutputsFit
    /\ RaisesOnlyOnMismatch

-----------------------------------------------------------------------------
(* What the netlist says                                                    *)

LEMMA NetlistFacts ==
  ASSUME NEW d \in Netlists
  PROVE  /\ d.kind \in [Nets -> Kinds]
         /\ d.reads \in [Nets -> Seq(Nets)]
         /\ d.stops \in BOOLEAN
         /\ d.outputs \in Seq(Nets)
         /\ \A n \in Nets : /\ d.kind[n] = "assign" => Len(d.reads[n]) = 1
                            /\ d.rows[n] \subseteq SUBSET DOMAIN d.reads[n]
                            /\ d.kind[n] = "opaque" => d.stops
         /\ \A i \in DOMAIN d.outputs : d.kind[d.outputs[i]] # "frontier"
BY NetlistsAreWellFormed

LEMMA ReadsOfNets ==
  ASSUME NEW d \in Netlists, NEW n \in Nets
  PROVE  ReadsOf(d, n) \subseteq Nets
<1>1. d.reads[n] \in Seq(Nets)
  BY NetlistFacts
<1>2. Range(d.reads[n]) \subseteq Nets
  BY <1>1, RangeOfSeq
<1> QED BY <1>2 DEF ReadsOf

\* What is reached within k steps, as the recursion of Reached says.
LEMMA WithinSteps ==
  ASSUME NEW d \in Netlists, NEW n \in Nets
  PROVE  \E w \in [Nat -> SUBSET Nets] :
           /\ w[0] = ReadsOf(d, n)
           /\ \A k \in Nat : w[k + 1] = WithReads(d, w[k])
           /\ Reached(d, n) = w[Cardinality(Nets)]
<1> DEFINE T == SUBSET Nets
           g == [S \in T |-> WithReads(d, S)]
           a == ReadsOf(d, n)
<1>1. a \in T /\ g \in [T -> T]
  <2>1. a \in T
    BY ReadsOfNets
  <2>2. ASSUME NEW S \in T PROVE WithReads(d, S) \in T
    BY ReadsOfNets DEF WithReads
  <2> QED BY <2>1, <2>2
<1>2. PICK f : Iterates(f, T, a, g)
  <2> HIDE DEF T, g, a
  <2> QED BY <1>1, IterationExists
<1>f. f \in [Nat -> T] /\ f[0] = a /\ \A k \in Nat : f[k + 1] = g[f[k]]
  BY <1>2 DEF Iterates
<1> DEFINE h == [k \in Nat |-> IF k = 0 THEN a ELSE WithReads(d, f[k - 1])]
<1>3. ASSUME NEW k \in Nat PROVE h[k] = f[k]
  <2> HIDE DEF a
  <2>1. CASE k = 0
    BY <1>f, <2>1
  <2>2. CASE k # 0
    <3>1. k - 1 \in Nat /\ (k - 1) + 1 = k
      BY <2>2
    <3>2. f[k] = g[f[k - 1]] /\ f[k - 1] \in T
      BY <1>f, <3>1
    <3> QED BY <2>2, <3>2
  <2> QED BY <2>1, <2>2
<1>4. f = h
  <2>1. f = [k \in Nat |-> f[k]] /\ h = [k \in Nat |-> h[k]]
    BY <1>f
  <2> HIDE DEF h
  <2> QED BY <2>1, <1>3
<1> DEFINE w == CHOOSE w : w = [k \in Nat |-> IF k = 0 THEN ReadsOf(d, n) ELSE WithReads(d, w[k - 1])]
<1>5. w = [k \in Nat |-> IF k = 0 THEN ReadsOf(d, n) ELSE WithReads(d, w[k - 1])]
  BY <1>4
<1>6. Reached(d, n) = w[Cardinality(Nets)]
  BY DEF Reached
<1> HIDE DEF w
<1>7. w[0] = a /\ \A k \in Nat : w[k + 1] = WithReads(d, w[k])
  <2>1. w[0] = a
    BY <1>5
  <2>2. ASSUME NEW k \in Nat PROVE w[k + 1] = WithReads(d, w[k])
    <3>1. k + 1 \in Nat /\ k + 1 # 0 /\ (k + 1) - 1 = k
      OBVIOUS
    <3> QED BY <1>5, <3>1
  <2> QED BY <2>1, <2>2
<1>8. w \in [Nat -> T]
  <2> DEFINE S == {k \in Nat : w[k] \in T}
  <2>1. 0 \in S
    BY <1>1, <1>7
  <2>2. ASSUME NEW k \in S PROVE k + 1 \in S
    <3>1. w[k + 1] = g[w[k]] /\ w[k] \in T /\ k \in Nat
      BY <1>7
    <3> QED BY <1>1, <3>1
  <2>3. S = Nat
    <3> HIDE DEF S
    <3>1. S \in SUBSET Nat
      BY DEF S
    <3> QED BY <2>1, <2>2, <3>1, InductiveSet
  <2>4. w = [k \in Nat |-> w[k]]
    BY <1>5
  <2> HIDE DEF T, a, g
  <2> QED BY <2>3, <2>4
<1> QED BY <1>6, <1>7, <1>8

\* The steps reach a fixed point: the sets grow, and there are finitely many
\* nets.
LEMMA ReachedIsClosed ==
  ASSUME NEW d \in Netlists, NEW n \in Nets
  PROVE  /\ Reached(d, n) \subseteq Nets
         /\ ReadsOf(d, n) \subseteq Reached(d, n)
         /\ \A m \in Reached(d, n) : ReadsOf(d, m) \subseteq Reached(d, n)
<1>0. PICK w \in [Nat -> SUBSET Nets] :
        /\ w[0] = ReadsOf(d, n)
        /\ \A k \in Nat : w[k + 1] = WithReads(d, w[k])
        /\ Reached(d, n) = w[Cardinality(Nets)]
  BY WithinSteps
<1> DEFINE N == Cardinality(Nets)
<1>1. N \in Nat
  BY NetsAreFinite, FS_CardinalityType
<1>2. ASSUME NEW k \in Nat
      PROVE  /\ IsFiniteSet(w[k]) /\ Cardinality(w[k]) \in Nat
             /\ Cardinality(w[k]) <= N
             /\ Cardinality(w[k]) = N => w[k] = Nets
  <2>1. w[k] \in SUBSET Nets
    BY <1>0
  <2>2. IsFiniteSet(w[k]) /\ Cardinality(w[k]) <= N /\ (N = Cardinality(w[k]) => Nets = w[k])
    BY <2>1, NetsAreFinite, FS_Subset
  <2> QED BY <2>2, FS_CardinalityType
<1>3. ASSUME NEW k \in Nat PROVE w[k] \subseteq w[k + 1]
  BY <1>0 DEF WithReads
<1> DEFINE S == {k \in Nat : ReadsOf(d, n) \subseteq w[k] /\ (w[k + 1] = w[k] \/ Cardinality(w[k]) >= k)}
<1>4. 0 \in S
  <2>1. Cardinality(w[0]) >= 0
    BY <1>2
  <2> QED BY <1>0, <2>1
<1>5. ASSUME NEW k \in S PROVE k + 1 \in S
  <2>1. ReadsOf(d, n) \subseteq w[k + 1]
    BY <1>3
  <2>2. CASE w[k + 1] = w[k]
    <3>1. w[(k + 1) + 1] = w[k + 1]
      BY <1>0, <2>2
    <3> QED BY <2>1, <3>1
  <2>3. CASE w[k + 1] # w[k]
    <3>1. w[k] \in SUBSET w[k + 1]
      BY <1>3
    <3>2. Cardinality(w[k]) <= Cardinality(w[k + 1])
      BY <1>2, <3>1, FS_Subset
    <3>3. Cardinality(w[k]) # Cardinality(w[k + 1])
      BY <1>2, <2>3, <3>1, FS_Subset
    <3>4. Cardinality(w[k]) >= k
      BY <2>3
    <3>5. Cardinality(w[k]) \in Nat /\ Cardinality(w[k + 1]) \in Nat /\ k \in Nat
      BY <1>2
    <3>6. Cardinality(w[k + 1]) >= k + 1
      BY <3>2, <3>3, <3>4, <3>5
    <3> QED BY <2>1, <3>6
  <2> QED BY <2>2, <2>3
<1>6. N \in S
  <2> HIDE DEF S, N
  <2>1. S \in SUBSET Nat
    BY DEF S
  <2>2. S = Nat
    BY <1>4, <1>5, <2>1, InductiveSet
  <2> QED BY <1>1, <2>2
<1>7. w[N + 1] = w[N]
  <2>1. CASE Cardinality(w[N]) >= N
    <3>1. w[N] = Nets
      BY <1>1, <1>2, <2>1
    <3>2. w[N + 1] \subseteq Nets /\ w[N] \subseteq w[N + 1]
      BY <1>0, <1>1, <1>3
    <3> QED BY <3>1, <3>2
  <2> QED BY <1>6, <2>1
<1>8. \A m \in w[N] : ReadsOf(d, m) \subseteq w[N]
  <2>1. w[N] = WithReads(d, w[N])
    BY <1>0, <1>1, <1>7
  <2> QED BY <2>1 DEF WithReads
<1> QED BY <1>0, <1>1, <1>6, <1>8

\* Nothing is reached that some closed set leaves out.
LEMMA ReachedIsLeast ==
  ASSUME NEW d \in Netlists, NEW n \in Nets, NEW T,
         ReadsOf(d, n) \subseteq T, \A m \in T : ReadsOf(d, m) \subseteq T
  PROVE  Reached(d, n) \subseteq T
<1>0. PICK w \in [Nat -> SUBSET Nets] :
        /\ w[0] = ReadsOf(d, n)
        /\ \A k \in Nat : w[k + 1] = WithReads(d, w[k])
        /\ Reached(d, n) = w[Cardinality(Nets)]
  BY WithinSteps
<1> DEFINE S == {k \in Nat : w[k] \subseteq T}
<1>1. 0 \in S
  BY <1>0
<1>2. ASSUME NEW k \in S PROVE k + 1 \in S
  <2>1. w[k + 1] = WithReads(d, w[k]) /\ w[k] \subseteq T /\ k + 1 \in Nat
    BY <1>0
  <2> QED BY <2>1 DEF WithReads
<1>3. S = Nat
  <2> HIDE DEF S
  <2>1. S \in SUBSET Nat
    BY DEF S
  <2> QED BY <1>1, <1>2, <2>1, InductiveSet
<1>4. Cardinality(Nets) \in S
  BY <1>3, NetsAreFinite, FS_CardinalityType
<1> QED BY <1>0, <1>4

\* What a net of a cone reads is in the cone; what one step further reaches
\* belongs to what one net reads, or to what it reaches.
LEMMA ConeFacts ==
  ASSUME NEW d \in Netlists, NEW n \in Nets
  PROVE  /\ n \in Cone(d, n) /\ Cone(d, n) \subseteq Nets
         /\ \A m \in Cone(d, n) : ReadsOf(d, m) \subseteq Cone(d, n)
         /\ \A m \in Cone(d, n) : m # n => m \in Reached(d, n)
         /\ \A T : n \in T /\ (\A m \in T : ReadsOf(d, m) \subseteq T) => Cone(d, n) \subseteq T
<1>1. /\ Reached(d, n) \subseteq Nets
      /\ ReadsOf(d, n) \subseteq Reached(d, n)
      /\ \A m \in Reached(d, n) : ReadsOf(d, m) \subseteq Reached(d, n)
  BY ReachedIsClosed
<1>2. ASSUME NEW T, n \in T, \A m \in T : ReadsOf(d, m) \subseteq T PROVE Cone(d, n) \subseteq T
  <2>1. Reached(d, n) \subseteq T
    BY <1>2, ReachedIsLeast
  <2> QED BY <1>2, <2>1 DEF Cone
<1>3. /\ n \in Cone(d, n) /\ Cone(d, n) \subseteq Nets
      /\ \A m \in Cone(d, n) : ReadsOf(d, m) \subseteq Cone(d, n)
      /\ \A m \in Cone(d, n) : m # n => m \in Reached(d, n)
  BY <1>1 DEF Cone
<1> QED BY <1>2, <1>3

LEMMA ReachedThrough ==
  ASSUME NEW d \in Netlists, NEW n \in Nets, NEW m \in Reached(d, n)
  PROVE  \E x \in ReadsOf(d, n) : m = x \/ m \in Reached(d, x)
<1> DEFINE T == UNION {Cone(d, x) : x \in ReadsOf(d, n)}
<1>1. ReadsOf(d, n) \subseteq Nets
  BY ReadsOfNets
<1>2. ReadsOf(d, n) \subseteq T
  BY <1>1, ConeFacts
<1>3. \A y \in T : ReadsOf(d, y) \subseteq T
  BY <1>1, ConeFacts
<1>4. Reached(d, n) \subseteq T
  <2> HIDE DEF T
  <2> QED BY <1>2, <1>3, ReachedIsLeast
<1>5. PICK x \in ReadsOf(d, n) : m \in Cone(d, x)
  BY <1>4
<1> QED BY <1>5 DEF Cone

\* The other way around.
LEMMA ReachedOn ==
  ASSUME NEW d \in Netlists, NEW n \in Nets, NEW m \in Cone(d, n), NEW x \in ReadsOf(d, m)
  PROVE  x \in Reached(d, n)
<1>1. CASE m = n
  BY <1>1, ReachedIsClosed
<1>2. CASE m # n
  BY <1>2, ConeFacts, ReachedIsClosed
<1> QED BY <1>1, <1>2

-----------------------------------------------------------------------------
(* A finished expression is the function of its net                         *)

LEMMA MappedReadsNothing ==
  ASSUME NEW d \in Netlists, NEW n \in Nets, d.kind[n] \in MappedKinds
  PROVE  ReadsOf(d, n) = {} /\ Reached(d, n) = {} /\ Cone(d, n) = {n}
<1>1. ReadsOf(d, n) = {}
  BY DEF ReadsOf, MappedKinds, InputKinds, ConstantKinds
<1>2. Reached(d, n) \subseteq {}
  BY <1>1, ReachedIsLeast
<1> QED BY <1>1, <1>2 DEF Cone

LEMMA CleanReads ==
  ASSUME NEW d \in Netlists, NEW n, Clean(d, n)
  PROVE  /\ n \in Nets /\ ReadsOf(d, n) = Range(d.reads[n])
         /\ d.kind[n] \notin MappedKinds
         /\ d.reads[n] \in Seq(Nets)
         /\ \A k \in DOMAIN d.reads[n] : d.reads[n][k] \in Nets /\ d.reads[n][k] \in ReadsOf(d, n)
<1>1. n \in Nets /\ d.reads[n] \in Seq(Nets)
  BY NetlistFacts DEF Clean
<1>2. ReadsOf(d, n) = Range(d.reads[n]) /\ d.kind[n] \notin MappedKinds
  BY DEF ReadsOf, Clean, MappedKinds, InputKinds, ConstantKinds
<1>3. \A k \in DOMAIN d.reads[n] : d.reads[n][k] \in Nets
  BY <1>1, ElementOfSeq, LenProperties
<1> QED BY <1>1, <1>2, <1>3 DEF Range

LEMMA MapIsClosed ==
  ASSUME NEW d \in Netlists, NEW f, MapFits(d, f), NEW n \in DOMAIN f
  PROVE  n \in Nets /\ Cone(d, n) \subseteq DOMAIN f
<1>1. ASSUME NEW m \in DOMAIN f PROVE ReadsOf(d, m) \subseteq DOMAIN f
  <2>1. m \in Nets
    BY DEF MapFits
  <2>2. CASE d.kind[m] \in MappedKinds
    BY <2>1, <2>2, MappedReadsNothing
  <2>3. CASE Clean(d, m) /\ Range(d.reads[m]) \subseteq DOMAIN f
    BY <2>3, CleanReads
  <2> QED BY <2>2, <2>3 DEF MapFits
<1>2. n \in Nets
  BY DEF MapFits
<1> QED BY <1>1, <1>2, ConeFacts

LEMMA DrivenByMap ==
  ASSUME NEW d \in Netlists, NEW f, MapFits(d, f), NEW m \in DOMAIN f,
         NEW a \in SUBSET Inputs(d), NEW V,
         \A x \in ReadsOf(d, m) : x \in V <=> a \in f[x]
  PROVE  DrivenTo1(d, m, V, a) <=> a \in f[m]
<1>1. CASE d.kind[m] \in MappedKinds /\ f[m] = ValueIn(d, m)
  BY <1>1 DEF DrivenTo1, ValueIn, MappedKinds, InputKinds
<1>2. CASE Clean(d, m) /\ f[m] = TableIn(d, m, f)
  <2>1. \A k \in DOMAIN d.reads[m] : d.reads[m][k] \in V <=> a \in f[d.reads[m][k]]
    BY <1>2, CleanReads
  <2>2. {k \in DOMAIN d.reads[m] : d.reads[m][k] \in V}
          = {k \in DOMAIN d.reads[m] : a \in f[d.reads[m][k]]}
    BY <2>1
  <2>3. a \in f[m] <=> {k \in DOMAIN d.reads[m] : a \in f[d.reads[m][k]]} \in d.rows[m]
    BY <1>2 DEF TableIn
  <2>4. DrivenTo1(d, m, V, a) <=> {k \in DOMAIN d.reads[m] : d.reads[m][k] \in V} \in d.rows[m]
    BY <1>2 DEF DrivenTo1, Clean
  <2> QED BY <2>2, <2>3, <2>4
<1> QED BY <1>1, <1>2 DEF MapFits

LEMMA MapIsValue ==
  ASSUME NEW d \in Netlists, NEW f, MapFits(d, f), NEW n \in DOMAIN f
  PROVE  IsValueOf(d, f[n], n) /\ f[n] \in SUBSET SUBSET Inputs(d)
<1>0. /\ n \in Nets /\ Cone(d, n) \subseteq DOMAIN f
      /\ n \in Cone(d, n) /\ \A m \in Cone(d, n) : ReadsOf(d, m) \subseteq Cone(d, n)
  BY MapIsClosed, ConeFacts
<1>1. f[n] \in SUBSET SUBSET Inputs(d)
  <2>1. ValueIn(d, n) \subseteq SUBSET Inputs(d)
    BY DEF ValueIn
  <2>2. TableIn(d, n, f) \subseteq SUBSET Inputs(d)
    BY DEF TableIn
  <2>3. f[n] = ValueIn(d, n) \/ f[n] = TableIn(d, n, f)
    BY DEF MapFits
  <2> QED BY <2>1, <2>2, <2>3
<1>2. ASSUME NEW a \in SUBSET Inputs(d)
      PROVE  /\ Valuations(d, n, a) # {}
             /\ \A V \in Valuations(d, n, a) : n \in V <=> a \in f[n]
  <2> DEFINE V0 == {m \in Cone(d, n) : a \in f[m]}
  <2>1. V0 \in Valuations(d, n, a)
    <3>1. ASSUME NEW m \in Cone(d, n) PROVE m \in V0 <=> DrivenTo1(d, m, V0, a)
      <4>1. \A x \in ReadsOf(d, m) : x \in V0 <=> a \in f[x]
        BY <1>0
      <4>2. m \in DOMAIN f
        BY <1>0
      <4> HIDE DEF V0
      <4>3. DrivenTo1(d, m, V0, a) <=> a \in f[m]
        BY <4>1, <4>2, DrivenByMap
      <4> QED BY <4>3 DEF V0
    <3>2. V0 \in SUBSET Cone(d, n)
      OBVIOUS
    <3> HIDE DEF V0
    <3> QED BY <3>1, <3>2 DEF Valuations
  <2>2. ASSUME NEW V \in Valuations(d, n, a) PROVE n \in V <=> a \in f[n]
    <3> DEFINE S == {m \in Cone(d, n) : ~ (m \in V <=> a \in f[m])}
    <3>1. SUFFICES ASSUME S # {} PROVE FALSE
      BY <1>0
    <3>2. S \in SUBSET DOMAIN f
      BY <1>0
    <3>3. PICK m \in S : ReadsOf(d, m) \cap S = {}
      <4> HIDE DEF S
      <4> QED BY <3>1, <3>2 DEF MapFits
    <3>4. \A x \in ReadsOf(d, m) : x \in V <=> a \in f[x]
      BY <1>0, <3>3
    <3>5. DrivenTo1(d, m, V, a) <=> a \in f[m]
      BY <3>2, <3>4, DrivenByMap
    <3>6. m \in V <=> DrivenTo1(d, m, V, a)
      BY DEF Valuations
    <3> QED BY <3>5, <3>6
  <2> QED BY <2>1, <2>2
<1> QED BY <1>1, <1>2 DEF IsValueOf, Inputs

\* A loop has no first net.
LEMMA MapHasNoLoop ==
  ASSUME NEW d \in Netlists, NEW f, MapFits(d, f), NEW n \in DOMAIN f
  PROVE  n \notin Reached(d, n)
<1> SUFFICES ASSUME n \in Reached(d, n) PROVE FALSE
  OBVIOUS
<1>0. /\ n \in Nets /\ Cone(d, n) \subseteq DOMAIN f /\ Cone(d, n) \subseteq Nets
      /\ n \in Cone(d, n) /\ \A m \in Cone(d, n) : ReadsOf(d, m) \subseteq Cone(d, n)
  BY MapIsClosed, ConeFacts
<1> DEFINE S == {x \in Cone(d, n) : n \in Reached(d, x)}
<1>1. S # {} /\ S \in SUBSET DOMAIN f
  BY <1>0
<1>2. PICK x \in S : ReadsOf(d, x) \cap S = {}
  <2> HIDE DEF S
  <2> QED BY <1>1 DEF MapFits
<1>3. PICK y \in ReadsOf(d, x) : n = y \/ n \in Reached(d, y)
  BY <1>0, ReachedThrough
<1>4. y \in S
  BY <1>0, <1>3
<1> QED BY <1>2, <1>4

LEMMA MapHasNoFlaws ==
  ASSUME NEW d \in Netlists, NEW f, MapFits(d, f), NEW n \in DOMAIN f
  PROVE  Flaws(d, n) = {}
<1>1. ASSUME NEW m \in DOMAIN f PROVE FlawOf(d, m) = {}
  <2>1. d.kind[m] \in MappedKinds \union {"gate", "assign"}
    BY DEF MapFits, Clean
  <2>2. m \notin Reached(d, m)
    BY MapHasNoLoop
  <2> QED BY <2>1, <2>2 DEF FlawOf, MappedKinds, InputKinds
<1>2. Cone(d, n) \subseteq DOMAIN f
  BY MapIsClosed
<1> QED BY <1>1, <1>2 DEF Flaws

\* A variable or a constant is its own function, published or not.
LEMMA MappedIsValue ==
  ASSUME NEW d \in Netlists, NEW n \in Nets, d.kind[n] \in MappedKinds
  PROVE  /\ IsValueOf(d, ValueIn(d, n), n) /\ Flaws(d, n) = {}
         /\ ValueIn(d, n) \in SUBSET SUBSET Inputs(d)
<1> DEFINE f == [m \in {n} |-> ValueIn(d, n)]
<1>1. MapFits(d, f)
  <2>1. ReadsOf(d, n) = {}
    BY MappedReadsNothing
  <2> QED BY <2>1 DEF MapFits
<1>2. n \in DOMAIN f /\ f[n] = ValueIn(d, n)
  OBVIOUS
<1> HIDE DEF f
<1>3. IsValueOf(d, f[n], n) /\ f[n] \in SUBSET SUBSET Inputs(d) /\ Flaws(d, n) = {}
  BY <1>1, <1>2, MapIsValue, MapHasNoFlaws
<1> QED BY <1>2, <1>3

\* The map stays right when a net is published whose reads are in it.
LEMMA PublishFits ==
  ASSUME NEW d \in Netlists, NEW f, MapFits(d, f), NEW n \in Nets, n \notin DOMAIN f, NEW e,
         \/ d.kind[n] \in MappedKinds /\ e = ValueIn(d, n)
         \/ Clean(d, n) /\ Range(d.reads[n]) \subseteq DOMAIN f /\ e = TableIn(d, n, f)
  PROVE  MapFits(d, With(f, n, e))
<1> DEFINE g == With(f, n, e)
<1>1. /\ g = [x \in DOMAIN g |-> g[x]]
      /\ DOMAIN g = {n} \union DOMAIN f
      /\ g[n] = e
      /\ \A x \in DOMAIN f : x # n => g[x] = f[x]
  BY DEF With
<1> HIDE DEF g
<1>2. DOMAIN f \subseteq Nets /\ \A x \in DOMAIN f : g[x] = f[x]
  BY <1>1 DEF MapFits
<1>3. ASSUME NEW m \in Nets, Clean(d, m), Range(d.reads[m]) \subseteq DOMAIN f
      PROVE  TableIn(d, m, g) = TableIn(d, m, f)
  <2>1. \A k \in DOMAIN d.reads[m] : g[d.reads[m][k]] = f[d.reads[m][k]]
    BY <1>2, <1>3 DEF Range
  <2>2. \A a : {k \in DOMAIN d.reads[m] : a \in g[d.reads[m][k]]}
                 = {k \in DOMAIN d.reads[m] : a \in f[d.reads[m][k]]}
    BY <2>1
  <2> QED BY <2>2 DEF TableIn
<1>4. ASSUME NEW m \in DOMAIN g
      PROVE  \/ d.kind[m] \in MappedKinds /\ g[m] = ValueIn(d, m)
             \/ /\ Clean(d, m) /\ Range(d.reads[m]) \subseteq DOMAIN g
                /\ g[m] = TableIn(d, m, g)
  <2>1. CASE m = n
    BY <1>1, <1>3, <2>1
  <2>2. CASE m # n
    <3>1. m \in DOMAIN f /\ g[m] = f[m] /\ m \in Nets
      BY <1>1, <1>2, <2>2
    <3>2. CASE d.kind[m] \in MappedKinds /\ f[m] = ValueIn(d, m)
      BY <3>1, <3>2
    <3>3. CASE Clean(d, m) /\ Range(d.reads[m]) \subseteq DOMAIN f /\ f[m] = TableIn(d, m, f)
      BY <1>1, <1>3, <3>1, <3>3
    <3> QED BY <3>1, <3>2, <3>3 DEF MapFits
  <2> QED BY <2>1, <2>2
<1>5. ReadsOf(d, n) \subseteq DOMAIN f
  BY MappedReadsNothing, CleanReads
<1>6. ASSUME NEW S \in SUBSET DOMAIN g, S # {}
      PROVE  \E m \in S : ReadsOf(d, m) \cap S = {}
  <2>1. CASE S \subseteq {n}
    BY <1>5, <1>6, <2>1
  <2>2. CASE ~ (S \subseteq {n})
    <3> DEFINE U == S \ {n}
    <3>1. U # {} /\ U \in SUBSET DOMAIN f
      BY <1>1, <2>2
    <3>2. PICK m \in U : ReadsOf(d, m) \cap U = {}
      <4> HIDE DEF U
      <4> QED BY <3>1 DEF MapFits
    <3>3. ReadsOf(d, m) \subseteq DOMAIN f
      <4>1. m \in DOMAIN f
        BY <3>1
      <4>2. m \in Nets /\ m \in Cone(d, m) /\ Cone(d, m) \subseteq DOMAIN f
        BY <4>1, MapIsClosed, ConeFacts
      <4> QED BY <4>2, ConeFacts
    <3>4. ReadsOf(d, m) \cap S = {}
      BY <3>2, <3>3
    <3> QED BY <3>2, <3>4
  <2> QED BY <2>1, <2>2
<1>7. DOMAIN g \subseteq Nets
  BY <1>1, <1>2
<1>8. MapFits(d, g)
  BY <1>1, <1>4, <1>6, <1>7 DEF MapFits
<1> QED BY <1>8 DEF g

-----------------------------------------------------------------------------
(* What the loop check finds is a loop of the netlist                       *)

LEMMA ConesNest ==
  ASSUME NEW d \in Netlists, NEW n \in Nets, NEW m \in Cone(d, n)
  PROVE  Cone(d, m) \subseteq Cone(d, n)
<1>1. m \in Nets /\ \A x \in Cone(d, n) : ReadsOf(d, x) \subseteq Cone(d, n)
  BY ConeFacts
<1> DEFINE T == Cone(d, n)
<1>2. m \in T /\ \A x \in T : ReadsOf(d, x) \subseteq T
  BY <1>1
<1> HIDE DEF T
<1>3. Cone(d, m) \subseteq T
  BY <1>1, <1>2, ConeFacts
<1> QED BY <1>3 DEF T

LEMMA TreeReads ==
  ASSUME NEW d \in Netlists, NEW tree, NEW o \in Nets, TreeFits(d, tree, o),
         NEW m \in DOMAIN tree, NEW k \in DOMAIN d.reads[m]
  PROVE  /\ m \in Nets /\ d.reads[m][k] \in Nets
         /\ d.reads[m][k] \in ReadsOf(d, m)
         /\ m \in Cone(d, o) /\ d.reads[m][k] \in Cone(d, o)
<1>1. Clean(d, m) /\ m \in Cone(d, o)
  BY DEF TreeFits
<1> QED BY <1>1, CleanReads, ConeFacts

LEMMA AboveReaches ==
  ASSUME NEW d \in Netlists, NEW tree, NEW o \in Nets, TreeFits(d, tree, o),
         NEW n \in DOMAIN tree, NEW m \in AndAbove(tree, n)
  PROVE  m \in DOMAIN tree /\ n \in Cone(d, m)
<1> DEFINE S == {x \in DOMAIN tree : n \in Cone(d, x)}
<1>0. \A x \in DOMAIN tree : x \in Nets
  BY DEF TreeFits, Clean
<1>1. n \in S
  BY <1>0, ConeFacts
<1>2. ASSUME NEW c \in S, NEW p \in ParentsOf(tree, c) PROVE p \in S
  <2>1. PICK k \in DOMAIN tree[p] : tree[p][k] = Merge("Table", c) /\ p \in DOMAIN tree
    BY DEF ParentsOf
  <2>2. k \in DOMAIN d.reads[p] /\ tree[p][k] # OpenChild /\ tree[p][k].net = c
    BY <2>1 DEF TreeFits, Merge, OpenChild
  <2>3. d.reads[p][k] = c
    BY <2>1, <2>2 DEF TreeFits
  <2>4. p \in Nets /\ c \in ReadsOf(d, p)
    BY <2>1, <2>2, <2>3, TreeReads
  <2>5. c \in Cone(d, p)
    BY <2>4, ConeFacts
  <2>6. Cone(d, c) \subseteq Cone(d, p)
    BY <2>4, <2>5, ConesNest
  <2> QED BY <2>1, <2>6
<1>3. S \in {U \in SUBSET DOMAIN tree : \A c \in U : ParentsOf(tree, c) \subseteq U}
  <2>1. S \in SUBSET DOMAIN tree
    OBVIOUS
  <2> HIDE DEF S
  <2> QED BY <1>2, <2>1
<1>4. m \in S
  <2> HIDE DEF S
  <2> QED BY <1>1, <1>3 DEF AndAbove
<1> QED BY <1>4

LEMMA BehindAssignStays ==
  ASSUME netlist \in Netlists, NEW b \in [net : Nets, seen : SUBSET Nets]
  PROVE  /\ BehindAssign(b) \in [net : Nets, seen : SUBSET Nets]
         /\ BehindAssign(b).net \in {b.net} \union ReadsOf(netlist, b.net)
<1>1. CASE Kind(b.net) = "assign" /\ b.net \notin b.seen
  <2>1. Clean(netlist, b.net) /\ Len(netlist.reads[b.net]) = 1
    BY <1>1, NetlistFacts DEF Clean, Kind
  <2>2. 1 \in DOMAIN netlist.reads[b.net]
    BY <2>1, CleanReads, LenProperties
  <2>3. Reads(b.net)[1] \in Nets /\ Reads(b.net)[1] \in ReadsOf(netlist, b.net)
    BY <2>1, <2>2, CleanReads DEF Reads
  <2> QED BY <1>1, <2>3 DEF BehindAssign
<1>2. CASE ~ (Kind(b.net) = "assign" /\ b.net \notin b.seen)
  BY <1>2 DEF BehindAssign
<1> QED BY <1>1, <1>2

LEMMA ResolvedIsBehind ==
  ASSUME netlist \in Netlists, NEW n \in Nets
  PROVE  ResolveTransparent(n) \in Cone(netlist, n)
<1> DEFINE T == [net : Nets, seen : SUBSET Nets]
           a == [net |-> n, seen |-> {}]
<1>1. a \in T
  OBVIOUS
<1>g. PICK g : g \in [T -> T] /\ \A b \in T : g[b] = BehindAssign(b)
  <2> DEFINE G == [b \in T |-> BehindAssign(b)]
  <2>1. G \in [T -> T]
    BY BehindAssignStays
  <2>2. \A b \in T : G[b] = BehindAssign(b)
    OBVIOUS
  <2> HIDE DEF G, T
  <2> QED BY <2>1, <2>2
<1>2. PICK f : Iterates(f, T, a, g)
  <2>1. a \in T /\ g \in [T -> T]
    BY <1>1, <1>g
  <2> HIDE DEF T, a
  <2> QED BY <2>1, IterationExists
<1>f. f \in [Nat -> T] /\ f[0] = a /\ \A k \in Nat : f[k + 1] = g[f[k]]
  BY <1>2 DEF Iterates
<1> DEFINE h == [k \in Nat |-> IF k = 0 THEN a ELSE BehindAssign(f[k - 1])]
<1>3. ASSUME NEW k \in Nat PROVE h[k] = f[k]
  <2>1. CASE k = 0
    BY <1>f, <2>1
  <2>2. CASE k # 0
    <3>1. k - 1 \in Nat /\ (k - 1) + 1 = k
      BY <2>2
    <3>2. f[k] = g[f[k - 1]] /\ f[k - 1] \in T
      BY <1>f, <3>1
    <3>3. f[k] = BehindAssign(f[k - 1])
      BY <1>g, <3>2
    <3> QED BY <2>2, <3>3
  <2> QED BY <2>1, <2>2
<1>4. f = h
  <2>1. f = [k \in Nat |-> f[k]] /\ h = [k \in Nat |-> h[k]]
    BY <1>f
  <2> HIDE DEF h
  <2> QED BY <2>1, <1>3
<1> DEFINE w == CHOOSE w : w = [k \in Nat |->
                   IF k = 0 THEN [net |-> n, seen |-> {}] ELSE BehindAssign(w[k - 1])]
<1>5. w = [k \in Nat |-> IF k = 0 THEN [net |-> n, seen |-> {}] ELSE BehindAssign(w[k - 1])]
  BY <1>4
<1>6. ResolveTransparent(n) = w[Cardinality(Nets)].net
  BY DEF ResolveTransparent
<1> HIDE DEF w
<1> DEFINE S == {k \in Nat : w[k] \in T /\ w[k].net \in Cone(netlist, n)}
<1>7. 0 \in S
  <2>1. w[0] = a
    BY <1>5
  <2> QED BY <1>1, <2>1, ConeFacts
<1>8. ASSUME NEW k \in S PROVE k + 1 \in S
  <2>1. k + 1 \in Nat /\ k + 1 # 0 /\ (k + 1) - 1 = k
    OBVIOUS
  <2>2. w[k + 1] = BehindAssign(w[k])
    BY <1>5, <2>1
  <2>3. w[k] \in T /\ w[k].net \in Cone(netlist, n)
    OBVIOUS
  <2>4. w[k + 1] \in T /\ w[k + 1].net \in {w[k].net} \union ReadsOf(netlist, w[k].net)
    BY <2>2, <2>3, BehindAssignStays
  <2> QED BY <2>1, <2>3, <2>4, ConeFacts
<1>9. S = Nat
  <2>1. S \in SUBSET Nat
    OBVIOUS
  <2> HIDE DEF S
  <2> QED BY <1>7, <1>8, <2>1, InductiveSet
<1>10. Cardinality(Nets) \in S
  BY <1>9, NetsAreFinite, FS_CardinalityType
<1> QED BY <1>6, <1>10

\* A flaw of a net is one of every cone it is in.
LEMMA FlawsOfCone ==
  ASSUME NEW d \in Netlists, NEW o \in Nets, NEW m \in Cone(d, o)
  PROVE  FlawOf(d, m) \subseteq Flaws(d, o)
BY DEF Flaws

LEMMA LoopIsReal ==
  ASSUME netlist \in Netlists, NEW o \in Nets, NEW j, NEW i,
         TreeFits(netlist, j.tree, o), LoopAt(j, i),
         j.border[i].parent \in DOMAIN j.tree,
         NEW k \in DOMAIN netlist.reads[j.border[i].parent],
         j.merges[i].net = netlist.reads[j.border[i].parent][k]
  PROVE  "LogicalLoop" \in Flaws(netlist, o)
<1> DEFINE p == j.border[i].parent
           n == j.merges[i].net
           target == IF n \in DOMAIN j.tree THEN n ELSE ResolveTransparent(n)
<1>1. p \in Nets /\ n \in Nets /\ n \in ReadsOf(netlist, p)
  BY TreeReads
<1>2. target \in AndAbove(j.tree, p)
  BY DEF LoopAt
<1>3. target \in Cone(netlist, n)
  BY <1>1, ConeFacts, ResolvedIsBehind
<1> HIDE DEF target, n, p
<1>4. target \in DOMAIN j.tree /\ p \in Cone(netlist, target)
  BY <1>2, AboveReaches DEF p
<1>5. Clean(netlist, target) /\ target \in Cone(netlist, o) /\ target \in Nets
  BY <1>4 DEF TreeFits, Clean
<1>6. n \in Reached(netlist, target)
  BY <1>1, <1>4, <1>5, ReachedOn
<1>7. target \in Reached(netlist, target)
  <2> DEFINE T == Reached(netlist, target)
  <2>1. n \in T /\ \A m \in T : ReadsOf(netlist, m) \subseteq T
    BY <1>5, <1>6, ReachedIsClosed
  <2> HIDE DEF T
  <2>2. Cone(netlist, n) \subseteq T
    BY <1>1, <2>1, ConeFacts
  <2> QED BY <1>3, <2>2 DEF T
<1>8. FlawOf(netlist, target) = {"LogicalLoop"}
  BY <1>5, <1>7 DEF FlawOf, Clean
<1> QED BY <1>5, <1>8, FlawsOfCone

-----------------------------------------------------------------------------
(* What the others publish disturbs nothing                                 *)

LEMMA MoreEnds ==
  ASSUME NEW d, NEW D, NEW E, D \subseteq E, NEW leaf, Ends(d, D, leaf)
  PROVE  Ends(d, E, leaf)
BY DEF Ends

LEMMA MoreLeafFits ==
  ASSUME NEW d, NEW D, NEW E, D \subseteq E, NEW tree, NEW leaf, NEW e,
         LeafFits(d, D, tree, leaf, e)
  PROVE  LeafFits(d, E, tree, leaf, e)
BY MoreEnds DEF LeafFits

LEMMA MoreFrontierFits ==
  ASSUME NEW d, NEW D, NEW E, D \subseteq E, NEW tree, NEW border, NEW next,
         FrontierFits(d, D, tree, border, next)
  PROVE  FrontierFits(d, E, tree, border, next)
BY MoreLeafFits DEF FrontierFits

LEMMA MoreLevelFits ==
  ASSUME NEW d, NEW D, NEW E, D \subseteq E, NEW j, NEW tree, NEW border,
         LevelFits(d, D, j, tree, border)
  PROVE  LevelFits(d, E, j, tree, border)
<1>1. FrontierFits(d, E, tree, border, j.next)
  BY MoreFrontierFits DEF LevelFits
<1>2. \A b \in Len(j.merges) + 1 .. Len(j.border) :
        LeafFits(d, E, tree, j.border[b], j.current[b])
  BY MoreLeafFits DEF LevelFits
<1> QED BY <1>1, <1>2 DEF LevelFits

LEMMA MoreScanning ==
  ASSUME NEW d, NEW D, NEW E, D \subseteq E, NEW j, Scanning(d, D, j)
  PROVE  Scanning(d, E, j)
<1>1. PICK grown : Growing(d, j, grown) /\ GrownFits(d, D, j, grown[Len(j.merges)])
  BY DEF Scanning
<1>2. GrownFits(d, E, j, grown[Len(j.merges)])
  BY <1>1, MoreLevelFits DEF GrownFits
<1>3. FrontierFits(d, E, j.tree, j.border, j.current)
  BY MoreFrontierFits DEF Scanning
<1>4. j.reached => \A i \in 1..Len(j.current) : Ends(d, E, j.current[i])
  BY MoreEnds DEF Scanning
<1> QED BY <1>1, <1>2, <1>3, <1>4 DEF Scanning

LEMMA MoreStackFits ==
  ASSUME NEW d, NEW D, NEW E, D \subseteq E, NEW tree, NEW stack, StackFits(d, D, tree, stack)
  PROVE  StackFits(d, E, tree, stack)
BY DEF StackFits, Convertible

LEMMA MoreTreeIsDone ==
  ASSUME NEW d, NEW D, NEW E, D \subseteq E, NEW tree, TreeIsDone(d, D, tree)
  PROVE  TreeIsDone(d, E, tree)
<1>1. ASSUME NEW m \in DOMAIN tree, NEW k \in DOMAIN d.reads[m], tree[m][k].type = "P"
      PROVE  Convertible(d, E, d.reads[m][k])
  <2>1. Convertible(d, D, d.reads[m][k])
    BY <1>1 DEF TreeIsDone
  <2> QED BY <2>1 DEF Convertible
<1> QED BY <1>1 DEF TreeIsDone

LEMMA MoreJobFits ==
  ASSUME NEW d, NEW D, NEW E, D \subseteq E, NEW j, JobFits(d, D, j)
  PROVE  JobFits(d, E, j)
<1>1. CASE j = Idle
  BY <1>1 DEF JobFits
<1>2. CASE Between(d, D, j)
  BY <1>2, MoreFrontierFits DEF JobFits, Between
<1>3. CASE Scanning(d, D, j)
  BY <1>3, MoreScanning DEF JobFits
<1>4. CASE Converting(d, D, j)
  <2>1. TreeIsDone(d, E, j.tree) /\ StackFits(d, E, j.tree, j.stack)
    BY <1>4, MoreTreeIsDone, MoreStackFits DEF Converting
  <2> QED BY <1>4, <2>1 DEF JobFits, Converting
<1> QED BY <1>1, <1>2, <1>3, <1>4 DEF JobFits

-----------------------------------------------------------------------------
(* Borders                                                                  *)

\* Two borders of one tree without a common place.
Apart(b1, b2) == \A i \in 1..Len(b1) : \A k \in 1..Len(b2) : ~SamePlace(b1[i], b2[k])

LEMMA FrontiersJoin ==
  ASSUME NEW d, NEW D, NEW tree, NEW b1, NEW n1, NEW b2, NEW n2,
         FrontierFits(d, D, tree, b1, n1), FrontierFits(d, D, tree, b2, n2),
         Apart(b1, b2)
  PROVE  /\ FrontierFits(d, D, tree, b1 \o b2, n1 \o n2)
         /\ Len(b1 \o b2) = Len(b1) + Len(b2)
         /\ \A i \in 1..Len(b1) : (b1 \o b2)[i] = b1[i]
         /\ \A i \in 1..Len(b2) : (b1 \o b2)[Len(b1) + i] = b2[i]
<1> DEFINE b == b1 \o b2
           n == n1 \o n2
<1>0. /\ b1 \in Seq(BorderLeaves) /\ b2 \in Seq(BorderLeaves)
      /\ n1 \in Seq(Leaves) /\ n2 \in Seq(Leaves)
      /\ Len(n1) = Len(b1) /\ Len(n2) = Len(b2)
      /\ Len(b1) \in Nat /\ Len(b2) \in Nat
  BY LenProperties DEF FrontierFits
<1>1. /\ b \in Seq(BorderLeaves) /\ n \in Seq(Leaves)
      /\ Len(b) = Len(b1) + Len(b2) /\ Len(n) = Len(b)
      /\ \A i \in 1..Len(b1) + Len(b2) :
           /\ b[i] = IF i <= Len(b1) THEN b1[i] ELSE b2[i - Len(b1)]
           /\ n[i] = IF i <= Len(b1) THEN n1[i] ELSE n2[i - Len(b1)]
  <2>1. /\ b \in Seq(BorderLeaves) /\ Len(b) = Len(b1) + Len(b2)
        /\ \A i \in 1..Len(b1) + Len(b2) :
             b[i] = IF i <= Len(b1) THEN b1[i] ELSE b2[i - Len(b1)]
    BY <1>0, ConcatProperties
  <2>2. /\ n \in Seq(Leaves) /\ Len(n) = Len(n1) + Len(n2)
        /\ \A i \in 1..Len(n1) + Len(n2) :
             n[i] = IF i <= Len(n1) THEN n1[i] ELSE n2[i - Len(n1)]
    BY <1>0, ConcatProperties
  <2> HIDE DEF b, n
  <2> QED BY <1>0, <2>1, <2>2
<1> HIDE DEF b, n
<1>2. /\ \A i \in 1..Len(b1) : b[i] = b1[i] /\ n[i] = n1[i]
      /\ \A i \in 1..Len(b2) : b[Len(b1) + i] = b2[i] /\ n[Len(b1) + i] = n2[i]
  <2>1. ASSUME NEW i \in 1..Len(b1) PROVE b[i] = b1[i] /\ n[i] = n1[i]
    BY <1>0, <1>1
  <2>2. ASSUME NEW i \in 1..Len(b2) PROVE b[Len(b1) + i] = b2[i] /\ n[Len(b1) + i] = n2[i]
    <3>1. Len(b1) + i \in 1..Len(b1) + Len(b2) /\ ~ (Len(b1) + i <= Len(b1)) /\ Len(b1) + i - Len(b1) = i
      BY <1>0
    <3> QED BY <1>1, <3>1
  <2> QED BY <2>1, <2>2
<1>3. ASSUME NEW i \in 1..Len(b)
      PROVE  \/ i \in 1..Len(b1) /\ b[i] = b1[i] /\ n[i] = n1[i]
             \/ /\ i - Len(b1) \in 1..Len(b2)
                /\ b[i] = b2[i - Len(b1)] /\ n[i] = n2[i - Len(b1)]
                /\ i = Len(b1) + (i - Len(b1))
  <2>1. /\ i \in 1..Len(b1) + Len(b2)
        /\ i = Len(b1) + (i - Len(b1))
        /\ i <= Len(b1) => i \in 1..Len(b1)
        /\ ~ (i <= Len(b1)) => i - Len(b1) \in 1..Len(b2)
    BY <1>0, <1>1
  <2>2. /\ b[i] = IF i <= Len(b1) THEN b1[i] ELSE b2[i - Len(b1)]
        /\ n[i] = IF i <= Len(b1) THEN n1[i] ELSE n2[i - Len(b1)]
    BY <1>1, <2>1
  <2> QED BY <2>1, <2>2
<1>4. \A i \in 1..Len(b) : LeafFits(d, D, tree, b[i], n[i])
  BY <1>3 DEF FrontierFits
<1>5. ASSUME NEW i \in 1..Len(b), NEW k \in 1..Len(b), SamePlace(b[i], b[k])
      PROVE  i = k
  <2>1. CASE i \in 1..Len(b1) /\ k \in 1..Len(b1)
    BY <1>2, <1>5, <2>1 DEF FrontierFits
  <2>2. CASE i \notin 1..Len(b1) /\ k \notin 1..Len(b1)
    <3>1. i - Len(b1) = k - Len(b1)
      BY <1>3, <1>5, <2>2 DEF FrontierFits
    <3> QED BY <1>0, <3>1
  <2>0. \A x \in 1..Len(b1) : \A y \in 1..Len(b2) : ~SamePlace(b1[x], b2[y])
    BY DEF Apart
  <2>3. CASE i \in 1..Len(b1) /\ k \notin 1..Len(b1)
    <3>1. b[i] = b1[i] /\ k - Len(b1) \in 1..Len(b2) /\ b[k] = b2[k - Len(b1)]
      BY <1>2, <1>3, <2>3
    <3> QED BY <1>5, <2>0, <2>3, <3>1
  <2>4. CASE i \notin 1..Len(b1) /\ k \in 1..Len(b1)
    <3>1. b[k] = b1[k] /\ i - Len(b1) \in 1..Len(b2) /\ b[i] = b2[i - Len(b1)]
      BY <1>2, <1>3, <2>4
    <3>2. SamePlace(b[k], b[i])
      BY <1>5 DEF SamePlace
    <3> QED BY <2>0, <2>4, <3>1, <3>2
  <2> QED BY <2>1, <2>2, <2>3, <2>4
<1>6. FrontierFits(d, D, tree, b, n)
  BY <1>1, <1>4, <1>5 DEF FrontierFits
<1> QED BY <1>1, <1>2, <1>6 DEF b, n

LEMMA OneLeafFits ==
  ASSUME NEW d, NEW D, NEW tree, NEW leaf \in BorderLeaves, NEW e \in Leaves,
         LeafFits(d, D, tree, leaf, e)
  PROVE  FrontierFits(d, D, tree, <<leaf>>, <<e>>)
<1>1. /\ <<leaf>> \in Seq(BorderLeaves) /\ <<e>> \in Seq(Leaves)
      /\ Len(<<leaf>>) = 1 /\ Len(<<e>>) = 1
      /\ \A i \in 1..1 : i = 1
      /\ <<leaf>>[1] = leaf /\ <<e>>[1] = e
  OBVIOUS
<1> QED BY <1>1 DEF FrontierFits

LEMMA EmptyFrontierFits ==
  ASSUME NEW d, NEW D, NEW tree
  PROVE  FrontierFits(d, D, tree, <<>>, <<>>)
<1>1. <<>> \in Seq(BorderLeaves) /\ <<>> \in Seq(Leaves) /\ Len(<<>>) = 0 /\ 1..0 = {}
  BY EmptySeq
<1> QED BY <1>1 DEF FrontierFits

OpenIn(d, n) == [k \in DOMAIN d.reads[n] |-> [parent |-> n, pos |-> k, placed |-> FALSE]]
PinsIn(d, n) == [k \in DOMAIN d.reads[n] |-> [net |-> d.reads[n][k], driver |-> FALSE]]
TableOf(d, n) == [k \in DOMAIN d.reads[n] |-> OpenChild]

\* The open positions of a table that has just been placed.
LEMMA OpenLeavesFit ==
  ASSUME NEW d \in Netlists, NEW D, NEW tree, NEW n \in DOMAIN tree, Clean(d, n),
         tree[n] = TableOf(d, n)
  PROVE  /\ FrontierFits(d, D, tree, OpenIn(d, n), PinsIn(d, n))
         /\ Len(OpenIn(d, n)) = Len(d.reads[n])
         /\ \A i \in 1..Len(OpenIn(d, n)) :
              OpenIn(d, n)[i] = [parent |-> n, pos |-> i, placed |-> FALSE]
<1>1. /\ n \in Nets /\ d.reads[n] \in Seq(Nets) /\ Len(d.reads[n]) \in Nat
      /\ DOMAIN d.reads[n] = 1..Len(d.reads[n])
      /\ \A k \in 1..Len(d.reads[n]) : d.reads[n][k] \in Nets
  BY CleanReads, LenProperties
<1> DEFINE b == OpenIn(d, n)
           p == PinsIn(d, n)
           L == Len(d.reads[n])
<1>2. b \in Seq(BorderLeaves) /\ Len(b) = L
  BY <1>1 DEF OpenIn, BorderLeaves
<1>3. p \in Seq(Leaves) /\ Len(p) = L
  BY <1>1 DEF PinsIn, Leaves
<1>4. \A i \in 1..L : /\ b[i] = [parent |-> n, pos |-> i, placed |-> FALSE]
                      /\ p[i] = [net |-> d.reads[n][i], driver |-> FALSE]
  BY <1>1 DEF OpenIn, PinsIn
<1> HIDE DEF b, p
<1>5. ASSUME NEW i \in 1..L PROVE LeafFits(d, D, tree, b[i], p[i])
  <2>1. tree[n][i] = OpenChild
    BY <1>1 DEF TableOf
  <2>2. /\ b[i].parent = n /\ b[i].pos = i /\ b[i].placed = FALSE
        /\ p[i].net = d.reads[n][i]
    <3>1. /\ b[i] = [parent |-> n, pos |-> i, placed |-> FALSE]
          /\ p[i] = [net |-> d.reads[n][i], driver |-> FALSE]
      BY <1>4, Zenon
    <3> QED BY <3>1
  <2>3. i \in DOMAIN d.reads[n]
    BY <1>1
  <2> QED BY <2>1, <2>2, <2>3 DEF LeafFits
<1>6. ASSUME NEW i \in 1..L, NEW k \in 1..L, SamePlace(b[i], b[k]) PROVE i = k
  <2>1. b[i].pos = i /\ b[k].pos = k
    <3>1. /\ b[i] = [parent |-> n, pos |-> i, placed |-> FALSE]
          /\ b[k] = [parent |-> n, pos |-> k, placed |-> FALSE]
      BY <1>4, Zenon
    <3> QED BY <3>1
  <2> QED BY <1>6, <2>1 DEF SamePlace
<1>7. FrontierFits(d, D, tree, b, p)
  BY <1>2, <1>3, <1>5, <1>6 DEF FrontierFits
<1> QED BY <1>2, <1>4, <1>7 DEF b, p

-----------------------------------------------------------------------------
(* One merge                                                                *)

\* Nothing that was in the tree differs, but for position q of p.
SameBut(d, tree, t, p, q) ==
    /\ DOMAIN tree \subseteq DOMAIN t
    /\ \A m \in DOMAIN tree : \A k \in DOMAIN d.reads[m] :
           ~ (m = p /\ k = q) => t[m][k] = tree[m][k]

\* t is the tree with merge at position q of p.
PlacedAt(d, tree, p, q, merge, t) ==
    /\ p \in DOMAIN tree /\ q \in DOMAIN d.reads[p]
    /\ merge \in [type : {"P", "Table"}, net : Nets]
    /\ merge.net = d.reads[p][q]
    /\ merge.type = "Table" => merge.net \in DOMAIN tree
    /\ t = [tree EXCEPT ![p][q] = merge]

LEMMA PlaceMerge ==
  ASSUME NEW d \in Netlists, NEW tree, NEW o \in Nets, TreeFits(d, tree, o),
         NEW p, NEW q, NEW merge, NEW t, PlacedAt(d, tree, p, q, merge, t)
  PROVE  /\ TreeFits(d, t, o) /\ DOMAIN t = DOMAIN tree
         /\ t[p][q] = merge /\ SameBut(d, tree, t, p, q)
<1>0. /\ p \in DOMAIN tree /\ q \in DOMAIN d.reads[p]
      /\ merge \in [type : {"P", "Table"}, net : Nets]
      /\ merge.net = d.reads[p][q]
      /\ merge.type = "Table" => merge.net \in DOMAIN tree
      /\ t = [tree EXCEPT ![p][q] = merge]
  BY DEF PlacedAt
<1>1. /\ \A m \in DOMAIN tree : tree[m] \in [DOMAIN d.reads[m] -> Children]
      /\ tree = [m \in DOMAIN tree |-> tree[m]]
  BY DEF TreeFits
<1>2. /\ t = [m \in DOMAIN tree |-> t[m]] /\ DOMAIN t = DOMAIN tree
      /\ t[p] = [tree[p] EXCEPT ![q] = merge]
      /\ \A m \in DOMAIN tree : m # p => t[m] = tree[m]
  BY <1>0, <1>1
<1>3. merge \in Children
  BY <1>0 DEF Children
<1>4. t[p] \in [DOMAIN d.reads[p] -> Children] /\ t[p][q] = merge
      /\ \A k \in DOMAIN d.reads[p] : k # q => t[p][k] = tree[p][k]
  BY <1>0, <1>1, <1>2, <1>3
<1>5. SameBut(d, tree, t, p, q)
  BY <1>2, <1>4 DEF SameBut
<1>6. ASSUME NEW m \in DOMAIN t
      PROVE  /\ Clean(d, m) /\ m \in Cone(d, o)
             /\ t[m] \in [DOMAIN d.reads[m] -> Children]
             /\ \A k \in DOMAIN d.reads[m] :
                    /\ t[m][k] # OpenChild => t[m][k].net = d.reads[m][k]
                    /\ t[m][k].type = "Table" => d.reads[m][k] \in DOMAIN t
  <2>1. /\ Clean(d, m) /\ m \in Cone(d, o)
        /\ tree[m] \in [DOMAIN d.reads[m] -> Children]
        /\ \A k \in DOMAIN d.reads[m] :
               /\ tree[m][k] # OpenChild => tree[m][k].net = d.reads[m][k]
               /\ tree[m][k].type = "Table" => d.reads[m][k] \in DOMAIN tree
    BY <1>2 DEF TreeFits
  <2>2. CASE m # p
    BY <1>2, <2>1, <2>2
  <2>3. CASE m = p
    BY <1>0, <1>2, <1>4, <2>1, <2>3
  <2> QED BY <2>2, <2>3
<1>7. o \in DOMAIN t
  BY <1>2 DEF TreeFits
<1>8. TreeFits(d, t, o)
  BY <1>2, <1>6, <1>7 DEF TreeFits
<1> QED BY <1>2, <1>4, <1>5, <1>8

WithTable(d, tree, n) == With(tree, n, TableOf(d, n))

\* n may get a table in a tree of the cone of o.
IsNewIn(d, tree, o, n) == n \in Cone(d, o) /\ Clean(d, n) /\ n \notin DOMAIN tree

HasTable(d, tree, n, t) ==
    /\ DOMAIN t = DOMAIN tree \union {n} /\ t[n] = TableOf(d, n)
    /\ \A m \in DOMAIN tree : t[m] = tree[m]

LEMMA AddTable ==
  ASSUME NEW d \in Netlists, NEW tree, NEW o \in Nets, TreeFits(d, tree, o),
         NEW n, IsNewIn(d, tree, o, n)
  PROVE  /\ TreeFits(d, WithTable(d, tree, n), o)
         /\ HasTable(d, tree, n, WithTable(d, tree, n))
<1> DEFINE t == WithTable(d, tree, n)
<1>1. /\ t = [m \in DOMAIN t |-> t[m]] /\ DOMAIN t = DOMAIN tree \union {n}
      /\ t[n] = TableOf(d, n) /\ \A m \in DOMAIN tree : t[m] = tree[m]
  BY DEF With, WithTable, IsNewIn
<1>n. n \in Cone(d, o) /\ Clean(d, n) /\ n \notin DOMAIN tree
  BY DEF IsNewIn
<1> HIDE DEF t
<1>2. ASSUME NEW m \in DOMAIN t
      PROVE  /\ Clean(d, m) /\ m \in Cone(d, o)
             /\ t[m] \in [DOMAIN d.reads[m] -> Children]
             /\ \A k \in DOMAIN d.reads[m] :
                    /\ t[m][k] # OpenChild => t[m][k].net = d.reads[m][k]
                    /\ t[m][k].type = "Table" => d.reads[m][k] \in DOMAIN t
  <2>1. CASE m = n
    <3>1. /\ TableOf(d, n) \in [DOMAIN d.reads[n] -> Children]
          /\ \A k \in DOMAIN d.reads[n] : TableOf(d, n)[k] = OpenChild
      BY DEF TableOf, Children
    <3>2. OpenChild.type # "Table"
      BY DEF OpenChild
    <3> QED BY <1>1, <1>n, <2>1, <3>1, <3>2
  <2>2. CASE m # n
    <3>1. m \in DOMAIN tree /\ t[m] = tree[m]
      BY <1>1, <2>2
    <3>2. /\ Clean(d, m) /\ m \in Cone(d, o)
          /\ tree[m] \in [DOMAIN d.reads[m] -> Children]
          /\ \A k \in DOMAIN d.reads[m] :
                 /\ tree[m][k] # OpenChild => tree[m][k].net = d.reads[m][k]
                 /\ tree[m][k].type = "Table" => d.reads[m][k] \in DOMAIN tree
      BY <3>1 DEF TreeFits
    <3> QED BY <1>1, <3>1, <3>2
  <2> QED BY <2>1, <2>2
<1>3. o \in DOMAIN t
  BY <1>1 DEF TreeFits
<1>4. TreeFits(d, t, o)
  BY <1>1, <1>2, <1>3 DEF TreeFits
<1> QED BY <1>1, <1>4 DEF t, HasTable

Placed(tree, p, q, merge) == [tree EXCEPT ![p][q] = merge]

LEMMA PlaceAndAdd ==
  ASSUME NEW tree, tree = [m \in DOMAIN tree |-> tree[m]], NEW p \in DOMAIN tree, NEW q, NEW merge,
         NEW n, n \notin DOMAIN tree, NEW e
  PROVE  With(Placed(tree, p, q, merge), n, e) = Placed(With(tree, n, e), p, q, merge)
<1> DEFINE x == [tree EXCEPT ![p][q] = merge]
           y == With(tree, n, e)
           z == [y EXCEPT ![p][q] = merge]
           w == With(x, n, e)
<1>1. DOMAIN x = DOMAIN tree /\ x[p] = [tree[p] EXCEPT ![q] = merge]
      /\ \A m \in DOMAIN tree : m # p => x[m] = tree[m]
  OBVIOUS
<1>2. DOMAIN y = DOMAIN tree \union {n} /\ y[n] = e
      /\ \A m \in DOMAIN tree : y[m] = tree[m]
  BY DEF With
<1>3. /\ z = [m \in DOMAIN z |-> z[m]] /\ DOMAIN z = DOMAIN y
      /\ z[p] = [y[p] EXCEPT ![q] = merge]
      /\ \A m \in DOMAIN y : m # p => z[m] = y[m]
  <2>1. p \in DOMAIN y
    BY <1>2
  <2> HIDE DEF y
  <2> QED BY <2>1
<1>4. /\ w = [m \in DOMAIN w |-> w[m]] /\ DOMAIN w = DOMAIN x \union {n} /\ w[n] = e
      /\ \A m \in DOMAIN x : m # n => w[m] = x[m]
  <2> HIDE DEF x
  <2> QED BY DEF With
<1> HIDE DEF x, y, z, w
<1>5. DOMAIN z = DOMAIN w
  BY <1>1, <1>2, <1>3, <1>4
<1>6. ASSUME NEW m \in DOMAIN w PROVE w[m] = z[m]
  BY <1>1, <1>2, <1>3, <1>4
<1>7. w = z
  BY <1>3, <1>4, <1>5, <1>6
<1> QED BY <1>7 DEF w, x, y, z, Placed

LEMMA LeafKept ==
  ASSUME NEW d, NEW D, NEW tree, NEW t, NEW p, NEW q, SameBut(d, tree, t, p, q),
         NEW leaf, NEW e, LeafFits(d, D, tree, leaf, e), ~IsAt(leaf, p, q)
  PROVE  LeafFits(d, D, t, leaf, e)
BY DEF LeafFits, SameBut, IsAt

LEMMA FrontierKept ==
  ASSUME NEW d, NEW D, NEW tree, NEW t, NEW p, NEW q, SameBut(d, tree, t, p, q),
         NEW border, NEW next, FrontierFits(d, D, tree, border, next),
         \A a \in 1..Len(border) : ~IsAt(border[a], p, q)
  PROVE  FrontierFits(d, D, t, border, next)
BY LeafKept DEF FrontierFits

-----------------------------------------------------------------------------
(* One merge of a level                                                     *)

\* What the tree t and the border b after merge, at leaf, owe to those before.
Merged(d, D, tree, border, leaf, merge, t, b, o, next) ==
    /\ TreeFits(d, t, o)
    /\ SameBut(d, tree, t, leaf.parent, leaf.pos)
    /\ FrontierFits(d, D, t, b, next)
    /\ \A a \in 1..Len(b) :
           \/ \E c \in 1..Len(border) : SamePlace(b[a], border[c])
           \/ SamePlace(b[a], leaf)
           \/ b[a].parent \notin DOMAIN tree
    /\ \A c \in 1..Len(border) : \E a \in 1..Len(b) : SamePlace(b[a], border[c])
    /\ t[leaf.parent][leaf.pos].type # "Table" => \E a \in 1..Len(b) : SamePlace(b[a], leaf)
    /\ \A m \in DOMAIN t \ DOMAIN tree : \A k \in DOMAIN d.reads[m] :
           \E a \in 1..Len(b) : IsAt(b[a], m, k)
    /\ DOMAIN t = DOMAIN tree \union (IF merge.type = "Table" THEN {merge.net} ELSE {})
    /\ merge.type = "P" /\ (\A c \in 1..Len(border) : border[c].placed) =>
           \A a \in 1..Len(b) : b[a].placed

LEMMA LevelStep ==
  ASSUME NEW d, NEW D, NEW j, NEW tree, NEW border, LevelFits(d, D, j, tree, border),
         NEW M, j.merges \in Seq(M), Len(j.border) \in Nat, Len(j.merges) < Len(j.border),
         \A b, c \in 1..Len(j.border) : SamePlace(j.border[b], j.border[c]) => b = c,
         NEW merge \in M, NEW j2,
         j2.output = j.output, j2.tree = j.tree, j2.border = j.border,
         j2.current = j.current, j2.merges = Append(j.merges, merge),
         NEW t, NEW b2,
         Merged(d, D, tree, border, j.border[Len(j.merges) + 1], merge, t, b2,
                d.outputs[j.output], j2.next)
  PROVE  LevelFits(d, D, j2, t, b2)
<1> DEFINE K == Len(j.merges)
           leaf == j.border[K + 1]
<1>0. /\ K \in Nat /\ Len(j2.merges) = K + 1
      /\ \A i \in 1..K : j2.merges[i] = j.merges[i]
      /\ j2.merges[K + 1] = merge
  <2>1. /\ Append(j.merges, merge) \in Seq(M) /\ Len(Append(j.merges, merge)) = Len(j.merges) + 1
        /\ \A i \in 1..Len(j.merges) : Append(j.merges, merge)[i] = j.merges[i]
        /\ Append(j.merges, merge)[Len(j.merges) + 1] = merge
    BY AppendProperties
  <2>2. K \in Nat
    BY LenProperties
  <2> QED BY <2>1, <2>2
<1>1. ASSUME NEW b \in K + 1 + 1 .. Len(j.border)
      PROVE  /\ b \in K + 1 .. Len(j.border) /\ b \in 1..Len(j.border)
             /\ K + 1 \in 1..Len(j.border) /\ ~SamePlace(j.border[b], leaf)
             /\ ~SamePlace(leaf, j.border[b])
  <2>1. b \in K + 1 .. Len(j.border) /\ b \in 1..Len(j.border) /\ K + 1 \in 1..Len(j.border) /\ b # K + 1
    BY <1>0
  <2>2. ~SamePlace(j.border[b], j.border[K + 1])
    BY <2>1, Zenon
  <2> QED BY <2>1, <2>2 DEF SamePlace
<1> HIDE DEF K, leaf
<1>2. ASSUME NEW b \in K + 1 + 1 .. Len(j.border)
      PROVE  /\ LeafFits(d, D, t, j.border[b], j.current[b])
             /\ \A a \in 1..Len(b2) : ~SamePlace(b2[a], j.border[b])
  <2>1. /\ LeafFits(d, D, tree, j.border[b], j.current[b])
        /\ \A a \in 1..Len(border) : ~SamePlace(border[a], j.border[b])
    BY <1>1 DEF LevelFits, K
  <2>2. ~IsAt(j.border[b], leaf.parent, leaf.pos)
    BY <1>1 DEF IsAt, SamePlace
  <2>3. SameBut(d, tree, t, leaf.parent, leaf.pos)
    BY DEF Merged, K, leaf
  <2>4. LeafFits(d, D, t, j.border[b], j.current[b])
    BY <2>1, <2>2, <2>3, LeafKept
  <2>5. ASSUME NEW a \in 1..Len(b2), SamePlace(b2[a], j.border[b]) PROVE FALSE
    <3>1. \/ \E c \in 1..Len(border) : SamePlace(b2[a], border[c])
          \/ SamePlace(b2[a], leaf)
          \/ b2[a].parent \notin DOMAIN tree
      BY DEF Merged, K, leaf
    <3>2. j.border[b].parent \in DOMAIN tree
      BY <2>1 DEF LeafFits
    <3> QED BY <1>1, <2>1, <2>5, <3>1, <3>2 DEF SamePlace
  <2> QED BY <2>4, <2>5
<1>3. ASSUME NEW m \in DOMAIN t, NEW k \in DOMAIN d.reads[m], t[m][k].type # "Table"
      PROVE  \/ \E a \in 1..Len(b2) : IsAt(b2[a], m, k)
             \/ \E b \in K + 1 + 1 .. Len(j.border) : IsAt(j.border[b], m, k)
  <2>1. CASE m \notin DOMAIN tree
    BY <2>1 DEF Merged
  <2>2. CASE m = leaf.parent /\ k = leaf.pos
    <3>1. \E a \in 1..Len(b2) : SamePlace(b2[a], leaf)
      BY <1>3, <2>2 DEF Merged, K, leaf
    <3> QED BY <2>2, <3>1 DEF SamePlace, IsAt
  <2>3. CASE m \in DOMAIN tree /\ ~ (m = leaf.parent /\ k = leaf.pos)
    <3>1. t[m][k] = tree[m][k]
      BY <2>3 DEF Merged, SameBut, K, leaf
    <3>2. \/ \E a \in 1..Len(border) : IsAt(border[a], m, k)
          \/ \E b \in K + 1 .. Len(j.border) : IsAt(j.border[b], m, k)
      BY <1>3, <2>3, <3>1 DEF LevelFits, K
    <3>3. CASE \E a \in 1..Len(border) : IsAt(border[a], m, k)
      <4>1. PICK a \in 1..Len(border) : IsAt(border[a], m, k)
        BY <3>3
      <4>2. PICK c \in 1..Len(b2) : SamePlace(b2[c], border[a])
        BY DEF Merged
      <4> QED BY <4>1, <4>2 DEF SamePlace, IsAt
    <3>4. CASE \E b \in K + 1 .. Len(j.border) : IsAt(j.border[b], m, k)
      <4>1. PICK b \in K + 1 .. Len(j.border) : IsAt(j.border[b], m, k)
        BY <3>4
      <4>2. b # K + 1
        BY <2>3, <4>1 DEF IsAt, leaf
      <4>3. b \in K + 1 + 1 .. Len(j.border)
        BY <1>0, <4>2
      <4> QED BY <4>1, <4>3
    <3> QED BY <3>2, <3>3, <3>4
  <2> QED BY <2>1, <2>2, <2>3
<1>4. DOMAIN t = DOMAIN j2.tree \union
        {j2.merges[i].net : i \in {i \in 1..Len(j2.merges) : j2.merges[i].type = "Table"}}
  <2>1. DOMAIN tree = DOMAIN j.tree \union
          {j.merges[i].net : i \in {i \in 1..K : j.merges[i].type = "Table"}}
    BY DEF LevelFits, K
  <2>2. DOMAIN t = DOMAIN tree \union (IF merge.type = "Table" THEN {merge.net} ELSE {})
    BY DEF Merged
  <2> DEFINE I1 == {i \in 1..K : j.merges[i].type = "Table"}
             I2 == {i \in 1..K + 1 : j2.merges[i].type = "Table"}
  <2>3. 1..K + 1 = 1..K \union {K + 1} /\ K + 1 \notin 1..K
    BY <1>0
  <2>4. I2 = I1 \union (IF merge.type = "Table" THEN {K + 1} ELSE {})
    BY <1>0, <2>3
  <2>5. \A i \in I1 : j2.merges[i].net = j.merges[i].net
    BY <1>0
  <2>6. {j2.merges[i].net : i \in I2}
          = {j.merges[i].net : i \in I1} \union (IF merge.type = "Table" THEN {merge.net} ELSE {})
    <3> HIDE DEF I1, I2
    <3>1. CASE merge.type = "Table"
      <4>1. I2 = I1 \union {K + 1}
        BY <2>4, <3>1
      <4>2. {j2.merges[i].net : i \in I2}
              = {j2.merges[i].net : i \in I1} \union {j2.merges[K + 1].net}
        BY <4>1
      <4>3. {j2.merges[i].net : i \in I1} = {j.merges[i].net : i \in I1}
        BY <2>5
      <4>4. j2.merges[K + 1].net = merge.net
        BY <1>0
      <4> QED BY <3>1, <4>2, <4>3, <4>4
    <3>2. CASE merge.type # "Table"
      <4>1. I2 = I1
        BY <2>4, <3>2
      <4> QED BY <2>5, <3>2, <4>1
    <3> QED BY <3>1, <3>2
  <2>7. {j2.merges[i].net : i \in {i \in 1..Len(j2.merges) : j2.merges[i].type = "Table"}}
          = {j2.merges[i].net : i \in I2}
    BY <1>0
  <2> HIDE DEF I2, I1
  <2>8. DOMAIN t = DOMAIN j.tree \union {j2.merges[i].net : i \in I2}
    BY <2>1, <2>2, <2>6 DEF I1
  <2> QED BY <2>7, <2>8
<1>5. ASSUME \A i \in 1..Len(j2.merges) : j2.merges[i].type = "P"
      PROVE  \A a \in 1..Len(b2) : b2[a].placed
  <2>0. 1..K \subseteq 1..Len(j2.merges) /\ K + 1 \in 1..Len(j2.merges)
    BY <1>0
  <2>1. merge.type = "P" /\ \A i \in 1..K : j.merges[i].type = "P"
    BY <1>0, <1>5, <2>0
  <2>2. \A c \in 1..Len(border) : border[c].placed
    BY <2>1 DEF LevelFits, K
  <2> QED BY <2>1, <2>2 DEF Merged
<1>6. TreeFits(d, t, d.outputs[j2.output]) /\ FrontierFits(d, D, t, b2, j2.next)
  BY DEF Merged
<1>7. Len(j2.merges) = K + 1 /\ j2.border = j.border /\ j2.current = j.current
  BY <1>0
<1> QED BY <1>2, <1>3, <1>4, <1>5, <1>6, <1>7 DEF LevelFits

LEMMA FrontierAndLeaf ==
  ASSUME NEW d, NEW D, NEW tree, NEW border, NEW next, FrontierFits(d, D, tree, border, next),
         NEW leaf \in BorderLeaves, NEW e \in Leaves, LeafFits(d, D, tree, leaf, e),
         \A a \in 1..Len(border) : ~SamePlace(border[a], leaf)
  PROVE  /\ FrontierFits(d, D, tree, Append(border, leaf), Append(next, e))
         /\ Len(Append(border, leaf)) = Len(border) + 1
         /\ \A a \in 1..Len(border) : Append(border, leaf)[a] = border[a]
         /\ Append(border, leaf)[Len(border) + 1] = leaf
<1>0. border \in Seq(BorderLeaves) /\ next \in Seq(Leaves)
  BY DEF FrontierFits
<1>1. Append(border, leaf) = border \o <<leaf>> /\ Append(next, e) = next \o <<e>>
  BY <1>0, AppendIsConcat
<1>2. FrontierFits(d, D, tree, <<leaf>>, <<e>>)
  BY OneLeafFits
<1>3. Len(<<leaf>>) = 1 /\ <<leaf>>[1] = leaf /\ 1 \in 1..1 /\ \A k \in 1..1 : k = 1
  OBVIOUS
<1>4. Apart(border, <<leaf>>)
  <2> SUFFICES ASSUME NEW i \in 1..Len(border), NEW k \in 1..Len(<<leaf>>)
               PROVE  ~SamePlace(border[i], <<leaf>>[k])
    BY DEF Apart
  <2>1. k = 1
    BY <1>3
  <2> QED BY <1>3, <2>1
<1>5. /\ FrontierFits(d, D, tree, border \o <<leaf>>, next \o <<e>>)
      /\ Len(border \o <<leaf>>) = Len(border) + Len(<<leaf>>)
      /\ \A i \in 1..Len(border) : (border \o <<leaf>>)[i] = border[i]
      /\ \A i \in 1..Len(<<leaf>>) : (border \o <<leaf>>)[Len(border) + i] = <<leaf>>[i]
  BY <1>2, <1>4, FrontiersJoin
<1>6. (border \o <<leaf>>)[Len(border) + 1] = leaf
  <2>1. 1 \in 1..Len(<<leaf>>)
    BY <1>3
  <2>2. (border \o <<leaf>>)[Len(border) + 1] = <<leaf>>[1]
    BY <1>5, <2>1
  <2> QED BY <1>3, <2>2
<1> QED BY <1>1, <1>3, <1>5, <1>6

\* A position that gets a P node, or keeps the one it has.
LEMMA MergePassesOn ==
  ASSUME NEW d \in Netlists, NEW D, NEW tree, NEW border, NEW next, NEW o \in Nets,
         TreeFits(d, tree, o), FrontierFits(d, D, tree, border, next),
         NEW leaf \in BorderLeaves, NEW e \in Leaves, LeafFits(d, D, tree, leaf, e),
         \A a \in 1..Len(border) : ~SamePlace(border[a], leaf),
         NEW kept \in Leaves, kept.net = e.net, Ends(d, D, kept)
  PROVE  LET g == ConcatIn(d, [tree |-> tree, border |-> border], leaf, Merge("P", e.net))
         IN Merged(d, D, tree, border, leaf, Merge("P", e.net), g.tree, g.border, o,
                   Append(next, kept))
<1> DEFINE merge == Merge("P", e.net)
           t == IF leaf.placed THEN tree ELSE [tree EXCEPT ![leaf.parent][leaf.pos] = merge]
           l == IF leaf.placed THEN leaf ELSE [leaf EXCEPT !.placed = TRUE]
           b == Append(border, l)
           g == ConcatIn(d, [tree |-> tree, border |-> border], leaf, merge)
<1>0. /\ merge \in [type : {"P", "Table"}, net : Nets] /\ merge.type = "P" /\ merge.net = e.net
      /\ merge.type # "Table"
  BY DEF Merge, Leaves
<1>1. g.tree = t /\ g.border = b
  BY <1>0 DEF ConcatIn
<1>2. /\ leaf.parent \in DOMAIN tree /\ leaf.pos \in DOMAIN d.reads[leaf.parent]
      /\ e.net = d.reads[leaf.parent][leaf.pos]
      /\ leaf.placed => tree[leaf.parent][leaf.pos] = merge
  BY DEF LeafFits
<1>l. /\ l \in BorderLeaves /\ l.parent = leaf.parent /\ l.pos = leaf.pos /\ l.placed
      /\ SamePlace(l, leaf) /\ \A x : SamePlace(x, l) <=> SamePlace(x, leaf)
  BY DEF BorderLeaves, SamePlace
<1> HIDE DEF g, merge, l
<1>3. /\ TreeFits(d, t, o) /\ DOMAIN t = DOMAIN tree
      /\ t[leaf.parent][leaf.pos] = merge /\ SameBut(d, tree, t, leaf.parent, leaf.pos)
  <2>1. CASE leaf.placed
    BY <1>2, <2>1 DEF SameBut
  <2>2. CASE ~leaf.placed
    <3>1. t = [tree EXCEPT ![leaf.parent][leaf.pos] = merge]
      BY <2>2
    <3> DEFINE p == leaf.parent
               q == leaf.pos
    <3>2. PlacedAt(d, tree, p, q, merge, t)
      BY <1>0, <1>2, <3>1 DEF PlacedAt
    <3> HIDE DEF t, p, q
    <3>3. /\ TreeFits(d, t, o) /\ DOMAIN t = DOMAIN tree
          /\ t[p][q] = merge /\ SameBut(d, tree, t, p, q)
      BY <3>2, PlaceMerge
    <3> QED BY <3>3 DEF p, q
  <2> QED BY <2>1, <2>2
<1> HIDE DEF t
<1>4. LeafFits(d, D, t, l, kept)
  <2>1. kept.net = d.reads[leaf.parent][leaf.pos] /\ t[leaf.parent][leaf.pos] = Merge("P", kept.net)
    BY <1>2, <1>3 DEF merge
  <2> QED BY <1>2, <1>3, <1>l, <2>1 DEF LeafFits
<1>5. FrontierFits(d, D, t, border, next)
  <2>1. \A a \in 1..Len(border) : ~IsAt(border[a], leaf.parent, leaf.pos)
    BY DEF IsAt, SamePlace
  <2> QED BY <1>3, <2>1, FrontierKept
<1>6. /\ FrontierFits(d, D, t, Append(border, l), Append(next, kept))
      /\ Len(Append(border, l)) = Len(border) + 1
      /\ \A a \in 1..Len(border) : Append(border, l)[a] = border[a]
      /\ Append(border, l)[Len(border) + 1] = l
  BY <1>4, <1>5, <1>l, FrontierAndLeaf
<1>7. Len(border) \in Nat
  BY LenProperties DEF FrontierFits
<1> HIDE DEF b
<1>8. /\ FrontierFits(d, D, t, b, Append(next, kept)) /\ Len(b) = Len(border) + 1
      /\ \A a \in 1..Len(border) : b[a] = border[a]
      /\ b[Len(border) + 1] = l
  BY <1>6 DEF b
<1>9. 1..Len(b) = 1..Len(border) \union {Len(border) + 1}
  BY <1>7, <1>8
<1>10. \A a \in 1..Len(b) : \/ a \in 1..Len(border) /\ b[a] = border[a]
                            \/ b[a] = l
  BY <1>8, <1>9
<1>11. \A a \in 1..Len(b) :
         \/ \E c \in 1..Len(border) : SamePlace(b[a], border[c])
         \/ SamePlace(b[a], leaf)
  BY <1>10, <1>l DEF SamePlace
<1>12. \A c \in 1..Len(border) : \E a \in 1..Len(b) : SamePlace(b[a], border[c])
  BY <1>8, <1>9 DEF SamePlace
<1>13. \E a \in 1..Len(b) : SamePlace(b[a], leaf)
  BY <1>8, <1>9, <1>l
<1>14. (\A c \in 1..Len(border) : border[c].placed) => \A a \in 1..Len(b) : b[a].placed
  BY <1>10, <1>l
<1>15. Merged(d, D, tree, border, leaf, merge, t, b, o, Append(next, kept))
  BY <1>0, <1>3, <1>8, <1>11, <1>12, <1>13, <1>14 DEF Merged
<1>16. Merged(d, D, tree, border, leaf, merge, g.tree, g.border, o, Append(next, kept))
  BY <1>1, <1>15
<1> QED BY <1>16 DEF g, merge

\* A driver that has its table already.
LEMMA MergeRepeats ==
  ASSUME NEW d \in Netlists, NEW D, NEW tree, NEW border, NEW next, NEW o \in Nets,
         TreeFits(d, tree, o), FrontierFits(d, D, tree, border, next),
         NEW leaf \in BorderLeaves, NEW e \in Leaves, LeafFits(d, D, tree, leaf, e),
         \A a \in 1..Len(border) : ~SamePlace(border[a], leaf),
         ~leaf.placed, e.net \in DOMAIN tree
  PROVE  LET g == ConcatIn(d, [tree |-> tree, border |-> border], leaf, Merge("Table", e.net))
         IN Merged(d, D, tree, border, leaf, Merge("Table", e.net), g.tree, g.border, o, next)
<1> DEFINE merge == Merge("Table", e.net)
           t == [tree EXCEPT ![leaf.parent][leaf.pos] = merge]
           g == ConcatIn(d, [tree |-> tree, border |-> border], leaf, merge)
<1>0. /\ merge \in [type : {"P", "Table"}, net : Nets] /\ merge.type = "Table" /\ merge.net = e.net
      /\ merge.type # "P"
  BY DEF Merge, Leaves
<1>2. /\ leaf.parent \in DOMAIN tree /\ leaf.pos \in DOMAIN d.reads[leaf.parent]
      /\ e.net = d.reads[leaf.parent][leaf.pos]
  BY DEF LeafFits
<1>3. /\ TreeFits(d, t, o) /\ DOMAIN t = DOMAIN tree
      /\ t[leaf.parent][leaf.pos] = merge /\ SameBut(d, tree, t, leaf.parent, leaf.pos)
  <2> DEFINE p == leaf.parent
             q == leaf.pos
  <2>1. PlacedAt(d, tree, p, q, merge, t)
    BY <1>0, <1>2 DEF PlacedAt
  <2> HIDE DEF merge, t, p, q
  <2>2. /\ TreeFits(d, t, o) /\ DOMAIN t = DOMAIN tree
        /\ t[p][q] = merge /\ SameBut(d, tree, t, p, q)
    BY <2>1, PlaceMerge
  <2> QED BY <2>2 DEF p, q
<1>1. g.tree = t /\ g.border = border
  <2>1. merge.net \in DOMAIN [tree EXCEPT ![leaf.parent][leaf.pos] = merge]
    BY <1>0
  <2> HIDE DEF merge
  <2> QED BY <1>0, <2>1 DEF ConcatIn
<1> HIDE DEF g, t, merge
<1>5. FrontierFits(d, D, t, border, next)
  <2>1. \A a \in 1..Len(border) : ~IsAt(border[a], leaf.parent, leaf.pos)
    BY DEF IsAt, SamePlace
  <2> QED BY <1>3, <2>1, FrontierKept
<1>6. Merged(d, D, tree, border, leaf, merge, t, border, o, next)
  BY <1>0, <1>3, <1>5 DEF Merged, SamePlace
<1> QED BY <1>1, <1>6 DEF g, merge

\* A driver that gets its table now: its leaves are open.
LEMMA MergeAdds ==
  ASSUME NEW d \in Netlists, NEW D, NEW tree, NEW border, NEW next, NEW o \in Nets,
         TreeFits(d, tree, o), FrontierFits(d, D, tree, border, next),
         NEW leaf \in BorderLeaves, NEW e \in Leaves, LeafFits(d, D, tree, leaf, e),
         \A a \in 1..Len(border) : ~SamePlace(border[a], leaf),
         ~leaf.placed, e.net \notin DOMAIN tree, Clean(d, e.net)
  PROVE  LET g == ConcatIn(d, [tree |-> tree, border |-> border], leaf, Merge("Table", e.net))
         IN Merged(d, D, tree, border, leaf, Merge("Table", e.net), g.tree, g.border, o,
                   next \o PinsIn(d, e.net))
<1> DEFINE n == e.net
           merge == Merge("Table", n)
           p == leaf.parent
           q == leaf.pos
           u == WithTable(d, tree, n)
           t == [u EXCEPT ![p][q] = merge]
           b == border \o OpenIn(d, n)
           g == ConcatIn(d, [tree |-> tree, border |-> border], leaf, merge)
<1>0. /\ merge \in [type : {"P", "Table"}, net : Nets] /\ merge.type = "Table" /\ merge.net = n
      /\ merge.type # "P"
  BY DEF Merge, Leaves
<1>2. /\ p \in DOMAIN tree /\ q \in DOMAIN d.reads[p] /\ n = d.reads[p][q]
      /\ p # n
  BY DEF LeafFits
<1>n. n \notin DOMAIN tree /\ Clean(d, n)
  OBVIOUS
<1>3. n \in Cone(d, o)
  BY <1>2, TreeReads
<1>4. tree = [m \in DOMAIN tree |-> tree[m]]
  BY DEF TreeFits
<1>5. With([tree EXCEPT ![p][q] = merge], n, TableOf(d, n)) = t
  <2> DEFINE e0 == TableOf(d, n)
  <2> HIDE DEF p, q, merge, n, e0
  <2>1. With([tree EXCEPT ![p][q] = merge], n, e0) = [With(tree, n, e0) EXCEPT ![p][q] = merge]
    <3>1. With(Placed(tree, p, q, merge), n, e0) = Placed(With(tree, n, e0), p, q, merge)
      BY <1>2, <1>4, <1>n, PlaceAndAdd
    <3> QED BY <3>1 DEF Placed
  <2> QED BY <2>1 DEF e0, WithTable
<1>1. g.tree = t /\ g.border = b
  <2>1. ~ (merge.net \in DOMAIN [tree EXCEPT ![leaf.parent][leaf.pos] = merge])
    BY <1>0
  <2> HIDE DEF merge, t
  <2> QED BY <1>0, <1>5, <2>1 DEF ConcatIn, TableOf, OpenIn
<1> HIDE DEF g, b, merge
<1>6. /\ TreeFits(d, u, o) /\ DOMAIN u = DOMAIN tree \union {n}
      /\ u[n] = TableOf(d, n) /\ \A m \in DOMAIN tree : u[m] = tree[m]
  <2>0. IsNewIn(d, tree, o, n)
    BY <1>3, <1>n DEF IsNewIn
  <2> HIDE DEF n
  <2>1. /\ TreeFits(d, WithTable(d, tree, n), o)
        /\ HasTable(d, tree, n, WithTable(d, tree, n))
    BY <2>0, AddTable
  <2> QED BY <2>1 DEF u, HasTable
<1> HIDE DEF u
<1>7. /\ TreeFits(d, t, o) /\ DOMAIN t = DOMAIN u
      /\ t[p][q] = merge /\ SameBut(d, u, t, p, q)
  <2>1. PlacedAt(d, u, p, q, merge, t)
    BY <1>0, <1>2, <1>6 DEF PlacedAt
  <2> HIDE DEF t, p, q, n
  <2> QED BY <1>6, <2>1, PlaceMerge
<1>8. t[n] = TableOf(d, n)
  BY <1>2, <1>6
<1> HIDE DEF t, p, q, n
<1>9. SameBut(d, tree, t, p, q)
  BY <1>6, <1>7 DEF SameBut
<1>10. FrontierFits(d, D, t, border, next)
  <2>1. \A a \in 1..Len(border) : ~IsAt(border[a], p, q)
    BY DEF IsAt, SamePlace, p, q
  <2> QED BY <1>9, <2>1, FrontierKept
<1> DEFINE open == OpenIn(d, n)
<1>d. n \in DOMAIN t
  BY <1>6, <1>7
<1>11. /\ FrontierFits(d, D, t, open, PinsIn(d, n))
       /\ Len(open) = Len(d.reads[n])
       /\ \A i \in 1..Len(open) : open[i] = [parent |-> n, pos |-> i, placed |-> FALSE]
  BY <1>d, <1>8, <1>n, OpenLeavesFit
<1>12. \A i \in 1..Len(open) : open[i].parent = n /\ open[i].pos = i
  <2> SUFFICES ASSUME NEW i \in 1..Len(open) PROVE open[i].parent = n /\ open[i].pos = i
    OBVIOUS
  <2>1. open[i] = [parent |-> n, pos |-> i, placed |-> FALSE]
    BY <1>11, Zenon
  <2> QED BY <2>1
<1> HIDE DEF open
<1>13. \A a \in 1..Len(border) : border[a].parent \in DOMAIN tree
  BY DEF FrontierFits, LeafFits
<1>14. n \notin DOMAIN tree
  BY DEF n
<1>15. Apart(border, open)
  BY <1>12, <1>13, <1>14 DEF SamePlace, Apart
<1>16. /\ FrontierFits(d, D, t, border \o open, next \o PinsIn(d, n))
       /\ Len(border \o open) = Len(border) + Len(open)
       /\ \A i \in 1..Len(border) : (border \o open)[i] = border[i]
       /\ \A i \in 1..Len(open) : (border \o open)[Len(border) + i] = open[i]
  BY <1>10, <1>11, <1>15, FrontiersJoin
<1>17. b = border \o open
  BY DEF b, open
<1>18. Len(border) \in Nat /\ Len(open) \in Nat
  <2>1. border \in Seq(BorderLeaves) /\ open \in Seq(BorderLeaves)
    BY <1>11 DEF FrontierFits
  <2> QED BY <2>1, LenProperties
<1>19. ASSUME NEW a \in 1..Len(b)
       PROVE  \/ a \in 1..Len(border) /\ b[a] = border[a]
              \/ a - Len(border) \in 1..Len(open) /\ b[a] = open[a - Len(border)]
  <2>1. CASE a <= Len(border)
    BY <1>16, <1>17, <1>18, <2>1
  <2>2. CASE ~ (a <= Len(border))
    <3>1. a - Len(border) \in 1..Len(open) /\ Len(border) + (a - Len(border)) = a
      BY <1>16, <1>17, <1>18, <2>2
    <3> DEFINE c == a - Len(border)
    <3>2. c \in 1..Len(open) /\ Len(border) + c = a
      BY <3>1
    <3> HIDE DEF c
    <3>3. (border \o open)[Len(border) + c] = open[c]
      BY <1>16, <3>2
    <3> QED BY <1>17, <3>2, <3>3 DEF c
  <2> QED BY <2>1, <2>2
<1>20. \A a \in 1..Len(b) :
         \/ \E c \in 1..Len(border) : SamePlace(b[a], border[c])
         \/ b[a].parent \notin DOMAIN tree
  <2> SUFFICES ASSUME NEW a \in 1..Len(b)
               PROVE  \/ \E c \in 1..Len(border) : SamePlace(b[a], border[c])
                      \/ b[a].parent \notin DOMAIN tree
    OBVIOUS
  <2>1. CASE a \in 1..Len(border) /\ b[a] = border[a]
    BY <2>1 DEF SamePlace
  <2>2. CASE a - Len(border) \in 1..Len(open) /\ b[a] = open[a - Len(border)]
    BY <1>12, <1>14, <2>2
  <2> QED BY <1>19, <2>1, <2>2
<1>21. 1..Len(border) \subseteq 1..Len(b)
  BY <1>16, <1>17, <1>18
<1>22. \A c \in 1..Len(border) : \E a \in 1..Len(b) : SamePlace(b[a], border[c])
  BY <1>16, <1>17, <1>21 DEF SamePlace
<1>23. ASSUME NEW k \in DOMAIN d.reads[n] PROVE \E a \in 1..Len(b) : IsAt(b[a], n, k)
  <2>1. DOMAIN d.reads[n] = 1..Len(d.reads[n])
    BY CleanReads, LenProperties DEF n
  <2>2. k \in 1..Len(open) /\ Len(border) + k \in 1..Len(b)
    BY <1>11, <1>16, <1>17, <1>18, <2>1
  <2>3. b[Len(border) + k] = open[k]
    BY <1>16, <1>17, <2>2
  <2>4. IsAt(b[Len(border) + k], n, k)
    BY <1>12, <2>2, <2>3 DEF IsAt
  <2> QED BY <2>2, <2>4
<1>24. DOMAIN t \ DOMAIN tree = {n} /\ DOMAIN t = DOMAIN tree \union {n}
  BY <1>6, <1>7, <1>14
<1>25. /\ t[leaf.parent][leaf.pos].type = "Table"
       /\ SameBut(d, tree, t, leaf.parent, leaf.pos)
       /\ FrontierFits(d, D, t, b, next \o PinsIn(d, n))
  BY <1>0, <1>7, <1>9, <1>16, <1>17 DEF p, q
<1>26. Merged(d, D, tree, border, leaf, merge, t, b, o, next \o PinsIn(d, n))
  BY <1>0, <1>7, <1>20, <1>22, <1>23, <1>24, <1>25 DEF Merged
<1>27. Merged(d, D, tree, border, leaf, merge, g.tree, g.border, o, next \o PinsIn(d, n))
  BY <1>1, <1>26
<1> QED BY <1>27 DEF g, merge, n

-----------------------------------------------------------------------------
(* The level grows by one merge                                             *)

LEMMA ConcatIsRecord ==
  ASSUME NEW d, NEW grown, grown = [tree |-> grown.tree, border |-> grown.border],
         NEW leaf, NEW merge, NEW g, g = ConcatIn(d, grown, leaf, merge)
  PROVE  g = [tree |-> g.tree, border |-> g.border]
BY DEF ConcatIn

OneMoreMerge(j, j2, merge) ==
    /\ j2.tree = j.tree /\ j2.border = j.border /\ Len(j2.merges) = Len(j.merges) + 1
    /\ \A i \in 1..Len(j.merges) : j2.merges[i] = j.merges[i]
    /\ j2.merges[Len(j.merges) + 1] = merge

LEMMA GrowingOn ==
  ASSUME NEW d, NEW j, NEW grown, Growing(d, j, grown), Len(j.merges) \in Nat,
         NEW j2, NEW merge, OneMoreMerge(j, j2, merge)
  PROVE  \E g : /\ Growing(d, j2, g)
               /\ g[Len(j2.merges)] =
                    ConcatIn(d, grown[Len(j.merges)], j.border[Len(j.merges) + 1], merge)
<1> DEFINE K == Len(j.merges)
<1>K. /\ K \in Nat /\ K = Len(j.merges)
      /\ j2.tree = j.tree /\ j2.border = j.border /\ Len(j2.merges) = K + 1
      /\ \A i \in 1..K : j2.merges[i] = j.merges[i]
      /\ j2.merges[K + 1] = merge
  BY DEF OneMoreMerge
<1> HIDE DEF K
<1> DEFINE e == ConcatIn(d, grown[K], j.border[K + 1], merge)
           g == [i \in 0..K + 1 |-> IF i = K + 1 THEN e ELSE grown[i]]
           h == [i \in 0..K + 1 |-> IF i = 0 THEN [tree |-> j.tree, border |-> <<>>]
                                    ELSE ConcatIn(d, g[i - 1], j.border[i], j2.merges[i])]
<1>0. K + 1 \in 0..K + 1 /\ K + 1 # 0 /\ (K + 1) - 1 = K /\ K \in 0..K + 1 /\ K # K + 1
  BY <1>K
<1>1. \A i \in 0..K : grown[i] = IF i = 0 THEN [tree |-> j.tree, border |-> <<>>]
                                 ELSE ConcatIn(d, grown[i - 1], j.border[i], j.merges[i])
  BY <1>K DEF Growing
<1>2. ASSUME NEW i \in 0..K + 1 PROVE g[i] = h[i]
  <2>1. CASE i = K + 1
    <3>1. g[K + 1] = e /\ g[K] = grown[K]
      BY <1>0
    <3>2. h[K + 1] = ConcatIn(d, g[K], j.border[K + 1], j2.merges[K + 1])
      BY <1>0
    <3> QED BY <1>K, <2>1, <3>1, <3>2
  <2>2. CASE i = 0
    <3>1. 0 \in 0..K /\ 0 # K + 1
      BY <1>K
    <3> QED BY <1>1, <2>2, <3>1
  <2>3. CASE i # 0 /\ i # K + 1
    <3>1. i \in 0..K /\ i \in 1..K /\ i - 1 \in 0..K + 1 /\ i - 1 # K + 1
      BY <1>K, <2>3
    <3>2. g[i] = grown[i] /\ g[i - 1] = grown[i - 1]
      BY <2>3, <3>1
    <3>3. h[i] = ConcatIn(d, g[i - 1], j.border[i], j2.merges[i])
      BY <2>3
    <3>4. grown[i] = ConcatIn(d, grown[i - 1], j.border[i], j.merges[i])
      BY <1>1, <2>3, <3>1
    <3>5. j2.merges[i] = j.merges[i]
      BY <1>K, <3>1
    <3> HIDE DEF g, h
    <3> QED BY <3>2, <3>3, <3>4, <3>5
  <2> QED BY <2>1, <2>2, <2>3
<1>3. g = h
  <2>1. g = [i \in 0..K + 1 |-> g[i]] /\ h = [i \in 0..K + 1 |-> h[i]]
    OBVIOUS
  <2> HIDE DEF g, h
  <2> QED BY <1>2, <2>1
<1>4. Growing(d, j2, g)
  <2>1. h = [i \in 0..Len(j2.merges) |-> IF i = 0 THEN [tree |-> j2.tree, border |-> <<>>]
                                    ELSE ConcatIn(d, g[i - 1], j2.border[i], j2.merges[i])]
    BY <1>K
  <2> HIDE DEF g, h
  <2> QED BY <1>3, <2>1 DEF Growing
<1>5. g[K + 1] = e
  BY <1>0
<1> QED BY <1>4, <1>5, <1>K

\* j with one more merge, and another frontier.
OneMerged(j, j2, next, merge) ==
    /\ j2.at = "scan" /\ j2.output = j.output /\ j2.tree = j.tree /\ j2.border = j.border
    /\ j2.current = j.current /\ j2.next = next /\ j2.merges = Append(j.merges, merge)
    /\ j2.reached = j.reached
    /\ IsScanJob(j2)

LEMMA MergedJob ==
  ASSUME NEW j, IsScanJob(j), NEW next, NEW merge
  PROVE  OneMerged(j, [j EXCEPT !.next = next, !.merges = Append(@, merge)], next, merge)
<1> DEFINE o == j.output
           t == j.tree
           b == j.border
           c == j.current
           n == j.next
           m == j.merges
           r == j.reached
           j2 == [j EXCEPT !.next = next, !.merges = Append(@, merge)]
<1>1. j = ScanJob(o, t, b, c, n, m, r)
  BY DEF IsScanJob
<1>2. j.output = o /\ j.tree = t /\ j.border = b /\ j.current = c /\ j.merges = m /\ j.reached = r
  OBVIOUS
<1> DEFINE m2 == Append(j.merges, merge)
<1>a. j2 = [j EXCEPT !.next = next, !.merges = m2]
  OBVIOUS
<1>b. m2 = Append(m, merge)
  OBVIOUS
<1> HIDE DEF o, t, b, c, n, m, r, m2, j2
<1>c. j = [at |-> "scan", output |-> o, tree |-> t, border |-> b, current |-> c,
           next |-> n, merges |-> m, reached |-> r]
  BY <1>1 DEF ScanJob
<1>d. j2 = [at |-> "scan", output |-> o, tree |-> t, border |-> b, current |-> c,
            next |-> next, merges |-> m2, reached |-> r]
  BY <1>a, <1>c
<1>3. j2 = ScanJob(o, t, b, c, next, Append(m, merge), r)
  BY <1>b, <1>d DEF ScanJob
<1>4. /\ j2.at = "scan" /\ j2.output = o /\ j2.tree = t /\ j2.border = b /\ j2.current = c
      /\ j2.next = next /\ j2.merges = Append(m, merge) /\ j2.reached = r
  BY <1>3 DEF ScanJob
<1>5. IsScanJob(j2)
  BY <1>3, <1>4 DEF IsScanJob
<1>6. OneMerged(j, j2, next, merge)
  BY <1>2, <1>4, <1>5 DEF OneMerged
<1> QED BY <1>6 DEF j2

LEMMA LevelGrows ==
  ASSUME NEW d \in Netlists, NEW D, NEW j, Scanning(d, D, j),
         Len(j.merges) < Len(j.current),
         NEW grown, Growing(d, j, grown), GrownFits(d, D, j, grown[Len(j.merges)]),
         NEW merge \in [type : {"P", "Table"}, net : Nets], NEW next,
         merge.net = j.current[Len(j.merges) + 1].net,
         merge.type = "Table" => ~j.border[Len(j.merges) + 1].placed /\ ~j.reached,
         NEW g, g = ConcatIn(d, grown[Len(j.merges)], j.border[Len(j.merges) + 1], merge),
         Merged(d, D, grown[Len(j.merges)].tree, grown[Len(j.merges)].border,
                j.border[Len(j.merges) + 1], merge, g.tree, g.border, d.outputs[j.output], next),
         NEW j2, OneMerged(j, j2, next, merge)
  PROVE  Scanning(d, D, j2)
<1> DEFINE K == Len(j.merges)
           S == [type : {"P", "Table"}, net : Nets]
<1>1. j.merges \in Seq(S) /\ FrontierFits(d, D, j.tree, j.border, j.current)
  BY DEF Scanning
<1>3. /\ j2.at = "scan" /\ j2.output = j.output /\ j2.tree = j.tree /\ j2.border = j.border
      /\ j2.current = j.current /\ j2.next = next /\ j2.merges = Append(j.merges, merge)
      /\ j2.reached = j.reached
      /\ IsScanJob(j2)
  BY DEF OneMerged
<1>4. /\ Append(j.merges, merge) \in Seq(S) /\ Len(Append(j.merges, merge)) = K + 1
      /\ \A i \in 1..K : Append(j.merges, merge)[i] = j.merges[i]
      /\ Append(j.merges, merge)[K + 1] = merge
  BY <1>1, AppendProperties
<1>5. K \in Nat /\ Len(j.border) \in Nat /\ Len(j.current) = Len(j.border)
  BY <1>1, LenProperties DEF FrontierFits
<1> HIDE DEF K, S
<1>6. LevelFits(d, D, j2, g.tree, g.border)
  <2>1. LevelFits(d, D, j, grown[K].tree, grown[K].border)
    BY DEF GrownFits, K
  <2>2. \A b, c \in 1..Len(j.border) : SamePlace(j.border[b], j.border[c]) => b = c
    BY <1>1 DEF FrontierFits
  <2>3. merge \in S /\ Len(j.merges) < Len(j.border)
    BY <1>5 DEF S
  <2>4. Merged(d, D, grown[K].tree, grown[K].border, j.border[Len(j.merges) + 1], merge,
               g.tree, g.border, d.outputs[j.output], j2.next)
    BY <1>3 DEF K
  <2> QED BY <1>1, <1>3, <1>5, <2>1, <2>2, <2>3, <2>4, LevelStep
<1>7. \E gr : Growing(d, j2, gr) /\ GrownFits(d, D, j2, gr[Len(j2.merges)])
  <2>1. PICK gr : /\ Growing(d, j2, gr)
                  /\ gr[Len(j2.merges)] =
                       ConcatIn(d, grown[Len(j.merges)], j.border[Len(j.merges) + 1], merge)
    <3>1. OneMoreMerge(j, j2, merge)
      BY <1>3, <1>4 DEF K, OneMoreMerge
    <3>2. Growing(d, j, grown) /\ Len(j.merges) \in Nat
      BY <1>5 DEF K
    <3> HIDE DEF K
    <3> QED BY <3>1, <3>2, GrowingOn
  <2>2. gr[Len(j2.merges)] = g
    BY <2>1
  <2>3. g = [tree |-> g.tree, border |-> g.border]
    <3>1. grown[K] = [tree |-> grown[K].tree, border |-> grown[K].border]
      BY DEF GrownFits, K
    <3>2. g = ConcatIn(d, grown[K], j.border[K + 1], merge)
      BY DEF K
    <3> QED BY <3>1, <3>2, ConcatIsRecord
  <2>4. GrownFits(d, D, j2, gr[Len(j2.merges)])
    BY <1>6, <2>2, <2>3 DEF GrownFits
  <2> QED BY <2>1, <2>4
<1>8. \A i \in 1..Len(j2.merges) :
        /\ j2.merges[i].net = j2.current[i].net
        /\ j2.merges[i].type = "Table" => ~j2.border[i].placed /\ ~j2.reached
  <2> SUFFICES ASSUME NEW i \in 1..K + 1
               PROVE  /\ j2.merges[i].net = j2.current[i].net
                      /\ j2.merges[i].type = "Table" => ~j2.border[i].placed /\ ~j2.reached
    BY <1>3, <1>4
  <2>1. CASE i = K + 1
    <3>1. j2.merges[i] = merge
      BY <1>3, <1>4, <2>1
    <3> QED BY <1>3, <2>1, <3>1 DEF K
  <2>2. CASE i # K + 1
    <3>1. i \in 1..K
      BY <1>5, <2>2
    <3>2. j2.merges[i] = j.merges[i]
      BY <1>3, <1>4, <3>1
    <3>3. /\ j.merges[i].net = j.current[i].net
          /\ j.merges[i].type = "Table" => ~j.border[i].placed /\ ~j.reached
      BY <3>1 DEF Scanning, K
    <3> QED BY <1>3, <3>2, <3>3
  <2> QED BY <2>1, <2>2
<1>9. Len(j2.merges) <= Len(j2.current)
  BY <1>3, <1>4, <1>5 DEF K
<1>10. /\ TreeFits(d, j2.tree, d.outputs[j2.output])
       /\ FrontierFits(d, D, j2.tree, j2.border, j2.current)
       /\ j2.merges \in Seq([type : {"P", "Table"}, net : Nets])
       /\ j2.reached \in BOOLEAN
       /\ j2.reached => \A i \in 1..Len(j2.current) : Ends(d, D, j2.current[i])
  BY <1>1, <1>3, <1>4 DEF Scanning, S
<1> QED BY <1>3, <1>7, <1>8, <1>9, <1>10 DEF Scanning

-----------------------------------------------------------------------------
(* The operators of the actions, in the words of the invariant              *)

LEMMA ConcatIs ==
  ASSUME NEW grown, NEW leaf, NEW merge
  PROVE  concat(grown, leaf, merge) = ConcatIn(netlist, grown, leaf, merge)
BY DEF concat, ConcatIn, OpenLeaves, NewTable, Reads

\* The levels a function describes are those concatFull goes through.
LEMMA GrowingIsUnique ==
  ASSUME NEW d, NEW j, Len(j.merges) \in Nat, NEW f, Growing(d, j, f), NEW g, Growing(d, j, g)
  PROVE  f[Len(j.merges)] = g[Len(j.merges)]
<1> DEFINE K == Len(j.merges)
           S == {i \in Nat : i <= K => f[i] = g[i]}
<1>1. \A i \in 0..K : f[i] = IF i = 0 THEN [tree |-> j.tree, border |-> <<>>]
                             ELSE ConcatIn(d, f[i - 1], j.border[i], j.merges[i])
  BY DEF Growing
<1>2. \A i \in 0..K : g[i] = IF i = 0 THEN [tree |-> j.tree, border |-> <<>>]
                             ELSE ConcatIn(d, g[i - 1], j.border[i], j.merges[i])
  BY DEF Growing
<1> HIDE DEF K
<1>k. K \in Nat
  BY DEF K
<1>3. 0 \in S
  <2>1. 0 \in 0..K
    BY <1>k
  <2> QED BY <1>1, <1>2, <2>1
<1>4. ASSUME NEW i \in S PROVE i + 1 \in S
  <2>1. CASE i + 1 <= K
    <3>1. i \in Nat /\ i + 1 \in 0..K /\ i + 1 # 0 /\ (i + 1) - 1 = i /\ i <= K
      BY <1>k, <2>1
    <3>2. f[i] = g[i]
      BY <3>1
    <3>3. /\ f[i + 1] = ConcatIn(d, f[i], j.border[i + 1], j.merges[i + 1])
          /\ g[i + 1] = ConcatIn(d, g[i], j.border[i + 1], j.merges[i + 1])
      BY <1>1, <1>2, <3>1
    <3> QED BY <3>1, <3>2, <3>3
  <2>2. CASE ~ (i + 1 <= K)
    BY <2>2
  <2> QED BY <2>1, <2>2
<1>5. S = Nat
  <2> HIDE DEF S
  <2>1. S \in SUBSET Nat
    BY DEF S
  <2> QED BY <1>3, <1>4, <2>1, InductiveSet
<1>6. K \in S /\ K <= K
  BY <1>5, <1>k
<1>7. f[K] = g[K]
  BY <1>6
<1> QED BY <1>7 DEF K

LEMMA ConcatFullIs ==
  ASSUME NEW j, Len(j.merges) \in Nat, NEW grown, Growing(netlist, j, grown)
  PROVE  concatFull(j) = grown[Len(j.merges)]
<1> DEFINE w == CHOOSE w : w = [i \in 0..Len(j.merges) |->
                                 IF i = 0 THEN [tree |-> j.tree, border |-> <<>>]
                                 ELSE concat(w[i - 1], j.border[i], j.merges[i])]
<1>1. concatFull(j) = w[Len(j.merges)]
  BY DEF concatFull
<1>2. ASSUME NEW f
      PROVE  [i \in 0..Len(j.merges) |-> IF i = 0 THEN [tree |-> j.tree, border |-> <<>>]
                                         ELSE concat(f[i - 1], j.border[i], j.merges[i])]
             = [i \in 0..Len(j.merges) |-> IF i = 0 THEN [tree |-> j.tree, border |-> <<>>]
                                         ELSE ConcatIn(netlist, f[i - 1], j.border[i], j.merges[i])]
  BY ConcatIs
<1>3. grown = [i \in 0..Len(j.merges) |-> IF i = 0 THEN [tree |-> j.tree, border |-> <<>>]
                                          ELSE concat(grown[i - 1], j.border[i], j.merges[i])]
  BY <1>2 DEF Growing
<1>4. w = [i \in 0..Len(j.merges) |-> IF i = 0 THEN [tree |-> j.tree, border |-> <<>>]
                                      ELSE concat(w[i - 1], j.border[i], j.merges[i])]
  BY <1>3
<1> HIDE DEF w
<1>5. Growing(netlist, j, w)
  BY <1>2, <1>4 DEF Growing
<1> QED BY <1>1, <1>5, GrowingIsUnique

-----------------------------------------------------------------------------
(* Outputs                                                                  *)

LEMMA RepFacts ==
  ASSUME NEW d \in Netlists, NEW i \in DOMAIN d.outputs
  PROVE  /\ RepIn(d, i) \in DOMAIN d.outputs /\ d.outputs[RepIn(d, i)] = d.outputs[i]
         /\ d.outputs[i] \in Nets
<1> DEFINE P(j) == /\ d.outputs[j] = d.outputs[i]
                   /\ \A k \in 1..(j - 1) : d.outputs[k] # d.outputs[i]
           S == {j \in DOMAIN d.outputs : d.outputs[j] = d.outputs[i]}
<1>0. d.outputs \in Seq(Nets)
  BY NetlistFacts
<1>1. Len(d.outputs) \in Nat /\ DOMAIN d.outputs = 1..Len(d.outputs)
  BY <1>0, LenProperties
<1>2. S \in SUBSET Nat /\ S # {}
  BY <1>1
<1>3. PICK j \in S : \A m \in S : j <= m
  <2> HIDE DEF S
  <2> QED BY <1>2, LeastElement
<1>4. j \in DOMAIN d.outputs /\ P(j)
  <2>1. ASSUME NEW k \in 1..(j - 1), d.outputs[k] = d.outputs[i] PROVE FALSE
    <3>1. k \in DOMAIN d.outputs /\ ~ (j <= k)
      BY <1>1, <1>3
    <3>2. k \in S
      BY <2>1, <3>1
    <3> QED BY <1>3, <3>1, <3>2
  <2> QED BY <1>3, <2>1
<1>5. RepIn(d, i) = CHOOSE j2 \in DOMAIN d.outputs : P(j2)
  BY DEF RepIn
<1>6. RepIn(d, i) \in DOMAIN d.outputs /\ P(RepIn(d, i))
  <2> HIDE DEF P
  <2> QED BY <1>4, <1>5
<1>7. d.outputs[i] \in Nets
  BY <1>0, <1>1, ElementOfSeq
<1> QED BY <1>6, <1>7

LEMMA RepsFacts ==
  ASSUME NEW d \in Netlists, NEW r \in RepsIn(d)
  PROVE  /\ r \in CollectedIn(d) /\ r \in DOMAIN d.outputs /\ d.outputs[r] \in Nets
         /\ d.kind[d.outputs[r]] \in Kinds \ {"none", "constX", "multi", "frontier"}
<1>1. PICK i \in CollectedIn(d) : r = RepIn(d, i)
  BY DEF RepsIn
<1>2. i \in DOMAIN d.outputs /\ d.kind[d.outputs[i]] \notin {"none", "constX", "multi"}
  BY DEF CollectedIn
<1>3. r \in DOMAIN d.outputs /\ d.outputs[r] = d.outputs[i] /\ d.outputs[i] \in Nets
  BY <1>1, <1>2, RepFacts
<1>4. d.kind[d.outputs[r]] \in Kinds /\ d.kind[d.outputs[r]] # "frontier"
  BY <1>3, NetlistFacts
<1> QED BY <1>2, <1>3, <1>4 DEF CollectedIn

LEMMA RepsAre ==
  ASSUME netlist \in Netlists
  PROVE  /\ Collected = CollectedIn(netlist)
         /\ \A i \in DOMAIN Outputs : Representative(i) = RepIn(netlist, i)
         /\ Representatives = RepsIn(netlist)
<1>1. ASSUME NEW i \in DOMAIN netlist.outputs
      PROVE  CollectSkip(netlist.outputs[i]) = {}
               <=> netlist.kind[netlist.outputs[i]] \notin {"none", "constX", "multi"}
  BY DEF CollectSkip, Kind
<1>2. Collected = CollectedIn(netlist)
  BY <1>1 DEF Collected, CollectedIn, Outputs
<1>3. \A i \in DOMAIN Outputs : Representative(i) = RepIn(netlist, i)
  BY DEF Representative, RepIn, Outputs
<1>4. Representatives = RepsIn(netlist)
  <2>1. \A i \in Collected : i \in DOMAIN Outputs
    BY DEF Collected
  <2> QED BY <1>2, <1>3, <2>1 DEF Representatives, RepsIn
<1> QED BY <1>2, <1>3, <1>4

-----------------------------------------------------------------------------
(* Steps that only change the job of a worker                               *)

\* One worker goes on with its cone, and the map may grow.
GoesOn(w, j) ==
    /\ status = "running" /\ job[w] # Idle /\ j # Idle
    /\ j.output = job[w].output
    /\ job' = [job EXCEPT ![w] = j]
    /\ UNCHANGED <<netlist, chunk, POs, skipped, status>>
    /\ DOMAIN iso2expr \subseteq DOMAIN iso2expr'
    /\ MapFits(netlist, iso2expr')
    /\ JobFits(netlist, DOMAIN iso2expr', j)

LEMMA GoesOnKeeps ==
  ASSUME IInv, NEW w \in Workers, NEW j, GoesOn(w, j)
  PROVE  IInv'
<1> DEFINE D == DOMAIN iso2expr
           E == DOMAIN iso2expr'
<1>0. /\ netlist' = netlist /\ chunk' = chunk /\ POs' = POs /\ skipped' = skipped
      /\ status' = status /\ status = "running" /\ MapFits(netlist, iso2expr')
      /\ JobFits(netlist, E, j) /\ D \subseteq E /\ job[w] # Idle /\ j # Idle
      /\ j.output = job[w].output
  BY DEF GoesOn
<1>1. /\ job' = [v \in DOMAIN job' |-> job'[v]] /\ DOMAIN job' = Workers
      /\ job'[w] = j /\ \A v \in Workers : v # w => job'[v] = job[v]
  BY DEF GoesOn, IInv, WorkersFit
<1>2. \A v \in Workers : job'[v] # Idle <=> job[v] # Idle
  BY <1>0, <1>1
<1>3. \A v \in Workers : job[v] # Idle => job'[v].output = job[v].output
  BY <1>0, <1>1
<1>4. \A v \in Workers : \A c, i : Waits(c, job'[v], i) <=> Waits(c, job[v], i)
  BY <1>2, <1>3 DEF Waits
<1>5. \A v \in Workers : JobFits(netlist, E, job'[v])
  <2> SUFFICES ASSUME NEW v \in Workers PROVE JobFits(netlist, E, job'[v])
    OBVIOUS
  <2>1. JobFits(netlist, D, job[v])
    BY DEF IInv, WorkersFit
  <2>2. JobFits(netlist, E, job[v])
    BY <1>0, <2>1, MoreJobFits
  <2> QED BY <1>0, <1>1, <2>2
<1> HIDE DEF E
<1>6. WorkersFit'
  <2>1. \A v \in Workers : /\ RangeFits(chunk[v], RepsIn(netlist))
                           /\ job[v] # Idle => job[v].output \in RepsIn(netlist)
                           /\ job[v] # Idle => job[v].output \notin Range(chunk[v])
    BY DEF IInv, WorkersFit
  <2>2. \A u, v \in Workers : \A i \in RepsIn(netlist) :
          Waits(chunk[u], job'[u], i) /\ Waits(chunk[v], job'[v], i) => u = v
    BY <1>4 DEF IInv, WorkersFit
  <2>3. \A v \in Workers : /\ RangeFits(chunk[v], RepsIn(netlist))
                           /\ job'[v] # Idle => job'[v].output \in RepsIn(netlist)
                           /\ job'[v] # Idle => job'[v].output \notin Range(chunk[v])
    BY <1>2, <1>3, <2>1
  <2>4. DOMAIN chunk = Workers
    BY DEF IInv, WorkersFit
  <2> QED BY <1>0, <1>1, <1>5, <2>2, <2>3, <2>4 DEF WorkersFit, E
<1>7. OutputsFit'
  <2>1. OutputsFit
    BY DEF IInv
  <2>2. \A v \in Workers : \A i \in RepsIn(netlist) :
          Waits(chunk[v], job'[v], i) => POs[i] = NotBuilt /\ skipped[i] = {}
    BY <1>4, <2>1 DEF OutputsFit
  <2>3. \A i \in RepsIn(netlist) :
          POs[i] = NotBuilt => \E v \in Workers : Waits(chunk[v], job'[v], i)
    BY <1>0, <1>4, <2>1 DEF OutputsFit
  <2> QED BY <1>0, <2>1, <2>2, <2>3 DEF OutputsFit
<1>8. RaisesOnlyOnMismatch'
  BY <1>0 DEF RaisesOnlyOnMismatch
<1> QED BY <1>0, <1>1, <1>6, <1>7, <1>8 DEF IInv

\* The worker is done with its output: an expression, or the reason why not.
Settles(w, po, why) ==
    /\ status = "running" /\ job[w] # Idle
    /\ Settled(netlist, po, why, netlist.outputs[job[w].output])
    /\ POs' = [POs EXCEPT ![job[w].output] = po]
    /\ skipped' = [skipped EXCEPT ![job[w].output] = why]
    /\ job' = [job EXCEPT ![w] = Idle]
    /\ UNCHANGED <<netlist, chunk, iso2expr, status>>

LEMMA SettledIsNotPending ==
  ASSUME NEW d, NEW po, NEW why, NEW n, Settled(d, po, why, n)
  PROVE  po # NotBuilt
<1>1. \A e : Expression(e) # NotBuilt
  <2> SUFFICES ASSUME NEW e PROVE Expression(e) # NotBuilt
    OBVIOUS
  <2>1. Expression(e).is = "expression" /\ NotBuilt.is = "unbuilt"
    BY DEF Expression, NotBuilt
  <2> QED BY <2>1
<1>2. Invalid # NotBuilt
  <2>1. Invalid.is = "invalid" /\ NotBuilt.is = "unbuilt"
    BY DEF Invalid, NotBuilt
  <2> QED BY <2>1
<1>3. po = Invalid \/ \E e : po = Expression(e)
  BY DEF Settled
<1> QED BY <1>1, <1>2, <1>3

\* One output is settled; nobody waits for it any more.
OneSettled(w, i, po, why) ==
    /\ status = "running" /\ status' = status /\ netlist' = netlist /\ iso2expr' = iso2expr
    /\ i \in RepsIn(netlist) /\ Waits(chunk[w], job[w], i)
    /\ Settled(netlist, po, why, netlist.outputs[i])
    /\ POs' = [POs EXCEPT ![i] = po] /\ skipped' = [skipped EXCEPT ![i] = why]
    /\ chunk' = [v \in Workers |-> chunk'[v]] /\ job' = [v \in Workers |-> job'[v]]
    /\ job'[w] = Idle /\ RangeFits(chunk'[w], RepsIn(netlist))
    /\ \A k \in RepsIn(netlist) :
           Waits(chunk'[w], Idle, k) <=> k # i /\ Waits(chunk[w], job[w], k)
    /\ \A v \in Workers : v # w => chunk'[v] = chunk[v] /\ job'[v] = job[v]

LEMMA OneOutputSettled ==
  ASSUME IInv, NEW w \in Workers, NEW i, NEW po, NEW why, OneSettled(w, i, po, why)
  PROVE  IInv'
<1>a. /\ status = "running" /\ status' = status /\ netlist' = netlist /\ iso2expr' = iso2expr
      /\ i \in RepsIn(netlist) /\ Waits(chunk[w], job[w], i)
      /\ Settled(netlist, po, why, netlist.outputs[i])
      /\ job'[w] = Idle /\ RangeFits(chunk'[w], RepsIn(netlist))
      /\ \A k \in RepsIn(netlist) :
             Waits(chunk'[w], Idle, k) <=> k # i /\ Waits(chunk[w], job[w], k)
  BY DEF OneSettled
<1>b. POs' = [POs EXCEPT ![i] = po] /\ skipped' = [skipped EXCEPT ![i] = why]
  BY DEF OneSettled
<1>c. /\ chunk' = [v \in Workers |-> chunk'[v]] /\ job' = [v \in Workers |-> job'[v]]
  BY DEF OneSettled
<1>d. \A v \in Workers : v # w => chunk'[v] = chunk[v] /\ job'[v] = job[v]
  BY DEF OneSettled
<1>0. i \in DOMAIN netlist.outputs
  BY <1>a, RepsFacts DEF IInv
<1>1. /\ DOMAIN POs = DOMAIN netlist.outputs /\ DOMAIN skipped = DOMAIN netlist.outputs
      /\ POs = [k \in DOMAIN POs |-> POs[k]] /\ skipped = [k \in DOMAIN skipped |-> skipped[k]]
  BY DEF IInv, OutputsFit
<1>2. /\ POs' = [k \in DOMAIN POs' |-> POs'[k]] /\ skipped' = [k \in DOMAIN skipped' |-> skipped'[k]]
      /\ DOMAIN POs' = DOMAIN netlist.outputs /\ DOMAIN skipped' = DOMAIN netlist.outputs
      /\ POs'[i] = po /\ skipped'[i] = why
      /\ \A k \in DOMAIN netlist.outputs : k # i => POs'[k] = POs[k] /\ skipped'[k] = skipped[k]
  BY <1>0, <1>1, <1>b
<1>3. po # NotBuilt
  BY <1>a, SettledIsNotPending
<1>4. \A k \in RepsIn(netlist) : k \in DOMAIN netlist.outputs
  BY RepsFacts DEF IInv
<1>5. ASSUME NEW v \in Workers, NEW k \in RepsIn(netlist)
      PROVE  Waits(chunk'[v], job'[v], k) <=> k # i /\ Waits(chunk[v], job[v], k)
  <2>1. CASE v = w
    BY <1>a, <2>1
  <2>2. CASE v # w
    <3>1. Waits(chunk[v], job[v], k) => k # i
      BY <1>a, <2>2 DEF IInv, WorkersFit
    <3> QED BY <1>d, <2>2, <3>1
  <2> QED BY <2>1, <2>2
<1>6. WorkersFit'
  <2>1. /\ DOMAIN chunk' = Workers /\ DOMAIN job' = Workers
    BY <1>c
  <2>2. ASSUME NEW v \in Workers
        PROVE  /\ RangeFits(chunk'[v], RepsIn(netlist))
               /\ JobFits(netlist, DOMAIN iso2expr, job'[v])
               /\ job'[v] # Idle => job'[v].output \in RepsIn(netlist)
               /\ job'[v] # Idle => job'[v].output \notin Range(chunk'[v])
    <3>1. CASE v = w
      BY <1>a, <3>1 DEF JobFits
    <3>2. CASE v # w
      BY <1>a, <1>d, <3>2 DEF IInv, WorkersFit
    <3> QED BY <3>1, <3>2
  <2>3. \A u, v \in Workers : \A k \in RepsIn(netlist) :
          Waits(chunk'[u], job'[u], k) /\ Waits(chunk'[v], job'[v], k) => u = v
    BY <1>5 DEF IInv, WorkersFit
  <2> QED BY <1>a, <2>1, <2>2, <2>3 DEF WorkersFit
<1>7. OutputsFit'
  <2>1. ASSUME NEW k \in DOMAIN netlist.outputs
        PROVE  \/ Settled(netlist, POs'[k], skipped'[k], netlist.outputs[k])
               \/ /\ status # "done" /\ k \in CollectedIn(netlist)
                  /\ POs'[k] = NotBuilt /\ skipped'[k] = {}
    <3>1. CASE k = i
      BY <1>a, <1>2, <3>1
    <3>2. CASE k # i
      BY <1>a, <1>2, <3>2 DEF IInv, OutputsFit
    <3> QED BY <3>1, <3>2
  <2>2. \A v \in Workers : \A k \in RepsIn(netlist) :
          Waits(chunk'[v], job'[v], k) => POs'[k] = NotBuilt /\ skipped'[k] = {}
    BY <1>2, <1>4, <1>5 DEF IInv, OutputsFit
  <2>3. ASSUME NEW k \in RepsIn(netlist), POs'[k] = NotBuilt
        PROVE  \E v \in Workers : Waits(chunk'[v], job'[v], k)
    <3>1. k # i
      BY <1>2, <1>3, <2>3
    <3>2. POs[k] = NotBuilt
      BY <1>2, <1>4, <2>3, <3>1
    <3>3. \E v \in Workers : Waits(chunk[v], job[v], k)
      BY <1>a, <3>2 DEF IInv, OutputsFit
    <3> QED BY <1>5, <3>1, <3>3
  <2> QED BY <1>a, <1>2, <2>1, <2>2, <2>3 DEF OutputsFit
<1>8. RaisesOnlyOnMismatch'
  BY <1>a DEF RaisesOnlyOnMismatch
<1>9. /\ chunk' = [v \in DOMAIN chunk' |-> chunk'[v]] /\ job' = [v \in DOMAIN job' |-> job'[v]]
  BY <1>c
<1>10. netlist' \in Netlists /\ status' \in {"running", "done", "raised"} /\ MapFits(netlist', iso2expr')
  BY <1>a DEF IInv
<1> QED BY <1>2, <1>6, <1>7, <1>8, <1>9, <1>10 DEF IInv

LEMMA SettlesKeeps ==
  ASSUME IInv, NEW w \in Workers, NEW po, NEW why, Settles(w, po, why)
  PROVE  IInv'
<1> DEFINE i == job[w].output
<1>1. /\ status = "running" /\ status' = status /\ netlist' = netlist /\ iso2expr' = iso2expr
      /\ chunk' = chunk /\ job[w] # Idle
      /\ Settled(netlist, po, why, netlist.outputs[i])
      /\ POs' = [POs EXCEPT ![i] = po] /\ skipped' = [skipped EXCEPT ![i] = why]
      /\ job' = [job EXCEPT ![w] = Idle]
  BY DEF Settles
<1>2. /\ i \in RepsIn(netlist) /\ i \notin Range(chunk[w]) /\ RangeFits(chunk[w], RepsIn(netlist))
      /\ Waits(chunk[w], job[w], i)
  BY <1>1 DEF IInv, WorkersFit, Waits
<1>3. /\ chunk = [v \in Workers |-> chunk[v]] /\ job = [v \in Workers |-> job[v]]
  BY DEF IInv, WorkersFit
<1>4. /\ job' = [v \in Workers |-> job'[v]] /\ job'[w] = Idle
      /\ \A v \in Workers : v # w => job'[v] = job[v]
  BY <1>1, <1>3
<1>5. \A k \in RepsIn(netlist) : Waits(chunk[w], Idle, k) <=> k # i /\ Waits(chunk[w], job[w], k)
  BY <1>1, <1>2 DEF Waits
<1>6. OneSettled(w, i, po, why)
  <2> HIDE DEF i
  <2> QED BY <1>1, <1>2, <1>3, <1>4, <1>5 DEF OneSettled
<1> QED BY <1>6, OneOutputSettled

\* An exception: the workers stop where they are.
LEMMA RaiseKeeps ==
  ASSUME IInv, Raise, UNCHANGED <<netlist, chunk>>, ~StopAtOpaque,
         NEW i \in DOMAIN netlist.outputs, NEW m \in Cone(netlist, netlist.outputs[i]),
         netlist.kind[m] = "mismatch", status = "running"
  PROVE  IInv'
<1>1. /\ netlist' = netlist /\ chunk' = chunk /\ job' = job /\ iso2expr' = iso2expr
      /\ POs' = POs /\ skipped' = skipped /\ status' = "raised"
  BY DEF Raise
<1>2. WorkersFit'
  BY <1>1 DEF IInv, WorkersFit
<1>3. OutputsFit'
  BY <1>1 DEF IInv, OutputsFit
<1>4. RaisesOnlyOnMismatch'
  BY <1>1 DEF RaisesOnlyOnMismatch, StopAtOpaque, Outputs, Kind
<1> QED BY <1>1, <1>2, <1>3, <1>4 DEF IInv

-----------------------------------------------------------------------------
(* The actions                                                              *)

LEMMA JobAt ==
  ASSUME NEW d, NEW D, NEW j, JobFits(d, D, j)
  PROVE  /\ j.at \in {"begin", "inputs"} => Between(d, D, j) /\ j # Idle
         /\ j.at = "scan" => Scanning(d, D, j) /\ j # Idle
         /\ j.at = "convert" => Converting(d, D, j) /\ j # Idle
<1>1. CASE j = Idle
  <2>1. j.at = "idle"
    BY <1>1 DEF Idle
  <2> QED BY <2>1
<1>2. CASE Between(d, D, j)
  <2>1. j.at \in {"begin", "inputs"}
    BY <1>2 DEF Between
  <2>2. j # Idle
    BY <2>1 DEF Idle
  <2> QED BY <1>2, <2>1, <2>2
<1>3. CASE Scanning(d, D, j)
  <2>1. j.at = "scan"
    BY <1>3 DEF Scanning
  <2>2. j # Idle
    BY <2>1 DEF Idle
  <2> QED BY <1>3, <2>1, <2>2
<1>4. CASE Converting(d, D, j)
  <2>1. j.at = "convert"
    BY <1>4 DEF Converting
  <2>2. j # Idle
    BY <2>1 DEF Idle
  <2> QED BY <1>4, <2>1, <2>2
<1> QED BY <1>1, <1>2, <1>3, <1>4 DEF JobFits

\* A worker that has begun a cone.
Working(w) == status = "running" /\ job[w] # Idle

LEMMA WorkerFacts ==
  ASSUME IInv, NEW w \in Workers, Working(w)
  PROVE  /\ netlist \in Netlists /\ JobFits(netlist, DOMAIN iso2expr, job[w])
         /\ job[w].output \in RepsIn(netlist)
         /\ job[w].output \in DOMAIN netlist.outputs
         /\ netlist.outputs[job[w].output] \in Nets
<1>1. /\ netlist \in Netlists /\ JobFits(netlist, DOMAIN iso2expr, job[w])
      /\ job[w].output \in RepsIn(netlist)
  BY DEF IInv, WorkersFit, Working
<1> QED BY <1>1, RepsFacts

LEMMA ContinueKeeps ==
  ASSUME IInv, NEW w \in Workers, Working(w), UNCHANGED <<netlist, chunk>>,
         NEW j, Continue(w, j), j # Idle, j.output = job[w].output,
         JobFits(netlist, DOMAIN iso2expr, j)
  PROVE  IInv'
<1>1. GoesOn(w, j)
  <2>1. /\ job' = [job EXCEPT ![w] = j]
        /\ iso2expr' = iso2expr /\ POs' = POs /\ skipped' = skipped /\ status' = status
    BY DEF Continue, Become
  <2>2. MapFits(netlist, iso2expr')
    BY <2>1 DEF IInv
  <2> QED BY <2>1, <2>2 DEF GoesOn, Working
<1> QED BY <1>1, GoesOnKeeps

LEMMA AbandonKeeps ==
  ASSUME IInv, NEW w \in Workers, Working(w), UNCHANGED <<netlist, chunk>>,
         NEW reason, Abandon(w, reason),
         NEW n \in Cone(netlist, netlist.outputs[job[w].output]), reason \in FlawOf(netlist, n)
  PROVE  IInv'
<1>1. reason \in Flaws(netlist, netlist.outputs[job[w].output])
  BY DEF Flaws
<1>2. Settled(netlist, Invalid, {reason}, netlist.outputs[job[w].output])
  BY <1>1 DEF Settled
<1>3. Settles(w, Invalid, {reason})
  BY <1>2 DEF Settles, Abandon, Become, Working
<1> QED BY <1>3, SettlesKeeps

LEMMA EndsIs ==
  ASSUME NEW leaf
  PROVE  EndsCone(leaf) <=> Ends(netlist, DOMAIN iso2expr, leaf)
BY DEF EndsCone, Ends, canUseCachedIsoShortcut, isInput, isConstant, Kind

LEMMA BeginFits ==
  ASSUME NEW d \in Netlists, NEW D, NEW j, Between(d, D, j), NEW r \in BOOLEAN,
         r => \A i \in 1..Len(j.next) : Ends(d, D, j.next[i]),
         NEW j2, j2 = ScanJob(j.output, j.tree, j.border, j.next, <<>>, <<>>, r)
  PROVE  Scanning(d, D, j2) /\ j2.output = j.output /\ j2 # Idle
<1>1. /\ j2.at = "scan" /\ j2.output = j.output /\ j2.tree = j.tree /\ j2.border = j.border
      /\ j2.current = j.next /\ j2.next = <<>> /\ j2.merges = <<>> /\ j2.reached = r
  BY DEF ScanJob
<1>2. IsScanJob(j2)
  BY <1>1 DEF IsScanJob
<1>3. /\ TreeFits(d, j.tree, d.outputs[j.output]) /\ FrontierFits(d, D, j.tree, j.border, j.next)
      /\ BorderIsWhole(d, j.tree, j.border)
  BY DEF Between
<1>4. /\ Len(j.border) \in Nat /\ Len(j.next) = Len(j.border)
      /\ Len(<<>>) = 0 /\ 1..0 = {} /\ <<>> \in Seq([type : {"P", "Table"}, net : Nets])
  <2>1. j.border \in Seq(BorderLeaves) /\ Len(j.next) = Len(j.border)
    BY <1>3 DEF FrontierFits
  <2> QED BY <2>1, LenProperties
<1> DEFINE g0 == [tree |-> j.tree, border |-> <<>>]
           g == [i \in 0..0 |-> g0]
<1>5. Growing(d, j2, g)
  <2>1. \A i \in 0..0 : i = 0
    OBVIOUS
  <2>2. g = [i \in 0..0 |-> IF i = 0 THEN g0 ELSE ConcatIn(d, g[i - 1], j2.border[i], j2.merges[i])]
    BY <2>1
  <2> HIDE DEF g
  <2> QED BY <1>1, <1>4, <2>2 DEF Growing
<1>6. LevelFits(d, D, j2, j.tree, <<>>)
  <2>1. FrontierFits(d, D, j.tree, <<>>, <<>>)
    BY EmptyFrontierFits
  <2>2. \A b \in 0 + 1 .. Len(j.border) :
          LeafFits(d, D, j.tree, j.border[b], j.next[b])
    BY <1>3, <1>4 DEF FrontierFits
  <2>3. ASSUME NEW m \in DOMAIN j.tree, NEW k \in DOMAIN d.reads[m], j.tree[m][k].type # "Table"
        PROVE  \E b \in 0 + 1 .. Len(j.border) : IsAt(j.border[b], m, k)
    <3>1. \E i \in 1..Len(j.border) : IsAt(j.border[i], m, k)
      BY <1>3, <2>3 DEF BorderIsWhole
    <3> QED BY <1>4, <3>1
  <2>4. {j2.merges[i].net : i \in {i \in 1..0 : j2.merges[i].type = "Table"}} = {}
    BY <1>4
  <2>5. DOMAIN j.tree = DOMAIN j2.tree \union
          {j2.merges[i].net : i \in {i \in 1..Len(j2.merges) : j2.merges[i].type = "Table"}}
    BY <1>1, <1>4, <2>4
  <2>6. TreeFits(d, j.tree, d.outputs[j2.output])
    BY <1>1, <1>3
  <2>7. Len(j2.merges) = 0 /\ j2.next = <<>> /\ j2.border = j.border /\ j2.current = j.next
    BY <1>1, <1>4
  <2> QED BY <1>4, <2>1, <2>2, <2>3, <2>5, <2>6, <2>7 DEF LevelFits
<1>7. GrownFits(d, D, j2, g[Len(j2.merges)])
  <2>1. g[Len(j2.merges)] = g0 /\ g0.tree = j.tree /\ g0.border = <<>>
    BY <1>1, <1>4
  <2> HIDE DEF g
  <2> QED BY <1>6, <2>1 DEF GrownFits
<1>8. j2 # Idle
  BY <1>1 DEF Idle
<1> HIDE DEF g
<1>9. /\ \A i \in 1..Len(j2.merges) :
           /\ j2.merges[i].net = j2.current[i].net
           /\ j2.merges[i].type = "Table" => ~j2.border[i].placed /\ ~j2.reached
      /\ Len(j2.merges) <= Len(j2.current)
      /\ j2.merges \in Seq([type : {"P", "Table"}, net : Nets])
  <2>1. j2.merges = <<>> /\ Len(j2.merges) = 0
    BY <1>1, <1>4
  <2>2. Len(j2.current) \in Nat
    BY <1>1, <1>3, <1>4 DEF FrontierFits
  <2>3. <<>> \in Seq([type : {"P", "Table"}, net : Nets])
    OBVIOUS
  <2>4. 1..Len(j2.merges) = {}
    BY <2>1
  <2> QED BY ONLY <2>1, <2>2, <2>3, <2>4
<1>10. /\ TreeFits(d, j2.tree, d.outputs[j2.output])
       /\ FrontierFits(d, D, j2.tree, j2.border, j2.current)
       /\ j2.reached \in BOOLEAN
       /\ j2.reached => \A i \in 1..Len(j2.current) : Ends(d, D, j2.current[i])
  BY <1>1, <1>3
<1>11. Scanning(d, D, j2)
  BY <1>1, <1>2, <1>5, <1>7, <1>9, <1>10 DEF Scanning
<1> QED BY <1>1, <1>8, <1>11

LEMMA BeginLevelKeeps ==
  ASSUME IInv, NEW w \in Workers, BeginLevel(w)
  PROVE  IInv'
<1> DEFINE j == job[w]
           D == DOMAIN iso2expr
           j2 == ScanJob(j.output, j.tree, j.border, j.next, <<>>, <<>>, reachedPIs(j.next))
<1>1. status = "running" /\ j.at = "begin" /\ UNCHANGED <<netlist, chunk>> /\ Continue(w, j2)
  BY DEF BeginLevel, ScanJob
<1>2. netlist \in Netlists /\ JobFits(netlist, D, j)
  BY DEF IInv, WorkersFit
<1>3. Between(netlist, D, j) /\ j # Idle
  BY <1>1, <1>2, JobAt
<1>4. reachedPIs(j.next) \in BOOLEAN
  BY DEF reachedPIs
<1>5. reachedPIs(j.next) => \A i \in 1..Len(j.next) : Ends(netlist, D, j.next[i])
  <2>1. j.next \in Seq(Leaves)
    BY <1>3 DEF Between, FrontierFits
  <2>2. DOMAIN j.next = 1..Len(j.next)
    BY <2>1, LenProperties
  <2> QED BY <2>2, EndsIs DEF reachedPIs
<1>6. Scanning(netlist, D, j2) /\ j2.output = j.output /\ j2 # Idle
  <2> DEFINE r == reachedPIs(j.next)
             d == netlist
  <2>1. /\ d \in Netlists /\ Between(d, D, j) /\ r \in BOOLEAN
        /\ r => \A i \in 1..Len(j.next) : Ends(d, D, j.next[i])
        /\ j2 = ScanJob(j.output, j.tree, j.border, j.next, <<>>, <<>>, r)
    BY <1>2, <1>3, <1>4, <1>5
  <2> HIDE DEF D, j, j2, r, d
  <2>2. Scanning(d, D, j2) /\ j2.output = j.output /\ j2 # Idle
    BY <2>1, BeginFits
  <2> QED BY <2>2 DEF d
<1>7. JobFits(netlist, D, j2)
  BY <1>6 DEF JobFits
<1>8. Working(w)
  BY <1>1, <1>3 DEF Working
<1> HIDE DEF j2
<1> QED BY <1>1, <1>6, <1>7, <1>8, ContinueKeeps

\* The next leaf of a level, and what the merges so far have made of the tree.
NextLeaf(d, D, j, grown, leaf, e, g) ==
    /\ Scanning(d, D, j) /\ Len(j.merges) < Len(j.current)
    /\ Growing(d, j, grown) /\ GrownFits(d, D, j, g)
    /\ g = grown[Len(j.merges)]
    /\ leaf = j.border[Len(j.merges) + 1] /\ e = j.current[Len(j.merges) + 1]

LEMMA NextLeafFacts ==
  ASSUME NEW d \in Netlists, NEW D, NEW j, NEW grown, NEW leaf, NEW e, NEW g,
         NextLeaf(d, D, j, grown, leaf, e, g), d.outputs[j.output] \in Nets
  PROVE  /\ leaf \in BorderLeaves /\ e \in Leaves
         /\ TreeFits(d, g.tree, d.outputs[j.output])
         /\ FrontierFits(d, D, g.tree, g.border, j.next)
         /\ LeafFits(d, D, g.tree, leaf, e)
         /\ \A a \in 1..Len(g.border) : ~SamePlace(g.border[a], leaf)
         /\ e.net \in Nets /\ e.net \in Cone(d, d.outputs[j.output])
         /\ g = [tree |-> g.tree, border |-> g.border]
         /\ j.reached => Ends(d, D, e)
         /\ j.merges \in Seq([type : {"P", "Table"}, net : Nets])
         /\ j.border \in Seq(BorderLeaves)
<1> DEFINE K == Len(j.merges)
<1>1. /\ FrontierFits(d, D, j.tree, j.border, j.current)
      /\ j.merges \in Seq([type : {"P", "Table"}, net : Nets])
      /\ Len(j.merges) < Len(j.current)
      /\ LevelFits(d, D, j, g.tree, g.border)
      /\ g = [tree |-> g.tree, border |-> g.border]
  BY DEF NextLeaf, Scanning, GrownFits
<1>2. /\ j.border \in Seq(BorderLeaves) /\ j.current \in Seq(Leaves)
      /\ Len(j.border) = Len(j.current)
  BY <1>1 DEF FrontierFits
<1>3. /\ K \in Nat /\ Len(j.border) \in Nat /\ K + 1 \in 1..Len(j.border)
      /\ K + 1 \in 1..Len(j.current) /\ K + 1 \in K + 1 .. Len(j.border)
  BY <1>1, <1>2, LenProperties
<1>4. leaf = j.border[K + 1] /\ e = j.current[K + 1]
  BY DEF NextLeaf
<1>5. leaf \in BorderLeaves /\ e \in Leaves
  BY <1>2, <1>3, <1>4, ElementOfSeq
<1>6. /\ LeafFits(d, D, g.tree, leaf, e)
      /\ \A a \in 1..Len(g.border) : ~SamePlace(g.border[a], leaf)
      /\ TreeFits(d, g.tree, d.outputs[j.output])
      /\ FrontierFits(d, D, g.tree, g.border, j.next)
  BY <1>1, <1>3, <1>4 DEF LevelFits
<1>7. e.net \in Nets /\ e.net \in Cone(d, d.outputs[j.output])
  <2>1. /\ leaf.parent \in DOMAIN g.tree /\ leaf.pos \in DOMAIN d.reads[leaf.parent]
        /\ e.net = d.reads[leaf.parent][leaf.pos]
    BY <1>6 DEF LeafFits
  <2>2. TreeFits(d, g.tree, d.outputs[j.output])
    BY <1>6
  <2> DEFINE t == g.tree
             o == d.outputs[j.output]
             p == leaf.parent
             q == leaf.pos
  <2>3. /\ TreeFits(d, t, o) /\ o \in Nets /\ p \in DOMAIN t /\ q \in DOMAIN d.reads[p]
        /\ e.net = d.reads[p][q]
    BY <2>1, <2>2
  <2> HIDE DEF t, o, p, q
  <2>4. d.reads[p][q] \in Nets /\ d.reads[p][q] \in Cone(d, o)
    BY <2>3, TreeReads
  <2> QED BY <2>3, <2>4 DEF o
<1>8. j.reached => Ends(d, D, e)
  BY <1>3, <1>4 DEF NextLeaf, Scanning
<1> QED BY <1>1, <1>2, <1>5, <1>6, <1>7, <1>8

LEMMA KeepFits ==
  ASSUME NEW d \in Netlists, NEW D, NEW j, NEW grown, NEW leaf, NEW e, NEW g,
         NextLeaf(d, D, j, grown, leaf, e, g), d.outputs[j.output] \in Nets,
         NEW kept \in Leaves, kept.net = e.net, Ends(d, D, kept),
         NEW j2, OneMerged(j, j2, Append(j.next, kept), Merge("P", e.net))
  PROVE  Scanning(d, D, j2)
<1> DEFINE o == d.outputs[j.output]
           merge == Merge("P", e.net)
           g2 == ConcatIn(d, g, leaf, merge)
           next == Append(j.next, kept)
<1>1. /\ leaf \in BorderLeaves /\ e \in Leaves
      /\ TreeFits(d, g.tree, o) /\ FrontierFits(d, D, g.tree, g.border, j.next)
      /\ LeafFits(d, D, g.tree, leaf, e)
      /\ \A a \in 1..Len(g.border) : ~SamePlace(g.border[a], leaf)
      /\ e.net \in Nets
      /\ g = [tree |-> g.tree, border |-> g.border] /\ o \in Nets
  BY NextLeafFacts
<1>2. Merged(d, D, g.tree, g.border, leaf, merge, g2.tree, g2.border, o, next)
  <2> DEFINE t == g.tree
             b == g.border
             n == j.next
             h == ConcatIn(d, [tree |-> t, border |-> b], leaf, Merge("P", e.net))
  <2>1. /\ leaf \in BorderLeaves /\ e \in Leaves
        /\ TreeFits(d, t, o) /\ FrontierFits(d, D, t, b, n) /\ LeafFits(d, D, t, leaf, e)
        /\ \A a \in 1..Len(b) : ~SamePlace(b[a], leaf)
        /\ o \in Nets
    BY <1>1
  <2>2. g = [tree |-> t, border |-> b]
    BY <1>1
  <2>3. g2 = h
    BY <2>2
  <2> HIDE DEF t, b, n, o, g2
  <2>4. Merged(d, D, t, b, leaf, Merge("P", e.net), h.tree, h.border, o, Append(n, kept))
    BY <2>1, MergePassesOn
  <2> HIDE DEF h
  <2> QED BY <2>3, <2>4 DEF t, b, n
<1>3. merge \in [type : {"P", "Table"}, net : Nets] /\ merge.net = e.net /\ merge.type # "Table"
  BY <1>1 DEF Merge
<1> DEFINE K == Len(j.merges)
<1>4. /\ Scanning(d, D, j) /\ K < Len(j.current) /\ Growing(d, j, grown)
      /\ GrownFits(d, D, j, grown[K]) /\ g = grown[K]
      /\ leaf = j.border[K + 1] /\ e = j.current[K + 1]
  BY DEF NextLeaf
<1> HIDE DEF merge, g2, next, o
<1>5. Merged(d, D, grown[K].tree, grown[K].border, j.border[K + 1], merge, g2.tree, g2.border,
             d.outputs[j.output], next)
  BY <1>2, <1>4 DEF o
<1>6. g2 = ConcatIn(d, grown[K], j.border[K + 1], merge)
  BY <1>4 DEF g2
<1>7. /\ OneMerged(j, j2, next, merge) /\ merge.net = j.current[K + 1].net
      /\ merge.type = "Table" => ~j.border[K + 1].placed /\ ~j.reached
  BY <1>3, <1>4 DEF merge, next
<1> QED BY <1>3, <1>4, <1>5, <1>6, <1>7, LevelGrows

LEMMA TableFits ==
  ASSUME NEW d \in Netlists, NEW D, NEW j, NEW grown, NEW leaf, NEW e, NEW g,
         NextLeaf(d, D, j, grown, leaf, e, g), d.outputs[j.output] \in Nets,
         Clean(d, e.net), ~Ends(d, D, e),
         NEW next, next = IF e.net \in DOMAIN g.tree THEN j.next ELSE j.next \o PinsIn(d, e.net),
         NEW j2, OneMerged(j, j2, next, Merge("Table", e.net))
  PROVE  Scanning(d, D, j2)
<1> DEFINE o == d.outputs[j.output]
           merge == Merge("Table", e.net)
           g2 == ConcatIn(d, g, leaf, merge)
<1>1. /\ leaf \in BorderLeaves /\ e \in Leaves
      /\ TreeFits(d, g.tree, o) /\ FrontierFits(d, D, g.tree, g.border, j.next)
      /\ LeafFits(d, D, g.tree, leaf, e)
      /\ \A a \in 1..Len(g.border) : ~SamePlace(g.border[a], leaf)
      /\ e.net \in Nets
      /\ g = [tree |-> g.tree, border |-> g.border] /\ o \in Nets
      /\ ~j.reached
  BY NextLeafFacts
<1>p. ~leaf.placed
  BY <1>1 DEF LeafFits
<1>2. Merged(d, D, g.tree, g.border, leaf, merge, g2.tree, g2.border, o, next)
  <2> DEFINE t == g.tree
             b == g.border
             n == j.next
             h == ConcatIn(d, [tree |-> t, border |-> b], leaf, Merge("Table", e.net))
  <2>1. /\ leaf \in BorderLeaves /\ e \in Leaves
        /\ TreeFits(d, t, o) /\ FrontierFits(d, D, t, b, n) /\ LeafFits(d, D, t, leaf, e)
        /\ \A a \in 1..Len(b) : ~SamePlace(b[a], leaf)
        /\ o \in Nets /\ ~leaf.placed
    BY <1>1, <1>p
  <2>2. g = [tree |-> t, border |-> b]
    BY <1>1
  <2>3. g2 = h
    BY <2>2
  <2>n. next = IF e.net \in DOMAIN t THEN n ELSE n \o PinsIn(d, e.net)
    OBVIOUS
  <2> HIDE DEF t, b, n, o, g2
  <2>4. Merged(d, D, t, b, leaf, Merge("Table", e.net), h.tree, h.border, o, next)
    <3>1. CASE e.net \in DOMAIN t
      <4>1. Merged(d, D, t, b, leaf, Merge("Table", e.net), h.tree, h.border, o, n)
        BY <2>1, <3>1, MergeRepeats
      <4>2. next = n
        BY <2>n, <3>1
      <4> HIDE DEF h
      <4> QED BY <4>1, <4>2
    <3>2. CASE e.net \notin DOMAIN t
      <4>1. Merged(d, D, t, b, leaf, Merge("Table", e.net), h.tree, h.border, o,
                   n \o PinsIn(d, e.net))
        BY <2>1, <3>2, MergeAdds
      <4>2. next = n \o PinsIn(d, e.net)
        BY <2>n, <3>2
      <4> HIDE DEF h
      <4> QED BY <4>1, <4>2
    <3> QED BY <3>1, <3>2
  <2> HIDE DEF h
  <2> QED BY <2>3, <2>4 DEF t, b
<1>3. merge \in [type : {"P", "Table"}, net : Nets] /\ merge.net = e.net
  BY <1>1 DEF Merge
<1> DEFINE K == Len(j.merges)
<1>4. /\ Scanning(d, D, j) /\ K < Len(j.current) /\ Growing(d, j, grown)
      /\ GrownFits(d, D, j, grown[K]) /\ g = grown[K]
      /\ leaf = j.border[K + 1] /\ e = j.current[K + 1]
  BY DEF NextLeaf
<1> HIDE DEF merge, g2, o
<1>5. Merged(d, D, grown[K].tree, grown[K].border, j.border[K + 1], merge, g2.tree, g2.border,
             d.outputs[j.output], next)
  BY <1>2, <1>4 DEF o
<1>6. g2 = ConcatIn(d, grown[K], j.border[K + 1], merge)
  BY <1>4 DEF g2
<1>7. /\ OneMerged(j, j2, next, merge) /\ merge.net = j.current[K + 1].net
      /\ merge.type = "Table" => ~j.border[K + 1].placed /\ ~j.reached
  BY <1>1, <1>3, <1>4, <1>p DEF merge
<1> HIDE DEF K
<1> QED BY <1>3, <1>4, <1>5, <1>6, <1>7, LevelGrows DEF K

\* A driver is expanded exactly when the tree, with the merges so far, lacks it.
LEMMA ExpandIs ==
  ASSUME NEW d, NEW D, NEW j, NEW g, GrownFits(d, D, j, g), NEW n,
         j.merges \in Seq([type : {"P", "Table"}, net : Nets])
  PROVE  tableWillExpand(j, n) <=> n \notin DOMAIN g.tree
<1> DEFINE I == {i \in 1..Len(j.merges) : j.merges[i].type = "Table"}
<1>1. DOMAIN g.tree = DOMAIN j.tree \union {j.merges[i].net : i \in I}
  BY DEF GrownFits, LevelFits
<1>2. DOMAIN j.merges = 1..Len(j.merges)
  BY LenProperties
<1>3. ASSUME NEW i \in DOMAIN j.merges
      PROVE  j.merges[i] = Merge("Table", n) <=> i \in I /\ j.merges[i].net = n
  <2>1. j.merges[i] \in [type : {"P", "Table"}, net : Nets]
    BY <1>2, ElementOfSeq
  <2> QED BY <1>2, <2>1 DEF Merge
<1> HIDE DEF I
<1>4. I \subseteq DOMAIN j.merges
  BY <1>2 DEF I
<1> QED BY <1>1, <1>3, <1>4 DEF tableWillExpand

LEMMA ScanKeeps ==
  ASSUME IInv, NEW w \in Workers, Working(w), UNCHANGED <<netlist, chunk>>,
         NEW next, NEW merge,
         Continue(w, [job[w] EXCEPT !.next = next, !.merges = Append(@, merge)]),
         IsScanJob(job[w]),
         \A j2 : OneMerged(job[w], j2, next, merge) => Scanning(netlist, DOMAIN iso2expr, j2)
  PROVE  IInv'
<1> DEFINE j == job[w]
           j2 == [j EXCEPT !.next = next, !.merges = Append(@, merge)]
<1>a. IsScanJob(j)
  OBVIOUS
<1>1. OneMerged(job[w], j2, next, merge)
  <2> HIDE DEF j
  <2>1. OneMerged(j, [j EXCEPT !.next = next, !.merges = Append(@, merge)], next, merge)
    BY <1>a, MergedJob
  <2> QED BY <2>1 DEF j
<1> HIDE DEF j2
<1>2. Scanning(netlist, DOMAIN iso2expr, j2)
  BY <1>1
<1>3. j2.output = job[w].output /\ j2.at = "scan"
  BY <1>1 DEF OneMerged
<1>4. j2 # Idle
  BY <1>3 DEF Idle
<1>5. JobFits(netlist, DOMAIN iso2expr, j2)
  BY <1>2 DEF JobFits
<1>6. Continue(w, j2)
  BY DEF j2, j
<1> QED BY <1>3, <1>4, <1>5, <1>6, ContinueKeeps

LEMMA ScanLeafKeeps ==
  ASSUME IInv, NEW w \in Workers, ScanLeaf(w)
  PROVE  IInv'
<1> DEFINE j == job[w]
           d == netlist
           D == DOMAIN iso2expr
           e == j.current[Len(j.merges) + 1]
           n == e.net
           leaf == j.border[Len(j.merges) + 1]
           driver == [e EXCEPT !.driver = TRUE]
           o == d.outputs[j.output]
           Keep(kept) == Continue(w, [j EXCEPT !.next = Append(@, kept),
                                               !.merges = Append(@, Merge("P", n))])
<1>1. /\ status = "running" /\ j.at = "scan" /\ Len(j.merges) < Len(j.current)
      /\ UNCHANGED <<netlist, chunk>>
  BY DEF ScanLeaf
<1>2. d \in Netlists /\ JobFits(d, D, j)
  BY DEF IInv, WorkersFit
<1>3. Scanning(d, D, j) /\ j # Idle
  BY <1>1, <1>2, JobAt
<1>4. Working(w)
  BY <1>1, <1>3 DEF Working
<1>5. o \in Nets /\ j.output \in DOMAIN d.outputs
  BY <1>4, WorkerFacts
<1>6. PICK grown : Growing(d, j, grown) /\ GrownFits(d, D, j, grown[Len(j.merges)])
  BY <1>3 DEF Scanning
<1> DEFINE g == grown[Len(j.merges)]
<1>7. NextLeaf(d, D, j, grown, leaf, e, g)
  BY <1>1, <1>3, <1>6 DEF NextLeaf
<1>8. /\ e \in Leaves /\ n \in Nets /\ n \in Cone(d, o)
      /\ j.merges \in Seq([type : {"P", "Table"}, net : Nets])
      /\ LeafFits(d, D, g.tree, leaf, e)
  <2> HIDE DEF g, leaf, e, j, D, d
  <2> QED BY <1>2, <1>5, <1>7, NextLeafFacts
<1>9. IsScanJob(j)
  BY <1>3 DEF Scanning
<1>10. ASSUME NEW kept \in Leaves, kept.net = n, Ends(d, D, kept), Keep(kept) PROVE IInv'
  <2>1. \A j2 : OneMerged(j, j2, Append(j.next, kept), Merge("P", n)) => Scanning(d, D, j2)
    <3> HIDE DEF g, leaf, e, j, D, d, o
    <3> QED BY <1>2, <1>5, <1>7, <1>10, KeepFits DEF o
  <2>2. Continue(w, [j EXCEPT !.next = Append(j.next, kept), !.merges = Append(@, Merge("P", n))])
    BY <1>10
  <2> HIDE DEF n
  <2> QED BY <1>1, <1>4, <1>9, <2>1, <2>2, ScanKeeps
<1> DEFINE k1 == Keep(e)
           k2 == Keep(driver)
           a1 == Abandon(w, "MultiDriver")
           a2 == Abandon(w, "NoDriver")
           a3 == Abandon(w, "OpaqueInternal")
           t1 == Continue(w, [j EXCEPT
                     !.next = IF tableWillExpand(j, n) THEN @ \o Pins(n) ELSE @,
                     !.merges = Append(@, Merge("Table", n))])
           p0 == EndsCone(e)
           p1 == Rejects(n)
           p2 == isInput(n) \/ canUseCachedIsoShortcut(driver)
           kind == Kind(n)
<1>s. IF p0 THEN k1
      ELSE CASE kind = "multi" -> a1
             [] kind \in {"none", "frontier"} -> a2
             [] p1 -> a3
             [] p2 -> k2
             [] kind = "mismatch" /\ ~p1 -> Raise
             [] OTHER -> t1
  BY DEF ScanLeaf
<1>r. p1 => kind \in {"opaque", "mismatch"}
  BY DEF Rejects
<1>t. p2 => kind \notin {"multi", "none", "frontier", "opaque", "mismatch"}
  <2>1. isInput(n) => kind \in InputKinds
    BY DEF isInput
  <2>2. canUseCachedIsoShortcut(driver) => n \in D
    BY <1>8 DEF canUseCachedIsoShortcut, Leaves
  <2>3. n \in D => kind \in MappedKinds \/ kind \in {"gate", "assign"}
    BY DEF IInv, MapFits, Clean, Kind
  <2> QED BY <2>1, <2>2, <2>3 DEF InputKinds, MappedKinds
<1>11. ASSUME NEW reason, Abandon(w, reason), reason \in FlawOf(d, n) PROVE IInv'
  BY <1>1, <1>4, <1>8, <1>11, AbandonKeeps
<1>12. CASE EndsCone(e)
  <2>1. Keep(e)
    <3>1. k1
      <4>1. p0
        BY <1>12
      <4> HIDE DEF k1, k2, a1, a2, a3, t1, p0, p1, p2, kind
      <4> QED BY <1>s, <1>r, <1>t, <4>1
    <3> QED BY <3>1
  <2>2. Ends(d, D, e)
    BY <1>12, EndsIs
  <2> HIDE DEF Keep
  <2> QED BY <1>8, <1>10, <2>1, <2>2
<1>13. CASE ~EndsCone(e) /\ Kind(n) = "multi"
  <2>1. Abandon(w, "MultiDriver")
    <3>1. a1
      <4>1. ~p0 /\ kind = "multi"
        BY <1>13
      <4> HIDE DEF k1, k2, a1, a2, a3, t1, p0, p1, p2, kind
      <4> QED BY <1>s, <1>r, <1>t, <4>1
    <3> QED BY <3>1
  <2>2. "MultiDriver" \in FlawOf(d, n)
    BY <1>13 DEF FlawOf, Kind
  <2> QED BY <1>11, <2>1, <2>2
<1>14. CASE ~EndsCone(e) /\ Kind(n) \in {"none", "frontier"}
  <2>1. Abandon(w, "NoDriver")
    <3>1. a2
      <4>1. ~p0 /\ kind \in {"none", "frontier"}
        BY <1>14
      <4> HIDE DEF k1, k2, a1, a2, a3, t1, p0, p1, p2, kind
      <4> QED BY <1>s, <1>r, <1>t, <4>1
    <3> QED BY <3>1
  <2>2. "NoDriver" \in FlawOf(d, n)
    BY <1>14 DEF FlawOf, Kind
  <2> QED BY <1>11, <2>1, <2>2
<1>15. CASE ~EndsCone(e) /\ Rejects(n)
  <2>1. Abandon(w, "OpaqueInternal")
    <3>1. a3
      <4>1. ~p0 /\ p1
        BY <1>15
      <4> HIDE DEF k1, k2, a1, a2, a3, t1, p0, p1, p2, kind
      <4> QED BY <1>s, <1>r, <1>t, <4>1
    <3> QED BY <3>1
  <2>2. "OpaqueInternal" \in FlawOf(d, n)
    BY <1>15 DEF FlawOf, Kind, Rejects, StopAtOpaque
  <2> QED BY <1>11, <2>1, <2>2
<1> DEFINE Other == /\ ~EndsCone(e) /\ Kind(n) \notin {"multi", "none", "frontier"} /\ ~Rejects(n)
<1>16. CASE Other /\ (isInput(n) \/ canUseCachedIsoShortcut(driver))
  <2>1. Keep(driver)
    <3>1. k2
      <4>1. ~p0 /\ kind \notin {"multi", "none", "frontier"} /\ ~p1 /\ p2
        BY <1>16
      <4> HIDE DEF k1, k2, a1, a2, a3, t1, p0, p1, p2, kind
      <4> QED BY <1>s, <1>r, <1>t, <4>1
    <3> QED BY <3>1
  <2>2. driver \in Leaves /\ driver.net = n /\ driver.driver
    BY <1>8 DEF Leaves
  <2>3. Ends(d, D, driver)
    BY <1>16, <2>2 DEF Ends, isInput, canUseCachedIsoShortcut, Kind
  <2> HIDE DEF Keep, driver
  <2> QED BY <1>10, <2>1, <2>2, <2>3
<1>17. CASE /\ Other /\ ~(isInput(n) \/ canUseCachedIsoShortcut(driver))
            /\ Kind(n) = "mismatch"
  <2>1. Raise
    <3>1. Raise
      <4>1. ~p0 /\ kind \notin {"multi", "none", "frontier"} /\ ~p1 /\ ~p2 /\ kind = "mismatch"
        BY <1>17
      <4> HIDE DEF k1, k2, a1, a2, a3, t1, p0, p1, p2, kind
      <4> QED BY <1>s, <1>r, <1>t, <4>1
    <3> QED BY <3>1
  <2>2. ~StopAtOpaque /\ d.kind[n] = "mismatch"
    BY <1>17 DEF Rejects, Kind
  <2> QED BY <1>1, <1>5, <1>8, <2>1, <2>2, RaiseKeeps
<1>18. CASE /\ Other /\ ~(isInput(n) \/ canUseCachedIsoShortcut(driver))
            /\ Kind(n) # "mismatch"
  <2> DEFINE next == IF tableWillExpand(j, n) THEN j.next \o Pins(n) ELSE j.next
  <2>1. Continue(w, [j EXCEPT !.next = next, !.merges = Append(@, Merge("Table", n))])
    <3>1. t1
      <4>1. ~p0 /\ kind \notin {"multi", "none", "frontier"} /\ ~p1 /\ ~p2 /\ kind # "mismatch"
        BY <1>18
      <4> HIDE DEF k1, k2, a1, a2, a3, t1, p0, p1, p2, kind
      <4> QED BY <1>s, <1>r, <1>t, <4>1
    <3> DEFINE q == tableWillExpand(j, n)
    <3>2. CASE q
      BY <3>1, <3>2
    <3>3. CASE ~q
      BY <3>1, <3>3
    <3> QED BY <3>2, <3>3
  <2>2. ~Ends(d, D, e)
    BY <1>18, EndsIs
  <2>3. Clean(d, n)
    <3>1. d.kind[n] \in Kinds /\ (d.kind[n] = "opaque" => d.stops)
      BY <1>2, <1>8, NetlistFacts
    <3>2. d.kind[n] \notin ConstantKinds /\ d.kind[n] \notin InputKinds
      BY <1>18, <2>2 DEF Ends, isInput, Kind
    <3>3. d.kind[n] \notin {"multi", "none", "frontier", "mismatch", "opaque"}
      BY <1>18, <3>1 DEF Rejects, Kind, StopAtOpaque
    <3> QED BY <1>8, <3>1, <3>2, <3>3 DEF Clean, Kinds, ConstantKinds, InputKinds
  <2>4. next = IF n \in DOMAIN g.tree THEN j.next ELSE j.next \o PinsIn(d, n)
    <3>1. tableWillExpand(j, n) <=> n \notin DOMAIN g.tree
      BY <1>6, <1>8, ExpandIs
    <3>2. Pins(n) = PinsIn(d, n)
      BY DEF Pins, PinsIn, Reads
    <3> QED BY <3>1, <3>2
  <2>5. \A j2 : OneMerged(j, j2, next, Merge("Table", n)) => Scanning(d, D, j2)
    <3> HIDE DEF g, leaf, e, j, D, d, o, next
    <3> QED BY <1>2, <1>5, <1>7, <2>2, <2>3, <2>4, TableFits DEF o
  <2> HIDE DEF next, n
  <2> QED BY <1>1, <1>4, <1>9, <2>1, <2>5, ScanKeeps
<1> QED BY <1>12, <1>13, <1>14, <1>15, <1>16, <1>17, <1>18

\* A whole level: the grown tree and its border stand between two levels again.
LevelEnd(d, D, j, g) ==
    /\ Scanning(d, D, j) /\ Len(j.merges) = Len(j.current) /\ GrownFits(d, D, j, g)

LEMMA LevelEndFacts ==
  ASSUME NEW d, NEW D, NEW j, NEW g, LevelEnd(d, D, j, g)
  PROVE  /\ Len(j.merges) \in Nat /\ Len(j.merges) = Len(j.border)
         /\ Len(g.border) = Len(j.next)
         /\ TreeFits(d, g.tree, d.outputs[j.output])
         /\ FrontierFits(d, D, g.tree, g.border, j.next)
         /\ BorderIsWhole(d, g.tree, g.border)
         /\ j.reached \/ j.merges = <<>> => \A a \in 1..Len(g.border) : g.border[a].placed
         /\ \A i \in DOMAIN j.merges :
              /\ i \in 1..Len(j.border) /\ j.merges[i].net = j.current[i].net
              /\ LeafFits(d, D, j.tree, j.border[i], j.current[i])
<1> DEFINE K == Len(j.merges)
<1>1. /\ FrontierFits(d, D, j.tree, j.border, j.current)
      /\ j.merges \in Seq([type : {"P", "Table"}, net : Nets])
      /\ K = Len(j.current) /\ LevelFits(d, D, j, g.tree, g.border)
  BY DEF LevelEnd, Scanning, GrownFits
<1>2. /\ Len(j.border) = Len(j.current) /\ K \in Nat /\ DOMAIN j.merges = 1..K
      /\ \A i \in 1..K : j.merges[i] \in [type : {"P", "Table"}, net : Nets]
      /\ K = 0 <=> j.merges = <<>>
  BY <1>1, LenProperties, ElementOfSeq, EmptySeq DEF FrontierFits
<1>3. \A b : b \notin K + 1 .. Len(j.border)
  BY <1>1, <1>2
<1>4. /\ TreeFits(d, g.tree, d.outputs[j.output])
      /\ FrontierFits(d, D, g.tree, g.border, j.next)
  BY <1>1 DEF LevelFits
<1>5. BorderIsWhole(d, g.tree, g.border)
  BY <1>1, <1>3 DEF LevelFits, BorderIsWhole
<1>6. \A i \in 1..K : j.merges[i].type = "Table" => ~j.reached
  BY DEF LevelEnd, Scanning
<1>7. j.reached \/ j.merges = <<>> => \A i \in 1..K : j.merges[i].type = "P"
  BY <1>2, <1>6
<1>8. j.reached \/ j.merges = <<>> => \A a \in 1..Len(g.border) : g.border[a].placed
  BY <1>1, <1>7 DEF LevelFits
<1>9. \A i \in 1..K : j.merges[i].net = j.current[i].net
  BY DEF LevelEnd, Scanning
<1>10. \A i \in 1..K : LeafFits(d, D, j.tree, j.border[i], j.current[i])
  BY <1>1, <1>2 DEF FrontierFits
<1>11. Len(g.border) = Len(j.next)
  BY <1>4 DEF FrontierFits
<1> QED BY <1>1, <1>2, <1>4, <1>5, <1>8, <1>9, <1>10, <1>11

BetweenJob(at, output, tree, border, next) ==
    [at |-> at, output |-> output, tree |-> tree, border |-> border, next |-> next]

Complete(at, border) == at = "inputs" => \A i \in 1..Len(border) : border[i].placed

IsBetween(d, D, at, output, tree, border, next) ==
    /\ at \in {"begin", "inputs"}
    /\ TreeFits(d, tree, d.outputs[output]) /\ FrontierFits(d, D, tree, border, next)
    /\ BorderIsWhole(d, tree, border) /\ Complete(at, border)

LEMMA BetweenFits ==
  ASSUME NEW d, NEW D, NEW at, NEW output, NEW tree, NEW border, NEW next,
         IsBetween(d, D, at, output, tree, border, next)
  PROVE  /\ Between(d, D, BetweenJob(at, output, tree, border, next))
         /\ BetweenJob(at, output, tree, border, next) # Idle
         /\ BetweenJob(at, output, tree, border, next).output = output
<1> DEFINE j == BetweenJob(at, output, tree, border, next)
<1>1. /\ j.at = at /\ j.output = output /\ j.tree = tree /\ j.border = border /\ j.next = next
      /\ j = [at |-> at, output |-> output, tree |-> tree, border |-> border, next |-> next]
  BY DEF BetweenJob
<1>2. j # Idle
  BY <1>1 DEF Idle
<1> HIDE DEF j
<1>3. j = [at |-> j.at, output |-> j.output, tree |-> j.tree, border |-> j.border,
           next |-> j.next]
  BY <1>1
<1>4. Between(d, D, j)
  BY <1>1, <1>3 DEF Between, Complete, IsBetween
<1> QED BY <1>1, <1>2, <1>4 DEF j

LEMMA MergeLevelKeeps ==
  ASSUME IInv, NEW w \in Workers, MergeLevel(w)
  PROVE  IInv'
<1> DEFINE j == job[w]
           d == netlist
           D == DOMAIN iso2expr
           o == d.outputs[j.output]
           K == Len(j.merges)
           at == IF j.reached \/ j.merges = <<>> THEN "inputs" ELSE "begin"
<1>1. /\ status = "running" /\ j.at = "scan" /\ K = Len(j.current)
      /\ UNCHANGED <<netlist, chunk>>
  BY DEF MergeLevel
<1>2. d \in Netlists /\ JobFits(d, D, j)
  BY DEF IInv, WorkersFit
<1>3. Scanning(d, D, j) /\ j # Idle
  BY <1>1, <1>2, JobAt
<1>4. Working(w)
  BY <1>1, <1>3 DEF Working
<1>5. o \in Nets
  BY <1>4, WorkerFacts
<1>6. PICK grown : Growing(d, j, grown) /\ GrownFits(d, D, j, grown[K])
  BY <1>3 DEF Scanning
<1> DEFINE g == concatFull(j)
<1>7. LevelEnd(d, D, j, grown[K])
  BY <1>1, <1>3, <1>6 DEF LevelEnd
<1>8. g = grown[K]
  <2>1. K \in Nat
    <3> HIDE DEF j, d, D
    <3> QED BY <1>7, LevelEndFacts
  <2> HIDE DEF j
  <2> QED BY <1>6, <2>1, ConcatFullIs
<1>9. LevelEnd(d, D, j, g)
  BY <1>7, <1>8
<1> HIDE DEF g
<1>10. /\ K \in Nat /\ K = Len(j.border) /\ Len(g.border) = Len(j.next)
       /\ TreeFits(d, g.tree, o) /\ FrontierFits(d, D, g.tree, g.border, j.next)
       /\ BorderIsWhole(d, g.tree, g.border)
       /\ j.reached \/ j.merges = <<>> => \A a \in 1..Len(g.border) : g.border[a].placed
       /\ \A i \in DOMAIN j.merges :
              /\ i \in 1..Len(j.border) /\ j.merges[i].net = j.current[i].net
              /\ LeafFits(d, D, j.tree, j.border[i], j.current[i])
  <2> HIDE DEF j, d, D
  <2> QED BY <1>9, LevelEndFacts
<1> DEFINE loop == \E i \in DOMAIN j.merges : LoopAt(j, i)
           b1 == j.merges # <<>> /\ K # Len(j.border)
           b2 == Len(g.border) # Len(j.next)
           a1 == Abandon(w, "LogicalLoop")
           c1 == Continue(w, BetweenJob(at, j.output, g.tree, g.border, j.next))
<1>11. IF b1 THEN Raise ELSE IF loop THEN a1 ELSE IF b2 THEN Raise ELSE c1
  BY DEF MergeLevel, g, BetweenJob
<1>12. IF loop THEN a1 ELSE c1
  <2>1. ~b1 /\ ~b2
    BY <1>10
  <2> HIDE DEF b1, b2, a1, c1, loop
  <2> QED BY <1>11, <2>1
<1>13. CASE loop
  <2>1. Abandon(w, "LogicalLoop")
    BY <1>12, <1>13
  <2>2. PICK i \in DOMAIN j.merges : LoopAt(j, i)
    BY <1>13
  <2>3. LeafFits(d, D, j.tree, j.border[i], j.current[i]) /\ j.merges[i].net = j.current[i].net
    BY <1>10
  <2>4. /\ j.border[i].parent \in DOMAIN j.tree
        /\ j.border[i].pos \in DOMAIN d.reads[j.border[i].parent]
        /\ j.merges[i].net = d.reads[j.border[i].parent][j.border[i].pos]
    BY <2>3 DEF LeafFits
  <2>5. TreeFits(d, j.tree, o)
    BY <1>3 DEF Scanning
  <2>6. "LogicalLoop" \in Flaws(d, o)
    <3> HIDE DEF j, o
    <3> QED BY <1>2, <1>5, <2>2, <2>4, <2>5, LoopIsReal
  <2>7. Settled(d, Invalid, {"LogicalLoop"}, o)
    BY <2>6 DEF Settled
  <2>8. Settles(w, Invalid, {"LogicalLoop"})
    BY <1>1, <1>3, <2>1, <2>7 DEF Settles, Abandon, Become
  <2> QED BY <2>8, SettlesKeeps
<1>14. CASE ~loop
  <2> DEFINE j2 == BetweenJob(at, j.output, g.tree, g.border, j.next)
  <2>1. Continue(w, j2)
    BY <1>12, <1>14
  <2>2. at \in {"begin", "inputs"} /\ (at = "inputs" => j.reached \/ j.merges = <<>>)
    OBVIOUS
  <2>3. Between(d, D, j2) /\ j2 # Idle /\ j2.output = j.output
    <3> DEFINE t == g.tree
               b == g.border
               i == j.output
               x == j.next
    <3>1. /\ at \in {"begin", "inputs"}
          /\ TreeFits(d, t, d.outputs[i]) /\ FrontierFits(d, D, t, b, x) /\ BorderIsWhole(d, t, b)
      BY <1>10, <2>2
    <3>2. Complete(at, b)
      BY <1>10, <2>2 DEF Complete
    <3> HIDE DEF at, D, d, t, b, i, x
    <3>3. IsBetween(d, D, at, i, t, b, x)
      BY <3>1, <3>2 DEF IsBetween
    <3>4. /\ Between(d, D, BetweenJob(at, i, t, b, x)) /\ BetweenJob(at, i, t, b, x) # Idle
          /\ BetweenJob(at, i, t, b, x).output = i
      BY <3>3, BetweenFits
    <3> QED BY <3>4 DEF t, b, i, x
  <2>4. JobFits(d, D, j2)
    BY <2>3 DEF JobFits
  <2> HIDE DEF j2
  <2> QED BY <1>1, <1>4, <2>1, <2>3, <2>4, ContinueKeeps
<1> QED BY <1>13, <1>14

-----------------------------------------------------------------------------
(* From the tree to the expression                                          *)

AllConvertible(d, D, j) ==
    /\ Between(d, D, j) /\ j.at = "inputs"
    /\ \A i \in 1..Len(j.next) : Convertible(d, D, j.next[i].net)

\* A tree whose border holds finished inputs only can be converted.
LEMMA FinishedTree ==
  ASSUME NEW d, NEW D, NEW j, AllConvertible(d, D, j)
  PROVE  TreeIsDone(d, D, j.tree)
<1> DEFINE t == j.tree
           b == j.border
           x == j.next
<1>1. /\ TreeFits(d, t, d.outputs[j.output]) /\ FrontierFits(d, D, t, b, x)
      /\ BorderIsWhole(d, t, b) /\ \A i \in 1..Len(b) : b[i].placed
      /\ \A i \in 1..Len(x) : Convertible(d, D, x[i].net)
  BY DEF AllConvertible, Between
<1> HIDE DEF t, b, x
<1>2. Len(x) = Len(b)
  BY <1>1 DEF FrontierFits
<1>3. ASSUME NEW m \in DOMAIN t, NEW k \in DOMAIN d.reads[m], t[m][k].type # "Table"
      PROVE  t[m][k] = Merge("P", d.reads[m][k]) /\ Convertible(d, D, d.reads[m][k])
  <2>1. PICK i \in 1..Len(b) : IsAt(b[i], m, k)
    BY <1>1, <1>3 DEF BorderIsWhole
  <2>2. LeafFits(d, D, t, b[i], x[i])
    BY <1>1 DEF FrontierFits
  <2>3. b[i].parent = m /\ b[i].pos = k
    BY <2>1 DEF IsAt
  <2>4. b[i].placed /\ Convertible(d, D, x[i].net)
    BY <1>1, <1>2
  <2> QED BY <2>2, <2>3, <2>4 DEF LeafFits
<1>4. ASSUME NEW m \in DOMAIN t
      PROVE  /\ Clean(d, m)
             /\ t[m] \in [DOMAIN d.reads[m] -> [type : {"P", "Table"}, net : Nets]]
             /\ \A k \in DOMAIN d.reads[m] :
                    /\ t[m][k].net = d.reads[m][k]
                    /\ t[m][k].type = "Table" => d.reads[m][k] \in DOMAIN t
                    /\ t[m][k].type = "P" => Convertible(d, D, d.reads[m][k])
  <2>1. /\ Clean(d, m) /\ t[m] \in [DOMAIN d.reads[m] -> Children]
        /\ \A k \in DOMAIN d.reads[m] :
               /\ t[m][k] # OpenChild => t[m][k].net = d.reads[m][k]
               /\ t[m][k].type = "Table" => d.reads[m][k] \in DOMAIN t
    BY <1>1 DEF TreeFits
  <2>2. ASSUME NEW k \in DOMAIN d.reads[m]
        PROVE  /\ t[m][k] \in [type : {"P", "Table"}, net : Nets]
               /\ t[m][k].net = d.reads[m][k]
               /\ t[m][k].type = "P" => Convertible(d, D, d.reads[m][k])
    <3>1. t[m][k] \in Children
      BY <2>1
    <3>2. t[m][k] # OpenChild
      <4>1. CASE t[m][k].type = "Table"
        BY <4>1 DEF OpenChild
      <4>2. CASE t[m][k].type # "Table"
        <5>0. t[m][k] = Merge("P", d.reads[m][k])
          BY <1>3, <4>2
        <5>1. t[m][k].type = "P"
          BY <5>0 DEF Merge
        <5> QED BY <5>1 DEF OpenChild
      <4> QED BY <4>1, <4>2
    <3>3. t[m][k].type = "P" => Convertible(d, D, d.reads[m][k])
      BY <1>3
    <3> QED BY <2>1, <3>1, <3>2, <3>3 DEF Children
  <2> QED BY <2>1, <2>2
<1>5. TreeIsDone(d, D, t)
  BY <1>4 DEF TreeIsDone
<1> QED BY <1>5 DEF t

ConvertJob(output, tree, stack) ==
    [at |-> "convert", output |-> output, tree |-> tree, stack |-> stack]

LEMMA ConvertFits ==
  ASSUME NEW d, NEW D, NEW output, NEW tree, NEW stack,
         DOMAIN tree \subseteq Nets, TreeIsDone(d, D, tree), StackFits(d, D, tree, stack),
         d.outputs[output] \in D \/ OnStack(stack, 1, d.outputs[output])
  PROVE  /\ JobFits(d, D, ConvertJob(output, tree, stack))
         /\ ConvertJob(output, tree, stack) # Idle
         /\ ConvertJob(output, tree, stack).output = output
<1> DEFINE j == ConvertJob(output, tree, stack)
<1>1. /\ j.at = "convert" /\ j.output = output /\ j.tree = tree /\ j.stack = stack
      /\ j = [at |-> "convert", output |-> output, tree |-> tree, stack |-> stack]
  BY DEF ConvertJob
<1>2. j # Idle
  BY <1>1 DEF Idle
<1> HIDE DEF j
<1>3. Converting(d, D, j)
  <2>1. j = [at |-> "convert", output |-> j.output, tree |-> j.tree, stack |-> j.stack]
    BY <1>1
  <2> QED BY <1>1, <2>1 DEF Converting
<1> QED BY <1>1, <1>2, <1>3 DEF JobFits, j

\* The stack with the root of a tree, or with the input the output is.
LEMMA RootFits ==
  ASSUME NEW d, NEW D, NEW tree, NEW type \in {"P", "Table"}, NEW n \in Nets,
         type = "Table" => n \in DOMAIN tree, type = "P" => Convertible(d, D, n)
  PROVE  LET stack == <<[net |-> n, type |-> type, visited |-> FALSE]>>
         IN  StackFits(d, D, tree, stack) /\ OnStack(stack, 1, n)
<1> DEFINE e == [net |-> n, type |-> type, visited |-> FALSE]
           s == <<e>>
<1>1. e \in [net : Nets, type : {"P", "Table"}, visited : BOOLEAN]
      /\ e.net = n /\ e.type = type /\ ~e.visited
  OBVIOUS
<1> HIDE DEF e
<1>2. s \in Seq([net : Nets, type : {"P", "Table"}, visited : BOOLEAN]) /\ Len(s) = 1 /\ s[1] = e
  BY <1>1
<1>3. \A i \in 1..1 : i = 1
  OBVIOUS
<1> HIDE DEF s
<1>4. StackFits(d, D, tree, s)
  BY <1>1, <1>2, <1>3 DEF StackFits
<1>5. OnStack(s, 1, n)
  BY <1>1, <1>2 DEF OnStack
<1> QED BY <1>4, <1>5 DEF s, e

\* An input that is no finished expression is an unknown constant of the cone.
LEMMA BadInput ==
  ASSUME NEW d \in Netlists, NEW D, NEW j, Between(d, D, j), j.at = "inputs",
         d.outputs[j.output] \in Nets, NEW i \in 1..Len(j.next)
  PROVE  /\ j.next[i].net \in Cone(d, d.outputs[j.output])
         /\ ~Convertible(d, D, j.next[i].net) => d.kind[j.next[i].net] = "constX"
<1> DEFINE t == j.tree
           o == d.outputs[j.output]
           p == j.border[i].parent
           q == j.border[i].pos
           e == j.next[i]
<1>1. /\ TreeFits(d, t, o) /\ o \in Nets /\ LeafFits(d, D, t, j.border[i], e)
      /\ j.border[i].placed
  BY DEF Between, FrontierFits
<1>2. p \in DOMAIN t /\ q \in DOMAIN d.reads[p] /\ e.net = d.reads[p][q] /\ Ends(d, D, e)
  BY <1>1 DEF LeafFits
<1>3. e.net \in Cone(d, o)
  <2> HIDE DEF t, o, p, q, e
  <2>1. d.reads[p][q] \in Cone(d, o)
    BY <1>1, <1>2, TreeReads
  <2> QED BY <1>2, <2>1
<1>4. ~Convertible(d, D, e.net) => d.kind[e.net] = "constX"
  BY <1>2 DEF Ends, Convertible, MappedKinds, InputKinds, ConstantKinds
<1> QED BY <1>3, <1>4

LEMMA CheckInputsKeeps ==
  ASSUME IInv, NEW w \in Workers, CheckInputs(w)
  PROVE  IInv'
<1> DEFINE j == job[w]
           d == netlist
           D == DOMAIN iso2expr
           o == d.outputs[j.output]
           bad == {i \in DOMAIN j.next : ~ConvertibleInput(j.next[i])}
           first == CHOOSE i \in bad : \A k \in bad : i <= k
           e == [net |-> o, type |-> "Table", visited |-> FALSE]
           j2 == ConvertJob(j.output, j.tree, <<e>>)
<1>1. /\ status = "running" /\ j.at = "inputs" /\ UNCHANGED <<netlist, chunk>>
  BY DEF CheckInputs
<1>2. d \in Netlists /\ JobFits(d, D, j)
  BY DEF IInv, WorkersFit
<1>3. Between(d, D, j) /\ j # Idle
  BY <1>1, <1>2, JobAt
<1>4. Working(w)
  BY <1>1, <1>3 DEF Working
<1>5. o \in Nets
  BY <1>4, WorkerFacts
<1>6. DOMAIN j.next = 1..Len(j.next) /\ Len(j.next) \in Nat
  BY <1>3, LenProperties DEF Between, FrontierFits
<1>7. \A i \in 1..Len(j.next) : ConvertibleInput(j.next[i]) <=> Convertible(d, D, j.next[i].net)
  BY DEF ConvertibleInput, Convertible, Mapped, Kind
<1>8. IF bad = {} THEN Continue(w, j2) ELSE Abandon(w, UnmappedReason(j.next[first].net))
  BY DEF CheckInputs, Convert, Merge, Outputs, ConvertJob
<1>9. CASE bad = {}
  <2>1. AllConvertible(d, D, j)
    BY <1>1, <1>3, <1>6, <1>7, <1>9 DEF AllConvertible
  <2>2. TreeIsDone(d, D, j.tree)
    <3> HIDE DEF j, d, D
    <3> QED BY <2>1, FinishedTree
  <2>3. TreeFits(d, j.tree, o)
    BY <1>3 DEF Between
  <2>4. DOMAIN j.tree \subseteq Nets /\ o \in DOMAIN j.tree
    BY <2>3 DEF TreeFits, Clean
  <2>5. StackFits(d, D, j.tree, <<e>>) /\ OnStack(<<e>>, 1, o)
    <3> DEFINE t == j.tree
    <3> HIDE DEF t, o, d, D
    <3> QED BY <1>5, <2>4, RootFits DEF t
  <2>6. JobFits(d, D, j2) /\ j2 # Idle /\ j2.output = j.output
    <3> DEFINE t == j.tree
               i == j.output
               s == <<e>>
    <3>1. /\ DOMAIN t \subseteq Nets /\ TreeIsDone(d, D, t) /\ StackFits(d, D, t, s)
          /\ OnStack(s, 1, d.outputs[i])
      BY <2>2, <2>4, <2>5
    <3> HIDE DEF t, i, s, d, D
    <3>2. /\ JobFits(d, D, ConvertJob(i, t, s)) /\ ConvertJob(i, t, s) # Idle
          /\ ConvertJob(i, t, s).output = i
      BY <3>1, ConvertFits
    <3> QED BY <3>2 DEF i, t, s
  <2>7. Continue(w, j2)
    BY <1>8, <1>9
  <2> HIDE DEF j2
  <2> QED BY <1>1, <1>4, <2>6, <2>7, ContinueKeeps
<1>10. CASE bad # {}
  <2>1. bad \in SUBSET Nat
    BY <1>6
  <2>2. \E i \in bad : \A k \in bad : i <= k
    <3> HIDE DEF bad
    <3> QED BY <1>10, <2>1, LeastElement
  <2>3. first \in bad
    BY <2>2
  <2>4. first \in 1..Len(j.next) /\ ~Convertible(d, D, j.next[first].net)
    BY <1>6, <1>7, <2>3
  <2> DEFINE n == j.next[first].net
  <2>5. Abandon(w, UnmappedReason(n))
    BY <1>8, <1>10
  <2>6. n \in Cone(d, o) /\ d.kind[n] = "constX"
    <3> HIDE DEF first
    <3> QED BY <1>1, <1>2, <1>3, <1>5, <2>4, BadInput
  <2>7. UnmappedReason(n) = "UnknownConstant" /\ "UnknownConstant" \in FlawOf(d, n)
    BY <2>6 DEF UnmappedReason, FlawOf, Kind
  <2> HIDE DEF first
  <2> QED BY <1>1, <1>4, <2>5, <2>6, <2>7, AbandonKeeps
<1> QED BY <1>9, <1>10

NodesOn(s) == s \in Seq([net : Nets, type : {"P", "Table"}, visited : BOOLEAN])

LEMMA FrontAndLast ==
  ASSUME NEW s, NodesOn(s), s # <<>>
  PROVE  /\ Len(s) \in Nat \ {0} /\ Last(s) = s[Len(s)] /\ NodesOn(Front(s))
         /\ Len(Front(s)) = Len(s) - 1 /\ \A i \in 1..Len(s) - 1 : Front(s)[i] = s[i]
         /\ \A i \in 1..Len(s) : s[i] \in [net : Nets, type : {"P", "Table"}, visited : BOOLEAN]
<1> DEFINE T == [net : Nets, type : {"P", "Table"}, visited : BOOLEAN]
<1>1. s \in Seq(T)
  BY DEF NodesOn
<1> HIDE DEF T
<1>2. Len(s) \in Nat \ {0}
  BY <1>1, LenProperties, EmptySeq
<1>3. Front(s) = SubSeq(s, 1, Len(s) - 1) /\ Last(s) = s[Len(s)]
  BY DEF Front, Last
<1>4. \A i \in 1..Len(s) : s[i] \in T
  BY <1>1, ElementOfSeq
<1>5. /\ SubSeq(s, 1, Len(s) - 1) \in Seq(T) /\ Len(SubSeq(s, 1, Len(s) - 1)) = Len(s) - 1
      /\ \A i \in 1..Len(s) - 1 : SubSeq(s, 1, Len(s) - 1)[i] = s[i]
  <2> DEFINE n == Len(s) - 1
             a == SubSeq(s, 1, n)
  <2>1. 1 \in Int /\ n \in Int /\ n \in Nat /\ \A i \in 1..n : s[i] \in T
    BY <1>2, <1>4
  <2> HIDE DEF n
  <2>2. /\ a \in Seq(T) /\ Len(a) = (IF 1 <= n THEN n - 1 + 1 ELSE 0)
        /\ \A i \in 1..n - 1 + 1 : a[i] = s[1 + i - 1]
    BY <2>1, SubSeqProperties
  <2> HIDE DEF a
  <2>3. ASSUME NEW i \in 1..n PROVE a[i] = s[i]
    <3>1. i \in 1..n - 1 + 1 /\ 1 + i - 1 = i
      BY <2>1
    <3> QED BY <2>2, <3>1
  <2>4. Len(a) = n /\ a \in Seq(T)
    BY <2>1, <2>2
  <2> QED BY <2>3, <2>4 DEF n, a
<1> QED BY <1>2, <1>3, <1>4, <1>5 DEF T, NodesOn

\* A net that is finished, or still on the stack.
Comes(D, stack, n) == n \in D \/ OnStack(stack, 1, n)

\* The top of the stack is finished and leaves it.
LEMMA PopFits ==
  ASSUME NEW d, NEW D, NEW E, D \subseteq E, NEW tree, NEW s, StackFits(d, D, tree, s),
         s # <<>>, s[Len(s)].net \in E
  PROVE  /\ StackFits(d, E, tree, Front(s))
         /\ \A n : Comes(D, s, n) => Comes(E, Front(s), n)
<1> DEFINE f == Front(s)
           L == Len(s)
<1>1. NodesOn(s)
  BY DEF StackFits, NodesOn
<1>2. /\ L \in Nat \ {0} /\ NodesOn(f) /\ Len(f) = L - 1 /\ \A i \in 1..L - 1 : f[i] = s[i]
  BY <1>1, FrontAndLast
<1> HIDE DEF f
<1>3. ASSUME NEW i \in Nat \ {0}, NEW n, OnStack(s, i, n) PROVE n \in E \/ OnStack(f, i, n)
  <2>1. PICK q \in i..L : s[q].net = n
    BY <1>3 DEF OnStack
  <2>2. CASE q = L
    BY <2>1, <2>2
  <2>3. CASE q # L
    <3>1. q \in i..Len(f) /\ q \in 1..L - 1
      BY <1>2, <2>3
    <3>2. f[q].net = n
      BY <1>2, <2>1, <3>1
    <3> QED BY <3>1, <3>2 DEF OnStack
  <2> QED BY <2>2, <2>3
<1>4. ASSUME NEW i \in 1..Len(f)
      PROVE  /\ f[i].type = "Table" => f[i].net \in DOMAIN tree
             /\ f[i].type = "P" => Convertible(d, E, f[i].net) /\ ~f[i].visited
             /\ f[i].visited =>
                  \A k \in DOMAIN d.reads[f[i].net] :
                      d.reads[f[i].net][k] \in E \/ OnStack(f, i + 1, d.reads[f[i].net][k])
  <2>1. i \in 1..L - 1 /\ i \in 1..L /\ i + 1 \in Nat \ {0}
    BY <1>2
  <2>2. f[i] = s[i]
    BY <1>2, <2>1
  <2>3. /\ s[i].type = "Table" => s[i].net \in DOMAIN tree
        /\ s[i].type = "P" => Convertible(d, D, s[i].net) /\ ~s[i].visited
        /\ s[i].visited =>
             \A k \in DOMAIN d.reads[s[i].net] :
                 d.reads[s[i].net][k] \in D \/ OnStack(s, i + 1, d.reads[s[i].net][k])
    BY <2>1 DEF StackFits
  <2>4. Convertible(d, D, s[i].net) => Convertible(d, E, s[i].net)
    BY DEF Convertible
  <2>5. s[i].visited =>
          \A k \in DOMAIN d.reads[s[i].net] :
              d.reads[s[i].net][k] \in E \/ OnStack(f, i + 1, d.reads[s[i].net][k])
    BY <1>3, <2>1, <2>3
  <2> QED BY <2>2, <2>3, <2>4, <2>5
<1>5. StackFits(d, E, tree, f)
  BY <1>2, <1>4 DEF StackFits, NodesOn
<1>6. \A n : Comes(D, s, n) => Comes(E, f, n)
  BY <1>3 DEF Comes
<1> QED BY <1>5, <1>6 DEF f

\* The children of a table node go onto the stack, above the node itself.
Unvisit(children) ==
    [k \in DOMAIN children |->
        [net |-> children[k].net, type |-> children[k].type, visited |-> FALSE]]

Pushed(s, children) == Append(Front(s), [Last(s) EXCEPT !.visited = TRUE]) \o Unvisit(children)

LEMMA PushedIs ==
  ASSUME NEW s, NodesOn(s), s # <<>>, NEW n \in Nat, NEW children,
         DOMAIN children = 1..n,
         \A k \in 1..n : children[k] \in [type : {"P", "Table"}, net : Nets]
  PROVE  LET t == Pushed(s, children)
             L == Len(s)
         IN  /\ NodesOn(t) /\ Len(t) = L + n
             /\ \A i \in 1..L - 1 : t[i] = s[i]
             /\ t[L].net = s[L].net /\ t[L].type = s[L].type /\ t[L].visited
             /\ \A k \in 1..n : /\ t[L + k].net = children[k].net
                                /\ t[L + k].type = children[k].type /\ ~t[L + k].visited
<1> DEFINE T == [net : Nets, type : {"P", "Table"}, visited : BOOLEAN]
           L == Len(s)
           a == Front(s)
           e == [Last(s) EXCEPT !.visited = TRUE]
           b == Append(a, e)
           c == Unvisit(children)
           t == b \o c
<1>1. /\ L \in Nat \ {0} /\ Last(s) = s[L] /\ NodesOn(a) /\ Len(a) = L - 1
      /\ \A i \in 1..L - 1 : a[i] = s[i]
      /\ s[L] \in T
  BY FrontAndLast
<1>2. e \in T /\ e.net = s[L].net /\ e.type = s[L].type /\ e.visited
  BY <1>1
<1>3. /\ c \in Seq(T) /\ Len(c) = n
      /\ \A k \in 1..n : c[k].net = children[k].net /\ c[k].type = children[k].type /\ ~c[k].visited
  <2>1. c = [k \in 1..n |-> [net |-> children[k].net, type |-> children[k].type, visited |-> FALSE]]
    BY DEF Unvisit
  <2>2. \A k \in 1..n : c[k] \in T
    BY <2>1
  <2>3. c \in [1..n -> T]
    BY <2>1, <2>2
  <2>4. c \in Seq(T) /\ Len(c) = n
    <3> HIDE DEF c, T
    <3>1. c \in Seq(T)
      BY <2>3
    <3> QED BY <2>3, <3>1, LenProperties
  <2> QED BY <2>1, <2>4
<1>4. a \in Seq(T)
  BY <1>1 DEF NodesOn
<1> HIDE DEF T, a, e, c, L
<1>5. /\ b \in Seq(T) /\ Len(b) = L /\ b[L] = e /\ \A i \in 1..L - 1 : b[i] = a[i]
  BY <1>1, <1>2, <1>4, AppendProperties
<1> HIDE DEF b
<1>6. /\ t \in Seq(T) /\ Len(t) = L + n /\ \A i \in 1..L : t[i] = b[i]
      /\ \A k \in 1..n : t[L + k] = c[k]
  <2>1. /\ t \in Seq(T) /\ Len(t) = Len(b) + Len(c)
        /\ \A i \in 1..Len(b) : t[i] = b[i]
        /\ \A i \in Len(b) + 1 .. Len(b) + Len(c) : t[i] = c[i - Len(b)]
    <3>1. /\ t \in Seq(T) /\ Len(t) = Len(b) + Len(c)
          /\ \A i \in 1..Len(b) + Len(c) : t[i] = IF i <= Len(b) THEN b[i] ELSE c[i - Len(b)]
      <4>1. b \in Seq(T) /\ c \in Seq(T)
        BY <1>3, <1>5
      <4> QED BY <4>1, ConcatProperties
    <3>2. Len(b) \in Nat /\ Len(c) \in Nat
      BY <1>1, <1>3, <1>5
    <3> HIDE DEF t
    <3> QED BY <3>1, <3>2
  <2>2. ASSUME NEW k \in 1..n PROVE t[L + k] = c[k]
    <3>1. L + k \in L + 1 .. L + n /\ (L + k) - L = k
      BY <1>1
    <3> QED BY <1>3, <1>5, <2>1, <3>1
  <2> QED BY <1>3, <1>5, <2>1, <2>2
<1>7. t = Pushed(s, children)
  BY DEF Pushed, t, b, a, e, c
<1> HIDE DEF t
<1>8. /\ \A i \in 1..L - 1 : t[i] = s[i]
      /\ t[L] = e
  BY <1>1, <1>5, <1>6
<1>9. /\ t[L].net = s[L].net /\ t[L].type = s[L].type /\ t[L].visited
      /\ \A k \in 1..n : /\ t[L + k].net = children[k].net
                         /\ t[L + k].type = children[k].type /\ ~t[L + k].visited
  BY <1>2, <1>3, <1>6, <1>8
<1>10. NodesOn(t)
  BY <1>6 DEF NodesOn, T
<1> QED BY ONLY <1>6, <1>7, <1>8, <1>9, <1>10 DEF L

LEMMA PushFits ==
  ASSUME NEW d \in Netlists, NEW D, NEW tree, TreeIsDone(d, D, tree), NEW s,
         StackFits(d, D, tree, s), s # <<>>, s[Len(s)].type = "Table"
  PROVE  /\ StackFits(d, D, tree, Pushed(s, tree[s[Len(s)].net]))
         /\ \A n : Comes(D, s, n) => Comes(D, Pushed(s, tree[s[Len(s)].net]), n)
<1> DEFINE L == Len(s)
           m == s[L].net
           children == tree[m]
           t == Pushed(s, children)
           N == Len(d.reads[m])
<1>1. NodesOn(s)
  BY DEF StackFits, NodesOn
<1>2. L \in Nat \ {0} /\ L \in 1..L
  BY <1>1, FrontAndLast
<1>3. m \in DOMAIN tree
  BY <1>2 DEF StackFits
<1>4. /\ Clean(d, m) /\ children \in [DOMAIN d.reads[m] -> [type : {"P", "Table"}, net : Nets]]
      /\ \A k \in DOMAIN d.reads[m] :
             /\ children[k].net = d.reads[m][k]
             /\ children[k].type = "Table" => d.reads[m][k] \in DOMAIN tree
             /\ children[k].type = "P" => Convertible(d, D, d.reads[m][k])
  BY <1>3 DEF TreeIsDone
<1>5. N \in Nat /\ DOMAIN d.reads[m] = 1..N
  <2>1. d.reads[m] \in Seq(Nets)
    BY <1>4, NetlistFacts DEF Clean
  <2> QED BY <2>1, LenProperties
<1>6. /\ DOMAIN children = 1..N
      /\ \A k \in 1..N : children[k] \in [type : {"P", "Table"}, net : Nets]
  BY <1>4, <1>5
<1>7. /\ NodesOn(t) /\ Len(t) = L + N
      /\ \A i \in 1..L - 1 : t[i] = s[i]
      /\ t[L].net = m /\ t[L].type = "Table" /\ t[L].visited
      /\ \A k \in 1..N : /\ t[L + k].net = children[k].net
                         /\ t[L + k].type = children[k].type /\ ~t[L + k].visited
  <2> HIDE DEF children, N
  <2> QED BY <1>1, <1>5, <1>6, PushedIs
<1> HIDE DEF t, children, N, m
<1>8. ASSUME NEW i \in Nat \ {0}, NEW n, OnStack(s, i, n) PROVE OnStack(t, i, n)
  <2>1. PICK q \in i..L : s[q].net = n
    BY <1>8 DEF OnStack
  <2>2. q \in i..Len(t)
    BY <1>2, <1>5, <1>7
  <2>3. t[q].net = n
    <3>1. CASE q = L
      BY <1>7, <2>1, <3>1 DEF m
    <3>2. CASE q # L
      <4>1. q \in 1..L - 1
        BY <1>2, <3>2
      <4> QED BY <1>7, <2>1, <4>1
    <3> QED BY <3>1, <3>2
  <2> QED BY <2>2, <2>3 DEF OnStack
<1>9. ASSUME NEW k \in 1..N PROVE OnStack(t, L + 1, d.reads[m][k])
  <2>1. L + k \in L + 1 .. Len(t)
    BY <1>2, <1>5, <1>7
  <2>2. t[L + k].net = d.reads[m][k]
    BY <1>4, <1>5, <1>7
  <2> QED BY <2>1, <2>2 DEF OnStack
<1>10. ASSUME NEW i \in 1..Len(t)
       PROVE  /\ t[i].type = "Table" => t[i].net \in DOMAIN tree
              /\ t[i].type = "P" => Convertible(d, D, t[i].net) /\ ~t[i].visited
              /\ t[i].visited =>
                   \A k \in DOMAIN d.reads[t[i].net] :
                       d.reads[t[i].net][k] \in D \/ OnStack(t, i + 1, d.reads[t[i].net][k])
  <2>1. CASE i \in 1..L - 1
    <3>1. i \in 1..L /\ i + 1 \in Nat \ {0}
      BY <1>2, <2>1
    <3>2. t[i] = s[i]
      BY <1>7, <2>1
    <3>3. /\ s[i].type = "Table" => s[i].net \in DOMAIN tree
          /\ s[i].type = "P" => Convertible(d, D, s[i].net) /\ ~s[i].visited
          /\ s[i].visited =>
               \A k \in DOMAIN d.reads[s[i].net] :
                   d.reads[s[i].net][k] \in D \/ OnStack(s, i + 1, d.reads[s[i].net][k])
      BY <3>1 DEF StackFits
    <3>4. \A n : OnStack(s, i + 1, n) => OnStack(t, i + 1, n)
      BY <1>8, <3>1
    <3> QED BY <3>2, <3>3, <3>4
  <2>2. CASE i = L
    BY <1>3, <1>5, <1>7, <1>9, <2>2 DEF m
  <2>3. CASE i \notin 1..L
    <3> DEFINE k == i - L
    <3>1. k \in 1..N /\ i = L + k
      BY <1>2, <1>5, <1>7, <2>3
    <3> HIDE DEF k
    <3>2. t[i].net = d.reads[m][k] /\ t[i].type = children[k].type /\ ~t[i].visited
      BY <1>4, <1>5, <1>7, <3>1
    <3> QED BY <1>4, <1>5, <3>1, <3>2
  <2>4. i \in 1..L - 1 \/ i = L \/ i \notin 1..L
    BY <1>2
  <2> QED BY <2>1, <2>2, <2>3, <2>4
<1>11. StackFits(d, D, tree, t)
  BY <1>7, <1>10 DEF StackFits, NodesOn
<1>12. \A n : Comes(D, s, n) => Comes(D, t, n)
  BY <1>8 DEF Comes
<1> QED BY <1>11, <1>12 DEF t, children, m

\* What one conversion step owes: the stack it leaves fits the map it leaves.
LEMMA ConvertedOn ==
  ASSUME IInv, NEW w \in Workers, status = "running", Converting(netlist, DOMAIN iso2expr, job[w]),
         NEW stack, job' = [job EXCEPT ![w] = [job[w] EXCEPT !.stack = stack]],
         UNCHANGED <<netlist, chunk, POs, skipped, status>>,
         DOMAIN iso2expr \subseteq DOMAIN iso2expr', MapFits(netlist, iso2expr'),
         StackFits(netlist, DOMAIN iso2expr', job[w].tree, stack),
         \A n : Comes(DOMAIN iso2expr, job[w].stack, n) => Comes(DOMAIN iso2expr', stack, n)
  PROVE  IInv'
<1> DEFINE j == job[w]
           d == netlist
           D == DOMAIN iso2expr
           E == DOMAIN iso2expr'
           j2 == [j EXCEPT !.stack = stack]
           i == j.output
           t == j.tree
           s == j.stack
<1>1. /\ j = [at |-> "convert", output |-> i, tree |-> t, stack |-> s]
      /\ DOMAIN t \subseteq Nets /\ TreeIsDone(d, D, t) /\ Comes(D, s, d.outputs[i])
  BY DEF Converting, Comes
<1>2. TreeIsDone(d, E, t)
  <2> HIDE DEF d, D, E, t
  <2> QED BY <1>1, MoreTreeIsDone DEF D, E
<1>3. StackFits(d, E, t, stack) /\ Comes(E, stack, d.outputs[i])
  BY <1>1
<1>4. j2 = ConvertJob(i, t, stack)
  <2>1. j2 = [j EXCEPT !.stack = stack]
    OBVIOUS
  <2> HIDE DEF j2, j, i, t, s
  <2> QED BY <1>1, <2>1 DEF ConvertJob
<1>5. JobFits(d, E, j2) /\ j2 # Idle /\ j2.output = i
  <2>1. d.outputs[i] \in E \/ OnStack(stack, 1, d.outputs[i])
    BY <1>3 DEF Comes
  <2> HIDE DEF d, D, E, j2, j, i, t, s
  <2>2. /\ JobFits(d, E, ConvertJob(i, t, stack)) /\ ConvertJob(i, t, stack) # Idle
        /\ ConvertJob(i, t, stack).output = i
    BY <1>1, <1>2, <1>3, <2>1, ConvertFits
  <2> QED BY <1>4, <2>2
<1>6. j # Idle
  <2>1. j.at = "convert"
    BY DEF Converting
  <2> QED BY <2>1 DEF Idle
<1>7. GoesOn(w, j2)
  BY <1>5, <1>6 DEF GoesOn
<1> HIDE DEF j2
<1> QED BY <1>7, GoesOnKeeps

\* The first expression of a net stays, a new one fits the map.
LEMMA PublishKeeps ==
  ASSUME IInv, NEW n \in Nets, NEW e, Publish(n, e),
         n \notin DOMAIN iso2expr =>
           \/ netlist.kind[n] \in MappedKinds /\ e = ValueIn(netlist, n)
           \/ /\ Clean(netlist, n) /\ Range(netlist.reads[n]) \subseteq DOMAIN iso2expr
              /\ e = TableIn(netlist, n, iso2expr)
  PROVE  /\ MapFits(netlist, iso2expr') /\ DOMAIN iso2expr \subseteq DOMAIN iso2expr'
         /\ n \in DOMAIN iso2expr'
<1>1. netlist \in Netlists /\ MapFits(netlist, iso2expr)
  BY DEF IInv
<1>2. CASE n \in DOMAIN iso2expr
  <2>1. iso2expr' = iso2expr
    BY <1>2 DEF Publish
  <2> QED BY <1>1, <1>2, <2>1
<1>3. CASE n \notin DOMAIN iso2expr
  <2>1. iso2expr' = With(iso2expr, n, e)
    BY <1>3 DEF Publish
  <2>2. DOMAIN With(iso2expr, n, e) = DOMAIN iso2expr \union {n}
    BY DEF With
  <2>3. MapFits(netlist, With(iso2expr, n, e))
    BY <1>1, <1>3, PublishFits
  <2> QED BY <2>1, <2>2, <2>3
<1> QED BY <1>2, <1>3

LEMMA TopFacts ==
  ASSUME NEW d, NEW D, NEW j, Converting(d, D, j), j.stack # <<>>
  PROVE  /\ NodesOn(j.stack) /\ Len(j.stack) \in Nat \ {0}
         /\ Last(j.stack) = j.stack[Len(j.stack)]
         /\ Last(j.stack).net \in Nets /\ Last(j.stack).type \in {"P", "Table"}
         /\ Last(j.stack).type = "Table" => Last(j.stack).net \in DOMAIN j.tree
         /\ Last(j.stack).type = "P" => Convertible(d, D, Last(j.stack).net) /\ ~Last(j.stack).visited
         /\ Last(j.stack).visited => Range(d.reads[Last(j.stack).net]) \subseteq D
         /\ StackFits(d, D, j.tree, j.stack) /\ TreeIsDone(d, D, j.tree)
<1> DEFINE s == j.stack
           L == Len(s)
<1>1. StackFits(d, D, j.tree, s) /\ TreeIsDone(d, D, j.tree)
  BY DEF Converting
<1> HIDE DEF s
<1>2. NodesOn(s) /\ s # <<>>
  BY <1>1 DEF StackFits, NodesOn, s
<1>3. /\ L \in Nat \ {0} /\ L \in 1..L /\ Last(s) = s[L]
      /\ s[L] \in [net : Nets, type : {"P", "Table"}, visited : BOOLEAN]
  BY <1>2, FrontAndLast
<1>4. /\ s[L].type = "Table" => s[L].net \in DOMAIN j.tree
      /\ s[L].type = "P" => Convertible(d, D, s[L].net) /\ ~s[L].visited
      /\ s[L].visited =>
           \A k \in DOMAIN d.reads[s[L].net] :
               d.reads[s[L].net][k] \in D \/ OnStack(s, L + 1, d.reads[s[L].net][k])
  BY <1>1, <1>3 DEF StackFits
<1>5. \A n : ~OnStack(s, L + 1, n)
  BY <1>3 DEF OnStack
<1>6. s[L].visited => Range(d.reads[s[L].net]) \subseteq D
  BY <1>4, <1>5 DEF Range
<1> QED BY <1>1, <1>2, <1>3, <1>4, <1>6 DEF s

LEMMA VisitNodeKeeps ==
  ASSUME IInv, NEW w \in Workers, VisitNode(w)
  PROVE  IInv'
<1> DEFINE j == job[w]
           d == netlist
           D == DOMAIN iso2expr
           node == Last(j.stack)
           n == node.net
           rest == Front(j.stack)
           s2 == Pushed(j.stack, j.tree[n])
<1>1. /\ status = "running" /\ j.at = "convert" /\ j.stack # <<>>
      /\ ~node.visited /\ UNCHANGED <<netlist, chunk>>
  BY DEF VisitNode
<1>2. d \in Netlists /\ JobFits(d, D, j)
  BY DEF IInv, WorkersFit
<1>3. Converting(d, D, j)
  BY <1>1, <1>2, JobAt
<1>4. /\ n \in Nets /\ node.type \in {"P", "Table"} /\ node = j.stack[Len(j.stack)]
      /\ node.type = "Table" => n \in DOMAIN j.tree
      /\ node.type = "P" => Convertible(d, D, n)
      /\ StackFits(d, D, j.tree, j.stack) /\ TreeIsDone(d, D, j.tree)
  <2> HIDE DEF j, d, D
  <2> QED BY <1>1, <1>3, TopFacts
<1>5. MapFits(d, iso2expr)
  BY DEF IInv
<1> DEFINE t == j.tree
           s == j.stack
<1>6. ASSUME NEW E, D \subseteq E, n \in E
      PROVE  StackFits(d, E, t, rest) /\ \A m : Comes(D, s, m) => Comes(E, rest, m)
  <2>1. StackFits(d, D, t, s) /\ s # <<>> /\ s[Len(s)].net \in E
    BY <1>1, <1>4, <1>6
  <2> HIDE DEF d, D, t, s
  <2>2. StackFits(d, E, t, Front(s)) /\ \A m : Comes(D, s, m) => Comes(E, Front(s), m)
    BY <1>6, <2>1, PopFits
  <2> QED BY <2>2 DEF s
<1>7. CASE n \in D
  <2>1. Continue(w, [j EXCEPT !.stack = rest])
    BY <1>7 DEF VisitNode
  <2>2. /\ job' = [job EXCEPT ![w] = [job[w] EXCEPT !.stack = rest]]
        /\ iso2expr' = iso2expr /\ UNCHANGED <<POs, skipped, status>>
    BY <2>1 DEF Continue, Become
  <2>3. StackFits(d, DOMAIN iso2expr', t, rest)
        /\ \A m : Comes(D, s, m) => Comes(DOMAIN iso2expr', rest, m)
    BY <1>6, <1>7, <2>2
  <2> HIDE DEF rest
  <2> QED BY <1>1, <1>3, <1>5, <2>2, <2>3, ConvertedOn
<1>8. CASE n \notin D /\ node.type = "P"
  <2>1. /\ Publish(n, VarValue(n)) /\ Become(w, [j EXCEPT !.stack = rest])
        /\ UNCHANGED <<POs, skipped, status>>
    BY <1>8 DEF VisitNode
  <2>2. /\ job' = [job EXCEPT ![w] = [job[w] EXCEPT !.stack = rest]]
    BY <2>1 DEF Become
  <2>3. d.kind[n] \in MappedKinds
    BY <1>4, <1>8 DEF Convertible
  <2>4. VarValue(n) = ValueIn(d, n)
    BY DEF VarValue, ValueIn, Assignments, Inputs, Kind
  <2>5. MapFits(d, iso2expr') /\ D \subseteq DOMAIN iso2expr' /\ n \in DOMAIN iso2expr'
    <3> HIDE DEF n
    <3> QED BY <1>4, <2>1, <2>3, <2>4, PublishKeeps
  <2>6. StackFits(d, DOMAIN iso2expr', t, rest)
        /\ \A m : Comes(D, s, m) => Comes(DOMAIN iso2expr', rest, m)
    BY <1>6, <2>5
  <2> HIDE DEF rest
  <2> QED BY <1>1, <1>3, <2>1, <2>2, <2>5, <2>6, ConvertedOn
<1>9. CASE n \notin D /\ node.type # "P"
  <2>0. node.type = "Table"
    BY <1>4, <1>9
  <2> DEFINE tail == [k \in DOMAIN j.tree[n] |->
                        [net |-> j.tree[n][k].net, type |-> j.tree[n][k].type, visited |-> FALSE]]
             s3 == Append(rest, [node EXCEPT !.visited = TRUE]) \o tail
  <2>1. Continue(w, [j EXCEPT !.stack = s3])
    BY <1>9 DEF VisitNode
  <2>2. s3 = s2
    BY DEF Pushed, Unvisit
  <2>3. /\ job' = [job EXCEPT ![w] = [job[w] EXCEPT !.stack = s2]]
        /\ iso2expr' = iso2expr /\ UNCHANGED <<POs, skipped, status>>
    <3> HIDE DEF s3, s2
    <3> QED BY <2>1, <2>2 DEF Continue, Become
  <2>4. StackFits(d, D, t, s2) /\ \A m : Comes(D, s, m) => Comes(D, s2, m)
    <3>1. /\ StackFits(d, D, t, s) /\ TreeIsDone(d, D, t) /\ s # <<>> /\ s[Len(s)].type = "Table"
          /\ s2 = Pushed(s, t[s[Len(s)].net])
      BY <1>1, <1>4, <2>0
    <3> HIDE DEF d, D, t, s, s2
    <3> QED BY <1>2, <3>1, PushFits DEF d
  <2>5. StackFits(d, DOMAIN iso2expr', t, s2)
        /\ \A m : Comes(D, s, m) => Comes(DOMAIN iso2expr', s2, m)
    BY <2>3, <2>4
  <2> HIDE DEF s2
  <2> QED BY <1>1, <1>3, <1>5, <2>3, <2>5, ConvertedOn
<1> QED BY <1>7, <1>8, <1>9

\* The table of a tree node, read through the map, is the table of its net.
LEMMA TableIs ==
  ASSUME netlist \in Netlists, NEW D, NEW tree, TreeIsDone(netlist, D, tree),
         NEW n \in DOMAIN tree
  PROVE  TableExpr(n, [k \in DOMAIN tree[n] |-> iso2expr[tree[n][k].net]])
           = TableIn(netlist, n, iso2expr)
<1> DEFINE c == tree[n]
           r == netlist.reads[n]
           v == [k \in DOMAIN c |-> iso2expr[c[k].net]]
           v2 == [k \in DOMAIN r |-> iso2expr[r[k]]]
<1>1. c \in [DOMAIN r -> [type : {"P", "Table"}, net : Nets]] /\ \A k \in DOMAIN r : c[k].net = r[k]
  BY DEF TreeIsDone
<1> HIDE DEF c, r
<1>2. v = v2
  BY <1>1
<1>3. ASSUME NEW a
      PROVE  {k \in DOMAIN v2 : a \in v2[k]} = {k \in DOMAIN r : a \in iso2expr[r[k]]}
  OBVIOUS
<1>4. Assignments = SUBSET Inputs(netlist)
  BY DEF Assignments, Inputs, Kind
<1>5. TableExpr(n, v2) = TableIn(netlist, n, iso2expr)
  <2>1. TableExpr(n, v2) = {a \in Assignments : {k \in DOMAIN v2 : a \in v2[k]} \in netlist.rows[n]}
    BY DEF TableExpr
  <2>2. TableIn(netlist, n, iso2expr)
          = {a \in SUBSET Inputs(netlist) :
               {k \in DOMAIN r : a \in iso2expr[r[k]]} \in netlist.rows[n]}
    BY DEF TableIn, r
  <2> HIDE DEF v2
  <2> QED BY <1>3, <1>4, <2>1, <2>2
<1>6. TableExpr(n, v) = TableIn(netlist, n, iso2expr)
  BY <1>2, <1>5
<1> QED BY <1>6 DEF c, r

LEMMA FinishNodeKeeps ==
  ASSUME IInv, NEW w \in Workers, FinishNode(w)
  PROVE  IInv'
<1> DEFINE j == job[w]
           d == netlist
           D == DOMAIN iso2expr
           node == Last(j.stack)
           n == node.net
           e == TableExpr(n, [k \in DOMAIN j.tree[n] |-> iso2expr[j.tree[n][k].net]])
           rest == Front(j.stack)
           t == j.tree
           s == j.stack
<1>1. /\ status = "running" /\ j.at = "convert" /\ j.stack # <<>>
      /\ node.visited /\ Publish(n, e) /\ job' = [job EXCEPT ![w] = [job[w] EXCEPT !.stack = rest]]
      /\ UNCHANGED <<netlist, chunk, POs, skipped, status>>
  BY DEF FinishNode, Become
<1>2. d \in Netlists /\ JobFits(d, D, j)
  BY DEF IInv, WorkersFit
<1>3. Converting(d, D, j)
  BY <1>1, <1>2, JobAt
<1>4. /\ n \in Nets /\ node.type \in {"P", "Table"} /\ node = j.stack[Len(j.stack)]
      /\ node.type = "Table" => n \in DOMAIN j.tree
      /\ node.type = "P" => ~node.visited
      /\ node.visited => Range(d.reads[n]) \subseteq D
      /\ StackFits(d, D, j.tree, j.stack) /\ TreeIsDone(d, D, j.tree)
  <2> HIDE DEF j, d, D
  <2> QED BY <1>1, <1>3, TopFacts
<1>5. n \in DOMAIN t /\ Range(d.reads[n]) \subseteq D /\ Clean(d, n)
  BY <1>1, <1>4 DEF TreeIsDone
<1>6. e = TableIn(d, n, iso2expr)
  <2>1. TreeIsDone(d, D, t)
    BY <1>4
  <2> HIDE DEF D, n, t
  <2>2. TableExpr(n, [k \in DOMAIN t[n] |-> iso2expr[t[n][k].net]]) = TableIn(netlist, n, iso2expr)
    BY <1>2, <1>5, <2>1, TableIs
  <2> QED BY <2>2 DEF t
<1>7. MapFits(d, iso2expr') /\ D \subseteq DOMAIN iso2expr' /\ n \in DOMAIN iso2expr'
  <2> HIDE DEF n, e
  <2> QED BY <1>1, <1>4, <1>5, <1>6, PublishKeeps
<1>8. StackFits(d, DOMAIN iso2expr', t, rest)
      /\ \A m : Comes(D, s, m) => Comes(DOMAIN iso2expr', rest, m)
  <2> DEFINE E == DOMAIN iso2expr'
  <2>1. StackFits(d, D, t, s) /\ s # <<>> /\ s[Len(s)].net \in E /\ D \subseteq E
    BY <1>1, <1>4, <1>7
  <2> HIDE DEF d, D, t, s, E
  <2>2. StackFits(d, E, t, Front(s)) /\ \A m : Comes(D, s, m) => Comes(E, Front(s), m)
    BY <2>1, PopFits
  <2> QED BY <2>2 DEF s, E
<1> HIDE DEF rest
<1> QED BY <1>1, <1>3, <1>7, <1>8, ConvertedOn

\* What the map says of a net is an answer for an output on that net.
LEMMA AnswerSettles ==
  ASSUME NEW d \in Netlists, NEW n \in Nets, NEW e,
         \/ d.kind[n] \in MappedKinds /\ e = ValueIn(d, n)
         \/ \E f : MapFits(d, f) /\ n \in DOMAIN f /\ e = f[n]
  PROVE  Settled(d, Expression(e), {}, n)
<1>1. IsValueOf(d, e, n) /\ Flaws(d, n) = {} /\ e \in SUBSET SUBSET Inputs(d)
  <2>1. CASE d.kind[n] \in MappedKinds /\ e = ValueIn(d, n)
    BY <2>1, MappedIsValue
  <2>2. CASE \E f : MapFits(d, f) /\ n \in DOMAIN f /\ e = f[n]
    <3>1. PICK f : MapFits(d, f) /\ n \in DOMAIN f /\ e = f[n]
      BY <2>2
    <3> QED BY <3>1, MapIsValue, MapHasNoFlaws
  <2> QED BY <2>1, <2>2
<1> QED BY <1>1 DEF Settled

LEMMA TakeExpressionKeeps ==
  ASSUME IInv, NEW w \in Workers, TakeExpression(w)
  PROVE  IInv'
<1> DEFINE j == job[w]
           d == netlist
           D == DOMAIN iso2expr
           i == j.output
           o == d.outputs[i]
<1>1. /\ status = "running" /\ j.at = "convert" /\ j.stack = <<>>
      /\ POs' = [POs EXCEPT ![i] = Expression(iso2expr[o])]
      /\ job' = [job EXCEPT ![w] = Idle]
      /\ UNCHANGED <<netlist, chunk, iso2expr, skipped, status>>
  BY DEF TakeExpression, Become, Outputs
<1>2. d \in Netlists /\ JobFits(d, D, j)
  BY DEF IInv, WorkersFit
<1>3. Converting(d, D, j) /\ j # Idle
  BY <1>1, <1>2, JobAt
<1>4. Working(w)
  BY <1>1, <1>3 DEF Working
<1>5. o \in Nets /\ i \in RepsIn(d) /\ i \in DOMAIN d.outputs
  BY <1>4, WorkerFacts
<1>6. o \in D
  <2>1. o \in D \/ OnStack(j.stack, 1, o)
    BY <1>3 DEF Converting
  <2>2. ~OnStack(<<>>, 1, o)
    BY DEF OnStack
  <2> QED BY <1>1, <2>1, <2>2
<1>7. Settled(d, Expression(iso2expr[o]), {}, o)
  <2>1. MapFits(d, iso2expr)
    BY DEF IInv
  <2> HIDE DEF o
  <2> QED BY <1>2, <1>5, <1>6, <2>1, AnswerSettles
<1>8. skipped[i] = {} /\ skipped = [skipped EXCEPT ![i] = {}]
  <2>1. Waits(chunk[w], job[w], i)
    BY <1>3 DEF Waits
  <2>2. skipped[i] = {}
    BY <1>5, <2>1 DEF IInv, OutputsFit
  <2>3. skipped = [k \in DOMAIN skipped |-> skipped[k]] /\ i \in DOMAIN skipped
    BY <1>5 DEF IInv, OutputsFit
  <2> QED BY <2>2, <2>3
<1>9. Settles(w, Expression(iso2expr[o]), {})
  BY <1>1, <1>3, <1>7, <1>8 DEF Settles
<1> QED BY <1>9, SettlesKeeps

-----------------------------------------------------------------------------
(* A worker takes its next output                                           *)

LEMMA HeadTakes ==
  ASSUME NEW S, NEW c, RangeFits(c, S), c # <<>>
  PROVE  /\ Head(c) \in S /\ Head(c) \in Range(c) /\ RangeFits(Tail(c), S)
         /\ \A k : k \in Range(Tail(c)) <=> k \in Range(c) /\ k # Head(c)
<1>1. c \in Seq(S) /\ \A a, b \in 1..Len(c) : c[a] = c[b] => a = b
  BY DEF RangeFits
<1>2. /\ Head(c) \in S /\ Tail(c) \in Seq(S) /\ 1 \in DOMAIN c /\ Head(c) = c[1]
      /\ \A i \in DOMAIN Tail(c) :
           i \in Int /\ i >= 1 /\ i + 1 \in DOMAIN c /\ Tail(c)[i] = c[i + 1]
      /\ \A i \in DOMAIN c : i = 1 \/ (i - 1 \in DOMAIN Tail(c) /\ Tail(c)[i - 1] = c[i])
  BY <1>1, HeadTail
<1>3. DOMAIN c = 1..Len(c) /\ DOMAIN Tail(c) = 1..Len(Tail(c))
  BY <1>1, <1>2, LenProperties
<1> DEFINE t == Tail(c)
           h == Head(c)
<1> HIDE DEF t, h
<1>4. /\ h = c[1] /\ 1 \in DOMAIN c
      /\ \A i \in DOMAIN t : i \in Int /\ i >= 1 /\ i + 1 \in DOMAIN c /\ t[i] = c[i + 1]
      /\ \A i \in DOMAIN c : i = 1 \/ (i - 1 \in DOMAIN t /\ t[i - 1] = c[i])
      /\ \A a, b \in DOMAIN c : c[a] = c[b] => a = b
  BY <1>1, <1>2, <1>3 DEF t, h
<1>5. ASSUME NEW a \in DOMAIN t, NEW b \in DOMAIN t, t[a] = t[b] PROVE a = b
  <2>1. c[a + 1] = c[b + 1] /\ a + 1 \in DOMAIN c /\ b + 1 \in DOMAIN c /\ a \in Int /\ b \in Int
    BY <1>4, <1>5
  <2>2. a + 1 = b + 1
    BY <1>4, <2>1
  <2> QED BY <2>1, <2>2
<1>6. ASSUME NEW k PROVE k \in Range(t) <=> k \in Range(c) /\ k # h
  <2>1. ASSUME k \in Range(t) PROVE k \in Range(c) /\ k # h
    <3>1. PICK i \in DOMAIN t : t[i] = k
      BY <2>1 DEF Range
    <3>2. i \in Int /\ i >= 1 /\ i + 1 \in DOMAIN c /\ c[i + 1] = k
      BY <1>4, <3>1
    <3>3. i + 1 # 1
      BY <3>2
    <3>4. k # h
      BY <1>4, <3>2, <3>3
    <3> QED BY <3>2, <3>4 DEF Range
  <2>2. ASSUME k \in Range(c), k # h PROVE k \in Range(t)
    <3>1. PICK i \in DOMAIN c : c[i] = k
      BY <2>2 DEF Range
    <3>2. i # 1
      BY <1>4, <2>2, <3>1
    <3>3. i - 1 \in DOMAIN t /\ t[i - 1] = k
      BY <1>4, <3>1, <3>2
    <3> QED BY <3>3 DEF Range
  <2> QED BY <2>1, <2>2
<1>7. RangeFits(t, S)
  BY <1>2, <1>3, <1>5 DEF RangeFits, t
<1>8. h \in Range(c)
  BY <1>4 DEF Range
<1> QED BY <1>2, <1>6, <1>7, <1>8 DEF t, h

\* The worker has taken output i from its range, and has its job j.
LEMMA TakesOutput ==
  ASSUME IInv, NEW w \in Workers, status = "running", job[w] = Idle,
         UNCHANGED <<netlist, iso2expr, POs, skipped>>,
         NEW i \in RepsIn(netlist), i \in Range(chunk[w]),
         chunk' = [v \in Workers |-> chunk'[v]], job' = [v \in Workers |-> job'[v]],
         \A v \in Workers : v # w => chunk'[v] = chunk[v] /\ job'[v] = job[v],
         RangeFits(chunk'[w], RepsIn(netlist)),
         \A k : k \in Range(chunk'[w]) <=> k \in Range(chunk[w]) /\ k # i,
         JobFits(netlist, DOMAIN iso2expr, job'[w]),
         job'[w] # Idle => job'[w].output = i,
         status' \in {"running", "raised"}, status' = "running" => job'[w] # Idle,
         RaisesOnlyOnMismatch'
  PROVE  IInv'
<1>1. ASSUME NEW v \in Workers, NEW k
      PROVE  /\ Waits(chunk'[v], job'[v], k) => Waits(chunk[v], job[v], k)
             /\ status' = "running" /\ Waits(chunk[v], job[v], k) => Waits(chunk'[v], job'[v], k)
  <2>1. CASE v = w
    BY <2>1 DEF Waits
  <2>2. CASE v # w
    BY <2>2
  <2> QED BY <2>1, <2>2
<1>2. WorkersFit'
  <2>1. /\ DOMAIN chunk' = Workers /\ DOMAIN job' = Workers
    OBVIOUS
  <2>2. ASSUME NEW v \in Workers
        PROVE  /\ RangeFits(chunk'[v], RepsIn(netlist))
               /\ JobFits(netlist, DOMAIN iso2expr, job'[v])
               /\ job'[v] # Idle => job'[v].output \in RepsIn(netlist)
               /\ job'[v] # Idle => job'[v].output \notin Range(chunk'[v])
    <3>1. CASE v = w
      BY <3>1
    <3>2. CASE v # w
      BY <3>2 DEF IInv, WorkersFit
    <3> QED BY <3>1, <3>2
  <2>3. \A u, v \in Workers : \A k \in RepsIn(netlist) :
          Waits(chunk'[u], job'[u], k) /\ Waits(chunk'[v], job'[v], k) => u = v
    BY <1>1 DEF IInv, WorkersFit
  <2> QED BY <2>1, <2>2, <2>3 DEF WorkersFit
<1>3. OutputsFit'
  <2>1. \A v \in Workers : \A k \in RepsIn(netlist) :
          Waits(chunk'[v], job'[v], k) => POs[k] = NotBuilt /\ skipped[k] = {}
    BY <1>1 DEF IInv, OutputsFit
  <2>2. status' = "running" =>
          \A k \in RepsIn(netlist) :
            POs[k] = NotBuilt => \E v \in Workers : Waits(chunk'[v], job'[v], k)
    BY <1>1 DEF IInv, OutputsFit
  <2>3. \A k \in DOMAIN netlist.outputs :
          \/ Settled(netlist, POs[k], skipped[k], netlist.outputs[k])
          \/ /\ status' # "done" /\ k \in CollectedIn(netlist)
             /\ POs[k] = NotBuilt /\ skipped[k] = {}
    BY DEF IInv, OutputsFit
  <2>4. DOMAIN POs = DOMAIN netlist.outputs /\ DOMAIN skipped = DOMAIN netlist.outputs
    BY DEF IInv, OutputsFit
  <2> QED BY <2>1, <2>2, <2>3, <2>4 DEF OutputsFit
<1>4. /\ chunk' = [v \in DOMAIN chunk' |-> chunk'[v]] /\ job' = [v \in DOMAIN job' |-> job'[v]]
  OBVIOUS
<1>5. /\ netlist' \in Netlists /\ status' \in {"running", "done", "raised"}
      /\ MapFits(netlist', iso2expr')
      /\ POs' = [k \in DOMAIN POs' |-> POs'[k]] /\ skipped' = [k \in DOMAIN skipped' |-> skipped'[k]]
  BY DEF IInv
<1> QED BY <1>2, <1>3, <1>4, <1>5 DEF IInv

SeedTree(d, n) == [m \in {n} |-> TableOf(d, n)]

\* The root of a new cone, with all its positions on the border.
LEMMA SeedFits ==
  ASSUME NEW d \in Netlists, NEW D, NEW i, NEW n, n = d.outputs[i], Clean(d, n),
         NEW at \in {"begin", "inputs"}, at = "inputs" => d.reads[n] = <<>>
  PROVE  LET j == BetweenJob(at, i, SeedTree(d, n), OpenIn(d, n), PinsIn(d, n))
         IN  JobFits(d, D, j) /\ j # Idle /\ j.output = i
<1> DEFINE t == SeedTree(d, n)
           b == OpenIn(d, n)
           x == PinsIn(d, n)
<1>1. n \in Nets /\ DOMAIN t = {n} /\ t[n] = TableOf(d, n) /\ t = [m \in DOMAIN t |-> t[m]]
  BY DEF Clean, SeedTree
<1>2. \A k \in DOMAIN d.reads[n] : t[n][k] = OpenChild
  BY <1>1 DEF TableOf
<1>3. TreeFits(d, t, n)
  <2>1. n \in Cone(d, n)
    BY <1>1, ConeFacts
  <2>2. OpenChild.type # "Table" /\ OpenChild \in Children
    BY DEF OpenChild, Children
  <2>3. t[n] \in [DOMAIN d.reads[n] -> Children]
    BY <1>1, <2>2 DEF TableOf
  <2> HIDE DEF t
  <2> QED BY <1>1, <1>2, <2>1, <2>2, <2>3 DEF TreeFits
<1>4. /\ FrontierFits(d, D, t, b, x) /\ Len(b) = Len(d.reads[n])
      /\ \A k \in 1..Len(b) : b[k] = [parent |-> n, pos |-> k, placed |-> FALSE]
  <2> HIDE DEF t
  <2> QED BY <1>1, OpenLeavesFit
<1>5. d.reads[n] \in Seq(Nets) /\ DOMAIN d.reads[n] = 1..Len(d.reads[n])
  BY <1>1, NetlistFacts, LenProperties
<1>6. BorderIsWhole(d, t, b)
  <2>1. ASSUME NEW k \in DOMAIN d.reads[n] PROVE \E a \in 1..Len(b) : IsAt(b[a], n, k)
    <3>1. k \in 1..Len(b)
      BY <1>4, <1>5
    <3>2. b[k] = [parent |-> n, pos |-> k, placed |-> FALSE]
      BY <1>4, <3>1
    <3>3. IsAt(b[k], n, k)
      BY <3>2 DEF IsAt
    <3> QED BY <3>1, <3>3
  <2> HIDE DEF t, b
  <2> QED BY <1>1, <2>1 DEF BorderIsWhole
<1>7. Complete(at, b)
  <2>1. at = "inputs" => Len(b) = 0
    BY <1>4
  <2> HIDE DEF b
  <2> QED BY <2>1 DEF Complete
<1>8. TreeFits(d, t, d.outputs[i])
  BY <1>3
<1> HIDE DEF t, b, x
<1>9. /\ Between(d, D, BetweenJob(at, i, t, b, x)) /\ BetweenJob(at, i, t, b, x) # Idle
      /\ BetweenJob(at, i, t, b, x).output = i
  <2>1. IsBetween(d, D, at, i, t, b, x)
    BY <1>4, <1>6, <1>7, <1>8 DEF IsBetween
  <2> QED BY <2>1, BetweenFits
<1>10. LET j == BetweenJob(at, i, t, b, x) IN JobFits(d, D, j) /\ j # Idle /\ j.output = i
  BY <1>9 DEF JobFits
<1> QED BY <1>10 DEF t, b, x

\* An output that is an input of the design is converted at once.
LEMMA InputSeedFits ==
  ASSUME NEW d, NEW D, NEW i, NEW n \in Nets, n = d.outputs[i], d.kind[n] \in MappedKinds
  PROVE  LET j == ConvertJob(i, <<>>, <<[net |-> n, type |-> "P", visited |-> FALSE]>>)
         IN  JobFits(d, D, j) /\ j # Idle /\ j.output = i
<1> DEFINE s == <<[net |-> n, type |-> "P", visited |-> FALSE]>>
           t == <<>>
<1>1. DOMAIN t = {}
  OBVIOUS
<1>2. TreeIsDone(d, D, t)
  BY <1>1 DEF TreeIsDone
<1>3. StackFits(d, D, t, s) /\ OnStack(s, 1, n)
  <2>1. Convertible(d, D, n)
    BY DEF Convertible
  <2> HIDE DEF t
  <2> QED BY <2>1, RootFits
<1>4. DOMAIN t \subseteq Nets /\ OnStack(s, 1, d.outputs[i])
  BY <1>1, <1>3
<1> HIDE DEF s, t
<1>5. LET j == ConvertJob(i, t, s) IN JobFits(d, D, j) /\ j # Idle /\ j.output = i
  BY <1>2, <1>3, <1>4, ConvertFits
<1> QED BY <1>5 DEF s, t

\* The worker settles its next output without a cone.
LEMMA SettlesAtOnce ==
  ASSUME IInv, NEW w \in Workers, status = "running", job[w] = Idle, chunk[w] # <<>>,
         chunk' = [chunk EXCEPT ![w] = Tail(@)],
         UNCHANGED <<netlist, job, iso2expr, status>>,
         NEW po, NEW why, Settled(netlist, po, why, netlist.outputs[Head(chunk[w])]),
         POs' = [POs EXCEPT ![Head(chunk[w])] = po],
         skipped' = [skipped EXCEPT ![Head(chunk[w])] = why]
  PROVE  IInv'
<1> DEFINE i == Head(chunk[w])
           S == RepsIn(netlist)
<1>1. /\ chunk = [v \in Workers |-> chunk[v]] /\ job = [v \in Workers |-> job[v]]
      /\ RangeFits(chunk[w], S)
  BY DEF IInv, WorkersFit
<1>2. /\ i \in S /\ i \in Range(chunk[w]) /\ RangeFits(Tail(chunk[w]), S)
      /\ \A k : k \in Range(Tail(chunk[w])) <=> k \in Range(chunk[w]) /\ k # i
  <2> HIDE DEF S
  <2> QED BY <1>1, HeadTakes
<1>3. /\ chunk' = [v \in Workers |-> chunk'[v]] /\ chunk'[w] = Tail(chunk[w])
      /\ job' = [v \in Workers |-> job'[v]] /\ job'[w] = Idle
      /\ \A v \in Workers : v # w => chunk'[v] = chunk[v] /\ job'[v] = job[v]
  BY <1>1
<1>4. \A k \in S : Waits(chunk'[w], Idle, k) <=> k # i /\ Waits(chunk[w], job[w], k)
  BY <1>2, <1>3 DEF Waits
<1>5. Waits(chunk[w], job[w], i) /\ RangeFits(chunk'[w], S)
  BY <1>2, <1>3 DEF Waits
<1>6. /\ Settled(netlist, po, why, netlist.outputs[i])
      /\ POs' = [POs EXCEPT ![i] = po] /\ skipped' = [skipped EXCEPT ![i] = why]
  OBVIOUS
<1>7. OneSettled(w, i, po, why)
  <2> HIDE DEF i
  <2> QED BY <1>2, <1>3, <1>4, <1>5, <1>6 DEF OneSettled
<1> QED BY <1>7, OneOutputSettled

LEMMA ProcessOutputKeeps ==
  ASSUME IInv, NEW w \in Workers, ProcessOutput(w)
  PROVE  IInv'
<1> DEFINE d == netlist
           D == DOMAIN iso2expr
           S == RepsIn(d)
           i == Head(chunk[w])
           n == d.outputs[i]
<1>1. /\ status = "running" /\ job[w].at = "idle" /\ chunk[w] # <<>>
      /\ chunk' = [chunk EXCEPT ![w] = Tail(@)] /\ netlist' = netlist
  BY DEF ProcessOutput
<1>2. /\ d \in Netlists /\ JobFits(d, D, job[w]) /\ RangeFits(chunk[w], S) /\ MapFits(d, iso2expr)
      /\ chunk = [v \in Workers |-> chunk[v]] /\ job = [v \in Workers |-> job[v]]
  BY DEF IInv, WorkersFit
<1>3. job[w] = Idle
  BY <1>1, <1>2 DEF JobFits, Between, Scanning, Converting
<1>4. /\ i \in S /\ i \in Range(chunk[w]) /\ RangeFits(Tail(chunk[w]), S)
      /\ \A k : k \in Range(Tail(chunk[w])) <=> k \in Range(chunk[w]) /\ k # i
  <2> HIDE DEF S
  <2> QED BY <1>1, <1>2, HeadTakes
<1>5. /\ i \in DOMAIN d.outputs /\ n \in Nets
      /\ d.kind[n] \in Kinds \ {"none", "constX", "multi", "frontier"}
  <2> HIDE DEF i
  <2> QED BY <1>2, <1>4, RepsFacts
<1>6. skipped[i] = {} /\ skipped = [skipped EXCEPT ![i] = {}]
  <2>1. Waits(chunk[w], job[w], i)
    BY <1>4 DEF Waits
  <2>2. skipped[i] = {}
    BY <1>4, <2>1 DEF IInv, OutputsFit
  <2>3. skipped = [k \in DOMAIN skipped |-> skipped[k]] /\ i \in DOMAIN skipped
    BY <1>5 DEF IInv, OutputsFit
  <2> QED BY <2>2, <2>3
<1>7. ASSUME NEW e, Answer(w, i, e),
             \/ d.kind[n] \in MappedKinds /\ e = ValueIn(d, n)
             \/ n \in D /\ e = iso2expr[n]
      PROVE  IInv'
  <2>1. Settled(d, Expression(e), {}, n)
    <3> HIDE DEF n
    <3> QED BY <1>2, <1>5, <1>7, AnswerSettles
  <2>2. /\ POs' = [POs EXCEPT ![i] = Expression(e)] /\ skipped' = [skipped EXCEPT ![i] = {}]
        /\ UNCHANGED <<job, iso2expr, status>>
    BY <1>6, <1>7 DEF Answer
  <2> QED BY <1>1, <1>3, <2>1, <2>2, SettlesAtOnce
<1>8. chunk' = [v \in Workers |-> chunk'[v]] /\ chunk'[w] = Tail(chunk[w])
      /\ \A v \in Workers : v # w => chunk'[v] = chunk[v]
  BY <1>1, <1>2
<1>9. ASSUME NEW j, Continue(w, j), JobFits(d, D, j), j # Idle, j.output = i PROVE IInv'
  <2>1. /\ job' = [job EXCEPT ![w] = j] /\ UNCHANGED <<iso2expr, POs, skipped, status>>
    BY <1>9 DEF Continue, Become
  <2>2. /\ job' = [v \in Workers |-> job'[v]] /\ job'[w] = j
        /\ \A v \in Workers : v # w => job'[v] = job[v]
    BY <1>2, <2>1
  <2>3. RaisesOnlyOnMismatch'
    BY <1>1, <2>1 DEF RaisesOnlyOnMismatch
  <2> HIDE DEF i
  <2> QED BY <1>1, <1>3, <1>4, <1>8, <1>9, <2>1, <2>2, <2>3, TakesOutput
<1>10. ASSUME Raise, d.kind[n] = "mismatch", ~StopAtOpaque PROVE IInv'
  <2>1. /\ status' = "raised" /\ UNCHANGED <<job, iso2expr, POs, skipped>>
    BY <1>10 DEF Raise
  <2>2. n \in Cone(d, n)
    BY <1>2, <1>5, ConeFacts
  <2>3. RaisesOnlyOnMismatch'
    BY <1>1, <1>5, <1>10, <2>1, <2>2 DEF RaisesOnlyOnMismatch, StopAtOpaque, Outputs, Kind
  <2>4. JobFits(d, D, job'[w]) /\ job'[w] = Idle /\ \A v \in Workers : job'[v] = job[v]
    BY <1>2, <1>3, <2>1
  <2>5. job' = [v \in Workers |-> job'[v]]
    BY <1>2, <2>1
  <2> HIDE DEF i
  <2> QED BY <1>1, <1>3, <1>4, <1>8, <2>1, <2>3, <2>4, <2>5, TakesOutput
<1>11. CASE d.kind[n] \in {"const0", "const1"}
  <2>1. Answer(w, i, VarValue(n))
    BY <1>11 DEF ProcessOutput, Outputs, Kind
  <2>2. VarValue(n) = ValueIn(d, n)
    BY DEF VarValue, ValueIn, Assignments, Inputs, Kind
  <2>3. d.kind[n] \in MappedKinds
    BY <1>11 DEF MappedKinds
  <2> QED BY <1>7, <2>1, <2>2, <2>3
<1>12. CASE d.kind[n] \notin {"const0", "const1"} /\ n \in D
  <2>1. Answer(w, i, iso2expr[n])
    BY <1>12 DEF ProcessOutput, Outputs, Kind
  <2> QED BY <1>7, <1>12, <2>1
<1>13. CASE d.kind[n] \notin {"const0", "const1"} /\ n \notin D
  <2>0. Seed(w, i, n)
    BY <1>13 DEF ProcessOutput, Outputs, Kind
  <2> DEFINE at == IF Reads(n) = <<>> THEN "inputs" ELSE "begin"
             j1 == ConvertJob(i, <<>>, <<[net |-> n, type |-> "P", visited |-> FALSE]>>)
             j2 == BetweenJob(at, i, SeedTree(d, n), OpenIn(d, n), PinsIn(d, n))
             a1 == /\ POs' = [POs EXCEPT ![i] = Invalid]
                   /\ skipped' = [skipped EXCEPT ![i] = {"OpaqueInternal"}]
                   /\ UNCHANGED <<job, iso2expr, status>>
             c1 == Continue(w, j1)
             c2 == Continue(w, j2)
             kind == Kind(n)
             p1 == Rejects(n)
             p2 == isInput(n)
             b == [at |-> "begin", output |-> i, tree |-> [m \in {n} |-> NewTable(n)],
                   border |-> OpenLeaves(n), next |-> Pins(n)]
             c3 == Continue(w, Convert([b EXCEPT !.tree = <<>>], [type |-> "P", net |-> n]))
             c4 == Continue(w, IF Reads(n) = <<>> THEN [b EXCEPT !.at = "inputs"] ELSE b)
  <2>1. (CASE p1 -> a1 [] p2 -> c3 [] kind = "mismatch" /\ ~StopAtOpaque -> Raise [] OTHER -> c4)
    BY <2>0 DEF Seed
  <2>2. Convert([b EXCEPT !.tree = <<>>], [type |-> "P", net |-> n]) = j1
    BY DEF Convert, ConvertJob
  <2>3. (IF Reads(n) = <<>> THEN [b EXCEPT !.at = "inputs"] ELSE b) = j2
    <3>1. b = [at |-> "begin", output |-> i, tree |-> SeedTree(d, n), border |-> OpenIn(d, n),
               next |-> PinsIn(d, n)]
      BY DEF SeedTree, TableOf, NewTable, OpenLeaves, OpenIn, Pins, PinsIn, Reads
    <3> HIDE DEF b
    <3> QED BY <3>1 DEF BetweenJob
  <2>r. /\ p1 => kind \in {"opaque", "mismatch"} /\ StopAtOpaque
        /\ p2 => kind \in {"pi", "tie0", "tie1"}
    BY DEF Rejects, isInput, InputKinds
  <2>c. (c3 <=> c1) /\ (c4 <=> c2)
    BY <2>2, <2>3
  <2>4. CASE p1
    <3>1. a1
      <4>1. p1
        BY <2>4
      <4> HIDE DEF a1, c1, c2, c3, c4, p1, p2, kind
      <4> QED BY <2>1, <2>r, <4>1
    <3>2. "OpaqueInternal" \in FlawOf(d, n)
      BY <2>4 DEF Rejects, FlawOf, Kind, StopAtOpaque
    <3>3. n \in Cone(d, n)
      BY <1>2, <1>5, ConeFacts
    <3>4. Settled(d, Invalid, {"OpaqueInternal"}, n)
      BY <3>2, <3>3 DEF Settled, Flaws
    <3> QED BY <1>1, <1>3, <3>1, <3>4, SettlesAtOnce
  <2>5. CASE ~p1 /\ p2
    <3>1. c1
      <4>1. ~p1 /\ p2
        BY <2>5
      <4> HIDE DEF a1, c1, c2, c3, c4, p1, p2, kind
      <4> QED BY <2>1, <2>r, <2>c, <4>1
    <3>2. d.kind[n] \in MappedKinds
      BY <2>5, <2>r DEF Kind, MappedKinds, InputKinds
    <3>3. JobFits(d, D, j1) /\ j1 # Idle /\ j1.output = i
      <4> DEFINE nn == n
      <4>1. nn \in Nets /\ nn = d.outputs[i] /\ d.kind[nn] \in MappedKinds
        BY <1>5, <3>2
      <4> HIDE DEF nn, i, D, d
      <4>2. LET jj == ConvertJob(i, <<>>, <<[net |-> nn, type |-> "P", visited |-> FALSE]>>)
            IN  JobFits(d, D, jj) /\ jj # Idle /\ jj.output = i
        BY <4>1, InputSeedFits
      <4> QED BY <4>2 DEF nn
    <3> HIDE DEF j1
    <3> QED BY <1>9, <3>1, <3>3
  <2>6. CASE ~p1 /\ ~p2 /\ kind = "mismatch"
    <3>1. ~StopAtOpaque
      BY <2>6 DEF Rejects
    <3>2. Raise
      <4>1. ~p1 /\ ~p2 /\ kind = "mismatch" /\ ~StopAtOpaque
        BY <2>6, <3>1
      <4> HIDE DEF a1, c1, c2, c3, c4, p1, p2, kind
      <4> QED BY <2>1, <2>r, <4>1
    <3> QED BY <1>10, <2>6, <3>1, <3>2 DEF Kind
  <2>7. CASE ~p1 /\ ~p2 /\ kind # "mismatch"
    <3>1. c2
      <4>1. ~p1 /\ ~p2 /\ kind # "mismatch"
        BY <2>7
      <4> HIDE DEF a1, c1, c2, c3, c4, p1, p2, kind
      <4> QED BY <2>1, <2>r, <2>c, <4>1
    <3>2. Clean(d, n)
      <4>1. d.kind[n] = "opaque" => d.stops
        BY <1>2, <1>5, NetlistFacts
      <4>2. d.kind[n] \notin {"pi", "tie0", "tie1"}
        BY <2>7 DEF isInput, InputKinds, Kind
      <4>3. d.kind[n] \notin {"opaque", "mismatch"}
        BY <2>7, <4>1 DEF Rejects, Kind, StopAtOpaque
      <4> QED BY <1>5, <1>13, <4>2, <4>3 DEF Clean, Kinds
    <3>3. at \in {"begin", "inputs"} /\ (at = "inputs" => d.reads[n] = <<>>)
      BY DEF Reads
    <3>4. JobFits(d, D, j2) /\ j2 # Idle /\ j2.output = i
      <4> DEFINE nn == n
      <4>1. nn = d.outputs[i] /\ Clean(d, nn) /\ (at = "inputs" => d.reads[nn] = <<>>)
        BY <3>2, <3>3
      <4> HIDE DEF nn, i, D, d, at
      <4>2. LET jj == BetweenJob(at, i, SeedTree(d, nn), OpenIn(d, nn), PinsIn(d, nn))
            IN  JobFits(d, D, jj) /\ jj # Idle /\ jj.output = i
        BY <1>2, <3>3, <4>1, SeedFits
      <4> QED BY <4>2 DEF nn
    <3> HIDE DEF j2
    <3> QED BY <1>9, <3>1, <3>4
  <2> QED BY <2>4, <2>5, <2>6, <2>7
<1> QED BY <1>11, <1>12, <1>13

-----------------------------------------------------------------------------
(* The beginning and the end                                                *)

LEMMA EmptyMapFits ==
  ASSUME NEW d
  PROVE  MapFits(d, <<>>)
<1>1. DOMAIN <<>> = {} /\ <<>> = [n \in DOMAIN <<>> |-> <<>>[n]]
  BY EmptySeq
<1> DEFINE f == <<>>
<1>2. DOMAIN f = {} /\ f = [n \in DOMAIN f |-> f[n]]
  BY <1>1
<1> HIDE DEF f
<1>3. MapFits(d, f)
  BY <1>2 DEF MapFits
<1> QED BY <1>3 DEF f

\* When the workers are done, every representative is settled.
LEMMA RepresentativeSettled ==
  ASSUME IInv, status = "running", \A w \in Workers : job[w] = Idle /\ chunk[w] = <<>>,
         NEW r \in RepsIn(netlist)
  PROVE  Settled(netlist, POs[r], skipped[r], netlist.outputs[r])
<1>1. r \in DOMAIN netlist.outputs
  BY RepsFacts DEF IInv
<1>2. \A w \in Workers : ~Waits(chunk[w], job[w], r)
  BY EmptySeq DEF Waits, Range
<1>3. POs[r] # NotBuilt
  BY <1>2 DEF IInv, OutputsFit
<1> QED BY <1>1, <1>3 DEF IInv, OutputsFit

LEMMA FinishBuildKeeps ==
  ASSUME IInv, FinishBuild
  PROVE  IInv'
<1> DEFINE d == netlist
           I == DOMAIN d.outputs
           C == CollectedIn(d)
<1>1. d \in Netlists /\ DOMAIN chunk = Workers /\ DOMAIN job = Workers
  BY DEF IInv, WorkersFit
<1>2. /\ status = "running" /\ status' = "done" /\ iso2expr' = <<>>
      /\ \A w \in Workers : job[w] = Idle /\ chunk[w] = <<>>
      /\ netlist' = netlist /\ chunk' = chunk /\ job' = job
  BY DEF FinishBuild
<1>3. /\ POs' = [i \in I |-> IF i \in C THEN POs[RepIn(d, i)] ELSE POs[i]]
      /\ skipped' = [i \in I |-> IF i \in C
                                 THEN IF skipped[RepIn(d, i)] # {} THEN skipped[RepIn(d, i)]
                                      ELSE skipped[i]
                                 ELSE skipped[i]]
  <2>1. Collected = C /\ \A i \in I : Representative(i) = RepIn(d, i)
    BY <1>1, RepsAre DEF Outputs
  <2>2. /\ POs' = [i \in I |-> IF i \in Collected THEN POs[Representative(i)] ELSE POs[i]]
        /\ skipped' = [i \in I |-> IF i \in Collected
                                   THEN IF skipped[Representative(i)] # {}
                                        THEN skipped[Representative(i)] ELSE skipped[i]
                                   ELSE skipped[i]]
    BY DEF FinishBuild, SharedReason, Outputs
  <2> HIDE DEF C, I
  <2> QED BY <2>1, <2>2
<1>4. ASSUME NEW i \in I PROVE Settled(d, POs'[i], skipped'[i], d.outputs[i])
  <2>0. \/ Settled(d, POs[i], skipped[i], d.outputs[i])
        \/ i \in C /\ POs[i] = NotBuilt /\ skipped[i] = {}
    BY DEF IInv, OutputsFit
  <2>1. CASE i \in C
    <3> DEFINE r == RepIn(d, i)
    <3>1. r \in RepsIn(d)
      BY <2>1 DEF RepsIn
    <3>2. d.outputs[r] = d.outputs[i]
      BY <1>1, RepFacts
    <3>3. Settled(d, POs[r], skipped[r], d.outputs[i])
      BY <1>2, <3>1, <3>2, RepresentativeSettled
    <3>4. POs'[i] = POs[r] /\ skipped'[i] = IF skipped[r] # {} THEN skipped[r] ELSE skipped[i]
      BY <1>3, <2>1
    <3> HIDE DEF r
    <3>5. CASE skipped[r] # {}
      BY <3>3, <3>4, <3>5
    <3>6. CASE skipped[r] = {}
      <4>1. Flaws(d, d.outputs[i]) = {}
        BY <3>3, <3>6 DEF Settled
      <4>2. skipped[i] = {}
        BY <2>0, <4>1 DEF Settled
      <4> QED BY <3>3, <3>4, <3>6, <4>2
    <3> QED BY <3>5, <3>6
  <2>2. CASE i \notin C
    BY <1>3, <2>0, <2>2
  <2> QED BY <2>1, <2>2
<1>5. /\ POs' = [i \in DOMAIN POs' |-> POs'[i]] /\ skipped' = [i \in DOMAIN skipped' |-> skipped'[i]]
      /\ DOMAIN POs' = I /\ DOMAIN skipped' = I
  BY <1>3
<1>6. \A w \in Workers : \A k : ~Waits(chunk[w], job[w], k)
  BY <1>2, EmptySeq DEF Waits, Range
<1>7. OutputsFit'
  BY <1>2, <1>4, <1>5, <1>6 DEF OutputsFit
<1>8. WorkersFit'
  <2>1. \A w \in Workers : /\ RangeFits(chunk[w], RepsIn(netlist))
                           /\ JobFits(netlist, DOMAIN iso2expr', job[w])
    BY <1>2 DEF IInv, WorkersFit, JobFits
  <2> QED BY <1>1, <1>2, <1>6, <2>1 DEF WorkersFit
<1>9. MapFits(netlist, iso2expr')
  BY <1>2, EmptyMapFits
<1>10. RaisesOnlyOnMismatch'
  BY <1>2 DEF RaisesOnlyOnMismatch
<1>11. /\ chunk = [v \in DOMAIN chunk |-> chunk[v]] /\ job = [v \in DOMAIN job |-> job[v]]
  BY DEF IInv
<1> QED BY <1>1, <1>2, <1>5, <1>7, <1>8, <1>9, <1>10, <1>11 DEF IInv

\* The ranges of the workers split the representatives.
LEMMA SplitFits ==
  ASSUME NEW n \in Nat, NEW S \in SUBSET (1..n), NEW c \in Splits(S)
  PROVE  /\ c \in [Workers -> Seq(S)]
         /\ \A w \in Workers : RangeFits(c[w], S)
         /\ \A i \in S : \E w \in Workers : i \in Range(c[w])
         /\ \A v, w \in Workers : \A i \in S : i \in Range(c[v]) /\ i \in Range(c[w]) => v = w
<1>1. IsFiniteSet(S) /\ Cardinality(S) \in Nat
  <2>1. IsFiniteSet(1..n)
    BY FS_Interval
  <2>2. IsFiniteSet(S)
    BY <2>1, FS_Subset
  <2> QED BY <2>2, FS_CardinalityType
<1>2. /\ c \in [Workers -> Ranges(S)]
      /\ \A i \in S : Cardinality({w \in Workers : i \in Range(c[w])}) = 1
      /\ \A v, w \in Workers : v < w => \A i \in Range(c[v]), k \in Range(c[w]) : i < k
  BY DEF Splits
<1>3. ASSUME NEW r \in Ranges(S) PROVE RangeFits(r, S)
  <2>1. PICK m \in 0..Cardinality(S) : r \in [1..m -> S]
    BY DEF Ranges
  <2>2. \A a, b \in DOMAIN r : a < b => r[a] < r[b]
    BY DEF Ranges
  <2>3. m \in Nat /\ DOMAIN r = 1..m /\ \A a \in 1..m : r[a] \in Int
    <3>1. m \in Nat
      BY <1>1, <2>1
    <3>2. DOMAIN r = 1..m /\ \A a \in 1..m : r[a] \in S
      BY <2>1
    <3>3. S \subseteq Int
      OBVIOUS
    <3> QED BY <3>1, <3>2, <3>3
  <2>4. r \in Seq(S) /\ Len(r) = m
    <3>1. r \in Seq(S)
      BY <2>1, <2>3
    <3>2. DOMAIN r = 1..Len(r) /\ Len(r) \in Nat
      BY <3>1, LenProperties
    <3> QED BY <2>3, <3>1, <3>2
  <2>5. \A a, b \in 1..m : r[a] = r[b] => a = b
    <3> SUFFICES ASSUME NEW a \in 1..m, NEW b \in 1..m, a # b PROVE r[a] # r[b]
      OBVIOUS
    <3>1. a < b \/ b < a
      BY <2>3
    <3>2. r[a] < r[b] \/ r[b] < r[a]
      BY <2>2, <2>3, <3>1
    <3> QED BY <2>3, <3>2
  <2> QED BY <2>4, <2>5 DEF RangeFits
<1>4. \A w \in Workers : RangeFits(c[w], S)
  BY <1>2, <1>3
<1>5. c \in [Workers -> Seq(S)]
  <2>1. \A w \in Workers : c[w] \in Seq(S)
    BY <1>4 DEF RangeFits
  <2> QED BY <1>2, <2>1
<1>6. ASSUME NEW i \in S PROVE \E w \in Workers : i \in Range(c[w])
  <2>1. Cardinality({w \in Workers : i \in Range(c[w])}) = 1
    BY <1>2
  <2>2. {w \in Workers : i \in Range(c[w])} # {}
    BY <2>1, FS_EmptySet
  <2> QED BY <2>2
<1>7. ASSUME NEW v \in Workers, NEW w \in Workers, NEW i \in S, i \in Range(c[v]), i \in Range(c[w])
      PROVE  v = w
  <2>1. v \in Nat /\ w \in Nat /\ i \in Int
    BY WorkersAreNumbered
  <2>2. ~(v < w) /\ ~(w < v)
    <3>1. v < w => i < i
      BY <1>2, <1>7
    <3>2. w < v => i < i
      BY <1>2, <1>7
    <3> QED BY <2>1, <3>1, <3>2
  <2> QED BY <2>1, <2>2
<1> QED BY <1>4, <1>5, <1>6, <1>7

LEMMA InitFits ==
  ASSUME Init
  PROVE  IInv
<1> DEFINE d == netlist
           S == RepsIn(d)
           n == Len(d.outputs)
<1>1. /\ d \in Netlists /\ job = [w \in Workers |-> Idle] /\ iso2expr = <<>>
      /\ status = "running"
  BY DEF Init
<1>2. d.outputs \in Seq(Nets) /\ n \in Nat /\ DOMAIN d.outputs = 1..n
  BY <1>1, NetlistFacts, LenProperties
<1>3. /\ Collected = CollectedIn(d) /\ Representatives = S
  BY <1>1, RepsAre
<1>4. chunk \in Splits(S)
  BY <1>3 DEF Init
<1>5. \A r \in S : r \in CollectedIn(d) /\ r \in DOMAIN d.outputs
  BY <1>1, RepsFacts
<1>6. /\ chunk \in [Workers -> Seq(S)]
      /\ \A w \in Workers : RangeFits(chunk[w], S)
      /\ \A i \in S : \E w \in Workers : i \in Range(chunk[w])
      /\ \A v, w \in Workers : \A i \in S : i \in Range(chunk[v]) /\ i \in Range(chunk[w]) => v = w
  <2>1. S \in SUBSET (1..n)
    BY <1>2, <1>5
  <2> HIDE DEF S, n
  <2> QED BY <1>2, <1>4, <2>1, SplitFits
<1>7. /\ POs = [i \in DOMAIN d.outputs |-> IF i \in CollectedIn(d) THEN NotBuilt ELSE Invalid]
      /\ skipped = [i \in DOMAIN d.outputs |-> CollectSkip(d.outputs[i])]
  BY <1>3 DEF Init, Outputs
<1>8. \A w \in Workers : job[w] = Idle
  BY <1>1
<1>9. \A w \in Workers : \A i : Waits(chunk[w], job[w], i) <=> i \in Range(chunk[w])
  BY <1>8 DEF Waits
<1> HIDE DEF S, n
<1>10. WorkersFit
  <2>1. DOMAIN chunk = Workers /\ DOMAIN job = Workers
    BY <1>1, <1>6
  <2>2. \A w \in Workers : JobFits(d, DOMAIN iso2expr, job[w])
    BY <1>8 DEF JobFits
  <2>3. \A v, w \in Workers : \A i \in S :
          Waits(chunk[v], job[v], i) /\ Waits(chunk[w], job[w], i) => v = w
    BY <1>6, <1>9
  <2> QED BY <1>6, <1>8, <2>1, <2>2, <2>3 DEF WorkersFit, S
<1>11. ASSUME NEW i \in CollectedIn(d)
       PROVE  i \in DOMAIN d.outputs /\ POs[i] = NotBuilt /\ skipped[i] = {}
  <2>1. i \in DOMAIN d.outputs /\ d.kind[d.outputs[i]] \notin {"none", "constX", "multi"}
    BY DEF CollectedIn
  <2>2. CollectSkip(d.outputs[i]) = {}
    BY <2>1 DEF CollectSkip, Kind
  <2> QED BY <1>7, <2>1, <2>2
<1>12. ASSUME NEW i \in DOMAIN d.outputs, i \notin CollectedIn(d)
       PROVE  Settled(d, POs[i], skipped[i], d.outputs[i])
  <2> DEFINE m == d.outputs[i]
  <2>1. d.kind[m] \in {"none", "constX", "multi"} /\ m \in Nets
    BY <1>1, <1>12, RepFacts DEF CollectedIn
  <2> HIDE DEF m
  <2>2. m \in Cone(d, m)
    BY <1>1, <2>1, ConeFacts
  <2>3. CollectSkip(m) # {} /\ CollectSkip(m) \subseteq FlawOf(d, m)
    <3>1. CASE d.kind[m] = "none"
      BY <3>1 DEF CollectSkip, FlawOf, UnmappedReason, Kind
    <3>2. CASE d.kind[m] = "constX"
      BY <3>2 DEF CollectSkip, FlawOf, UnmappedReason, Kind
    <3>3. CASE d.kind[m] = "multi"
      BY <3>3 DEF CollectSkip, FlawOf, UnmappedReason, Kind
    <3> QED BY <2>1, <3>1, <3>2, <3>3
  <2>4. CollectSkip(m) \subseteq Flaws(d, m)
    BY <2>2, <2>3 DEF Flaws
  <2>5. Settled(d, Invalid, CollectSkip(m), m)
    BY <2>3, <2>4 DEF Settled
  <2> QED BY <1>7, <1>12, <2>5 DEF m
<1>13. OutputsFit
  <2>1. DOMAIN POs = DOMAIN d.outputs /\ DOMAIN skipped = DOMAIN d.outputs
    BY <1>7
  <2>2. \A i \in DOMAIN d.outputs :
          \/ Settled(d, POs[i], skipped[i], d.outputs[i])
          \/ status # "done" /\ i \in CollectedIn(d) /\ POs[i] = NotBuilt /\ skipped[i] = {}
    BY <1>1, <1>11, <1>12
  <2>3. \A i \in S : POs[i] = NotBuilt /\ skipped[i] = {}
    BY <1>5, <1>11 DEF S
  <2>4. \A i \in S : \E w \in Workers : Waits(chunk[w], job[w], i)
    BY <1>6, <1>9
  <2> QED BY <2>1, <2>2, <2>3, <2>4 DEF OutputsFit, S
<1>14. RaisesOnlyOnMismatch
  BY <1>1 DEF RaisesOnlyOnMismatch
<1>15. /\ chunk = [w \in DOMAIN chunk |-> chunk[w]] /\ job = [w \in DOMAIN job |-> job[w]]
       /\ POs = [i \in DOMAIN POs |-> POs[i]] /\ skipped = [i \in DOMAIN skipped |-> skipped[i]]
  BY <1>1, <1>6, <1>7
<1>16. MapFits(d, iso2expr)
  BY <1>1, EmptyMapFits
<1> QED BY <1>1, <1>10, <1>13, <1>14, <1>15, <1>16 DEF IInv

LEMMA StutterKeeps ==
  ASSUME IInv, UNCHANGED vars
  PROVE  IInv'
<1>1. /\ netlist' = netlist /\ chunk' = chunk /\ job' = job /\ iso2expr' = iso2expr
      /\ POs' = POs /\ skipped' = skipped /\ status' = status
  BY DEF vars
<1>2. WorkersFit'
  BY <1>1 DEF IInv, WorkersFit
<1>3. OutputsFit'
  BY <1>1 DEF IInv, OutputsFit
<1>4. RaisesOnlyOnMismatch'
  BY <1>1 DEF IInv, RaisesOnlyOnMismatch, Outputs, StopAtOpaque, Kind
<1> QED BY <1>1, <1>2, <1>3, <1>4 DEF IInv

\* Whatever the workers do, each in its own step of a cone, the shared map,
\* the trees and the outputs fit the netlist (BuildPrimaryOutputClauses::build).
THEOREM CloudsInvariant == Spec => []IInv
<1>1. Init => IInv
  BY InitFits
<1>2. IInv /\ [Next]_vars => IInv'
  <2> SUFFICES ASSUME IInv, [Next]_vars PROVE IInv'
    OBVIOUS
  <2>1. CASE FinishBuild
    BY <2>1, FinishBuildKeeps
  <2>2. ASSUME NEW w \in Workers, Step(w) PROVE IInv'
    BY <2>2, ProcessOutputKeeps, BeginLevelKeeps, ScanLeafKeeps, MergeLevelKeeps,
       CheckInputsKeeps, VisitNodeKeeps, FinishNodeKeeps, TakeExpressionKeeps DEF Step
  <2>3. CASE UNCHANGED vars
    BY <2>3, StutterKeeps
  <2> QED BY <2>1, <2>2, <2>3 DEF Next
<1> QED BY <1>1, <1>2, PTL DEF Spec

-----------------------------------------------------------------------------
(* What follows for the outputs                                             *)

LEMMA SettledFacts ==
  ASSUME NEW d, NEW po, NEW why, NEW n, Settled(d, po, why, n)
  PROVE  /\ po \in {Invalid} \union {Expression(e) : e \in SUBSET SUBSET Inputs(d)}
         /\ po = Invalid <=> why # {}
         /\ po.is = "expression" => IsValueOf(d, po.holds, n)
         /\ why \subseteq Flaws(d, n) /\ (why = {} <=> Flaws(d, n) = {})
<1>1. Invalid.is = "invalid"
  BY DEF Invalid
<1>2. \A e : Expression(e).is = "expression" /\ Expression(e).holds = e
  BY DEF Expression
<1>3. CASE /\ \E e \in SUBSET SUBSET Inputs(d) : po = Expression(e) /\ IsValueOf(d, e, n)
           /\ why = {} /\ Flaws(d, n) = {}
  <2>1. PICK e \in SUBSET SUBSET Inputs(d) : po = Expression(e) /\ IsValueOf(d, e, n)
    BY <1>3
  <2>2. po.is = "expression" /\ po.holds = e /\ po # Invalid
    BY <1>1, <1>2, <2>1
  <2> QED BY <1>3, <2>1, <2>2
<1>4. CASE po = Invalid /\ why # {} /\ why \subseteq Flaws(d, n)
  <2>1. po.is # "expression"
    BY <1>1, <1>4
  <2> QED BY <1>4, <2>1
<1> QED BY <1>3, <1>4 DEF Settled

LEMMA InvFitsType ==
  ASSUME IInv
  PROVE  TypeOK
<1> DEFINE d == netlist
           D == DOMAIN iso2expr
<1>1. d \in Netlists /\ MapFits(d, iso2expr) /\ status \in {"running", "done", "raised"}
  BY DEF IInv
<1>2. Assignments = SUBSET Inputs(d)
  BY DEF Assignments, Inputs, Kind
<1>3. D \subseteq Nets
  BY <1>1 DEF MapFits
<1>4. \A n \in D : iso2expr[n] \subseteq Assignments
  BY <1>1, <1>2, MapIsValue
<1>5. ASSUME NEW i \in DOMAIN Outputs
      PROVE  /\ POs[i] \in {NotBuilt, Invalid} \union {Expression(e) : e \in SUBSET Assignments}
             /\ POs[i] = Invalid <=> skipped[i] # {}
  <2>1. CASE Settled(d, POs[i], skipped[i], d.outputs[i])
    BY <1>2, <2>1, SettledFacts
  <2>2. CASE POs[i] = NotBuilt /\ skipped[i] = {}
    <3>1. NotBuilt # Invalid
      <4>1. NotBuilt.is = "unbuilt" /\ Invalid.is = "invalid"
        BY DEF NotBuilt, Invalid
      <4> QED BY <4>1
    <3> QED BY <2>2, <3>1
  <2> QED BY <2>1, <2>2 DEF IInv, OutputsFit, Outputs
<1>6. ASSUME NEW w \in Workers
      PROVE  /\ chunk[w] \in Seq(Representatives)
             /\ job[w] # Idle => job[w].output \in Representatives
  BY <1>1, RepsAre DEF IInv, WorkersFit, RangeFits
<1>7. ASSUME NEW w \in Workers, job[w].at \in {"begin", "inputs"}
      PROVE  /\ job[w].border \in Seq(BorderLeaves) /\ job[w].next \in Seq(Leaves)
             /\ Len(job[w].border) = Len(job[w].next)
             /\ \A i \in DOMAIN job[w].border :
                    LET leaf == job[w].border[i] IN
                    job[w].tree[leaf.parent][leaf.pos] =
                        IF leaf.placed THEN Merge("P", job[w].next[i].net) ELSE OpenChild
  <2> DEFINE j == job[w]
  <2>1. JobFits(d, D, j)
    BY DEF IInv, WorkersFit
  <2> HIDE DEF j, d, D
  <2>2. j.at \in {"begin", "inputs"}
    BY <1>7 DEF j
  <2>3. Between(d, D, j)
    BY <2>1, <2>2, JobAt
  <2>4. FrontierFits(d, D, j.tree, j.border, j.next)
    BY <2>3 DEF Between
  <2>5. /\ j.border \in Seq(BorderLeaves) /\ j.next \in Seq(Leaves)
        /\ Len(j.border) = Len(j.next)
        /\ \A i \in 1..Len(j.border) : LeafFits(d, D, j.tree, j.border[i], j.next[i])
    BY <2>4 DEF FrontierFits
  <2>6. DOMAIN j.border = 1..Len(j.border)
    BY <2>5, LenProperties
  <2>7. \A i \in DOMAIN j.border :
          j.tree[j.border[i].parent][j.border[i].pos] =
              IF j.border[i].placed THEN Merge("P", j.next[i].net) ELSE OpenChild
    BY <2>5, <2>6 DEF LeafFits
  <2> QED BY <2>5, <2>7 DEF j
<1>8. ASSUME NEW w \in Workers, job[w].at = "convert" PROVE DOMAIN job[w].tree \subseteq Nets
  <2>1. JobFits(d, D, job[w])
    BY DEF IInv, WorkersFit
  <2>2. Converting(d, D, job[w])
    BY <1>8, <2>1, JobAt
  <2> QED BY <2>2 DEF Converting
<1> QED BY <1>1, <1>3, <1>4, <1>5, <1>6, <1>7, <1>8 DEF TypeOK

LEMMA InvIsRight ==
  ASSUME IInv
  PROVE  BuildIsRight
<1> DEFINE d == netlist
<1>1. d \in Netlists /\ MapFits(d, iso2expr)
  BY DEF IInv
<1>2. ASSUME NEW i \in DOMAIN Outputs
      PROVE  \/ Settled(d, POs[i], skipped[i], Outputs[i])
             \/ status # "done" /\ POs[i] = NotBuilt /\ skipped[i] = {}
  BY DEF IInv, OutputsFit, Outputs
<1>3. NotBuilt.is # "expression"
  BY DEF NotBuilt
<1>4. ExpressionsAreRight
  <2>1. \A n \in DOMAIN iso2expr : IsValueOf(d, iso2expr[n], n)
    BY <1>1, MapIsValue
  <2>2. ASSUME NEW i \in DOMAIN Outputs, POs[i].is = "expression"
        PROVE  IsValueOf(d, POs[i].holds, Outputs[i])
    <3>1. Settled(d, POs[i], skipped[i], Outputs[i])
      BY <1>2, <1>3, <2>2
    <3> QED BY <2>2, <3>1, SettledFacts
  <2> QED BY <2>1, <2>2 DEF ExpressionsAreRight
<1>5. SkippedForAFlaw
  <2>1. ASSUME NEW i \in DOMAIN Outputs, NEW r \in skipped[i] PROVE r \in Flaws(d, Outputs[i])
    BY <1>2, <2>1, SettledFacts
  <2>2. ASSUME status = "done", NEW i \in DOMAIN Outputs
        PROVE  skipped[i] = {} <=> Flaws(d, Outputs[i]) = {}
    <3>1. Settled(d, POs[i], skipped[i], Outputs[i])
      BY <1>2, <2>2
    <3> QED BY <3>1, SettledFacts
  <2> QED BY <2>1, <2>2 DEF SkippedForAFlaw
<1>6. RaisesOnlyOnMismatch
  BY DEF IInv
<1>7. TypeOK
  BY InvFitsType
<1> QED BY <1>4, <1>5, <1>6, <1>7 DEF BuildIsRight

\* The type invariant of the build, borders and frontiers included
\* (SNLLogicCloud::compute, throwIfFrontierMismatch).
THEOREM CloudsType == Spec => []TypeOK
<1>1. IInv => TypeOK
  BY InvFitsType
<1> QED BY <1>1, CloudsInvariant, PTL

\* A build publishes right expressions, skips an output only for a flaw of its
\* own cone and every one that has a flaw, and raises only on a cell that does
\* not fit its truth table: for every netlist, split of the outputs and order
\* of the workers (BuildPrimaryOutputClauses::build).
THEOREM CloudsAreRight == Spec => []BuildIsRight
<1>1. IInv => BuildIsRight
  BY InvIsRight
<1> QED BY <1>1, CloudsInvariant, PTL
=============================================================================
