----------------------------- MODULE SecProblem -----------------------------
(***************************************************************************)
(* The proof problem made of two extracted designs                         *)
(* (SequentialEquivalenceStrategy.cpp, DualRailEncoding.cpp,               *)
(* TransitionExprResolver.cpp), and what it has to do with the designs.    *)
(*                                                                         *)
(* Each design has variables of its own, numbered from 2, so the same tree *)
(* means different things in the two.  Building the problem gives every    *)
(* state and every shared input a symbol.  In the binary encoding a state  *)
(* is one symbol; in the dual-rail encoding it is two, "may be one" and    *)
(* "may be zero", both true for an unknown value.  Outputs are rewritten   *)
(* at once; next-state functions either at once or when an engine first    *)
(* asks for them, with memo tables and caches shared by all batches of the *)
(* run.  Then the problem runs beside the two designs.                     *)
(*                                                                         *)
(* A design is a record: states and inputs (sequences of names), var (name *)
(* to variable), next and out (trees over those variables), init (values   *)
(* of some states) and complements (pairs of a state and its complement).  *)
(***************************************************************************)
EXTENDS ExprTrees, TLC

CONSTANTS
  Pairs,          \* pairs of designs, functions on {0, 1}
  UnionThreshold, \* targets from which binary supports are taken from the cache
  MaxTargets,     \* bound: targets of a union of supports
  MaxQueries      \* bound: supports asked for

VARIABLES
  pair,         \* the two designs
  encoding,     \* "binary" or "dual"
  lazy,         \* next-state functions are rewritten on demand
  phase,        \* "new", "built", "running" or "failed"
  equalities,   \* per output: the tree an engine proves
  memo,         \* per design: tree -> its rewriting
  transitions,  \* state symbol -> rewritten next-state function
  supports,     \* state symbol -> cached support
  collected,    \* the last union of supports: the targets and the symbols
  queries,      \* supports asked for so far
  actual,       \* per design: the states of the running design
  symbolic      \* state symbol -> its value in the running problem

vars == <<pair, encoding, lazy, phase, equalities, memo, transitions, supports, collected,
          queries, actual, symbolic>>

Designs == {0, 1}

-----------------------------------------------------------------------------
(* Symbols (buildSharedSecSymbolSpace, allocateDualRailStateMaps).         *)

StateCount(d) == Len(pair[d].states)
Inputs == pair[0].inputs

\* States of design 0, states of design 1, then the aligned inputs.
stateSymbol(d, i) == 1 + i + (IF d = 1 THEN StateCount(0) ELSE 0)
inputSymbol(i) == 1 + StateCount(0) + StateCount(1) + i

nextUnusedProofSymbol == 2 + StateCount(0) + StateCount(1) + Len(Inputs)

\* The two symbols of a state, after all the binary ones.
Rails(d, i) ==
  LET first == nextUnusedProofSymbol + 2 * (stateSymbol(d, i) - 2)
  IN [one |-> first, zero |-> first + 1]

IndexIn(name, names) == CHOOSE i \in DOMAIN names : names[i] = name
NameOf(d, id) == CHOOSE n \in DOMAIN pair[d].var : pair[d].var[n] = id

\* buildLocalToCombinedMap: inputs and states are published, other variables
\* of the extraction are not.
Published(d) == {pair[d].var[n] : n \in ToSet(pair[d].inputs) \cup ToSet(pair[d].states)}
IsState(d, id) == NameOf(d, id) \in ToSet(pair[d].states)

localToCombined(d, id) ==
  LET n == NameOf(d, id)
  IN IF IsState(d, id) THEN stateSymbol(d, IndexIn(n, pair[d].states))
     ELSE inputSymbol(IndexIn(n, pair[d].inputs))

\* The state symbols and what the transition of each one is made from.
Source(d, i, rail) ==
  [symbol |-> IF rail = "binary" THEN stateSymbol(d, i) ELSE Rails(d, i)[rail],
   design |-> d, index |-> i, rail |-> rail]

RailKinds == IF encoding = "binary" THEN {"binary"} ELSE {"one", "zero"}

StateSources ==
  UNION {{Source(d, i, r) : i \in 1..StateCount(d), r \in RailKinds} : d \in Designs}

LocalExpr(s) == pair[s.design].next[pair[s.design].states[s.index]]

\* sourceByStateSymbol.
SourceOf(symbol) ==
  LET offset == symbol - nextUnusedProofSymbol
      k == IF encoding = "binary" THEN symbol - 1 ELSE 1 + offset \div 2
      d == IF k <= StateCount(0) THEN 0 ELSE 1
      rail == IF encoding = "binary" THEN "binary" ELSE IF offset % 2 = 0 THEN "one" ELSE "zero"
  IN Source(d, IF d = 0 THEN k ELSE k - StateCount(0), rail)

StateSymbols == {s.symbol : s \in StateSources}

-----------------------------------------------------------------------------
(* Rewriting a tree of one design (remapSecFormulaStrict,                  *)
(* remapBoolExprVariables, buildDualRailBoolExpr).                         *)

Rail(one, zero) == [one |-> one, zero |-> zero]

\* mapVariable: a state is its two rails, an input is known.
mapVariable(d, id) ==
  LET symbol == localToCombined(d, id)
      n == NameOf(d, id)
  IN IF IsState(d, id)
       THEN LET rails == Rails(d, IndexIn(n, pair[d].states))
            IN Rail(Var(rails.one), Var(rails.zero))
       ELSE Rail(Var(symbol), Not(Var(symbol)))

Leaf(d, e) ==
  IF encoding = "binary"
    THEN IF IsConst(e) THEN e ELSE Var(localToCombined(d, IdOf(e)))
    ELSE IF IsConst(e) THEN Rail(e, Not(e)) ELSE mapVariable(d, IdOf(e))

\* The lift of an operator to possible values.
LiftNode(op, args) ==
  CASE op = "NOT" -> Rail(args[1].zero, args[1].one)
    [] op = "AND" -> Rail(And(args[1].one, args[2].one), Or(args[1].zero, args[2].zero))
    [] op = "OR" -> Rail(Or(args[1].one, args[2].one), And(args[1].zero, args[2].zero))
    [] op = "XOR" ->
         Rail(Or(And(args[1].one, args[2].zero), And(args[1].zero, args[2].one)),
              Or(And(args[1].one, args[2].one), And(args[1].zero, args[2].zero)))

Combine(op, args) == IF encoding = "binary" THEN Rebuild(op, args) ELSE LiftNode(op, args)

\* Depth first, left before right; a tree that is in the memo table is not
\* entered again.  The result is the memo table.
RECURSIVE Visit(_, _, _)
Visit(d, e, known) ==
  IF e \in DOMAIN known THEN known
  ELSE IF OpOf(e) = "VAR" THEN known @@ (e :> Leaf(d, e))
  ELSE LET below == FoldLeft(LAMBDA m, c : Visit(d, c, m), known, Children(e))
       IN below @@ (e :> Combine(OpOf(e), [i \in DOMAIN Children(e) |-> below[Child(e, i)]]))

RECURSIVE VarsOf(_)
VarsOf(e) ==
  IF OpOf(e) = "VAR" THEN {IdOf(e)}
  ELSE UNION {VarsOf(Child(e, i)) : i \in DOMAIN Children(e)}

\* A tree with a variable that was not published is refused.
Refused(d, e) == ~(VarsOf(e) \ {0, 1} \subseteq Published(d))

\* The rail a source asks for.
Part(s, value) ==
  CASE s.rail = "binary" -> value
    [] s.rail = "one" -> value.one
    [] s.rail = "zero" -> value.zero

-----------------------------------------------------------------------------
(* Output obligations.                                                     *)

makeEqualityExpr(a, b) == Not(Xor(a, b))

Defined(v) == Simplify(Xor(v.one, v.zero))

\* buildDualRailOutputProperties: a cycle in which either value is unknown is
\* ignored.
GuardedEquality(v0, v1) ==
  LET both == Simplify(And(Defined(v0), Defined(v1)))
  IN Simplify(Not(And(both, Xor(v0.one, v1.one))))

OutputEquality(v0, v1) ==
  IF encoding = "binary" THEN makeEqualityExpr(v0, v1) ELSE GuardedEquality(v0, v1)

-----------------------------------------------------------------------------
Empty == << >>

Init ==
  /\ pair \in Pairs
  /\ encoding \in {"binary", "dual"} /\ lazy \in BOOLEAN
  /\ phase = "new"
  /\ equalities = << >>
  /\ memo = [d \in Designs |-> Empty]
  /\ transitions = Empty /\ supports = Empty
  /\ collected = [targets |-> {}, symbols |-> {}]
  /\ queries = 0
  /\ actual = [d \in Designs |-> Empty] /\ symbolic = Empty

\* Variant: one table for both designs.
TableOf(tables, d) == tables[0] @@ tables[1]

Table(tables, d) == tables[d]

Outputs == DOMAIN pair[0].out

AfterOutputs ==
  [d \in Designs |-> FoldLeft(LAMBDA m, e : Visit(d, e, m), Empty, pair[d].out)]

AfterNext(tables) ==
  [d \in Designs |->
     FoldLeft(LAMBDA m, n : Visit(d, pair[d].next[n], m), tables[d], pair[d].states)]

\* The problem: outputs are rewritten with a table per design; so are the
\* next-state functions, unless they are left to the store.
Build ==
  /\ phase = "new"
  /\ LET trees(d) == ToSet(pair[d].out)
                     \cup (IF lazy THEN {} ELSE {pair[d].next[n] : n \in ToSet(pair[d].states)})
     IN IF \E d \in Designs : \E e \in trees(d) : Refused(d, e)
          THEN phase' = "failed" /\ UNCHANGED <<equalities, transitions>>
          ELSE \E outs \in {AfterOutputs} :
                 /\ phase' = "built"
                 /\ equalities' = [o \in Outputs |-> OutputEquality(outs[0][pair[0].out[o]],
                                                                    outs[1][pair[1].out[o]])]
                 /\ \E all \in {IF lazy THEN outs ELSE AfterNext(outs)} :
                      transitions' = IF lazy THEN Empty
                                     ELSE [x \in StateSymbols |->
                                             LET s == SourceOf(x)
                                             IN Part(s, all[s.design][LocalExpr(s)])]
  /\ UNCHANGED <<pair, encoding, lazy, memo, supports, collected, queries, actual, symbolic>>

\* TransitionExprResolver::at, for a transition that is not there yet.
At(s) ==
  /\ phase = "built" /\ s.symbol \notin DOMAIN transitions
  /\ LET d == s.design
         e == LocalExpr(s)
     IN IF Refused(d, e)
          THEN phase' = "failed" /\ UNCHANGED <<memo, transitions>>
          ELSE \E m \in {Visit(d, e, Table(memo, d))} :
                 /\ memo' = [memo EXCEPT ![d] = m]
                 /\ transitions' = transitions @@ (s.symbol :> Part(s, m[e]))
                 /\ UNCHANGED phase
  /\ UNCHANGED <<pair, encoding, lazy, equalities, supports, collected, queries, actual,
                 symbolic>>

\* The symbols a variable of a design stands for: both rails of a state, even
\* when one rail of the transition is asked for.  Constants are left in binary
\* supports only.
SymbolsOf(d, id) ==
  IF id < 2 THEN IF encoding = "binary" THEN {id} ELSE {}
  ELSE IF IsState(d, id) /\ encoding = "dual"
    THEN LET rails == Rails(d, IndexIn(NameOf(d, id), pair[d].states))
         IN {rails.one, rails.zero}
    ELSE {localToCombined(d, id)}

\* The support of a transition, in the design's own variables when the
\* transition is left to the store.
WalkSupport(s) ==
  IF ~lazy THEN VarsOf(transitions[s.symbol])
  ELSE UNION {SymbolsOf(s.design, id) : id \in VarsOf(LocalExpr(s))}

\* TransitionExprResolver::support.
Support(s) ==
  /\ phase = "built" /\ s.symbol \notin DOMAIN supports
  /\ queries < MaxQueries /\ queries' = queries + 1
  /\ IF Refused(s.design, LocalExpr(s))
       THEN phase' = "failed" /\ UNCHANGED supports
       ELSE supports' = supports @@ (s.symbol :> WalkSupport(s)) /\ UNCHANGED phase
  /\ UNCHANGED <<pair, encoding, lazy, equalities, memo, transitions, collected, actual,
                 symbolic>>

\* TransitionExprResolver::collectSupportForTargets: many targets of a binary
\* problem go through the support cache, others are walked together; the
\* constants are left out.
CollectSupport(targets) ==
  /\ phase = "built"
  /\ queries < MaxQueries /\ queries' = queries + 1
  /\ IF \E s \in targets : Refused(s.design, LocalExpr(s))
       THEN phase' = "failed" /\ UNCHANGED <<supports, collected>>
       ELSE LET cachedPath == encoding = "binary" /\ Cardinality(targets) >= UnionThreshold
                filled == supports @@ [x \in {s.symbol : s \in targets} |-> WalkSupport(SourceOf(x))]
            IN /\ supports' = IF cachedPath THEN filled ELSE supports
               /\ collected' =
                    [targets |-> {s.symbol : s \in targets},
                     symbols |-> UNION {IF cachedPath THEN filled[s.symbol] ELSE WalkSupport(s) :
                                          s \in targets} \ {0, 1}]
               /\ UNCHANGED phase
  /\ UNCHANGED <<pair, encoding, lazy, equalities, memo, transitions, actual, symbolic>>

-----------------------------------------------------------------------------
(* The designs and the problem side by side.                               *)

\* addDualRailStateAssignment: a state without a value may be either.
InitialRails(d, n) ==
  LET known == n \in DOMAIN pair[d].init
  IN [one |-> known => pair[d].init[n], zero |-> known => ~pair[d].init[n]]

NamesOf(d) == ToSet(pair[d].states)

\* Power-up states of a design: its initial values and its complements hold.
Startups(d) ==
  {v \in [NamesOf(d) -> BOOLEAN] :
     /\ \A n \in DOMAIN pair[d].init : v[n] = pair[d].init[n]
     /\ \A c \in pair[d].complements : v[c[2]] = ~v[c[1]]}

\* The problem starts from its initial assignments; in the binary encoding
\* the other states are free.
Start ==
  /\ phase = "built" /\ DOMAIN transitions = StateSymbols
  /\ phase' = "running"
  /\ \E v0 \in Startups(0), v1 \in Startups(1) :
       /\ actual' = [d \in Designs |-> IF d = 0 THEN v0 ELSE v1]
       /\ symbolic' =
            [x \in StateSymbols |->
               LET s == SourceOf(x)
                   n == pair[s.design].states[s.index]
               IN IF s.rail = "binary" THEN (IF s.design = 0 THEN v0 ELSE v1)[n]
                  ELSE InitialRails(s.design, n)[s.rail]]
  /\ UNCHANGED <<pair, encoding, lazy, equalities, memo, transitions, supports, collected,
                 queries>>

InputValues == [DOMAIN Inputs -> BOOLEAN]

\* Values of a design's own variables, and of the problem's symbols.
LocalEnv(d, ins) ==
  [id \in Published(d) |->
     LET n == NameOf(d, id)
     IN IF IsState(d, id) THEN actual[d][n] ELSE ins[IndexIn(n, pair[d].inputs)]]

SymbolEnv(values, ins) ==
  values @@ [x \in {inputSymbol(i) : i \in DOMAIN Inputs} |-> ins[x - inputSymbol(0)]]

Step(ins) ==
  /\ phase = "running"
  /\ actual' = [d \in Designs |->
                  [n \in NamesOf(d) |-> Evaluate(pair[d].next[n], LocalEnv(d, ins))]]
  /\ symbolic' = [x \in StateSymbols |-> Evaluate(transitions[x], SymbolEnv(symbolic, ins))]
  /\ UNCHANGED <<pair, encoding, lazy, phase, equalities, memo, transitions, supports,
                 collected, queries>>

Next ==
  \/ Build
  \/ \E s \in StateSources : At(s) \/ Support(s)
  \/ \E n \in 1..MaxTargets : \E targets \in kSubset(n, StateSources) : CollectSupport(targets)
  \/ Start
  \/ \E ins \in InputValues : Step(ins)

Spec == Init /\ [][Next]_vars

-----------------------------------------------------------------------------
(* The properties.                                                         *)

AllSymbols == {inputSymbol(i) : i \in DOMAIN Inputs} \cup StateSymbols

\* Every variable has its type, and no two states or inputs share a symbol.
TypeOK ==
  /\ encoding \in {"binary", "dual"} /\ lazy \in BOOLEAN
  /\ phase \in {"new", "built", "running", "failed"}
  /\ DOMAIN transitions \subseteq StateSymbols /\ DOMAIN supports \subseteq StateSymbols
  /\ \A x \in DOMAIN transitions : VarsOf(transitions[x]) \ {0, 1} \subseteq AllSymbols
  /\ queries \in 0..MaxQueries
  /\ phase = "running" => symbolic \in [StateSymbols -> BOOLEAN]
  /\ Cardinality(AllSymbols) = Len(Inputs) + Cardinality(StateSources)

\* The values a tree can take when its variables have the given sets of
\* possible values, each operator taken by itself.
RECURSIVE Possible(_, _)
Possible(e, sets) ==
  CASE e = False -> {FALSE}
    [] e = True -> {TRUE}
    [] OpOf(e) = "VAR" -> sets[IdOf(e)]
    [] OpOf(e) = "NOT" -> {~a : a \in Possible(Child(e, 1), sets)}
    [] OpOf(e) = "AND" -> {a /\ b : a \in Possible(Child(e, 1), sets), b \in Possible(Child(e, 2), sets)}
    [] OpOf(e) = "OR" -> {a \/ b : a \in Possible(Child(e, 1), sets), b \in Possible(Child(e, 2), sets)}
    [] OpOf(e) = "XOR" -> {a # b : a \in Possible(Child(e, 1), sets), b \in Possible(Child(e, 2), sets)}

\* Possible values of a design's variables: inputs are known, and so are
\* states in the binary encoding.
Singletons == {{FALSE}, {TRUE}}
PossibleEnvs(d) ==
  {sets \in [Published(d) -> Singletons \cup {BOOLEAN}] :
     \A id \in Published(d) : sets[id] = BOOLEAN => IsState(d, id) /\ encoding = "dual"}

\* The value of a symbol of the problem when the variables have those sets;
\* symbols of the other design are low.
Valuation(d, sets) ==
  [x \in AllSymbols |->
     IF x \in inputSymbol(1)..inputSymbol(Len(Inputs))
       THEN TRUE \in sets[pair[d].var[pair[d].inputs[x - inputSymbol(0)]]]
       ELSE LET s == SourceOf(x)
            IN /\ s.design = d
               /\ (s.rail # "zero") \in sets[pair[d].var[pair[d].states[s.index]]]]

\* Whatever the order in which engines asked for them, and whichever trees
\* the two designs have in common, every rewritten transition says what the
\* next-state function of its own design says: its value in the binary
\* encoding, its possible values in the dual-rail one.
AnswersKeepTheMeaning ==
  phase = "built" =>
    \A x \in DOMAIN transitions :
      LET s == SourceOf(x)
      IN \A sets \in PossibleEnvs(s.design) :
           Evaluate(transitions[x], Valuation(s.design, sets)) =
             ((s.rail # "zero") \in Possible(LocalExpr(s), sets))

\* The supports the engines build their cones from name every symbol the
\* transition reads, and only symbols of the transition's own design.
SupportsCover ==
  \A x \in DOMAIN transitions :
    LET read == VarsOf(transitions[x]) \ {0, 1}
        d == SourceOf(x).design
        own == {y \in AllSymbols : y \in StateSymbols => SourceOf(y).design = d}
    IN /\ x \in DOMAIN supports => read \subseteq supports[x] /\ supports[x] \subseteq own \cup {0, 1}
       /\ x \in collected.targets => read \subseteq collected.symbols

\* A running problem follows the running designs: a binary symbol is the
\* state's value, and of two rails the one of the state's value is up, so an
\* unknown start never excludes what the hardware does.
ProblemFollowsTheDesigns ==
  phase = "running" =>
    \A s \in StateSources :
      LET v == actual[s.design][pair[s.design].states[s.index]]
      IN CASE s.rail = "binary" -> symbolic[s.symbol] = v
           [] s.rail = "one" -> v => symbolic[s.symbol]
           [] s.rail = "zero" -> ~v => symbolic[s.symbol]

\* What the engines prove about an output is the comparison of the designs'
\* outputs: an obligation that fails is a real difference, and an obligation
\* that holds hides one only while a value is unknown.
ObligationsCompareOutputs ==
  phase = "running" =>
    \A ins \in InputValues : \A o \in Outputs :
      LET value(d) == Evaluate(pair[d].out[o], LocalEnv(d, ins))
          known(d) == Cardinality(Possible(pair[d].out[o],
                        [id \in Published(d) |->
                           IF ~IsState(d, id) \/ encoding = "binary" THEN {LocalEnv(d, ins)[id]}
                           ELSE LET r == Rails(d, IndexIn(NameOf(d, id), pair[d].states))
                                IN {b \in BOOLEAN : symbolic[IF b THEN r.one ELSE r.zero]}])) = 1
      IN Evaluate(equalities[o], SymbolEnv(symbolic, ins)) =
           (known(0) /\ known(1) => value(0) = value(1))

\* addDualRailComplementStateEqualities: the rails of a complement are those
\* of its state, exchanged.
ComplementRails(p, c) == {<<c.one, p.zero>>, <<c.zero, p.one>>}

sameFrameEqualities ==
  UNION {ComplementRails(Rails(d, IndexIn(c[1], pair[d].states)),
                         Rails(d, IndexIn(c[2], pair[d].states))) :
           <<d, c>> \in UNION {{<<d, c>> : c \in pair[d].complements} : d \in Designs}}

\* The equalities between rails that every engine assumes in every frame hold
\* in every frame.
AssumedEqualitiesHold ==
  phase = "running" /\ encoding = "dual" =>
    \A q \in sameFrameEqualities : symbolic[q[1]] = symbolic[q[2]]

\* The problem handed to the engines is the two designs' own: transitions,
\* supports, starts, relations and obligations (buildSequentialEquivalenceProblem).
ProblemIsRight ==
  /\ TypeOK /\ AnswersKeepTheMeaning /\ SupportsCover /\ ProblemFollowsTheDesigns
  /\ ObligationsCompareOutputs /\ AssumedEqualitiesHold
=============================================================================
