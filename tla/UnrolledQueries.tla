-------------------------- MODULE UnrolledQueries --------------------------
(***************************************************************************)
(* The bounded queries of the base case: which symbols and transitions of  *)
(* a proof problem an unrolled query needs (its cone of influence), the    *)
(* constraints put on every frame, and the models the query then has.  It  *)
(* also holds the union-find with parity by which a cube is compared with  *)
(* the assignments and relations known of the start frame.                 *)
(*                                                                         *)
(* A problem p is a record:                                                *)
(*   state, free      the state symbols and the ordinary inputs            *)
(*   resets           reset input |-> its asserted value                   *)
(*   cycles           the frames of the reset bootstrap                    *)
(*   next             state symbol |-> [support, holds]: its transition    *)
(*   initial, startup partial assignments of frame 0 and of the frontier   *)
(*   complete, dual   complete initial state, dual-rail encoding           *)
(*   complements, equalities, rails   pairs of state symbols               *)
(*   invariant        [support, holds], Trivial when there is none         *)
(* A formula [support, holds] is true of the valuations v with             *)
(* v \cap support \in holds.  A valuation is the set of its true symbols,  *)
(* a cube a set of pairs of a symbol and a value.                          *)
(***************************************************************************)
EXTENDS Integers, Sequences, FiniteSets, SequencesExt, Functions

None == "none"

SymbolsOf(cube) == {l[1] : l \in cube}
Literals(assignment) == {<<x, assignment[x]>> : x \in DOMAIN assignment}
Agrees(v, cube) == \A l \in cube : (l[1] \in v) = l[2]
True(formula, v) == v \cap formula.support \in formula.holds

Trivial == [support |-> {}, holds |-> {{}}]

Only(S) == CHOOSE x \in S : TRUE
UpTo(n) == [i \in 1..n |-> i]

AllSymbols(p) == p.state \cup p.free \cup DOMAIN p.resets

resetBootstrapFrames(p) ==
  IF (~p.complete \/ p.dual) /\ DOMAIN p.resets # {} THEN p.cycles ELSE 0

-----------------------------------------------------------------------------
(* The cone of influence *)

Partners(pairs, S) ==
  {q[2] : q \in {q \in pairs : q[1] \in S}} \cup {q[1] : q \in {q \in pairs : q[2] \in S}}

EqualityClosure(pairs, S) ==
  LET closed[n \in 0..Cardinality(pairs)] ==
        IF n = 0 THEN S ELSE closed[n - 1] \cup Partners(pairs, closed[n - 1])
  IN closed[Cardinality(pairs)]

(* A complemented output without a transition of its own follows its primary. *)
ExpandTransitionTargets(p, S) ==
  (S \cap DOMAIN p.next)
    \cup {q[1] : q \in {q \in p.complements :
                          q[2] \in S \ DOMAIN p.next /\ q[1] \in DOMAIN p.next}}

SupportOf(p, targets) == UNION {p.next[x].support : x \in targets}

SameFrameClosure(p, S) == EqualityClosure(p.equalities, S)

(* requiredStates by frame, from the last frame backwards: the i-th set is *)
(* that of frame i - 1.                                                    *)
RequiredStates(p, last, direct) ==
  FoldLeft(LAMBDA back, n :
             Only({<<SameFrameClosure(p, p.state \cap (direct[last - n]
                       \cup SupportOf(p, ExpandTransitionTargets(p, Head(after)))))>> \o after :
                   after \in {back}}),
           <<SameFrameClosure(p, p.state \cap direct[last])>>, UpTo(last))

Coi(p, last, direct, rails) ==
  Only({LET targets == [f \in 0..(last - 1) |-> ExpandTransitionTargets(p, required[f + 2])]
            touched == (DOMAIN p.resets) \cup UNION {direct[f] \cup required[f + 1] : f \in 0..last}
                         \cup UNION {targets[f] \cup SupportOf(p, targets[f]) : f \in 0..(last - 1)}
            paired == SameFrameClosure(p, touched \cup Partners(p.complements, touched))
        IN [targets |-> targets, start |-> required[1],
            symbols |-> paired \cup (IF rails THEN Partners(p.rails, paired) ELSE {})] :
        required \in {RequiredStates(p, last, direct)}})

StateCubeReachabilityCoi(p, last, symbols, targetFrames) ==
  Coi(p, last,
      [f \in 0..last |->
         (IF f \in targetFrames THEN symbols ELSE {})
           \cup (IF f >= resetBootstrapFrames(p) THEN p.invariant.support ELSE {})],
      TRUE)

ResetSummaryCoi(p, steps, symbols) ==
  Coi(p, steps,
      [f \in 0..steps |-> (IF f = steps THEN symbols ELSE {}) \cup p.invariant.support],
      FALSE)

-----------------------------------------------------------------------------
(* The constraints of a query.  boot is the frame of the frontier in the      *)
(* unrolled frames: resetBootstrapFrames for a full prefix, 0 for a summary.  *)

ResetAt(p, boot, f, v) ==
  \A x \in DOMAIN p.resets : (x \in v) = (IF f < boot THEN p.resets[x] ELSE ~p.resets[x])

ComplementsHold(p, symbols, v) ==
  \A q \in p.complements : {q[1], q[2]} \subseteq symbols => (q[1] \in v) # (q[2] \in v)

EqualitiesHold(p, symbols, v) ==
  \A q \in p.equalities : {q[1], q[2]} \subseteq symbols => (q[1] \in v) = (q[2] \in v)

RailsValid(p, symbols, v) ==
  \A q \in p.rails : {q[1], q[2]} \subseteq symbols => q[1] \in v \/ q[2] \in v

Assigned(assignment, symbols, v) ==
  \A x \in (DOMAIN assignment) \cap symbols : (x \in v) = assignment[x]

(* Without a bootstrap the reset inputs are ordinary inputs. *)
FrameConstraints(p, symbols, boot, f, v) ==
  /\ resetBootstrapFrames(p) > 0 => ResetAt(p, boot, f, v)
  /\ ComplementsHold(p, symbols, v)
  /\ EqualitiesHold(p, symbols, v)
  /\ RailsValid(p, symbols, v)
  /\ f >= boot => True(p.invariant, v)
  /\ f = 0 /\ resetBootstrapFrames(p) = 0 => Assigned(p.initial, symbols, v)
  /\ f = boot /\ resetBootstrapFrames(p) > 0 => Assigned(p.startup, symbols, v)

TransitionRelation(p, targets, u, v) ==
  \A x \in targets : (x \in v) = True(p.next[x], u)

(* The valuations of every frame that some model of the query has there, from  *)
(* those allowed in it: layers[i] belongs to frame i - 1.  A value bound to    *)
(* the one member of a set is computed once.                                   *)
Forward(p, targets, Allowed(_), last) ==
  FoldLeft(LAMBDA layers, f :
             Only({Append(before, {v \in here : \E u \in Last(before) :
                                     TransitionRelation(p, moved, u, v)}) :
                   before \in {layers}, here \in {Allowed(f)}, moved \in {targets[f - 1]}}),
           <<Allowed(0)>>, UpTo(last))

Backward(p, targets, layers) ==
  FoldLeft(LAMBDA kept, n :
             LET f == Len(layers) - 1 - n
             IN Only({<<{u \in layers[f + 1] : \E v \in Head(after) :
                           TransitionRelation(p, moved, u, v)}>> \o after :
                      after \in {kept}, moved \in {targets[f]}}),
           <<Last(layers)>>, UpTo(Len(layers) - 1))

Models(p, coi, last, boot, blockers) ==
  LET Allowed(f) == {v \in SUBSET coi.symbols :
                       /\ FrameConstraints(p, coi.symbols, boot, f, v)
                       /\ \A b \in blockers : b[1] = f => ~Agrees(v, b[2])}
  IN {Backward(p, coi.targets, forward) :
        forward \in {Forward(p, coi.targets, Allowed, last)}}

-----------------------------------------------------------------------------
(* ParityUnionFind.  The forest is the set of <<x, root, parity>> with every   *)
(* path compressed: find compresses the path it climbs, and a path that is not *)
(* compressed yet has the same root and parity.                                *)

Singletons(S) == {<<x, x, FALSE>> : x \in S}

Root(forest, x) == CHOOSE n \in forest : n[1] = x

(* Hangs the root of a below the root of b. *)
Hang(forest, a, b, parity) ==
  {IF n[2] = a[2] THEN <<n[1], b[2], n[3] # parity>> ELSE n : n \in forest}

Unite(forest, lhs, rhs, inverted) ==
  LET a == Root(forest, lhs)
      b == Root(forest, rhs)
  IN IF a[2] = b[2] THEN forest
     ELSE Hang(forest, a, b, (a[3] # b[3]) # inverted)

UniteAll(forest, pairs, inverted) ==
  FoldLeft(LAMBDA all, q : Only({Unite(now, q[1], q[2], inverted) : now \in {all}}),
           forest, SetToSeq(pairs))

Relations(p) ==
  UniteAll(UniteAll(Singletons(p.state), p.equalities, FALSE), p.complements, TRUE)

RootLiteral(forest, l) == LET r == Root(forest, l[1]) IN <<r[2], l[2] # r[3]>>

(* The assignments known of the start frame. *)
KnownAssignment(p) == IF resetBootstrapFrames(p) > 0 THEN p.startup ELSE p.initial

(* The cores the comparison may return: a literal against a known root value,  *)
(* or two literals that want different values of one root.                     *)
ConflictCores(p, forest, cube) ==
  LET known == {RootLiteral(forest, l) : l \in Literals(KnownAssignment(p))}
      wanted == {<<l, RootLiteral(forest, l)>> : l \in cube}
      Opposite(r) == <<r[1], ~r[2]>>
  IN {{w[1]} : w \in {w \in wanted : w[2] \notin known /\ Opposite(w[2]) \in known}}
       \cup {{q[1][1], q[2][1]} : q \in {q \in wanted \X wanted : q[2][2] = Opposite(q[1][2])}}

KnownConflictCores(p, cube, steps) ==
  IF steps # 0 THEN {} ELSE UNION {ConflictCores(p, forest, cube) : forest \in {Relations(p)}}
=============================================================================
