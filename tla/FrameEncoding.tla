---------------------------- MODULE FrameEncoding ----------------------------
(* SatEncoding.cpp: how every SEC query reaches the solver.                   *)
(* FrameVariableStore owns one literal per symbol and frame and can be        *)
(* widened; a FrameFormulaEncoder turns the nodes of an expression DAG into   *)
(* clauses over one frame and remembers the literal of every node (its flat   *)
(* hash table is the function nodeToLit).  A solver, its store and its        *)
(* encoders are used by a sequence of calls, each of which may throw and      *)
(* leave its work half done.                                                  *)
(*                                                                            *)
(* A problem is the DAG (node k reads nodes below k), the symbols known from  *)
(* the start, the leaves the encoders are given, and the calls to be made.    *)
(* Nodes 0 and 1 are the constants.                                           *)
EXTENDS Integers, Sequences, FiniteSets, SequencesExt

CONSTANT Problems

VARIABLES
  problem,
  calls,            \* calls still to be made
  sat,              \* the solver: next literal and clauses
  symbolFrameLits,  \* FrameVariableStore: literals of a symbol, by frame
  encoder,          \* the encoders, by frame
  call,             \* the call that is running
  stack,            \* EncoderStack, or what is left of the postorder
  outcomes          \* how the calls ended

vars == <<problem, calls, sat, symbolFrameLits, encoder, call, stack, outcomes>>

Nodes(p) == DOMAIN p.dag
Op(n) == problem.dag[n].op
Left(n) == problem.dag[n].left
Right(n) == problem.dag[n].right
NoCall == [kind |-> "none"]
Frames == 1..problem.frames

--------------------------------------------------------------------------------
(* The solver.  External: SATSolverWrapper (SatSolver).                       *)

newSolverLiteral(s) == [s EXCEPT !.next = @ + 1]
addClauses(s, cs) == [s EXCEPT !.clauses = @ \cup cs]

--------------------------------------------------------------------------------
(* The store.                                                                 *)

\* Literals of new symbols, frame by frame.
Allocated(first, symbols, frames) ==
  [x \in ToSet(symbols) |->
     [f \in 1..frames |->
        first + (f - 1) * Len(symbols) + (CHOOSE k \in DOMAIN symbols : symbols[k] = x) - 1]]

addSymbols(s, lits, symbols, frames) ==
  LET added == SelectSeq(symbols, LAMBDA x : x \notin DOMAIN lits)
      new == Allocated(s.next, added, frames)
  IN  [sat |-> [s EXCEPT !.next = @ + frames * Len(added)],
       lits |-> [x \in (DOMAIN lits) \cup DOMAIN new |->
                   IF x \in DOMAIN lits THEN lits[x] ELSE new[x]]]

makeLeafLits(lits, f, symbols) == [x \in symbols |-> lits[x][f]]

--------------------------------------------------------------------------------
(* An encoder: its leaves, the literals of encoded nodes and its constant.    *)

NewEncoder(p, lits, f) ==
  [leafLits |-> makeLeafLits(lits, f, p.leaves), nodeToLit |-> <<>>, trueLit |-> 0]

findCachedLiteral(e, n) == IF n \in DOMAIN e.nodeToLit THEN e.nodeToLit[n] ELSE 0

cacheEncodedLiteral(e, n, lit) ==
  [e EXCEPT !.nodeToLit = [k \in DOMAIN @ \cup {n} |-> IF k = n THEN lit ELSE @[k]]]

--------------------------------------------------------------------------------
(* Encoding a node whose children are encoded.                                *)

\* The first need of a constant makes its literal.
getConstLit(e, s) ==
  IF e.trueLit # 0 THEN [enc |-> e, sat |-> s]
  ELSE [enc |-> [e EXCEPT !.trueLit = s.next],
        sat |-> addClauses(newSolverLiteral(s), {{s.next}})]

\* The literal of a gate that is constant or one of its inputs; otherwise 0.
\* OR is written in the code as the dual of AND, case by case.
SimplifiedAnd(l, r, t) ==
  IF l = r \/ r = t THEN l
  ELSE IF l = t THEN r
  ELSE IF l = -r \/ -t \in {l, r} THEN -t
  ELSE 0

SimplifiedXor(l, r, t) ==
  CASE l = r -> -t
    [] l = -r -> t
    [] l \notin {r, -r} /\ l \in {t, -t} -> (IF l = t THEN -r ELSE r)
    [] l \notin {r, -r, t, -t} /\ r \in {t, -t} -> (IF r = t THEN -l ELSE l)
    [] OTHER -> 0

Simplified(op, l, r, t) ==
  CASE op = "AND" -> SimplifiedAnd(l, r, t)
    [] op = "OR" -> -SimplifiedAnd(-l, -r, t)
    [] op = "XOR" -> SimplifiedXor(l, r, t)

createXorClauses(lit, l, r) ==
  {{-lit, -l, -r}, {-lit, l, r}, {lit, -l, r}, {lit, l, -r}}

\* Faulty variant: one direction of OR is missing.
OneSidedGates(op, lit, l, r) ==
  CASE op = "AND" -> {{-lit, l}, {-lit, r}, {lit, -l, -r}}
    [] op = "OR" -> {{-l, lit}, {-r, lit}}
    [] op = "XOR" -> createXorClauses(lit, l, r)

GateClauses(op, lit, l, r) ==
  CASE op = "AND" -> {{-lit, l}, {-lit, r}, {lit, -l, -r}}
    [] op = "OR" -> {{-l, lit}, {-r, lit}, {-lit, l, r}}
    [] op = "XOR" -> createXorClauses(lit, l, r)

mappedSymbol(x) == problem.symbolMap[x]

\* Encoding node n: the encoder and the solver afterwards, or a missing leaf.
EncodeVariable(e, s, n) ==
  LET x == mappedSymbol(problem.dag[n].symbol)
  IN  IF x \in DOMAIN e.leafLits
      THEN [enc |-> cacheEncodedLiteral(e, n, e.leafLits[x]), sat |-> s, missing |-> FALSE]
      ELSE IF ~problem.createMissingLeaves
      THEN [enc |-> e, sat |-> s, missing |-> TRUE]
      ELSE [enc |-> cacheEncodedLiteral(
                      [e EXCEPT !.leafLits = [y \in DOMAIN @ \cup {x} |->
                                                IF y = x THEN s.next ELSE @[y]]], n, s.next),
            sat |-> newSolverLiteral(s), missing |-> FALSE]

EncodeGate(e, s, n) ==
  LET l == findCachedLiteral(e, Left(n))
      r == findCachedLiteral(e, Right(n))
      \* AND and OR of one literal are decided before a constant is asked for.
      base == IF l = r /\ Op(n) # "XOR" THEN [enc |-> e, sat |-> s] ELSE getConstLit(e, s)
      lit == Simplified(Op(n), l, r, base.enc.trueLit)
      fresh == base.sat.next
  IN  IF lit # 0
      THEN [enc |-> cacheEncodedLiteral(base.enc, n, lit), sat |-> base.sat, missing |-> FALSE]
      ELSE [enc |-> cacheEncodedLiteral(base.enc, n, fresh),
            sat |-> addClauses(newSolverLiteral(base.sat), GateClauses(Op(n), fresh, l, r)),
            missing |-> FALSE]

encodeReadyNode(e, s, n) ==
  CASE Op(n) = "CONST" ->
         LET base == getConstLit(e, s)
             lit == IF n = 1 THEN base.enc.trueLit ELSE -base.enc.trueLit
         IN  [enc |-> cacheEncodedLiteral(base.enc, n, lit), sat |-> base.sat, missing |-> FALSE]
    [] Op(n) = "VAR" -> EncodeVariable(e, s, n)
    [] Op(n) = "NOT" ->
         [enc |-> cacheEncodedLiteral(e, n, -findCachedLiteral(e, Left(n))),
          sat |-> s, missing |-> FALSE]
    [] OTHER -> EncodeGate(e, s, n)

--------------------------------------------------------------------------------
(* Calls.                                                                     *)

Begin(kind) == call = NoCall /\ calls # <<>> /\ Head(calls).kind = kind

\* encode(expr), and the transition that equates its literal with the next
\* value of a symbol.
BeginEncode ==
  /\ \E kind \in {"encode", "transition"} : Begin(kind)
  /\ call' = Head(calls)
  /\ stack' = <<[node |-> Head(calls).node, visited |-> FALSE]>>
  /\ UNCHANGED <<problem, calls, sat, symbolFrameLits, encoder, outcomes>>

\* encode(expr, postorder)
BeginPostorder ==
  /\ Begin("postorder")
  /\ call' = Head(calls)
  /\ stack' = [k \in DOMAIN Head(calls).order |->
                 [node |-> Head(calls).order[k], visited |-> TRUE]]
  /\ UNCHANGED <<problem, calls, sat, symbolFrameLits, encoder, outcomes>>

Return(how) ==
  /\ call' = NoCall /\ stack' = <<>>
  /\ calls' = Tail(calls)
  /\ outcomes' = Append(outcomes, how)

Me == encoder[call.frame]

Encoded(n) ==
  LET done == encodeReadyNode(Me, sat, n)
  IN  /\ encoder' = [encoder EXCEPT ![call.frame] = done.enc]
      /\ sat' = done.sat
      /\ IF done.missing
         THEN Return("missing leaf")
         ELSE stack' = (IF call.kind = "postorder" THEN Tail(stack) ELSE Front(stack))
                /\ UNCHANGED <<call, calls, outcomes>>

\* One turn of the loop of encode(expr).
StackStep ==
  /\ call.kind \in {"encode", "transition"} /\ stack # <<>>
  /\ LET top == Last(stack)
         children == (IF Right(top.node) = -1 THEN <<>> ELSE <<Right(top.node)>>)
                       \o (IF Left(top.node) = -1 THEN <<>> ELSE <<Left(top.node)>>)
     IN  \/ /\ findCachedLiteral(Me, top.node) # 0
            /\ stack' = Front(stack)
            /\ UNCHANGED <<sat, encoder, call, calls, outcomes>>
         \/ /\ findCachedLiteral(Me, top.node) = 0
            /\ Op(top.node) \in {"VAR", "CONST"} \/ top.visited
            /\ Encoded(top.node)
         \/ /\ findCachedLiteral(Me, top.node) = 0
            /\ Op(top.node) \notin {"VAR", "CONST"} /\ ~top.visited
            /\ stack' = Front(stack) \o <<[top EXCEPT !.visited = TRUE]>>
                          \o [k \in DOMAIN children |->
                                [node |-> children[k], visited |-> FALSE]]
            /\ UNCHANGED <<sat, encoder, call, calls, outcomes>>
  /\ UNCHANGED <<problem, symbolFrameLits>>

\* A node of the order whose children have no literal yet.
Unready(n) ==
  \E c \in {Left(n), Right(n)} : c # -1 /\ findCachedLiteral(Me, c) = 0

\* One node of encode(expr, postorder).
OrderStep ==
  /\ call.kind = "postorder" /\ stack # <<>>
  /\ LET n == Head(stack).node
     IN  \/ /\ findCachedLiteral(Me, n) # 0
            /\ stack' = Tail(stack)
            /\ UNCHANGED <<sat, encoder, call, calls, outcomes>>
         \/ /\ findCachedLiteral(Me, n) = 0 /\ Unready(n)
            /\ Return("unencoded child")
            /\ UNCHANGED <<sat, encoder>>
         \/ /\ findCachedLiteral(Me, n) = 0 /\ ~Unready(n)
            /\ Encoded(n)
  /\ UNCHANGED <<problem, symbolFrameLits>>

addLiteralEquivalence(s, l, r) == addClauses(s, {{-l, r}, {l, -r}})

EncodeReturns ==
  /\ call.kind \in {"encode", "postorder", "transition"} /\ stack = <<>>
  /\ LET lit == findCachedLiteral(Me, call.node)
     IN  /\ sat' = IF call.kind = "transition" /\ lit # 0
                   THEN addLiteralEquivalence(
                          sat, symbolFrameLits[call.symbol][call.frame + 1], lit)
                   ELSE sat
         /\ Return(IF lit = 0 THEN "missing node" ELSE "returned")
  /\ UNCHANGED <<problem, symbolFrameLits, encoder>>

\* The store is widened and every encoder is told the new leaves; an encoder
\* that has made a leaf of its own for one of them refuses.
WidenStore ==
  /\ Begin("widen")
  /\ LET symbols == Head(calls).symbols
         wide == addSymbols(sat, symbolFrameLits, symbols, problem.frames)
         Refuses(k, f) == /\ symbols[k] \in DOMAIN encoder[f].leafLits
                          /\ encoder[f].leafLits[symbols[k]] # wide.lits[symbols[k]][f]
         Told(f) == {symbols[k] : k \in {i \in DOMAIN symbols :
                       \A j \in 1..i : \A g \in Frames :
                         (j < i \/ g <= f) => ~Refuses(j, g)}}
     IN  /\ sat' = wide.sat
         /\ symbolFrameLits' = wide.lits
         /\ encoder' = [f \in Frames |->
                          [encoder[f] EXCEPT !.leafLits =
                             [x \in DOMAIN @ \cup Told(f) |->
                                IF x \in DOMAIN @ THEN @[x] ELSE wide.lits[x][f]]]]
         /\ Return(IF \E k \in DOMAIN symbols, f \in Frames : Refuses(k, f)
                   THEN "leaf changed" ELSE "returned")
  /\ UNCHANGED problem

\* Every two of the frames differ in a state symbol.
PathClauses(s, lits, states, first, count) ==
  LET pairs == SetToSeq({ij \in (first..first + count - 1) \X (first..first + count - 1) :
                           ij[1] < ij[2]})
      xs == SetToSeq(states)
      Lit(p, k) == s.next + (p - 1) * Len(xs) + k - 1
  IN  [next |-> s.next + Len(pairs) * Len(xs),
       clauses |-> s.clauses
         \cup UNION {UNION {createXorClauses(Lit(p, k), lits[xs[k]][pairs[p][1]],
                                             lits[xs[k]][pairs[p][2]]) :
                              k \in DOMAIN xs} : p \in DOMAIN pairs}
         \cup {{Lit(p, k) : k \in DOMAIN xs} : p \in DOMAIN pairs}]

SimplePathClauses(s, lits, states, first, count) ==
  PathClauses(s, lits, states, first, count)

addSimplePathConstraint ==
  /\ Begin("path")
  /\ sat' = IF Head(calls).states = {} THEN sat
            ELSE SimplePathClauses(sat, symbolFrameLits, Head(calls).states,
                                   Head(calls).first, Head(calls).count)
  /\ Return("returned")
  /\ UNCHANGED <<problem, symbolFrameLits, encoder>>

Init ==
  /\ problem \in Problems
  /\ calls = problem.calls
  /\ LET store == addSymbols([next |-> 2, clauses |-> {}], <<>>, problem.symbols, problem.frames)
     IN  /\ sat = store.sat
         /\ symbolFrameLits = store.lits
         /\ encoder = [f \in Frames |-> NewEncoder(problem, store.lits, f)]
  /\ call = NoCall /\ stack = <<>> /\ outcomes = <<>>

Next ==
  \/ BeginEncode \/ BeginPostorder
  \/ StackStep \/ OrderStep \/ EncodeReturns
  \/ WidenStore \/ addSimplePathConstraint

\* Calls run one after the other in one thread.
Spec == Init /\ [][Next]_vars /\ WF_vars(Next)

--------------------------------------------------------------------------------
(* Properties.                                                                *)

Variable(l) == IF l > 0 THEN l ELSE -l
Holds(v, l) == IF l > 0 THEN v[l] ELSE ~v[-l]

\* The models of the clauses, variable by variable.
Models ==
  LET Decided(k) == {c \in sat.clauses : (\A l \in c : Variable(l) <= k)
                                          /\ \E l \in c : Variable(l) = k}
      upTo[k \in 1..sat.next - 1] ==
        IF k = 1 THEN {<<>>}
        ELSE LET decided == Decided(k)
             IN  {w \in {[l \in 2..k |-> IF l = k THEN value ELSE v[l]] :
                           v \in upTo[k - 1], value \in BOOLEAN} :
                    \A c \in decided : \E l \in c : Holds(w, l)}
  IN  upTo[sat.next - 1]

\* What node n means where symbols have the values of their leaf literals.
Value(f, v, n) ==
  LET val[k \in Nodes(problem)] ==
        CASE Op(k) = "CONST" -> k = 1
          [] Op(k) = "VAR" -> v[encoder[f].leafLits[mappedSymbol(problem.dag[k].symbol)]]
          [] Op(k) = "NOT" -> ~val[Left(k)]
          [] Op(k) = "AND" -> val[Left(k)] /\ val[Right(k)]
          [] Op(k) = "OR" -> val[Left(k)] \/ val[Right(k)]
          [] Op(k) = "XOR" -> val[Left(k)] # val[Right(k)]
  IN  val[n]

Cached(f) == {n \in Nodes(problem) : findCachedLiteral(encoder[f], n) # 0}

\* Literals that stand for symbols, as opposed to those of gates.
FreeLiterals ==
  {symbolFrameLits[x][f] : x \in DOMAIN symbolFrameLits, f \in Frames}
    \cup UNION {{encoder[f].leafLits[x] : x \in DOMAIN encoder[f].leafLits} : f \in Frames}

\* What the calls that returned asked for.
Asked(v) ==
  \A k \in {i \in DOMAIN outcomes : outcomes[i] = "returned"} :
    LET c == problem.calls[k]
    IN  CASE c.kind = "transition" ->
               v[symbolFrameLits[c.symbol][c.frame + 1]] = Value(c.frame, v, c.node)
          [] c.kind = "path" ->
               \A i, j \in c.first..c.first + c.count - 1 :
                 i < j /\ c.states # {} =>
                   \E x \in c.states : v[symbolFrameLits[x][i]] # v[symbolFrameLits[x][j]]
          [] OTHER -> TRUE

\* Every variable has its type, clauses use literals that exist, and a call
\* fails only in the ways of the code.
TypeOK ==
  /\ problem \in Problems
  /\ \A c \in sat.clauses : \A l \in c : Variable(l) \in 2..sat.next - 1
  /\ \A f \in Frames : \A x \in DOMAIN encoder[f].leafLits :
       encoder[f].leafLits[x] \in 2..sat.next - 1
  /\ \A k \in DOMAIN outcomes :
       outcomes[k] \in {"returned"} \cup
         (CASE problem.calls[k].kind = "widen" -> {"leaf changed"}
            [] problem.calls[k].kind \in {"encode", "transition"}
                 /\ ~problem.createMissingLeaves -> {"missing leaf"}
            [] problem.calls[k].kind = "postorder" ->
                 {"missing leaf", "unencoded child", "missing node"}
            [] OTHER -> {})

\* In every model of the clauses the literal of an encoded node has the value
\* of the node in its frame, also after calls that threw half way.
LiteralsMeanTheirNodes ==
  call = NoCall =>
    \A v \in Models : \A f \in Frames : \A n \in Cached(f) :
      Holds(v, findCachedLiteral(encoder[f], n)) = Value(f, v, n)

\* Encoding, also a call that threw, excludes nothing: values of the symbols
\* extend to a model exactly when they obey the transitions and the paths that
\* were asked for.
OnlyAskedIsExcluded ==
  call = NoCall =>
    {[l \in FreeLiterals |-> v[l]] : v \in Models}
      = {v \in [FreeLiterals -> BOOLEAN] : Asked(v)}

\* A literal means its expression in every model of the clauses, and the
\* clauses of a simple path exclude nothing else.
EncodingIsRight == TypeOK /\ LiteralsMeanTheirNodes /\ OnlyAskedIsExcluded
===============================================================================
