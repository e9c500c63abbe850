-------------------------- MODULE MCResetFrontier --------------------------
(***************************************************************************)
(* Instances of the solving layer, in three parts that share no state; a   *)
(* behaviour exercises one of them.                                        *)
(*                                                                         *)
(* "frontier": ResetFrontier, small problems for the reset-frontier        *)
(* questions, with and without assumption solves.                          *)
(*                                                                         *)
(* "solver": SatSolver, two variables and a solver of every kind.          *)
(*                                                                         *)
(* "encoding": FrameEncoding, every DAG of two gates over two variables    *)
(* and the constants, and a few DAGs under sequences of calls.             *)
(***************************************************************************)
EXTENDS ResetFrontier, TLC

Reads(x) == [support |-> {x}, holds |-> {{x}}]
(* x and not the active-high reset *)
Held(x) == [support |-> {x, "rst"}, holds |-> {{x}}]
NoAssignment == [x \in {} |-> TRUE]

(* A shift register b -> a behind a reset that clears a only, with the     *)
(* complemented output n of a.                                             *)
Shift ==
  [state |-> {"a", "b", "n"}, free |-> {}, resets |-> [rst |-> TRUE], cycles |-> 1,
   next |-> [a |-> Held("b"), b |-> Reads("b")],
   initial |-> NoAssignment, startup |-> [a |-> FALSE], complete |-> FALSE, dual |-> FALSE,
   complements |-> {<<"a", "n">>}, equalities |-> {}, rails |-> {}, invariant |-> Trivial, assumptions |-> TRUE]

(* Two equal registers c and d that reset clears and that then hold their  *)
(* value, and a register e that follows c; no frontier value is stated.    *)
Twins ==
  [state |-> {"c", "d", "e"}, free |-> {}, resets |-> [rst |-> TRUE], cycles |-> 1,
   next |-> [c |-> Held("c"), d |-> Held("d"), e |-> Reads("c")],
   initial |-> NoAssignment, startup |-> NoAssignment, complete |-> FALSE, dual |-> FALSE,
   complements |-> {}, equalities |-> {<<"c", "d">>}, rails |-> {}, invariant |-> Trivial, assumptions |-> TRUE]

(* A toggling register t with a complete initial state and no bootstrap:   *)
(* u follows t, and m and w are complemented outputs of u.                 *)
Toggle ==
  [state |-> {"t", "u", "m", "w"}, free |-> {}, resets |-> NoAssignment, cycles |-> 0,
   next |-> [t |-> [support |-> {"t"}, holds |-> {{}}], u |-> Reads("t")],
   initial |-> [t |-> FALSE, u |-> FALSE], startup |-> NoAssignment,
   complete |-> TRUE, dual |-> FALSE, complements |-> {<<"u", "m">>, <<"u", "w">>},
   equalities |-> {}, rails |-> {}, invariant |-> Trivial, assumptions |-> TRUE]

(* One dual-rail state: unknown at the start, cleared by reset, then held. *)
Rails ==
  [state |-> {"h", "l"}, free |-> {}, resets |-> [rst |-> FALSE], cycles |-> 1,
   next |-> [h |-> [support |-> {"h", "rst"}, holds |-> {{"h", "rst"}}],
             l |-> [support |-> {"l", "rst"}, holds |-> {{}, {"l"}, {"l", "rst"}}]],
   initial |-> NoAssignment, startup |-> [h |-> FALSE, l |-> TRUE],
   complete |-> FALSE, dual |-> TRUE, complements |-> {}, equalities |-> {},
   rails |-> {<<"h", "l">>}, invariant |-> [support |-> {"h"}, holds |-> {{}}], assumptions |-> TRUE]

(* The same problem when the environment disables assumption solves. *)
Units == [Rails EXCEPT !.assumptions = FALSE]

MCProblems == {Shift, Twins, Toggle, Rails, Units}

T(x) == <<x, TRUE>>
F(x) == <<x, FALSE>>
MCCubes ==
  [p \in MCProblems |->
     CASE p = Shift  -> {{T("b")}, {F("n")}, {T("a"), F("b")}, {T("a"), T("n")}}
       [] p = Twins  -> {{T("e")}, {T("d"), F("c")}, {T("d"), F("e")}}
       [] p = Toggle -> {{F("w")}, {T("t"), F("m")}, {T("w"), F("m")}}
       [] OTHER      -> {{F("l")}, {T("h"), T("l")}}]
MCBatches ==
  [p \in MCProblems |->
     CASE p = Shift  -> {{{T("a")}, {T("b"), F("n")}}}
       [] p = Twins  -> {{{T("c")}, {T("e"), F("d")}}}
       [] p = Toggle -> {{{T("u")}, {T("t")}}}
       [] OTHER      -> {{{T("h")}, {F("l")}}}]

(* What the problem states of its frames is true of the runs of the design. *)
ASSUME ProblemsAreConsistent ==
  \A m \in Met : \A i \in DOMAIN m.at :
    /\ m.at[i] # {}
    /\ i - 1 >= resetBootstrapFrames(m.of) => \A v \in m.at[i] : True(m.of.invariant, v)
    /\ i - 1 = resetBootstrapFrames(m.of) /\ i > 1 =>
         \A v \in m.at[i] : Assigned(m.of.startup, m.of.state, v)

-----------------------------------------------------------------------------
(* The problems to encode.                                                  *)

Leaf(n) == [op |-> IF n < 2 THEN "CONST" ELSE "VAR", left |-> -1, right |-> -1, symbol |-> n]
Not(l) == [op |-> "NOT", left |-> l, right |-> -1, symbol |-> -1]
Gate(op, l, r) == [op |-> op, left |-> l, right |-> r, symbol |-> -1]
Dag(first, second) ==
  [n \in 0..5 |-> CASE n < 4 -> Leaf(n) [] n = 4 -> first [] OTHER -> second]

Ops == {"AND", "OR", "XOR"}
FirstGates == {Not(2)} \cup {Gate(op, l, r) : op \in Ops, l \in {0, 2}, r \in {1, 2, 3}}
SecondGates ==
  {Not(4)} \cup {Gate(op, 4, r) : op \in Ops, r \in {0, 3, 4}} \cup {Gate(op, l, 4) : op \in Ops, l \in {1, 2}}

Identity == [x \in {2, 3} |-> x]
Encode(f, n) == [kind |-> "encode", frame |-> f, node |-> n]
Order(f, n, seq) == [kind |-> "postorder", frame |-> f, node |-> n, order |-> seq]
Transition(x, f, n) == [kind |-> "transition", symbol |-> x, frame |-> f, node |-> n]
Widen(seq) == [kind |-> "widen", symbols |-> seq]
Path(states, first, count) ==
  [kind |-> "path", states |-> states, first |-> first, count |-> count]

Problem(dag, frames, symbols, leaves, create, map, todo) ==
  [dag |-> dag, frames |-> frames, symbols |-> symbols, leaves |-> leaves,
   createMissingLeaves |-> create, symbolMap |-> map, calls |-> todo]

\* Every DAG, encoded in one frame.
DagShapes ==
  {Problem(Dag(g, h), 1, <<2, 3>>, {2, 3}, FALSE, Identity, <<Encode(1, 5)>>) :
     g \in FirstGates, h \in SecondGates}

Mixed == Dag(Gate("AND", 2, 3), Gate("XOR", 4, 2))
Shallow == Dag(Gate("OR", 2, 3), Not(4))
Constant == Dag(Gate("XOR", 2, 1), Gate("AND", 4, 0))

Steps ==
  {Encode(1, 5), Encode(2, 4), Order(1, 5, <<2, 3, 4, 5>>), Order(1, 5, <<0, 1, 2, 3, 4, 5>>),
   Order(1, 5, <<2, 4, 3, 5>>), Order(1, 5, <<2, 3, 4>>), Transition(2, 1, 5),
   Transition(2, 1, 4), Widen(<<3>>), Widen(<<2, 3>>), Path({2}, 1, 2)}

\* Calls on two frames: known and later leaves, and a map that joins symbols.
CallSequences ==
  {Problem(Mixed, 2, IF leaves = {2} THEN <<2>> ELSE <<2, 3>>, leaves, create, Identity,
           <<a, b, c>>) :
     leaves \in {{2}, {2, 3}}, create \in BOOLEAN, a \in Steps, b \in {Encode(1, 5), Order(1, 5, <<2, 3, 4, 5>>), Widen(<<3>>)},
     c \in {Encode(1, 5), Transition(2, 1, 5)}}
    \cup
  {Problem(Constant, 2, <<2>>, {2}, FALSE, [x \in {2, 3} |-> 2], <<a, b>>) :
     a \in Steps, b \in {Encode(1, 5), Path({2}, 1, 2)}}

\* Simple paths of three frames, not from the first frame, and of no state.
SimplePaths ==
  {Problem(Shallow, 3, <<2>>, {2}, FALSE, [x \in {2, 3} |-> 2], <<a, b>>) :
     a \in {Path({2}, 1, 3), Path({2}, 2, 2), Path({}, 1, 3), Transition(2, 2, 5)},
     b \in {Path({2}, 1, 3), Encode(3, 5), Transition(2, 1, 5)}}

EncodingProblems == DagShapes \cup CallSequences \cup SimplePaths

-----------------------------------------------------------------------------
(* The calls of a solver.                                                   *)

WorkLimits == {[conflicts |-> -1], [conflicts |-> 1]}

-----------------------------------------------------------------------------
VARIABLES part,
          solver, active, scopes, used, spent, reply, callsMade,
          encoded, callsLeft, sat, symbolFrameLits, encoder, call, stack, outcomes

solverVars == <<solver, active, scopes, used, spent, reply, callsMade>>
encodingVars == <<encoded, callsLeft, sat, symbolFrameLits, encoder, call, stack, outcomes>>

Solving == INSTANCE SatSolver WITH
  Backends <- {"cadical", "glucose", "kissat"}, Solvers <- {"s1"},
  Clauses <- {{2}, {-2, 3}, {-3}}, AssumptionSets <- {{}, {3, -2}},
  Resources <- {"conflicts"}, QueryLimits <- WorkLimits, Budgets <- {"inner"},
  BudgetLimit <- [inner |-> [conflicts |-> 1]], Overshoot <- [conflicts |-> 0],
  MaxWork <- 1, MaxInt <- 2, Slack <- 1, MaxCalls <- 5,
  answer <- reply, calls <- callsMade

Encoding == INSTANCE FrameEncoding WITH
  Problems <- EncodingProblems, problem <- encoded, calls <- callsLeft

ASSUME Solving!LiteralsAreValid /\ Solving!BudgetsArePositive

SomeFrontier == problem = Toggle /\ Init
SomeSolver == solver = ("s1" :> Solving!NewSolver("cadical")) /\ Solving!Init
SomeEncoding == encoded = (CHOOSE p \in SimplePaths : TRUE) /\ Encoding!Init

MCInit ==
  \/ part = "frontier" /\ SomeSolver /\ SomeEncoding /\ Init
  \/ part = "solver" /\ SomeFrontier /\ SomeEncoding /\ Solving!Init
  \/ part = "encoding" /\ SomeFrontier /\ SomeSolver /\ Encoding!Init

RunFrontier == part = "frontier" /\ Next /\ UNCHANGED <<part, solverVars, encodingVars>>
RunSolver == part = "solver" /\ Solving!Next /\ UNCHANGED <<part, vars, encodingVars>>
RunEncoding == part = "encoding" /\ Encoding!Next /\ UNCHANGED <<part, vars, solverVars>>

MCSpec == MCInit /\ [][RunFrontier \/ RunSolver \/ RunEncoding]_<<part, vars, solverVars, encodingVars>>

\* The assumptions that failedAssumptions names contradict the clauses, and
\* they are assumptions of the last solve.
SolverIsRight == part = "solver" => Solving!SolverIsRight

\* The literal a call returns for an expression (FrameFormulaEncoder::encode,
\* encodePostorder) has the expression's value in every model of the clauses.
EncodingIsRight == part = "encoding" => Encoding!EncodingIsRight
=============================================================================
