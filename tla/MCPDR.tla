------------------------------- MODULE MCPDR -------------------------------
(***************************************************************************)
(* Instances of PDR over three bits with one binary input, initial state   *)
(* 0: every machine that leaves state 0 for state 1 and stays below 4,     *)
(* under both encodings, with query budgets and without frames; and        *)
(* machines with long obligation chains, imported clauses, strengthening   *)
(* lemmas, UNKNOWN answers and the observation frontier.                   *)
(***************************************************************************)
EXTENDS PDR

CONSTANTS a, b, c

ThreeBits == {a, b, c}

\* The state whose binary value is n.
S(n) ==
  [v \in Symbols |->
     IF v = a THEN n % 4 >= 2 ELSE IF v = b THEN n % 2 = 1 ELSE n >= 4]

\* The machine that goes from state n to state step[n][i] on input i.
Machine(step) ==
  [x \in Point |->
     LET n == CHOOSE m \in 0..7 : S(m) = x[1] IN S(step[n][x[2]])]

Base(init, next, bad) ==
  [init |-> init, next |-> next, bad |-> bad, lemma |-> Point,
   imported |-> {}, dualRail |-> FALSE, frontier |-> FALSE,
   maxFrames |-> MaxK, maxQueries |-> 0]

\* Binary, dual rail, dual rail with a query budget, no frame allowed.
Modes == {<<FALSE, MaxK, 0>>, <<TRUE, MaxK, 0>>, <<TRUE, MaxK, 2>>, <<FALSE, 0, 0>>}

\* Without inputs, on the states below 4; bad is state 3.
LowMachine(f) ==
  Machine([n \in 0..7 |-> [i \in Inputs |-> IF n = 0 THEN 1 ELSE IF n < 4 THEN f[n] ELSE n]])
LowMachines ==
  {[Base({S(0)}, LowMachine(f), {S(3)} \X Inputs) EXCEPT
      !.dualRail = m[1], !.maxFrames = m[2], !.maxQueries = m[3]] :
     f \in [1..3 -> 0..3], m \in Modes}

\* Three bits.  Input 1 stays in the state, input 0 steps.
Stepper(step) ==
  Machine([n \in 0..7 |-> [i \in Inputs |-> IF i = 1 THEN n ELSE step[n + 1]]])

\* 0 -> 1 -> 2 -> 3 -> 4, then back edges, a second branch and dead states.
Steppers ==
  {Stepper(<<1, 2, 3, 4, w, x, y, z>>) :
     w \in {0, 3, 5}, x \in {0, 6}, y \in {1, 5, 7}, z \in {0, 7}}

Branching ==
  {Base({S(0)}, f, t \X Inputs) : f \in Steppers, t \in {{S(7)}, {S(4), S(6)}}}

Ring == Base({S(0)}, Stepper(<<1, 2, 3, 4, 0, 6, 7, 7>>), {S(7)} \X Inputs)

\* The literal set of a state, as a cube.
CubeOf(n) == Literals(S(n))

\* The ring with lemmas (valid, not initial, not inductive), with imported
\* clauses, under a query budget, with UNKNOWN answers, and with outputs that
\* already differ in the initial state.
Variants ==
  {[Ring EXCEPT !.lemma = {S(n) : n \in 0..4} \X Inputs],
   [Ring EXCEPT !.lemma = {S(n) : n \in 1..7} \X Inputs],
   [Ring EXCEPT !.lemma = {S(n) : n \in 0..6} \X Inputs],
   [Ring EXCEPT !.dualRail = TRUE],
   [Ring EXCEPT !.dualRail = TRUE,
                !.imported = {CubeOf(5), CubeOf(6), {<<a, FALSE>>, <<b, TRUE>>, <<c, TRUE>>}}],
   [Ring EXCEPT !.dualRail = TRUE, !.maxQueries = 4],
   [Ring EXCEPT !.bad = {<<S(0), 1>>, <<S(2), 0>>}]}

\* On the observation frontier the outputs are assumed equal, so input 1 is
\* excluded in state 0 there; the mismatch shows in state 0 on input 1 only.
FrontierProblem(step) ==
  [Base({S(0)}, Stepper(step), {<<S(0), 1>>, <<S(7), 0>>}) EXCEPT !.frontier = TRUE]

\* State 0 is left at once and is reached again, or never again.
Returning == FrontierProblem(<<1, 2, 3, 0, 4, 4, 4, 7>>)
Leaving == FrontierProblem(<<1, 2, 3, 3, 4, 4, 4, 7>>)

CheckedProblems == LowMachines \cup Branching \cup Variants \cup {Returning, Leaving}
=============================================================================
