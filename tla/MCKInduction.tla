---------------------------- MODULE MCKInduction ----------------------------
(***************************************************************************)
(* Instances of KInduction.                                                *)
(***************************************************************************)
EXTENDS KInduction

CONSTANTS a, b

Zero == [v \in Symbols |-> FALSE]

\* The three dual-rail size classes, and the binary encoding with and without
\* simple paths.
DualRailModes == {<<TRUE, "small", TRUE>>, <<TRUE, "medium", TRUE>>, <<TRUE, "large", FALSE>>}
BinaryModes == {<<FALSE, "small", TRUE>>, <<FALSE, "large", FALSE>>}

ProblemOf(next, differ, m) ==
  [init |-> {Zero}, next |-> next, differ |-> differ, dualRail |-> m[1],
   surface |-> m[2], simplePath |-> m[3]]

\* The binary value of a state.
Value(s) == (IF s[a] THEN 2 ELSE 0) + (IF s[b] THEN 1 ELSE 0)

StateOf(n) == [v \in Symbols |-> IF v = a THEN n >= 2 ELSE n % 2 = 1]

\* The walk 0, 1, 2, 3 that stays in 3 or goes back to 0.
Walk(last) ==
  [p \in Point |-> LET n == Value(p[1]) IN StateOf(IF n < 3 THEN n + 1 ELSE last)]

\* Three outputs that each differ in no more than two states: differences can
\* be deeper than max_k.
Walks ==
  LET upTo(n) == {{p \in Point : p[1] \in T} : T \in {U \in SUBSET State : Cardinality(U) <= n}}
  IN  {ProblemOf(Walk(3), d, m) : d \in [Outputs -> upTo(2)], m \in DualRailModes}
        \cup {ProblemOf(Walk(0), d, m) : d \in [Outputs -> upTo(1)], m \in DualRailModes}

\* Machines that leave state 0 on input 1 only, and two outputs that differ at
\* no more than two points of the states 0 and 1.
Steered ==
  LET low == {p \in Point : ~ p[1][a]}
      few == {D \in SUBSET low : Cardinality(D) <= 2}
      machines == {[p \in Point |-> IF p \in low THEN StateOf(f[p]) ELSE p[1]] :
                     f \in {g \in [low -> 0..1] : g[<<Zero, 0>>] = 0}}
      differences == {[o \in Outputs |-> IF o <= 2 THEN d[o] ELSE {}] : d \in [1..2 -> few]}
  IN  {ProblemOf(f, d, m) :
         f \in machines, d \in differences, m \in {<<TRUE, "small", TRUE>>} \cup BinaryModes}

CheckedProblems == Walks \cup Steered
=============================================================================
