--------------------------- MODULE ProductMachine ---------------------------
(***************************************************************************)
(* What the proof engines reason about: the product of the two designs as  *)
(* a transition system, cubes of state literals and clause sets.  A clause *)
(* is represented by the cube it blocks: clauseFromCube and                *)
(* cubeFromClauseNegation are inverse to each other.                       *)
(***************************************************************************)
EXTENDS Integers, FiniteSets

CONSTANTS
  Symbols,   \* state symbols of the product of the two designs
  Inputs     \* valuations of the free inputs once reset is deasserted

ASSUME SymbolsFinite == IsFiniteSet(Symbols)

State == [Symbols -> BOOLEAN]

\* An assignment to every symbol of one time frame.
Point == State \X Inputs

\* A StateCube: a conjunction of state literals, at most one per symbol.
Cubes == {c \in SUBSET (Symbols \X BOOLEAN) :
            \A l, m \in c : l[1] = m[1] => l = m}

\* The cube that names exactly one state.
Literals(s) == {<<v, s[v]>> : v \in Symbols}

\* The cube holds in the state.
In(s, c) == \A l \in c : s[l[1]] = l[2]

\* The state satisfies every clause, that is, lies in none of the cubes.
Allows(frame, s) == \A c \in frame : ~ In(s, c)

(***************************************************************************)
(* F[0] = I: the states after the reset prefix, and on the observation     *)
(* frontier of the binary encoding only with inputs that satisfy the       *)
(* property.                                                               *)
(***************************************************************************)
InitPoints(p) ==
  {x \in Point : x[1] \in p.init /\ (p.frontier => x \notin p.bad)}

\* The states one step after S.
Successors(p, S) == {p.next[x] : x \in S \X Inputs}

\* The states after exactly j steps from the initial states.
AfterSteps(p) ==
  LET at[j \in Nat] == IF j = 0 THEN p.init ELSE Successors(p, at[j - 1])
  IN  at

\* A state set every initial point leads into and no step leaves.
Closed(p, I) ==
  /\ \A x \in InitPoints(p) : p.next[x] \in I
  /\ \A s \in I, i \in Inputs : p.next[<<s, i>>] \in I

(***************************************************************************)
(* The property holds on every reachable point, stated without recursion:  *)
(* the reachable successor states are the intersection of all closed sets. *)
(***************************************************************************)
Holds(p) ==
  /\ InitPoints(p) \cap p.bad = {}
  /\ \E I \in SUBSET State :
        /\ Closed(p, I)
        /\ \A s \in I, i \in Inputs : <<s, i>> \notin p.bad

\* ReusableInvariantFinder's guarantee: Init => H and H /\ T => H'.
Certified(p, H) ==
  /\ \A x \in InitPoints(p) : Allows(H, x[1])
  /\ \A x \in Point : Allows(H, x[1]) => Allows(H, p.next[x])

-----------------------------------------------------------------------------
(* Clause sets *)

\* Some clause of the frame subsumes the clause that blocks c.
Subsumed(frame, c) == \E d \in frame : d \subseteq c

AddClause(frame, c) ==
  IF Subsumed(frame, c) THEN frame
                        ELSE {d \in frame : ~ (c \subseteq d)} \cup {c}
=============================================================================
