---------------------------- MODULE ExprRewrites ----------------------------
(***************************************************************************)
(* An expression built through the factories of BoolExpr and then rewritten *)
(* by simplify and normalizeArithmetic in any order, as the SEC code does   *)
(* each time it joins formulas.                                             *)
(***************************************************************************)
EXTENDS ExprTrees

CONSTANT Inputs     \* the expressions to rewrite, built with the factories

VARIABLES
    built,      \* the expression as the factories returned it
    expr,       \* what the rewriting has made of it
    last        \* the rewriting applied last

vars == <<built, expr, last>>

Init == built \in Inputs /\ expr = built /\ last = "factory"

SimplifyStep == expr' = Simplify(expr) /\ last' = "simplify" /\ UNCHANGED built

NormalizeStep == expr' = NormalizeArithmetic(expr) /\ last' = "normalize" /\ UNCHANGED built

Next == SimplifyStep \/ NormalizeStep

Spec == Init /\ [][Next]_vars

-----------------------------------------------------------------------------
(* Properties.                                                             *)

\* Rewriting never changes the Boolean function an expression denotes, whatever
\* the structural hashes: in particular, a disjunction is taken for the sum or
\* the carry of a full adder only if it is one.
MeaningKept == SameFunction(expr, built)

=============================================================================
