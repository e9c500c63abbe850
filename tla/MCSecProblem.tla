---------------------------- MODULE MCSecProblem ----------------------------
(***************************************************************************)
(* Instances of the SEC problem, of the rewriting of its expressions and   *)
(* of the store of their nodes, in three parts that share no state; a      *)
(* behaviour exercises one of them.                                        *)
(*                                                                         *)
(* "problem": SecProblem, pairs of small designs over one input.  The two  *)
(* number their variables differently, so that a tree of one is often a    *)
(* tree of the other.                                                      *)
(*                                                                         *)
(* "rewrites": ExprRewrites, disjunctions of conjunctions over three       *)
(* atoms, the shape truth tables are imported in, over plain variables and *)
(* over compound atoms.                                                    *)
(*                                                                         *)
(* "store": ExprStore, two workers over one variable.                      *)
(***************************************************************************)
EXTENDS SecProblem

CONSTANTS w1, w2

\* Design 0: state q = 2, input i = 3, complement n = 4, unpublished u = 5.
\* Design 1: input i = 2, state q = 3, state r = 4.
Two(a, b) == {a, And(a, Not(b)), Or(Not(a), b), Xor(a, b)}

Design0(next, out, withComplement, init) ==
  [states |-> IF withComplement THEN <<"q", "n">> ELSE <<"q">>,
   inputs |-> <<"i">>,
   var |-> [q |-> 2, i |-> 3, n |-> 4, u |-> 5],
   next |-> [q |-> next, n |-> Not(next)],
   out |-> <<out>>,
   init |-> IF init THEN IF withComplement THEN [q |-> TRUE, n |-> FALSE] ELSE [q |-> TRUE]
            ELSE << >>,
   complements |-> IF withComplement THEN {<<"q", "n">>} ELSE {}]

Design1(nextQ, nextR, out, withR, init) ==
  [states |-> IF withR THEN <<"q", "r">> ELSE <<"q">>, inputs |-> <<"i">>,
   var |-> [i |-> 2, q |-> 3, r |-> 4],
   next |-> [q |-> nextQ, r |-> nextR], out |-> <<out>>,
   init |-> IF init THEN [q |-> TRUE] ELSE << >>, complements |-> {}]

MakePair(d0, d1) == [d \in {0, 1} |-> IF d = 0 THEN d0 ELSE d1]

\* One state in each design; a next-state function that reads the complement
\* or the second state needs it.
OneEach ==
  {MakePair(Design0(n0, Xor(Var(2), Var(3)), FALSE, init), Design1(n1, Var(2), Var(3), FALSE, init)) :
     n0 \in Two(Var(2), Var(3)), init \in BOOLEAN,
     n1 \in {Xor(Var(2), Var(3)), And(Var(2), Not(Var(3)))}}

Complemented ==
  {MakePair(Design0(And(Var(4), Var(3)), Or(Var(2), Var(4)), TRUE, init),
            Design1(And(Var(2), Var(3)), Var(2), Var(3), FALSE, FALSE)) : init \in BOOLEAN}

TwoStates ==
  {MakePair(Design0(And(Var(2), Var(3)), Var(2), FALSE, TRUE),
            Design1(Xor(Var(3), Var(4)), And(Var(2), Var(3)), Or(Var(3), Var(4)), TRUE, FALSE))}

\* A next-state function of an unpublished variable is refused.
Refusable ==
  {MakePair(Design0(Xor(Var(2), Var(5)), Var(2), FALSE, FALSE),
            Design1(Var(2), Var(3), Var(3), FALSE, FALSE))}

\* A state that is tied high.
Tied ==
  {MakePair(Design0(True, Var(2), FALSE, FALSE),
            Design1(Var(2), Var(3), Var(3), FALSE, FALSE))}

CheckedPairs == OneEach \cup Tied \cup Complemented \cup TwoStates \cup Refusable

ProblemVars == 2..11
-----------------------------------------------------------------------------
(* The expressions to rewrite.                                              *)

Literal(atom, sign) == IF sign = "pos" THEN atom ELSE Not(atom)

\* The conjunction a mask stands for.
Term(mask, atoms) ==
  FoldLeft(LAMBDA e, k : IF mask[k] = "no" THEN e ELSE And(e, Literal(atoms[k], mask[k])),
           True, <<1, 2, 3>>)

Dnf(masks, atoms) == FoldLeft(LAMBDA e, m : Or(e, Term(m, atoms)), False, SetToSeq(masks))

\* Terms that read all atoms, or two of them positively, or one negatively.
Minterms == [1..3 -> {"pos", "neg"}]
TermMasks ==
  Minterms \cup {<<"pos", "pos", "no">>, <<"pos", "no", "pos">>, <<"no", "pos", "pos">>, <<"neg", "no", "no">>}

X == Var(2)
Y == Var(3)
Z == Var(4)

\* The minimised carry, as the stage before delivers it.
Carry == Or(Or(And(X, Y), And(X, Z)), And(Y, Z))

RewriteInputs ==
  {Dnf(masks, <<X, Y, Z>>) : masks \in kSubset(3, TermMasks)}
  \cup {Dnf(masks, <<Carry, X, Z>>) : masks \in kSubset(4, Minterms)}

SomeInput == CHOOSE e \in RewriteInputs : TRUE

-----------------------------------------------------------------------------
(* Addresses not in the order of the identifiers; free addresses lie below, *)
(* between and above.                                                       *)

Layout == [id \in 0..2 |-> CASE id = 0 -> 6 [] id = 1 -> 2 [] id = 2 -> 5]

-----------------------------------------------------------------------------
VARIABLES part, built, expr, last, heap, table, returned, worker, outer, factoryCalls

rewriteVars == <<built, expr, last>>
storeVars == <<heap, table, returned, worker, outer, factoryCalls>>

Rewrites == INSTANCE ExprRewrites WITH Vars <- 2..4, Inputs <- RewriteInputs

SomePair == CHOOSE p \in CheckedPairs : TRUE

Store == INSTANCE ExprStore WITH
  HashModulus <- 2, Vars <- {2}, Addresses <- 1..6, Layouts <- {Layout}, Workers <- {w1, w2},
  Ops <- {"VAR", "NOT", "AND", "OR", "XOR"}, MaxCalls <- 3, calls <- factoryCalls

ASSUME Store!AddressAssumption /\ Store!LayoutAssumption

SomeProblem == pair = SomePair /\ encoding = "binary" /\ lazy = FALSE /\ Init
SomeRewrite == built = SomeInput /\ Rewrites!Init

MCInit ==
  \/ part = "problem" /\ SomeRewrite /\ Store!Init /\ Init
  \/ part = "rewrites" /\ SomeProblem /\ Store!Init /\ Rewrites!Init
  \/ part = "store" /\ SomeProblem /\ SomeRewrite /\ Store!Init

RunProblem == part = "problem" /\ Next /\ UNCHANGED <<part, rewriteVars, storeVars>>
RunRewrites == part = "rewrites" /\ Rewrites!Next /\ UNCHANGED <<part, vars, storeVars>>
RunStore == part = "store" /\ Store!Next /\ UNCHANGED <<part, vars, rewriteVars>>

MCSpec ==
  MCInit /\ [][RunProblem \/ RunRewrites \/ RunStore]_<<part, vars, rewriteVars, storeVars>>

\* Rewriting never changes the Boolean function an expression denotes: a
\* disjunction is taken for the sum or the carry of a full adder (simplify,
\* normalizeArithmetic) only if it is one.
MeaningKept == part = "rewrites" => Rewrites!MeaningKept

\* Equal expressions have one address, whatever the interleaving of the
\* workers that intern them (BoolExprCache).
StoreIsRight == part = "store" => Store!StoreIsRight
=============================================================================
