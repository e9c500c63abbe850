----------------------------- MODULE ExprTrees -----------------------------
(***************************************************************************)
(* The Boolean expressions every part of Kepler-Formal exchanges           *)
(* (src/formal/BoolExpr.cpp), as the values they denote: an interned node  *)
(* is the tree below it, so the code's pointer comparisons are equalities  *)
(* of trees.  That interning makes this reading right, for several worker  *)
(* threads at once, is what module ExprStore checks.                       *)
(*                                                                         *)
(* The factories fold constants and order the operands of a commutative    *)
(* operator; simplify and normalizeArithmetic rebuild an expression bottom *)
(* up through the factories.                                               *)
(***************************************************************************)
EXTENDS Integers, Sequences, FiniteSets, SequencesExt

CONSTANTS
    HashModulus,    \* number of structural hashes: 1 makes all of them collide
    Vars            \* identifiers of the variables (0 and 1 are the constants)

ASSUME HashModulusAssumption == HashModulus \in Nat \ {0}
ASSUME VarsAssumption == Vars \subseteq Nat \ {0, 1}

-----------------------------------------------------------------------------
(* Nodes: <<"VAR", id>>, <<"NOT", e>> and <<op, left, right>>.              *)

OpOf(e) == e[1]
IdOf(e) == IF OpOf(e) = "VAR" THEN e[2] ELSE 0
Child(e, i) == e[i + 1]
Children(e) == IF OpOf(e) = "VAR" THEN <<>> ELSE Tail(e)

\* The order of enum class Op.
OpCode == [VAR |-> 0, AND |-> 1, OR |-> 2, NOT |-> 3, XOR |-> 4]

\* One step of the structural hash of BoolExpr's constructor, scaled to
\* HashModulus values: it reads the operator, the identifier and the hashes
\* of the children, never an address.
MixHash(op, id, hashes) ==
    FoldLeft(LAMBDA seed, h : (3 * seed + h + 1) % HashModulus,
             (5 * OpCode[op] + 2 * id) % HashModulus, hashes)

RECURSIVE Hash(_)
Hash(e) == MixHash(OpOf(e), IdOf(e), [i \in DOMAIN Children(e) |-> Hash(Child(e, i))])

\* operator<: hash, operator, identifier, then the children.
RECURSIVE Less(_, _)
Less(a, b) ==
    /\ a # b
    /\ \/ Hash(a) < Hash(b)
       \/ /\ Hash(a) = Hash(b)
          /\ \/ OpCode[OpOf(a)] < OpCode[OpOf(b)]
             \/ /\ OpOf(a) = OpOf(b)
                /\ \/ IdOf(a) < IdOf(b)
                   \/ /\ IdOf(a) = IdOf(b)
                      /\ LET first == CHOOSE i \in DOMAIN Children(a) :
                                        /\ Child(a, i) # Child(b, i)
                                        /\ \A j \in 1..(i - 1) : Child(a, j) = Child(b, j)
                         IN Less(Child(a, first), Child(b, first))

-----------------------------------------------------------------------------
(* The factories.                                                          *)

False == <<"VAR", 0>>
True == <<"VAR", 1>>
IsConst(e) == e \in {False, True}

Var(id) == <<"VAR", id>>

\* A node with two operands keeps the smaller one left.
Node(op, a, b) == IF Less(a, b) THEN <<op, a, b>> ELSE <<op, b, a>>

Not(a) ==
    CASE IsConst(a) -> Var(1 - IdOf(a))
      [] OpOf(a) = "NOT" -> Child(a, 1)
      [] OTHER -> <<"NOT", a>>

Opposite(a, b) ==
    \/ OpOf(a) = "NOT" /\ Child(a, 1) = b
    \/ OpOf(b) = "NOT" /\ Child(b, 1) = a

And(a, b) ==
    CASE False \in {a, b} -> False
      [] a = True -> b
      [] b = True -> a
      [] a = b -> a
      [] Opposite(a, b) -> False
      [] OTHER -> Node("AND", a, b)

Or(a, b) ==
    CASE True \in {a, b} -> True
      [] a = False -> b
      [] b = False -> a
      [] a = b -> a
      [] Opposite(a, b) -> True
      [] OTHER -> Node("OR", a, b)

Xor(a, b) ==
    CASE a = False -> b
      [] b = False -> a
      [] a = True -> Not(b)
      [] b = True -> Not(a)
      [] a = b -> False
      [] OTHER -> Node("XOR", a, b)

\* The factory an operator's node is rebuilt with.
Rebuild(op, args) ==
    CASE op = "NOT" -> Not(args[1])
      [] op = "AND" -> And(args[1], args[2])
      [] op = "OR"  -> Or(args[1], args[2])
      [] op = "XOR" -> Xor(args[1], args[2])

-----------------------------------------------------------------------------
(* Meaning.                                                                *)

\* BoolExpr::evaluate, env giving the variables their values.
RECURSIVE Evaluate(_, _)
Evaluate(e, env) ==
    CASE e = False -> FALSE
      [] e = True -> TRUE
      [] OpOf(e) = "VAR" -> env[IdOf(e)]
      [] OpOf(e) = "NOT" -> ~Evaluate(Child(e, 1), env)
      [] OpOf(e) = "AND" -> Evaluate(Child(e, 1), env) /\ Evaluate(Child(e, 2), env)
      [] OpOf(e) = "OR" -> Evaluate(Child(e, 1), env) \/ Evaluate(Child(e, 2), env)
      [] OpOf(e) = "XOR" -> Evaluate(Child(e, 1), env) # Evaluate(Child(e, 2), env)

Envs == [Vars -> BOOLEAN]
SameFunction(a, b) == \A env \in Envs : Evaluate(a, env) = Evaluate(b, env)

-----------------------------------------------------------------------------
(* BoolExpr::simplify: every node rebuilt over its simplified children.  Its *)
(* own folds repeat the factories', so rebuilding is the factory.            *)

RECURSIVE Simplify(_)
Simplify(e) ==
    IF OpOf(e) = "VAR" THEN e
    ELSE Rebuild(OpOf(e), [i \in DOMAIN Children(e) |-> Simplify(Child(e, i))])

-----------------------------------------------------------------------------
(* BoolExpr::normalizeArithmetic.                                          *)

RECURSIVE OrTerms(_)
OrTerms(e) ==
    IF OpOf(e) = "OR" THEN OrTerms(Child(e, 1)) \o OrTerms(Child(e, 2)) ELSE <<e>>

RECURSIVE AndLiterals(_)
AndLiterals(e) ==
    CASE OpOf(e) = "AND" -> AndLiterals(Child(e, 1)) \o AndLiterals(Child(e, 2))
      [] OpOf(e) = "NOT" -> <<[atom |-> Child(e, 1), positive |-> FALSE]>>
      [] OTHER -> <<[atom |-> e, positive |-> TRUE]>>

AtomsOf(lits) == {lits[i].atom : i \in DOMAIN lits}

\* A term is maskable when no atom occurs in it twice.
HasMask(lits) == Cardinality(AtomsOf(lits)) = Len(lits)

\* The masks of a term over the three sorted atoms: which it reads, and which
\* of those it reads positively.
Mask(lits, atoms) ==
    [seen |-> {k \in 1..3 : atoms[k] \in AtomsOf(lits)},
     positive |-> {k \in 1..3 : \E i \in DOMAIN lits :
                                    lits[i] = [atom |-> atoms[k], positive |-> TRUE]}]

Minterm(positive) == [seen |-> 1..3, positive |-> positive]
SumMasks == {Minterm({1}), Minterm({2}), Minterm({3}), Minterm({1, 2, 3})}
CarryMinterms == {Minterm({1, 2}), Minterm({1, 3}), Minterm({2, 3}), Minterm({1, 2, 3})}
CarryPairs == {[seen |-> s, positive |-> s] : s \in {{1, 2}, {1, 3}, {2, 3}}}

\* Variant: repeated masks not counted, missing ones not noticed.
MasksIncluded(masks, expected) == ToSet(masks) \subseteq expected

\* The sorted mask lists are equal: as many masks as expected, and the same
\* ones.
MasksMatch(masks, expected) == Len(masks) = Cardinality(expected) /\ ToSet(masks) = expected

RewriteArithmeticPattern(e) ==
    LET terms == OrTerms(e)
        lits == [i \in DOMAIN terms |-> AndLiterals(terms[i])]
        unique == UNION {AtomsOf(lits[i]) : i \in DOMAIN lits}
    IN  IF \/ Len(terms) \notin {3, 4}
           \/ \E i \in DOMAIN lits : Len(lits[i]) > 3
           \/ Cardinality(unique) # 3
           \/ \E i \in DOMAIN lits : ~HasMask(lits[i])
        THEN e
        ELSE LET atoms == SetToSortSeq(unique, Less)
                 masks == [i \in DOMAIN lits |-> Mask(lits[i], atoms)]
                 propagate == Xor(atoms[1], atoms[2])
             IN  CASE MasksMatch(masks, SumMasks) -> Xor(propagate, atoms[3])
                   [] MasksMatch(masks, CarryMinterms) \/ MasksMatch(masks, CarryPairs) ->
                        Or(And(atoms[1], atoms[2]), And(atoms[3], propagate))
                   [] OTHER -> e

\* Variant: a recognised pattern is not normalised inside.
RECURSIVE NormalizeOuterFirst(_)
NormalizeOuterFirst(e) ==
    IF OpOf(e) = "VAR" THEN e
    ELSE IF OpOf(e) = "OR" /\ RewriteArithmeticPattern(e) # e
    THEN RewriteArithmeticPattern(e)
    ELSE Rebuild(OpOf(e), [i \in DOMAIN Children(e) |-> NormalizeOuterFirst(Child(e, i))])

RECURSIVE NormalizeArithmetic(_)
NormalizeArithmetic(e) ==
    IF OpOf(e) = "VAR" THEN e
    ELSE LET built == Rebuild(OpOf(e), [i \in DOMAIN Children(e) |->
                                             NormalizeArithmetic(Child(e, i))])
         IN IF OpOf(e) = "OR" THEN RewriteArithmeticPattern(built) ELSE built
=============================================================================
