--------------------------- MODULE MCLogicClouds ---------------------------
(***************************************************************************)
(* Instances of the combinational flow, in three parts that share no       *)
(* state; a behaviour exercises one of them.                               *)
(*                                                                         *)
(* "clouds": LogicClouds, two workers.  A gate is p /\ ~q of its two       *)
(* inputs, so that the order of the inputs matters.                        *)
(*                                                                         *)
(* "miter": LecMiter, pairs of designs with up to three inputs and two     *)
(* outputs, and pairs of scopes.                                           *)
(*                                                                         *)
(* "scopes": ScopeExtraction, hierarchies whose top has one or two cells   *)
(* over child M, in three shapes, and child N, which no edit changes.      *)
(***************************************************************************)
EXTENDS LogicClouds

MCNets == {"a", "b", "k", "x", "m", "g1", "g2", "g3", "g4"}

Rows(kind) ==
    CASE kind = "assign" -> {{1}}
      [] kind \in {"gate", "mismatch", "opaque"} -> {{1}}
      [] OTHER -> {}

\* A design from the kinds and reads of its gates; a and b are inputs.
Design(kinds, reads, outputs) ==
    LET kind == kinds @@ ("a" :> "pi") @@ ("b" :> "pi") @@ [n \in MCNets |-> "none"]
    IN [kind |-> kind,
        reads |-> reads @@ [n \in MCNets |-> <<>>],
        rows |-> [n \in MCNets |-> Rows(kind[n])],
        stops |-> \E n \in DOMAIN kinds : kinds[n] = "opaque",
        outputs |-> outputs]

Gates(S) == [g \in S |-> "gate"]

\* Designs in which two merges of one level close a loop together.
CrossCoupled(r) ==
    \E t, p, q \in DOMAIN r :
        /\ t \notin {p, q} /\ p # q
        /\ {p, q} \subseteq Range(r[t])
        /\ q \in Range(r[p]) /\ p \in Range(r[q])

\* Designs of three gates, with an input, a net without a value and a cell of
\* the wrong arity.
Operands == {<<"a", "g3">>, <<"g3", "x">>, <<"g1", "a">>, <<"a", "m">>}
ThreeGates ==
    {Design(("x" :> "constX") @@ ("m" :> "mismatch") @@ Gates({"g1", "g2", "g3"}),
            ("m" :> <<"a">>) @@ w, <<"g3", "g1", "g2", "g1">>) :
       w \in {v \in {("g1" :> <<"g2", "g3">>) @@ ("g2" :> r) @@ ("g3" :> s) :
                       r, s \in Operands \cup {<<"g2", "a">>}} : ~CrossCoupled(v)}}

\* Designs whose outputs share cones, for several workers.
Shared == {
    \* one cone inside the other, and a shared gate
    Design(Gates({"g1", "g2", "g3"}),
           ("g1" :> <<"g2", "g3">>) @@ ("g2" :> <<"g3", "a">>) @@ ("g3" :> <<"a", "b">>),
           <<"g1", "g2", "g3", "g1">>),
    \* constants and constant cells end a cone
    Design(("k" :> "const0") @@ ("m" :> "tie1") @@ Gates({"g1", "g2", "g3"}),
           ("g1" :> <<"g3", "k">>) @@ ("g2" :> <<"m", "g3">>) @@ ("g3" :> <<"k", "a">>),
           <<"g1", "g2", "k", "m">>),
    \* a loop seen through the second parent of a reconvergent gate
    Design(Gates({"g1", "g2", "g3", "g4"}),
           ("g1" :> <<"g2", "g3">>) @@ ("g2" :> <<"g4", "a">>) @@ ("g3" :> <<"g4", "b">>)
               @@ ("g4" :> <<"g3", "a">>),
           <<"g1", "g4", "g1">>),
    \* a loop through assigns, next to a clean gate
    Design(("k" :> "assign") @@ ("m" :> "assign") @@ Gates({"g1", "g2", "g3"}),
           ("g1" :> <<"g2", "k">>) @@ ("g2" :> <<"a", "b">>) @@ ("k" :> <<"m">>) @@ ("m" :> <<"g1">>)
               @@ ("g3" :> <<"g2", "g1">>),
           <<"g1", "g3", "g2">>),
    \* assigns in a ring of their own
    Design(("k" :> "assign") @@ ("m" :> "assign") @@ Gates({"g1", "g2"}),
           ("g1" :> <<"k", "a">>) @@ ("k" :> <<"m">>) @@ ("m" :> <<"k">>) @@ ("g2" :> <<"a", "g1">>),
           <<"g1", "g2">>),
    \* nets no cone can cross
    Design(("k" :> "multi") @@ ("m" :> "frontier") @@ Gates({"g1", "g2", "g3"}),
           ("g1" :> <<"g3", "k">>) @@ ("g2" :> <<"g3", "m">>) @@ ("g3" :> <<"a", "b">>),
           <<"g1", "g2", "g3", "k", "x">>),
    \* cells without a usable model
    Design(("k" :> "opaque") @@ ("m" :> "mismatch") @@ Gates({"g1", "g2", "g3"}),
           ("g1" :> <<"g3", "k">>) @@ ("g2" :> <<"g3", "m">>) @@ ("g3" :> <<"a", "x">>)
               @@ ("k" :> <<"a">>) @@ ("m" :> <<"a">>),
           <<"g1", "g2", "k">>)}

MCNetlists == Shared \cup ThreeGates

-----------------------------------------------------------------------------
(* The jobs of a LEC run.                                                   *)

ReadPin(p) == [valid |-> TRUE, reads |-> {p}, on |-> {{p}}]
ReadNot(p) == [valid |-> TRUE, reads |-> {p}, on |-> {{}}]
ReadAnd(p, q) == [valid |-> TRUE, reads |-> {p, q}, on |-> {{p, q}}]
(* Its support is larger than what it depends on. *)
ReadTwice(p, q) == [valid |-> TRUE, reads |-> {p, q}, on |-> {{p}, {p, q}}]
ReadNothing == [valid |-> TRUE, reads |-> {}, on |-> {{}}]
NoExpression == [valid |-> FALSE, reads |-> {}, on |-> {}]

FunctionsOf(S) ==
    {ReadNothing, NoExpression} \cup {ReadPin(p) : p \in S} \cup {ReadNot(p) : p \in S}
      \cup UNION {{ReadAnd(p, q), ReadTwice(p, q)} : <<p, q>> \in {pq \in S \X S : pq[1] < pq[2]}}

Circuit(i, b, o) == [inputs |-> i, boundary |-> b, outputs |-> o]
Job(m, a, s) == [mode |-> m, allow |-> a, scopes |-> s]
JobPair(a, b) == [s \in {0, 1} |-> IF s = 0 THEN a ELSE b]

Modes == {"plain", "compact", "snapshots"}

(* One output; every input belongs to the boundary but 3, an opaque cell's. *)
OneOutputDesigns(interfaces) ==
    UNION {{Circuit(i, ToSet(i) \ {3}, 1 :> f) : f \in FunctionsOf(ToSet(i))} : i \in interfaces}
OneOutputJobs ==
    {Job(m, a, <<JobPair(x, y)>>) : m \in Modes, a \in BOOLEAN,
        x \in OneOutputDesigns({<<1, 2>>, <<3, 1>>}),
        y \in OneOutputDesigns({<<1>>, <<2, 3>>})}

(* Two one-sided inputs on both sides. *)
UnmatchedJobs ==
    {Job(m, TRUE, <<JobPair(x, y)>>) : m \in Modes,
        x \in OneOutputDesigns({<<1, 2, 3>>}),
        y \in OneOutputDesigns({<<5, 1, 4>>})}

(* Two outputs, of which each design may lack one. *)
Palette == {ReadNothing, NoExpression, ReadPin(1), ReadNot(2), ReadAnd(1, 2)}
TwoOutputs == UNION {[D -> Palette] : D \in {{1, 2}, {2, 3}}}
TwoOutputJobs ==
    {Job(m, FALSE, <<JobPair(Circuit(<<2, 1>>, {1, 2}, f), Circuit(<<1, 2>>, {1, 2}, g))>>) :
        m \in Modes, f \in TwoOutputs, g \in TwoOutputs}

(* Two scopes. *)
ScopePalette == {ReadPin(1), ReadNot(1), NoExpression}
ScopePairs ==
    {JobPair(Circuit(<<1>>, {1}, 1 :> f), Circuit(i, ToSet(i), 1 :> g)) :
        f \in ScopePalette, g \in ScopePalette, i \in {<<1>>, <<2, 1>>}}
ScopeJobs == {Job("plain", a, <<x, y>>) : a \in BOOLEAN, x \in ScopePairs, y \in ScopePairs}

MCJobs == OneOutputJobs \cup UnmatchedJobs \cup TwoOutputJobs \cup ScopeJobs

-----------------------------------------------------------------------------
(* The first designs of the scope extraction.                               *)

Body(cells, from, out) == [cells |-> cells, from |-> from, out |-> out]

\* One inverter; a chain of two; an inverter beside an unused buffer.
ShapesOfM ==
  {Body(<<"inv">>, <<0>>, 1), Body(<<"buf", "inv">>, <<0, 1>>, 2),
   Body(<<"inv", "buf">>, <<0, 0>>, 1)}

ShapeOfN == Body(<<"buf">>, <<0>>, 1)

Tops ==
  {Body(<<"M">>, <<0>>, 1)}
    \cup {Body(<<a, b>>, <<0, s>>, out) :
            a \in {"inv", "M"}, b \in {"M", "N"}, s \in {0, 1}, out \in {0, 2}}

FirstDesigns ==
  {[m \in {"T", "M", "N"} |-> CASE m = "T" -> t [] m = "M" -> c [] OTHER -> ShapeOfN] :
     t \in Tops, c \in ShapesOfM}

-----------------------------------------------------------------------------
VARIABLES part,
          lec, at, stage, inputs, outputs, lastCommon, variables, po, failed, allSame, verdict, exit,
          phase, design, edits, cleanScopes, stack, designsToVerify, side, removed, unchecked, result

lecVars == <<lec, at, stage, inputs, outputs, lastCommon, variables, po, failed, allSame, verdict, exit>>
scopeVars == <<phase, design, edits, cleanScopes, stack, designsToVerify, side, removed,
               unchecked, result>>

Miter == INSTANCE LecMiter WITH Jobs <- MCJobs, job <- lec, POs <- variables, status <- verdict

Scopes == INSTANCE ScopeExtraction WITH MaxCells <- 2, MaxEdits <- 2

ASSUME Miter!JobsAreWellFormed
ASSUME Scopes!FirstDesignsTyped

SomeNetlist == CHOOSE d \in Shared : TRUE
SomeJob == CHOOSE j \in ScopeJobs : TRUE
SomeDesign == CHOOSE d \in FirstDesigns : TRUE
SomeRun == lec = SomeJob /\ Miter!Init
SomeExtraction == design = <<SomeDesign, SomeDesign>> /\ cleanScopes = FALSE /\ Scopes!Init
FirstSplit == CHOOSE s \in Splits(Representatives) : TRUE
SomeBuild == netlist = SomeNetlist /\ chunk = FirstSplit /\ Init

MCInit ==
  \/ part = "clouds" /\ SomeRun /\ SomeExtraction /\ Init
  \/ part = "miter" /\ SomeBuild /\ SomeExtraction /\ Miter!Init
  \/ part = "scopes" /\ SomeBuild /\ SomeRun /\ Scopes!Init

RunClouds == part = "clouds" /\ Next /\ UNCHANGED <<part, lecVars, scopeVars>>
RunMiter == part = "miter" /\ Miter!Next /\ UNCHANGED <<part, vars, scopeVars>>
RunScopes == part = "scopes" /\ Scopes!Next /\ UNCHANGED <<part, vars, lecVars>>

MCSpec == MCInit /\ [][RunClouds \/ RunMiter \/ RunScopes]_<<part, vars, lecVars, scopeVars>>

\* EQUIVALENT of a LEC run (MiterStrategy::run): no output that both designs
\* have, with an expression in both, differs in any scope.
MiterVerdictsAreRight == part = "miter" => Miter!VerdictsAreRight

\* As long as identifiers keep their cells, a run that compares only the
\* collected scopes (collectVerificationScopes) says "equivalent" only of
\* equivalent designs.
ScopesDecide == part = "scopes" => Scopes!ScopesDecide
=============================================================================
