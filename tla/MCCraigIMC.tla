------------------------------ MODULE MCCraigIMC -----------------------------
(***************************************************************************)
(* Instances of the large dual-rail search: two state symbols and one      *)
(* binary input.                                                           *)
(***************************************************************************)
EXTENDS CraigIMC

CONSTANTS a, b

\* Next-state and output functions: the symbols they depend on and their value.
Fn == [const |-> {}, x |-> {}, a |-> {a}, b |-> {b}, na |-> {a}, orx |-> {a},
       andx |-> {b}, and |-> {a, b}, or |-> {a, b}, nor |-> {a, b}, aNotb |-> {a, b}, never |-> {}]
Eval(f, s, x) ==
  CASE f = "const" -> TRUE [] f = "never" -> FALSE [] f = "x" -> x = 1
    [] f = "a" -> s[a] [] f = "b" -> s[b] [] f = "na" -> ~s[a]
    [] f = "orx" -> s[a] \/ x = 1 [] f = "andx" -> s[b] /\ x = 1
    [] f = "and" -> s[a] /\ s[b] [] f = "or" -> s[a] \/ s[b]
    [] f = "nor" -> ~(s[a] \/ s[b])
    [] f = "aNotb" -> s[a] /\ ~s[b]

\* fa, fb: next-state functions; d: the difference of every output.
ProblemOf(fa, fb, d, known, equal, focused, wide) ==
  [known |-> known, equal |-> equal, focused |-> focused, layers |-> 0, wide |-> wide,
   next |-> [p \in Point |-> [v \in Symbols |->
               Eval(IF v = a THEN fa ELSE fb, p[1], p[2])]],
   support |-> [v \in Symbols |-> Fn[IF v = a THEN fa ELSE fb]],
   differ |-> [o \in Outputs |-> {p \in Point : Eval(d[o], p[1], p[2])}],
   sees |-> [o \in Outputs |-> Fn[d[o]]]]

Zero == [v \in Symbols |-> FALSE]
FreeB == [Zero EXCEPT ![b] = None]

\* a then b: the walk 00, 10, 01, 01, ... on which Q grows region by region.
Walks ==
  {ProblemOf("nor", "or", d, k, {}, f, {}) :
     d \in {<<"and", "never">>, <<"b", "and">>}, k \in {FreeB}, f \in BOOLEAN}

\* Feedback through an input, differences inside and outside the reachable
\* states.
Loops ==
  {ProblemOf(fa, fb, d, Zero, {}, f, {}) :
     fa \in {"b", "orx"}, fb \in {"a", "na", "andx"},
     d \in {<<"and", "a">>, <<"aNotb", "or">>}, f \in BOOLEAN}

\* Two symbols that are equal, by construction or by a fact to be mined.
Twins ==
  {ProblemOf("x", "x", <<"aNotb", d>>, k, e, FALSE, {}) :
     d \in {"never", "b"}, k \in {Zero, FreeB}, e \in {{}, {<<a, b>>}}}

\* Outputs the probes leave out, among them outputs without state support.
Wide ==
  {ProblemOf("b", "never", d, k, {}, FALSE, {1, 2}) :
     d \in {<<"never", "na">>, <<"b", "never">>, <<"never", "b">>}, k \in {Zero, FreeB}}

SmallProblems == Walks \cup Loops \cup Twins \cup Wide
=============================================================================
