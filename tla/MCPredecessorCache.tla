------------------------ MODULE MCPredecessorCache -------------------------
(***************************************************************************)
(* Three symbols in a shift register that starts at zero.  The cube x = 1  *)
(* has a predecessor until the clause over y is learned, so answers change *)
(* within a batch.  The second batch is a nested strict proof: it has      *)
(* another property and family and reuses the guarded solver of the first  *)
(* until the limit on contexts is met.                                     *)
(***************************************************************************)
EXTENDS PredecessorCache

MCSymbols == {"x", "y", "z"}
MCStart == {[a \in MCSymbols |-> FALSE]}
MCNextValue ==
  [a \in MCSymbols |-> [s \in [MCSymbols -> BOOLEAN] |->
     CASE a = "x" -> s["y"] [] a = "y" -> s["z"] [] a = "z" -> s["z"]]]
MCSupport == [a \in MCSymbols |-> CASE a = "x" -> {"y"} [] a = "y" -> {"z"} [] a = "z" -> {"z"}]

One(a) == [b \in {a} |-> TRUE]
Two(a, c) == [b \in {a, c} |-> TRUE]

MCTargets == {One("x"), Two("x", "z")}
OverY == {One("y")}
NoXZ == {Two("x", "z")}

NoX == {s \in [MCSymbols -> BOOLEAN] : ~s["x"]}
NoXY == {s \in [MCSymbols -> BOOLEAN] : ~(s["x"] /\ s["y"])}

NestedProperties == <<NoXY, NoX>>
NestedFamilies == <<{"x", "y"}, {"x"}>>
NestedPathLocal == <<TRUE, TRUE>>

MCAsked == {<<0, "block">>, <<0, "bad">>, <<1, "propagate">>, <<1, "generalize">>, <<1, "bad">>}
=============================================================================
