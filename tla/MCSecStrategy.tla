---------------------------- MODULE MCSecStrategy ----------------------------
(***************************************************************************)
(* Instances of the sequential flow, in three parts that share no state; a *)
(* behaviour exercises one of them.                                        *)
(*                                                                         *)
(* "strategy": SecStrategy, every task over the outputs.                   *)
(*                                                                         *)
(* "export": Btor2Export, one register in each design, with or without a   *)
(* complemented output, a reset port and a data input; and the same pair   *)
(* on two rails.                                                           *)
(*                                                                         *)
(* "reuse": ReusableInvariant, what one output batch of PDR leaves to the  *)
(* next: two-bit models whose initial state is 00.  A run leaves clauses   *)
(* that hold in the initial states, as every clause of a PDR frame does.   *)
(***************************************************************************)
EXTENDS SecStrategy, ReusableInvariant, TLC

CONSTANTS NumOutputs, x0, x1

Outputs == 1..NumOutputs
AllTasks == Task

-----------------------------------------------------------------------------
(* The pairs to export. *)

Tree == INSTANCE ExprTrees WITH HashModulus <- 7, Vars <- 2..47

Reset == 8
Data == 9

\* Binary: 2 and its complement 3 in design 0, 4 in design 1.
Load(q, x) == Tree!Or(Tree!And(Tree!Not(Tree!Var(Reset)), Tree!Xor(Tree!Var(q), Tree!Var(Data))), Tree!And(Tree!Var(Reset), Tree!Var(x)))

Binary(cycles, ports, initial, initialized, condition, bootstrap, complemented) ==
  [states |-> {2, 4} \cup (IF complemented THEN {3} ELSE {}), inputs |-> {Reset, Data},
   next |-> (2 :> Load(2, Data) @@ 4 :> Tree!And(Tree!Not(Tree!Var(Reset)), Tree!Xor(Tree!Var(4), Tree!Var(Data)))),
   complements |-> IF complemented THEN {<<2, 3>>} ELSE {}, equalities |-> {}, rails |-> {},
   dual |-> FALSE, cycles |-> cycles, resetInputs |-> ports,
   initial |-> initial, initialized |-> initialized, condition |-> condition,
   bootstrap |-> bootstrap, total |-> IF complemented THEN 3 ELSE 2,
   property |-> Tree!Not(Tree!Xor(Tree!Var(2), Tree!Var(4)))]

NoValues == << >>
Ports == {NoValues, Reset :> TRUE, Reset :> FALSE}

ResetPrefixes ==
  {Binary(c, p, NoValues, 0, Tree!True, b, k) :
     c \in 0..4, p \in Ports, b \in {NoValues, 2 :> FALSE, 2 :> FALSE @@ 4 :> FALSE},
     k \in BOOLEAN}

Starts ==
  {Binary(c, p, i, Cardinality(DOMAIN i), Tree!True, NoValues, FALSE) :
     c \in {0, 2}, p \in Ports, i \in {2 :> TRUE, 2 :> TRUE @@ 4 :> FALSE}}
  \cup {Binary(0, NoValues, NoValues, n, Tree!Xor(Tree!Var(2), Tree!Var(4)), NoValues, FALSE) : n \in {1, 2}}

\* Rails: 2 and 3 in design 0, 4 and 5 in design 1, and an equality that was
\* certified.
Dual(cycles, ports, initial, related) ==
  [states |-> 2..5, inputs |-> {Reset, Data},
   next |-> (2 :> Tree!And(Tree!Not(Tree!Var(Reset)), Tree!Or(Tree!Var(2), Tree!Var(Data)))
             @@ 3 :> Tree!Or(Tree!Var(Reset), Tree!And(Tree!Var(3), Tree!Not(Tree!Var(Data))))
             @@ 4 :> Tree!And(Tree!Not(Tree!Var(Reset)), Tree!Or(Tree!Var(4), Tree!Var(Data)))
             @@ 5 :> Tree!Or(Tree!Var(Reset), Tree!Var(5))),
   complements |-> {}, equalities |-> IF related THEN {<<2, 4>>} ELSE {},
   rails |-> {<<2, 3>>, <<4, 5>>}, dual |-> TRUE, cycles |-> cycles, resetInputs |-> ports,
   initial |-> initial, initialized |-> 4, condition |-> Tree!True, bootstrap |-> NoValues,
   total |-> 4,
   property |-> Tree!Not(Tree!And(Tree!And(Tree!Xor(Tree!Var(2), Tree!Var(3)), Tree!Xor(Tree!Var(4), Tree!Var(5))), Tree!Xor(Tree!Var(2), Tree!Var(4))))]

Rails ==
  {Dual(c, p, [x \in 2..5 |-> TRUE], r) : c \in 0..3, p \in Ports, r \in BOOLEAN}
  \cup {Dual(c, p, [x \in 2..5 |-> x \in {2, 5}], FALSE) : c \in {0, 2}, p \in Ports}

ExportedProblems == ResetPrefixes \cup Starts \cup Rails

-----------------------------------------------------------------------------
(* The models that cross output batches. *)

Zero == [v \in Symbols |-> FALSE]

ModelOf(next, budgeted, limit) ==
  [init |-> {Zero}, next |-> next, bad |-> {}, frontier |-> FALSE,
   budgeted |-> budgeted, tickLimit |-> limit]

\* The two-bit machines without inputs in which 00 keeps its first bit: up to
\* exchanging the bits only those that go from 00 to 11 are missing.  Under a
\* certification budget, those that leave 00.
AllModels ==
  LET machines == {g \in [Point -> State] : \A i \in Inputs : ~ g[<<Zero, i>>][x0]}
  IN  {ModelOf(f, FALSE, 0) : f \in machines}
        \cup {ModelOf(f, TRUE, 1) : f \in {g \in machines : \A i \in Inputs : g[<<Zero, i>>] # Zero}}

\* The nonempty cubes that miss the initial state.
InitialClauses == {c \in Cubes \ {{}} : ~ In(Zero, c)}

\* What the frames of one run hold: up to this many clauses.
MaxLearned == 2
LearnedSets == {L \in SUBSET InitialClauses : Cardinality(L) <= MaxLearned}

SomeModel == CHOOSE m \in AllModels : TRUE

-----------------------------------------------------------------------------
VARIABLES part, problem, running, frame, state, exporting, written, temporary, destination

exportVars == <<problem, running, frame, state, exporting, written, temporary, destination>>

Export == INSTANCE Btor2Export WITH
  HashModulus <- 7, Vars <- 2..47, Problems <- ExportedProblems, MaxFrame <- 8, phase <- exporting, model <- written

SomeTask == CHOOSE t \in Tasks : TRUE
SomeProblem == CHOOSE p \in ExportedProblems : TRUE
NoFile == [kind |-> "absent", model |-> Export!Empty]

MCInit ==
  \/ part = "strategy" /\ problem = SomeProblem /\ destination = NoFile /\ Export!Init
     /\ model = SomeModel /\ CacheInit /\ Init
  \/ part = "export" /\ task = SomeTask /\ Init /\ model = SomeModel /\ CacheInit /\ Export!Init
  \/ part = "reuse" /\ problem = SomeProblem /\ destination = NoFile /\ Export!Init
     /\ task = SomeTask /\ Init /\ CacheInit

RunStrategy == part = "strategy" /\ Next /\ UNCHANGED <<part, exportVars, reuseVars>>
RunExport == part = "export" /\ Export!Next /\ UNCHANGED <<part, vars, reuseVars>>
RunReuse == part = "reuse" /\ CacheNext /\ UNCHANGED <<part, vars, exportVars>>
RunRefresh == part = "reuse" /\ Refresh /\ UNCHANGED <<part, vars, exportVars>>

\* The strategy and the finder are straight-line code that runs to its end.
MCSpec ==
  /\ MCInit
  /\ [][RunStrategy \/ RunExport \/ RunReuse]_<<part, vars, exportVars, reuseVars>>
  /\ WF_<<part, vars, exportVars, reuseVars>>(RunStrategy)
  /\ WF_<<part, vars, exportVars, reuseVars>>(RunRefresh)

\* Every task ends with a report and an exit code (SecStrategy's Terminates,
\* for the behaviours in which the strategy runs).
TaskEnds == part = "strategy" => Terminates

\* The exported model starts, goes on and fails where the bounded search does
\* (Btor2Exporter against findBaseCounterexample), and whatever fails and
\* wherever the exporter is killed, the file is what it was or a whole model
\* (writeBtor2File: write to a temporary directory, then rename).
ExportIsRight == part = "export" => Export!ExportIsRight

\* The runs of the exported model are runs of the bounded search
\* (Btor2Exporter against findBaseCounterexample's startup and frames).
RunsAreBaseCaseRuns == Export!RunsAreBaseCaseRuns
=============================================================================
