------------------------ MODULE MCDesignExtraction ------------------------
(***************************************************************************)
(* Instances of the extraction of a sequential design and of the learner   *)
(* of its internal relations, in three parts that share no state; a        *)
(* behaviour exercises one of them.                                        *)
(*                                                                         *)
(* "learner": InternalRelations, registers driven by registers, by the     *)
(* input or by a constant.                                                 *)
(*                                                                         *)
(* "design": DesignExtraction, three cells, one of them with a             *)
(* complemented output, a memory and two outputs, on two clocks, with and  *)
(* without a scope boundary.                                               *)
(*                                                                         *)
(* "clocks": ClockedUpdates, two flip-flops behind the usual clock trees:  *)
(* buffers and inverters, gates that stop the clock low or high, one clock *)
(* or two.                                                                 *)
(***************************************************************************)
EXTENDS InternalRelations, TLC

CONSTANTS n1, n2

ASSUME RelationConstants

Term(flaw, reads) == [flaw |-> flaw, reads |-> reads]
Pin(reads) == Term("none", reads)
On(d, p) == [known |-> TRUE, domain |-> d, phase |-> p]
Unclear(d) == [known |-> FALSE, domain |-> d, phase |-> "pos"]
Cell(k, others, uses, valid, terms, event) ==
    [key |-> k, others |-> others, uses |-> uses, valid |-> valid, terms |-> terms, event |-> event]

A == On("a", "pos")
N == On("a", "neg")
B == On("b", "pos")

(* 1 with its complement 2; 3; 4; 5 is an opaque cell. *)
FirstCells == {Cell(1, {2}, {}, TRUE, {Pin(r)}, e) : r \in {{}, {3}, {2, 4}}, e \in {A, N}}
           \cup {Cell(1, {2}, {}, TRUE, {Pin({3}), Term("no driver", {})}, A),
                 Cell(1, {2}, {}, TRUE, {Pin({3})}, Unclear("b"))}
SecondCells == {Cell(3, {}, {}, TRUE, {Pin(r)}, e) : r \in {{1}, {4}, {8}}, e \in {A, N, B}}
            \cup {Cell(3, {}, {}, TRUE, {Term("loop", {4})}, N), Cell(3, {}, {4}, TRUE, {Pin({})}, A)}
ThirdCells == {Cell(4, {}, {3}, TRUE, {Pin({})}, A), Cell(4, {}, {}, FALSE, {Pin({})}, A),
          Cell(4, {}, {}, TRUE, {Pin({5}), Pin({1})}, A), Cell(4, {}, {}, TRUE, {Pin({})}, B),
          Cell(4, {}, {}, TRUE, {Pin({1, 4})}, A)}

(* Cells 6 and 7, read output 8. *)
Write(e, rest) == [enable |-> e, rest |-> rest]
Memory(w, address, reset) ==
    [cells |-> {6, 7}, writes |-> w, reads |-> [k \in {8} |-> {address}], reset |-> reset, domain |-> "a"]
NoMemory == {}
MemorySets ==
    {NoMemory,
     {Memory({Write(Pin({}), {Pin({4})})}, Pin({3}), {})},
     {Memory({Write(Pin({}), {Pin({})}), Write(Term("no driver", {}), {Term("loop", {4})})}, Pin({}), {})},
     {Memory({Write(Pin({1}), {Term("loop", {})})}, Pin({}), {})},
     {Memory({Write(Pin({}), {Pin({})})}, Term("no driver", {}), {Pin({4})})}}

OutputsSets == {(11 :> Pin(r)) @@ (12 :> t) :
    r \in {{2}, {1, 4}}, t \in {Pin({4}), Term("loop", {3})}}

HasOpaque(cells) == \E c \in cells : ~c.valid \/ \E t \in c.terms : 5 \in t.reads
Design(cells, memories, outputs, scoped) ==
    [cells |-> cells, memories |-> memories, outputs |-> outputs, scoped |-> scoped,
     opaque |-> IF \E c \in cells : \E t \in c.terms : 5 \in t.reads THEN {5} ELSE {}]

(* Cells that name each other's states are states of one instance, which has *)
(* one clock; the cells that read the memory come with one.                  *)
OneInstance(y, z) == y.uses \cup z.uses # {} => y.event = z.event
ReadsMemory(c) == \E t \in c.terms : 8 \in t.reads
MemoriesFor(y) == IF ReadsMemory(y) THEN MemorySets \ {NoMemory} ELSE {NoMemory}
MCDesigns ==
    UNION {{Design({x, y, z}, m, o, s) : x \in FirstCells, m \in MemoriesFor(y), o \in OutputsSets,
                                         s \in IF HasOpaque({z}) THEN BOOLEAN ELSE {FALSE}} :
             <<y, z>> \in {p \in SecondCells \X ThirdCells : OneInstance(p[1], p[2])}}

-----------------------------------------------------------------------------
(* The netlists whose clocks are classified.                                *)

Tree == INSTANCE ExprTrees WITH HashModulus <- 7, Vars <- 2..12

CK == 2     CK2 == 3    B1 == 4     B2 == 5     G == 6
EN == 7     DATA == 8   RST == 9
P == 10     Q == 11     QN == 12

CellPin(name) == <<"PIN", name>>
Stored == <<"STATE">>
NoFormula == <<"NONE">>

FlopCell(ck, next, clear, preset, both) ==
    [clockedOn |-> ck, nextState |-> next, clear |-> clear, preset |-> preset, both |-> both]

PinD == CellPin("d")
PinCk == CellPin("ck")
PinR == CellPin("r")
Dff == FlopCell(PinCk, PinD, NoFormula, NoFormula, "zero")
DffNeg == FlopCell(Tree!Not(PinCk), PinD, NoFormula, NoFormula, "zero")
DffClear == FlopCell(PinCk, PinD, Tree!Not(PinR), NoFormula, "zero")
DffPreset == FlopCell(PinCk, PinD, NoFormula, PinR, "zero")
DffBoth(b) == FlopCell(PinCk, PinD, PinR, PinD, b)
Toggle == FlopCell(PinCk, <<"XOR", Stored, PinD>>, NoFormula, NoFormula, "zero")
(* An enable pin on the cell's own clock gate. *)
DffGate == FlopCell(<<"AND", PinCk, PinR>>, PinD, NoFormula, NoFormula, "zero")

Flop(cell, ck, d, r, q, qn) == [cell |-> cell, pins |-> [ck |-> ck, d |-> d, r |-> r], q |-> q, qn |-> qn]

(* B1 inverts the clock, B2 buffers B1, G gates the clock. *)
Wires == (B1 :> Tree!Not(Tree!Var(CK))) @@ (B2 :> Tree!Var(B1)) @@ (G :> Tree!And(Tree!Var(CK), Tree!Var(EN)))

Net(clocks, terms, flops) ==
    [clocks |-> clocks, terms |-> terms, inputs |-> {EN, DATA, RST}, flops |-> flops]

PlainPins == {Tree!Var(CK), Tree!Not(Tree!Var(CK)), Tree!Var(B2), Tree!And(Tree!Var(CK), Tree!Var(EN))}
GatedPins ==
    PlainPins \cup {Tree!Not(Tree!And(Tree!Var(CK), Tree!Var(EN))), Tree!Or(Tree!Var(B1), Tree!Not(Tree!Var(EN))),
                    Tree!And(Tree!Var(B2), Tree!Var(P))}

FirstFlops ==
    {Flop(Dff, ck, d, Tree!Var(RST), P, 0) :
        ck \in {Tree!Var(CK), Tree!Var(B2), Tree!And(Tree!Var(CK), Tree!Var(EN))}, d \in {Tree!Xor(Tree!Var(P), Tree!Var(Q))}}
FlopCells == {Dff, DffNeg, DffClear, DffPreset, DffBoth("one"), DffBoth("hold"), Toggle, DffGate}
SecondFlops ==
    {Flop(cell, ck, Tree!Var(P), Tree!Var(RST), Q, 0) : cell \in FlopCells, ck \in PlainPins}
      \cup {Flop(Dff, ck, Tree!Var(P), Tree!Var(RST), Q, QN) : ck \in GatedPins}
ComplementOnly ==
    {Flop(cell, ck, Tree!Xor(Tree!Var(P), Tree!Var(DATA)), Tree!Var(P), 0, QN) :
        cell \in {Dff, DffBoth("hold"), Toggle}, ck \in {Tree!Var(CK), Tree!And(Tree!Var(CK), Tree!Var(EN))}}

(* The flip-flop that reads the complemented output instead. *)
ReadingQn(f) == [f EXCEPT !.pins.d = Tree!Xor(Tree!Var(P), Tree!Not(Tree!Var(QN)))]

OneClock ==
    {Net({CK}, Wires, {a, b}) : a \in FirstFlops, b \in SecondFlops}
      \cup {Net({CK}, Wires, {ReadingQn(a), b}) : a \in FirstFlops, b \in ComplementOnly}

(* Both clocks; each flip-flop on its own, with the other one held. *)
TwoClocks ==
    {Net({CK, CK2}, [x \in {B1} |-> Tree!Not(Tree!Var(CK2))],
         {Flop(Dff, Tree!Var(CK), Tree!Var(DATA), Tree!Var(RST), P, 0),
          Flop(DffClear, ck, Tree!Var(DATA), Tree!Var(RST), Q, QN)}) :
        ck \in {Tree!Var(CK2), Tree!Var(B1), Tree!And(Tree!Var(CK2), Tree!Var(CK))}}

(* Clock pins that rise at one edge only or at either, but are not classified. *)
Unclassified ==
    {Net({CK}, Wires, {Flop(Dff, ck, Tree!Var(DATA), Tree!Var(RST), P, 0)}) :
        ck \in {Tree!And(Tree!Or(Tree!Var(CK), Tree!Var(RST)), Tree!Var(EN)), Tree!Xor(Tree!Var(CK), Tree!Var(EN))}}

MCNetlists == OneClock \cup TwoClocks \cup Unclassified

-----------------------------------------------------------------------------
(* The pairs of designs whose relations are learned: two registers a side,  *)
(* named alike straight, crosswise or in part.                              *)

\* The value of a driver: a register, the input (0), or the constant 1.
DriverValue(d, s, x) == IF d \in Registers THEN s[d] ELSE IF d = 0 THEN x ELSE 1

MachineOf(name, driver, init, dualRail, allowX, large) ==
  [name |-> name, driver |-> driver, init |-> init,
   next |-> [p \in [Registers -> {0, 1, X}] \X Inputs |->
               [r \in Registers |-> DriverValue(driver[r], p[1], p[2])]],
   values |-> IF dualRail THEN {0, 1, X} ELSE {0, 1}, allowX |-> allowX, large |-> large]

Straight == <<n1, n2, n1, n2>>
Namings == {Straight, <<n1, n2, n2, n1>>, <<n1, NoName, n1, NoName>>}

LearnerDrivers == 0..5

DriverChoices ==
  {<<0, 1, 0, 3>>, <<2, 1, 4, 3>>, <<5, 0, 2, 0>>, <<1, 0, 3, 5>>}

LearnerMachines ==
  {MachineOf(n, d, i, FALSE, TRUE, FALSE) :
     n \in Namings, d \in DriverChoices,
     i \in {<<0, 0, 0, 0>>, <<0, 1, 0, 1>>, <<0, Free, 0, Free>>}}
  \cup {MachineOf(Straight, d, i, TRUE, x, FALSE) :
          d \in {<<0, 1, 0, 3>>}, x \in BOOLEAN,
          i \in {<<0, X, 0, X>>, <<0, 1, 0, X>>}}
  \cup {MachineOf(Straight, <<0, 1, 0, 3>>, <<0, 0, 0, 0>>, FALSE, TRUE, TRUE)}

-----------------------------------------------------------------------------
VARIABLES part, design, skip, mapped, stateBits, nextReads, eventOf, outReads, required,
          stateWork, cellWork, skipWork, unsupported, designStage

designVars == <<design, skip, mapped, stateBits, nextReads, eventOf, outReads, required,
                stateWork, cellWork, skipWork, unsupported, designStage>>

Extraction == INSTANCE DesignExtraction WITH
  Designs <- MCDesigns, FrontierLimit <- 4, stage <- designStage

ASSUME Extraction!FrontierLimitAssumption

VARIABLES net, events, nextOf, clockOf, todo, clockStage

clockVars == <<net, events, nextOf, clockOf, todo, clockStage>>

Clock == INSTANCE ClockedUpdates WITH
  HashModulus <- 7, Vars <- 2..12, Netlists <- MCNetlists, eventOf <- clockOf, stage <- clockStage

SomeDesign == CHOOSE d \in MCDesigns : TRUE
SomeNetlist == CHOOSE n \in Unclassified : TRUE
SomeMachine == CHOOSE m \in LearnerMachines : ~m.large /\ \A r \in Registers : m.init[r] = 0

\* The parts a behaviour does not exercise hold one instance.
DesignRests == design = SomeDesign /\ Extraction!Init
ClocksRest == net = SomeNetlist /\ Clock!Init
LearnerRests == machine = SomeMachine /\ LearnerInit

MCInit ==
  \/ part = "design" /\ Extraction!Init /\ ClocksRest /\ LearnerRests
  \/ part = "clocks" /\ Clock!Init /\ DesignRests /\ LearnerRests
  \/ part = "learner" /\ LearnerInit /\ DesignRests /\ ClocksRest

RunDesign == part = "design" /\ Extraction!Next /\ UNCHANGED <<part, learnerVars, clockVars>>
RunClocks == part = "clocks" /\ Clock!Next /\ UNCHANGED <<part, learnerVars, designVars>>
RunLearner == part = "learner" /\ LearnerNext /\ UNCHANGED <<part, designVars, clockVars>>

MCSpec ==
  MCInit /\ [][RunDesign \/ RunClocks \/ RunLearner]_<<part, learnerVars, designVars, clockVars>>

\* The model is closed under what its states read, covered cones are whole, and
\* whatever is skipped has a cause of its own (SequentialDesignModel::extract).
ExtractionIsRight == part = "design" => Extraction!ExtractionIsRight

\* What rebuildSequentialTransitionExpr composes from a classified clock is
\* what the flip-flop stores over a period of the clock, and a variable that
\* expandClockCarrierEvents makes a carrier rises or falls exactly when its
\* clock does.
UpdatesAreRight ==
  part = "clocks" => Clock!UpdatesAreRight /\ Clock!CarriersFollowTheirClock
=============================================================================
