--------------------------- MODULE ScopeExtraction ---------------------------
(* The scoped LEC flow of the Naja IF input (ScopeExtraction.cpp and the      *)
(* branch of KeplerFormal.cpp that uses it).  The second design is the first  *)
(* one after a few edits that keep the identifiers of what they leave alone.  *)
(* The extractor walks both hierarchies in step, compares models by the       *)
(* identifiers of instances, terms and instance terms, and collects the pairs *)
(* that differ; only these pairs are compared by LEC.                         *)
(*                                                                            *)
(* A design maps its hierarchical models to bodies; every model has one input *)
(* and one output.  In a body, source 0 is the model's input and source i the *)
(* output of cell i; a net is known by its source, for net identifiers are    *)
(* stable too.                                                                *)
EXTENDS Naturals, Sequences, FiniteSets, SequencesExt

CONSTANTS
  FirstDesigns,   \* first designs to start from
  MaxCells,       \* cells in a body
  MaxEdits        \* edits between the two designs

Primitives == {"buf", "inv"}
Children == {"M", "N"}
Hierarchical == Children \cup {"T"}
IDs == 1..MaxCells
Sources == 0..MaxCells

\* A cycle of cells is a combinational loop, which LEC does not accept.
Acyclic(b) ==
  \A cells \in (SUBSET DOMAIN b.cells) \ {{}} : \E i \in cells : b.from[i] \notin cells

BodyOK(b, names) ==
  /\ DOMAIN b.cells \subseteq IDs /\ DOMAIN b.from = DOMAIN b.cells
  /\ \A i \in DOMAIN b.cells :
       b.cells[i] \in names /\ b.from[i] \in {0} \cup DOMAIN b.cells
  /\ b.out \in {0} \cup DOMAIN b.cells
  /\ Acyclic(b)

DesignOK(d) ==
  /\ DOMAIN d = Hierarchical
  /\ \A m \in Hierarchical :
       BodyOK(d[m], IF m = "T" THEN Primitives \cup Children ELSE Primitives)

\* What is asked of the constants; modules that instantiate this one assume it.
FirstDesignsTyped ==
  /\ MaxCells \in Nat \ {0} /\ MaxEdits \in Nat
  /\ \A d \in FirstDesigns : DesignOK(d) /\ \A m \in Hierarchical : DOMAIN d[m].cells # {}

VARIABLES
  phase,            \* where the run stands
  design,           \* the two designs
  edits,            \* edits made so far
  cleanScopes,      \* the clean_scopes option
  stack,            \* pairs of models still to compare
  designsToVerify,  \* pairs of models that LEC has to compare
  side,             \* the design that is being cleaned
  removed,          \* leaves removed by cleaning, by design
  unchecked,        \* pairs that LEC has not compared yet
  result            \* status of the run

vars == <<phase, design, edits, cleanScopes, stack, designsToVerify, side,
          removed, unchecked, result>>

IsPrimitive(name) == name \in Primitives

--------------------------------------------------------------------------------
(* Edits.  External: the process that edits the Naja IF dump.                 *)

Edited(m, b) ==
  /\ phase = "edit" /\ edits < MaxEdits
  /\ BodyOK(b, IF m = "T" THEN Primitives \cup Children ELSE Primitives)
  /\ b # design[2][m]
  /\ design' = [design EXCEPT ![2][m] = b]
  /\ edits' = edits + 1
  /\ UNCHANGED <<phase, cleanScopes, stack, designsToVerify, side, removed,
                 unchecked, result>>

\* A new cell, with an unused identifier, behind the driver of the output.
InsertCell(m, i, name) ==
  LET b == design[2][m]
  IN  /\ i \notin DOMAIN b.cells
      /\ Edited(m, [cells |-> [j \in (DOMAIN b.cells) \cup {i} |->
                                 IF j = i THEN name ELSE b.cells[j]],
                    from |-> [j \in (DOMAIN b.cells) \cup {i} |->
                                 IF j = i THEN b.out ELSE b.from[j]],
                    out |-> i])

\* A cell goes and its readers read what it read.
BypassCell(m, i) ==
  LET b == design[2][m]
      rest == (DOMAIN b.cells) \ {i}
      Read(s) == IF s = i THEN b.from[i] ELSE s
  IN  /\ i \in DOMAIN b.cells /\ rest # {}
      /\ Edited(m, [cells |-> [j \in rest |-> b.cells[j]],
                    from |-> [j \in rest |-> Read(b.from[j])],
                    out |-> Read(b.out)])

\* An input pin, or the output, is connected to another net.
Reconnect(m, i, s) ==
  LET b == design[2][m]
  IN  /\ s \in {0} \cup DOMAIN b.cells
      /\ \/ i \in DOMAIN b.cells /\ Edited(m, [b EXCEPT !.from[i] = s])
         \/ i = 0 /\ Edited(m, [b EXCEPT !.out = s])

\* A cell gets another model and keeps its identifier and its connections.
ReplaceModel(m, i, name) ==
  /\ i \in DOMAIN design[2][m].cells
  /\ Edited(m, [design[2][m] EXCEPT !.cells[i] = name])

--------------------------------------------------------------------------------
(* Collecting the scopes.                                                     *)

StartCollecting ==
  /\ phase = "edit"
  /\ phase' = "collect"
  /\ stack' = << <<"T", "T">> >>
  /\ UNCHANGED <<design, edits, cleanScopes, designsToVerify, side, removed,
                 unchecked, result>>

\* What the code reads of a net: its bit terms (0 the input, 1 the output)
\* and its instance terms (the instance, and 0 for its input or 1).
BitTerms(b, s) == {t \in {0, 1} : (t = 0 /\ s = 0) \/ (t = 1 /\ b.out = s)}
InstTerms(b, s) ==
  {<<i, 0>> : i \in {j \in DOMAIN b.cells : b.from[j] = s}}
    \cup {<<i, 1>> : i \in {j \in DOMAIN b.cells : j = s}}

NetsAreEqual(b0, b1) ==
  \A s \in {0} \cup DOMAIN b0.cells :
    BitTerms(b0, s) = BitTerms(b1, s) /\ InstTerms(b0, s) = InstTerms(b1, s)

\* Faulty variant: only the instances are compared.
InstancesAreEqual(b0, b1) == DOMAIN b0.cells = DOMAIN b1.cells

\* Instances are compared by identifier, never by model.
ModelsAreEqual(b0, b1) == DOMAIN b0.cells = DOMAIN b1.cells /\ NetsAreEqual(b0, b1)

\* The instances of a body that have a body of their own, by identifier.
Subdesigns(b) ==
  LET ids == {i \in DOMAIN b.cells : ~IsPrimitive(b.cells[i])}
  IN  [k \in 1..Cardinality(ids) |->
         b.cells[SetToSortSeq(ids, <)[k]]]

\* Instances are paired by their position in the two lists.
Paired(subs0, subs1) == [k \in DOMAIN subs1 |-> <<subs0[k], subs1[k]>>]

CollectStep ==
  /\ phase = "collect" /\ stack # <<>>
  /\ LET pair == Last(stack)
         b0 == design[1][pair[1]]
         b1 == design[2][pair[2]]
         subs0 == Subdesigns(b0)
         subs1 == Subdesigns(b1)
     IN  IF ~ModelsAreEqual(b0, b1)
         THEN /\ designsToVerify' = designsToVerify \cup {pair}
              /\ stack' = Front(stack)
              /\ UNCHANGED phase
         ELSE /\ UNCHANGED designsToVerify
              \* The loop runs over the second list: past the end of the
              \* first one its read is undefined.
              /\ phase' = IF Len(subs1) > Len(subs0) THEN "undefined" ELSE phase
              /\ stack' = IF Len(subs1) > Len(subs0) THEN <<>>
                          ELSE Front(stack) \o Paired(subs0, subs1)
  /\ UNCHANGED <<design, edits, cleanScopes, side, removed, unchecked, result>>

EndCollecting ==
  /\ phase = "collect" /\ stack = <<>>
  /\ phase' = IF cleanScopes THEN "clean" ELSE "check"
  /\ unchecked' = designsToVerify
  /\ UNCHANGED <<design, edits, cleanScopes, stack, designsToVerify, side,
                 removed, result>>

--------------------------------------------------------------------------------
(* Cleaning: of each design stay the scopes and what they read.               *)

\* The leaf output, or <<0>> for the input of the top, that drives source s
\* of the body at path `at`.
RECURSIVE Driver(_, _, _)
Driver(d, at, s) ==
  LET b == IF at = <<>> THEN d["T"] ELSE d[d["T"].cells[at[1]]]
  IN  IF s # 0
      THEN IF IsPrimitive(b.cells[s]) THEN Append(at, s)
           ELSE Driver(d, Append(at, s), d[b.cells[s]].out)
      ELSE IF at = <<>> THEN <<0>> ELSE Driver(d, <<>>, d["T"].from[at[1]])

\* Paths of the instances that have a body, and of the leaves.
Instances(d) ==
  {<<>>} \cup {<<i>> : i \in {j \in DOMAIN d["T"].cells : ~IsPrimitive(d["T"].cells[j])}}
ModelAt(d, at) == IF at = <<>> THEN "T" ELSE d["T"].cells[at[1]]
Leaves(d) ==
  {path \in UNION {{Append(at, i) : i \in DOMAIN d[ModelAt(d, at)].cells} : at \in Instances(d)} :
     path \notin Instances(d)}
InputOf(d, leaf) ==
  Driver(d, Front(leaf), d[ModelAt(d, Front(leaf))].from[Last(leaf)])

\* The innermost instance around a leaf whose model is a scope.
ScopeAround(d, scopes, leaf) ==
  {at \in Instances(d) :
     /\ IsPrefix(at, leaf) /\ ModelAt(d, at) \in scopes
     /\ \A other \in Instances(d) :
          IsPrefix(other, leaf) /\ ModelAt(d, other) \in scopes => Len(other) <= Len(at)}

\* The nets on the terminals of those instances.
TerminalNets(d, scopes) ==
  UNION {UNION {{Driver(d, at, 0), Driver(d, at, d[ModelAt(d, at)].out)} :
                  at \in ScopeAround(d, scopes, leaf)} : leaf \in Leaves(d)}

\* The cone of the inputs that leaves in a scope read (SNLLogicCone::run).
ConeNets(d, scopes) ==
  LET readers == {leaf \in Leaves(d) : ScopeAround(d, scopes, leaf) # {}}
      grow[n \in 0..Cardinality(Leaves(d))] ==
        IF n = 0 THEN {InputOf(d, leaf) : leaf \in readers}
        ELSE grow[n - 1] \cup {InputOf(d, leaf) : leaf \in grow[n - 1] \cap Leaves(d)}
  IN  grow[Cardinality(Leaves(d))]

\* External: LoadlessLogicRemover takes the leaves that drive no kept net.
LoadlessInstances(d, isosToKeep) == Leaves(d) \ isosToKeep

CleanStep ==
  /\ phase = "clean"
  /\ LET scopes == {pair[side] : pair \in designsToVerify}
         isosToKeep == TerminalNets(design[side], scopes) \cup ConeNets(design[side], scopes)
     IN  removed' = [removed EXCEPT ![side] = LoadlessInstances(design[side], isosToKeep)]
  /\ side' = IF side = 1 THEN 2 ELSE side
  /\ phase' = IF side = 1 THEN phase ELSE "check"
  /\ UNCHANGED <<design, edits, cleanScopes, stack, designsToVerify, unchecked, result>>

--------------------------------------------------------------------------------
(* Comparing the scopes.                                                      *)

\* The number of inversions between the input and source s of model m, modulo
\* 2; 2 when a removed leaf is on the way.  A shared model loses a leaf when
\* every instance of it does; otherwise the remover works on a copy.
RECURSIVE Meaning(_, _, _, _)
Meaning(d, gone, m, s) ==
  LET b == d[m]
      Lost == \A at \in Instances(d) : ModelAt(d, at) = m => Append(at, s) \in gone
      before == Meaning(d, gone, m, b.from[s])
      cell == CASE b.cells[s] = "buf" -> 0
                [] b.cells[s] = "inv" -> 1
                [] OTHER -> Meaning(d, gone, b.cells[s], d[b.cells[s]].out)
  IN  IF s = 0 THEN 0
      ELSE IF Lost \/ before = 2 \/ cell = 2 THEN 2 ELSE (before + cell) % 2

Output(k, gone, m) == Meaning(design[k], gone, m, design[k][m].out)

\* External: LEC of the two models of a scope (LecMiter).
ScopesMatch(pair) == Output(1, removed[1], pair[1]) = Output(2, removed[2], pair[2])

CheckScope(pair) ==
  /\ phase = "check" /\ pair \in unchecked
  /\ unchecked' = unchecked \ {pair}
  /\ result' = IF ScopesMatch(pair) THEN result ELSE "different"
  /\ UNCHANGED <<phase, design, edits, cleanScopes, stack, designsToVerify, side, removed>>

\* Building or solving the miter of a scope throws: the run fails at once.
ScopeThrows(pair) ==
  /\ phase = "check" /\ pair \in unchecked
  /\ phase' = "done"
  /\ result' = "failed"
  /\ UNCHANGED <<design, edits, cleanScopes, stack, designsToVerify, side, removed, unchecked>>

Report ==
  /\ phase = "check" /\ unchecked = {}
  /\ phase' = "done"
  /\ UNCHANGED <<design, edits, cleanScopes, stack, designsToVerify, side, removed,
                 unchecked, result>>

Init ==
  /\ phase = "edit" /\ edits = 0
  /\ \E d \in FirstDesigns : design = <<d, d>>
  /\ cleanScopes \in BOOLEAN
  /\ stack = <<>> /\ designsToVerify = {} /\ unchecked = {}
  /\ side = 1 /\ removed = <<{}, {}>>
  /\ result = "equivalent"

Edit ==
  \E m \in {"T", "M"}, i \in Sources :
    \/ i # 0 /\ \E name \in Primitives \cup Children : InsertCell(m, i, name)
    \/ i # 0 /\ BypassCell(m, i)
    \/ \E s \in Sources : Reconnect(m, i, s)
    \/ i # 0 /\ \E name \in Primitives \cup Children : ReplaceModel(m, i, name)

Run ==
  \/ StartCollecting
  \/ CollectStep
  \/ EndCollecting
  \/ CleanStep
  \/ \E pair \in unchecked : CheckScope(pair)
  \/ \E pair \in unchecked : ScopeThrows(pair)
  \/ Report

Next == Edit \/ Run

\* The flow is one thread; edits end when the run starts.
Spec == Init /\ [][Next]_vars /\ WF_vars(Run)

--------------------------------------------------------------------------------
(* Properties.                                                                *)

\* Models of the two designs that stand at the same place.
Placed ==
  {<<"T", "T">>}
    \cup {<<design[1]["T"].cells[i], design[2]["T"].cells[i]>> :
            i \in {j \in (DOMAIN design[1]["T"].cells) \cap DOMAIN design[2]["T"].cells :
                     /\ ~IsPrimitive(design[1]["T"].cells[j])
                     /\ ~IsPrimitive(design[2]["T"].cells[j])}}

\* No primitive was put in, or replaced, under an identifier that both have.
CellsKept ==
  \A pair \in Placed :
    LET c0 == design[1][pair[1]].cells
        c1 == design[2][pair[2]].cells
    IN  \A i \in (DOMAIN c0) \cap DOMAIN c1 :
          IsPrimitive(c0[i]) \/ IsPrimitive(c1[i]) => c0[i] = c1[i]

TopsAreEquivalent == Output(1, {}, "T") = Output(2, {}, "T")

\* Every variable has its type, and the read past the first list happens only
\* where an identifier changed between primitive and hierarchical instance.
TypeOK ==
  /\ phase \in {"edit", "collect", "clean", "check", "done", "undefined"}
  /\ result \in {"equivalent", "different", "failed"}
  /\ \A k \in {1, 2} : DesignOK(design[k]) /\ removed[k] \subseteq Leaves(design[k])
  /\ edits \in 0..MaxEdits /\ side \in {1, 2}
  /\ unchecked \subseteq designsToVerify
  /\ designsToVerify \cup ToSet(stack) \subseteq Hierarchical \X Hierarchical
  /\ phase = "undefined" => ~CellsKept

\* As long as identifiers keep their cells, a run that compares only the
\* collected scopes says "equivalent" only of equivalent designs
\* (collectVerificationScopes, allScopesEquivalent).
EquivalentIsRight ==
  phase = "done" /\ result = "equivalent" /\ CellsKept => TopsAreEquivalent

\* Every collected scope was affected by an edit: at a place that both designs
\* have, its model was edited or is another one.
ScopesAreAffected ==
  phase \in {"clean", "check", "done"} /\ CellsKept =>
    \A pair \in designsToVerify :
      pair \in Placed /\ (pair[1] # pair[2] \/ design[1][pair[1]] # design[2][pair[2]])

\* Removing what the scopes do not read never changes what a scope computes.
CleaningKeepsScopes ==
  phase \in {"check", "done"} =>
    \A pair \in designsToVerify : \A k \in {1, 2} :
      Output(k, removed[k], pair[k]) = Output(k, {}, pair[k])

\* The collected scopes decide the whole design, were affected by an edit, and
\* compute the same after cleaning (collectVerificationScopes, the removers).
ScopesDecide == TypeOK /\ EquivalentIsRight /\ ScopesAreAffected /\ CleaningKeepsScopes
===============================================================================
