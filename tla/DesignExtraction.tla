-------------------------- MODULE DesignExtraction --------------------------
(***************************************************************************)
(* SequentialDesignModel::extract (src/sec/model/SequentialDesignModel.cpp): *)
(* which states and outputs of a design the equivalence check covers.      *)
(*                                                                         *)
(* Cells without a usable model are opaque; the states the outputs need    *)
(* are rebuilt batch by batch; states and outputs with a broken cone, or   *)
(* with a cone that crosses clock domains, are skipped, and so is          *)
(* everything that depends on them.  What is left is handed to the proof   *)
(* engines as a transition system of its own.                              *)
(*                                                                         *)
(* An expression is the set of states it reads; what it computes is the    *)
(* subject of ClockedUpdates.  Sets of signals the code walks in hash      *)
(* order are walked in any order.                                          *)
(***************************************************************************)
EXTENDS Naturals, FiniteSets, TLC

CONSTANTS
    Designs,        \* the designs to extract; see below
    FrontierLimit   \* kMaxCompleteStateFrontierForStartupMatching

\* Modules that instantiate this one assume it.
FrontierLimitAssumption == FrontierLimit \in Nat

VARIABLES
    design,     \* the design, unchanged
    skip,       \* connectivitySkipInfoByKey: key -> origin of the skip
    mapped,     \* domain of inputVarByKey: keys with a variable
    stateBits,
    nextReads,  \* nextStateExprByStateKey: state -> states its expression reads
    eventOf,    \* clockEventByStateKey: state -> [domain, phase]
    outReads,   \* observedOutputExprByKey: output -> states it reads
    required,   \* requiredStateKeys
    stateWork,  \* stateDependencyWorkQueue
    cellWork,   \* pendingWorkQueue
    skipWork,   \* pendingSkippedStateVars
    unsupported,    \* unsupportedReasons is not empty
    stage

vars == <<design, skip, mapped, stateBits, nextReads, eventOf, outReads, required, stateWork,
          cellWork, skipWork, unsupported, stage>>

-----------------------------------------------------------------------------
(* A design has sequential cells, memories and outputs, states of opaque    *)
(* cells, and possibly a scope boundary (scoped).  A term is a pin of       *)
(* one of them: the states its cone reads and what is wrong with the cone.  *)
(*   cell:   key, others (its complemented outputs), uses (states its       *)
(*           formulas name), valid, terms, event (its clock and edge, and   *)
(*           whether the clock pin can be classified)                       *)
(*   memory: cells, writes (enable and rest of each port), reads (the       *)
(*           address of each read output), reset (at most one term), domain *)

Cells == design.cells
Memories == design.memories
Outputs == DOMAIN design.outputs
KeysOf(c) == {c.key} \cup c.others
MemoryKeys(m) == m.cells \cup DOMAIN m.reads

AllStates == design.opaque \cup UNION {KeysOf(c) : c \in Cells}
                \cup UNION {MemoryKeys(m) : m \in Memories}

Opaque == {k \in DOMAIN skip : skip[k] = "opaque"}
Whole == "none"

Assign(S, origin) == [k \in S |-> origin] @@ skip
Emplace(S, origin) == skip @@ [k \in S |-> origin]

Without(f, S) == [k \in (DOMAIN f) \ S |-> f[k]]

\* Why the builder gives no expression for a term.
SkipOf(t) ==
    CASE t.flaw # Whole -> t.flaw
      [] t.reads \ mapped # {} -> "opaque"
      [] OTHER -> Whole

ReadsOf(S) == UNION {t.reads : t \in S}

\* Variant: an undriven pin is no obstacle.
UndrivenForgiven(S) == {t \in S : SkipOf(t) \in {"loop", "opaque"}}

Broken(S) == {t \in S : SkipOf(t) # Whole}

-----------------------------------------------------------------------------
Init ==
    /\ design \in Designs
    /\ skip = [k \in design.opaque |-> "opaque"]
    /\ mapped = {} /\ stateBits = {}
    /\ nextReads = <<>> /\ eventOf = <<>> /\ outReads = <<>>
    /\ required = {} /\ stateWork = {} /\ cellWork = {} /\ skipWork = {}
    /\ unsupported = FALSE
    /\ stage = "scan"

\* A cell with an invalid formula, or one that names an opaque state, is
\* opaque: so are then the cells that name its states.
Unusable(c) == ~c.valid \/ c.uses \cap Opaque # {}

MarkOpaque(c) ==
    /\ stage = "scan"
    /\ c.key \notin Opaque
    /\ Unusable(c)
    /\ skip' = Assign(KeysOf(c), "opaque")
    /\ UNCHANGED <<design, mapped, stateBits, nextReads, eventOf, outReads, required, stateWork,
                   cellWork, skipWork, unsupported, stage>>

\* The cells with a transition to rebuild.
Pending == {c \in Cells : c.key \in mapped}

\* Terms a signal depends on through one cell or memory; ports the netlist
\* itself disables are ports without a driven enable.
Disabled(w) == w.enable.flaw = "no driver"
WriteTerms(m) == UNION {{w.enable} \cup w.rest : w \in {x \in m.writes : ~Disabled(x)}}

ReadsInNetlist(k) ==
    UNION {c.uses \cup ReadsOf(c.terms) : c \in {x \in Cells : k \in KeysOf(x)}}
      \cup UNION {ReadsOf(m.reads[k] \cup WriteTerms(m) \cup m.reset) :
                    m \in {x \in Memories : k \in DOMAIN x.reads}}

\* The states a state of S reaches, through any number of cells.
RECURSIVE Reaching(_)
Reaching(S) ==
    LET more == {k \in AllStates \ S : ReadsInNetlist(k) \cap S # {}}
    IN  IF more = {} THEN S ELSE Reaching(S \cup more)

\* skipTopOutputsReachedByOpaqueTerminals, which leaves a design with a scope
\* boundary to the builder, and the boundary as published: all states, of which
\* the opaque ones have no variable.
StartBuild ==
    /\ stage = "scan"
    /\ \A c \in Cells : Unusable(c) => c.key \in Opaque
    /\ \E reached \in {Reaching(Opaque)} :
         skip' = IF design.scoped THEN skip
                 ELSE Assign({o \in Outputs : design.outputs[o].reads \cap reached # {}}, "opaque")
    /\ mapped' = AllStates \ Opaque
    /\ stateBits' = AllStates
    /\ stage' = "outputs"
    /\ UNCHANGED <<design, nextReads, eventOf, outReads, required, stateWork, cellWork, skipWork,
                   unsupported>>

\* Outputs whose cone the builder could not finish.
skippedOutputs == {o \in Outputs \ Opaque : SkipOf(design.outputs[o]) # Whole}

materializeTopObservedOutputs ==
    /\ stage = "outputs"
    /\ outReads' = [o \in Outputs \ (Opaque \cup skippedOutputs) |-> design.outputs[o].reads]
    /\ skip' = skip @@ [o \in skippedOutputs |-> SkipOf(design.outputs[o])]
    /\ stage' = "memories"
    /\ UNCHANGED <<design, mapped, stateBits, nextReads, eventOf, required, stateWork, cellWork,
                   skipWork, unsupported>>

\* A memory none of whose cells can be rebuilt: a term of an enabled write
\* port, or its reset, is broken.
memoryBroken(m) == Broken(WriteTerms(m) \cup m.reset)

CellReads(m) == m.cells \cup ReadsOf(WriteTerms(m) \cup m.reset)

Treated(m) == m.cells \subseteq (DOMAIN nextReads) \cup DOMAIN skip

\* The transitions of memory m: all cells, and the read outputs whose address
\* is whole; a read output sees the cells after the write.
buildStructuredMemoryTransitions(m) ==
    /\ stage = "memories"
    /\ ~Treated(m)
    /\ IF memoryBroken(m) # {}
       THEN /\ \E t \in memoryBroken(m) : skip' = Emplace(MemoryKeys(m), SkipOf(t))
            /\ UNCHANGED nextReads
       ELSE \E lost \in {{k \in DOMAIN m.reads : Broken(m.reads[k]) # {}}} :
            /\ skip' = skip @@ [k \in lost |-> SkipOf(CHOOSE t \in Broken(m.reads[k]) : TRUE)]
            /\ nextReads' = nextReads @@ [k \in MemoryKeys(m) \ lost |->
                                CellReads(m) \cup IF k \in m.cells THEN {} ELSE ReadsOf(m.reads[k])]
    /\ UNCHANGED <<design, mapped, stateBits, eventOf, outReads, required, stateWork, cellWork,
                   skipWork, unsupported, stage>>

-----------------------------------------------------------------------------
(* rebuildRequiredStateTransitions.                                        *)

\* The work S adds: the states not required yet, and their cells.
Newly(S) == (S \cap mapped) \ required
CellsOf(S) == {c \in Pending : KeysOf(c) \cap S # {}}
CellsSeen == {c \in Pending : c.key \in DOMAIN nextReads \/ c.key \in DOMAIN skip}

\* Small designs without opaque cells keep all their states.
StartRebuild ==
    /\ stage = "memories"
    /\ \A m \in Memories : Treated(m)
    /\ LET start == IF /\ AllStates \subseteq mapped
                       /\ Cardinality(stateBits) <= FrontierLimit
                    THEN stateBits
                    ELSE (UNION {outReads[o] : o \in DOMAIN outReads}) \cap mapped
       IN  /\ required' = start
           /\ stateWork' = start
           /\ cellWork' = CellsOf(start)
    /\ stage' = "rebuild"
    /\ UNCHANGED <<design, skip, mapped, stateBits, nextReads, eventOf, outReads, skipWork,
                   unsupported>>

\* A required state with an expression: the states it reads are required.
ExpandState(k) ==
    /\ stage = "rebuild" /\ k \in stateWork
    /\ LET new == IF k \in DOMAIN nextReads THEN Newly(nextReads[k]) ELSE {}
       IN  /\ required' = required \cup new
           /\ stateWork' = (stateWork \ {k}) \cup new
           /\ cellWork' = cellWork \cup (CellsOf(new) \ CellsSeen)
    /\ UNCHANGED <<design, skip, mapped, stateBits, nextReads, eventOf, outReads, skipWork,
                   unsupported, stage>>

\* The keys a rebuilt cell gives a transition, and those a broken one skips.
RebuiltKeys(c) == KeysOf(c)
LostKeys(c) == KeysOf(c)

\* All waiting cells at once: the cells with a broken term are skipped, the
\* others get their transitions, and the clock event where it is known.
RebuildBatch ==
    /\ stage = "rebuild" /\ stateWork = {} /\ cellWork # {}
    /\ \E lost \in {{c \in cellWork : Broken(c.terms) # {}}} :
       \E origin \in [lost -> {"no driver", "loop", "opaque"}] :
       \E built \in {UNION {RebuiltKeys(c) : c \in cellWork \ lost}} :
        /\ \A c \in lost : origin[c] \in {SkipOf(t) : t \in Broken(c.terms)}
        /\ skip' = [k \in UNION {LostKeys(c) : c \in lost} |->
                      origin[CHOOSE c \in lost : k \in KeysOf(c)]] @@ skip
        /\ nextReads' = nextReads @@ [k \in built |->
              LET c == CHOOSE x \in cellWork : k \in KeysOf(x) IN c.uses \cup ReadsOf(c.terms)]
        /\ eventOf' = eventOf @@
              [k \in UNION {KeysOf(c) : c \in {x \in cellWork \ lost : x.event.known}} |->
                 LET c == CHOOSE x \in cellWork : k \in KeysOf(x)
                 IN  [domain |-> c.event.domain, phase |-> c.event.phase]]
        /\ stateWork' = built
    /\ required' = required \cup UNION {KeysOf(c) : c \in cellWork}
    /\ cellWork' = {}
    /\ UNCHANGED <<design, mapped, stateBits, outReads, skipWork, unsupported, stage>>

\* What applyRebuiltTransitionArtifacts and filterUnsupportedAndUnmappedBoundary
\* leave: the required states that have a variable.
Retained == stateBits \cap required \cap mapped

Prune ==
    /\ stage = "rebuild" /\ stateWork = {} /\ cellWork = {}
    /\ stateBits' = Retained
    /\ mapped' = mapped \cap required
    /\ nextReads' = Without(nextReads, stateBits \ required)
    /\ eventOf' = Without(eventOf, stateBits \ required)
    /\ stage' = "compose"
    /\ UNCHANGED <<design, skip, outReads, required, stateWork, cellWork, skipWork, unsupported>>

-----------------------------------------------------------------------------
Phase(d, p) == {k \in stateBits \cap DOMAIN eventOf : eventOf[k] = [domain |-> d, phase |-> p]}
DomainsOf(S) == {eventOf[k].domain : k \in S \cap stateBits \cap mapped \cap DOMAIN eventOf}

\* What a state reads once the positive-edge states of its own domain are
\* replaced by what they read.
Composed(k) ==
    IF k \in DOMAIN eventOf /\ k \in stateBits /\ eventOf[k].phase = "neg"
    THEN LET early == nextReads[k] \cap Phase(eventOf[k].domain, "pos") \cap DOMAIN nextReads
         IN  (nextReads[k] \ early) \cup UNION {nextReads[p] : p \in early}
    ELSE nextReads[k]

composeSameDomainPhaseTransitions ==
    /\ stage = "compose"
    /\ nextReads' = [k \in DOMAIN nextReads |-> Composed(k)]
    /\ stage' = "domains"
    /\ UNCHANGED <<design, skip, mapped, stateBits, eventOf, outReads, required, stateWork, cellWork,
                   skipWork, unsupported>>

\* States that read a state of another clock, and outputs that read two.
CrossingStates ==
    {k \in stateBits \cap (DOMAIN eventOf) \cap DOMAIN nextReads :
        k \notin DOMAIN skip /\ DomainsOf(nextReads[k]) \ {eventOf[k].domain} # {}}
CrossingOutputs ==
    {o \in DOMAIN outReads : o \notin DOMAIN skip /\ Cardinality(DomainsOf(outReads[o])) > 1}

\* The work of propagateConnectivitySkipsThroughDependencies starts at the
\* skipped states that have a variable.
markMultiClockDomainConesAsSkipped ==
    /\ stage = "domains"
    /\ skip' = Emplace(CrossingStates \cup CrossingOutputs, "multi clock")
    /\ skipWork' = {k \in stateBits \cap mapped : k \in DOMAIN skip'}
    /\ stage' = "propagate"
    /\ UNCHANGED <<design, mapped, stateBits, nextReads, eventOf, outReads, required, stateWork,
                   cellWork, unsupported>>

\* The states and outputs that read k.
Dependents(k) == {s \in stateBits \cap DOMAIN nextReads : k \in nextReads[s]}
                    \cup {o \in DOMAIN outReads : k \in outReads[o]}

\* Whatever reads the skipped state k is skipped for the same reason.
PropagateSkip(k) ==
    /\ stage = "propagate" /\ k \in skipWork
    /\ skip' = Emplace(Dependents(k), skip[k])
    /\ skipWork' = (skipWork \ {k}) \cup ((Dependents(k) \cap stateBits) \ DOMAIN skip)
    /\ UNCHANGED <<design, mapped, stateBits, nextReads, eventOf, outReads, required, stateWork,
                   cellWork, unsupported, stage>>

\* partitionCoveredSignals and validateExtractedModel.
Partition ==
    /\ stage = "propagate" /\ skipWork = {}
    /\ stateBits' = stateBits \ DOMAIN skip
    /\ mapped' = mapped \ (stateBits \cap DOMAIN skip)
    /\ nextReads' = Without(nextReads, stateBits \cap DOMAIN skip)
    /\ eventOf' = Without(eventOf, stateBits \cap DOMAIN skip)
    /\ outReads' = Without(outReads, DOMAIN skip)
    /\ unsupported' = (unsupported \/ \E k \in stateBits' : k \notin DOMAIN nextReads')
    /\ stage' = "done"
    /\ UNCHANGED <<design, skip, required, stateWork, cellWork, skipWork>>

Done == stage = "done" /\ UNCHANGED vars

Next ==
    \/ \E c \in Cells : MarkOpaque(c)
    \/ StartBuild
    \/ materializeTopObservedOutputs
    \/ \E m \in Memories : buildStructuredMemoryTransitions(m)
    \/ StartRebuild
    \/ \E k \in stateWork : ExpandState(k)
    \/ RebuildBatch
    \/ Prune
    \/ composeSameDomainPhaseTransitions
    \/ markMultiClockDomainConesAsSkipped
    \/ \E k \in skipWork : PropagateSkip(k)
    \/ Partition
    \/ Done

Spec == Init /\ [][Next]_vars /\ WF_vars(Next)

-----------------------------------------------------------------------------
(* The netlist itself, as a reference.                                     *)

\* The states k depends on directly, and the pins it depends on.
TermsOf(k) ==
    UNION {c.terms : c \in {x \in Cells : k \in KeysOf(x)}}
      \cup UNION {WriteTerms(m) \cup m.reset : m \in {x \in Memories : k \in MemoryKeys(x)}}
      \cup UNION {m.reads[k] : m \in {x \in Memories : k \in DOMAIN x.reads}}

Sources(k) ==
    ReadsOf(TermsOf(k)) \cup UNION {c.uses : c \in {x \in Cells : k \in KeysOf(x)}}
      \cup UNION {m.cells : m \in {x \in Memories : k \in MemoryKeys(x)}}

\* All states those in S depend on, S included.
RECURSIVE Cone(_)
Cone(S) ==
    LET wider == S \cup UNION {Sources(k) : k \in S}
    IN  IF wider = S THEN S ELSE Cone(wider)

\* The clock of a state, classified or not.
ClockOf(k) ==
    {c.event.domain : c \in {x \in Cells : k \in KeysOf(x)}}
      \cup {m.domain : m \in {x \in Memories : k \in MemoryKeys(x)}}
ClocksOf(S) == UNION {ClockOf(k) : k \in S}

HasEvent(k) == \E c \in Cells : k \in KeysOf(c) /\ c.event.known

\* What is wrong with state k itself.
OwnFlaws(k) ==
    ({t.flaw : t \in TermsOf(k)} \ {Whole})
      \cup {"opaque" : x \in {k} \cap design.opaque}
      \cup {"opaque" : c \in {x \in Cells : k \in KeysOf(x) /\ ~x.valid}}
      \cup {"multi clock" : s \in {x \in Sources(k) : ClocksOf({x}) # ClocksOf({k})}}

OutputFlaws(o) ==
    ({design.outputs[o].flaw} \ {Whole})
      \cup {"multi clock" : x \in {y \in {o} : Cardinality(ClocksOf(Cone(design.outputs[o].reads))) > 1}}

-----------------------------------------------------------------------------
(* Properties.                                                             *)

\* The maps speak of states and outputs of the design only.
TypeOK ==
    /\ DOMAIN skip \subseteq AllStates \cup Outputs
    /\ \A k \in DOMAIN skip : skip[k] \in {"no driver", "loop", "opaque", "multi clock"}
    /\ stateBits \cup mapped \cup required \cup stateWork \cup skipWork \subseteq AllStates
    /\ DOMAIN nextReads \subseteq AllStates /\ DOMAIN eventOf \subseteq DOMAIN nextReads
    /\ DOMAIN outReads \subseteq Outputs
    /\ cellWork \subseteq Cells
    /\ unsupported \in BOOLEAN

\* The model handed to the engines is a transition system of its own: covered
\* outputs and states read covered states only, whatever was pruned, skipped or
\* composed on the way.
ModelIsClosed ==
    stage = "done" =>
        /\ \A o \in DOMAIN outReads : outReads[o] \subseteq stateBits
        /\ \A k \in DOMAIN nextReads : nextReads[k] \subseteq stateBits

\* Nothing is wrong anywhere behind a covered output, through any number of
\* cells and memories: no opaque cell, no undriven or looping pin.
CoveredConesAreWhole ==
    stage = "done" =>
        \A o \in DOMAIN outReads :
            /\ design.outputs[o].flaw = Whole
            /\ \A k \in Cone(design.outputs[o].reads) : OwnFlaws(k) \subseteq {"multi clock"}

\* The origin a skip is reported with is a flaw of the signal itself or of
\* something it depends on: no signal is skipped without cause, and none for a
\* cause elsewhere.
SkipsHaveTheirCause ==
    stage = "done" =>
        \A k \in DOMAIN skip :
            IF k \in Outputs
            THEN skip[k] \in OutputFlaws(k) \cup UNION {OwnFlaws(s) : s \in Cone(design.outputs[k].reads)}
            ELSE skip[k] \in UNION {OwnFlaws(s) : s \in Cone({k})}

\* A covered output depends on the states of one clock at most, when every
\* state behind it has a known clock event.
KnownConesHaveOneClock ==
    stage = "done" =>
        \A o \in DOMAIN outReads : \E cone \in {Cone(design.outputs[o].reads)} :
            (\A k \in cone : HasEvent(k)) => Cardinality(ClocksOf(cone)) <= 1

\* The outputs of one cell are covered together or not at all: the relation
\* between a state and its complement never loses one side.
PairsStayTogether ==
    stage = "done" => \A c \in Cells : KeysOf(c) \subseteq stateBits \/ KeysOf(c) \cap stateBits = {}

\* No covered state lacks its transition: validateExtractedModel has nothing
\* to report for a design whose cells all have a model or are opaque.
NothingMissing == ~unsupported

\* The extracted model is closed under what its expressions read, has a whole
\* cone for every output it covers and a cause for every one it skips
\* (extractSequentialDesignModel).
ExtractionIsRight ==
    /\ TypeOK /\ ModelIsClosed /\ PairsStayTogether /\ CoveredConesAreWhole
    /\ SkipsHaveTheirCause /\ KnownConesHaveOneClock /\ NothingMissing
=============================================================================
