--------------------------- MODULE ClockedUpdates ---------------------------
(***************************************************************************)
(* How the extraction turns flip-flops into next-state expressions         *)
(* (src/sec/model/SequentialDesignModel.cpp, src/clocks/SecClockModel.cpp): *)
(* the clock tree is classified into carriers of a top clock, each clock   *)
(* pin into an edge of a carrier and an enable, each flip-flop into one    *)
(* expression over the states before the positive edge; last, the          *)
(* negative-edge states of a clock read the positive-edge states it has    *)
(* just computed.                                                          *)
(*                                                                         *)
(* Expressions are put together as trees and built by the factories of     *)
(* BoolExpr, bottom up, as the code does (Built).                          *)
(*                                                                         *)
(* The properties compare the expressions with the flip-flops themselves,  *)
(* run through one clock period.                                           *)
(***************************************************************************)
EXTENDS ExprTrees

CONSTANT Netlists   \* the netlists to extract; see the operators below

VARIABLES
    net,        \* the netlist
    events,     \* clockEventByCarrierVarID: variable -> [domain, phase]
    nextOf,     \* nextStateExprByStateKey: state variable -> expression
    eventOf,    \* clockEventByStateKey: state variable -> [domain, phase]
    todo,       \* the clocks whose phases are not composed yet
    stage

vars == <<net, events, nextOf, eventOf, todo, stage>>

-----------------------------------------------------------------------------
(* A netlist: its clocks (the top inputs named as one), the internal terms  *)
(* with a variable and their expressions, its other inputs, and flip-flops. *)
(* A flip-flop: a cell type, the expression on each of its pins, and the    *)
(* variables of the outputs showing its state and the complement of it, 0   *)
(* for none.  A cell type: expressions over <<"PIN", name>> and <<"STATE">> *)
(* for the clock, the next state, clear and preset, None for those of the   *)
(* last two that the cell does not have.                                    *)

Clocks == net.clocks
Terms == net.terms
Flops == net.flops
None == <<"NONE">>

\* A tree built bottom up by the factories.
Built(e) == CHOOSE b \in {Simplify(x) : x \in {e}} : TRUE

\* The output the state is named after: the first one not complemented.
Primary(f) == IF f.q # 0 THEN f.q ELSE f.qn
stateOutputIsComplemented(f) == f.q = 0
complementedStateKeys(f) == IF f.q # 0 /\ f.qn # 0 THEN {f.qn} ELSE {}
StateVars == UNION {{Primary(f)} \cup complementedStateKeys(f) : f \in Flops}

\* The state of f as the model's expressions read it.
Current(f) ==
    IF stateOutputIsComplemented(f) THEN <<"NOT", Var(Primary(f))>> ELSE Var(Primary(f))

RECURSIVE buildSequentialModelExpr(_, _)
buildSequentialModelExpr(e, f) ==
    CASE OpOf(e) = "PIN" -> f.pins[e[2]]
      [] OpOf(e) = "STATE" -> Current(f)
      [] OpOf(e) \in {"VAR", "NONE"} -> e
      [] OTHER -> <<OpOf(e)>> \o [i \in DOMAIN Children(e) |->
                                       buildSequentialModelExpr(Child(e, i), f)]

buildPendingClockExpr(f) == Built(buildSequentialModelExpr(f.cell.clockedOn, f))

-----------------------------------------------------------------------------
(* Substitution and support.                                               *)

RECURSIVE Support(_)
Support(e) ==
    IF OpOf(e) = "VAR" THEN {IdOf(e)} \ {0, 1}
    ELSE UNION {Support(Child(e, i)) : i \in DOMAIN Children(e)}

\* Every variable in the domain of r replaced by its expression.
RECURSIVE Substitute(_, _)
Substitute(e, r) ==
    CASE OpOf(e) = "VAR" /\ IdOf(e) \in DOMAIN r -> r[IdOf(e)]
      [] OpOf(e) = "VAR" -> e
      [] OTHER -> <<OpOf(e)>> \o [i \in DOMAIN Children(e) |-> Substitute(Child(e, i), r)]

specializeClockCarrier(e, v, value) ==
    Built(Substitute(e, [x \in {v} |-> IF value THEN True ELSE False]))

-----------------------------------------------------------------------------
(* Classification of a clock expression.                                   *)

invertClockPhase(p) == IF p = "pos" THEN "neg" ELSE "pos"

\* The enables of both edges, from the expression at either level of its carrier.
Rising(low, high) == Built(<<"AND", <<"NOT", low>>, high>>)
Falling(low, high) == Built(<<"AND", low, <<"NOT", high>>>>)

Unclassified == [known |-> FALSE]

\* An edge and its enable when the expression has a single carrier and only
\* one of both edges.
classifyClockEventExpression(e) ==
    LET carriers == Support(e) \cap DOMAIN events
    IN  IF Cardinality(carriers) # 1 THEN Unclassified
        ELSE LET v == CHOOSE c \in carriers : TRUE
                 low == specializeClockCarrier(e, v, FALSE)
                 high == specializeClockCarrier(e, v, TRUE)
                 rising == Rising(low, high)
                 falling == Falling(low, high)
             IN  IF (rising = False) = (falling = False) THEN Unclassified
                 ELSE [known |-> TRUE,
                       domain |-> events[v].domain,
                       phase |-> IF rising # False THEN events[v].phase
                                 ELSE invertClockPhase(events[v].phase),
                       enable |-> IF rising # False THEN rising ELSE falling]

Ungated(event) == event.enable = True
Edge(event) == [domain |-> event.domain, phase |-> event.phase]

\* Carriers replaced by TRUE, whatever their polarity.
RECURSIVE stripClockCarrier(_)
stripClockCarrier(e) ==
    CASE OpOf(e) = "VAR" -> IF IdOf(e) \in DOMAIN events THEN True ELSE e
      [] OpOf(e) = "NOT" /\ OpOf(e[2]) = "VAR" /\ IdOf(e[2]) \in DOMAIN events -> True
      [] OTHER -> <<OpOf(e)>> \o [i \in DOMAIN Children(e) |-> stripClockCarrier(Child(e, i))]

-----------------------------------------------------------------------------
(* The next state of a flip-flop.                                          *)

Ite(c, t, e) == <<"OR", <<"AND", c, t>>, <<"AND", <<"NOT", c>>, e>>>>

\* A pin that is nothing but the clock, as the structure of the clock tree
\* shows: clock terms through buffers and inverters.
PureCarrier(e) ==
    \/ OpOf(e) = "VAR" /\ IdOf(e) \in DOMAIN events
    \/ OpOf(e) = "NOT" /\ OpOf(e[2]) = "VAR" /\ IdOf(e[2]) \in DOMAIN events

RECURSIVE PinsOf(_)
PinsOf(e) ==
    CASE OpOf(e) = "PIN" -> {e[2]}
      [] OpOf(e) \in {"STATE", "VAR"} -> {}
      [] OTHER -> UNION {PinsOf(Child(e, i)) : i \in DOMAIN Children(e)}

\* The enable of a clock pin, given its expression and its event; TRUE for none.
getLocalClockEnableExpr(f, pin, event) ==
    IF \A p \in PinsOf(f.cell.clockedOn) : PureCarrier(f.pins[p]) THEN True
    ELSE IF event.known THEN event.enable
    ELSE Built(stripClockCarrier(pin))

Simultaneous(f) ==
    CASE f.cell.both = "zero" -> False
      [] f.cell.both = "one" -> True
      [] f.cell.both = "hold" -> Current(f)
      [] f.cell.both = "toggle" -> <<"NOT", Current(f)>>

\* A gated flip-flop holds; clear and preset, where the cell has them, do not
\* wait for the clock.
buildNextStateExpr(f, enable) ==
    LET data == buildSequentialModelExpr(f.cell.nextState, f)
        held == IF enable = True THEN data ELSE Ite(enable, data, Current(f))
        clear == buildSequentialModelExpr(f.cell.clear, f)
        preset == buildSequentialModelExpr(f.cell.preset, f)
        next == CASE None \notin {f.cell.clear, f.cell.preset} ->
                       Ite(clear, Ite(preset, Simultaneous(f), False), Ite(preset, True, held))
                  [] f.cell.clear # None -> Ite(clear, False, held)
                  [] f.cell.preset # None -> Ite(preset, True, held)
                  [] OTHER -> held
        shown == IF stateOutputIsComplemented(f) THEN <<"NOT", next>> ELSE next
    IN  CHOOSE e \in {Built(stripClockCarrier(x)) : x \in {Built(shown)}} : TRUE

-----------------------------------------------------------------------------

\* The carriers known first: the top clocks themselves.
seedTopClockCarrierEvents(clocks) == [c \in clocks |-> [domain |-> c, phase |-> "pos"]]

Init ==
    /\ net \in Netlists
    /\ events = seedTopClockCarrierEvents(net.clocks)
    /\ nextOf = <<>> /\ eventOf = <<>>
    /\ todo = net.clocks
    /\ stage = "carriers"

\* An internal term that is a clock, ungated, becomes a carrier: so may the
\* terms after it.  The map of terms is read in hash order.
ExpandCarrier(v) ==
    /\ stage = "carriers"
    /\ v \notin DOMAIN events
    /\ \E event \in {classifyClockEventExpression(Terms[v])} :
        /\ event.known /\ Ungated(event)
        /\ events' = (v :> Edge(event)) @@ events
    /\ UNCHANGED <<net, nextOf, eventOf, todo, stage>>

Expandable(v) ==
    /\ v \notin DOMAIN events
    /\ LET event == classifyClockEventExpression(Terms[v]) IN event.known /\ Ungated(event)

CarriersKnown ==
    /\ stage = "carriers"
    /\ ~\E v \in DOMAIN Terms : Expandable(v)
    /\ stage' = "rebuild"
    /\ UNCHANGED <<net, events, nextOf, eventOf, todo>>

\* The transition of f, in the order of the work queue; every complemented
\* output gets the negation.
RebuildTransition(f) ==
    /\ stage = "rebuild"
    /\ Primary(f) \notin DOMAIN nextOf
    /\ \E pin \in {buildPendingClockExpr(f)} :
       \E event \in {classifyClockEventExpression(pin)} :
       \E enable \in {getLocalClockEnableExpr(f, pin, event)} :
       \E next \in {buildNextStateExpr(f, enable)} :
        /\ nextOf' = (Primary(f) :> next) @@ [k \in complementedStateKeys(f) |-> Built(<<"NOT", next>>)] @@ nextOf
        /\ eventOf' = IF event.known
                      THEN [k \in {Primary(f)} \cup complementedStateKeys(f) |-> Edge(event)] @@ eventOf
                      ELSE eventOf
    /\ UNCHANGED <<net, events, todo, stage>>

TransitionsBuilt ==
    /\ stage = "rebuild"
    /\ DOMAIN nextOf = StateVars
    /\ stage' = "compose"
    /\ UNCHANGED <<net, events, nextOf, eventOf, todo>>

StatesOf(d, p) == {s \in DOMAIN eventOf : eventOf[s] = [domain |-> d, phase |-> p]}

\* Variant: the positive-edge states read the negative-edge ones.
composeOtherWay(d) ==
    LET r == [s \in StatesOf(d, "neg") |-> nextOf[s]]
    IN  [s \in DOMAIN nextOf |->
           IF s \in StatesOf(d, "pos") THEN Built(Substitute(nextOf[s], r)) ELSE nextOf[s]]

\* The negative-edge states of d read the positive-edge ones after their step.
composeSameDomainPhaseTransitions(d) ==
    LET r == [s \in StatesOf(d, "pos") |-> nextOf[s]]
    IN  [s \in DOMAIN nextOf |->
           IF s \in StatesOf(d, "neg") THEN Built(Substitute(nextOf[s], r)) ELSE nextOf[s]]

Compose(d) ==
    /\ stage = "compose" /\ d \in todo
    /\ nextOf' = composeSameDomainPhaseTransitions(d)
    /\ todo' = todo \ {d}
    /\ stage' = IF todo' = {} THEN "done" ELSE stage
    /\ UNCHANGED <<net, events, eventOf>>

Done == stage = "done" /\ UNCHANGED vars

Next ==
    \/ \E v \in DOMAIN Terms : ExpandCarrier(v)
    \/ CarriersKnown
    \/ \E f \in Flops : RebuildTransition(f)
    \/ TransitionsBuilt
    \/ \E d \in Clocks : Compose(d)
    \/ Done

Spec == Init /\ [][Next]_vars

-----------------------------------------------------------------------------
(* The flip-flops themselves, as a reference.                              *)

\* What the state bits and the inputs may be; complemented outputs follow.
Situations == [{Primary(f) : f \in Flops} \cup net.inputs -> BOOLEAN]

Complements(situation) ==
    [k \in UNION {complementedStateKeys(f) : f \in Flops} |->
        ~situation[Primary(CHOOSE f \in Flops : k \in complementedStateKeys(f))]]

\* The value of every variable when the clocks in high are high.
RECURSIVE WithTerms(_, _)
WithTerms(env, left) ==
    IF left = {} THEN env
    ELSE LET v == CHOOSE t \in left : Support(Terms[t]) \subseteq DOMAIN env
         IN  WithTerms((v :> Evaluate(Terms[v], env)) @@ env, left \ {v})

Levels(situation, high) ==
    WithTerms([c \in Clocks |-> c \in high] @@ Complements(situation) @@ situation, DOMAIN Terms)

StateValue(f, env) == IF stateOutputIsComplemented(f) THEN ~env[f.qn] ELSE env[f.q]

\* The clock pin of f goes from low to high as d changes.
PinRises(f, d, rising, situation) ==
    LET pin == buildSequentialModelExpr(f.cell.clockedOn, f)
        value(h) == Evaluate(pin, Levels(situation, h))
    IN  value(IF rising THEN {d} ELSE {}) /\ ~value(IF rising THEN {} ELSE {d})

\* The flip-flops that listen to this edge of d.
Listening(d, rising) ==
    {f \in Flops : \E situation \in Situations : PinRises(f, d, rising, situation)}

\* A listening flip-flop at this edge of d: clear and preset, then the clock.
FlopStep(f, d, rising, situation) ==
    LET env == Levels(situation, IF rising THEN {} ELSE {d})
        holds(e) == e # None /\ Evaluate(buildSequentialModelExpr(e, f), env)
        old == StateValue(f, env)
        both == [zero |-> FALSE, one |-> TRUE, hold |-> old, toggle |-> ~old]
        new == CASE holds(f.cell.clear) /\ holds(f.cell.preset) -> both[f.cell.both]
                 [] holds(f.cell.clear) -> FALSE
                 [] holds(f.cell.preset) -> TRUE
                 [] PinRises(f, d, rising, situation) -> holds(f.cell.nextState)
                 [] OTHER -> old
    IN  IF stateOutputIsComplemented(f) THEN ~new ELSE new

HalfStep(d, rising, listening, situation) ==
    [f \in listening |-> FlopStep(f, d, rising, situation)]

After(situation, step) ==
    [v \in DOMAIN situation |->
        IF \E f \in DOMAIN step : Primary(f) = v
        THEN step[CHOOSE f \in DOMAIN step : Primary(f) = v] ELSE situation[v]]

\* The situations before and after one period of d, from just before a
\* positive edge to just before the next.
Periods(d) ==
    LET rise == Listening(d, TRUE)
        fall == Listening(d, FALSE)
    IN  {<<s, After(t, HalfStep(d, FALSE, fall, t))>> :
            <<s, t>> \in {<<s, After(s, HalfStep(d, TRUE, rise, s))>> : s \in Situations}}

\* The extracted expressions of the flip-flops in S are what they do in one
\* period of d.
StepsRight(S, d) ==
    \A period \in Periods(d) : \E env \in {Levels(period[1], {})} :
        \A f \in S :
            /\ Evaluate(nextOf[Primary(f)], env) = period[2][Primary(f)]
            /\ \A k \in complementedStateKeys(f) :
                  Evaluate(nextOf[k], env) = ~period[2][Primary(f)]

-----------------------------------------------------------------------------
(* Properties.                                                             *)

\* Every map has the keys and values its stage allows.
TypeOK ==
    /\ net \in Netlists
    /\ stage \in {"carriers", "rebuild", "compose", "done"}
    /\ DOMAIN events \subseteq Clocks \cup DOMAIN Terms
    /\ \A v \in DOMAIN events : events[v] \in [domain : Clocks, phase : {"pos", "neg"}]
    /\ DOMAIN eventOf \subseteq DOMAIN nextOf /\ DOMAIN nextOf \subseteq StateVars
    /\ \A s \in DOMAIN eventOf : eventOf[s] \in [domain : Clocks, phase : {"pos", "neg"}]
    /\ todo \subseteq Clocks

\* When every clock pin was classified, each flip-flop steps, in the extracted
\* model, as it does in the circuit within one period of its clock: its edge,
\* its enable, clear and preset, the polarity of its outputs and the order of
\* both edges are right at once, whatever the orders of the expansion and of the
\* rebuild.
ClassifiedFlopsStepRight ==
    stage = "done" /\ DOMAIN eventOf = StateVars =>
        \A d \in Clocks : StepsRight({f \in Flops : eventOf[Primary(f)].domain = d}, d)

\* A carrier follows its clock, inverted for the negative phase, in every
\* situation: nothing but the clock is hidden behind a carrier.
CarriersFollowTheirClock ==
    stage = "carriers" => \A v \in DOMAIN events : \A situation \in Situations, high \in SUBSET Clocks :
        Levels(situation, high)[v] = ((events[v].domain \in high) = (events[v].phase = "pos"))

\* No next-state expression reads a carrier: the clock is the step of the
\* model and never one of its inputs.
ClockIsNeverData == \A s \in DOMAIN nextOf : Support(nextOf[s]) \cap DOMAIN events = {}

\* A flip-flop with a classified clock steps as its cell does, and its clock is
\* never read as data.
UpdatesAreRight == TypeOK /\ ClassifiedFlopsStepRight /\ ClockIsNeverData
=============================================================================
