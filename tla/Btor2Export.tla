----------------------------- MODULE Btor2Export -----------------------------
(***************************************************************************)
(* Writing the prepared problem as a BTOR2 file (SecBtor2Exporter.cpp,     *)
(* Btor2Writer.cpp), and a model checker that reads it.                    *)
(*                                                                         *)
(* BTOR2 has no frames: what the bounded search says about frame 0, about  *)
(* the reset prefix and about the first frame that counts has to be said   *)
(* with state bits that count.  The file is written to a temporary         *)
(* directory next to its destination and renamed when it is whole.         *)
(*                                                                         *)
(* The model kept in the file is a record: inputs and states (symbols),    *)
(* init (symbol to value), next (symbol to tree), constraints (trees) and  *)
(* bad (trees); nodes stand for the trees they denote.                     *)
(***************************************************************************)
EXTENDS BaseCaseRuns

VARIABLES
  phase,        \* what the exporter does next; "done", "failed" or "crashed"
  model,        \* what has been written
  temporary,    \* "none", "partial" or "whole"
  destination   \* the file: "absent" or "old" or "new", and its model

exportVars == <<phase, model, temporary, destination>>
vars == <<runVars, exportVars>>

-----------------------------------------------------------------------------
(* ExportTimeline: a counter of one-bit states that stops at its last      *)
(* frame.                                                                  *)

Cycle(b) == 40 + b
Initial == 39

BitSet(n, b) == (n \div 2^b) % 2 = 1
BitWidth(n) == CHOOSE w \in 0..8 : n < 2^w /\ (w = 0 \/ n >= 2^(w - 1))
BitsOf(last) == [k \in 1..BitWidth(last) |-> k - 1]

FrameIs(last, f) ==
  FoldLeft(LAMBDA t, b : And(t, IF BitSet(f, b) THEN Var(Cycle(b)) ELSE Not(Var(Cycle(b)))),
           True, BitsOf(last))

\* before: compared from the highest bit down.
Before(last, f) ==
  LET step(acc, b) ==
        IF BitSet(f, b)
          THEN [less |-> Or(acc.less, And(acc.equal, Not(Var(Cycle(b))))),
                equal |-> And(acc.equal, Var(Cycle(b)))]
          ELSE [less |-> acc.less, equal |-> And(acc.equal, Not(Var(Cycle(b))))]
  IN FoldLeft(step, [less |-> False, equal |-> True], Reverse(BitsOf(last))).less

\* The counter's transitions.
CountUp(last) ==
  LET advance == Not(FrameIs(last, last))
      step(acc, b) ==
        [next |-> acc.next @@ (Cycle(b) :> Xor(Var(Cycle(b)), And(acc.carry, advance))),
         carry |-> And(acc.carry, Var(Cycle(b)))]
  IN FoldLeft(step, [next |-> << >>, carry |-> True], BitsOf(last)).next

\* firstFrame: the counter, or a state of its own when nothing is counted.
FirstFrame(last) == IF last # 0 THEN FrameIs(last, 0) ELSE Var(Initial)

-----------------------------------------------------------------------------
(* The exporter's own reading of the startup rules.                        *)

resetFrames ==
  IF (~hasCompleteInitialState(problem) \/ problem.dual) /\ hasResetBootstrap(problem)
    THEN problem.cycles ELSE 0
resetObservation == resetFrames # 0 /\ usesResetBootstrapObservationFrontier(problem)
initialObservation ==
  resetFrames = 0 /\ problem.states # {} /\ ~hasCompleteInitialState(problem)
firstBad ==
  IF resetFrames # 0 THEN resetFrames + (IF resetObservation THEN 1 ELSE 0)
  ELSE IF initialObservation THEN 1 ELSE 0

\* The counter runs past the frontier, so that the frontier comes once.
lastFrame ==
  IF resetFrames # 0 THEN IF firstBad > resetFrames + 1 THEN firstBad ELSE resetFrames + 1
  ELSE firstBad

When(condition, tree) == Or(Not(condition), tree)
Equal(a, b) == Not(Xor(a, b))
Literal(x, value) == IF value THEN Var(x) ELSE Not(Var(x))

Empty == [inputs |-> {}, states |-> {}, init |-> << >>, next |-> << >>, constraints |-> {},
          bad |-> {}]

-----------------------------------------------------------------------------
Init ==
  /\ RunInit
  /\ phase = "start" /\ model = Empty /\ temporary = "none"
  /\ destination \in {[kind |-> k, model |-> Empty] : k \in {"absent", "old"}}

\* Variant: the destination itself is written.
WriteInPlace(to, m) == [kind |-> "new", model |-> m]

\* Lines go to the temporary file.
Written(to, m) == to

Write(from, to, m) ==
  /\ phase = from /\ phase' = to
  /\ model' = m
  /\ destination' = Written(destination, m)
  /\ UNCHANGED <<runVars, temporary>>

CreateTemporary ==
  /\ phase = "start" /\ phase' = "declare"
  /\ temporary' = "partial"
  /\ UNCHANGED <<runVars, model, destination>>

Declare ==
  Write("declare", "transitions",
        [model EXCEPT !.inputs = problem.inputs, !.states = problem.states])

\* Variant: both outputs of a complemented pair are inverted.
InvertBoth(x) ==
  LET pairs == {c \in problem.complements : x \in {c[1], c[2]}}
  IN IF pairs # {} THEN Not(problem.next[(CHOOSE c \in pairs : TRUE)[1]]) ELSE problem.next[x]

\* A complemented output has no transition of its own.
NextTree(x) ==
  IF x \in DOMAIN problem.next THEN problem.next[x]
  ELSE Not(problem.next[CHOOSE y \in problem.states : <<y, x>> \in problem.complements])

HasNext(x) ==
  x \in DOMAIN problem.next
  \/ \E c \in problem.complements : c[2] = x /\ c[1] \in DOMAIN problem.next

Transitions ==
  /\ \A x \in problem.states : HasNext(x)
  /\ Write("transitions", "relations",
           [model EXCEPT !.next = [x \in problem.states |-> NextTree(x)]])

\* Relations that hold in every frame.
Relations ==
  Write("relations", "timeline",
    [model EXCEPT !.constraints =
       @ \cup {Equal(Not(Var(c[1])), Var(c[2])) : c \in problem.complements}
         \cup {Equal(Var(q[1]), Var(q[2])) : q \in problem.equalities}
         \cup {Or(Var(r[1]), Var(r[2])) : r \in problem.rails}])

Timeline ==
  LET bits == {Cycle(b) : b \in ToSet(BitsOf(lastFrame))}
  IN Write("timeline", "startup",
       [model EXCEPT !.states = @ \cup bits,
                     !.init = @ @@ [x \in bits |-> FALSE],
                     !.next = @ @@ CountUp(lastFrame)])

Initializes ==
  IF resetFrames # 0 THEN problem.dual ELSE problem.states # {} /\ problem.initialized # 0

\* Initial values that are no assignments are a constraint on frame 0.
ConditionUsed ==
  Initializes /\ DOMAIN problem.initial = {} /\ resetFrames = 0 /\ problem.condition # True

AtFirstFrame ==
  (IF ConditionUsed THEN {problem.condition} ELSE {})
  \cup (IF initialObservation THEN {problem.property} ELSE {})

\* firstFrame makes its state when it is first asked for.
InitialFrameState(m) ==
  IF AtFirstFrame # {} /\ lastFrame = 0
    THEN [m EXCEPT !.states = @ \cup {Initial}, !.init = @ @@ (Initial :> TRUE),
                   !.next = @ @@ (Initial :> False)]
    ELSE m

Startup ==
  Write("startup", "reset",
    InitialFrameState(
      [model EXCEPT
         !.init = IF Initializes THEN @ @@ problem.initial ELSE @,
         !.constraints = @ \cup {When(FirstFrame(lastFrame), t) : t \in AtFirstFrame}]))

ResetPrefix ==
  LET active == Before(lastFrame, resetFrames)
      frontier == FrameIs(lastFrame, resetFrames)
      ports == {Equal(Var(x), IF problem.resetInputs[x] THEN active ELSE Not(active)) :
                  x \in DOMAIN problem.resetInputs}
      observed == IF resetObservation THEN {When(frontier, problem.property)} ELSE {}
      registers == IF problem.dual THEN {}
                   ELSE {When(frontier, Literal(x, problem.bootstrap[x])) :
                           x \in DOMAIN problem.bootstrap}
  IN Write("reset", "bad",
       [model EXCEPT !.constraints =
          IF resetFrames = 0 THEN @ ELSE @ \cup ports \cup observed \cup registers])

BadTree ==
  IF firstBad = 0 THEN Not(problem.property)
  ELSE And(Not(Before(lastFrame, firstBad)), Not(problem.property))

Bad == Write("bad", "close", [model EXCEPT !.bad = {BadTree}])

Close ==
  /\ phase = "close" /\ phase' = "rename"
  /\ temporary' = "whole"
  /\ UNCHANGED <<runVars, model, destination>>

Rename ==
  /\ phase = "rename" /\ phase' = "remove"
  /\ destination' = [kind |-> "new", model |-> model]
  /\ UNCHANGED <<runVars, model, temporary>>

\* The temporary directory goes away with its owner.
RemoveTemporary ==
  /\ phase = "remove" /\ phase' = "done"
  /\ temporary' = "none"
  /\ UNCHANGED <<runVars, model, destination>>

Working == {"declare", "transitions", "relations", "timeline", "startup", "reset", "bad",
            "close", "rename"}

\* An exception: the directory cannot be made, a line cannot be written, a
\* transition is missing, the rename fails.
Fails ==
  /\ phase \in Working \cup {"start"} /\ phase' = "failed"
  /\ temporary' = "none"
  /\ UNCHANGED <<runVars, model, destination>>

Crash ==
  /\ phase \in Working \cup {"remove"} /\ phase' = "crashed"
  /\ UNCHANGED <<runVars, model, temporary, destination>>

-----------------------------------------------------------------------------
(* A model checker reads the file.  state holds all its state bits.        *)

File == destination.model

ReaderStart ==
  /\ destination.kind = "new" /\ phase \in {"done", "crashed"} /\ ~running
  /\ running' = TRUE
  /\ state' \in {v \in [File.states -> BOOLEAN] : Matches(File.init, v)}
  /\ UNCHANGED <<problem, frame, exportVars>>

Allowed(v, ins) == \A c \in File.constraints : Evaluate(c, v @@ ins)

ReaderStep(ins) ==
  /\ running /\ frame < MaxFrame
  /\ Allowed(state, ins)
  /\ frame' = frame + 1
  /\ state' = [x \in File.states |-> Evaluate(File.next[x], state @@ ins)]
  /\ UNCHANGED <<problem, running, exportVars>>

Next ==
  \/ CreateTemporary \/ Declare \/ Transitions \/ Relations \/ Timeline \/ Startup
  \/ ResetPrefix \/ Bad \/ Close \/ Rename \/ RemoveTemporary \/ Fails \/ Crash
  \/ ReaderStart
  \/ \E ins \in InputValues(problem) : ReaderStep(ins)

Spec == Init /\ [][Next]_vars

-----------------------------------------------------------------------------
(* The properties.                                                         *)

DesignPart(v) == [x \in problem.states |-> v[x]]

\* Every variable has its type, and a model that is read has a transition for
\* each of its states.
TypeOK ==
  /\ phase \in Working \cup {"start", "remove", "done", "failed", "crashed"}
  /\ temporary \in {"none", "partial", "whole"}
  /\ destination.kind \in {"absent", "old", "new"}
  /\ frame \in 0..MaxFrame
  /\ DOMAIN model.init \subseteq model.states /\ DOMAIN model.next \subseteq model.states
  /\ running => DOMAIN state = File.states /\ DOMAIN File.next = File.states

\* Whatever fails and wherever the exporter is killed, the destination is
\* what it was or a whole model, and only a killed exporter leaves its
\* temporary directory behind.
FileIsOldOrWhole ==
  /\ destination.kind = "new" => File.bad = {BadTree}
  /\ phase = "failed" => destination.kind # "new"
  /\ phase \in {"done", "failed"} => temporary = "none"

\* Every start of the bounded search is a start of the file's model, and no
\* other is.
StartsAgree ==
  phase = "done" /\ ~running =>
    \A v \in [problem.states -> BOOLEAN] : \A ins \in InputValues(problem) :
      FrameHolds(problem, 0, v, ins) =
        \E w \in [File.states -> BOOLEAN] :
          Matches(v, w) /\ Matches(File.init, w) /\ Allowed(w, ins)

\* In every frame of every run, also long after the counter has stopped, the
\* file's constraints say what the bounded search asserts about that frame.
FramesAgree ==
  running =>
    \A ins \in InputValues(problem) :
      Allowed(state, ins) = FrameHolds(problem, frame, DesignPart(state), ins)

\* The file's bad property holds exactly where the bounded search would
\* report a mismatch.
MismatchesAgree ==
  running =>
    \A ins \in InputValues(problem) : \A b \in File.bad :
      Allowed(state, ins) =>
        Evaluate(b, state @@ ins) = Mismatch(problem, frame, DesignPart(state), ins)

\* The runs of the file's model are runs of the bounded search.
BaseCase == INSTANCE BaseCaseRuns WITH state <- IF running THEN DesignPart(state) ELSE << >>

RunsAreBaseCaseRuns == BaseCase!Runs

\* The exported model starts, goes on and fails where the bounded search does,
\* and the file never holds a part of it.
ExportIsRight == TypeOK /\ FileIsOldOrWhole /\ StartsAgree /\ FramesAgree /\ MismatchesAgree
=============================================================================
