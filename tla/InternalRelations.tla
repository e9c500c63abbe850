------------------------- MODULE InternalRelations -------------------------
(***************************************************************************)
(* The learner of internal relations.  learnInternalStateRelations guesses *)
(* that registers of the two designs are equal, from their names and from  *)
(* shared drivers; proveInternalRelations keeps the guesses that are       *)
(* jointly inductive.  The engines then assume the result in every frame.  *)
(*                                                                         *)
(* A register has the value 0 or 1, or X under the dual-rail encoding,     *)
(* where the rails 00 are no value.  When the learner has finished, the    *)
(* product machine itself runs, so that what was learned can be compared   *)
(* with every state it reaches.                                            *)
(***************************************************************************)
EXTENDS Integers, Sequences, FiniteSets

CONSTANTS
  Machines,        \* the pairs of designs a run may be given
  NumRegisters,    \* state bits of design 0, then of design 1
  NumSide0,        \* how many of them belong to design 0
  Names, NoName,   \* display names; none
  Drivers,         \* identities of next-state expressions
  Inputs,
  X, Free,         \* the unknown value; no initial assignment
  MaxRounds,       \* 64
  MaxSimulation    \* 16

Registers == 1..NumRegisters
Side0 == 1..NumSide0
Values == {0, 1, X}
State == [Registers -> Values]

Machine ==
  [name : [Registers -> Names \cup {NoName}], driver : [Registers -> Drivers],
   init : [Registers -> Values \cup {Free}], next : [State \X Inputs -> State],
   values : SUBSET Values, allowX : BOOLEAN, large : BOOLEAN]

\* What is asked of the constants; modules that instantiate this one assume it.
RelationConstants ==
  /\ Machines \subseteq Machine
  /\ NumRegisters \in Nat \ {0} /\ NumSide0 \in 0..NumRegisters
  /\ MaxRounds \in Nat \ {0} /\ MaxSimulation \in Nat
  /\ Free \notin Values /\ X \notin {0, 1} /\ NoName \notin Names
  /\ \A m \in Machines :
       /\ \A r \in Registers : m.init[r] \in m.values \cup {Free}
       /\ \A s \in [Registers -> m.values], x \in Inputs :
            m.next[<<s, x>>] \in [Registers -> m.values]

(***************************************************************************)
(* Of a machine, values is {0, 1}, or {0, 1, X} under the dual-rail        *)
(* encoding; next is the transition relation of all registers; large says  *)
(* that the logic of the candidates has more than kLogicNodeLimit nodes.   *)
(***************************************************************************)
VARIABLES
  machine,     \* the two designs; never changes
  stage,       \* collect, merge, prove or done
  pos,         \* the loop index of the stage
  candidates,  \* the guesses whose base case holds, in order
  active,      \* the indices of the guesses that are still alive
  merged,      \* the register whose literal stands for each register
  refuted,     \* guesses refuted in the round
  round,
  proved,      \* what is returned: the relations assumed later
  gaveUp,      \* history: a provable guess was dropped as undecided
  split,       \* history: a round was proved in several partitions
  state        \* the state of the product machine

learnerVars == <<machine, stage, pos, candidates, active, merged, refuted, round,
          proved, gaveUp, split, state>>

States == [Registers -> machine.values]

InitStates ==
  {s \in States : \A r \in Registers :
                    machine.init[r] # Free => s[r] = machine.init[r]}

LearnerInit ==
  /\ machine \in Machines
  /\ stage = "collect" /\ pos = 1
  /\ candidates = <<>> /\ active = {}
  /\ merged = [r \in Registers |-> r]
  /\ refuted = {} /\ round = 0 /\ proved = {}
  /\ gaveUp = FALSE /\ split = FALSE
  /\ state \in InitStates

-----------------------------------------------------------------------------
(* Relations *)

\* relationWord on one pattern: equal, and a value when X is not allowed.
Holds(c, s) ==
  /\ s[c[1]] = s[c[2]]
  /\ machine.allowX \/ (s[c[1]] # X /\ s[c[2]] # X)

AllHold(I, s) == \A i \in I : Holds(candidates[i], s)

\* Faulty variant: a register without an initial assignment is accepted.
BaseUnlessContradicted(c) ==
  /\ \/ Free \in {machine.init[c[1]], machine.init[c[2]]}
     \/ machine.init[c[1]] = machine.init[c[2]]
  /\ machine.allowX \/ machine.init[c[1]] # X

\* The base case: both registers have the same initial assignment.
BaseHolds(c) ==
  /\ machine.init[c[1]] # Free /\ machine.init[c[2]] # Free
  /\ machine.init[c[1]] = machine.init[c[2]]
  /\ machine.allowX \/ machine.init[c[1]] # X

-----------------------------------------------------------------------------
(* learnInternalStateRelations *)

SameSide(q, r) == q \in Side0 <=> r \in Side0

\* The earlier registers a guess relates register r to: the first one of the
\* same name on either side, the first one of the same side and driver.
First(S) == CHOOSE q \in S : \A p \in S : q <= p
SameName(r) ==
  {q \in 1..r - 1 : machine.name[q] = machine.name[r] /\ machine.name[r] # NoName}
SameDriver(r) ==
  {q \in 1..r - 1 : SameSide(q, r) /\ machine.driver[q] = machine.driver[r]}

\* append, together with the filter proveInternalRelations starts with.
Append1(cs, S, r) ==
  IF S # {} /\ BaseHolds(<<First(S), r>>) THEN Append(cs, <<First(S), r>>) ELSE cs

CollectCandidates ==
  /\ stage = "collect" /\ pos <= NumRegisters
  /\ candidates' = Append1(Append1(candidates, SameName(pos), pos), SameDriver(pos), pos)
  /\ pos' = pos + 1
  /\ UNCHANGED <<machine, stage, active, merged, refuted, round, proved, gaveUp,
                 split, state>>

\* proveInternalRelations gives up on an empty or too large set of guesses.
StartProof ==
  /\ stage = "collect" /\ pos > NumRegisters
  /\ IF candidates = <<>> \/ machine.large
     THEN stage' = "done" /\ UNCHANGED <<active, pos>>
     ELSE stage' = "merge" /\ active' = DOMAIN candidates /\ pos' = 1
  /\ UNCHANGED <<machine, candidates, merged, refuted, round, proved, gaveUp,
                 split, state>>

-----------------------------------------------------------------------------
(* One round of proveInternalRelations *)

(***************************************************************************)
(* Both registers of a hypothesis share one current-frame literal.  The    *)
(* pairs are taken in order, and a register that is the right-hand side of *)
(* two of them keeps the literal of the last one only.                     *)
(***************************************************************************)
MergeHypothesis ==
  /\ stage = "merge" /\ pos <= Len(candidates)
  /\ merged' = IF pos \in active
               THEN [merged EXCEPT ![candidates[pos][2]] = merged[candidates[pos][1]]]
               ELSE merged
  /\ pos' = pos + 1
  /\ UNCHANGED <<machine, stage, candidates, active, refuted, round, proved,
                 gaveUp, split, state>>

StartPartitions ==
  /\ stage = "merge" /\ pos > Len(candidates)
  /\ stage' = "prove" /\ pos' = 0
  /\ UNCHANGED <<machine, candidates, active, merged, refuted, round, proved,
                 gaveUp, split, state>>

\* The states a partition's solver admits: the literals of the merged
\* registers take any values, and the relations of the partition hold.
Admitted(P) ==
  {s \in {[r \in Registers |-> l[merged[r]]] : l \in States} : AllHold(P, s)}

Refutes(i, s, x) == ~Holds(candidates[i], machine.next[<<s, x>>])

Refutable(P) == {i \in P : \E s \in Admitted(P), x \in Inputs : Refutes(i, s, x)}

\* refuteBySimulation: from states in which every guess holds, the registers
\* of the guesses step while the others keep their value.
Related == UNION {{candidates[i][1], candidates[i][2]} : i \in active}
SimulationStep(s, x) ==
  [r \in Registers |-> IF r \in Related THEN machine.next[<<s, x>>][r] ELSE s[r]]
Hypothetical == {s \in States : AllHold(active, s)}
Simulate(S) == S \cup {SimulationStep(s, x) : s \in S, x \in Inputs}

\* The states within n steps of one in which every guess holds.
Simulated[n \in 0..MaxSimulation] ==
  IF n = 0 THEN Hypothetical ELSE Simulate(Simulated[n - 1])

\* Faulty variant: the patterns in which a guess fails are not discarded.
SeenFromAnyState ==
  {i \in active : \E s \in States, x \in Inputs :
                    ~Holds(candidates[i], SimulationStep(s, x))}

SeenDiffering ==
  LET seen == Simulated[MaxSimulation]
  IN  {i \in active : \E s \in seen : ~Holds(candidates[i], s)}

\* The next partition: the guesses up to the one that fills the solver.
Partitions ==
  LET rest == {i \in active : i > pos}
  IN  {{i \in rest : i <= end} : end \in rest}

Proved(P, R) ==
  /\ stage = "prove"
  /\ refuted' = R
  /\ \E end \in P : (\A i \in P : i <= end) /\ pos' = end
  /\ split' = (split \/ P # active)
  /\ UNCHANGED <<machine, stage, candidates, active, merged, round, proved, state>>

\* The whole partition is proved by one query.
PartitionUnsat ==
  /\ stage = "prove"
  /\ \E P \in Partitions :
       Refutable(P) = {} /\ Proved(P, refuted) /\ UNCHANGED gaveUp

\* A counterexample refutes what it violates, and, replayed next to random
\* states, any of the guesses that are seen differing.
PartitionSat ==
  /\ stage = "prove"
  /\ \E P \in Partitions : \E s \in Admitted(P), x \in Inputs :
       LET violated == {i \in P : Refutes(i, s, x)}
       IN  /\ violated # {}
           /\ \E seen \in SUBSET SeenDiffering :
                Proved(P, refuted \cup seen \cup violated)
           /\ UNCHANGED gaveUp

\* The joint query hits its limit: every guess is a query of its own, and the
\* ones that are not proved are given up.  What a simulation said of them
\* before is overwritten.
PartitionUnknown ==
  /\ stage = "prove"
  /\ \E P \in Partitions : \E R \in SUBSET P :
       /\ Refutable(P) \subseteq R
       /\ Proved(P, (refuted \ P) \cup R)
       /\ gaveUp' = (gaveUp \/ R # Refutable(P))

\* A round that refutes nothing is the certificate; otherwise the refuted
\* guesses are dropped and the rest is proved again, for at most 64 rounds.
EndRound ==
  /\ stage = "prove" /\ \A i \in active : i <= pos
  /\ IF refuted = {}
     THEN /\ stage' = "done"
          /\ proved' = {candidates[i] : i \in active}
          /\ UNCHANGED <<active, round, pos, merged>>
     ELSE /\ active' = active \ refuted
          /\ round' = round + 1
          /\ pos' = 1
          /\ merged' = [r \in Registers |-> r]
          /\ stage' = IF round' = MaxRounds \/ active' = {} THEN "done" ELSE "merge"
          /\ UNCHANGED proved
  /\ refuted' = {}
  /\ UNCHANGED <<machine, candidates, gaveUp, split, state>>

-----------------------------------------------------------------------------
\* The designs run while the engines assume what was proved.
MachineStep ==
  /\ stage = "done"
  /\ \E x \in Inputs : state' = machine.next[<<state, x>>]
  /\ UNCHANGED <<machine, stage, pos, candidates, active, merged, refuted, round,
                 proved, gaveUp, split>>

Learn ==
  \/ CollectCandidates \/ StartProof \/ MergeHypothesis \/ StartPartitions
  \/ PartitionUnsat \/ PartitionSat \/ PartitionUnknown \/ EndRound

LearnerNext == Learn \/ MachineStep

LearnerSpec == LearnerInit /\ [][LearnerNext]_learnerVars /\ WF_learnerVars(Learn)

-----------------------------------------------------------------------------
LearnerTypeOK ==
  /\ machine \in Machines
  /\ stage \in {"collect", "merge", "prove", "done"}
  /\ pos \in 0..NumRegisters + Len(candidates) + 1
  /\ candidates \in Seq(Registers \X Registers)
  /\ active \subseteq DOMAIN candidates
  /\ merged \in [Registers -> Registers]
  /\ refuted \subseteq active
  /\ round \in 0..MaxRounds
  /\ proved \subseteq Registers \X Registers
  /\ gaveUp \in BOOLEAN /\ split \in BOOLEAN
  /\ state \in States

\* Every relation that proveInternalRelations returns holds in every state the
\* two designs reach: the engines may assume it in every frame.
ProvedRelationsHold == \A c \in proved : Holds(c, state)

\* The jointly inductive sets of guesses.
Inductive(I) ==
  \A s \in States : AllHold(I, s) =>
    \A x \in Inputs : AllHold(I, machine.next[<<s, x>>])

\* As long as each round is one partition and nothing is given up, only guesses
\* outside the greatest jointly inductive set are refuted, by simulation too
\* although it freezes the other registers.
OnlyOutsidersRefuted ==
  ~gaveUp /\ ~split /\ stage \in {"merge", "prove"} =>
    \A I \in SUBSET DOMAIN candidates : Inductive(I) => I \cap refuted = {} /\ I \subseteq active

=============================================================================
