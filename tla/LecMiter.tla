----------------------------- MODULE LecMiter -----------------------------
(***************************************************************************)
(* Combinational comparison of two designs: inputs and outputs are matched *)
(* by path, the outputs of both designs become functions over numbered     *)
(* variables, one query asks whether any pair differs, and the outputs are *)
(* then analysed one by one.  A job is one pair of designs, or the scopes  *)
(* extracted from them one after the other.                                *)
(*                                                                         *)
(* A path is a number; the order of numbers is the order of path keys.  An *)
(* output is the set of input paths it reads and the sets of them for      *)
(* which it is true.  The SAT solver is external and exact.                *)
(***************************************************************************)
EXTENDS Naturals, Sequences, FiniteSets, FiniteSetsExt, SequencesExt

CONSTANTS Jobs      \* records [mode, allow, scopes], see IsJob

Sides == {0, 1}
None == "none"

IsOutput(o) ==
    /\ o.valid \in BOOLEAN
    /\ o.on \subseteq SUBSET o.reads
IsDesign(d) ==
    /\ IsInjective(d.inputs)
    /\ d.boundary \subseteq ToSet(d.inputs)
    /\ \A p \in DOMAIN d.outputs :
         IsOutput(d.outputs[p]) /\ d.outputs[p].reads \subseteq ToSet(d.inputs)
IsJob(j) ==
    /\ j.mode \in {"plain", "compact", "snapshots"}
    /\ j.allow \in BOOLEAN
    /\ \A k \in DOMAIN j.scopes, s \in Sides : IsDesign(j.scopes[k][s])
    \* A compact run destroys the designs it has built.
    /\ j.mode # "plain" => Len(j.scopes) = 1

\* What is asked of the constants; modules that instantiate this one assume it.
JobsAreWellFormed == \A j \in Jobs : IsJob(j)

VARIABLES job,
          at,         \* the scope under comparison
          stage,      \* what happens to it next
          inputs,     \* the matched inputs of both designs, common ones first
          outputs,    \* the common output paths
          lastCommon, \* lastCommonVarID_
          POs,        \* the outputs of both designs over variables
          po,         \* the output under analysis
          failed,     \* failedPOs_, with their scope
          allSame,    \* allScopesEquivalent
          status,     \* the status of the run result
          exit        \* the exit code

vars == <<job, at, stage, inputs, outputs, lastCommon, POs, po, failed, allSame,
          status, exit>>

design(s) == job.scopes[at][s]

-----------------------------------------------------------------------------
(* Matching *)

InOrder(S) == SetToSortSeq(S, <)

Common(f) == f[0] \cap f[1]

boundaryMatches(f) == Common(f) = f[0] /\ Common(f) = f[1]

inputsOf == [s \in Sides |-> ToSet(design(s).inputs)]

(* One-sided inputs follow in the order of a hash table, or of the snapshot. *)
oneSided(s) ==
    IF job.mode = "snapshots"
    THEN {SelectSeq(design(s).inputs, LAMBDA p : p \notin Common(inputsOf))}
    ELSE SetToSeqs(inputsOf[s] \ Common(inputsOf))

outputsOf == [s \in Sides |-> DOMAIN design(s).outputs]

(* Unsigned subtraction: n - 1 > 0 holds for zero, where n - 1 + 2 wraps to 1. *)
lastCommonOf(n) ==
    IF job.mode = "snapshots" THEN (IF n > 0 THEN n - 1 + 2 ELSE 1)
    ELSE IF n # 1 THEN n + 1 ELSE 1

-----------------------------------------------------------------------------
(* Expressions over variables *)

(* Variables 0 and 1 are the constants. *)
VarOf(seq) == [p \in ToSet(seq) |-> (CHOOSE i \in DOMAIN seq : seq[i] = p) + 1]

Renamed(o, f) ==
    [valid |-> o.valid,
     reads |-> {f[v] : v \in o.reads},
     on |-> {{f[v] : v \in s} : s \in o.on}]

(* buildCompactVarRemap: from positions in the snapshot to matched positions. *)
varRemap(original, normalized) ==
    [v \in {i + 1 : i \in DOMAIN original} |-> VarOf(normalized)[original[v - 1]]]

(* A snapshot was built over its own numbering and is renumbered. *)
build(s) ==
    [i \in DOMAIN outputs |->
        LET o == design(s).outputs[outputs[i]]
        IN IF job.mode = "snapshots"
           THEN Renamed(Renamed(o, VarOf(design(s).inputs)),
                        varRemap(design(s).inputs, inputs[s]))
           ELSE Renamed(o, VarOf(inputs[s]))]

Value(o, assignment) == (assignment \cap o.reads) \in o.on

Differ(a, b) == \E v \in SUBSET (a.reads \cup b.reads) : Value(a, v) # Value(b, v)

(* Faulty variant: the first output without an expression ends the miter. *)
miterUpToInvalid(A, B) ==
    \E i \in DOMAIN A :
        /\ \A k \in 1 .. i : A[k].valid /\ B[k].valid
        /\ Differ(A[i], B[i])

(* buildMiter and its query: some pair with expressions on both sides differs. *)
miter(A, B) == \E i \in DOMAIN A : A[i].valid /\ B[i].valid /\ Differ(A[i], B[i])

-----------------------------------------------------------------------------
(* Steps *)

Init ==
    /\ job \in Jobs
    /\ at = 1 /\ stage = "init"
    /\ inputs = [s \in Sides |-> <<>>] /\ outputs = <<>> /\ lastCommon = 1
    /\ POs = [s \in Sides |-> <<>>] /\ po = 1 /\ failed = {}
    /\ allSame = TRUE /\ status = None /\ exit = None

(* An exception ends the job; a status is not assigned. *)
Fail ==
    /\ stage' = "done" /\ exit' = 1
    /\ UNCHANGED <<job, at, inputs, outputs, lastCommon, POs, po, failed, allSame, status>>

BoundaryMismatch ==
    /\ stage = "init" /\ ~job.allow
    /\ ~boundaryMatches([s \in Sides |-> design(s).boundary])
    /\ Fail

(* init, normalizeInputs and normalizeOutputs. *)
Normalize ==
    /\ stage = "init"
    /\ job.allow \/ boundaryMatches([s \in Sides |-> design(s).boundary])
    /\ \E first \in oneSided(0), second \in oneSided(1) :
         LET common == InOrder(Common(inputsOf))
         IN inputs' = [s \in Sides |-> common \o (IF s = 0 THEN first ELSE second)]
    /\ lastCommon' = lastCommonOf(Cardinality(Common(inputsOf)))
    /\ outputs' = InOrder(Common(outputsOf))
    /\ stage' = "build"
    /\ UNCHANGED <<job, at, POs, po, failed, allSame, status, exit>>

Build ==
    /\ stage = "build"
    /\ POs' = [s \in Sides |-> build(s)]
    /\ stage' = IF outputs = <<>> THEN "identical" ELSE "solve"
    /\ UNCHANGED <<job, at, inputs, outputs, lastCommon, po, failed, allSame, status, exit>>

SolveMiter ==
    /\ stage = "solve"
    /\ stage' = CASE ~miter(POs[0], POs[1]) -> "identical"
                  [] job.mode = "plain" -> "analyse"
                  [] OTHER -> "different"
    /\ po' = 1
    /\ UNCHANGED <<job, at, inputs, outputs, lastCommon, POs, failed, allSame, status, exit>>

supported(a, b) == \A v \in a.reads \cup b.reads : v <= lastCommon

followingPO(i) == i + 1

AnalysePO ==
    /\ stage = "analyse" /\ po <= Len(outputs)
    /\ failed' = IF miter(<<POs[0][po]>>, <<POs[1][po]>>) /\ supported(POs[0][po], POs[1][po])
                 THEN failed \cup {<<at, po>>} ELSE failed
    /\ po' = followingPO(po)
    /\ UNCHANGED <<job, at, stage, inputs, outputs, lastCommon, POs, allSame, status, exit>>

AnalysisDone ==
    /\ stage = "analyse" /\ po > Len(outputs)
    /\ stage' = "different"
    /\ UNCHANGED <<job, at, inputs, outputs, lastCommon, POs, po, failed, allSame, status, exit>>

combine(same) == allSame /\ same

ScopeDone ==
    /\ stage \in {"identical", "different"}
    /\ allSame' = combine(stage = "identical")
    /\ IF at < Len(job.scopes)
       THEN /\ at' = at + 1 /\ stage' = "init"
            /\ UNCHANGED <<status, exit>>
       ELSE /\ status' = IF allSame' THEN "Equivalent" ELSE "Different"
            /\ exit' = 0
            /\ stage' = "done" /\ UNCHANGED at
    /\ UNCHANGED <<job, inputs, outputs, lastCommon, POs, po, failed>>

Next ==
    \/ BoundaryMismatch
    \/ Normalize
    \/ Build
    \/ SolveMiter
    \/ AnalysePO
    \/ AnalysisDone
    \/ ScopeDone

Spec == Init /\ [][Next]_vars /\ WF_vars(Next)

-----------------------------------------------------------------------------
(* Properties *)

(* All state stays in its type. *)
TypeOK ==
    /\ at \in DOMAIN job.scopes
    /\ stage \in {"init", "build", "solve", "analyse", "identical", "different", "done"}
    /\ \A s \in Sides : ToSet(inputs[s]) \subseteq UNION {ToSet(job.scopes[k][s].inputs) : k \in DOMAIN job.scopes}
    /\ \A s \in Sides : \A i \in DOMAIN POs[s] : \A v \in POs[s][i].reads : v \in 2 .. Len(inputs[s]) + 1
    /\ failed \subseteq (DOMAIN job.scopes) \X (1 .. po)
    /\ status \in {None, "Equivalent", "Different"}

(* What the netlists say: outputs of both designs by path, with every input *)
(* a signal of its own that both designs share only under one path.         *)
Compared(k) ==
    {p \in (DOMAIN job.scopes[k][0].outputs) \cap DOMAIN job.scopes[k][1].outputs :
        \A s \in Sides : job.scopes[k][s].outputs[p].valid}
ReadsOneSided(k, p, s) ==
    ~ job.scopes[k][s].outputs[p].reads \subseteq ToSet(job.scopes[k][1 - s].inputs)
TrulyDiffer(k, p) ==
    LET o(s) == job.scopes[k][s].outputs[p]
        Own(s) == {v \in o(s).reads : v \in ToSet(job.scopes[k][1 - s].inputs)}
        Signals == {<<2, v>> : v \in Own(0) \cup Own(1)}
                     \cup UNION {{<<s, v>> : v \in o(s).reads \ Own(s)} : s \in Sides}
        Seen(s, t) == {v \in o(s).reads : IF v \in Own(s) THEN <<2, v>> \in t ELSE <<s, v>> \in t}
    IN \E t \in SUBSET Signals : (Seen(0, t) \in o(0).on) # (Seen(1, t) \in o(1).on)

(* EQUIVALENT of a LEC run: no output that both designs have, and that has  *)
(* an expression in both, differs in any scope.  Only where both sides read *)
(* unmatched inputs are these compared by position.                         *)
EquivalentIsRight ==
    status = "Equivalent" =>
        \A k \in DOMAIN job.scopes : \A p \in Compared(k) :
            TrulyDiffer(k, p) => \A s \in Sides : ReadsOneSided(k, p, s)

(* DIFFERENT of a LEC run: some output of some scope differs, whatever was  *)
(* renumbered, reordered or left unmatched.                                 *)
DifferentIsReal ==
    status = "Different" =>
        \E k \in DOMAIN job.scopes : \E p \in Compared(k) : TrulyDiffer(k, p)

(* The analysis of single outputs: every output named in failedPOs_ differs *)
(* and reads matched inputs only.                                           *)
FailedAreReal ==
    \A f \in failed :
        \E p \in Compared(f[1]) :
            /\ p = InOrder((DOMAIN job.scopes[f[1]][0].outputs) \cap DOMAIN job.scopes[f[1]][1].outputs)[f[2]]
            /\ TrulyDiffer(f[1], p)
            /\ \A s \in Sides : ~ReadsOneSided(f[1], p, s)

(* "Difference was found. Please refer to the log": the analysis names every *)
(* differing output that reads matched inputs only, however many inputs the  *)
(* designs have in common.                                                   *)
DifferencesAreNamed ==
    stage = "different" /\ job.mode = "plain" =>
        \A i \in DOMAIN outputs :
            outputs[i] \in Compared(at) /\ TrulyDiffer(at, outputs[i])
              /\ (\A s \in Sides : ~ReadsOneSided(at, outputs[i], s))
            => <<at, i>> \in failed

(* The same where the designs do not have exactly one input in common.      *)
OtherDifferencesAreNamed ==
    Cardinality(Common(inputsOf)) # 1 => DifferencesAreNamed

(* "A mismatch stops the run before SAT solving": without the option, no     *)
(* scope whose boundary inputs differ is ever solved, and no status claims   *)
(* that it was.                                                              *)
MismatchStopsBeforeSolving ==
    ~job.allow =>
        \A k \in DOMAIN job.scopes :
            job.scopes[k][0].boundary # job.scopes[k][1].boundary
            => /\ at <= k
               /\ at = k => stage \in {"init", "done"}
               /\ status = None

\* Both verdicts, and the outputs that the analysis names (MiterStrategy::run).
VerdictsAreRight ==
    /\ TypeOK /\ EquivalentIsRight /\ DifferentIsReal /\ FailedAreReal
    /\ OtherDifferencesAreNamed /\ MismatchStopsBeforeSolving
=============================================================================
