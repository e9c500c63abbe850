------------------------- MODULE MCVerificationRuns -------------------------
(***************************************************************************)
(* Instances of HostSide: two host threads and two pool threads, the       *)
(* requests and processes one tool call is checked on, and two resolvers   *)
(* that share one directory.                                               *)
(***************************************************************************)
EXTENDS HostSide, TLC

-----------------------------------------------------------------------------
(* The requests of the tool.                                                *)

LecVerdicts == {<< >>} \cup {<<a>> : a \in {"equal", "differs", "error"}}
               \cup {<<a, b>> : a \in {"equal", "differs"}, b \in {"equal", "differs", "error"}}

SecVerdicts == {<<a>> : a \in {"proved", "partial", "inconclusive", "unsupported",
                               "counterexample", "exported", "error"}}

\* A request, what its process would print, and how it ends: by itself, or
\* by dying or hanging after some of its lines.  Only a finite timeout ends a
\* process that hangs.
Request(kind, start, mode, verdicts, chatter, fate, after, patient) ==
  [kind |-> kind, start |-> start, mode |-> mode, verdicts |-> verdicts,
   chatter |-> chatter, fate |-> fate, after |-> after, patient |-> patient]

Runs(verdicts, mode) ==
  {Request(k, "ok", mode, v, c, f, n, p) :
     k \in {"lec", "sec"}, v \in verdicts, c \in {0, 2}, p \in BOOLEAN,
     f \in {"exit", "crash", "hang"}, n \in 0..4}

\* A line for the mode, unless the configuration is rejected, and one for each
\* verdict with its chatter.
LogLength(j) == Len(j.verdicts) * (j.chatter + 1) + (IF j.mode = "none" THEN 0 ELSE 1)

Plausible(j) ==
  /\ j.fate = "exit" => j.after = 0
  /\ j.after <= LogLength(j)
  /\ j.fate = "hang" => ~j.patient

NotStarted ==
  {Request("sec", s, "sec", <<"proved">>, 0, "exit", 0, TRUE) :
     s \in {"bad request", "no binary", "no exec"}}

CheckJobs ==
  NotStarted \cup {j \in Runs(LecVerdicts, "lec") \cup Runs(SecVerdicts, "sec")
                         \cup Runs({<<"error">>}, "none") : Plausible(j)}
=============================================================================
