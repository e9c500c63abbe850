----------------------------- MODULE CheckRunner -----------------------------
(***************************************************************************)
(* One tool call of the MCP server: CheckRunner.run starts one             *)
(* kepler-formal process and, from then on, several things happen at once: *)
(* the process writes its log into a pipe of bounded size and exits, dies  *)
(* or hangs; a task reads the pipe and keeps only the end of what it read; *)
(* a task reports progress; the timer runs; the client may cancel the      *)
(* call.  classify_verdict turns the exit code and the kept lines into the *)
(* status the client sees.                                                 *)
(*                                                                         *)
(* A job is a request and what the process will do with it: its tool       *)
(* ("lec" or "sec"), the mode its configuration selects, the verdicts the  *)
(* process prints, the number of other log lines before each of them, and  *)
(* how the process ends.  A line is the pattern of classify_verdict it     *)
(* matches.  The two output streams are one pipe.                          *)
(***************************************************************************)
EXTENDS Integers, Sequences, SequencesExt

CONSTANTS
  Jobs,        \* the jobs a run starts from
  TailLimit,   \* lines kept of the output (MAX_CAPTURE_BYTES)
  PipeLimit,   \* lines the pipe holds before a writer blocks
  MaxUpdates   \* bound on the progress updates of a run

\* What is asked of the constants; modules that instantiate this one assume it.
LimitsArePositive == TailLimit \in Nat \ {0} /\ PipeLimit \in Nat \ {0}

VARIABLES
  job,       \* the request and what its process does
  phase,     \* where CheckRunner.run stands
  proc,      \* the process: "none", "alive" or "gone"
  killed,    \* SIGKILL was sent to its process group
  code,      \* its return code
  written,   \* lines it has written
  pipe,      \* lines written and not read
  tail,      \* lines _read_tail keeps
  open,      \* _read_tail has not returned
  reporter,  \* the progress task: "off", "due" or "asleep"
  updates,   \* progress updates sent
  timedOut,  \* run took its timeout branch
  status     \* status of the result, "none" before one is returned

stream == <<written, pipe, tail, open>>
vars == <<job, phase, proc, killed, code, written, pipe, tail, open, reporter,
          updates, timedOut, status>>

\* Some line matches one of the patterns.
Shows(lines, patterns) == \E i \in DOMAIN lines : lines[i] \in patterns

CrashCode == 134
KillCode == 137

-----------------------------------------------------------------------------
(* What the process prints and how it exits (runKeplerFormalWorkflow).     *)

\* The lines after the one for the mode: a verdict after every so many others.
IsVerdict(j, i, k) == i = k * (j.chatter + 1)

LineAt(j, i) ==
  IF \E k \in DOMAIN j.verdicts : IsVerdict(j, i, k)
  THEN j.verdicts[CHOOSE k \in DOMAIN j.verdicts : IsVerdict(j, i, k)]
  ELSE "log"

\* The whole log of a job that is left alone: the mode, then the verdict of
\* each scope (LEC) or of the run (SEC), each after the same number of other
\* lines.  A configuration that is rejected ("none") stops before the mode is
\* printed.
Lines(j) ==
  (IF j.mode = "none" THEN << >> ELSE <<j.mode>>)
  \o [i \in 1..(Len(j.verdicts) * (j.chatter + 1)) |-> LineAt(j, i)]

\* A SEC run that only exports (dump_only) prints no verdict of a proof.
LecVerdicts == {"equal", "differs", "error"}
SecVerdicts == {"proved", "partial", "inconclusive", "unsupported", "counterexample",
                "exported", "error"}
Starts == {"bad request", "no binary", "no exec", "ok"}

\* The verdicts printed in a mode: one for each scope of LEC, one for SEC, an
\* error for a rejected configuration.
VerdictsOf(mode) ==
  CASE mode = "lec" -> Seq(LecVerdicts)
    [] mode = "sec" -> {<<v>> : v \in SecVerdicts}
    [] mode = "none" -> {<<"error">>}

\* What is asked of the jobs; modules that instantiate this one assume it.
JobsAreComplete ==
  \A j \in Jobs :
    /\ j.kind \in {"lec", "sec"} /\ j.start \in Starts
    /\ j.mode \in {"lec", "sec", "none"} /\ j.verdicts \in VerdictsOf(j.mode)
    /\ j.chatter \in Nat /\ j.after \in 0..Len(Lines(j))
    /\ j.fate \in {"exit", "crash", "hang"}

\* LEC exits with success whatever it found.
ExitCode(j) ==
  IF Shows(j.verdicts, {"error"}) THEN 1
  ELSE IF j.mode = "lec" THEN 0
  ELSE CASE Last(j.verdicts) \in {"proved", "exported"} -> 0
         [] Last(j.verdicts) = "partial" -> 1
         [] Last(j.verdicts) = "counterexample" -> 3
         [] OTHER -> 2

-----------------------------------------------------------------------------
(* classify_verdict: lines is the kept output.                             *)

ModeLines == {"lec", "sec"}
DifferenceLines == {"differs", "counterexample"}
NoDifferenceLines == {"equal", "proved"}

\* The last line that names a mode names another one.
RanInOtherMode(kind, lines) ==
  \E i \in DOMAIN lines :
    /\ lines[i] \in ModeLines \ {kind}
    /\ \A k \in DOMAIN lines : k > i => lines[k] \notin ModeLines

LecStatus(exit, lines) ==
  IF Shows(lines, DifferenceLines) THEN "check_failed"
  ELSE IF exit = 0 /\ Shows(lines, NoDifferenceLines) THEN "passed" ELSE "crash"

SecStatus(exit, lines) ==
  CASE exit = 0 -> "passed"
    [] exit = 3 -> "check_failed"
    [] exit = 2 -> "inconclusive"
    [] exit = 1 /\ Shows(lines, {"partial"}) -> "inconclusive"
    [] OTHER -> "crash"

\* A classification that believes the exit code of a LEC run.
ClassifyByExitCode(kind, exit, lines) ==
  IF RanInOtherMode(kind, lines) THEN "crash"
  ELSE IF kind = "lec" THEN (IF exit = 0 THEN "passed" ELSE LecStatus(exit, lines))
  ELSE SecStatus(exit, lines)

classify_verdict(kind, exit, lines) ==
  IF RanInOtherMode(kind, lines) THEN "crash"
  ELSE IF kind = "lec" THEN LecStatus(exit, lines)
  ELSE SecStatus(exit, lines)

-----------------------------------------------------------------------------
Init ==
  /\ job \in Jobs
  /\ phase = "new" /\ proc = "none" /\ killed = FALSE /\ code = 0
  /\ written = 0 /\ pipe = << >> /\ tail = << >> /\ open = FALSE
  /\ reporter = "off" /\ updates = 0
  /\ timedOut = FALSE /\ status = "none"

Return(s) == phase' = "done" /\ status' = s

\* The configuration path, the timeout and the file are checked before
\* anything is started.
CheckRequest ==
  /\ phase = "new"
  /\ IF job.start = "bad request"
       THEN Return("crash")
       ELSE phase' = "resolving" /\ UNCHANGED status
  /\ UNCHANGED <<job, proc, killed, code, stream, reporter, updates, timedOut>>

\* resolver.resolve in a thread of its own.
ResolveBinary ==
  /\ phase = "resolving"
  /\ IF job.start = "no binary"
       THEN Return("setup_error")
       ELSE phase' = "spawning" /\ UNCHANGED status
  /\ UNCHANGED <<job, proc, killed, code, stream, reporter, updates, timedOut>>

\* create_subprocess_exec, and the tasks started with the process.
Spawn ==
  /\ phase = "spawning"
  /\ IF job.start = "no exec"
       THEN /\ Return("crash")
            /\ UNCHANGED <<proc, open, reporter>>
       ELSE /\ phase' = "running" /\ proc' = "alive"
            /\ open' = TRUE /\ reporter' = "due"
            /\ UNCHANGED status
  /\ UNCHANGED <<job, killed, code, written, pipe, tail, updates, timedOut>>

-----------------------------------------------------------------------------
(* The process.                                                            *)

Running == proc = "alive" /\ ~killed

\* The number of lines after which the process stops writing by itself.
Stop(j) == IF j.fate = "exit" THEN Len(Lines(j)) ELSE j.after

Write ==
  /\ Running
  /\ written < Stop(job)
  /\ Len(pipe) < PipeLimit
  /\ written' = written + 1
  /\ pipe' = Append(pipe, Lines(job)[written + 1])
  /\ UNCHANGED <<job, phase, proc, killed, code, tail, open, reporter, updates,
                 timedOut, status>>

\* It ends by itself, unless it hangs, or by SIGKILL.
End ==
  /\ proc = "alive"
  /\ \/ killed /\ code' = KillCode
     \/ ~killed /\ written = Stop(job) /\ job.fate = "exit" /\ code' = ExitCode(job)
     \/ ~killed /\ written = Stop(job) /\ job.fate = "crash" /\ code' = CrashCode
  /\ proc' = "gone"
  /\ UNCHANGED <<job, phase, killed, stream, reporter, updates, timedOut, status>>

-----------------------------------------------------------------------------
(* The tasks of the call.                                                  *)

LastLines(lines) ==
  IF Len(lines) <= TailLimit THEN lines
  ELSE SubSeq(lines, Len(lines) - TailLimit + 1, Len(lines))

\* _read_tail: one chunk, and its return at the end of the stream.
ReadTail ==
  /\ open
  /\ \/ /\ pipe # << >>
        /\ tail' = LastLines(Append(tail, Head(pipe)))
        /\ pipe' = Tail(pipe)
        /\ UNCHANGED open
     \/ /\ pipe = << >> /\ proc = "gone"
        /\ open' = FALSE
        /\ UNCHANGED <<tail, pipe>>
  /\ UNCHANGED <<job, phase, proc, killed, code, written, reporter, updates,
                 timedOut, status>>

\* _report_progress: a callback that raises ends the task.
ReportProgress ==
  /\ \/ /\ reporter = "due" /\ updates < MaxUpdates
        /\ updates' = updates + 1 /\ reporter' = "asleep"
     \/ /\ reporter = "due"
        /\ reporter' = "off" /\ UNCHANGED updates
     \/ /\ reporter = "asleep"
        /\ reporter' = "due" /\ UNCHANGED updates
  /\ UNCHANGED <<job, phase, proc, killed, code, stream, timedOut, status>>

-----------------------------------------------------------------------------
(* How run waits for the process.  Leaving the wait, whichever way, stops  *)
(* the progress task (finally).                                            *)

StopReporter == reporter' = "off"

_terminate == killed' = (killed \/ proc = "alive")

\* The process ended and wait_for returned in time, or it was reaped after
\* the timeout.
WaitEnds ==
  /\ phase \in {"running", "killing"} /\ proc = "gone"
  /\ phase' = "draining"
  /\ StopReporter
  /\ UNCHANGED <<job, proc, killed, code, stream, updates, timedOut, status>>

\* The timer may also fire between the process's end and the wait's return.
Timeout ==
  /\ phase = "running" /\ ~job.patient
  /\ timedOut' = TRUE
  /\ _terminate
  /\ phase' = "killing"
  /\ UNCHANGED <<job, proc, code, stream, reporter, updates, status>>

\* A cancellation that does not wait for a kill of its own.
CancelOnly ==
  /\ phase = "running"
  /\ phase' = "cancelling"
  /\ UNCHANGED <<job, proc, killed, code, stream, reporter, updates, timedOut, status>>

\* The client cancels the call while it waits for the process.
Cancel ==
  /\ phase = "running"
  /\ _terminate
  /\ phase' = "cancelling"
  /\ UNCHANGED <<job, proc, code, stream, reporter, updates, timedOut, status>>

\* The cancelled call ends when the process and the readers have.
CancelEnds ==
  /\ phase = "cancelling" /\ proc = "gone" /\ ~open
  /\ phase' = "raised"
  /\ StopReporter
  /\ UNCHANGED <<job, proc, killed, code, stream, updates, timedOut, status>>

\* A cancellation at any other await: before a process exists, or when it
\* has ended or been killed.
CancelElsewhere ==
  /\ phase \in {"resolving", "killing", "cancelling", "draining"}
  /\ phase' = "raised"
  /\ StopReporter
  /\ UNCHANGED <<job, proc, killed, code, stream, updates, timedOut, status>>

\* The result, once both readers have returned.
Finish ==
  /\ phase = "draining" /\ ~open
  /\ Return(IF timedOut THEN "timeout" ELSE classify_verdict(job.kind, code, tail))
  /\ UNCHANGED <<job, proc, killed, code, stream, reporter, updates, timedOut>>

-----------------------------------------------------------------------------
Call == CheckRequest \/ ResolveBinary \/ Spawn \/ WaitEnds \/ CancelEnds \/ Finish

Next ==
  \/ Call \/ Write \/ End \/ ReadTail \/ ReportProgress
  \/ Timeout \/ Cancel \/ CancelElsewhere

\* The event loop runs every ready task, the operating system runs the
\* process, and a finite timeout fires.  No client has to cancel.
Spec ==
  /\ Init /\ [][Next]_vars
  /\ WF_vars(Call) /\ WF_vars(Write) /\ WF_vars(End) /\ WF_vars(ReadTail)
  /\ WF_vars(Timeout)

-----------------------------------------------------------------------------
(* The properties.                                                         *)

Statuses == {"passed", "check_failed", "inconclusive", "setup_error", "crash", "timeout"}

\* Every variable has its type, and neither the pipe nor the kept output
\* grows past its limit.
TypeOK ==
  /\ phase \in {"new", "resolving", "spawning", "running", "killing", "cancelling",
                "draining", "done", "raised"}
  /\ proc \in {"none", "alive", "gone"}
  /\ killed \in BOOLEAN /\ open \in BOOLEAN /\ timedOut \in BOOLEAN
  /\ code \in {0, 1, 2, 3, CrashCode, KillCode}
  /\ written \in 0..Len(Lines(job))
  /\ Len(pipe) <= PipeLimit /\ Len(tail) <= TailLimit
  /\ reporter \in {"off", "due", "asleep"} /\ updates \in 0..MaxUpdates
  /\ status \in Statuses \cup {"none"}
  /\ (status # "none") = (phase = "done")

Over == phase \in {"done", "raised"}

\* What the lines printed before the end say, by the documentation of the
\* tools: the answer of the check the tool stands for.
Printed(j) == SubSeq(Lines(j), 1, Stop(j))

Meaning(j) ==
  IF j.start = "no binary" THEN "setup_error"
  ELSE IF j.start # "ok" \/ j.mode # j.kind THEN "crash"
  ELSE IF j.kind = "lec" /\ Shows(Printed(j), {"differs"}) THEN "check_failed"
  ELSE IF j.fate # "exit" \/ Shows(j.verdicts, {"error"}) \/ j.verdicts = << >> THEN "crash"
  ELSE IF j.kind = "lec" \/ Last(j.verdicts) = "proved" THEN "passed"
  ELSE IF Last(j.verdicts) = "counterexample" THEN "check_failed"
  ELSE "inconclusive"

\* The line the classification depends on is among the last TailLimit ones.
DecidingLines(j) ==
  IF j.mode # j.kind THEN ModeLines ELSE {"differs", "equal", "partial"}

Heard(j) ==
  LET deciding == {i \in DOMAIN Printed(j) : Printed(j)[i] \in DecidingLines(j)}
  IN \A i \in deciding : i > Len(Printed(j)) - TailLimit

\* The configuration asks for the BTOR2 file and no proof.
OnlyExports(j) == j.verdicts = <<"exported">>

\* A call that returns a result returns what its check found: the mismatch
\* of any scope, the proof of all of them, a crash for a process that died
\* half way or ran in the other mode.  However the process, the reader, the
\* timer and the progress task interleave, nothing the verdict depends on is
\* lost, provided it is printed within the last TailLimit lines.
ResultIsTheVerdict ==
  phase = "done" /\ ~timedOut /\ Heard(job) /\ ~OnlyExports(job) => status = Meaning(job)

\* "Successful dump_only exits with code 0 and reports exported; proof not
\* run", an export and not an equivalence verdict (docs/btor2-export.md): a
\* check that ran no proof has not passed (classify_verdict).
ExportIsNoVerdict ==
  phase = "done" /\ OnlyExports(job) => status # "passed"

\* The status of a call that is not cut short depends on its job alone: it is
\* the classification of the end of what the process printed and of its own
\* exit code, whatever the order in which it wrote, ended, was read and waited
\* for.
OutcomeOf(j) ==
  CASE j.start \in {"bad request", "no exec"} -> "crash"
    [] j.start = "no binary" -> "setup_error"
    [] OTHER -> classify_verdict(j.kind, IF j.fate = "exit" THEN ExitCode(j) ELSE CrashCode,
                                 LastLines(Printed(j)))

AnswerIsTheLog == phase = "done" /\ ~timedOut => status = OutcomeOf(job)

\* A call that is over, by its result, by the timeout or by a cancellation
\* at any await, leaves no checker running: it has ended or been killed.
NoProcessOutlivesTheCall == Over /\ proc = "alive" => killed

=============================================================================
