------------------------------ MODULE HostSide ------------------------------
(***************************************************************************)
(* What lives longer than one verification, on the host's side of it, in   *)
(* three parts that share no state; a behaviour is one of one of them.     *)
(*                                                                         *)
(* "runs": VerificationRuns, the calls into the verifier within a process  *)
(* that goes on.                                                           *)
(*                                                                         *)
(* "check": CheckRunner, one tool call of the MCP server.                  *)
(*                                                                         *)
(* "cache": BinaryCache, the directory its resolvers share.                *)
(***************************************************************************)
EXTENDS VerificationRuns

CONSTANTS
  Jobs, TailLimit, PipeLimit, MaxUpdates,             \* of CheckRunner
  Resolvers, MaxRelease, MaxResolves, MaxCrashes      \* of BinaryCache

VARIABLES part,
          job, phase, proc, killed, code, written, pipe, tail, open, reporter, updates, timedOut, status,
          onPath, modeBits, latest, dest, pc, tag, staged, outcome, began, resolves, crashes

checkVars == <<job, phase, proc, killed, code, written, pipe, tail, open, reporter, updates,
               timedOut, status>>
cacheVars == <<onPath, modeBits, latest, dest, pc, tag, staged, outcome, began, resolves, crashes>>

Check == INSTANCE CheckRunner
Cache == INSTANCE BinaryCache WITH calls <- resolves, MaxCalls <- MaxResolves

CheckAssumptions == Check!LimitsArePositive /\ Check!JobsAreComplete

ASSUME CheckConstants == CheckAssumptions
ASSUME CacheConstants == Cache!ReleaseAssumption

\* The parts a behaviour does not exercise stand still.
SomeRuns == universe = None /\ Init
SomeCheck == job = (CHOOSE j \in Jobs : j.start # "ok") /\ Check!Init
SomeCache == onPath = FALSE /\ modeBits = TRUE /\ Cache!Init

SideInit ==
  \/ part = "runs" /\ SomeCheck /\ SomeCache /\ Init
  \/ part = "check" /\ SomeRuns /\ SomeCache /\ Check!Init
  \/ part = "cache" /\ SomeRuns /\ SomeCheck /\ Cache!Init

RunRuns == part = "runs" /\ Next /\ UNCHANGED <<part, checkVars, cacheVars>>
RunCheck == part = "check" /\ Check!Next /\ UNCHANGED <<part, vars, cacheVars>>
RunCache == part = "cache" /\ Cache!Next /\ UNCHANGED <<part, vars, checkVars>>

SideSpec ==
  SideInit /\ [][RunRuns \/ RunCheck \/ RunCache]_<<part, vars, checkVars, cacheVars>>

-----------------------------------------------------------------------------
\* A result is what the process's output and return code say
\* (classify_verdict), however it ended, and depends on nothing else.
ResultIsTheVerdict ==
  part = "check" => Check!ResultIsTheVerdict /\ Check!AnswerIsTheLog

\* No process outlives the call that started it (CheckRunner.run), however
\* the call ends.
NoProcessOutlivesTheCall == part = "check" => Check!NoProcessOutlivesTheCall

\* A run that only exports has proved nothing (docs/btor2-export.md), so the
\* tool call that runs it has not passed (classify_verdict).
ExportIsNoVerdict == part = "check" => Check!ExportIsNoVerdict

\* What resolve returns is a release whose archive was verified; a call with an
\* installed checker succeeds, and leftovers of a dead call are finished.
ResolvedIsVerified ==
  part = "cache" =>
    Cache!ResolvedIsVerified /\ Cache!CachedCallsSucceed /\ Cache!LeftoversAreFinished
=============================================================================
