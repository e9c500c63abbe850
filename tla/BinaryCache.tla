----------------------------- MODULE BinaryCache -----------------------------
(***************************************************************************)
(* BinaryResolver: how a tool call finds the checker.  PATH comes first,   *)
(* then the cache directory, then a download of the latest release.  The   *)
(* cache directory is shared without a lock by every server of the user    *)
(* and by the threads of one server, so calls interleave at every step     *)
(* that touches the file system or the network, and a server may die at    *)
(* any of them and leave what it did behind.                               *)
(*                                                                         *)
(* A release is a number, the latest one grows.  The cache maps a release  *)
(* to its destination directory: absent, or moved into place with or       *)
(* without an executable launcher (a zip archive carries no mode bits) and *)
(* with the bytes it was made of.                                          *)
(***************************************************************************)
EXTENDS Integers

CONSTANTS
  Resolvers,   \* concurrent callers of resolve
  MaxRelease,  \* releases published in a run
  MaxCalls,    \* calls each resolver makes
  MaxCrashes   \* servers that die in a run

\* What is asked of the constants; modules that instantiate this one assume it.
ReleaseAssumption == MaxRelease \in Nat \ {0}

VARIABLES
  onPath,   \* an executable kepler-formal is on PATH, or directly in <cache>/bin
  modeBits, \* the archives carry the executable bit (tar.gz)
  latest,   \* the latest release
  dest,     \* release -> its directory under <cache>/bin
  pc,       \* resolver -> the next step of its call
  tag,      \* resolver -> the release its call read, 0 before
  staged,   \* resolver -> bytes in its own staging directory
  outcome,  \* resolver -> how its last call ended
  began,    \* resolver -> dest when its last call began
  calls,    \* resolver -> calls begun
  crashes   \* servers that died

vars == <<onPath, modeBits, latest, dest, pc, tag, staged, outcome, began, calls, crashes>>
world == <<onPath, modeBits, latest>>

Releases == 1..MaxRelease

Absent == [state |-> "absent", bytes |-> "none"]

\* _is_executable of the launcher in a destination directory.
Executable(d) == d.state = "ready"

\* How a call ended: the release it resolved to, or why it raised.
Ended(how, r, cause) == [how |-> how, release |-> r, cause |-> cause]
NotEnded == Ended("none", 0, "none")

Init ==
  /\ onPath \in BOOLEAN /\ modeBits \in BOOLEAN
  /\ latest = 1
  /\ dest = [r \in Releases |-> Absent]
  /\ pc = [c \in Resolvers |-> "idle"]
  /\ tag = [c \in Resolvers |-> 0]
  /\ staged = [c \in Resolvers |-> "none"]
  /\ outcome = [c \in Resolvers |-> NotEnded]
  /\ began = [c \in Resolvers |-> dest]
  /\ calls = [c \in Resolvers |-> 0]
  /\ crashes = 0

-----------------------------------------------------------------------------
\* The call returns or raises; its temporary directory is removed.
Ends(c, how, r, cause) ==
  /\ pc' = [pc EXCEPT ![c] = "idle"]
  /\ outcome' = [outcome EXCEPT ![c] = Ended(how, r, cause)]
  /\ staged' = [staged EXCEPT ![c] = "none"]

\* An exception of the download: resolve raises BinarySetupError and nothing
\* is tried again.
Raise(c, cause) == Ends(c, "setup_error", 0, cause)

Goto(c, step) == pc' = [pc EXCEPT ![c] = step]

\* resolve is called; the executable on PATH wins.
Resolve(c) ==
  /\ pc[c] = "idle" /\ calls[c] < MaxCalls
  /\ calls' = [calls EXCEPT ![c] = @ + 1]
  /\ began' = [began EXCEPT ![c] = dest]
  /\ tag' = [tag EXCEPT ![c] = 0]
  /\ IF onPath
       THEN Ends(c, "path", 0, "none")
       ELSE /\ Goto(c, "lookup")
            /\ outcome' = [outcome EXCEPT ![c] = NotEnded]
            /\ UNCHANGED staged
  /\ UNCHANGED <<world, dest, crashes>>

\* _find_cached: the releases with an executable launcher.  The one taken has
\* the newest modification time, which the archive may have set: any of them.
Cached == {r \in Releases : Executable(dest[r])}

FindCached(c) ==
  /\ pc[c] = "lookup"
  /\ \/ \E r \in Cached : Ends(c, "cache", r, "none")
     \/ Cached = {} /\ Goto(c, "release") /\ UNCHANGED <<outcome, staged>>
  /\ UNCHANGED <<world, dest, tag, began, calls, crashes>>

\* The release description and the checksum: the network may fail, the
\* release may have no unique build for the platform or no checksum.
ReadRelease(c) ==
  /\ pc[c] = "release"
  /\ \/ /\ tag' = [tag EXCEPT ![c] = latest]
        /\ Goto(c, "fetch") /\ UNCHANGED <<outcome, staged>>
     \/ \E cause \in {"network", "release"} : Raise(c, cause) /\ UNCHANGED tag
  /\ UNCHANGED <<world, dest, began, calls, crashes>>

\* _download_to_file, into this call's staging directory.
Download(c) ==
  /\ pc[c] = "fetch"
  /\ \/ /\ \E b \in {"good", "bad"} : staged' = [staged EXCEPT ![c] = b]
        /\ Goto(c, "verify") /\ UNCHANGED outcome
     \/ Raise(c, "network")
  /\ UNCHANGED <<world, dest, tag, began, calls, crashes>>

\* A checksum that is not compared.
MatchesAnything(bytes) == TRUE

Matches(bytes) == bytes = "good"

\* The checksum is compared before anything is extracted.  An archive with
\* an unsafe member or without a launcher is refused.
VerifyAndExtract(c) ==
  /\ pc[c] = "verify"
  /\ \/ ~Matches(staged[c]) /\ Raise(c, "checksum")
     \/ Matches(staged[c]) /\ Goto(c, "place") /\ UNCHANGED <<outcome, staged>>
     \/ Matches(staged[c]) /\ Raise(c, "archive")
  /\ UNCHANGED <<world, dest, tag, began, calls, crashes>>

\* destination.exists()
CheckDestination(c) ==
  /\ pc[c] = "place"
  /\ Goto(c, IF dest[tag[c]] = Absent THEN "replace" ELSE "chmod")
  /\ UNCHANGED <<world, dest, tag, staged, outcome, began, calls, crashes>>

Placed(c) ==
  [dest EXCEPT ![tag[c]] =
     [state |-> IF modeBits THEN "ready" ELSE "placed", bytes |-> staged[c]]]

\* os.replace of a directory fails when the destination exists and is not
\* empty, as it is when another call moved its copy there since the check.
ReplaceDestination(c) ==
  /\ pc[c] = "replace"
  /\ \/ /\ dest[tag[c]] = Absent
        /\ dest' = Placed(c)
        /\ Goto(c, "chmod") /\ UNCHANGED <<outcome, staged>>
     \/ /\ dest[tag[c]] # Absent
        /\ Raise(c, "rename") /\ UNCHANGED dest
  /\ UNCHANGED <<world, tag, began, calls, crashes>>

\* chmod, whoever placed the directory, and the result.
MakeExecutable(c) ==
  /\ pc[c] = "chmod"
  /\ dest' = [dest EXCEPT ![tag[c]].state = "ready"]
  /\ Ends(c, "download", tag[c], "none")
  /\ UNCHANGED <<world, tag, began, calls, crashes>>

-----------------------------------------------------------------------------
\* The server of a call dies: its staging directory stays behind, unused.
Crash(c) ==
  /\ pc[c] # "idle" /\ crashes < MaxCrashes
  /\ crashes' = crashes + 1
  /\ Goto(c, "idle")
  /\ staged' = [staged EXCEPT ![c] = "none"]
  /\ UNCHANGED <<world, dest, tag, outcome, began, calls>>

\* A new release is published.
Publish ==
  /\ latest < MaxRelease
  /\ latest' = latest + 1
  /\ UNCHANGED <<onPath, modeBits, dest, pc, tag, staged, outcome, began, calls, crashes>>

Step(c) ==
  \/ FindCached(c) \/ ReadRelease(c) \/ Download(c) \/ VerifyAndExtract(c)
  \/ CheckDestination(c) \/ ReplaceDestination(c) \/ MakeExecutable(c)

Next == (\E c \in Resolvers : Resolve(c) \/ Step(c) \/ Crash(c)) \/ Publish

\* A thread that can take a step of its call takes it: every wait of the
\* download has a timeout.
Spec == Init /\ [][Next]_vars /\ \A c \in Resolvers : WF_vars(Step(c))

-----------------------------------------------------------------------------
(* The properties.                                                         *)

\* Every variable has its type; a directory that is not absent has bytes.
TypeOK ==
  /\ onPath \in BOOLEAN /\ modeBits \in BOOLEAN /\ latest \in Releases
  /\ \A r \in Releases :
       \/ dest[r] = Absent
       \/ dest[r].state \in {"placed", "ready"} /\ dest[r].bytes \in {"good", "bad"}
  /\ pc \in [Resolvers -> {"idle", "lookup", "release", "fetch", "verify", "place",
                           "replace", "chmod"}]
  /\ tag \in [Resolvers -> 0..MaxRelease]
  /\ staged \in [Resolvers -> {"none", "good", "bad"}]
  /\ calls \in [Resolvers -> 0..MaxCalls] /\ crashes \in 0..MaxCrashes
  /\ \A c \in Resolvers : pc[c] \in {"place", "replace", "chmod"} => tag[c] \in Releases

\* A call that resolved to a cached or downloaded checker names a directory
\* that is there, executable, and made of verified bytes, and it still is
\* when the checker is started, whatever the other calls do meanwhile.
ResolvedIsVerified ==
  \A c \in Resolvers :
    outcome[c].how \in {"cache", "download"} =>
      Executable(dest[outcome[c].release]) /\ dest[outcome[c].release].bytes = "good"

\* With an installed checker in the cache when it began, a call succeeds:
\* a network that is down or a newer release makes no difference.
CachedCallsSucceed ==
  \A c \in Resolvers :
    (\E r \in Releases : Executable(began[c][r])) =>
      outcome[c].how # "setup_error"

\* A call fails over the destination directory only when another call put it
\* there during this one.  What a call that died half way left in place is
\* finished, not stumbled over.
LeftoversAreFinished ==
  \A c \in Resolvers :
    outcome[c].cause = "rename" => began[c][tag[c]] = Absent

=============================================================================
