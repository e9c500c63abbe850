SPECIFICATION SideSpec
CONSTANTS
  Hosts = {h1, h2}
  Pool = {t1, t2}
  Designs = {d1, d2}
  MaxLookups = 2
  MaxCalls = 3
  MaxEdits = 2
  Jobs <- CheckJobs
  TailLimit = 3
  PipeLimit = 2
  MaxUpdates = 2
  Resolvers = {w1, w2}
  MaxRelease = 2
  MaxResolves = 2
  MaxCrashes = 1
INVARIANTS
  AnswersAreCurrent
  HostStateRestored
  ResultIsTheVerdict
  NoProcessOutlivesTheCall
  ResolvedIsVerified
CHECK_DEADLOCK FALSE
