SPECIFICATION FairSpec
CONSTANTS
  a = a  b = b  bare = bare
  Nobody = Nobody
  Wrapper = {a, b}
  Bare = {}
  Pids = {1, 2}
  Kinds = {"stranger"}
  TermCodes = {0, 1}
  Reloads = TRUE
  Patient = FALSE
  FaultKinds = {"kill", "fail", "stop", "orphan"}
  MaxFaults = 2
INVARIANTS
  TypeOK
  OneDaemon
PROPERTIES
  OkMeansFresh
  ComesBack
CHECK_DEADLOCK FALSE
