SPECIFICATION FairSpec
CONSTANTS
  a = a  b = b  bare = bare
  Nobody = Nobody
  Wrapper = {a, b}
  Bare = {bare}
  Pids = {1, 2, 3}
  Kinds = {"stranger"}
  TermCodes = {0, 1}
  Reloads = FALSE
  Patient = FALSE
  FaultKinds = {"kill", "fail", "stop", "orphan"}
  MaxFaults = 2
PROPERTIES
  DuplicatesEnd
CHECK_DEADLOCK FALSE
