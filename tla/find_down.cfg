SPECIFICATION Spec
CONSTANTS
  a = a  b = b  bare = bare
  Nobody = Nobody
  Wrapper = {a, b}
  Bare = {}
  Pids = {1, 2, 3}
  Kinds = {}
  TermCodes = {0, 1}
  Reloads = TRUE
  Patient = TRUE
  FaultKinds = {"fail"}
  MaxFaults = 1
INVARIANTS
  ReloadLeavesOne
CHECK_DEADLOCK FALSE
