SPECIFICATION FairSpec
CONSTANTS
  w1 = w1  w2 = w2  w3 = w3  r1 = r1
  Nobody = Nobody
  Writer = {w1, w2}
  Planner = {w2}
  Remote = {r1}
  TTL = 2
  Timeout = 1
  MaxNow = 6
  MaxRuns = 1
  MaxCrashes = 1
  Prompt = TRUE
  Mapped = TRUE
INVARIANTS
  TypeOK
  OneHolder
  NoneVanishes
  AbortWroteNothing
  AlwaysALedger
PROPERTIES
  RunEnds
CHECK_DEADLOCK FALSE
