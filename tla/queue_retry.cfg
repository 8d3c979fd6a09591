SPECIFICATION FairSpec
CONSTANTS
  d1 = d1  d2 = d2  f1 = f1  f2 = f2  s1 = s1  s2 = s2
  NoFile = NoFile  None = None
  Directive <- Pair
  File <- Files
  Out <- FileAndEdit
  Subject <- OwnNames
  Requires <- NoRequires
  Chain <- NoFanOut
  WriteRaw = {}
  High = {}
  Mesh = {d1, d2}
  Unspined = {d1}
  Outside = {}
  SelfNamed = {}
  MaxGhost = 2
  MaxProposed = 0
  MaxPerCycle = 1
  Dedup = FALSE
  Janitor = FALSE
  HollowGate = TRUE
  EngineWrites = {"built"}
  CanClean = TRUE
  Failing = {"done", "durable", "failed"}
  MaxCrashes = 0
  MaxFaults = 1
INVARIANTS
  NoBuildOfQuarantined
PROPERTIES
  RejectedIsRetried
