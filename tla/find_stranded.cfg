SPECIFICATION FairSpec
CONSTANTS
  d1 = d1  d2 = d2  f1 = f1  f2 = f2  s1 = s1  s2 = s2
  NoFile = NoFile  None = None
  Directive <- Pair
  File <- Files
  Out <- TwoFiles
  Subject <- OwnNames
  Requires <- NoRequires
  Chain <- NoFanOut
  WriteRaw = {}
  High = {}
  Mesh = {}
  Unspined = {}
  Outside = {}
  SelfNamed = {}
  MaxGhost = 2
  MaxProposed = 2
  MaxPerCycle = 2
  HollowGate = TRUE
  Dedup = TRUE
  Janitor = TRUE
  EngineWrites = {"built"}
  CanClean = FALSE
  Failing = {}
  MaxCrashes = 0
  MaxFaults = 0
PROPERTIES
  RejectedIsRetried
