SPECIFICATION Spec
CONSTANTS
  d1 = d1  d2 = d2  f1 = f1  f2 = f2  s1 = s1  s2 = s2
  NoFile = NoFile  None = None
  Directive <- Pair
  File <- Files
  Out <- TwoFiles
  Subject <- OwnNames
  Requires <- NoRequires
  Chain <- NoFanOut
  WriteRaw = {d1}
  High = {d2}
  Mesh = {}
  Unspined = {d1}
  Outside = {}
  SelfNamed = {d2}
  MaxGhost = 2
  MaxProposed = 2
  MaxPerCycle = 2
  Dedup = FALSE
  Janitor = FALSE
  HollowGate = FALSE
  EngineWrites = {"stub", "built"}
  CanClean = FALSE
  Failing = {"archive", "failed", "commit", "ghost"}
  MaxCrashes = 0
  MaxFaults = 1
INVARIANTS
  NoRebuildInFlight
PROPERTIES
  LeavesResolved
