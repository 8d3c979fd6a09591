SPECIFICATION FairSpec
CONSTANTS
  d1 = d1  d2 = d2  f1 = f1  f2 = f2  s1 = s1  s2 = s2
  NoFile = NoFile  None = None
  Directive <- Pair
  File <- Files
  Out <- TwoFiles
  Subject <- OwnNames
  Requires <- ChainOfTwo
  Chain <- FanOutOrder
  WriteRaw = {}
  High = {}
  Mesh = {}
  Unspined = {}
  Outside = {f2}
  SelfNamed = {}
  MaxGhost = 1
  MaxProposed = 2
  MaxPerCycle = 2
  Dedup = TRUE
  Janitor = TRUE
  HollowGate = FALSE
  EngineWrites = {"built"}
  CanClean = FALSE
  Failing = {}
  MaxCrashes = 1
  MaxFaults = 0
INVARIANTS
  EngineSentinelsExclusive
PROPERTIES
  QueueDrains
  LeafIsPromoted
