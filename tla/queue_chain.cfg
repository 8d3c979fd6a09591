SPECIFICATION Spec
CONSTANTS
  d1 = d1  d2 = d2  f1 = f1  f2 = f2  s1 = s1  s2 = s2
  NoFile = NoFile  None = None
  Directive <- Pair
  File <- Files
  Out <- TwoFiles
  Subject <- OwnNames
  Requires <- ChainOfTwo
  Chain <- FanOutOrder
  WriteRaw = {}
  High = {}
  Mesh = {}
  Unspined = {}
  Outside = {}
  SelfNamed = {}
  MaxGhost = 2
  MaxProposed = 2
  MaxPerCycle = 2
  Dedup = TRUE
  Janitor = TRUE
  HollowGate = TRUE
  EngineWrites = {"stub", "built"}
  CanClean = FALSE
  Failing = {"lesson", "durable", "commit"}
  MaxCrashes = 1
  MaxFaults = 1
INVARIANTS
  TypeOK
  EngineSentinelsExclusive
  DoneIsBacked
  OnlyGatedIsShipped
  FewHalfDone
  GivenUpHasLesson
PROPERTIES
  RefinesLedger
