SPECIFICATION FairSpec
CONSTANTS
  MaxRows = 2
  Batch = 2
  MinGreen = 2
  MinAgreeing = 2
  MinAgreement = 95
  AutoMode = TRUE
  Override = "none"
  FaultKinds = {"read", "write", "crash", "wipe", "smoke", "cycle", "touch"}
  MaxFaults = 1
INVARIANTS
  TypeOK
  FewSkipped
PROPERTIES
  FalsePromoteBars
  VetoFreezes
  EarnsActivation
