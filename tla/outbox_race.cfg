SPECIFICATION Spec
CONSTANTS
  f1 = f1  f2 = f2  b1 = b1  b2 = b2  b3 = b3
  NoBuild = NoBuild  NoFile = NoFile  Free = Free  Historic = Historic
  Builder = Builder  Publisher = Publisher
  File <- OneFile
  Build <- Three
  FileOf <- SameFileThree
  Verdict <- ThirdHollow
  Stuck = {}
  Broken = {}
  DailyCap = 1
  Window = 1
  MaxDay = 2
  Backfill = TRUE
  MaxLost = 0
  EvictFails = FALSE
  MaxCrashes = 0
INVARIANTS
  TypeOK
  PublishedIsClean
  OnePrPerWindow
  CapHolds
  ClosedIsOut
  LostWasNotPublished
