SPECIFICATION FairSpec
CONSTANTS
  f1 = f1  f2 = f2  b1 = b1  b2 = b2  b3 = b3
  NoBuild = NoBuild  NoFile = NoFile  Free = Free  Historic = Historic
  Builder = Builder  Publisher = Publisher
  File <- TwoFiles
  Build <- Builds
  FileOf <- OwnFile
  Verdict <- AllClean
  Stuck = {}
  Broken <- SecondBroken
  DailyCap = 2
  Window = 1
  MaxDay = 1
  Backfill = FALSE
  MaxLost = 1
  EvictFails = TRUE
  MaxCrashes = 1
INVARIANTS
  OneOpenPrPerWindow
  BytesAreKept
PROPERTIES
  RefinesPublishLedger
  PendingIsSettled
