SPECIFICATION FairSpec
CONSTANTS
  f1 = f1
  b1 = b1
  Transfers = {f1, b1}
  Fast = {f1}
  Chunks <- SomeChunks
  KeepDirs = 0
  WireCap = 2
INVARIANTS
  TypeOK
  PublishedIsWhole
  ShownIsUnderWay
PROPERTIES
  SentIsPublished
  TransfersEnd
CHECK_DEADLOCK FALSE
