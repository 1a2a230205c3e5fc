SPECIFICATION Spec
CONSTANTS
  text = text
  files = files
  large = large
  Items = {text, files, large}
  Files = {files, large}
  Large = {large}
  Initial <- AllText
  OutCap = 1
  MaxEvents = 2
  MaxTransfers = 1
  MaxWriting = 1
INVARIANTS
  TypeOK
  MarkedIsShared
  FilesFlagAgrees
CHECK_DEADLOCK FALSE
