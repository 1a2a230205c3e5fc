SPECIFICATION FairSpec
CONSTANTS
  a = a
  b = b
  c = c
  Agents = {a, b}
  Dials <- BothWays
  TlsOn = {a}
  Asks = {b}
  Paired <- Nobody
  MaxFaults = 2
INVARIANTS
  TypeOK
  
  EncryptionAgrees
  StatusIsHandled
PROPERTIES
  SessionsOpen
CHECK_DEADLOCK FALSE
