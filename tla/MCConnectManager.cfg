SPECIFICATION FairSpec
CONSTANTS
  a1 = a1
  a2 = a2
  p1 = p1
  p2 = p2
  Addrs <- TwoAddrs
  Peers <- TwoPeers
  Owner <- OneEach
  Tasks = {t1, t2}
  NoAddr = NoAddr
  QueueCap = 2
INVARIANTS
  TypeOK
  ConnectedToLive
  WantedIsPursued
  ShownConnectedHasSession
PROPERTIES
  WantedIsAttempted
CHECK_DEADLOCK FALSE
