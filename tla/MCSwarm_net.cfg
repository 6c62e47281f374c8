SPECIFICATION Spec
CONSTANTS
  t1 = t1
  t2 = t2
  addr1 = addr1
  addr2 = addr2
  peer1 = peer1
  peer2 = peer2
  None = None
  No = No
  Blank = Blank
  Tasks = {t1, t2}
  Addrs = {addr1, addr2}
  PeerOf <- PeerOfPeer
  Infos <- InfosOfPeer
  Own <- OwnOfPeer
  Mine <- Mines
  Dials <- DialsOf
  Limits = {1, 2}
  MaxPendingConnections = 2
  MaxCloses = 1
  MaxPeers = 2
  MaxConns = 1
  Width = 3
  MaxEvents = 3
  SwarmTasks = {t1}
INVARIANTS
  Registered
  KnownPeers
  CacheTrue
  NoLeak
CHECK_DEADLOCK FALSE
PROPERTIES
  ConnectEnds
  ReleasesLock
  RemovedStays
