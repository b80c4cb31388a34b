CONSTANTS
  Addr = {a1}
  NoAddr = noaddr
  a1 = a1
  noaddr = noaddr
  FailLimit = 1
  MaxNest = 2
SPECIFICATION FairSpec
INVARIANTS TypeOK
PROPERTIES ReuseIsEarned CountsOnce PortalCloses OfflineRestarts
