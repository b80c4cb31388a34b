CONSTANTS
  Keys = {k1, k2}
  NoKey = nokey
  Lists = {1}
  MaxDweet = 2
  MaxQueue = 2
  MaxNest = 2
SPECIFICATION FairSpec
INVARIANTS TypeOK DweetOnce StoredNeedConsent
PROPERTIES DweetsArrive
