CONSTANTS
  Wss = wss
  Web = web
  MaxNest = 3
SPECIFICATION FairSpec
INVARIANTS DeletedByStart SoundWhileUp
PROPERTIES IdleServerStops
