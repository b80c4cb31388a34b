CONSTANTS
  Lists = {1}
  MaxMsg = 2
  MaxQueue = 3
  MaxNest = 2
SPECIFICATION FairSpec
INVARIANTS TypeOK ClientThere ErasedAfterRun
PROPERTIES CommandsErased
