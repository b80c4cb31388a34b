CONSTANTS
  MaxCommands = 3
  MaxDepth = 5
SPECIFICATION FairSpec
INVARIANTS TypeOK FlagIsStack DisabledMeansIdle
PROPERTIES InOrder QueuedCommandsRun
