SPECIFICATION FairSpec
CONSTANTS
  MaxEvents = 4
  QueueSize = 1
  OverflowMax = 2
  BatchSize = 2
  SpoolMax = 3
  MaxOutages = 1
  MaxDiskErrors = 1
  MaxLives = 2
INVARIANT HeadsRecorded
PROPERTY Promise
PROPERTY NothingStuck
\* A behaviour ends when all events are settled and the bounds are used up.
CHECK_DEADLOCK FALSE
