SPECIFICATION FairSpec
CONSTANTS
  Processes = {p1, p2}
  MaxRecords = 2
  SinkCount = 2
  RelayBatch = 2
  MaxFailures = 1
  MaxExports = 1
PROPERTY BacklogDrains
CHECK_DEADLOCK FALSE
INVARIANT AnnouncedAsRecorded
