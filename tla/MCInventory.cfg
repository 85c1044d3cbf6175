SPECIFICATION InventorySpec
CONSTANTS
  Connectors = {c1, c2}
  Names = {bot, job}
  Twins = {k1, k2}
  SourceKinds = {"kubernetes", "aws_bedrock", "openai_admin", "mcp"}
  Things = {1, 2, 3}
  PageSize = 1
  MaxPages = 3
  MaxObservations = 4
  SourceRuns = 2
  SourceChanges = 2
  SourceFaults = 1
  Templates = {{"model"}, {"model", "gateway"}, {"gateway", "data"}, {"server", "model"}, {"mcp"}}
  StaleAfter = 1
  Lookback = 1
  ProgramTime = 3
  ProgramChanges = 2
  CachedFor = 0
  Budget = 4
  Window = 1
  MaxLines = 5
  MachineTime = 4
SYMMETRY Symmetry
PROPERTY ReportedAsOf
 
PROPERTY BypassIsFound
PROPERTY QuietAgesOut
\* Runs and changes are used up.
CHECK_DEADLOCK FALSE
