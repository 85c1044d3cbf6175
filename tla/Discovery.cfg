SPECIFICATION FairSpec
CONSTANTS
  Runs = {r1, r2}
  Hashes = {"h1", "h2"}
  MaxChanges = 3
  MaxDecisions = 1
  MaxFaults = 1
PROPERTY ChangeIsFlagged
PROPERTY InventoryIsRight
