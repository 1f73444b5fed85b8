SPECIFICATION FairPSpec
CONSTANTS
  Requests = {r1, r2}
  Names = {"autorun.lua", "board.lua"}
  Suggested <- MCSuggested
  FirstId = 2
  MaxId = 3
  Builds <- MCBuilds
  Targets = {PC}
  MaxBuild = 1
  MaxGen = 1
  MaxSelected = 1
  Autorun = "autorun.lua"
  AlwaysPacked = {"autorun.lua", "board.lua"}
  Faults = {"overlap"}
INVARIANTS
  OneRowPerName
  RowsMatchDisk
  LinksAlive
PROPERTIES
  PAnswered
CHECK_DEADLOCK FALSE
