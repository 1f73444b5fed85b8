SPECIFICATION PSpec
CONSTANTS
  Requests = {r1, r2}
  Names = {"autorun.lua", "board.lua"}
  Suggested <- MCSuggested
  FirstId = 2
  MaxId = 1
  Builds <- MCBuilds
  Targets = {PC}
  MaxBuild = 2
  MaxGen = 2
  MaxSelected = 0
  Autorun = "autorun.lua"
  AlwaysPacked = {"autorun.lua", "board.lua"}
  Faults = {"overlap"}
INVARIANTS
  OwnImage
CHECK_DEADLOCK FALSE
