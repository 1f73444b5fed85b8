SPECIFICATION PSpec
CONSTANTS
  Requests = {r1}
  Names = {"autorun.lua", "board.lua"}
  Suggested <- MCSuggested
  FirstId = 2
  MaxId = 1
  Builds <- MCBuilds
  Targets = {PC}
  MaxBuild = 1
  MaxGen = 2
  MaxSelected = 0
  Autorun = "autorun.lua"
  AlwaysPacked = {"autorun.lua", "board.lua"}
  Faults = {"scons"}
INVARIANTS
  OwnFreshImage
CHECK_DEADLOCK FALSE
