SPECIFICATION PSpec
CONSTANTS
  Requests = {r1}
  Names = {"autorun.lua", "board.lua"}
  Suggested <- MCSuggested
  FirstId = 2
  MaxId = 2
  Builds <- MCBuilds
  Targets = {PC}
  MaxBuild = 1
  MaxGen = 1
  MaxSelected = 2
  Autorun = "autorun.lua"
  AlwaysPacked = {"autorun.lua", "board.lua"}
  Faults = {}
PROPERTIES
  EverySelected
CHECK_DEADLOCK FALSE
