SPECIFICATION PSpec
CONSTANTS
  Requests = {r1}
  Names = {"autorun.lua", "board.lua"}
  Suggested <- MCSuggested
  FirstId = 2
  MaxId = 1
  Builds <- MCBuilds
  Targets = {PC, SIM}
  MaxBuild = 2
  MaxGen = 3
  MaxSelected = 0
  Autorun = "autorun.lua"
  AlwaysPacked = {"autorun.lua", "board.lua"}
  Faults = {"scons", "crash", "retarget", "oldpage"}
INVARIANTS
  OwnImage
  OwnLog
  FailureIsReal
CHECK_DEADLOCK FALSE
