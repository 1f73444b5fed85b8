SPECIFICATION PSpec
CONSTANTS
  Requests = {r1, r2}
  Names = {"autorun.lua", "board.lua"}
  Suggested <- MCSuggested
  FirstId = 2
  MaxId = 2
  Builds <- MCBuilds
  Targets = {PC, SIM}
  MaxBuild = 2
  MaxGen = 2
  MaxSelected = 2
  Autorun = "autorun.lua"
  AlwaysPacked = {"autorun.lua", "board.lua"}
  Faults = {}
INVARIANTS
  OwnFreshImage
  BuildsAgree
  ParentClean
PROPERTIES
  ImageIsSelection
CHECK_DEADLOCK FALSE
SYMMETRY MCSymmetry
