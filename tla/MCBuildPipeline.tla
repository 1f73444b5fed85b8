--------------------------- MODULE MCBuildPipeline ---------------------------
(* BuildPipeline with one suggested file, named like the file SConstruct     *)
(* adds for a board.                                                         *)
EXTENDS BuildPipeline, TLC

MCSuggested == 1 :> "board.lua"
MCBuilds    == 1..MaxBuild

\* requests and targets are model values and interchangeable
MCSymmetry  == Permutations(Requests) \cup Permutations(Targets)
=============================================================================
