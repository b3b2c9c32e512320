\* The same two applies, and nothing fails.
CONSTANTS
  Proc = {p1, p2}
  LastRepo = 2
  Home = 1
  LastRev = 3
  Pin <- Twins
  Tree <- Trees
  Ships <- OtherBuild
  Releasing <- AllCommits
  Semantic = FALSE
  Ignoring = TRUE
  Fresh = TRUE
  Verbs = {"apply"}
  LastVersion = 6
  MaxFaults = 0
SPECIFICATION WholeSpec
INVARIANT ConvergesToWhatShips
SYMMETRY Procs
