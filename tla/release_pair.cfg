\* Two whole applies at a time, in fresh clones: two revisions of one set of commits that build other bytes, and a third.
CONSTANTS
  Proc = {p1, p2}
  LastRepo = 2
  Home = 1
  LastRev = 3
  Pin <- Twins
  Tree <- Trees
  Ships <- OtherBuild
  Releasing <- AllCommits
  Semantic = FALSE
  Ignoring = TRUE
  Fresh = TRUE
  Verbs = {"apply"}
  LastVersion = 6
  MaxFaults = 1
SPECIFICATION WholeSpec
INVARIANTS WholeReleases RecordsTellTheTruth
SYMMETRY Procs
