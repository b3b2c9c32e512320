SPECIFICATION FairSpec
CONSTANTS
  CI = CI
  Laptops = {laptop}
  LastFile = 2
  LastRepo = 2
  RepoOf <- MCRepoOf
  Notifying = {1, 2}
  LastAlias = 2
  LastPipeline = 3
  ManagerOf <- MCManagerOf
  MovesItsPin = TRUE
  IgnoresFiles = FALSE
  MaxEdits = 2
  MaxFaults = 1
CHECK_DEADLOCK FALSE
INVARIANTS
  StandsOnSettled
PROPERTIES
  OwnersStay
  WorkIsReleased
  ReleasesEnd
  ResourcesFollow
