\* One apply at a time, restarted until the cluster is up; or two applies of
\* what a cluster holds, over a kubeconfig that is moved.
CONSTANTS
  Proc = {p1}
  LastBundle = 4
  LastPatch = 2
  Alone = TRUE
  MaxFaults = 4
  Apply = {"a", "b"}
  Slips = 1
  Cluster = {"home", "lab"}
  Declared = "home"
  NoCluster = "none"
  Secret = {"key"}
  Release = {"app"}
  Order <- InOrder
  LastVersion = 2
SPECIFICATION MCFairSpec
INVARIANTS NothingIsLost
PROPERTIES OneBundleForLife ClusterComesUp OtherClustersAreLeftAlone NoReleaseGoesBack ReleasesComeUp
