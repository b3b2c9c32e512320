------------------------------ MODULE Clusters ------------------------------
(***************************************************************************)
(* The two managers of clusters side by side (reconcileResources): one     *)
(* brings a Talos cluster up, the other installs what is declared in a     *)
(* cluster that is up.  An apply comes to one manager after the other;     *)
(* each has a process, files and a cluster of its own and reads nothing    *)
(* of the other's, so any order of their steps is allowed here.            *)
(***************************************************************************)
EXTENDS ClusterBringUp

CONSTANTS  \* see ClusterResources, where they are Proc and MaxFaults
  Apply, Slips, Cluster, Declared, NoCluster, Secret, Release, Order, LastVersion

VARIABLES kubeconfig, document, step, opened, want, place, secrets, status,
          version, refused, slips

Resources == INSTANCE ClusterResources WITH Proc <- Apply, MaxFaults <- Slips,
               pc <- step, copy <- opened, faults <- slips

ASSUME ResourcesAreDeclared == Resources!DeclarationAssumption

resourceVars == <<kubeconfig, document, step, opened, want, place, secrets, status,
                  version, refused, slips>>
clustersVars == <<vars, resourceVars>>

ClustersInit == Init /\ Resources!Init

ClustersNext == \/ Next /\ UNCHANGED resourceVars
                \/ Resources!Next /\ UNCHANGED vars

ClustersSpec == ClustersInit /\ [][ClustersNext]_clustersVars

ClustersTypeOK == TypeOK /\ Resources!TypeOK

\* What ClusterResources says of what is declared.
OtherClustersAreLeftAlone == Resources!OtherClustersAreLeftAlone
NoReleaseGoesBack         == Resources!NoReleaseGoesBack
=============================================================================
