-------------------------- MODULE MCClusterBringUp --------------------------
(* The two clusters' managers: a behaviour is one of a Talos cluster that *)
(* comes up or one of what is declared in a cluster that is up, as its first *)
(* state says. *)
EXTENDS Clusters, TLC

VARIABLE part

InOrder == <<"key", "app">>

allVars == <<part, clustersVars>>

Talos(A)    == part = "talos" /\ A /\ UNCHANGED <<part, resourceVars>>
Declares(A) == part = "resources" /\ A /\ UNCHANGED <<part, vars>>

MCInit == part \in {"talos", "resources"} /\ ClustersInit
MCNext == Talos(Next) \/ Declares(Resources!Next)
MCSpec == MCInit /\ [][MCNext]_allVars

\* The fairness of ClusterBringUp and of ClusterResources.
FairTalos ==
  /\ \A p \in Proc : WF_allVars(Talos(Proceed(p))) /\ WF_allVars(Talos(Start(p)))
  /\ WF_allVars(Talos(Boot)) /\ WF_allVars(Talos(Register)) /\ WF_allVars(Talos(Operator))
FairResources ==
  /\ \A p \in Apply : WF_allVars(Declares(Resources!Step(p)))
  /\ WF_allVars(Declares(Resources!Flux))
  /\ WF_allVars(Declares(Resources!PointBack))
  /\ WF_allVars(Declares(Resources!WriteSecret("key")))
  /\ WF_allVars(Declares(Resources!Resolve("app")))
MCFairSpec == MCSpec /\ FairTalos /\ FairResources

\* Both keep their types.
TypesHold == ClustersTypeOK

ReleasesComeUp == part = "resources" => Resources!ReleasesComeUp
ClusterComesUp == part = "talos" => ComesUp
=============================================================================
