-------------------------- MODULE ClusterResources --------------------------
(***************************************************************************)
(* The Kubernetes manager (cmd/ci-manager-kubernetes, managercontroller's  *)
(* kubernetesrealizer.go and helmrelease.go) over what                     *)
(* clusterresourcecontroller declares: secrets a person writes, which it   *)
(* reads, and Helm releases, which it installs where there are none.       *)
(*                                                                         *)
(* A reconcile takes one copy of the kubeconfig, and all of its clients    *)
(* are of that copy.  The kubeconfig itself is a file, a kind cluster or a *)
(* node, which lead to another cluster when a person moves them.           *)
(*                                                                         *)
(* External: Helm, whose record of an install is created before its        *)
(* objects and refused when there is one; Flux, which upgrades what is     *)
(* installed; and the operator, who does what a refusal asks for.  Left    *)
(* out: values, namespaces, dry runs, and release records kept in memory.  *)
(***************************************************************************)
EXTENDS Integers, Sequences

CONSTANTS
  Proc,         \* applies that may go on at the same time
  Cluster,      \* the clusters a kubeconfig may lead to
  Declared,     \* the one whose API server the pipeline declares
  NoCluster,    \* a kubeconfig that cannot be had
  Secret,       \* secrets,
  Release,      \* and Helm releases, declared
  Order,        \* ... in the order of spec.resources
  LastVersion,  \* bound on the versions a release's document goes through
  MaxFaults     \* bound on lost processes, failed installs and moved kubeconfigs

\* What is assumed of them.
DeclarationAssumption ==
  /\ Declared \in Cluster /\ NoCluster \notin Cluster
  /\ Secret \cap Release = {}
  /\ Order \in Seq(Secret \cup Release)
  /\ LastVersion \in Nat \ {0} /\ MaxFaults \in Nat

VARIABLES
  kubeconfig,  \* the cluster the kubeconfig leads to
  document,    \* per release, the version its document names
  pc,
  copy,        \* the cluster of the copy an apply holds
  want,        \* the versions it declared
  place,       \* the resource it is at
  secrets,     \* per cluster: what is in a secret
  status,      \* per cluster: what Helm's record of a release says
  version,     \* ... and its version
  refused,     \* what the operator was told, and has not seen to
  faults

vars == <<kubeconfig, document, pc, copy, want, place, secrets, status, version, refused, faults>>

Statuses == {"none", "pending", "failed", "deployed", "upgrading", "other chart"}
Up == {"deployed", "upgrading"}

TypeOK ==
  /\ kubeconfig \in Cluster \cup {NoCluster}
  /\ document \in [Release -> 1..LastVersion]
  /\ pc \in [Proc -> {"idle", "declared", "realize", "install", "wait"}]
  /\ copy \in [Proc -> Cluster \cup {NoCluster}]
  /\ want \in [Proc -> [Release -> 1..LastVersion]]
  /\ place \in [Proc -> Nat]
  /\ secrets \in [Cluster -> [Secret -> {"absent", "lacking", "whole"}]]
  /\ status \in [Cluster -> [Release -> Statuses]]
  /\ version \in [Cluster -> [Release -> 1..LastVersion]]
  /\ refused \subseteq {"kubeconfig"} \cup Secret \cup Release
  /\ faults \in 0..MaxFaults

Init ==
  /\ kubeconfig \in Cluster \cup {NoCluster}
  /\ document = [r \in Release |-> 1]
  /\ pc = [p \in Proc |-> "idle"]
  /\ copy = [p \in Proc |-> NoCluster]
  /\ want = [p \in Proc |-> document]
  /\ place = [p \in Proc |-> 1]
  /\ secrets = [c \in Cluster |-> [s \in Secret |-> "absent"]]
  \* A person may have installed something else under the name.
  /\ \E st \in {"none", "other chart"} : status = [c \in Cluster |-> [r \in Release |-> st]]
  /\ version = [c \in Cluster |-> document]
  /\ refused = {}
  /\ faults = 0

Resource(p) == Order[place[p]]
HasResource(p) == place[p] \in DOMAIN Order

\* One resource is done with; the loop goes on to the next one whatever it came to.
MoveOn(p) == place' = [place EXCEPT ![p] = @ + 1]
Refuse(what) == refused' = refused \cup {what}
Kept == UNCHANGED refused

-----------------------------------------------------------------------------
\* The engine reads the release documents of the checkout.
Declare(p) ==
  /\ pc[p] = "idle"
  /\ pc' = [pc EXCEPT ![p] = "declared"]
  /\ want' = [want EXCEPT ![p] = document]
  /\ UNCHANGED <<kubeconfig, document, copy, place, secrets, status, version, refused, faults>>

\* The kubeconfig is copied to a file of the reconcile's own.
Open(p) ==
  /\ pc[p] = "declared"
  /\ IF kubeconfig = NoCluster
     THEN /\ pc' = [pc EXCEPT ![p] = "idle"]
          /\ Refuse("kubeconfig")
          /\ UNCHANGED <<copy, place>>
     ELSE /\ pc' = [pc EXCEPT ![p] = "realize"]
          /\ copy' = [copy EXCEPT ![p] = kubeconfig]
          /\ place' = [place EXCEPT ![p] = 1]
          /\ Kept
  /\ UNCHANGED <<kubeconfig, document, want, secrets, status, version, faults>>

\* Mutant: the API server is read off the kubeconfig once more.
ConfirmedAgain(p) == kubeconfig = Declared

\* The client's API server is the one the resource declares.
Confirmed(p) == copy[p] = Declared

\* Every declared key is there and holds something.
RealizeSecret(p) ==
  /\ pc[p] = "realize" /\ HasResource(p) /\ Resource(p) \in Secret
  /\ CASE ~Confirmed(p) -> Refuse("kubeconfig")
       [] Confirmed(p) /\ secrets[copy[p]][Resource(p)] # "whole" -> Refuse(Resource(p))
       [] OTHER -> Kept
  /\ MoveOn(p)
  /\ UNCHANGED <<kubeconfig, document, pc, copy, want, secrets, status, version, faults>>

\* Mutant: another version is upgraded to the declared one.
ReadReleaseUpgrading(p) ==
  /\ pc[p] = "realize" /\ HasResource(p) /\ Resource(p) \in Release
  /\ LET r == Resource(p)  s == status[copy[p]][r] IN
     IF Confirmed(p) /\ s = "none"
     THEN pc' = [pc EXCEPT ![p] = "install"] /\ Kept /\ UNCHANGED <<place, version>>
     ELSE /\ CASE ~Confirmed(p) -> Refuse("kubeconfig")
               [] Confirmed(p) /\ s # "deployed" -> Refuse(r)
               [] OTHER -> Kept
          /\ version' = IF Confirmed(p) /\ s = "deployed"
                        THEN [version EXCEPT ![copy[p]][r] = want[p][r]] ELSE version
          /\ MoveOn(p) /\ UNCHANGED pc
  /\ UNCHANGED <<kubeconfig, document, copy, want, secrets, status, faults>>

\* Mutant: a release that is there is kept, whatever its status.
ReadReleaseAnyStatus(p) ==
  /\ pc[p] = "realize" /\ HasResource(p) /\ Resource(p) \in Release
  /\ LET r == Resource(p)  s == status[copy[p]][r] IN
     IF Confirmed(p) /\ s = "none"
     THEN pc' = [pc EXCEPT ![p] = "install"] /\ Kept /\ UNCHANGED place
     ELSE /\ IF ~Confirmed(p) THEN Refuse("kubeconfig")
             ELSE IF s = "other chart" THEN Refuse(r) ELSE Kept
          /\ MoveOn(p) /\ UNCHANGED pc
  /\ UNCHANGED <<kubeconfig, document, copy, want, secrets, status, version, faults>>

\* A release that is not there is installed; one that is there is kept in
\* whatever version, if it is deployed from the declared chart.
ReadRelease(p) ==
  /\ pc[p] = "realize" /\ HasResource(p) /\ Resource(p) \in Release
  /\ LET r == Resource(p)  s == status[copy[p]][r] IN
     IF Confirmed(p) /\ s = "none"
     THEN pc' = [pc EXCEPT ![p] = "install"] /\ Kept /\ UNCHANGED place
     ELSE /\ CASE ~Confirmed(p) -> Refuse("kubeconfig")
               [] Confirmed(p) /\ s # "deployed" -> Refuse(r)
               [] OTHER -> Kept
          /\ MoveOn(p) /\ UNCHANGED pc
  /\ UNCHANGED <<kubeconfig, document, copy, want, secrets, status, version, faults>>

\* Helm creates its record, unless there is one by now.
Install(p) ==
  /\ pc[p] = "install"
  /\ LET r == Resource(p) IN
     IF status[copy[p]][r] = "none"
     THEN /\ status' = [status EXCEPT ![copy[p]][r] = "pending"]
          /\ version' = [version EXCEPT ![copy[p]][r] = want[p][r]]
          /\ pc' = [pc EXCEPT ![p] = "wait"]
          /\ Kept /\ UNCHANGED place
     ELSE /\ pc' = [pc EXCEPT ![p] = "realize"]
          /\ Refuse(r) /\ MoveOn(p) /\ UNCHANGED <<status, version>>
  /\ UNCHANGED <<kubeconfig, document, copy, want, secrets, faults>>

\* The chart is not to be had: nothing is recorded.
Fetchless(p) ==
  /\ pc[p] = "install"
  /\ faults < MaxFaults /\ faults' = faults + 1
  /\ pc' = [pc EXCEPT ![p] = "realize"]
  /\ Refuse(Resource(p)) /\ MoveOn(p)
  /\ UNCHANGED <<kubeconfig, document, copy, want, secrets, status, version>>

\* It waits for the objects to come up, for ten minutes at most.
ComeUp(p) ==
  /\ pc[p] = "wait"
  /\ status' = [status EXCEPT ![copy[p]][Resource(p)] = "deployed"]
  /\ pc' = [pc EXCEPT ![p] = "realize"]
  /\ MoveOn(p)
  /\ UNCHANGED <<kubeconfig, document, copy, want, secrets, version, refused, faults>>

TimeOut(p) ==
  /\ pc[p] = "wait"
  /\ faults < MaxFaults /\ faults' = faults + 1
  /\ status' = [status EXCEPT ![copy[p]][Resource(p)] = "failed"]
  /\ pc' = [pc EXCEPT ![p] = "realize"]
  /\ Refuse(Resource(p)) /\ MoveOn(p)
  /\ UNCHANGED <<kubeconfig, document, copy, want, secrets, version>>

\* The answer goes back and the copy is removed.
Answer(p) ==
  /\ pc[p] = "realize" /\ ~HasResource(p)
  /\ pc' = [pc EXCEPT ![p] = "idle"]
  /\ copy' = [copy EXCEPT ![p] = NoCluster]
  /\ UNCHANGED <<kubeconfig, document, want, place, secrets, status, version, refused, faults>>

Die(p) ==
  /\ pc[p] # "idle"
  /\ faults < MaxFaults /\ faults' = faults + 1
  /\ pc' = [pc EXCEPT ![p] = "idle"]
  /\ copy' = [copy EXCEPT ![p] = NoCluster]
  /\ UNCHANGED <<kubeconfig, document, want, place, secrets, status, version, refused>>

-----------------------------------------------------------------------------
(* Around the pipeline.                                                    *)

\* A person works with another cluster, or with none.
Move ==
  /\ faults < MaxFaults /\ faults' = faults + 1
  /\ kubeconfig' \in (Cluster \cup {NoCluster}) \ {kubeconfig}
  /\ UNCHANGED <<document, pc, copy, want, place, secrets, status, version, refused>>

\* A commit to a release's document.
Commit(r) ==
  /\ document[r] < LastVersion
  /\ document' = [document EXCEPT ![r] = @ + 1]
  /\ UNCHANGED <<kubeconfig, pc, copy, want, place, secrets, status, version, refused, faults>>

\* Flux brings a release to its document.
Upgrade(r) ==
  /\ status[Declared][r] = "deployed" /\ version[Declared][r] < document[r]
  /\ status' = [status EXCEPT ![Declared][r] = "upgrading"]
  /\ version' = [version EXCEPT ![Declared][r] = document[r]]
  /\ UNCHANGED <<kubeconfig, document, pc, copy, want, place, secrets, refused, faults>>

Upgraded(r) ==
  /\ status[Declared][r] = "upgrading"
  /\ status' = [status EXCEPT ![Declared][r] = "deployed"]
  /\ UNCHANGED <<kubeconfig, document, pc, copy, want, place, secrets, version, refused, faults>>

\* The operator does what he was told, once: points the kubeconfig back, writes
\* the secret, perhaps with a key left out or blank, and takes a release away
\* that no install is going on for.
See(what) == what \in refused /\ refused' = refused \ {what}

PointBack ==
  /\ See("kubeconfig")
  /\ kubeconfig' = Declared
  /\ UNCHANGED <<document, pc, copy, want, place, secrets, status, version, faults>>

WriteSecret(s) ==
  /\ See(s)
  /\ \E held \in {"lacking", "whole"} :
       /\ IF held = "whole" THEN UNCHANGED faults
          ELSE faults < MaxFaults /\ faults' = faults + 1
       /\ secrets' = [secrets EXCEPT ![Declared][s] = held]
  /\ UNCHANGED <<kubeconfig, document, pc, copy, want, place, status, version>>

Resolve(r) ==
  /\ See(r)
  /\ \A p \in Proc : pc[p] = "wait" => Resource(p) # r
  /\ status' = IF status[Declared][r] \in Up THEN status
               ELSE [status EXCEPT ![Declared][r] = "none"]
  /\ UNCHANGED <<kubeconfig, document, pc, copy, want, place, secrets, version, faults>>

-----------------------------------------------------------------------------
Step(p) == \/ Declare(p) \/ Open(p) \/ RealizeSecret(p) \/ ReadRelease(p)
           \/ Install(p) \/ ComeUp(p) \/ Answer(p)
Fault   == Move \/ \E p \in Proc : Fetchless(p) \/ TimeOut(p) \/ Die(p)
Flux    == \E r \in Release : Upgrade(r) \/ Upgraded(r)
Operate == PointBack \/ (\E s \in Secret : WriteSecret(s)) \/ \E r \in Release : Resolve(r)

Next == (\E p \in Proc : Step(p)) \/ Fault \/ Flux \/ Operate \/ \E r \in Release : Commit(r)

Spec == Init /\ [][Next]_vars

\* Applies are run again, an install that is waited for comes up or fails, Flux
\* ends what it began, and the operator sees to what he is told, of each thing.
Fairness ==
  /\ \A p \in Proc : WF_vars(Step(p))
  /\ WF_vars(Flux) /\ WF_vars(PointBack)
  /\ \A s \in Secret : WF_vars(WriteSecret(s))
  /\ \A r \in Release : WF_vars(Resolve(r))
FairSpec == Spec /\ Fairness

-----------------------------------------------------------------------------
(* Properties.                                                             *)

\* Wherever the kubeconfig is moved to and whenever, a cluster the pipeline
\* does not declare stays as it is (confirmAPIServer, ci-manager-kubernetes'
\* usage.md: "a declaration therefore says which cluster it belongs to").
OtherClustersAreLeftAlone ==
  [][\A c \in Cluster \ {Declared} : status'[c] = status[c] /\ version'[c] = version[c]]_vars

\* A release that is up stays up and never goes back to an earlier version,
\* whichever checkout an apply declares from: Flux is the one writer of a
\* release that is there.
NoReleaseGoesBack ==
  [][\A r \in Release : status[Declared][r] \in Up =>
       status'[Declared][r] \in Up /\ version'[Declared][r] >= version[Declared][r]]_vars

\* Every release is up in the end, and nobody is told anything any more: what
\* a lost apply or a failed install left is refused until it is taken away.
ReleasesComeUp ==
  <>[](refused = {} /\ \A r \in Release : status[Declared][r] = "deployed")
=============================================================================
