--------------------------- MODULE ClusterBringUp ---------------------------
(***************************************************************************)
(* How a Talos cluster comes up and stays itself.                          *)
(*                                                                         *)
(* An apply asks the engine that declares the cluster for its machine      *)
(* config.  A node in maintenance has no cluster, so the engine mints a    *)
(* secret bundle; otherwise it reads the one the cluster stores.  The      *)
(* manager then realizes three resources in order: the machine config, the *)
(* bootstrap, the stored bundle.  A resource that fails does not stop the  *)
(* ones after it.  On a first run the bundle exists nowhere but in the     *)
(* process until the recovery directory holds it.                          *)
(*                                                                         *)
(* A bundle is a number, a machine config a bundle and the patch document  *)
(* it was rendered with.  The talosconfig holds an admin credential, which *)
(* opens the node whose config is of the same bundle.                      *)
(***************************************************************************)
EXTENDS Naturals

CONSTANTS
  Proc,        \* applies that may run
  LastBundle,  \* bundles told apart at one time
  LastPatch,   \* patch documents somebody writes
  Alone,       \* one apply at a time
  MaxFaults    \* deaths, reboots, wiped nodes and waits that take too long

ASSUME ClusterAssumption ==
  /\ LastBundle \in Nat \ {0}
  /\ LastPatch \in Nat \ {0}
  /\ Alone \in BOOLEAN
  /\ MaxFaults \in Nat

VARIABLES
  stage,       \* how far the node is
  up,          \* it is not rebooting
  config,      \* the machine config it holds, or None
  stored,      \* the bundle in the cluster's secret, or 0
  recovery,    \* the bundle in the recovery directory, or 0
  copy,        \* the bundle of the credential kept beside it, or 0
  credential,  \* the bundle of the talosconfig's credential, or 0
  patch,       \* the patch document in the pipeline's root
  advice,      \* what the last refusal told the operator
  pc, bundle, wanted,  \* per process: where it is, what it renders from
  rebooting,   \* per process: it sent the node into its reboot
  faults

cluster == <<stage, up, config, stored>>
files   == <<recovery, copy, credential>>
own     == <<bundle, wanted, rebooting>>
vars    == <<cluster, files, patch, advice, pc, own, faults>>

Bundle == 1..LastBundle
Patch  == 1..LastPatch
None   == [bundle |-> 0, patch |-> 0]
Config == [bundle : Bundle, patch : Patch]

Stages == {"maintenance", "configured", "bootstrapped", "registered"}
Advice == {"none", "move the directory", "bootstrap", "write the secret"}
Places == {"idle", "declare", "cluster", "config", "bundle", "save", "copy", "apply",
           "etcd", "boot", "wait", "secret", "store"}

TypeOK ==
  /\ stage \in Stages
  /\ up \in BOOLEAN
  /\ config \in Config \union {None}
  /\ stored \in Bundle \union {0}
  /\ recovery \in Bundle \union {0}
  /\ copy \in Bundle \union {0}
  /\ credential \in Bundle \union {0}
  /\ patch \in Patch
  /\ advice \in Advice
  /\ pc \in [Proc -> Places]
  /\ bundle \in [Proc -> Bundle \union {0}]
  /\ wanted \in [Proc -> Patch \union {0}]
  /\ rebooting \in [Proc -> BOOLEAN]
  /\ faults \in 0..MaxFaults

Fault == faults < MaxFaults /\ faults' = faults + 1

HasCluster == stage \in {"bootstrapped", "registered"}

\* The node takes the talosconfig's credential.
Secure == up /\ config # None /\ credential = config.bundle

InMaintenance == up /\ stage = "maintenance"

\* What a dial comes to.  The process that sent the node into its reboot
\* retries; when the node is back and still refuses, the ceiling passes.
Dial(p) ==
  IF Secure THEN "secure"
  ELSE IF rebooting[p] /\ ~up THEN "retry"
  ELSE IF InMaintenance THEN "maintenance"
  ELSE "refused"

\* Bundles somebody still holds.  A fresh one is none of them.
InUse == {recovery, copy, credential, stored, config.bundle} \union {bundle[p] : p \in Proc}
Fresh == Bundle \ InUse

-----------------------------------------------------------------------------
Init ==
  /\ stage = "maintenance"
  /\ up = TRUE
  /\ config = None
  /\ stored = 0
  /\ recovery = 0
  /\ copy = 0
  /\ credential = 0
  /\ patch = 1
  /\ advice = "none"
  /\ pc = [p \in Proc |-> "idle"]
  /\ bundle = [p \in Proc |-> 0]
  /\ wanted = [p \in Proc |-> 0]
  /\ rebooting = [p \in Proc |-> FALSE]
  /\ faults = 0

GoTo(p, next) == pc' = [pc EXCEPT ![p] = next]

Leave(p) ==
  /\ GoTo(p, "idle")
  /\ bundle' = [bundle EXCEPT ![p] = 0]
  /\ wanted' = [wanted EXCEPT ![p] = 0]
  /\ rebooting' = [rebooting EXCEPT ![p] = FALSE]

Refuse(p, why) == Leave(p) /\ advice' = why

-----------------------------------------------------------------------------
(* The engine declares.                                                    *)

\* The patch document is read first.
Start(p) ==
  /\ pc[p] = "idle"
  /\ Alone => \A q \in Proc : pc[q] = "idle"
  /\ GoTo(p, "declare")
  /\ wanted' = [wanted EXCEPT ![p] = patch]
  /\ UNCHANGED <<cluster, files, patch, advice, bundle, rebooting, faults>>

\* Mutant: a node without a cluster gets a new bundle, whatever it holds.
MintEarly(p) ==
  /\ pc[p] = "declare"
  /\ up
  /\ ~HasCluster
  /\ Fresh # {}
  /\ bundle' = [bundle EXCEPT ![p] = CHOOSE b \in Fresh : TRUE]
  /\ GoTo(p, "config")
  /\ UNCHANGED <<cluster, files, patch, advice, wanted, rebooting, faults>>

\* The probe over the insecure connection says maintenance: a bundle is minted.
Mint(p) ==
  /\ pc[p] = "declare"
  /\ InMaintenance
  /\ Fresh # {}
  /\ bundle' = [bundle EXCEPT ![p] = CHOOSE b \in Fresh : TRUE]
  /\ GoTo(p, "config")
  /\ UNCHANGED <<cluster, files, patch, advice, wanted, rebooting, faults>>

\* The probe is refused at TLS: the node holds a config.  A node that is
\* rebooting answers nothing, and the apply errs.
ProbeRefused(p) ==
  /\ pc[p] = "declare"
  /\ ~InMaintenance
  /\ IF up THEN GoTo(p, "cluster") /\ UNCHANGED own ELSE Leave(p)
  /\ UNCHANGED <<cluster, files, patch, advice, faults>>

\* The bundle is the one the cluster stores.
ReadStored(p) ==
  /\ pc[p] = "cluster"
  /\ Secure
  /\ HasCluster
  /\ stored # 0
  /\ bundle' = [bundle EXCEPT ![p] = stored]
  /\ GoTo(p, "config")
  /\ UNCHANGED <<cluster, files, patch, advice, wanted, rebooting, faults>>

\* A cluster without the secret, or a node without a cluster, is refused
\* with what to do about it; a node that does not answer, without.
RefuseToDeclare(p) ==
  /\ pc[p] = "cluster"
  /\ \/ Secure /\ HasCluster /\ stored = 0 /\ Refuse(p, "write the secret")
     \/ Secure /\ ~HasCluster /\ Refuse(p, "bootstrap")
     \/ ~Secure /\ InMaintenance /\ Refuse(p, "bootstrap")
     \/ ~Secure /\ ~InMaintenance /\ Leave(p) /\ UNCHANGED advice
  /\ UNCHANGED <<cluster, files, patch, faults>>

-----------------------------------------------------------------------------
(* The manager realizes the machine config.                                *)

\* Mutant: a directory that holds a bundle is taken for a run already made.
FirstRunKept(p) ==
  /\ pc[p] = "config"
  /\ Dial(p) = "maintenance"
  /\ GoTo(p, IF recovery # 0 THEN "etcd" ELSE "bundle")
  /\ UNCHANGED <<cluster, files, patch, advice, own, faults>>

\* Mutant: nothing is written before the apply.
FirstRunUnprepared(p) ==
  /\ pc[p] = "config"
  /\ Dial(p) = "maintenance"
  /\ GoTo(p, IF recovery # 0 THEN "etcd" ELSE "save")
  /\ advice' = IF recovery # 0 THEN "move the directory" ELSE advice
  /\ UNCHANGED <<cluster, files, patch, own, faults>>

\* A node in maintenance holds no config: a first run, refused when the
\* recovery directory holds a bundle.
FirstRun(p) ==
  /\ pc[p] = "config"
  /\ Dial(p) = "maintenance"
  /\ IF recovery # 0
       THEN GoTo(p, "etcd") /\ advice' = "move the directory"
       ELSE GoTo(p, "bundle") /\ UNCHANGED advice
  /\ UNCHANGED <<cluster, files, patch, own, faults>>

Rendered(p) == [bundle |-> bundle[p], patch |-> wanted[p]]

\* The node's config is compared with the declared one.
Compare(p) ==
  /\ pc[p] = "config"
  /\ Dial(p) = "secure"
  /\ GoTo(p, IF config = Rendered(p) THEN "etcd" ELSE "apply")
  /\ UNCHANGED <<cluster, files, patch, advice, own, faults>>

\* The first run's three writes, in this order.
WriteBundle(p) ==
  /\ pc[p] = "bundle"
  /\ recovery' = bundle[p]
  /\ GoTo(p, "save")
  /\ UNCHANGED <<cluster, copy, credential, patch, advice, own, faults>>

SaveTalosconfig(p) ==
  /\ pc[p] = "save"
  /\ credential' = bundle[p]
  /\ GoTo(p, "copy")
  /\ UNCHANGED <<cluster, recovery, copy, patch, advice, own, faults>>

WriteCopy(p) ==
  /\ pc[p] = "copy"
  /\ copy' = bundle[p]
  /\ GoTo(p, "apply")
  /\ UNCHANGED <<cluster, recovery, credential, patch, advice, own, faults>>

\* Over the secure connection, and the node reboots when the change needs it;
\* over the insecure one to a node in maintenance, which installs and reboots.
ApplyMachineConfig(p) ==
  /\ pc[p] = "apply"
  /\ Dial(p) \in {"secure", "maintenance"}
  /\ config' = Rendered(p)
  /\ IF Dial(p) = "secure"
       THEN up' \in BOOLEAN /\ UNCHANGED <<stage, rebooting>>
       ELSE /\ up' = FALSE
            /\ stage' = "configured"
            /\ rebooting' = [rebooting EXCEPT ![p] = TRUE]
  /\ GoTo(p, "etcd")
  /\ UNCHANGED <<stored, files, patch, advice, bundle, wanted, faults>>

-----------------------------------------------------------------------------
(* The manager bootstraps the cluster and stores its bundle.               *)

\* Whether etcd runs; on a node in maintenance it does not.
ReadEtcd(p) ==
  /\ pc[p] = "etcd"
  /\ Dial(p) \in {"secure", "maintenance"}
  /\ GoTo(p, IF Dial(p) = "secure" /\ HasCluster THEN "wait" ELSE "boot")
  /\ UNCHANGED <<cluster, files, patch, advice, own, faults>>

\* The node refuses a second bootstrap.
Bootstrap(p) ==
  /\ pc[p] = "boot"
  /\ Dial(p) = "secure"
  /\ IF HasCluster
       THEN GoTo(p, "secret") /\ UNCHANGED stage
       ELSE GoTo(p, "wait") /\ stage' = "bootstrapped"
  /\ UNCHANGED <<up, config, stored, files, patch, advice, own, faults>>

WaitNodeRegistered(p) ==
  /\ pc[p] = "wait"
  /\ Dial(p) = "secure"
  /\ stage = "registered"
  /\ GoTo(p, "secret")
  /\ UNCHANGED <<cluster, files, patch, advice, own, faults>>

\* The same bundle is kept, another one refused: either way the run is over.
ReadSecret(p) ==
  /\ pc[p] = "secret"
  /\ Dial(p) \in {"secure", "maintenance"}
  /\ IF Dial(p) = "secure" /\ stored # 0
       THEN Leave(p)
       ELSE GoTo(p, "store") /\ UNCHANGED own
  /\ UNCHANGED <<cluster, files, patch, advice, faults>>

\* The secret is created, never updated.
StoreBundle(p) ==
  /\ pc[p] = "store"
  /\ Dial(p) = "secure"
  /\ stored' = IF stored = 0 /\ HasCluster THEN bundle[p] ELSE stored
  /\ Leave(p)
  /\ UNCHANGED <<stage, up, config, files, patch, advice, faults>>

\* A resource whose dial fails is given up for the next one.
GiveUp(p) ==
  /\ \/ pc[p] \in {"config", "apply"} /\ GoTo(p, "etcd") /\ UNCHANGED own
     \/ pc[p] \in {"etcd", "boot", "wait"} /\ GoTo(p, "secret") /\ UNCHANGED own
     \/ pc[p] \in {"secret", "store"} /\ Leave(p)
  /\ UNCHANGED <<cluster, files, patch, advice>>

\* Reads take maintenance for an answer, the calls that need a cluster do not.
DialFails(p) ==
  /\ \/ Dial(p) = "refused"
     \/ Dial(p) = "maintenance" /\ pc[p] \in {"boot", "wait", "store"}
  /\ GiveUp(p)
  /\ UNCHANGED faults

\* The ten minutes pass before the node is back, or before it registers.
CeilingPasses(p) ==
  /\ \/ Dial(p) = "retry"
     \/ Dial(p) = "secure" /\ pc[p] = "wait" /\ stage # "registered"
  /\ Fault
  /\ GiveUp(p)

-----------------------------------------------------------------------------
(* What nobody in this code does.                                          *)

Crash(p) ==
  /\ pc[p] # "idle"
  /\ Fault
  /\ Leave(p)
  /\ UNCHANGED <<cluster, files, patch, advice>>

Boot ==
  /\ ~up
  /\ up' = TRUE
  /\ UNCHANGED <<stage, config, stored, files, patch, advice, pc, own, faults>>

Register ==
  /\ up
  /\ stage = "bootstrapped"
  /\ stage' = "registered"
  /\ UNCHANGED <<up, config, stored, files, patch, advice, pc, own, faults>>

\* Somebody restarts the box.
Reboot ==
  /\ up
  /\ Fault
  /\ up' = FALSE
  /\ UNCHANGED <<stage, config, stored, files, patch, advice, pc, own>>

\* The box is wiped, and the cluster with it.
Wipe ==
  /\ stage # "maintenance"
  /\ Fault
  /\ stage' = "maintenance"
  /\ up' = TRUE
  /\ config' = None
  /\ stored' = 0
  /\ UNCHANGED <<files, patch, advice, pc, own>>

EditPatch ==
  /\ patch < LastPatch
  /\ patch' = patch + 1
  /\ UNCHANGED <<cluster, files, advice, pc, own, faults>>

\* The operator does what the last refusal said.
MoveDirectory ==
  /\ advice = "move the directory"
  /\ advice' = "none"
  /\ recovery' = 0
  /\ copy' = 0
  /\ UNCHANGED <<cluster, credential, patch, pc, own, faults>>

BootstrapByHand ==
  /\ advice = "bootstrap"
  /\ up
  /\ stage = "configured"
  /\ copy = config.bundle
  /\ advice' = "none"
  /\ stage' = "bootstrapped"
  /\ UNCHANGED <<up, config, stored, files, patch, pc, own, faults>>

WriteSecretByHand ==
  /\ advice = "write the secret"
  /\ up
  /\ HasCluster
  /\ stored = 0
  /\ recovery # 0
  /\ advice' = "none"
  /\ stored' = recovery
  /\ UNCHANGED <<stage, up, config, files, patch, pc, own, faults>>

Operator == MoveDirectory \/ BootstrapByHand \/ WriteSecretByHand

Proceed(p) ==
  \/ Mint(p)
  \/ ProbeRefused(p)
  \/ ReadStored(p)
  \/ RefuseToDeclare(p)
  \/ FirstRun(p)
  \/ Compare(p)
  \/ WriteBundle(p)
  \/ SaveTalosconfig(p)
  \/ WriteCopy(p)
  \/ ApplyMachineConfig(p)
  \/ ReadEtcd(p)
  \/ Bootstrap(p)
  \/ WaitNodeRegistered(p)
  \/ ReadSecret(p)
  \/ StoreBundle(p)
  \/ DialFails(p)

Next ==
  \/ \E p \in Proc : Start(p) \/ Proceed(p) \/ CeilingPasses(p) \/ Crash(p)
  \/ Boot
  \/ Register
  \/ Reboot
  \/ Wipe
  \/ EditPatch
  \/ Operator

Spec == Init /\ [][Next]_vars

\* Applies go on and are started again, a node comes back from its reboot
\* and registers, and the operator reads what is refused.
Fairness ==
  /\ \A p \in Proc : WF_vars(Proceed(p)) /\ WF_vars(Start(p))
  /\ WF_vars(Boot)
  /\ WF_vars(Register)
  /\ WF_vars(Operator)

FairSpec == Spec /\ Fairness

-----------------------------------------------------------------------------
(* Properties.                                                             *)

\* Whatever bundle the node runs on, the recovery directory holds it and a
\* credential of it, the talosconfig opens the node, and the cluster stores
\* that bundle or none: a lost box, or a lost laptop, loses nothing.
NothingIsLost ==
  config # None =>
    /\ recovery = config.bundle
    /\ copy = config.bundle
    /\ credential = config.bundle
    /\ stored \in {0, config.bundle}

\* What that rests on.

OneAtATime == \A p, q \in Proc : pc[p] # "idle" /\ pc[q] # "idle" => p = q

\* A node holds a config unless it is in maintenance, and only then a cluster.
StageFits == (stage = "maintenance" <=> config = None) /\ (config = None => stored = 0)

\* The directory is only moved while nobody stands on it.
AdviceFits ==
  advice = "move the directory" =>
    config = None /\ recovery # 0 /\ \A p \in Proc : pc[p] \notin {"bundle", "save", "copy", "apply"}

\* A process that renders has a patch and a bundle.
Renders(p) ==
  /\ pc[p] # "idle" => wanted[p] \in Patch
  /\ pc[p] \notin {"idle", "declare", "cluster"} => bundle[p] \in Bundle

\* Its bundle is that of the node if the node has a config, and it has
\* written what is written before the apply.
HoldsItsBundle(p) ==
  /\ pc[p] \notin {"idle", "declare", "cluster"} /\ config # None =>
       config.bundle = bundle[p]
  /\ pc[p] \in {"bundle", "save", "copy"} => config = None
  /\ pc[p] = "bundle" => recovery = 0
  /\ pc[p] \in {"save", "copy", "apply"} => recovery = bundle[p]
  /\ pc[p] \in {"copy", "apply"} => credential = bundle[p]
  /\ pc[p] = "apply" => copy = bundle[p]

\* Inductive as long as one apply runs at a time.
BackedUp ==
  /\ NothingIsLost
  /\ OneAtATime
  /\ StageFits
  /\ AdviceFits
  /\ \A p \in Proc : Renders(p) /\ HoldsItsBundle(p)

\* A cluster holds one bundle for its whole life.
OneBundleForLife ==
  [][config # None /\ config' # None => config'.bundle = config.bundle]_vars

\* No run overwrites a bundle in the recovery directory: only the operator
\* takes it away.
NoBundleIsOverwritten ==
  [][recovery # 0 => recovery' \in {recovery, 0}]_vars

\* Once nothing fails any more, reruns and the operator's answers to their
\* refusals bring the cluster up on the newest patch, with its bundle stored.
ComesUp ==
  <>[](stage = "registered" /\ stored = config.bundle /\ config.patch = patch)
=============================================================================
