---------------------------- MODULE ClusterProofs ----------------------------
(***************************************************************************)
(* Theorems about ClusterBringUp: types whoever runs, and, as long as one  *)
(* apply runs at a time, that no bundle is lost, overwritten or replaced,  *)
(* wherever the apply dies and whenever the box is wiped.  And about       *)
(* ClusterResources: why a kubeconfig that leads elsewhere harms nobody,   *)
(* and why a release that is up is left to Flux, for any clusters,         *)
(* secrets, releases, number of applies at the same time and faults.       *)
(***************************************************************************)
EXTENDS Clusters, TLAPS

\* The types, with what a process renders from.
TypeInv == TypeOK /\ \A p \in Proc : Renders(p)

\* A fresh bundle is a bundle, when there is one.
LEMMA FreshIsABundle ==
  ASSUME Fresh # {}
  PROVE  (CHOOSE b \in Fresh : TRUE) \in Bundle
BY DEF Fresh

\* A process that leaves keeps the types.
LEMMA LeaveType ==
  ASSUME TypeOK, NEW p \in Proc, Leave(p)
  PROVE  /\ pc' \in [Proc -> Places]
         /\ bundle' \in [Proc -> Bundle \union {0}]
         /\ wanted' \in [Proc -> Patch \union {0}]
         /\ rebooting' \in [Proc -> BOOLEAN]
BY DEF TypeOK, Leave, GoTo, Places

\* So does one that goes on.
LEMMA GoType ==
  ASSUME TypeOK, NEW p \in Proc, NEW next \in Places, GoTo(p, next)
  PROVE  pc' \in [Proc -> Places]
BY DEF TypeOK, GoTo

\* A step of a process that dials nothing keeps the types.
LEMMA OfflineType ==
  ASSUME TypeOK, ClusterAssumption, NEW p \in Proc,
         Start(p) \/ Mint(p) \/ ProbeRefused(p) \/ FirstRun(p)
           \/ WriteBundle(p) \/ SaveTalosconfig(p) \/ WriteCopy(p) \/ Crash(p)
  PROVE  TypeOK'
<1> USE DEF cluster, files, own
<1>1. CASE Start(p)
  <2>1. pc' \in [Proc -> Places]
    BY <1>1, GoType DEF Start, Places
  <2> QED BY <1>1, <2>1 DEF Start, TypeOK
<1>2. CASE Mint(p)
  <2>1. pc' \in [Proc -> Places]
    BY <1>2, GoType DEF Mint, Places
  <2>2. bundle' \in [Proc -> Bundle \union {0}]
    BY <1>2, FreshIsABundle DEF Mint, TypeOK
  <2> QED BY <1>2, <2>1, <2>2 DEF Mint, TypeOK
<1>3. CASE ProbeRefused(p)
  <2>1. CASE up
    <3>1. pc' \in [Proc -> Places]
      BY <1>3, <2>1, GoType DEF ProbeRefused, Places
    <3> QED BY <1>3, <2>1, <3>1 DEF ProbeRefused, TypeOK
  <2>2. CASE ~up
    BY <1>3, <2>2, LeaveType DEF ProbeRefused, TypeOK
  <2> QED BY <2>1, <2>2
<1>4. CASE FirstRun(p)
  <2>1. pc' \in [Proc -> Places]
    BY <1>4, GoType DEF FirstRun, Places
  <2>2. advice' \in Advice
    BY <1>4 DEF FirstRun, TypeOK, Advice
  <2> QED BY <1>4, <2>1, <2>2 DEF FirstRun, TypeOK
<1>5. CASE WriteBundle(p)
  <2>1. pc' \in [Proc -> Places]
    BY <1>5, GoType DEF WriteBundle, Places
  <2> QED BY <1>5, <2>1 DEF WriteBundle, TypeOK
<1>6. CASE SaveTalosconfig(p)
  <2>1. pc' \in [Proc -> Places]
    BY <1>6, GoType DEF SaveTalosconfig, Places
  <2> QED BY <1>6, <2>1 DEF SaveTalosconfig, TypeOK
<1>7. CASE WriteCopy(p)
  <2>1. pc' \in [Proc -> Places]
    BY <1>7, GoType DEF WriteCopy, Places
  <2> QED BY <1>7, <2>1 DEF WriteCopy, TypeOK
<1>8. CASE Crash(p)
  BY <1>8, LeaveType DEF Crash, Fault, TypeOK, ClusterAssumption
<1> QED BY <1>1, <1>2, <1>3, <1>4, <1>5, <1>6, <1>7, <1>8

\* So does one that dials.
LEMMA DialingType ==
  ASSUME TypeOK, ClusterAssumption, NEW p \in Proc, Renders(p),
         \/ ReadStored(p) \/ RefuseToDeclare(p) \/ Compare(p) \/ ApplyMachineConfig(p)
         \/ ReadEtcd(p) \/ Bootstrap(p) \/ WaitNodeRegistered(p)
         \/ ReadSecret(p) \/ StoreBundle(p)
  PROVE  TypeOK'
<1> USE DEF cluster, files, own
<1>1. CASE ReadStored(p)
  <2>1. pc' \in [Proc -> Places]
    BY <1>1, GoType DEF ReadStored, Places
  <2> QED BY <1>1, <2>1 DEF ReadStored, TypeOK
<1>2. CASE RefuseToDeclare(p)
  <2>1. Leave(p) /\ advice' \in Advice
    BY <1>2 DEF RefuseToDeclare, Refuse, TypeOK, Advice
  <2> QED BY <1>2, <2>1, LeaveType DEF RefuseToDeclare, TypeOK
<1>3. CASE Compare(p)
  <2>1. pc' \in [Proc -> Places]
    BY <1>3, GoType DEF Compare, Places
  <2> QED BY <1>3, <2>1 DEF Compare, TypeOK
<1>4. CASE ApplyMachineConfig(p)
  <2>1. pc' \in [Proc -> Places]
    BY <1>4, GoType DEF ApplyMachineConfig, Places
  <2>2. config' \in Config
    BY <1>4 DEF ApplyMachineConfig, Rendered, Renders, Config
  <2>3. stage' \in Stages /\ up' \in BOOLEAN /\ rebooting' \in [Proc -> BOOLEAN]
    BY <1>4 DEF ApplyMachineConfig, TypeOK, Stages
  <2> QED BY <1>4, <2>1, <2>2, <2>3 DEF ApplyMachineConfig, TypeOK
<1>5. CASE ReadEtcd(p)
  <2>1. pc' \in [Proc -> Places]
    BY <1>5, GoType DEF ReadEtcd, Places
  <2> QED BY <1>5, <2>1 DEF ReadEtcd, TypeOK
<1>6. CASE Bootstrap(p)
  <2>1. pc' \in [Proc -> Places]
    BY <1>6, GoType DEF Bootstrap, Places
  <2>2. stage' \in Stages
    BY <1>6 DEF Bootstrap, TypeOK, Stages
  <2> QED BY <1>6, <2>1, <2>2 DEF Bootstrap, TypeOK
<1>7. CASE WaitNodeRegistered(p)
  <2>1. pc' \in [Proc -> Places]
    BY <1>7, GoType DEF WaitNodeRegistered, Places
  <2> QED BY <1>7, <2>1 DEF WaitNodeRegistered, TypeOK
<1>8. CASE ReadSecret(p)
  <2>1. pc' \in [Proc -> Places] /\ bundle' \in [Proc -> Bundle \union {0}]
        /\ wanted' \in [Proc -> Patch \union {0}] /\ rebooting' \in [Proc -> BOOLEAN]
    BY <1>8, LeaveType, GoType DEF ReadSecret, Places, TypeOK
  <2> QED BY <1>8, <2>1 DEF ReadSecret, TypeOK
<1>9. CASE StoreBundle(p)
  <2>1. stored' \in Bundle \union {0}
    BY <1>9 DEF StoreBundle, TypeOK
  <2> QED BY <1>9, <2>1, LeaveType DEF StoreBundle, TypeOK
<1> QED BY <1>1, <1>2, <1>3, <1>4, <1>5, <1>6, <1>7, <1>8, <1>9

\* A resource given up changes nothing but where the process is.
LEMMA GivesUp ==
  ASSUME TypeOK, NEW p \in Proc, GiveUp(p)
  PROVE  /\ UNCHANGED <<cluster, files, patch, advice>>
         /\ pc' \in [Proc -> Places] /\ bundle' \in [Proc -> Bundle \union {0}]
         /\ wanted' \in [Proc -> Patch \union {0}] /\ rebooting' \in [Proc -> BOOLEAN]
         /\ \/ UNCHANGED own /\ pc[p] \in {"config", "apply", "etcd", "boot", "wait"}
               /\ \/ GoTo(p, "etcd")
                  \/ GoTo(p, "secret")
            \/ Leave(p)
<1>1. CASE pc[p] \in {"config", "apply"} /\ GoTo(p, "etcd") /\ UNCHANGED own
  BY <1>1, GoType DEF GiveUp, own, Places, TypeOK
<1>2. CASE pc[p] \in {"etcd", "boot", "wait"} /\ GoTo(p, "secret") /\ UNCHANGED own
  BY <1>2, GoType DEF GiveUp, own, Places, TypeOK
<1>3. CASE pc[p] \in {"secret", "store"} /\ Leave(p)
  BY <1>3, LeaveType DEF GiveUp
<1> QED BY <1>1, <1>2, <1>3 DEF GiveUp

\* What nobody in the code does keeps the types as well.
LEMMA OutsideType ==
  ASSUME TypeOK, ClusterAssumption,
         Boot \/ Register \/ Reboot \/ Wipe \/ EditPatch \/ Operator
  PROVE  TypeOK' /\ UNCHANGED <<pc, own>>
<1>1. CASE Boot \/ Register \/ Reboot
  <2>1. stage' \in Stages /\ up' \in BOOLEAN
    BY <1>1 DEF Boot, Register, Reboot, TypeOK, Stages
  <2>2. faults' \in 0..MaxFaults
    BY <1>1 DEF Boot, Register, Reboot, Fault, TypeOK, ClusterAssumption
  <2> QED
    BY <1>1, <2>1, <2>2 DEF Boot, Register, Reboot, TypeOK, files, own
<1>2. CASE Wipe
  BY <1>2 DEF Wipe, Fault, TypeOK, Stages, ClusterAssumption, files, own
<1>3. CASE EditPatch
  BY <1>3 DEF EditPatch, TypeOK, Patch, ClusterAssumption, cluster, files, own
<1>4. CASE Operator
  BY <1>4 DEF Operator, MoveDirectory, BootstrapByHand, WriteSecretByHand,
              TypeOK, Stages, Advice, cluster, files, own
<1> QED BY <1>1, <1>2, <1>3, <1>4

\* The steps of a process.
Steps(p) == Start(p) \/ Proceed(p) \/ CeilingPasses(p) \/ Crash(p)

\* A dial that fails, or takes too long, gives a resource up.
LEMMA FailureType ==
  ASSUME TypeOK, ClusterAssumption, NEW p \in Proc, DialFails(p) \/ CeilingPasses(p)
  PROVE  TypeOK'
<1>1. faults' \in 0..MaxFaults
  BY DEF DialFails, CeilingPasses, Fault, TypeOK, ClusterAssumption
<1>2. GiveUp(p)
  BY DEF DialFails, CeilingPasses
<1> QED BY <1>1, <1>2, GivesUp DEF TypeOK, cluster, files

\* A step of one process leaves the others where they are.
LEMMA OthersRest ==
  ASSUME TypeOK, NEW p \in Proc, Steps(p), NEW q \in Proc, q # p
  PROVE  pc'[q] = pc[q] /\ bundle'[q] = bundle[q] /\ wanted'[q] = wanted[q]
<1> USE DEF TypeOK, own, GoTo
<1>1. CASE Start(p) \/ Mint(p) \/ FirstRun(p) \/ WriteBundle(p) \/ SaveTalosconfig(p) \/ WriteCopy(p)
  BY <1>1 DEF Start, Mint, FirstRun, WriteBundle, SaveTalosconfig, WriteCopy
<1>2. CASE ProbeRefused(p) \/ Crash(p) \/ RefuseToDeclare(p) \/ StoreBundle(p) \/ ReadSecret(p)
  BY <1>2 DEF ProbeRefused, Crash, RefuseToDeclare, Refuse, StoreBundle, ReadSecret, Leave
<1>3. CASE ReadStored(p) \/ Compare(p) \/ ApplyMachineConfig(p) \/ ReadEtcd(p)
             \/ Bootstrap(p) \/ WaitNodeRegistered(p)
  BY <1>3 DEF ReadStored, Compare, ApplyMachineConfig, ReadEtcd, Bootstrap, WaitNodeRegistered
<1>4. CASE DialFails(p) \/ CeilingPasses(p)
  BY <1>4 DEF DialFails, CeilingPasses, GiveUp, Leave
<1> QED BY <1>1, <1>2, <1>3, <1>4 DEF Steps, Proceed

\* A step leaves its process something to render from.
LEMMA StillRenders ==
  ASSUME TypeOK, NEW p \in Proc, Renders(p), Steps(p)
  PROVE  Renders(p)'
<1> USE DEF TypeOK, own, GoTo, Renders
<1>1. CASE Start(p)
  BY <1>1 DEF Start
<1>2. CASE Mint(p)
  BY <1>2, FreshIsABundle DEF Mint
<1>3. CASE FirstRun(p) \/ WriteBundle(p) \/ SaveTalosconfig(p) \/ WriteCopy(p)
  BY <1>3 DEF FirstRun, WriteBundle, SaveTalosconfig, WriteCopy
<1>4. CASE ProbeRefused(p) \/ Crash(p) \/ RefuseToDeclare(p) \/ StoreBundle(p) \/ ReadSecret(p)
  BY <1>4 DEF ProbeRefused, Crash, RefuseToDeclare, Refuse, StoreBundle, ReadSecret, Leave
<1>5. CASE ReadStored(p)
  BY <1>5 DEF ReadStored
<1>6. CASE Compare(p) \/ ApplyMachineConfig(p) \/ ReadEtcd(p) \/ Bootstrap(p) \/ WaitNodeRegistered(p)
  BY <1>6 DEF Compare, ApplyMachineConfig, ReadEtcd, Bootstrap, WaitNodeRegistered
<1>7. CASE DialFails(p) \/ CeilingPasses(p)
  BY <1>7 DEF DialFails, CeilingPasses, GiveUp, Leave
<1> QED BY <1>1, <1>2, <1>3, <1>4, <1>5, <1>6, <1>7 DEF Steps, Proceed

\* Every step keeps the types.
LEMMA TypeStep ==
  ASSUME ClusterAssumption, TypeInv, [Next]_vars
  PROVE  TypeInv'
<1> USE DEF TypeInv
<1>1. ASSUME NEW p \in Proc, Steps(p)
      PROVE  TypeInv'
  <2>1. TypeOK'
    BY <1>1, OfflineType, DialingType, FailureType DEF Steps, Proceed
  <2>2. ASSUME NEW q \in Proc
        PROVE  Renders(q)'
    <3>1. CASE q = p
      BY <1>1, <3>1, StillRenders
    <3>2. CASE q # p
      BY <1>1, <3>2, OthersRest DEF Renders
    <3> QED BY <3>1, <3>2
  <2> QED BY <2>1, <2>2
<1>2. CASE Boot \/ Register \/ Reboot \/ Wipe \/ EditPatch \/ Operator
  BY <1>2, OutsideType DEF Renders, own
<1>3. CASE UNCHANGED vars
  BY <1>3 DEF vars, cluster, files, own, TypeOK, Renders
<1> QED BY <1>1, <1>2, <1>3 DEF Next, Steps

\* Types: whoever runs, every variable keeps its type.
THEOREM TypeCorrect == Spec => []TypeOK
<1>1. Init => TypeInv
  BY ClusterAssumption
  DEF Init, TypeInv, TypeOK, Renders, ClusterAssumption, None, Patch, Stages, Advice, Places
<1>2. TypeInv /\ [Next]_vars => TypeInv'
  BY TypeStep, ClusterAssumption
<1>3. TypeInv => TypeOK
  BY DEF TypeInv
<1> QED BY <1>1, <1>2, <1>3, PTL DEF Spec

-----------------------------------------------------------------------------
(* One apply at a time.                                                    *)

\* The invariant as the one process that runs sees it.
Sees(p) ==
  /\ NothingIsLost
  /\ StageFits
  /\ advice = "move the directory" =>
       config = None /\ recovery # 0 /\ pc[p] \notin {"bundle", "save", "copy", "apply"}
  /\ HoldsItsBundle(p)

\* No bundle is 0, so None is no config.
LEMMA NoneIsNoConfig ==
  ASSUME NEW c \in Config
  PROVE  c # None /\ c.bundle \in Bundle /\ c.bundle # 0
BY DEF Config, None, Bundle

\* A process that leaves sees what it saw.
LEMMA LeaveSees ==
  ASSUME TypeOK, NEW p \in Proc, Sees(p), Leave(p),
         UNCHANGED <<stage, config, recovery, copy, credential>>,
         advice' = "move the directory" => advice = advice',
         NothingIsLost', config = None => stored' = 0
  PROVE  Sees(p)'
<1>1. pc'[p] = "idle"
  BY DEF Leave, GoTo, TypeOK
<1> QED BY <1>1 DEF Sees, StageFits, HoldsItsBundle

\* So does one that goes on to a place where nothing is written any more.
LEMMA GoOnSees ==
  ASSUME TypeOK, NEW p \in Proc, Sees(p),
         pc[p] \notin {"idle", "declare", "cluster"},
         NEW next \in {"etcd", "boot", "wait", "secret", "store"}, GoTo(p, next),
         UNCHANGED <<stage, config, stored, recovery, copy, credential, advice, own>>
  PROVE  Sees(p)'
<1>1. pc'[p] = next /\ bundle' = bundle
  BY DEF GoTo, TypeOK, own
<1> QED BY <1>1 DEF Sees, NothingIsLost, StageFits, HoldsItsBundle

\* Starting and declaring: a minted bundle is of a node without a config,
\* a stored one is the node's.
LEMMA DeclaringSees ==
  ASSUME TypeOK, NEW p \in Proc, Sees(p),
         Start(p) \/ Mint(p) \/ ProbeRefused(p) \/ ReadStored(p) \/ RefuseToDeclare(p)
  PROVE  Sees(p)'
<1> USE DEF cluster, files, own
<1>1. CASE Start(p)
  <2>1. pc'[p] = "declare"
    BY <1>1 DEF Start, GoTo, TypeOK
  <2> QED BY <1>1, <2>1 DEF Start, Sees, NothingIsLost, StageFits, HoldsItsBundle
<1>2. CASE Mint(p)
  <2>1. pc'[p] = "config" /\ config = None
    BY <1>2 DEF Mint, GoTo, TypeOK, InMaintenance, Sees, StageFits
  <2> QED BY <1>2, <2>1 DEF Mint, Sees, NothingIsLost, StageFits, HoldsItsBundle
<1>3. CASE ProbeRefused(p)
  <2>1. pc'[p] \in {"cluster", "idle"}
    BY <1>3 DEF ProbeRefused, GoTo, Leave, TypeOK
  <2> QED BY <1>3, <2>1 DEF ProbeRefused, Sees, NothingIsLost, StageFits, HoldsItsBundle
<1>4. CASE ReadStored(p)
  <2>1. pc'[p] = "config" /\ bundle'[p] = stored /\ stored = config.bundle
    BY <1>4 DEF ReadStored, GoTo, TypeOK, Secure, Sees, NothingIsLost
  <2> QED BY <1>4, <2>1 DEF ReadStored, Sees, NothingIsLost, StageFits, HoldsItsBundle
<1>5. CASE RefuseToDeclare(p)
  <2>1. Leave(p) /\ (advice' = "move the directory" => advice = advice')
    BY <1>5 DEF RefuseToDeclare, Refuse
  <2> QED BY <1>5, <2>1, LeaveSees DEF RefuseToDeclare, Sees, NothingIsLost, StageFits
<1> QED BY <1>1, <1>2, <1>3, <1>4, <1>5

\* The first run, up to its writes; the writes themselves are of a node
\* without a config and of a directory without a bundle.
LEMMA PreparingSees ==
  ASSUME TypeOK, NEW p \in Proc, Sees(p),
         FirstRun(p) \/ Compare(p) \/ WriteBundle(p) \/ SaveTalosconfig(p) \/ WriteCopy(p)
  PROVE  Sees(p)'
<1> USE DEF cluster, files, own
<1>1. CASE FirstRun(p)
  <2>1. config = None
    BY <1>1 DEF FirstRun, Dial, InMaintenance, Sees, StageFits
  <2>2. CASE recovery # 0
    <3>1. pc'[p] = "etcd"
      BY <1>1, <2>2 DEF FirstRun, GoTo, TypeOK
    <3> QED BY <1>1, <2>1, <3>1 DEF FirstRun, Sees, NothingIsLost, StageFits, HoldsItsBundle
  <2>3. CASE recovery = 0
    <3>1. pc'[p] = "bundle" /\ advice' = advice
      BY <1>1, <2>3 DEF FirstRun, GoTo, TypeOK
    <3> QED BY <1>1, <2>1, <2>3, <3>1 DEF FirstRun, Sees, NothingIsLost, StageFits, HoldsItsBundle
  <2> QED BY <2>2, <2>3
<1>2. CASE Compare(p)
  <2>1. config # None /\ pc[p] = "config" /\ credential = config.bundle
    BY <1>2 DEF Compare, Dial, Secure
  <2>2. pc'[p] \in {"etcd", "apply"}
    BY <1>2 DEF Compare, GoTo, TypeOK
  <2> QED BY <1>2, <2>1, <2>2 DEF Compare, Sees, NothingIsLost, StageFits, HoldsItsBundle
<1>3. CASE WriteBundle(p)
  <2>1. pc[p] = "bundle" /\ pc'[p] = "save"
    BY <1>3 DEF WriteBundle, GoTo, TypeOK
  <2> QED BY <1>3, <2>1 DEF WriteBundle, Sees, NothingIsLost, StageFits, HoldsItsBundle
<1>4. CASE SaveTalosconfig(p)
  <2>1. pc[p] = "save" /\ pc'[p] = "copy"
    BY <1>4 DEF SaveTalosconfig, GoTo, TypeOK
  <2> QED BY <1>4, <2>1 DEF SaveTalosconfig, Sees, NothingIsLost, StageFits, HoldsItsBundle
<1>5. CASE WriteCopy(p)
  <2>1. pc[p] = "copy" /\ pc'[p] = "apply"
    BY <1>5 DEF WriteCopy, GoTo, TypeOK
  <2> QED BY <1>5, <2>1 DEF WriteCopy, Sees, NothingIsLost, StageFits, HoldsItsBundle
<1> QED BY <1>1, <1>2, <1>3, <1>4, <1>5

\* What is applied is what the directory, its copy and the talosconfig hold.
LEMMA ApplyingSees ==
  ASSUME TypeOK, NEW p \in Proc, Renders(p), Sees(p), ApplyMachineConfig(p)
  PROVE  Sees(p)' /\ (config # None => config'.bundle = config.bundle)
<1>1. /\ pc[p] = "apply" /\ pc'[p] = "etcd"
      /\ UNCHANGED <<stored, recovery, copy, credential, advice, bundle>>
  BY DEF ApplyMachineConfig, GoTo, TypeOK, files
<1>2. config' \in Config /\ config'.bundle = bundle[p]
  BY <1>1 DEF ApplyMachineConfig, Rendered, Renders, Config
<1>3. config' # None
  BY <1>2, NoneIsNoConfig
<1>4. config # None => config.bundle = bundle[p]
  BY <1>1 DEF Sees, HoldsItsBundle
<1>5. stage' # "maintenance"
  BY DEF ApplyMachineConfig, Dial, Secure, Sees, StageFits
<1>6. stored \in {0, bundle[p]}
  BY <1>4 DEF Sees, NothingIsLost, StageFits
<1> QED BY <1>1, <1>2, <1>3, <1>4, <1>5, <1>6 DEF Sees, NothingIsLost, StageFits, HoldsItsBundle

\* The bootstrap and the stored bundle.
LEMMA ClusterSees ==
  ASSUME TypeOK, NEW p \in Proc, Sees(p),
         \/ ReadEtcd(p) \/ Bootstrap(p) \/ WaitNodeRegistered(p)
         \/ ReadSecret(p) \/ StoreBundle(p)
  PROVE  Sees(p)'
<1> USE DEF cluster, files
<1>1. CASE ReadEtcd(p)
  <2>1. \E next \in {"wait", "boot"} : GoTo(p, next)
    BY <1>1 DEF ReadEtcd
  <2> QED BY <1>1, <2>1, GoOnSees DEF ReadEtcd
<1>2. CASE Bootstrap(p)
  <2>1. config # None /\ pc[p] = "boot" /\ pc'[p] \in {"secret", "wait"}
    BY <1>2 DEF Bootstrap, Dial, Secure, GoTo, TypeOK
  <2>2. stage # "maintenance" /\ stage' # "maintenance"
    BY <1>2, <2>1 DEF Bootstrap, Sees, StageFits
  <2> QED BY <1>2, <2>1, <2>2 DEF Bootstrap, own, Sees, NothingIsLost, StageFits, HoldsItsBundle
<1>3. CASE WaitNodeRegistered(p)
  BY <1>3, GoOnSees DEF WaitNodeRegistered
<1>4. CASE ReadSecret(p)
  <2>1. CASE Leave(p)
    BY <1>4, <2>1, LeaveSees DEF ReadSecret, Sees, NothingIsLost, StageFits
  <2>2. CASE GoTo(p, "store") /\ UNCHANGED own
    BY <1>4, <2>2, GoOnSees DEF ReadSecret
  <2> QED BY <1>4, <2>1, <2>2 DEF ReadSecret
<1>5. CASE StoreBundle(p)
  <2>1. config # None /\ config.bundle = bundle[p]
    BY <1>5 DEF StoreBundle, Dial, Secure, Sees, HoldsItsBundle
  <2>2. NothingIsLost'
    BY <1>5, <2>1 DEF StoreBundle, Sees, NothingIsLost
  <2> QED BY <1>5, <2>1, <2>2, LeaveSees DEF StoreBundle
<1> QED BY <1>1, <1>2, <1>3, <1>4, <1>5

\* A resource given up, and a process that dies.
LEMMA FailingSees ==
  ASSUME TypeOK, NEW p \in Proc, Sees(p), DialFails(p) \/ CeilingPasses(p) \/ Crash(p)
  PROVE  Sees(p)'
<1>1. CASE Crash(p)
  BY <1>1, LeaveSees DEF Crash, cluster, files, Sees, NothingIsLost, StageFits
<1>2. CASE GiveUp(p)
  <2>0. UNCHANGED <<stage, config, stored, recovery, copy, credential, advice>>
    BY <1>2 DEF GiveUp, cluster, files
  <2>1. CASE Leave(p)
    <3>1. NothingIsLost' /\ (config = None => stored' = 0)
      BY <2>0 DEF Sees, NothingIsLost, StageFits
    <3> QED BY <2>0, <2>1, <3>1, LeaveSees
  <2>2. CASE /\ UNCHANGED own /\ pc[p] \in {"config", "apply", "etcd", "boot", "wait"}
             /\ \E next \in {"etcd", "secret"} : GoTo(p, next)
    BY <2>0, <2>2, GoOnSees
  <2> QED BY <1>2, <2>1, <2>2, GivesUp
<1> QED BY <1>1, <1>2 DEF DialFails, CeilingPasses

\* A step of the one process that runs keeps the invariant.
LEMMA AloneStep ==
  ASSUME Alone, TypeOK, BackedUp, NEW p \in Proc, Steps(p)
  PROVE  BackedUp'
<1>1. Sees(p)
  BY DEF BackedUp, AdviceFits, Sees
<1>2. Sees(p)'
  BY <1>1, DeclaringSees, PreparingSees, ApplyingSees, ClusterSees, FailingSees
  DEF Steps, Proceed, BackedUp
<1>3. ASSUME NEW q \in Proc, q # p
      PROVE  pc[q] = "idle" /\ pc'[q] = "idle"
  <2>1. CASE Start(p)
    BY <1>3, <2>1, OthersRest DEF Start, Steps
  <2>2. CASE pc[p] # "idle"
    BY <1>3, <2>2, OthersRest DEF BackedUp, OneAtATime
  <2>3. Start(p) \/ pc[p] # "idle"
    BY DEF Steps, Proceed, Mint, ProbeRefused, ReadStored, RefuseToDeclare, FirstRun, Compare,
           WriteBundle, SaveTalosconfig, WriteCopy, ApplyMachineConfig, ReadEtcd, Bootstrap,
           WaitNodeRegistered, ReadSecret, StoreBundle, DialFails, CeilingPasses, GiveUp, Crash
  <2> QED BY <2>1, <2>2, <2>3
<1>4. OneAtATime'
  BY <1>3 DEF OneAtATime
<1>5. AdviceFits'
  BY <1>2, <1>3 DEF Sees, AdviceFits
<1>6. \A q \in Proc : (Renders(q) /\ HoldsItsBundle(q))'
  <2>1. Renders(p)' /\ HoldsItsBundle(p)'
    BY <1>2, StillRenders DEF Sees, BackedUp
  <2>2. ASSUME NEW q \in Proc, q # p
        PROVE  Renders(q)' /\ HoldsItsBundle(q)'
    BY <1>3, <2>2 DEF Renders, HoldsItsBundle
  <2> QED BY <2>1, <2>2
<1> QED BY <1>2, <1>4, <1>5, <1>6 DEF BackedUp, Sees

\* Neither a reboot, a wiped box, a new patch nor the operator breaks it.
LEMMA OutsideStep ==
  ASSUME TypeOK, ClusterAssumption, BackedUp,
         Boot \/ Register \/ Reboot \/ Wipe \/ EditPatch \/ Operator
  PROVE  BackedUp'
<1>0. UNCHANGED <<pc, own>>
  BY OutsideType
<1>1. OneAtATime' /\ \A p \in Proc : Renders(p)'
  BY <1>0 DEF BackedUp, OneAtATime, Renders, own
<1>2. CASE Boot \/ Register \/ Reboot \/ EditPatch \/ BootstrapByHand
  <2>1. UNCHANGED <<config, stored, files>> /\ (stage' = "maintenance" <=> stage = "maintenance")
        /\ (advice' = "move the directory" => advice' = advice)
    BY <1>2 DEF Boot, Register, Reboot, EditPatch, BootstrapByHand, cluster, files
  <2> QED BY <1>0, <1>1, <2>1
          DEF own, files, BackedUp, NothingIsLost, StageFits, AdviceFits, HoldsItsBundle
<1>3. CASE Wipe
  BY <1>0, <1>1, <1>3
  DEF Wipe, own, files, BackedUp, NothingIsLost, StageFits, AdviceFits, HoldsItsBundle
<1>4. CASE MoveDirectory
  <2>1. config = None /\ \A p \in Proc : pc[p] \notin {"bundle", "save", "copy", "apply"}
    BY <1>4 DEF MoveDirectory, BackedUp, AdviceFits
  <2> QED BY <1>0, <1>1, <1>4, <2>1
          DEF MoveDirectory, cluster, own, BackedUp, NothingIsLost, StageFits, AdviceFits, HoldsItsBundle
<1>5. CASE WriteSecretByHand
  <2>1. config # None
    BY <1>5 DEF WriteSecretByHand, HasCluster, BackedUp, StageFits
  <2> QED BY <1>0, <1>1, <1>5, <2>1
          DEF WriteSecretByHand, files, own, BackedUp, NothingIsLost, StageFits, AdviceFits, HoldsItsBundle
<1> QED BY <1>2, <1>3, <1>4, <1>5 DEF Operator

\* The invariant: whatever is applied was written down first, and what is
\* written down is not given up while a node runs on it.
THEOREM Backing ==
  ASSUME Alone
  PROVE  Spec => []BackedUp
<1>1. Init => BackedUp
  BY DEF Init, BackedUp, NothingIsLost, OneAtATime, StageFits, AdviceFits, Renders, HoldsItsBundle
<1>2. TypeOK /\ BackedUp /\ [Next]_vars => BackedUp'
  <2> SUFFICES ASSUME TypeOK, BackedUp, [Next]_vars
               PROVE  BackedUp'
    OBVIOUS
  <2>1. CASE \E p \in Proc : Steps(p)
    BY <2>1, AloneStep
  <2>2. CASE Boot \/ Register \/ Reboot \/ Wipe \/ EditPatch \/ Operator
    BY <2>2, OutsideStep, ClusterAssumption
  <2>3. CASE UNCHANGED vars
    BY <2>3 DEF vars, cluster, files, own, BackedUp, NothingIsLost, OneAtATime, StageFits,
                AdviceFits, Renders, HoldsItsBundle
  <2> QED BY <2>1, <2>2, <2>3 DEF Next, Steps
<1> QED BY <1>1, <1>2, TypeCorrect, PTL DEF Spec

\* Nothing is lost, wherever an apply dies and whenever the box is wiped.
THEOREM BundlesAreSafe ==
  ASSUME Alone
  PROVE  Spec => []NothingIsLost
<1>1. BackedUp => NothingIsLost
  BY DEF BackedUp
<1> QED BY <1>1, Backing, PTL

\* No step gives a node that has a config one of another bundle.
THEOREM BundlesLast ==
  ASSUME Alone
  PROVE  Spec => OneBundleForLife
<1>1. TypeOK /\ BackedUp /\ [Next]_vars =>
        [config # None /\ config' # None => config'.bundle = config.bundle]_vars
  <2> SUFFICES ASSUME TypeOK, BackedUp, Next, config # None, config' # None
               PROVE  config'.bundle = config.bundle
    OBVIOUS
  <2>1. CASE \E p \in Proc : ApplyMachineConfig(p)
    BY <2>1, ApplyingSees DEF BackedUp, AdviceFits, Sees
  <2>2. CASE UNCHANGED config
    BY <2>2
  <2>3. CASE Wipe
    BY <2>3 DEF Wipe
  <2>4. (\E p \in Proc : ApplyMachineConfig(p)) \/ UNCHANGED config \/ Wipe
    BY DEF Next, Operator, Proceed, cluster, Start, Mint, ProbeRefused, ReadStored,
           RefuseToDeclare, FirstRun, Compare, WriteBundle, SaveTalosconfig, WriteCopy,
           ReadEtcd, Bootstrap, WaitNodeRegistered, ReadSecret, StoreBundle, DialFails,
           CeilingPasses, GiveUp, Crash, Boot, Register, Reboot, EditPatch,
           MoveDirectory, BootstrapByHand, WriteSecretByHand
  <2> QED BY <2>1, <2>2, <2>3, <2>4
<1> QED BY <1>1, Backing, TypeCorrect, PTL DEF Spec, OneBundleForLife

\* No run overwrites what the recovery directory holds.
THEOREM BundlesAreNotOverwritten ==
  ASSUME Alone
  PROVE  Spec => NoBundleIsOverwritten
<1>1. BackedUp /\ [Next]_vars => [recovery # 0 => recovery' \in {recovery, 0}]_vars
  <2> SUFFICES ASSUME BackedUp, Next, recovery # 0
               PROVE  recovery' \in {recovery, 0}
    OBVIOUS
  <2>1. CASE \E p \in Proc : WriteBundle(p)
    BY <2>1 DEF WriteBundle, BackedUp, HoldsItsBundle
  <2>2. (\E p \in Proc : WriteBundle(p)) \/ UNCHANGED recovery \/ MoveDirectory
    BY DEF Next, Operator, Proceed, files, Start, Mint, ProbeRefused, ReadStored,
           RefuseToDeclare, FirstRun, Compare, SaveTalosconfig, WriteCopy, ApplyMachineConfig,
           ReadEtcd, Bootstrap, WaitNodeRegistered, ReadSecret, StoreBundle, DialFails,
           CeilingPasses, GiveUp, Crash, Boot, Register, Reboot, Wipe, EditPatch,
           BootstrapByHand, WriteSecretByHand
  <2> QED BY <2>1, <2>2 DEF MoveDirectory
<1> QED BY <1>1, Backing, PTL DEF Spec, NoBundleIsOverwritten
-----------------------------------------------------------------------------
(* What is declared in a cluster that is up.                               *)

\* Who installs a release, or waits for one, does so by a copy of a
\* kubeconfig that led to the declared cluster.
StandsOnDeclared(p) ==
  /\ step[p] \in {"realize", "install", "wait"} => opened[p] \in Cluster
  /\ step[p] \in {"install", "wait"} =>
       opened[p] = Declared /\ Resources!HasResource(p) /\ Resources!Resource(p) \in Release

\* A release that is waited for is pending, and one apply waits for it.
WaitsAlone(p) ==
  step[p] = "wait" =>
    /\ status[Declared][Resources!Resource(p)] = "pending"
    /\ \A q \in Apply : step[q] = "wait" /\ Resources!Resource(q) = Resources!Resource(p) => q = p

ResourceInv == Resources!TypeOK /\ \A p \in Apply : StandsOnDeclared(p) /\ WaitsAlone(p)

\* What is declared is a secret or a release, not both.
LEMMA ResourceIsDeclared ==
  ASSUME Resources!DeclarationAssumption, NEW i \in DOMAIN Order
  PROVE  Order[i] \in Secret \cup Release
BY DEF Resources!DeclarationAssumption

-----------------------------------------------------------------------------
(* Type correctness.                                                       *)

LEMMA ResourceTypeInitially ==
  ASSUME Resources!DeclarationAssumption
  PROVE  Resources!Init => Resources!TypeOK
<1> SUFFICES ASSUME Resources!Init PROVE Resources!TypeOK
  OBVIOUS
<1>1. 1 \in 1..LastVersion /\ 0 \in 0..Slips
  BY DEF Resources!DeclarationAssumption
<1>2. document \in [Release -> 1..LastVersion]
  BY <1>1 DEF Resources!Init
<1> QED
  BY <1>1, <1>2 DEF Resources!Init, Resources!TypeOK, Resources!Statuses

\* An apply's own variables keep their types.
LEMMA ResourceTypes ==
  ASSUME Resources!TypeOK, NEW p \in Apply
  PROVE  /\ \A k \in {"idle", "declared", "realize", "install", "wait"} :
              step' = [step EXCEPT ![p] = k] =>
                step' \in [Apply -> {"idle", "declared", "realize", "install", "wait"}]
         /\ \A c \in Cluster \cup {NoCluster} :
              opened' = [opened EXCEPT ![p] = c] => opened' \in [Apply -> Cluster \cup {NoCluster}]
         /\ \A n \in Nat : place' = [place EXCEPT ![p] = n] => place' \in [Apply -> Nat]
         /\ Resources!MoveOn(p) => place' \in [Apply -> Nat]
<1>1. \A n \in Nat : place' = [place EXCEPT ![p] = n] => place' \in [Apply -> Nat]
  BY DEF Resources!TypeOK
<1>2. place[p] + 1 \in Nat
  BY DEF Resources!TypeOK
<1>3. Resources!MoveOn(p) => place' \in [Apply -> Nat]
  BY <1>1, <1>2 DEF Resources!MoveOn
<1> QED
  BY <1>1, <1>3 DEF Resources!TypeOK

LEMMA ResourceTypeStep ==
  ASSUME Resources!DeclarationAssumption, Resources!TypeOK, NEW p \in Apply,
         StandsOnDeclared(p), Resources!Step(p)
  PROVE  Resources!TypeOK'
<1>a. \A what \in {"kubeconfig"} \cup Secret \cup Release :
        Resources!Refuse(what) \/ Resources!Kept => refused' \subseteq {"kubeconfig"} \cup Secret \cup Release
  BY DEF Resources!TypeOK, Resources!Refuse, Resources!Kept
<1>1. CASE Resources!Declare(p)
  BY <1>1 DEF Resources!Declare, Resources!TypeOK
<1>2. CASE Resources!Open(p)
  <2>1. CASE kubeconfig = NoCluster
    BY <1>2, <2>1, <1>a, ResourceTypes DEF Resources!Open, Resources!TypeOK
  <2>2. CASE kubeconfig # NoCluster
    BY <1>2, <2>2, <1>a, ResourceTypes DEF Resources!Open, Resources!TypeOK, Resources!Kept
  <2> QED
    BY <2>1, <2>2
<1>3. CASE Resources!RealizeSecret(p)
  <2>1. refused' \subseteq {"kubeconfig"} \cup Secret \cup Release
    BY <1>3, <1>a DEF Resources!RealizeSecret
  <2> QED
    BY <1>3, <2>1, ResourceTypes DEF Resources!RealizeSecret, Resources!TypeOK
<1>4. CASE Resources!ReadRelease(p)
  <2>1. refused' \subseteq {"kubeconfig"} \cup Secret \cup Release
    BY <1>4, <1>a DEF Resources!ReadRelease
  <2>2. /\ step' \in [Apply -> {"idle", "declared", "realize", "install", "wait"}]
        /\ place' \in [Apply -> Nat]
    BY <1>4, ResourceTypes DEF Resources!ReadRelease, Resources!TypeOK
  <2> QED
    BY <1>4, <2>1, <2>2 DEF Resources!ReadRelease, Resources!TypeOK
<1>5. CASE Resources!Install(p)
  <2>1. opened[p] = Declared /\ Declared \in Cluster /\ Resources!Resource(p) \in Release
    BY <1>5 DEF Resources!Install, StandsOnDeclared, Resources!DeclarationAssumption
  <2>2. /\ refused' \subseteq {"kubeconfig"} \cup Secret \cup Release
        /\ place' \in [Apply -> Nat]
    BY <1>5, <2>1, <1>a, ResourceTypes DEF Resources!Install, Resources!TypeOK, Resources!Kept
  <2>3. step' \in [Apply -> {"idle", "declared", "realize", "install", "wait"}]
    BY <1>5, ResourceTypes DEF Resources!Install
  <2>4. /\ status' \in [Cluster -> [Release -> Resources!Statuses]]
        /\ version' \in [Cluster -> [Release -> 1..LastVersion]]
    <3>1. CASE status[Declared][Resources!Resource(p)] = "none"
      <4>1. /\ status' = [status EXCEPT ![Declared][Resources!Resource(p)] = "pending"]
            /\ version' = [version EXCEPT ![Declared][Resources!Resource(p)] = want[p][Resources!Resource(p)]]
        BY <1>5, <2>1, <3>1 DEF Resources!Install
      <4>2. want[p][Resources!Resource(p)] \in 1..LastVersion
        BY <2>1 DEF Resources!TypeOK
      <4> QED
        BY <2>1, <4>1, <4>2 DEF Resources!TypeOK, Resources!Statuses
    <3>2. CASE status[Declared][Resources!Resource(p)] # "none"
      BY <1>5, <2>1, <3>2 DEF Resources!Install, Resources!TypeOK
    <3> QED
      BY <3>1, <3>2
  <2> QED
    BY <1>5, <2>2, <2>3, <2>4 DEF Resources!Install, Resources!TypeOK
<1>6. CASE Resources!ComeUp(p)
  <2>1. opened[p] = Declared /\ Declared \in Cluster /\ Resources!Resource(p) \in Release
    BY <1>6 DEF Resources!ComeUp, StandsOnDeclared, Resources!DeclarationAssumption
  <2>2. status' \in [Cluster -> [Release -> Resources!Statuses]]
    BY <1>6, <2>1 DEF Resources!ComeUp, Resources!TypeOK, Resources!Statuses
  <2> QED
    BY <1>6, <2>2, ResourceTypes DEF Resources!ComeUp, Resources!TypeOK
<1>7. CASE Resources!Answer(p)
  BY <1>7, ResourceTypes DEF Resources!Answer, Resources!TypeOK
<1> QED
  BY <1>1, <1>2, <1>3, <1>4, <1>5, <1>6, <1>7 DEF Resources!Step

LEMMA ResourceTypeFault ==
  ASSUME Resources!DeclarationAssumption, Resources!TypeOK, \A p \in Apply : StandsOnDeclared(p),
         Resources!Fault
  PROVE  Resources!TypeOK'
<1>a. \A n \in Nat : slips < Slips /\ slips' = slips + 1 => slips' \in 0..Slips
  BY DEF Resources!DeclarationAssumption, Resources!TypeOK
<1>b. \A what \in Release : Resources!Refuse(what) => refused' \subseteq {"kubeconfig"} \cup Secret \cup Release
  BY DEF Resources!TypeOK, Resources!Refuse
<1>1. CASE Resources!Move
  BY <1>1, <1>a DEF Resources!Move, Resources!TypeOK
<1>2. ASSUME NEW p \in Apply, Resources!Fetchless(p)
      PROVE  Resources!TypeOK'
  <2>1. Resources!Resource(p) \in Release
    BY <1>2 DEF Resources!Fetchless, StandsOnDeclared
  <2> QED
    BY <1>2, <2>1, <1>a, <1>b, ResourceTypes DEF Resources!Fetchless, Resources!TypeOK
<1>3. ASSUME NEW p \in Apply, Resources!TimeOut(p)
      PROVE  Resources!TypeOK'
  <2>1. opened[p] = Declared /\ Declared \in Cluster /\ Resources!Resource(p) \in Release
    BY <1>3 DEF Resources!TimeOut, StandsOnDeclared, Resources!DeclarationAssumption
  <2>2. status' \in [Cluster -> [Release -> Resources!Statuses]]
    BY <1>3, <2>1 DEF Resources!TimeOut, Resources!TypeOK, Resources!Statuses
  <2> QED
    BY <1>3, <2>1, <2>2, <1>a, <1>b, ResourceTypes DEF Resources!TimeOut, Resources!TypeOK
<1>4. ASSUME NEW p \in Apply, Resources!Die(p)
      PROVE  Resources!TypeOK'
  BY <1>4, <1>a, ResourceTypes DEF Resources!Die, Resources!TypeOK
<1> QED
  BY <1>1, <1>2, <1>3, <1>4 DEF Resources!Fault

LEMMA ResourceTypeAround ==
  ASSUME Resources!DeclarationAssumption, Resources!TypeOK,
         Resources!Flux \/ Resources!Operate \/ \E r \in Release : Resources!Commit(r)
  PROVE  Resources!TypeOK'
<1>a. Declared \in Cluster
  BY DEF Resources!DeclarationAssumption
<1>1. ASSUME NEW r \in Release, Resources!Upgrade(r)
      PROVE  Resources!TypeOK'
  <2>1. status' \in [Cluster -> [Release -> Resources!Statuses]]
    BY <1>1, <1>a DEF Resources!Upgrade, Resources!TypeOK, Resources!Statuses
  <2>2. document[r] \in 1..LastVersion
    BY DEF Resources!TypeOK
  <2>3. version' \in [Cluster -> [Release -> 1..LastVersion]]
    BY <1>1, <1>a, <2>2 DEF Resources!Upgrade, Resources!TypeOK
  <2> QED
    BY <1>1, <2>1, <2>3 DEF Resources!Upgrade, Resources!TypeOK
<1>2. ASSUME NEW r \in Release, Resources!Upgraded(r)
      PROVE  Resources!TypeOK'
  BY <1>2, <1>a DEF Resources!Upgraded, Resources!TypeOK, Resources!Statuses
<1>3. CASE Resources!PointBack
  BY <1>3, <1>a DEF Resources!PointBack, Resources!See, Resources!TypeOK
<1>4. ASSUME NEW s \in Secret, Resources!WriteSecret(s)
      PROVE  Resources!TypeOK'
  <2>1. PICK held \in {"lacking", "whole"} :
          /\ IF held = "whole" THEN UNCHANGED slips
             ELSE slips < Slips /\ slips' = slips + 1
          /\ secrets' = [secrets EXCEPT ![Declared][s] = held]
    BY <1>4 DEF Resources!WriteSecret
  <2>2. secrets' \in [Cluster -> [Secret -> {"absent", "lacking", "whole"}]]
    BY <2>1, <1>a DEF Resources!TypeOK
  <2>3. slips' \in 0..Slips
    BY <2>1 DEF Resources!TypeOK, Resources!DeclarationAssumption
  <2> QED
    BY <1>4, <2>2, <2>3 DEF Resources!WriteSecret, Resources!See, Resources!TypeOK
<1>5. ASSUME NEW r \in Release, Resources!Resolve(r)
      PROVE  Resources!TypeOK'
  <2>1. status' \in [Cluster -> [Release -> Resources!Statuses]]
    BY <1>5, <1>a DEF Resources!Resolve, Resources!TypeOK, Resources!Statuses
  <2> QED
    BY <1>5, <2>1 DEF Resources!Resolve, Resources!See, Resources!TypeOK
<1>6. ASSUME NEW r \in Release, Resources!Commit(r)
      PROVE  Resources!TypeOK'
  BY <1>6 DEF Resources!Commit, Resources!TypeOK, Resources!DeclarationAssumption
<1> QED
  BY <1>1, <1>2, <1>3, <1>4, <1>5, <1>6 DEF Resources!Flux, Resources!Operate

-----------------------------------------------------------------------------
(* Who stands where, and who waits for what.                               *)

\* What the others stand on and wait for is left alone by an apply that writes
\* no status.
LEMMA StepKeepsPlaces ==
  ASSUME Resources!DeclarationAssumption, ResourceInv, NEW p \in Apply, Resources!Step(p),
         NEW q \in Apply
  PROVE  StandsOnDeclared(q)'
<1> USE DEF StandsOnDeclared, Resources!HasResource, Resources!Resource
<1>0. /\ StandsOnDeclared(p) /\ StandsOnDeclared(q)
      /\ \A k \in {"idle", "declared", "realize", "install", "wait"} :
           step' = [step EXCEPT ![p] = k] => step'[p] = k /\ (q # p => step'[q] = step[q])
      /\ opened \in [Apply -> Cluster \cup {NoCluster}] /\ place \in [Apply -> Nat]
  BY DEF ResourceInv, Resources!TypeOK
<1>1. CASE Resources!Declare(p)
  BY <1>0, <1>1 DEF Resources!Declare
<1>2. CASE Resources!Open(p)
  <2>1. kubeconfig \in Cluster \cup {NoCluster}
    BY DEF ResourceInv, Resources!TypeOK
  <2> QED
    BY <1>0, <1>2, <2>1 DEF Resources!Open
<1>3. CASE Resources!RealizeSecret(p)
  BY <1>0, <1>3 DEF Resources!RealizeSecret, Resources!MoveOn
<1>4. CASE Resources!ReadRelease(p)
  BY <1>0, <1>4 DEF Resources!ReadRelease, Resources!Confirmed, Resources!MoveOn
<1>5. CASE Resources!Install(p)
  BY <1>0, <1>5 DEF Resources!Install, Resources!MoveOn
<1>6. CASE Resources!ComeUp(p)
  BY <1>0, <1>6 DEF Resources!ComeUp, Resources!MoveOn
<1>7. CASE Resources!Answer(p)
  BY <1>0, <1>7 DEF Resources!Answer
<1> QED
  BY <1>1, <1>2, <1>3, <1>4, <1>5, <1>6, <1>7 DEF Resources!Step

LEMMA StepKeepsWaits ==
  ASSUME Resources!DeclarationAssumption, ResourceInv, NEW p \in Apply, Resources!Step(p),
         NEW q \in Apply
  PROVE  WaitsAlone(q)'
<1> USE DEF WaitsAlone, Resources!Resource
<1>0. /\ \A k \in {"idle", "declared", "realize", "install", "wait"} :
           step' = [step EXCEPT ![p] = k] => step'[p] = k /\ \A h \in Apply : h # p => step'[h] = step[h]
      /\ \A h \in Apply : WaitsAlone(h)
      /\ place \in [Apply -> Nat]
      /\ Declared \in Cluster /\ status \in [Cluster -> [Release -> Resources!Statuses]]
  BY DEF ResourceInv, Resources!TypeOK, Resources!DeclarationAssumption
<1>1. CASE Resources!Declare(p)
  BY <1>0, <1>1 DEF Resources!Declare
<1>2. CASE Resources!Open(p)
  BY <1>0, <1>2 DEF Resources!Open
<1>3. CASE Resources!RealizeSecret(p)
  BY <1>0, <1>3 DEF Resources!RealizeSecret, Resources!MoveOn
<1>4. CASE Resources!ReadRelease(p)
  BY <1>0, <1>4 DEF Resources!ReadRelease, Resources!MoveOn
<1>5. CASE Resources!Install(p)
  <2>1. opened[p] = Declared /\ Resources!Resource(p) \in Release
    BY <1>5 DEF Resources!Install, ResourceInv, StandsOnDeclared
  <2>2. CASE status[Declared][Resources!Resource(p)] = "none"
    <3>1. /\ status'[Declared][Resources!Resource(p)] = "pending" /\ place' = place
          /\ \A r \in Release : r # Resources!Resource(p) => status'[Declared][r] = status[Declared][r]
      BY <1>0, <1>5, <2>1, <2>2 DEF Resources!Install
    <3>2. \A h \in Apply : step[h] = "wait" => Resources!Resource(h) # Resources!Resource(p)
      BY <1>0, <2>2
    <3>3. \A h \in Apply : step[h] = "wait" => Resources!Resource(h) \in Release
      BY DEF ResourceInv, StandsOnDeclared
    <3>4. step' = [step EXCEPT ![p] = "wait"]
      BY <1>5, <2>1, <2>2 DEF Resources!Install
    <3> QED
      BY <1>0, <3>1, <3>2, <3>3, <3>4
  <2>3. CASE status[Declared][Resources!Resource(p)] # "none"
    BY <1>0, <1>5, <2>1, <2>3 DEF Resources!Install, Resources!MoveOn
  <2> QED
    BY <2>2, <2>3
<1>6. CASE Resources!ComeUp(p)
  <2>1. opened[p] = Declared /\ Resources!Resource(p) \in Release
    BY <1>6 DEF Resources!ComeUp, ResourceInv, StandsOnDeclared
  <2>2. \A r \in Release : r # Resources!Resource(p) => status'[Declared][r] = status[Declared][r]
    BY <1>0, <1>6, <2>1 DEF Resources!ComeUp
  <2>3. \A h \in Apply : step[h] = "wait" => Resources!Resource(h) \in Release
    BY DEF ResourceInv, StandsOnDeclared
  <2> QED
    BY <1>0, <1>6, <2>2, <2>3 DEF Resources!ComeUp, Resources!MoveOn
<1>7. CASE Resources!Answer(p)
  BY <1>0, <1>7 DEF Resources!Answer
<1> QED
  BY <1>1, <1>2, <1>3, <1>4, <1>5, <1>6, <1>7 DEF Resources!Step

\* An apply that fails or dies leaves the others what they stand on.
LEMMA OneLeaves ==
  ASSUME ResourceInv, NEW p \in Apply, NEW q \in Apply,
         step'[p] = "idle" \/ (step'[p] = "realize" /\ opened'[p] \in Cluster),
         \A h \in Apply \ {p} : step'[h] = step[h] /\ opened'[h] = opened[h] /\ place'[h] = place[h],
         \A h \in Apply \ {p} : step[h] = "wait" =>
           status'[Declared][Resources!Resource(h)] = status[Declared][Resources!Resource(h)]
  PROVE  StandsOnDeclared(q)' /\ WaitsAlone(q)'
<1>1. CASE q = p
  BY <1>1 DEF StandsOnDeclared, WaitsAlone
<1>2. CASE q # p
  <2>1. StandsOnDeclared(q) /\ WaitsAlone(q)
    BY DEF ResourceInv
  <2>2. StandsOnDeclared(q)'
    BY <1>2, <2>1 DEF StandsOnDeclared, Resources!HasResource, Resources!Resource
  <2>3. WaitsAlone(q)'
    BY <1>2, <2>1 DEF WaitsAlone, Resources!Resource
  <2> QED
    BY <2>2, <2>3
<1> QED
  BY <1>1, <1>2

LEMMA FaultKeepsBoth ==
  ASSUME Resources!DeclarationAssumption, ResourceInv, Resources!Fault, NEW q \in Apply
  PROVE  StandsOnDeclared(q)' /\ WaitsAlone(q)'
<1>0. /\ \A h \in Apply : StandsOnDeclared(h) /\ WaitsAlone(h)
      /\ place \in [Apply -> Nat] /\ opened \in [Apply -> Cluster \cup {NoCluster}]
      /\ Declared \in Cluster /\ status \in [Cluster -> [Release -> Resources!Statuses]]
      /\ step \in [Apply -> {"idle", "declared", "realize", "install", "wait"}]
  BY DEF ResourceInv, Resources!TypeOK, Resources!DeclarationAssumption
<1>1. CASE Resources!Move
  BY <1>0, <1>1 DEF Resources!Move, StandsOnDeclared, WaitsAlone, Resources!HasResource,
     Resources!Resource
<1>2. ASSUME NEW p \in Apply, Resources!Fetchless(p)
      PROVE  StandsOnDeclared(q)' /\ WaitsAlone(q)'
  <2>1. step'[p] = "realize" /\ opened'[p] \in Cluster /\ status' = status
    BY <1>0, <1>2 DEF Resources!Fetchless, StandsOnDeclared
  <2>2. \A h \in Apply \ {p} : step'[h] = step[h] /\ opened'[h] = opened[h] /\ place'[h] = place[h]
    BY <1>0, <1>2 DEF Resources!Fetchless, Resources!MoveOn
  <2> QED
    BY <2>1, <2>2, OneLeaves
<1>3. ASSUME NEW p \in Apply, Resources!TimeOut(p)
      PROVE  StandsOnDeclared(q)' /\ WaitsAlone(q)'
  <2>1. opened[p] = Declared /\ Resources!Resource(p) \in Release
    BY <1>0, <1>3 DEF Resources!TimeOut, StandsOnDeclared
  <2>2. step'[p] = "realize" /\ opened'[p] \in Cluster
    BY <1>0, <1>3, <2>1 DEF Resources!TimeOut
  <2>3. \A h \in Apply \ {p} : step'[h] = step[h] /\ opened'[h] = opened[h] /\ place'[h] = place[h]
    BY <1>0, <1>3 DEF Resources!TimeOut, Resources!MoveOn
  <2>4. \A h \in Apply \ {p} : step[h] = "wait" =>
         Resources!Resource(h) # Resources!Resource(p) /\ Resources!Resource(h) \in Release
    BY <1>0, <1>3 DEF Resources!TimeOut, WaitsAlone, StandsOnDeclared
  <2>5. \A r \in Release : r # Resources!Resource(p) => status'[Declared][r] = status[Declared][r]
    BY <1>0, <1>3, <2>1 DEF Resources!TimeOut
  <2> QED
    BY <2>2, <2>3, <2>4, <2>5, OneLeaves
<1>4. ASSUME NEW p \in Apply, Resources!Die(p)
      PROVE  StandsOnDeclared(q)' /\ WaitsAlone(q)'
  <2>1. step'[p] = "idle" /\ status' = status
    BY <1>0, <1>4 DEF Resources!Die
  <2>2. \A h \in Apply \ {p} : step'[h] = step[h] /\ opened'[h] = opened[h] /\ place'[h] = place[h]
    BY <1>0, <1>4 DEF Resources!Die
  <2> QED
    BY <2>1, <2>2, OneLeaves
<1> QED
  BY <1>1, <1>2, <1>3, <1>4 DEF Resources!Fault

\* Around the pipeline, no pending release is touched that somebody waits for.
LEMMA AroundKeepsBoth ==
  ASSUME Resources!DeclarationAssumption, ResourceInv,
         Resources!Flux \/ Resources!Operate \/ \E r \in Release : Resources!Commit(r),
         NEW q \in Apply
  PROVE  StandsOnDeclared(q)' /\ WaitsAlone(q)'
<1>0. /\ StandsOnDeclared(q) /\ WaitsAlone(q)
      /\ step[q] = "wait" => Resources!Resource(q) \in Release
      /\ Declared \in Cluster /\ status \in [Cluster -> [Release -> Resources!Statuses]]
  BY DEF ResourceInv, Resources!TypeOK, Resources!DeclarationAssumption, StandsOnDeclared
<1>1. UNCHANGED <<step, opened, place>>
  BY DEF Resources!Flux, Resources!Operate, Resources!Upgrade, Resources!Upgraded,
     Resources!PointBack, Resources!WriteSecret, Resources!Resolve, Resources!Commit
<1>2. step[q] = "wait" => status'[Declared][Resources!Resource(q)] = "pending"
  <2>1. ASSUME step[q] = "wait", NEW r \in Release, Resources!Upgrade(r) \/ Resources!Upgraded(r)
        PROVE  status'[Declared][Resources!Resource(q)] = "pending"
    BY <1>0, <2>1 DEF Resources!Upgrade, Resources!Upgraded, WaitsAlone
  <2>2. ASSUME step[q] = "wait", NEW r \in Release, Resources!Resolve(r)
        PROVE  status'[Declared][Resources!Resource(q)] = "pending"
    BY <1>0, <2>2 DEF Resources!Resolve, WaitsAlone
  <2>3. \/ Resources!PointBack \/ (\E s \in Secret : Resources!WriteSecret(s))
        \/ \E r \in Release : Resources!Commit(r)
        => status' = status
    BY DEF Resources!PointBack, Resources!WriteSecret, Resources!Commit
  <2> QED
    BY <1>0, <2>1, <2>2, <2>3 DEF Resources!Flux, Resources!Operate, WaitsAlone
<1> QED
  BY <1>0, <1>1, <1>2 DEF StandsOnDeclared, WaitsAlone, Resources!HasResource,
     Resources!Resource

-----------------------------------------------------------------------------
LEMMA ResourceInvInitially ==
  ASSUME Resources!DeclarationAssumption
  PROVE  Resources!Init => ResourceInv
BY ResourceTypeInitially DEF Resources!Init, ResourceInv, StandsOnDeclared, WaitsAlone

LEMMA ResourceInvStep ==
  ASSUME Resources!DeclarationAssumption
  PROVE  ResourceInv /\ [Resources!Next]_Resources!vars => ResourceInv'
<1> SUFFICES ASSUME ResourceInv, [Resources!Next]_Resources!vars PROVE ResourceInv'
  OBVIOUS
<1>1. ASSUME NEW p \in Apply, Resources!Step(p)
      PROVE  ResourceInv'
  BY <1>1, ResourceTypeStep, StepKeepsPlaces, StepKeepsWaits DEF ResourceInv
<1>2. CASE Resources!Fault
  BY <1>2, ResourceTypeFault, FaultKeepsBoth DEF ResourceInv
<1>3. CASE Resources!Flux \/ Resources!Operate \/ \E r \in Release : Resources!Commit(r)
  BY <1>3, ResourceTypeAround, AroundKeepsBoth DEF ResourceInv
<1>4. CASE UNCHANGED Resources!vars
  BY <1>4 DEF Resources!vars, ResourceInv, Resources!TypeOK, StandsOnDeclared, WaitsAlone,
     Resources!HasResource, Resources!Resource
<1> QED
  BY <1>1, <1>2, <1>3, <1>4 DEF Resources!Next

\* Every apply that installs stands on the declared cluster, and waits alone.
THEOREM Standing == Resources!Spec => []ResourceInv
<1>1. Resources!Init => ResourceInv
  BY ResourceInvInitially, ResourcesAreDeclared
<1>2. ResourceInv /\ [Resources!Next]_Resources!vars => ResourceInv'
  BY ResourceInvStep, ResourcesAreDeclared
<1> QED
  BY <1>1, <1>2, PTL DEF Resources!Spec

\* The variables keep their types.
THEOREM ResourceTypeCorrect == Resources!Spec => []Resources!TypeOK
<1>1. ResourceInv => Resources!TypeOK
  BY DEF ResourceInv
<1>2. Resources!Spec => []ResourceInv
  BY Standing
<1> QED
  BY <1>1, <1>2, PTL

\* No step changes what a cluster holds that is not the declared one.
THEOREM OthersStay == Resources!Spec => OtherClustersAreLeftAlone
<1> DEFINE OthersRemain == \A c \in Cluster \ {Declared} :
                      status'[c] = status[c] /\ version'[c] = version[c]
<1>1. ASSUME ResourceInv, [Resources!Next]_Resources!vars
      PROVE  OthersRemain
  <2>0. /\ status \in [Cluster -> [Release -> Resources!Statuses]]
        /\ version \in [Cluster -> [Release -> 1..LastVersion]]
    BY <1>1 DEF ResourceInv, Resources!TypeOK
  <2>1. ASSUME NEW p \in Apply, Resources!Install(p) \/ Resources!ComeUp(p) \/ Resources!TimeOut(p)
        PROVE  OthersRemain
    <3>1. opened[p] = Declared
      BY <1>1, <2>1 DEF Resources!Install, Resources!ComeUp, Resources!TimeOut, ResourceInv,
         StandsOnDeclared
    <3>2. CASE Resources!Install(p)
      BY <2>0, <3>1, <3>2 DEF Resources!Install
    <3>3. CASE Resources!ComeUp(p)
      BY <2>0, <3>1, <3>3 DEF Resources!ComeUp
    <3>4. CASE Resources!TimeOut(p)
      BY <2>0, <3>1, <3>4 DEF Resources!TimeOut
    <3> QED
      BY <2>1, <3>2, <3>3, <3>4
  <2>2. ASSUME NEW r \in Release, Resources!Upgrade(r) \/ Resources!Upgraded(r)
        PROVE  OthersRemain
    BY <2>0, <2>2 DEF Resources!Upgrade, Resources!Upgraded
  <2>3. ASSUME NEW r \in Release, Resources!Resolve(r)
        PROVE  OthersRemain
    BY <2>0, <2>3 DEF Resources!Resolve
  <2>4. ASSUME UNCHANGED <<status, version>>
        PROVE  OthersRemain
    BY <2>4
  <2>5. \/ UNCHANGED <<status, version>>
        \/ \E p \in Apply : Resources!Install(p) \/ Resources!ComeUp(p) \/ Resources!TimeOut(p)
        \/ \E r \in Release : Resources!Upgrade(r) \/ Resources!Upgraded(r) \/ Resources!Resolve(r)
    BY <1>1 DEF Resources!Next, Resources!Step, Resources!Fault, Resources!Flux,
       Resources!Operate, Resources!vars, Resources!Declare, Resources!Open,
       Resources!RealizeSecret, Resources!ReadRelease,
                Resources!Answer, Resources!Fetchless, Resources!Die, Resources!Move,
                Resources!PointBack, Resources!WriteSecret, Resources!Commit
  <2> QED
    BY <2>1, <2>2, <2>3, <2>4, <2>5
<1>2. Resources!Spec => []ResourceInv
  BY Standing
<1>3. ResourceInv /\ [Resources!Next]_Resources!vars => [OthersRemain]_Resources!vars
  BY <1>1
<1> QED
  BY <1>2, <1>3, PTL
  DEF Resources!Spec, Resources!OtherClustersAreLeftAlone, OtherClustersAreLeftAlone

\* No step takes a release down that is up, or back to an earlier version.
THEOREM ReleasesGoOn == Resources!Spec => NoReleaseGoesBack
<1> DEFINE Goes(r) == status[Declared][r] \in Resources!Up =>
                        status'[Declared][r] \in Resources!Up
                          /\ version'[Declared][r] >= version[Declared][r]
           GoOn == \A r \in Release : Goes(r)
<1>1. ASSUME ResourceInv, [Resources!Next]_Resources!vars, NEW r \in Release
      PROVE  Goes(r)
  <2>0. /\ Declared \in Cluster
        /\ status \in [Cluster -> [Release -> Resources!Statuses]]
        /\ version \in [Cluster -> [Release -> 1..LastVersion]]
        /\ document \in [Release -> 1..LastVersion]
        /\ version[Declared][r] \in Nat /\ document[r] \in Nat
    BY <1>1, ResourcesAreDeclared DEF ResourceInv, Resources!TypeOK, Resources!DeclarationAssumption
  <2>1. ASSUME NEW p \in Apply, Resources!Install(p) \/ Resources!ComeUp(p) \/ Resources!TimeOut(p)
        PROVE  Goes(r)
    <3>1. opened[p] = Declared /\ Resources!Resource(p) \in Release
      BY <1>1, <2>1 DEF Resources!Install, Resources!ComeUp, Resources!TimeOut, ResourceInv,
         StandsOnDeclared
    <3>2. step[p] = "wait" => status[Declared][Resources!Resource(p)] = "pending"
      BY <1>1 DEF ResourceInv, WaitsAlone
    <3>3. CASE Resources!Install(p)
      <4>1. CASE status[Declared][Resources!Resource(p)] = "none"
        BY <2>0, <3>1, <3>3, <4>1 DEF Resources!Install, Resources!Up
      <4>2. CASE status[Declared][Resources!Resource(p)] # "none"
        BY <2>0, <3>1, <3>3, <4>2 DEF Resources!Install
      <4> QED
        BY <4>1, <4>2
    <3>4. CASE Resources!ComeUp(p)
      BY <2>0, <3>1, <3>4 DEF Resources!ComeUp, Resources!Up
    <3>5. CASE Resources!TimeOut(p)
      BY <2>0, <3>1, <3>2, <3>5 DEF Resources!TimeOut, Resources!Up
    <3> QED
      BY <2>1, <3>3, <3>4, <3>5
  <2>2. ASSUME NEW s \in Release, Resources!Upgrade(s)
        PROVE  Goes(r)
    BY <2>0, <2>2 DEF Resources!Upgrade, Resources!Up
  <2>3. ASSUME NEW s \in Release, Resources!Upgraded(s)
        PROVE  Goes(r)
    BY <2>0, <2>3 DEF Resources!Upgraded, Resources!Up
  <2>4. ASSUME NEW s \in Release, Resources!Resolve(s)
        PROVE  Goes(r)
    BY <2>0, <2>4 DEF Resources!Resolve, Resources!Up
  <2>5. ASSUME UNCHANGED <<status, version>>
        PROVE  Goes(r)
    BY <2>0, <2>5
  <2>6. \/ UNCHANGED <<status, version>>
        \/ \E p \in Apply : Resources!Install(p) \/ Resources!ComeUp(p) \/ Resources!TimeOut(p)
        \/ \E s \in Release : Resources!Upgrade(s) \/ Resources!Upgraded(s) \/ Resources!Resolve(s)
    BY <1>1 DEF Resources!Next, Resources!Step, Resources!Fault, Resources!Flux,
       Resources!Operate, Resources!vars, Resources!Declare, Resources!Open,
       Resources!RealizeSecret, Resources!ReadRelease,
                Resources!Answer, Resources!Fetchless, Resources!Die, Resources!Move,
                Resources!PointBack, Resources!WriteSecret, Resources!Commit
  <2> QED
    BY <2>1, <2>2, <2>3, <2>4, <2>5, <2>6
<1>2. Resources!Spec => []ResourceInv
  BY Standing
<1>3. ResourceInv /\ [Resources!Next]_Resources!vars => [GoOn]_Resources!vars
  BY <1>1
<1> QED
  BY <1>2, <1>3, PTL
  DEF Resources!Spec, Resources!NoReleaseGoesBack, NoReleaseGoesBack
=============================================================================
