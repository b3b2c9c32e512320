# forge-ci in TLA+

forge-ci is a CI system that keeps everything it knows in git: `forge-ci apply`
reads a pipeline, resolves the commits of its repos into a *revision*, runs the
stages that prove the revision and, in a release substage, tags and publishes
it. There is no daemon and no lock. A timer, a person or a workflow starts a
process; several run at once and share the state repository, the remotes of the
repos and GitHub. This directory models that system, checks the models with TLC
and proves some of what matters for every pipeline with TLAPS.

    tlc -config apply_phased.cfg MCApplyLoop.tla     # one run
    tlapm ApplyLoopProofs.tla                         # the proofs

Every definition names the code it stands for in `PROJECT.json` (`map`).

## 1. Inventory

### Components

| component | code | state | operations | talks to |
|---|---|---|---|---|
| reconcile loop | `internal/controller/reconcilecontroller/reconcilecontroller.go`, `stagephase.go`, `pinned.go` | none of its own: one process holds the runs of a stage in memory until the stage is promoted | whole apply; evaluate, stages, stage and substage phases | every engine, one synchronous JSON-RPC call at a time per goroutine |
| promotion, gate | `promotioncontroller`, `gatecontroller` | approval files on disk | Evaluate | called by the loop |
| substage waves | `pkg/citypes/waves.go` | none | Waves | loop, compute, generated workflows |
| state engine | `statecontroller`, over `gitadapter` | a checkout of the state repository and its remote | get, list, put | loop (runs, revisions, evaluations, releases, fingerprints, ownership) |
| release decision and publish | `reconcilecontroller/release.go`, `publish.go` | records `release/<rev>`, `release/by-tag/<tag>`, `evaluate-<rev>` | decideRelease, publish | state engine, git, artifact engine |
| release engine | `cmd/ci-artifact-release`, `artifactcontroller`, `releasecontroller`, `githubadapter/releases.go` | tags at the remotes, drafts and releases at GitHub | publish | git remotes, GitHub |
| version derivation | `artifactcontroller/version.go` | none | Classify, Unclaimed, Bump | release decision |
| artifact carrying | `reconcilecontroller/carried.go`, `artifactdircontroller`, `containercontroller` | a directory, an archive or a registry | put, restore, at hand | loop |
| managers and realizers | `managercontroller` (dry-run, local, GitHub, Terraform, Talos, Kubernetes) | the ownership record; remote resources; generated files | reconcile, settle | loop's `reconcileResources`, GitHub, git |
| triggers | `verbs.go` Poll, `triggercontroller` | a fingerprint per trigger | poll, notify | state engine, loop |
| local compute | `computecontroller` | files in the checkouts | run, in waves of directories | loop |
| remote compute | `workflowcontroller`, `githubadapter` | workflow runs at GitHub | dispatch, correlate, wait, download | loop |
| generated workflows | `workflowcontroller/templates.go` | workflow files | render | manager |
| Talos cluster bring-up | `machineconfigcontroller`, `managercontroller/talosrealizer.go`, `pkg/talos` | the node's config, the secret the cluster stores, the recovery directory, the talosconfig | declare; apply a machine config, bootstrap, store the bundle | loop's `reconcileResources`, the node, the operator |
| Kubernetes, Helm, Terraform | `clusterresourcecontroller`, `helmadapter`, `terraformadapter` | what the tools keep | render, install, apply | managers, artifact engines |
| configuration | `pkg/config` | none | Load, Validate | everything |
| command line, engine calls | `clidriver`, `engineadapter` | none | flag parsing, one process per call | everything |

### What is hard

* **Nothing locks.** Two applies of one revision read the same absent records,
  run for minutes and put unconditionally. Two checkouts push to one branch.
  Two release jobs derive the same next number.
* **A run is many processes.** A phased run is a graph of jobs, each a process
  that knows nothing but the records; a stage job asks about *one* stage in
  front of it and still must never run before any earlier stage.
* **A process may die anywhere**: between the evaluation record and the mint,
  between two tags, between the tags and the publish, between the publish and
  its record, between a commit and its push. What the next one reads decides
  whether it finishes, repeats or refuses.
* **A kept checkout remembers**: unpushed commits, a stopped rebase, leftover
  tags, other people's edits.
* **A secret that exists once.** A cluster's bundle is minted in a process and
  must outlive it before the node that runs on it exists.
* **Goroutines and barriers**: a wave waits for all of its goroutines; one that
  errs must neither leave the apply waiting nor lose what its siblings proved.

`PROJECT.json` lists each hazard at its line with the properties aimed at it.

### What makes each part correct

* loop: stages and needs in order whoever runs them, nothing reported advanced
  that is not proven, phased and whole runs agree, the pipeline ends green.
* state engine: what a put answered for outlives the run; runs do not clash; a
  person's files stay where they are; every put ends.
* release: what appears appears whole; records tell the truth; one number per
  revision; a rerun finishes what a dead run began and is never refused.
* cluster bring-up: the bundle a node runs on is never lost, replaced or
  overwritten, wherever an apply died, and the cluster comes up.
* managers and generated workflows: a recorded owner stays; nothing is released
  on files that were not pushed; a run that stops leaves its work to another; a
  pipeline's own commits do not keep it releasing.
* Kubernetes: no cluster but the declared one is written; a release that is up is
  Flux's; what failed halfway is refused until it is taken away.
* generated jobs: no job asks too early, a substage has what was built for it, a
  green run has proved its revision.
* triggers: no movement is lost but to a poll that errs, and none fires for the
  factory's own files.
* compute: no command before what it rests on; a run carries the reports of its own
  commands; a call answers, and for the run it dispatched.
* version: a decided version is new, in its cap, and no commit is left out.
* configuration: what is accepted is run as it reads.

## 2. The modules

| module | stands for | state | actions |
|---|---|---|---|
| `ApplyLoop` | the loop and its phases | the records (`evaluated`, `minted`, `runs`), what can be restored (`kept`), the checkout (`head`), approvals, and per process `pc`, `verb`, `rev`, `stage`, `asked`, `view` | one per start of a process, one per put or get, one per barrier of a stage |
| `StageDiscipline` | what the loop promises, with no process in it; `ApplyLoop` implements it | per revision, the substages that are recorded, those that were green, and whether it is through | a run recorded, a revision through |
| `StateStore` | the put of the state engine | the remote's commits; per checkout its base, its own commits, index, files, stopped rebase; per process where its put stands | one per git command |
| `Release` | decision, publish and release engine | tags and releases at the remotes; the three kinds of record; per process its checkout's tags, its decision and where its publish stands | one per answer of the decision, one per read or write of a remote or record |
| `ReleaseLine` | which version comes next | the history's subjects, the tags, which of them are released, the decision under way, the versioning policy | commit, decide, publish, a refused publish, a release by hand |
| `ClusterBringUp` | declare, the Talos manager, the node | the node (`stage`, `up`, `config`, `stored`), the files beside it (`recovery`, `copy`, `credential`), the patch document, and per process `pc`, `bundle`, `wanted`, `rebooting` | one per probe, read or write of the node or a file |
| `ClusterResources` | the Kubernetes manager, Helm and Flux | where the kubeconfig leads, each release's document; per cluster its secrets and what Helm recorded; per apply its copy of the kubeconfig and the resource it is at | one per read or write of a cluster |
| `SelfReconcile` | the reconcile of the pipeline's own resources and the jobs after it | the remotes (`pipeline`, `files`, `enabled`), the `owner` record, the released image `pin`, what is not released yet (`later`, `news`), the queued run, and per process its `checkout` and where its managers stand | one per resource, commit, push, put and answer |
| `Workflow` | the jobs a generated workflow cuts an apply into | per job its step, clone and what it holds of its substages; the files on its runner (`here`, `made`, `place`) and those it `kept`; the run records, the tip of the repo, the issues | one per step of a job: start, bring, ask, run or reuse a substage, pack, push; a rerun |
| `Waves` | ordering by needs | none: operators | |
| `Schedule` | the plan of one run of a substage: which command in which directory, in which wave, and what it rests on | none: operators over `Waves` | |
| `TargetRun` | what a compute engine promises of the runs it is asked for; `LocalCompute` implements it | per run the jobs started, passed and broken, and the answer | start, end, pass, fail, err |
| `LocalCompute` | the local compute engine and its harvester | per run its wave, the exit of each job, what it harvested; the artifact stores | one per goroutine's command and merge, one per barrier of a wave |
| `RemoteCompute` | the remote compute engine, its script, GitHub's runs | the calls there are to make (`asked`); per call its wait and the run it found; GitHub's list; per run its wave, exits and what its shell waits for | dispatch, poll, time up; prepare, exit, list the jobs, end of a wave; cancel |
| `Pipeline` | `Validate` and the lookups an apply makes of an accepted file | the file, how the apply is cut, the place it is at, what ran and with what | an edit of the file, load, run of a wave or job, promotion |
| `Trigger` | `poll` and the watch trigger | the repos' heads and worktrees, the fingerprint records, per poller what it measured | one per git command and put; commit, edit, generate |
| `ComputeEngines` | the two compute engines side by side: what a substage's engine may be | that of both | a step of one |
| `Clusters` | the bring-up of a cluster and what runs on it, which share no state | that of both | those of both |
| `*Proofs` | theorems about `ApplyLoop` (with `StageDiscipline`), `StateStore`, `Release`, `ReleaseLine`, `SelfReconcile`, `Workflow`; `ClusterProofs` is about `Clusters`, `ComputeProofs` about `Waves`, `Schedule`, both compute engines, `TargetRun` and `Pipeline` | | |
| `MC*` | small instances | | |

How they compose:

* `ApplyLoop` takes the store to be a map with atomic gets and puts, the release
  decision to be any answer of `Decisions`, and a run of a substage to be one
  step that passes or fails. `StateStore`, `Release` and the two compute engines
  are what stands behind those. `Waves` stands behind its `Wave`.
* `Release` takes the stages that prove a revision for granted: `StartStages`
  needs a recorded decision, and the release substage is the one substage it
  has. A version is a number there; `ReleaseLine` says which.
* `SelfReconcile` is what runs in front of them: a put of its ownership record
  is `StateStore`'s put, an evaluation and a release are one step each of
  `Release`.
* `ApplyLoop` lets any job start at any time; `Workflow` has the order the
  generated workflow imposes, the files that go from job to job, and the answers
  of `applyNamedStage`.
* `Pipeline` takes targets to pass and asks whether what is accepted is run as
  it reads; `Schedule` reads the same targets.
* Some MC modules hold two or three components that have a subject and no state
  in common: the first state says which one a behaviour is of (`engine` in
  `MCCompute`, `part` in `MCRecords`, `MCCommits` and `MCClusterBringUp`), and the
  others stand still. A property that could not hold of what stands still
  names its part.

### ApplyLoop

`view[p][s]` is what process `p` holds of substage `s`: `todo` before its wave,
`get`/`run`/`passed`/`failing` while its goroutine is under way (`applySubstage`
reads the record, runs, keeps artifacts, asks the gates, puts), then the result
`green`/`open`/`failed`, or `held` (a need did not advance; never recorded) or
`error`. `BeginWave` and `EndStage` are guarded by `Settled`: the `WaitGroup` of
`applyStage`. `AskRecord`/`EnterStage` are `promoteRecorded` of a stage job, one
record read per step. `Crash`, `Err`, `Fail`, `Lose` and `Move` share the budget
`MaxFaults`. The order among jobs that generated workflows impose is *not*
assumed: any job may start at any time, so the guards of the code carry the
properties alone.

### StageDiscipline

What a reader of the records sees: records of a revision appear one by one and
are not taken back; a substage is recorded only when the stages in front of its
own have advanced (`Reached`); a revision is through only when all have. It has
no process, no wave and no order of starting: that jobs which ask about one
stage implement it is the point. `KeepsDiscipline` is its `Spec` under the
mapping of `ApplyLoop`: `proven` is `everGreen`, the green records there ever
were, since a later failing run may replace one.

### StateStore

A commit is a function from the paths it changes to their contents, a checkout
`Based(c) \o ahead[c]` plus index and files. Git is external: `Rebase` stops at
the first commit whose paths the remote also changed, `Refused` is git's refusal
to start over modified files. A `put` is Write, Add, Staged, Commit, Push,
Rebase, PushAgain, and any may be interrupted, or be interleaved with another
process in the same checkout. `spoilt`/`Reclone` is a CI container: after a run
that erred the next one clones. `MCRecords` has two scenes of it: `p1` and `p2` are
CI runs with a checkout each; `q1` and `q2` share a kept checkout with a person,
and `q3` puts the key of `q1` from another one. In the second the rebase of `q1`
or `q3` does stop in conflict, and a put that is made again in a kept checkout
does answer for a record that was never pushed; `AcknowledgedIsOnRemote` is of CI
runs, which err and are cloned again.

### Release

Commits, versions and revisions are numbers in the order history gives them, so
"subjects since the tag" is an interval. `DecideReleased`, `DecideSkip`,
`DecideBump` are the three answers of `decideRelease`; `Converge` the byte
comparison; `ReadTag` the look for the tag in one repo after another (`unread` are
those still to come, `pending` those where it was missing), `ReadRelease` the look
for the release after them, with the digests and the draft, which nobody sees (a
second visible release under a tag is refused at `Publish`). Between any two of
these others tag and publish: a job may find the release while tags of its own
are pending, and then finishes those tags, keeps off the release and answers the
index of the files it built itself. `TagHere` and `PushTag` the two halves of `git.Tag`, per repo;
`RecordByRev` and `RecordByTag` the two puts of `writeRelease`; `Answer` the run
record. With `Fresh` a process starts in a new clone that has the remotes' tags,
without it in a checkout that also keeps its own. Left out: how far a bump
moves, a commit between resolving and deciding, several release substages,
repos without a remote.

### ReleaseLine

`Classify` is `version.go`'s: the longest token that a subject contains wins, a
tie goes to the level that is looked at first, forge-ci's own commits and
unmatched subjects score what the policy says. `Bump` moves a version by a level
and lowers the level until it fits under the cap (`Fits`). `LatestTag` is the
first tag git lists: by number within a name, with `v1.0.0-rc1` above `v1.0.0`,
since no suffix sort is configured (`NameBelow`; `Precedes` is the order
consumers read). Commits and a release by hand may come between `Decide` and
`Publish`. Left out: several repos with subjects of their own, tag prefixes,
the artifact index.

### ClusterBringUp

A bundle is a number; a machine config is a bundle and a patch document. The
talosconfig's `credential` opens a node that holds a config of the same bundle
(`Secure`), and every call of `pkg/talos` is one `Dial`: over TLS, refused, in
maintenance, or retried by the process that sent the node into its reboot
(`Node.rebooting`). `Start`, `Mint`, `ReadStored` and `RefuseToDeclare` are
`Declare`; `FirstRun` to `ApplyMachineConfig` the first resource, with the three
writes of `prepareFirstRun` one by one; `ReadEtcd` to `WaitNodeRegistered` the
second, `ReadSecret` and `StoreBundle` the third. `GiveUp` is the manager's loop,
which goes on to the next resource after one that failed. The node, the patch
document and the operator are external; the operator does only what the last
refusal said (`advice`): moves the recovery directory away, bootstraps with the
talosconfig kept in it, or writes the secret from it. A bundle may be minted
when nobody holds it any more, so that `LastBundle` bounds those held at one
time. Left out: dry runs, staged applies, the mode check of the talosconfig, the
digest check of the installer image.

### ClusterResources

An apply copies the kubeconfig once (`Open`), asks the copy's API server whether
it is the declared one, and goes through `Order`: a secret is only read (a key
that is missing or blank is a refusal), a release is installed where Helm has
no record of one (`Install`), and left alone where it is up, whatever its
version: Flux upgrades it. The kubeconfig may be moved between any two steps
(`Move`); an install may time out or its process die, which leaves Helm's record
`pending` or `failed`. The operator does what a refusal said, once per refusal
(`refused`): he points the kubeconfig back, writes the secret, perhaps with a
key lacking, or takes a release away that nobody is waiting for. Left out:
values, namespaces, dry runs, release records kept in memory.

### SelfReconcile

A run has one process, `CI`, since the concurrency group lets one run go on and
one wait; each starts in a new clone. A laptop's checkout is kept: it may be
`behind` the remote, hold commits that are `ahead` of it and files (`disk`) that
were written and not committed (`head`). Content is what it was rendered from, a
version of the pipeline and an image. A file and the workflow it defines are two
resources, both under the manager `ManagerOf` gives; all files are declared before
all workflows.
`Begin` is `readOwnership`, the engines' declarations and the first manager's
call; what is kept takes no step (`Kept`); `RefuseForeign` ends the reconcile
before anything is settled, a resource or repo that fails does not stop the next
(`failing`); `PutOwnership` meets a record that somebody else changed meanwhile
with an error, as the rebase of two commits to one file does. `Answer` is
superseded or converged. A commit since the last release is `work` or forge-ci's
own (`self`), which scores a patch. A red run is started again (`Fail`).
Left out: secrets, which only a bootstrap writes; dry runs; checkouts without a
remote or on a detached HEAD; a resource two engines declare; a pipeline root
that is a git checkout itself, where the resource name of a workflow would be
taken for a path to add; state that is stale on the laptop.

### Workflow

A job is the set of substages it runs, so that one model has the three ways to
cut an apply (`cut`): one stages job, a job per stage, a job per substage. The
needs of a job, its condition, what it downloads and what it pushes are those
`templates.go` renders; a job is skipped when what it needs did not succeed.
`here` is the artifact directory `put` fills and the workflow packs, `place`
where targets read: `Enter` is `applyNamedStage`'s question and `carryForward`,
`Pack` uploads what is newer than the mark. `lacked` and `refused` are history:
a substage that ran without a file a job had kept for it, and a job told that it
comes out of order. A commit is a number and a push that meets a moved tip
fails. `HeldIn` is a substage that a job held and that therefore has no record:
a job may be refused for one and for nothing else. Left out: caches, schedules,
fan-out, `cancel-in-progress`.

### Compute: Waves, Schedule, TargetRun, LocalCompute, RemoteCompute

`Waves` is `pkg/citypes/waves.go`, its loop a recursive function on the number of
turns: what is ready leaves the pending set (`Those`, the filter of a loop, is a
recursive function as well), nothing ready and something pending is a cycle, and
with no edge at all every name is a wave of its own. `Schedule`
turns a substage into its waves (`Plan`): converge, then every target over its
directories. `RestsOn` says what a command rests on from the configuration, not
from the waves, so that the two can be held against each other.

`LocalCompute` has a goroutine per directory of a wave, the merge under the
mutex, the barrier, the early end after a failure, and a harvest that asks the
artifact store for what is newer than the start of the run. Two runs share the
directories. `RemoteCompute` has both ends: a call that dispatches with a marker,
looks for its run on the first page of a listing, polls and gives up; and the
script, whose shell starts a wave in the background and waits for the jobs
`$(jobs -p)` names (`ListJobs`; with `Reaped`, one that has ended may be missing
from it). `LocalCompute` implements `TargetRun` (`KeepsPromise`).
`RemoteCompute` does not, and `wave_lost` shows why. A request to GitHub may never
return (`Hang`): the client has no timeout, and the wait looks at its deadline
between two requests only.

### Pipeline

`Validate` rule by rule over names (`ReposHold`, `ManagersHold`, `EnginesHold`,
`TargetsHold`, `SubHolds`), beside the lookups of an accepted file as the apply
makes them: the last of a name wins, a target nobody declared is skipped, a
substage whose need is not in its stage is held, a job finds its stage by name,
a use of a stage that is not in front carries nothing. `Edit` makes any one
change of a name, a reference or an entry; `MCCompute` writes a file of two
stages and edits it twice. The structs (`Files` and its parts) say what a parser
can make of a file. A whole apply and a stage job go wave by wave (`RunWave`,
`applyStage`); the jobs of substages start in any order their needs allow
(`RunJob`, `applyOneSubstage`), and the next stage asks for their records
(`Promote`). Left out: the spelling of names and URIs, versioning, the engines'
specs.

### Trigger

A poll reads a trigger's record, measures the repos it watches one git command
after another (`Look`), puts the fingerprint if it differs, and combines the
answers. People commit and edit, the factory writes its generated files, and
another poll measures, between any two. `told` is what some poll answered.
The record is that of the poller's checkout. Left out: the notify trigger, which
polls nothing.

## 3. What is checked

Every run finishes within three and a half minutes on two cores; a type invariant is stated
in every module (`TypeOK`), and is a theorem where there is a proof module.

| run | instance | shows |
|---|---|---|
| `apply_phased` | 2 processes, all five ways to start one, 3 stages of which the first promotes on one substage of two and the second has a need and a gate, 1 fault | `NeedsFirst`; `PhasesAgree`: a job after a process that advanced is not refused; `KeepsDiscipline`: the loop implements `StageDiscipline` |
| `records_serial` | 2 CI runs cloned afresh after an error, 3 faults, or 3 processes in two kept checkouts, one of which a person edits, 1 fault; or 1 process restarted by a timer, 2 revisions, 2 stages with a need, a gate and a publish, 3 faults; or 1 release job after another in a kept checkout, 2 repos, 3 revisions (the second ships the bytes of the first, the third moves no released repo), 2 faults | `AcknowledgedIsOnRemote` of CI runs, `ForeignStaysHere`, `EveryPlanEnds`; `GreenStays`: a green record with its artifacts at hand is not overwritten, `EventuallyGreen`; `OneNumberPerRevision`, `OwnReleaseConverges`, `DecisionsAreCarriedOut` |
| `release_pair` | 2 whole applies at once in fresh clones, 2 repos, 3 revisions (the second is of the commits of the first and builds other bytes, the third builds the bytes of the first), 1 fault | `WholeReleases`; `RecordsTellTheTruth`: what is recorded released has a visible release of its commits, or of the commits of a revision that builds its bytes |
| `cluster_serial` | 1 apply after another, started again for ever, 2 patch documents, 4 deaths, reboots, wipes or waits that take too long; or 2 applies of a secret and a release, 2 clusters, 2 versions of the document, 1 fault | `NothingIsLost`, `OneBundleForLife`, `ClusterComesUp`; `OtherClustersAreLeftAlone`, `NoReleaseGoesBack`, `ReleasesComeUp` |
| `reconcile_runs` | runs and a reconcile on a laptop, 2 files in 2 repos, 2 managers, 3 versions of the pipeline of which the last hands a file to the other manager, 2 acts of people, 1 fault | `StandsOnSettled`: what a release stands on was pushed; `OwnersStay`; `WorkIsReleased`; `ReleasesEnd`; `ResourcesFollow` |
| `compute_runs` | a file of 2 stages after every 2 edits, run whole or by jobs; 2 local runs at once over 3 directories; a script wave by wave; a remote call and its second attempt; 2 remote calls | `NothingIsSkipped`: what `Validate` accepts is run as it reads; `KeepsPromise`: `LocalCompute` implements `TargetRun`; `WavesDoNotOverlap`; `AnswersAreItsOwn`; `EveryCallAnswers`, unless a request of it never returns |
| `commits_followed` | a line of up to 3 commits over 5 kinds of subject, every strategy, with and without a cap, at the two figures of a minor, with a release by hand; or polls of 2 triggers: one poller, a fault and two moves, with files generated again, or two pollers and one move; or a workflow of 3 stages of 3, 1 and 1 substages with a need, uses and a tolerant first stage, in all three cuts, 2 faults | `NextIsNew`: a decided version is above all that is out; `StaysInCap`; `EveryCommitCounts`; `WhatMovedIsTold`; `PollsComeToRest`; `OnlyHeldRefuses`, `ReadsWhatStagesBuilt`, `GreenIsProven`, `RunsComeToAnEnd` |

Five runs check one sentence of the repository each and TLC refutes it:

| run | sentence | what happens |
|---|---|---|
| `apply_twice` | "`apply` is idempotent [...] and a duplicate call costs nothing" (`docs/architecture.md:29-30`) | two applies of one revision in one checkout of the state repo both look up no record and both run; one passes and is recorded, the other's run fails and its record takes the place of the green one (`GreenStays`) |
| `release_twins` | "Identical, name for name and byte for byte, means the previous release already is this release" (`publish.go:129-132`) | two revisions of the same released commits build other files (they differ in an ignored repo); the second tags and publishes while the first is between its reads, the first finds the release with a tag pending and records its own index under that number; a later revision of those files is then recorded as released, under a number that ships others (`ConvergesToWhatShips`) |
| `wave_lost` | each exit status of a wave is collected and the first that is not zero is raised (`script_test.go:61-64`) | a member that has failed before the shell runs `$(jobs -p)` is reaped and not in its answer; nobody asks for its status and the run is green (`FailureIsSeen`) |
| `workflow_held` | a substage of the stage in front with no record "has not run, which is this job arriving early" (`stagephase.go:74-76`) | a held substage is reported and never recorded; a tolerant promotion advances the stage without it, its job is green, and the next stage's job asks for the record of every substage: it is refused, and started again it is refused again (`NoJobIsRefused`) |
| `workflow_sibling` | "a job that waits on a sibling downloads too, because the sibling may have built what it is about to read" (`templates.go:354`) | what was downloaded lies in the artifact directory; `carryForward` brings the files of the stages in front to where targets read them, and nothing of a sibling (`ReadsWhatSiblingsBuilt`) |

Other disagreements met while modelling; where a change of a run's constants
shows one, it is in brackets.

* "a cluster holds one bundle for its whole life" (`ci-manager-talos/docs/usage.md:106`):
  two applies mint while the node is in maintenance; the slower one dials with
  the credential the faster one saved, takes the difference for an edit and
  applies a config of its own bundle (`OneBundleForLife` with two processes and `Alone = FALSE`).
* A caller that pushed on an unchanged put "would push nothing"
  (`statecontroller.go:352`): after a failed push in a kept checkout the same put
  stages nothing, answers, and the remote never gets the record
  (`AcknowledgedIsOnRemote` without `Disposable`).
* "tags whose release the next run finishes" (`ci-artifact-release/handlers.go:235-237`):
  the next apply reads the cut tag as the last release and skips, so that
  a revision with its tags and no release stays so; what does finish it is a rerun
  of the stages job with the decision it was told, as in `records_serial`.
* "A prerelease is released as the version it was a candidate for, so the bump
  is already spent" (`version.go:176-177`): with `v0.10.0-rc1` tagged by hand,
  git lists it above `v0.10.0` even when that is out; it is decided again for
  ever, and its publish is refused (a prerelease in `ByHand`).
* `docs/architecture.md:118`, "A passed substage is never run again": a passed
  substage with an open gate is (`Reusable` wants `green`).
* `docs/architecture.md:68`, a substage whose need did not advance is not run
  "and the stage does not advance": with a tolerant promotion it may, and the
  stage job after it is then refused, because the held substage has no record.
  `PhasesAgree` is therefore asked of pipelines without that combination
  (`WholeWhereNeeded`). Cut by
  substages, the same pipeline does stop: a job is skipped when one it needs
  failed, promotion or not.
* `statecontroller.go:266`, "nobody picks a winner": two checkouts that put the
  same key clash, and a kept checkout then stays in the stopped rebase.
* `release.go:122`, "Proceeding is safe because every publish converges": a
  revision that took over a release by its bytes and died before its run record
  is refused by its next apply, which knows no previous version to compare with.
  So is one that took over the release of a revision of the same commits, which
  takes a third fault. `OwnReleaseConverges` is the part that holds: it is asked
  of a revision whose record is of its own release (`byRev[r].set = r`).
* `ci-manager-talos/docs/usage.md:93`, a run that stops between the apply and
  the bootstrap "must be rerun": the rerun's `Declare` refuses, because the node
  holds a config and runs no cluster, until somebody bootstraps it by hand.
* A release that dies between publish and record is given a second number by
  the patch strategy, which reads no subjects; a tag a dead release left in a
  kept checkout counts as the last version.
* A whole apply after a release job that died between two tags counts the home
  repo's tag as the last version and gives the revision a second number
  (`OneNumberPerRevision` is therefore asked of evaluate and stages jobs).
* `settle.go:18`, "files in a git checkout are durable once pushed", and
  `docs/architecture.md:164`, every apply "settles what it changed with a scoped
  push": in a kept checkout a file that was written and not committed, because
  the process died, or committed and not pushed, is as declared for the next
  reconcile, which changes nothing and settles nothing. A run of the workflow
  starts in a new clone, which is why `StandsOnSettled` holds of it.
* `docs/architecture.md:151`, "forge-ci records which manager owns which
  resource": it does so after the last manager. A reconcile that failed in the
  second recorded nothing of the first, and a pipeline that then moves a resource
  has another manager make it too, unrefused. `OwnersStay` is about what was
  recorded.
* The push of a settle pushes the branch, so what a person committed on a laptop
  and had not pushed goes with it (`settle.go:22` promises that of uncommitted
  work only).
* `poll` "Asks the triggers whether anything moved" (`docs/architecture.md:25`):
  an error at a later trigger discards the movement an earlier one has recorded,
  and so does a put whose push fails after the record was written; the next poll
  finds nothing moved. `WhatMovedIsTold` counts an answer of error as telling.

Met while reading, and in no model:

* `--revision` pins the id and not the files: the local compute runs what the
  checkout holds ("A run proves one set of commits", `docs/architecture.md:74`).
* `get` reads the checkout and does not fetch, so a record another run pushed is
  not seen (`statecontroller.go:145`); a put on a detached HEAD commits and
  skips the push (`statecontroller.go:250`); two checkouts that put their first
  LFS payloads both write the shared `.gitattributes` (`statecontroller.go:303`).
* A converged publish answers no index, and its record by tag replaces the one
  that had it (`publish.go:180`).
* With `storage: memory` Helm keeps no record, so that every reconcile installs
  again.

### Bounds

Two processes are what an overwritten record, a lost push, a contested tag or a
contested node needs; three stages are what "asks about one stage only" needs
(the stage in front of the one in front), and what a file needs to be carried
past a stage; two repos give a release a middle. A fault budget of one to four
puts a crash in every position and, with two, a crash during the recovery from
the first.

* `release_*`, `records_serial`: `LastVersion` is larger than the number of versions the revisions
  and faults can cut in `records_serial`, so that `DecideBump` is never the step
  that is missing there.
* `commits_followed`: three commits give a decision, its publish and the next
  decision a commit between any two; the line starts at `v0.9.0` and the caps are
  the major 0 and the minor 0.10, so that 9 to 10 and the cap are next to each
  other; two moves are what a torn measurement of two commands needs, and one
  fault is a poll that records what it never answers; only the single poller has
  its files generated again, since no measurement holds them; two faults
  of a workflow are a failed target and, in the rerun, a lost runner, an expired
  artifact or a push of somebody else.
* `cluster_serial`: four bundles are one more than the recovery directory, its
  copy and the talosconfig can hold, so that `Mint` is never short of one; four
  faults are two wipes with a death in the recovery from each. One fault among
  two applies is one moved kubeconfig, one failed install or one lost apply.
* `reconcile_runs`: the second version of the pipeline may be pushed at the
  start, so that with two more acts a laptop reconciles one version while a run
  reconciles the next; every push starts a run (`Notifying`), because of a repo
  where none does the code promises nothing; the image alternates between two,
  which is enough for a release that changes what the next run renders.
* `compute_runs`: three directories, one of which needs the other two, give a
  wave of two and a wave of one; the plans name them out of order. Two edits
  are what a name and the reference that follows it need. Two attempts are what an old run that
  ends during the new one's wait needs; `Page` is one, so that a run scrolls off
  the first page.
`apply_phased` has one revision and `release_pair` whole applies only, so that their
specifications (`StaySpec`, `WholeSpec`) leave out the actions that could not happen
there: a move of the checkout, and the phases of a release. `records_serial` has
those, since it goes through `Next` of both modules.
The runs that say `CHECK_DEADLOCK FALSE` may stop: people stop acting, a call
has answered, a workflow is green. `Proc` is a symmetry set where no liveness is
checked. Every property has a mutant of the code (`mutants`) that the run
refutes.

### Fairness

Nowhere is a fault forced.

* `ApplyLoop`: a process that can take a step takes one (goroutines are
  scheduled, calls return or err); a timer keeps starting applies
  (`docs/architecture.md`: safe on a timer); somebody approves in the end.
* `StateStore`: steps, and a failed CI job is run again in a new clone.
* `Release`: steps, and somebody reruns the stages job of a decision until it has
  passed; strongly, because the process is busy in between.
* `ClusterBringUp`: steps, applies that are started again, a node that comes back
  from a reboot and registers once it is bootstrapped, and an operator who does
  what a refusal says; `ComesUp` is false without the last.
* `ClusterResources`: the steps of applies, each again started, Flux, and the
  operator, of each thing he was told.
* `SelfReconcile`: a run's steps, and the start of the run that waits. No push,
  tick or reconcile on a laptop is forced, so that a settle that pushes must
  itself bring about the run that carries on.
* `Workflow`: `Work`: the platform goes on with some job, and a red run is
  started again in the end.
* `RemoteCompute`: the caller's steps, the deadline's among them, as long as its
  requests return; that they do is not assumed (`Hang` is outside the fairness),
  and a call whose request never does stands for ever, which `EveryCallAnswers`
  says. Of the runs nothing is assumed: it must hold if none ever ends.
* `Trigger`: a poller polls again and again.

## 4. What is proved

`ApplyLoopProofs`, for any pipeline that satisfies `PipelineAssumption`, any
processes and revisions and any number of faults:

* `TypeCorrect`: `Spec => []TypeOK`;
* `ProgressIsBacked`: `Spec => []RecordsBackProgress`, the inductive invariant;
* `StagesInOrder`, `NeedsComeFirst`, `AdvancedWasProven`: `StageOrder`,
  `NeedsFirst` and `AdvancedIsProven`, the properties it is there for;
* `DisciplineIsKept`: `Spec => KeepsDiscipline`, that the loop implements
  `StageDiscipline`: the initial states map to initial states, and every step,
  put by put, to a recorded run, a finish or a stutter;
* `PhasesDoAgree`: `Spec => []PhasesAgree`, where a stage with needs promotes on
  all of it (`WholeWhereNeeded`, which `MCApplyLoop` assumes of both its
  pipelines, so that TLC evaluates it);
* `GreenIsKept`: `Spec => GreenStays`, where one process runs at a time
  (`OneAtATime`; of two, one may put the run it began before the other's).

`StageOrder` is not inductive: it says what the records hold, and a record is
put by a process whose right to put it lies in what it read earlier. So the
invariant says of every process that what it holds is backed by records
(`SawRecords`), that it works in one stage only (`WorksInItsStage`), what a job
that asks looks at (`AsksTheStageInFront`) and that it stands on proven stages
(`StandsOnProvenStages`). Records are overwritten, by failing reruns among
others, so "backed" cannot refer to `runs`: the history variable `everGreen`
remembers every green record, only grows, and makes those facts stable under the
steps of other processes (lemmas `PromotesGrows` and `ProvenGrows`). That a job
asking about stage k-1 suffices follows from `StageOrder` itself: a green record
in stage k-1 proves the stages in front of it.

`PhasesAgree` needs a second invariant (`NothingGoesUnrecorded`): an apply runs
the whole of every stage and loses sight of none of its substages, so that when
the stage is over each of them was put or held, and held it was for a need; then
the stage promotes on all of it and none can have been held (`StageIsRecorded`).
A job saw a record of each substage of the stage in front before it entered.
`GreenStays` rests on what `runOrReuse` runs again: only what was not green or
could not be brought back (`RerunsWhatItMust`); once what it built is kept again,
the put that follows is green, since an approval is never taken away.

`NeedsAssumption` (the needs have no cycle) is used by no proof: order does not
depend on it, only progress does.

`StateStoreProofs`, for any clones, processes, plans, paths, people's files and
faults that satisfy `StoreAssumption`:

* `TypeCorrect`: `Spec => []TypeOK`;
* `RecordsAreTheirs`: `Spec => [](Typed /\ ComesFrom)`, the invariant under the
  others;
* `FilesStay`: `Spec => []ForeignStaysHere`;
* `NoRunIsStopped`: `Spec => []NobodyPicksAWinner`, that no rebase of a CI run stops;
* `RunsAreStanding`: `Spec => []Inv`, and `AnsweredIsAtRemote`:
  `Spec => []AcknowledgedIsOnRemote`.

The last three need `RunsApart`: of the processes that run at once, one in CI has
its clone and its records for itself. The engine leaves that to its caller and
checks none of it; `MCRecords` assumes it of its two scenes, so that TLC
evaluates it, and the runs of people in one of them clash. `FilesStay` needs
nothing: whatever a checkout has staged, a commit is scoped to the record's path.
A rebase stops when a path both sides changed ends differently, so the argument
follows where commits come from (`ComesFrom`): what a checkout has beyond its base
was put in it, and what the remote has beyond that base was put in another one.
Then a CI rebase cannot clash (`NoRunIsStopped`), and replaying is appending:
which of its own commits a rebase drops is a count over sequences (`CountedOff`,
from the well-foundedness of the naturals). A CI clone that did not err is at
every step of a put the remote it last saw with at most the record under way on
top (`Standing`), so that a push which the remote takes takes that record and
nothing else (`Outcome`), and what was answered lasts because only its own process
puts over it (`Lasts`).

`ReleaseProofs`, for any processes, repos, revisions, versions, commit history
and bytes that satisfy `ReleaseAssumption`, in fresh clones or kept checkouts,
whole applies and phases alike, with any number of faults:

* `TypeCorrect`: `Spec => []TypeOK`;
* `Backing`: `Spec => []ReleasesAreBacked`, the inductive invariant;
* `ReleasesAppearWhole`, `RecordsAreTrue`: `WholeReleases` and
  `RecordsTellTheTruth`, which it contains;
* `OneNumber`: `Spec => []OneNumberPerRevision`, where the home repo is tagged last,
  from fresh clones and by subjects (`HomeIsLast`).

A publish does not look at the tags again, so that what it shows is whole rests
on what the process did before: the tags it has read or cut are at its commits
(`TagsItsOwn`). That survives the other processes only because a remote's tag,
once set, is never moved; `PushTagForced`, which moves one, breaks it. A record
is true because a process about to record found or made the release under its
number (`RecordsWhatIsVisible`). Whose files that release ships is another matter.
The tags and the release are read one after another, so that a process may find
the release of another revision of its own commits; all the tags agree, since it
was whole when it appeared and tags stay, but the index recorded is then that of
some revision of those commits (`IndexTells`), not always of the one the release
was built from. So a byte comparison proves of the release it converges to that a
revision of its commits builds these bytes, and no more; `release_twins` is the
run that shows the difference.
`Least` and `Greatest` (a nonempty set of numbers up to a
bound has a least and a greatest one) are derived from the well-foundedness of
the naturals, because no installed prover instantiates the induction rule.

`OneNumber` complements `records_serial`, which has one process at a time in kept
checkouts, the home repo tagged first, and evaluate and stages jobs only: here any
number of whole applies and jobs run at once. Repos are tagged in the order of the
release engine's plan, home is the repo its spec names, and `decideRelease` takes
home's last tag for the last version. With home last, that version is cut in every
repo; with home first, a process that died between two tags has burnt the number
(section 3). The invariant is `OnOneLine`: cut versions are whole, and the commits
go up with the number (`Ordered`); a decision, taken or handed on, is for a cut
version or for the next one, and then its commits are ahead of every cut one
(`Follows`). TLC agrees on two processes and three revisions, 6.5 million states,
too large to keep as a run.

* `SetsAreTagged`: `Spec => []SetsAreShown`, whatever the workflow, and
  `OwnReleases`: `Spec => []OwnReleaseConverges`, where one process runs at a time
  and the repository is released either by whole applies or by phases, not by both
  (`OneWay`, which `records_serial` satisfies).

A publish compares with what the record of the previous version, or of the
revision, says was shipped. `SetsAreShown` says that a record or a decision of
another set than its revision's is of a release that is visible, its tags cut at
that set's commits; it holds with any number of processes, because a tag is never
moved. That a rerun is not refused also needs one number per set: the records of
a set, and the decisions in force for it, go by one number (`OneVoice`). A
decision that a job evaluates and one that an apply takes may differ, which is why
`OneWay` asks for one of them.

`ClusterProofs`, for any bundles, patch documents, faults and, but for the first,
one apply at a time (`Alone`: without it two applies break each of them, as
described in section 3 of `OneBundleForLife`):

* `TypeCorrect`: `Spec => []TypeOK`, also of applies that run at once;
* `Backing`: `Spec => []BackedUp`, the inductive invariant;
* `BundlesAreSafe`, `BundlesLast`, `BundlesAreNotOverwritten`: `NothingIsLost`,
  `OneBundleForLife` and `NoBundleIsOverwritten`, which rest on it.

`NothingIsLost` says what is on disk once the node has a config; that is decided
steps earlier, by what the process wrote before its apply (`HoldsItsBundle`), and
holds only because the directory is moved away while no node stands on it
(`AdviceFits`), a process that renders has the bundle of the node if the node has
a config, and a cluster is where a config is (`StageFits`). The types need
`Renders`: a process past its declaration has minted or read a bundle.

`SelfReconcileProofs`, for any files, repos, managers, versions of the pipeline,
laptops, acts of people and faults:

* `TypeCorrect`: `Spec => []TypeOK`;
* `Refusal`: `Spec => []RecordsItsOwn`, and `OwnersAreKept`: `Spec => OwnersStay`;
* `WorkIsTracked`: `Spec => []TracksItsWork`, and `SettledBeforeRelease`:
  `Spec => []StandsOnSettled`.

A put replaces the ownership record as a whole, long after it was read. It changes
no recorded owner because the state engine lets it pass only when nobody changed
what was read, and because what the process went through was recorded, when it
read, under nobody or under the manager it declares (`RecordsItsOwn`, which has
to follow the process manager by manager and resource by resource, since the
refusal looks at one resource at a time). `StandsOnSettled` speaks of two jobs
that run when the settles are over, so the invariant follows the work: a file
that differs from its commit was noted and its repo is due (`NotesItsWrites`), a
commit waits for the push under way or the run fails (`AwaitsItsPush`), what a
manager came to is as declared or the run fails (`HoldsWhatItCameTo`). It starts
from a new clone (`StartTracks`); of a kept checkout it is false.

`ReleaseLineProofs`, for any vocabulary, policies, history and tags that satisfy
`LineAssumption`, and where nobody tags a prerelease by hand:

* `TypeCorrect`: `Spec => []TypeOK`;
* `CapIsKept`: `Spec => []StaysInCap`;
* `VersionsMoveOn`: `Spec => NextIsNew`;
* `NoCommitSlips`: `Spec => []EveryCommitCounts`, where moreover no subject carries
  tokens of one length from two lists (`OneList`).

`LineAssumption` leaves the cap `v0.0` out, under which a line that has no tag
yet starts at `v0.1.0`. Without prereleases the order of git's names and that of
versions are one (`AllFinal`), the first tag git lists is the greatest, and
what `Bump` makes of it is above it. `CapIsKept` rests on that too: a candidate's
release is the one move that no cap is asked about. `NoCommitSlips` follows every
release back to the one in front of it (`CountInv`): the greatest tag is the last
release, so that the subjects since that tag are the ones no version has counted,
and a bump by the level of the greatest of them counts each. Where two lists
dispute a subject with tokens of one length, `Classify` decides by the order it
looks at them, and which level the subject claims is undefined; that is all
`OneList` leaves out.

`ClusterProofs` also has, for any clusters, secrets, releases, applies at once and
faults, under `DeclarationAssumption` (which `Clusters` assumes of the resources,
so that TLC evaluates it in `cluster_serial`):

* `ResourceTypeCorrect`: `Resources!Spec => []Resources!TypeOK`, and `Standing`:
  `Resources!Spec => []ResourceInv`;
* `OthersStay`, `ReleasesGoOn`: `Resources!Spec => OtherClustersAreLeftAlone` and
  `Resources!Spec => NoReleaseGoesBack`.

What is written goes through the copy an apply holds, and an apply that writes
holds a copy that was confirmed (`StandsOnDeclared`). That a wait which ends may
mark the release up needs that nobody else has it: Helm's record of a pending
install lets one apply wait (`WaitsAlone`).

`WorkflowProofs`, for any stages, needs, uses, promotions, what substages build and
write, faults and reruns that satisfy `StagesAssumption`, in all three cuts:

* `TypeCorrect`: `WorkflowSpec => []WorkflowTypeOK`;
* `OnlyTheHeld`: `WorkflowSpec => []OnlyHeldRefuses`;
* `FilesArrive`: `WorkflowSpec => []ReadsWhatStagesBuilt`;
* `GreenRuns`: `WorkflowSpec => []GreenIsProven`.

All four come out of one invariant, `IInv`. The revision is answered once, before
any job that is told it (`EvaluatedOnce`), and a job that failed keeps the answer
when it is started again. What a job holds of a substage is its own and recorded
(`OwnView`), what it built is green and what it kept has a record (`OwnFiles`), it
has passed the stages behind it (`OwnStage`). The needs that `templates.go`
renders are stated as what they are for: a job has begun only when every job of
the stages in front of it is green (`InOrder`), which is why it is refused for a
held substage alone (`Refusals`), and why what those jobs kept is on its runner
before it asks and in place before it runs (`Brought`; `WholeFiles` for the one
job of a whole apply, which downloads nothing and has to bring back what an
earlier attempt kept). The types need `Counters`: the tip of the repo and the
issues are bounded because a push that had something, and an issue, is counted
once for its job, reruns included.

`ComputeProofs` begins with the order itself, for every list of names, every graph
and every configuration:

* `WavesAreWellOrdered`: what `WavesOf` makes of a list without a cycle leaves no
  name out, makes none up, and has each in an earlier wave than what needs it;
* `PlansAreLayered`: `Layered`, the plan of a run has waves and no command rests
  on one of its own wave or of a later one.

`WavesOf` and `Plan` are recursive functions. The induction rule of the library
takes an operator and cannot be instantiated, so the section derives what it
needs from the well-foundedness of the naturals (`LeastOf`: a nonempty set of
numbers has a least one; `Unfolds`, `GoesOnLike`: a function that is defined turn
by turn is). Turns are bounded because a turn that is not stuck takes something
away (`PendingShrinks`). `MCCompute` still assumes `Layered` of its plans: TLC
evaluates there what is proved here.

For any number of local runs at once over the same checkouts:

* `TypeCorrect`: `Spec => []TypeOK`, and `WavesGoInOrder`: `Spec => []Inv`;
* `EvidenceIsKept`: `Spec => []EvidenceIsItsOwn`, that a run which passed carries its own
  reports and none older than it (a neighbour's in the same directory it may carry);
* `PromiseIsKept`: `Spec => KeepsPromise`, that the engine implements `TargetRun`.

The waves in front of a run's have passed and those behind it have not
started (`WaveByWave`), which is what lets a job of `TargetRun` start; the answer
is what the exits say (`AnswersItsJobs`); a command that ran left its report in the
store, not older than the run (`LeavesItsReport`), although other runs harvest
the same directories.

For any number of remote calls, attempts, polls and runs on a page, whatever
GitHub, its shell and people do:

* `RemoteTypeCorrect`: `Remote!Spec => []Remote!TypeOK`, and `ScriptsGoInOrder`:
  `Remote!Spec => []RemoteInv`;
* `AnswersAreTheirOwn`: `Remote!Spec => []AnswersAreItsOwn`;
* `ScriptsDoNotOverlap`: `Remote!Spec => []WavesDoNotOverlap`.

A call finds its run by a marker nobody else has, so that whatever page it looks at
it finds its own or none, and answers what that one was concluded with
(`LooksAtItsOwn`). A script is past a wave only when every job of it has ended:
the shell may forget a job that ended before it listed them, but what still runs
is on its list (`ScriptInOrder`). What it forgets is an exit, which `wave_lost`
shows; order is not lost with it.

For any pipeline file as first written and any number of edits (`FileAssumption`
says only that the file is one a parser could make):

* `FileTypeCorrect`: `FileSpec => []FileTypeOK`;
* `AcceptedIsRun`: `FileSpec => []NothingIsSkipped`.

The invariant (`FileInv`) is that of a walk over an accepted file. What ran is
recorded as the file asks for it, once, and after what it needs (`RanRight`); the
stages in front have run whole, and of this one the waves in front, no more and
no less (`RanSoFar`). That it is kept rests on one lemma for each way in which an
apply reads the file differently from `Validate`: the first and the last of a
name are one (`OneOfAName`); a target is found and runs in directories that can be
ordered, because a part of what can be ranked can be (`TargetsAreRun`,
`DirectoriesAreOrdered`, by `OrderedIsRanked` and `RankedIsOrdered`); each substage
is in one wave, after what it needs, so that nobody is held (`SubWavesGoOnce`);
a use names a stage in front, whose record is there to be brought
(`WantedIsBrought`). With `SubHolds` allowing a substage to need itself the third
fails, and TLC shows the walk.

The inductive invariants (`RecordsBackProgress`, `NothingGoesUnrecorded`,
`RerunsWhatItMust`, `ReleasesAreBacked`, `OnOneLine`, `SetsAreShown`, `OneVoice`,
`CountInv`, `BackedUp`, `ResourceInv`, `RecordsItsOwn`, `TracksItsWork`, `RemoteInv`,
`FileInv`, `IInv`, and an `Inv` each in two modules) and what they imply beyond the
runs' properties (`StageOrder`, `AdvancedIsProven`, `NoBundleIsOverwritten`) are
proved and listed in no cfg.

Every safety property that a run checks is a theorem, but for `Trigger`, which is
only model-checked, with its types. Only model-checked are also
`OneNumberPerRevision` where home is not tagged last (`records_serial`), and all
liveness (`EventuallyGreen`, `EveryPlanEnds`, `DecisionsAreCarriedOut`,
`ClusterComesUp`, `ReleasesComeUp`, `WorkIsReleased`, `ReleasesEnd`,
`ResourcesFollow`, `EveryCallAnswers`, `WhatMovedIsTold`, `PollsComeToRest`,
`RunsComeToAnEnd`), which the prover does not handle.

## 5. Not modelled, and the plan

What could come next: a proof about `Trigger`, that a poll which measures what
is recorded answers no movement; reads that lag behind the remote and
LFS payloads in `StateStore`; several release substages in `Release`; several
repos with subjects of their own in `ReleaseLine`.

Left out for good, and why:

* **Terraform manager** (`terraformrealizer.go`, `terraformadapter`): init, plan,
  show, apply of a directory, one command after another with nothing shared but
  Terraform's own state and lock; a model would restate its early returns.
* **Local and dry-run managers**: one write or none.
* **Kubernetes release records in memory**, dry runs of every manager: they change
  nothing that outlives the process.
* **Repository secrets**: only `bootstrap` writes them, by hand.
* **Notify trigger**: renders a workflow that calls forge-ci; it polls nothing.
* **Container registry and archives** (`containercontroller`, digests, modes):
  a file is there or not in `Workflow`, `ApplyLoop` and `Release`.
* **Text**: generated workflows beyond jobs, conditions, needs and files; machine
  configs; Helm values; URIs; names; the rules of `versioning` in the file.
* **Command line and engine calls**: flag parsing, JSON-RPC framing, one
  synchronous process per call; each call is one step of its caller.
* **Documentation, mocks and generated code**: no state. Sixteen generated
  `zz_generated.validate.go` of 1350 lines each are over half of the repository's
  Go lines: they check the shape of an engine's spec before the engine runs, and
  a model of a shape check would be the shape again.
